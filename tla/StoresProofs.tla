----------------------------- MODULE StoresProofs -----------------------------
(* The proofs about what MCStores runs one at a time.  An invariant of a part  *)
(* is proved of the part's own specification and carried over by its <Part>Run *)
(* lemma: every behaviour of MCStores is one of each part.                     *)
EXTENDS MCStores, FiniteSetTheorems, SequenceTheorems, WellFoundedInduction, TLAPS

-----------------------------------------------------------------------------
(* The parts within the whole *)

LEMMA HistoryRun == Spec => History!Spec
<1>1. Init => History!Init
  BY DEF Init
<1>2. [Next]_<<part, history, surface, mirror, bridge, joins>>
      => [History!Next]_(History!vars)
  BY DEF Next, history, History!vars
<1> QED BY <1>1, <1>2, PTL DEF Spec, History!Spec

LEMMA SurfaceRun == Spec => Surface!Spec
<1>1. Init => Surface!Init
  BY DEF Init
<1>2. [Next]_<<part, history, surface, mirror, bridge, joins>>
      => [Surface!Next]_(Surface!vars)
  BY DEF Next, surface, Surface!vars
<1> QED BY <1>1, <1>2, PTL DEF Spec, Surface!Spec

LEMMA MirrorRun == Spec => Mirror!Spec
<1>1. Init => Mirror!Init
  BY DEF Init
<1>2. [Next]_<<part, history, surface, mirror, bridge, joins>>
      => [Mirror!Next]_(Mirror!vars)
  BY DEF Next, mirror, Mirror!vars
<1> QED BY <1>1, <1>2, PTL DEF Spec, Mirror!Spec

LEMMA BridgeRun == Spec => Bridge!Spec
<1>1. Init => Bridge!Init
  BY DEF Init
<1>2. [Next]_<<part, history, surface, mirror, bridge, joins>>
      => [Bridge!Next]_(Bridge!vars)
  BY DEF Next, bridge, Bridge!vars
<1> QED BY <1>1, <1>2, PTL DEF Spec, Bridge!Spec

LEMMA JoinsRun == Spec => Joins!Spec
<1>1. Init => Joins!Init
  BY DEF Init
<1>2. [Next]_<<part, history, surface, mirror, bridge, joins>> => [Joins!Next]_(Joins!vars)
  BY DEF Next, joins, Joins!vars
<1> QED BY <1>1, <1>2, PTL DEF Spec, Joins!Spec

-----------------------------------------------------------------------------
(* The registry *)

Digests == Surface!Prefixes \cup DOMAIN Manifests

Uploading == {"body", "size", "complete"}
Tagging == {"seal", "write"}

SurfaceRequest == [pc : {"idle"} \cup Uploading \cup Tagging, op
    : {None, "patch", "put", "manifest", "delete"},
            up : Uploads \cup {None}, at : Nat, dig : Digests \cup {None}, tag : Tags \cup {None}]

SurfaceTypes ==
    /\ sessions \in [Uploads -> Nat \cup {None}]
    /\ files \in [Uploads -> Seq(Nat) \cup {None}]
    /\ tags \in [Tags -> DOMAIN Manifests \cup {None}]
    /\ request \in [Clients -> SurfaceRequest]
    /\ disturbed \subseteq used
    /\ Surface!Open \subseteq used

\* A request names a session or a tag, as its step says, and the manifest that
\* it carries is in the store with all that it names.
Stored(m) == {m} \cup Manifests[m].refs \subseteq held
RequestOK(f) ==
    /\ f.up # None <=> f.pc \in Uploading
    /\ f.tag # None <=> f.pc \in Tagging
    /\ f.up # None => f.up \in used
    /\ f.tag # None /\ f.dig # None => f.dig \in DOMAIN Manifests /\ Stored(f.dig)
Requests == \A c \in Clients : RequestOK(request[c])

\* Session u, which one request at a time uses: its size follows its file.
Alone(u) == \A c, d \in Clients : request[c].up = u /\ request[d].up = u => c = d
Ahead(u) == \E c \in Clients : request[c].up = u /\ request[c].pc = "size"
InStep(u) ==
    /\ Alone(u)
    /\ \A c \in Clients : request[c].up = u /\ request[c].pc = "body" => request[c].at = sessions[u]
    /\ Ahead(u) => sessions[u] + 1 <= MaxChunks
          /\ files[u] = SubSeq(Surface!Whole, 1, sessions[u] + 1)
    /\ ~Ahead(u) => sessions[u] <= MaxChunks /\ files[u] = SubSeq(Surface!Whole, 1, sessions[u])

SessionsInStep == \A u \in Surface!Open \ disturbed : InStep(u)

SurfaceInv == SurfaceTypes /\ Requests /\ Surface!TagsComplete /\ SessionsInStep

-----------------------------------------------------------------------------

LEMMA IdleIsRequest ==
  ASSUME Surface!RegistryAssumption
  PROVE  Surface!Idle \in SurfaceRequest /\ RequestOK(Surface!Idle) /\ Surface!Idle.up = None
      /\ Surface!Idle.tag = None /\ Surface!Idle.pc = "idle"
BY DEF Surface!Idle, SurfaceRequest, RequestOK, Uploading, Tagging

LEMMA SurfaceStart == ASSUME Surface!RegistryAssumption, Surface!Init PROVE SurfaceInv
<1>1. SurfaceTypes
  BY IdleIsRequest DEF Surface!Init, SurfaceTypes, Surface!Open
<1>2. Requests /\ Surface!TagsComplete /\ SessionsInStep
  BY IdleIsRequest DEF Surface!Init, Requests, RequestOK, Surface!Idle, Surface!TagsComplete,
     SessionsInStep, Surface!Open
<1> QED BY <1>1, <1>2 DEF SurfaceInv

\* The next chunk makes the next prefix.
LEMMA NextChunk ==
  ASSUME Surface!RegistryAssumption, NEW n \in Nat, n < MaxChunks
  PROVE  Append(SubSeq(Surface!Whole, 1, n), n) = SubSeq(Surface!Whole, 1, n + 1)
<1>1. Surface!Whole \in Seq(Nat) /\ Len(Surface!Whole) = MaxChunks
      /\ \A i \in 1..MaxChunks : Surface!Whole[i] = i - 1
  BY DEF Surface!Whole, Surface!RegistryAssumption
<1> DEFINE s == SubSeq(Surface!Whole, 1, n)  r == SubSeq(Surface!Whole, 1, n + 1)
<1>2. s \in Seq(Nat) /\ Len(s) = n /\ \A i \in 1..n : s[i] = Surface!Whole[i]
  BY <1>1 DEF Surface!RegistryAssumption
<1>3. r \in Seq(Nat) /\ Len(r) = n + 1 /\ \A i \in 1..(n + 1) : r[i] = Surface!Whole[i]
  BY <1>1 DEF Surface!RegistryAssumption
<1> HIDE DEF s, r
<1>4. Append(s, n) \in Seq(Nat) /\ Len(Append(s, n)) = n + 1
      /\ \A i \in 1..(n + 1) : Append(s, n)[i] = IF i = n + 1 THEN n ELSE s[i]
  BY <1>2
<1>5. \A i \in 1..(n + 1) : Append(s, n)[i] = r[i]
  BY <1>1, <1>2, <1>3, <1>4
<1>6. Append(s, n) = r
  BY <1>3, <1>4, <1>5
<1> QED BY <1>6 DEF s, r

LEMMA PrefixLength ==
  ASSUME Surface!RegistryAssumption, NEW n \in Nat, n <= MaxChunks
  PROVE  SubSeq(Surface!Whole, 1, n) \in Seq(Nat) /\ Len(SubSeq(Surface!Whole, 1, n)) = n
      /\ SubSeq(Surface!Whole, 1, n) # None
<1>1. Surface!Whole \in Seq(Nat) /\ Len(Surface!Whole) = MaxChunks
  BY DEF Surface!Whole, Surface!RegistryAssumption
<1>2. SubSeq(Surface!Whole, 1, n) \in Seq(Nat) /\ Len(SubSeq(Surface!Whole, 1, n)) = n
  BY <1>1 DEF Surface!RegistryAssumption
<1> QED BY <1>2 DEF Surface!RegistryAssumption

LEMMA NoChunk == ASSUME Surface!RegistryAssumption PROVE SubSeq(Surface!Whole, 1, 0) = <<>>
<1>1. SubSeq(Surface!Whole, 1, 0) \in Seq(Nat) /\ Len(SubSeq(Surface!Whole, 1, 0)) = 0
  BY PrefixLength DEF Surface!RegistryAssumption
<1> QED BY <1>1

\* Requests stay in order while the store and what was handed out grow.
LEMMA RequestsGrow ==
  ASSUME NEW f, RequestOK(f), used \subseteq used', held \subseteq held'
  PROVE  RequestOK(f)'
BY DEF RequestOK, Stored

LEMMA CompleteGrow ==
  ASSUME Surface!TagsComplete, UNCHANGED tags, held \subseteq held'
  PROVE  Surface!TagsComplete'
BY DEF Surface!TagsComplete

\* What eviction leaves of the sessions.
LEMMA Evicted ==
  ASSUME Surface!RegistryAssumption, SurfaceTypes, NEW gone \in SUBSET Surface!Open,
         sessions' = Surface!Without(gone, sessions), files' = Surface!Without(gone, files)
  PROVE  /\ sessions' \in [Uploads -> Nat \cup {None}]
         /\ files' \in [Uploads -> Seq(Nat) \cup {None}]
         /\ Surface!Open' = Surface!Open \ gone
         /\ \A u \in Surface!Open' : sessions'[u] = sessions[u] /\ files'[u] = files[u]
BY DEF SurfaceTypes, Surface!Without, Surface!Open

\* A session that the step does not touch, and no request for it changes.
LEMMA Untouched ==
  ASSUME NEW u, InStep(u), sessions'[u] = sessions[u], files'[u] = files[u],
         \A c \in Clients : request'[c] = request[c] \/ (request[c].up # u /\ request'[c].up # u)
  PROVE  InStep(u)'
BY DEF InStep, Alone, Ahead


\* A step that only evicts.
LEMMA EvictKeeps ==
  ASSUME Surface!RegistryAssumption, SurfaceInv, NEW gone \in SUBSET Surface!Open,
         sessions' = Surface!Without(gone, sessions), files' = Surface!Without(gone, files),
         disturbed' = disturbed \cup gone, held \subseteq held',
         UNCHANGED <<tags, request, used>>
  PROVE  SurfaceInv'
<1>1. SurfaceTypes'
  BY Evicted DEF SurfaceInv, SurfaceTypes
<1>2. Requests' /\ Surface!TagsComplete'
  BY RequestsGrow, CompleteGrow DEF SurfaceInv, Requests
<1>3. SessionsInStep'
  BY Evicted, Untouched DEF SurfaceInv, SessionsInStep
<1> QED BY <1>1, <1>2, <1>3 DEF SurfaceInv

LEMMA PostKeeps ==
  ASSUME Surface!RegistryAssumption, SurfaceInv, NEW c \in Clients,
         NEW gone \in SUBSET Surface!Open, Surface!Post(c, gone)
  PROVE  SurfaceInv'
<1>1. PICK u \in Uploads \ used :
        /\ sessions' = [Surface!Without(gone, sessions) EXCEPT ![u] = 0]
        /\ files' = [Surface!Without(gone, files) EXCEPT ![u] = <<>>]
        /\ used' = used \cup {u} /\ disturbed' = disturbed \cup gone
        /\ UNCHANGED <<held, tags, request>>
  BY DEF Surface!Post
<1>2. /\ sessions' \in [Uploads -> Nat \cup {None}] /\ files' \in [Uploads -> Seq(Nat) \cup {None}]
      /\ sessions'[u] = 0 /\ files'[u] = <<>>
      /\ \A v \in Uploads \ {u} : sessions'[v] = (IF v \in gone THEN None ELSE sessions[v])
                               /\ files'[v] = (IF v \in gone THEN None ELSE files[v])
  <2>1. <<>> \in Seq(Nat)
    OBVIOUS
  <2> QED BY <1>1, <2>1 DEF SurfaceInv, SurfaceTypes, Surface!Without
<1>3. Surface!Open' = (Surface!Open \ gone) \cup {u}
  BY <1>1, <1>2 DEF Surface!Open, Surface!RegistryAssumption, SurfaceInv, SurfaceTypes
<1>4. SurfaceTypes'
  BY <1>1, <1>2, <1>3 DEF SurfaceInv, SurfaceTypes
<1>5. Requests' /\ Surface!TagsComplete'
  BY <1>1, RequestsGrow, CompleteGrow DEF SurfaceInv, Requests
<1>6. InStep(u)'
  <2>1. \A d \in Clients : request'[d].up # u
    BY <1>1 DEF SurfaceInv, Requests, RequestOK, Surface!RegistryAssumption
  <2> QED BY <1>2, <2>1, NoChunk DEF InStep, Alone, Ahead, Surface!RegistryAssumption
<1>7. ASSUME NEW v \in Surface!Open' \ disturbed', v # u PROVE InStep(v)'
  <2>1. v \in Surface!Open \ disturbed /\ v \notin gone /\ v \in Uploads
    BY <1>1, <1>3, <1>7 DEF Surface!Open
  <2>2. sessions'[v] = sessions[v] /\ files'[v] = files[v] /\ request' = request
    BY <1>1, <1>2, <1>7, <2>1
  <2> QED BY <2>1, <2>2, Untouched DEF SurfaceInv, SessionsInStep
<1> QED BY <1>4, <1>5, <1>6, <1>7 DEF SurfaceInv, SessionsInStep

LEMMA PostWholeKeeps ==
  ASSUME Surface!RegistryAssumption, SurfaceInv, NEW c \in Clients,
         NEW gone \in SUBSET Surface!Open,
         NEW x, NEW d, Surface!PostWhole(c, gone, x, d)
  PROVE  SurfaceInv'
BY EvictKeeps DEF Surface!PostWhole

\* Client c's request becomes f; the others' stay.
LEMMA BecomesTyped ==
  ASSUME SurfaceTypes, NEW c \in Clients, NEW f \in SurfaceRequest, Surface!Set(c, f)
  PROVE  request' \in [Clients -> SurfaceRequest] /\ request'[c] = f
      /\ \A d \in Clients \ {c} : request'[d] = request[d]
BY DEF SurfaceTypes, Surface!Set

LEMMA ChunkKeeps ==
  ASSUME Surface!RegistryAssumption, SurfaceInv, NEW c \in Clients,
         NEW gone \in SUBSET Surface!Open, NEW u \in Uploads,
         NEW k \in Nat, NEW op \in {"patch", "put"}, NEW d \in Digests \cup {None},
         Surface!Chunk(c, gone, u, k, op, d)
  PROVE  SurfaceInv'
<1> DEFINE f == [Surface!Idle EXCEPT !.pc = "body", !.op = op, !.up = u, !.at = k, !.dig = d]
<1>1. /\ Surface!At(c, "idle") /\ sessions' = Surface!Without(gone, sessions) /\ files' = Surface!Without(gone, files)
      /\ u \in Surface!Open \ gone
      /\ disturbed' = disturbed \cup gone \cup (IF Surface!Busy(u) THEN {u} ELSE {})
      /\ UNCHANGED <<held, tags, used>>
      /\ (Surface!Continues(u, k) /\ Surface!Set(c, f))
            \/ (~Surface!Continues(u, k) /\ UNCHANGED request)
  BY DEF Surface!Chunk
<1>2. f \in SurfaceRequest /\ f.up = u /\ f.pc = "body" /\ f.at = k /\ f.tag = None
  BY DEF Surface!Idle, SurfaceRequest, Uploading
<1> HIDE DEF f
<1>3. request' \in [Clients -> SurfaceRequest]
  BY <1>1, <1>2, BecomesTyped DEF SurfaceInv, SurfaceTypes
<1>4. SurfaceTypes'
  BY <1>1, <1>3, Evicted DEF SurfaceInv, SurfaceTypes
<1>5. Requests'
  <2>1. RequestOK(f)'
    BY <1>1, <1>2 DEF RequestOK, Uploading, Tagging, SurfaceInv, SurfaceTypes,
       Surface!RegistryAssumption
  <2> QED BY <1>1, <1>2, <2>1, RequestsGrow, BecomesTyped DEF SurfaceInv, Requests
<1>6. Surface!TagsComplete'
  BY <1>1, CompleteGrow DEF SurfaceInv
<1>7. ASSUME NEW v \in Surface!Open' \ disturbed' PROVE InStep(v)'
  <2>1. v \in Surface!Open \ disturbed /\ sessions'[v] = sessions[v] /\ files'[v] = files[v]
        /\ InStep(v)
    BY <1>1, <1>7, Evicted DEF SurfaceInv, SessionsInStep
  <2>2. CASE v # u \/ request' = request
    <3>1. request[c].up = None /\ v # None
      BY <1>1, <2>1 DEF Surface!At, SurfaceInv, Requests, RequestOK, Uploading,
         Surface!RegistryAssumption, Surface!Open
    <3> QED BY <1>1, <1>2, <2>1, <2>2, <3>1, Untouched, BecomesTyped DEF SurfaceInv
  <2>3. CASE v = u /\ Surface!Set(c, f) /\ Surface!Continues(u, k)
    <3>1. \A e \in Clients : request[e].up # u
      BY <1>1, <1>7, <2>3 DEF Surface!Busy
    <3>2. request'[c] = f /\ \A e \in Clients \ {c} : request'[e] = request[e]
      BY <1>2, <2>3, BecomesTyped DEF SurfaceInv
    <3> QED BY <1>2, <2>1, <2>3, <3>1, <3>2 DEF InStep, Alone, Ahead, Surface!Continues
  <2> QED BY <1>1, <2>2, <2>3
<1> QED BY <1>4, <1>5, <1>6, <1>7 DEF SurfaceInv, SessionsInStep


\* A request that stops using a session leaves it to nobody.
LEMMA AppendKeeps ==
  ASSUME Surface!RegistryAssumption, SurfaceInv, NEW c \in Clients, Surface!AppendBody(c)
  PROVE  SurfaceInv'
<1> DEFINE u == request[c].up
           content == IF files[u] = None THEN <<>> ELSE files[u]
<1>1. PICK pc \in {"size", "complete"} :
        /\ Surface!At(c, "body") /\ Surface!Set(c, [request[c] EXCEPT !.pc = pc])
        /\ UNCHANGED <<sessions, held, tags, used, disturbed>>
        /\ \/ pc = "size" /\ Len(content) < MaxChunks /\ files' = [files
               EXCEPT ![u] = Append(content, request[c].at)]
           \/ pc = "complete" /\ UNCHANGED files
  BY DEF Surface!AppendBody, Surface!Goto
<1>f. PICK f : f = [request[c] EXCEPT !.pc = pc]
  OBVIOUS
<1>2. request[c] \in SurfaceRequest /\ RequestOK(request[c]) /\ request[c].pc = "body"
  BY <1>1 DEF SurfaceInv, SurfaceTypes, Requests, Surface!At
<1>3. /\ f \in SurfaceRequest /\ f.up = u /\ f.pc = pc /\ f.tag = request[c].tag /\ f.dig = request[c].dig
      /\ u \in Uploads /\ u \in used /\ f.tag = None /\ request[c].at \in Nat /\ Surface!Set(c, f)
  BY <1>1, <1>2, <1>f DEF SurfaceRequest, RequestOK, Uploading, Tagging
<1>4. content \in Seq(Nat)
  BY <1>3 DEF SurfaceInv, SurfaceTypes
<1>5. files' \in [Uploads -> Seq(Nat) \cup {None}] /\ \A v \in Uploads \ {u} : files'[v] = files[v]
  <2>1. Append(content, request[c].at) \in Seq(Nat)
    BY <1>3, <1>4
  <2> HIDE DEF content
  <2> QED BY <1>1, <1>3, <2>1 DEF SurfaceInv, SurfaceTypes
<1> HIDE DEF content
<1>6. request' \in [Clients -> SurfaceRequest] /\ request'[c] = f
      /\ \A d \in Clients \ {c} : request'[d] = request[d]
  BY <1>1, <1>3, BecomesTyped DEF SurfaceInv
<1>7. SurfaceTypes'
  BY <1>1, <1>5, <1>6 DEF SurfaceInv, SurfaceTypes, Surface!Open
<1>8. Requests'
  <2>1. RequestOK(f)'
    BY <1>1, <1>3 DEF RequestOK, Uploading, Tagging, Surface!RegistryAssumption
  <2> QED BY <1>1, <1>6, <2>1, RequestsGrow DEF SurfaceInv, Requests
<1>9. Surface!TagsComplete'
  BY <1>1, CompleteGrow DEF SurfaceInv
<1>10. ASSUME NEW v \in Surface!Open' \ disturbed' PROVE InStep(v)'
  <2>1. v \in Surface!Open \ disturbed /\ InStep(v) /\ v \in Uploads
    BY <1>1, <1>10 DEF SurfaceInv, SessionsInStep, Surface!Open
  <2>2. CASE v # u
    BY <1>1, <1>3, <1>5, <1>6, <2>1, <2>2, Untouched
  <2>3. CASE v = u
    <3>1. \A e \in Clients : request[e].up = u => e = c
      BY <2>1, <2>3 DEF InStep, Alone
    <3>2. ~Ahead(u) /\ request[c].at = sessions[u]
      BY <1>2, <2>1, <2>3, <3>1 DEF InStep, Ahead
    <3>3. sessions[u] \in Nat /\ sessions[u] <= MaxChunks
          /\ files[u] = SubSeq(Surface!Whole, 1, sessions[u])
      BY <2>1, <2>3, <3>2 DEF InStep, Surface!Open, SurfaceInv, SurfaceTypes
    <3>4. content = files[u] /\ Len(content) = sessions[u]
      BY <3>3, PrefixLength DEF content
    <3>5. CASE pc = "size"
      <4>1. files'[u] = Append(files[u], sessions[u]) /\ sessions[u] < MaxChunks
        BY <1>1, <1>3, <3>2, <3>4, <3>5 DEF SurfaceInv, SurfaceTypes
      <4>2. files'[u] = SubSeq(Surface!Whole, 1, sessions[u] + 1)
        BY <3>3, <4>1, NextChunk
      <4>3. request'[c].up = v /\ request'[c].pc = "size"
            /\ \A e \in Clients : request'[e].up = v => e = c
        BY <1>3, <1>6, <2>3, <3>1, <3>5
      <4>4. Ahead(v)' /\ Alone(v)'
        BY <4>3 DEF Ahead, Alone
      <4>5. sessions'[v] = sessions[u] /\ sessions[u] + 1 <= MaxChunks
        BY <1>1, <2>3, <3>3, <4>1 DEF Surface!RegistryAssumption
      <4> QED BY <2>3, <4>2, <4>3, <4>4, <4>5 DEF InStep
    <3>6. CASE pc = "complete"
      BY <1>1, <1>3, <1>6, <2>3, <3>1, <3>3, <3>6 DEF InStep, Alone, Ahead
    <3> QED BY <1>1, <3>5, <3>6
  <2> QED BY <2>2, <2>3
<1> QED BY <1>7, <1>8, <1>9, <1>10 DEF SurfaceInv, SessionsInStep

LEMMA ResizeKeeps ==
  ASSUME Surface!RegistryAssumption, SurfaceInv, NEW c \in Clients, Surface!Resize(c)
  PROVE  SurfaceInv'
<1> DEFINE u == request[c].up
<1>1. /\ Surface!At(c, "size") /\ UNCHANGED <<files, held, tags, used, disturbed>>
      /\ sessions' = IF sessions[u] = None THEN sessions ELSE [sessions EXCEPT ![u] = @ + 1]
      /\ Surface!Set(c, [request[c] EXCEPT !.pc = "complete"]) \/ Surface!Set(c, Surface!Idle)
  BY DEF Surface!Resize, Surface!Goto, Surface!Answer
<1>2. PICK f \in {[request[c] EXCEPT !.pc = "complete"], Surface!Idle} : Surface!Set(c, f)
  BY <1>1
<1>3. request[c] \in SurfaceRequest /\ RequestOK(request[c]) /\ request[c].pc = "size"
  BY <1>1 DEF SurfaceInv, SurfaceTypes, Requests, Surface!At
<1>4. /\ f \in SurfaceRequest /\ f.up \in {u, None} /\ f.pc \in {"complete", "idle"} /\ (f.up = u <=> f.pc = "complete")
      /\ (f.up # None => f.up \in used) /\ f.tag = None /\ u \in Uploads
  BY <1>3, IdleIsRequest DEF SurfaceRequest, RequestOK, Uploading, Tagging,
     Surface!RegistryAssumption
<1>5. request' \in [Clients -> SurfaceRequest] /\ request'[c] = f
      /\ \A d \in Clients \ {c} : request'[d] = request[d]
  BY <1>2, <1>4, BecomesTyped DEF SurfaceInv
<1>6. /\ sessions' \in [Uploads -> Nat \cup {None}] /\ Surface!Open' = Surface!Open
      /\ \A v \in Uploads \ {u} : sessions'[v] = sessions[v]
      /\ u \in Surface!Open => sessions[u] \in Nat /\ sessions'[u] = sessions[u] + 1
  BY <1>1, <1>4 DEF SurfaceInv, SurfaceTypes, Surface!Open, Surface!RegistryAssumption
<1>7. SurfaceTypes'
  BY <1>1, <1>5, <1>6 DEF SurfaceInv, SurfaceTypes
<1>8. Requests'
  <2>1. RequestOK(f)'
    BY <1>1, <1>4 DEF RequestOK, Uploading, Tagging, Surface!RegistryAssumption
  <2> QED BY <1>1, <1>5, <2>1, RequestsGrow DEF SurfaceInv, Requests
<1>9. Surface!TagsComplete'
  BY <1>1, CompleteGrow DEF SurfaceInv
<1>10. ASSUME NEW v \in Surface!Open' \ disturbed' PROVE InStep(v)'
  <2>1. v \in Surface!Open \ disturbed /\ InStep(v) /\ v \in Uploads
    BY <1>1, <1>6, <1>10 DEF SurfaceInv, SessionsInStep, Surface!Open
  <2>2. CASE v # u
    BY <1>1, <1>4, <1>5, <1>6, <2>1, <2>2, Untouched DEF Surface!RegistryAssumption
  <2>3. CASE v = u
    <3>1. \A e \in Clients : request[e].up = u => e = c
      BY <2>1, <2>3 DEF InStep, Alone
    <3>2. /\ sessions[u] + 1 <= MaxChunks /\ files[u] = SubSeq(Surface!Whole, 1, sessions[u] + 1)
          /\ sessions'[u] = sessions[u] + 1
      BY <1>3, <1>6, <2>1, <2>3 DEF InStep, Ahead
    <3>3. \A e \in Clients : request'[e].up = u => e = c /\ request'[e].pc = "complete"
      BY <1>4, <1>5, <3>1
    <3> QED BY <1>1, <2>3, <3>2, <3>3 DEF InStep, Alone, Ahead
  <2> QED BY <2>2, <2>3
<1> QED BY <1>7, <1>8, <1>9, <1>10 DEF SurfaceInv, SessionsInStep

LEMMA CompleteKeeps ==
  ASSUME Surface!RegistryAssumption, SurfaceInv, NEW c \in Clients, Surface!Complete(c)
  PROVE  SurfaceInv'
<1> DEFINE u == request[c].up
<1>1. /\ Surface!At(c, "complete") /\ Surface!Set(c, Surface!Idle) /\ UNCHANGED <<tags, used, disturbed>> /\ held \subseteq held'
      /\ \/ UNCHANGED <<sessions, files>> /\ files[u] = None
         \/ files' = [files EXCEPT ![u] = None] /\ sessions' = [sessions EXCEPT ![u] = None]
  BY DEF Surface!Complete, Surface!Answer
<1>2. request[c] \in SurfaceRequest /\ RequestOK(request[c]) /\ u \in Uploads
  BY <1>1 DEF SurfaceInv, SurfaceTypes, Requests, Surface!At, RequestOK, SurfaceRequest, Uploading
<1>3. request' \in [Clients -> SurfaceRequest] /\ request'[c] = Surface!Idle
      /\ \A d \in Clients \ {c} : request'[d] = request[d]
  BY <1>1, IdleIsRequest, BecomesTyped DEF SurfaceInv
<1>4. /\ sessions' \in [Uploads -> Nat \cup {None}] /\ files' \in [Uploads -> Seq(Nat) \cup {None}]
      /\ Surface!Open' \subseteq Surface!Open
      /\ \A v \in Uploads \ {u} : sessions'[v] = sessions[v] /\ files'[v] = files[v]
      /\ u \notin Surface!Open' \/ files[u] = None
  BY <1>1, <1>2 DEF SurfaceInv, SurfaceTypes, Surface!Open
<1>5. SurfaceTypes'
  BY <1>1, <1>3, <1>4 DEF SurfaceInv, SurfaceTypes
<1>6. Requests' /\ Surface!TagsComplete'
  BY <1>1, <1>3, RequestsGrow, CompleteGrow, IdleIsRequest DEF SurfaceInv, Requests
<1>7. ASSUME NEW v \in Surface!Open' \ disturbed' PROVE InStep(v)'
  <2>1. v \in Surface!Open \ disturbed /\ InStep(v) /\ v \in Uploads
    BY <1>1, <1>4, <1>7 DEF SurfaceInv, SessionsInStep, Surface!Open
  <2>2. files[v] # None
    <3>1. sessions[v] \in Nat /\ MaxChunks \in Nat
      BY <2>1 DEF Surface!Open, SurfaceInv, SurfaceTypes, Surface!RegistryAssumption
    <3>2. CASE Ahead(v)
      <4>1. sessions[v] + 1 \in Nat /\ sessions[v] + 1 <= MaxChunks
            /\ files[v] = SubSeq(Surface!Whole, 1, sessions[v] + 1)
        BY <2>1, <3>1, <3>2 DEF InStep
      <4> QED BY <4>1, PrefixLength
    <3>3. CASE ~Ahead(v)
      <4>1. sessions[v] <= MaxChunks /\ files[v] = SubSeq(Surface!Whole, 1, sessions[v])
        BY <2>1, <3>3 DEF InStep
      <4> QED BY <3>1, <4>1, PrefixLength
    <3> QED BY <3>2, <3>3
  <2>3. v # u
    BY <1>4, <1>7, <2>2
  <2> QED BY <1>3, <1>4, <2>1, <2>3, Untouched, IdleIsRequest DEF Surface!RegistryAssumption
<1> QED BY <1>5, <1>6, <1>7 DEF SurfaceInv, SessionsInStep

\* A request for a tag, or the end of one, leaves the sessions alone.
LEMMA TagStepKeeps ==
  ASSUME Surface!RegistryAssumption, SurfaceInv, NEW c \in Clients, NEW f \in SurfaceRequest,
         Surface!Set(c, f), f.up = None, request[c].up = None,
         RequestOK(f)', tags' \in [Tags -> DOMAIN Manifests \cup {None}], Surface!TagsComplete',
             held \subseteq held',
         UNCHANGED <<sessions, files, used, disturbed>>
  PROVE  SurfaceInv'
<1>1. request' \in [Clients -> SurfaceRequest] /\ request'[c] = f
      /\ \A d \in Clients \ {c} : request'[d] = request[d]
  BY BecomesTyped DEF SurfaceInv
<1>2. SurfaceTypes'
  BY <1>1 DEF SurfaceInv, SurfaceTypes, Surface!Open
<1>3. Requests'
  BY <1>1, RequestsGrow DEF SurfaceInv, Requests
<1>4. ASSUME NEW v \in Surface!Open' \ disturbed' PROVE InStep(v)'
  <2>1. v \in Surface!Open \ disturbed /\ InStep(v) /\ v # None
    BY <1>4 DEF SurfaceInv, SessionsInStep, Surface!Open, Surface!RegistryAssumption
  <2> QED BY <1>1, <2>1, Untouched
<1> QED BY <1>2, <1>3, <1>4 DEF SurfaceInv, SessionsInStep

LEMMA PutManifestKeeps ==
  ASSUME Surface!RegistryAssumption, SurfaceInv, NEW c \in Clients, NEW t \in Tags,
         NEW m \in DOMAIN Manifests,
         Surface!PutManifest(c, t, m)
  PROVE  SurfaceInv'
<1> DEFINE f == [Surface!Idle EXCEPT !.pc = "seal", !.op = "manifest", !.tag = t, !.dig = m]
<1>1. CASE Surface!Named(m) \subseteq held
  <2>1. Surface!At(c, "idle") /\ Surface!Set(c, f) /\ held' = held \cup {m}
        /\ UNCHANGED <<sessions, files, tags, used, disturbed>>
    BY <1>1 DEF Surface!PutManifest
  <2>2. f \in SurfaceRequest /\ f.up = None /\ f.tag = t /\ f.dig = m /\ f.pc = "seal"
    BY DEF Surface!Idle, SurfaceRequest, Tagging, Digests
  <2>3. request[c].up = None
    BY <2>1 DEF Surface!At, SurfaceInv, Requests, RequestOK, Uploading
  <2> HIDE DEF f
  <2>4. RequestOK(f)'
    BY <1>1, <2>1, <2>2 DEF RequestOK, Stored, Surface!Named, Uploading, Tagging,
       Surface!RegistryAssumption
  <2> QED BY <2>1, <2>2, <2>3, <2>4, TagStepKeeps, CompleteGrow DEF SurfaceInv, SurfaceTypes
<1>2. CASE ~(Surface!Named(m) \subseteq held)
  <2>1. UNCHANGED <<sessions, files, held, tags, request, used, disturbed>>
    BY <1>2 DEF Surface!PutManifest
  <2> QED BY <2>1 DEF SurfaceInv, SurfaceTypes, Surface!Open, Requests, RequestOK, Stored,
      Surface!TagsComplete, SessionsInStep, InStep, Alone, Ahead
<1> QED BY <1>1, <1>2

LEMMA PutByDigestKeeps ==
  ASSUME Surface!RegistryAssumption, SurfaceInv, NEW c \in Clients, NEW m \in DOMAIN Manifests,
         Surface!PutByDigest(c, m)
  PROVE  SurfaceInv'
<1>1. held \subseteq held' /\ UNCHANGED <<sessions, files, tags, request, used, disturbed>>
  BY DEF Surface!PutByDigest
<1>2. Requests' /\ Surface!TagsComplete'
  BY <1>1, RequestsGrow, CompleteGrow DEF SurfaceInv, Requests
<1> QED BY <1>1, <1>2 DEF SurfaceInv, SurfaceTypes, Surface!Open, SessionsInStep, InStep, Alone,
    Ahead

LEMMA DeleteTagKeeps ==
  ASSUME Surface!RegistryAssumption, SurfaceInv, NEW c \in Clients, NEW t \in Tags,
         Surface!DeleteTag(c, t)
  PROVE  SurfaceInv'
<1> DEFINE f == [Surface!Idle EXCEPT !.pc = "seal", !.op = "delete", !.tag = t]
<1>1. Surface!At(c, "idle") /\ Surface!Set(c, f)
      /\ UNCHANGED <<sessions, files, held, tags, used, disturbed>>
  BY DEF Surface!DeleteTag
<1>2. f \in SurfaceRequest /\ f.up = None /\ f.tag = t /\ f.dig = None /\ f.pc = "seal"
  BY DEF Surface!Idle, SurfaceRequest, Tagging, Digests
<1>3. request[c].up = None
  BY <1>1 DEF Surface!At, SurfaceInv, Requests, RequestOK, Uploading
<1> HIDE DEF f
<1>4. RequestOK(f)'
  BY <1>1, <1>2 DEF RequestOK, Uploading, Tagging, Surface!RegistryAssumption
<1> QED BY <1>1, <1>2, <1>3, <1>4, TagStepKeeps, CompleteGrow DEF SurfaceInv, SurfaceTypes

LEMMA SealKeeps ==
  ASSUME Surface!RegistryAssumption, SurfaceInv, NEW c \in Clients, Surface!Seal(c)
  PROVE  SurfaceInv'
<1>1. Surface!At(c, "seal") /\ UNCHANGED <<sessions, files, held, tags, used, disturbed>>
  BY DEF Surface!Seal
<1>2. PICK f \in {[request[c] EXCEPT !.pc = "write"], Surface!Idle} : Surface!Set(c, f)
  BY DEF Surface!Seal, Surface!Answer, Surface!Goto
<1>3. request[c] \in SurfaceRequest /\ RequestOK(request[c]) /\ request[c].pc = "seal"
      /\ request[c].up = None
  BY <1>1 DEF SurfaceInv, SurfaceTypes, Requests, Surface!At, RequestOK, Uploading
<1>4. f \in SurfaceRequest /\ f.up = None /\ RequestOK(f)
  <2>1. CASE f = Surface!Idle
    BY <2>1, IdleIsRequest
  <2>2. CASE f = [request[c] EXCEPT !.pc = "write"]
    <3>1. f \in SurfaceRequest /\ f.up = None /\ f.tag = request[c].tag
          /\ f.dig = request[c].dig /\ f.pc = "write"
      BY <1>3, <2>2 DEF SurfaceRequest, Tagging
    <3> QED BY <1>3, <3>1 DEF RequestOK, Uploading, Tagging
  <2> QED BY <2>1, <2>2
<1>5. RequestOK(f)' /\ Surface!TagsComplete'
  BY <1>1, <1>4, RequestsGrow, CompleteGrow DEF SurfaceInv
<1> QED BY <1>1, <1>2, <1>3, <1>4, <1>5, TagStepKeeps DEF SurfaceInv, SurfaceTypes

LEMMA WriteKeeps ==
  ASSUME Surface!RegistryAssumption, SurfaceInv, NEW c \in Clients, Surface!Write(c)
  PROVE  SurfaceInv'
<1>1. /\ Surface!At(c, "write") /\ UNCHANGED <<sessions, files, held, used, disturbed>> /\ Surface!Set(c, Surface!Idle)
      /\ tags' = [tags EXCEPT ![request[c].tag] = request[c].dig]
  BY DEF Surface!Write, Surface!Answer
<1>2. request[c] \in SurfaceRequest /\ RequestOK(request[c]) /\ request[c].tag # None
      /\ request[c].up = None
  BY <1>1 DEF SurfaceInv, SurfaceTypes, Requests, Surface!At, RequestOK, Uploading, Tagging
<1>3. request[c].tag \in Tags
      /\ (request[c].dig # None => request[c].dig \in DOMAIN Manifests /\ Stored(request[c].dig))
  BY <1>2 DEF SurfaceRequest, RequestOK
<1>4. tags' \in [Tags -> DOMAIN Manifests \cup {None}]
  BY <1>1, <1>3 DEF SurfaceInv, SurfaceTypes
<1>5. Surface!TagsComplete'
  BY <1>1, <1>3 DEF SurfaceInv, SurfaceTypes, Surface!TagsComplete, Stored
<1>6. RequestOK(Surface!Idle)'
  BY <1>1, IdleIsRequest, RequestsGrow
<1> QED BY <1>1, <1>2, <1>4, <1>5, <1>6, IdleIsRequest, TagStepKeeps

LEMMA RestartKeeps ==
  ASSUME Surface!RegistryAssumption, SurfaceInv, Surface!Restart
  PROVE  SurfaceInv'
<1>1. /\ sessions' = [u \in Uploads |-> None] /\ files' = [u \in Uploads |-> None]
      /\ request' = [c \in Clients |-> Surface!Idle] /\ UNCHANGED <<held, tags, used, disturbed>>
  BY DEF Surface!Restart
<1>2. Surface!Open' = {}
  BY <1>1 DEF Surface!Open
<1>3. SurfaceTypes'
  BY <1>1, <1>2, IdleIsRequest DEF SurfaceInv, SurfaceTypes
<1>4. Requests' /\ Surface!TagsComplete'
  <2>1. RequestOK(Surface!Idle)'
    BY <1>1, IdleIsRequest, RequestsGrow
  <2> QED BY <1>1, <2>1, CompleteGrow DEF SurfaceInv, Requests
<1> QED BY <1>2, <1>3, <1>4 DEF SurfaceInv, SessionsInStep

LEMMA NextKeeps ==
  ASSUME Surface!RegistryAssumption, SurfaceInv, [Surface!Next]_(Surface!vars)
  PROVE  SurfaceInv'
<1>1. CASE Surface!Restart
  BY <1>1, RestartKeeps
<1>2. ASSUME NEW c \in Clients, NEW gone \in SUBSET Surface!Open,
             \/ Surface!Post(c, gone) \/ \E x,
                   d \in Surface!Prefixes : Surface!PostWhole(c, gone, x, d)
             \/ \E u \in Uploads, k \in 0..MaxChunks :
                   \/ Surface!Chunk(c, gone, u, k, "patch", None)
                   \/ \E d \in Surface!Prefixes : Surface!Chunk(c, gone, u, k, "put", d)
      PROVE  SurfaceInv'
  <2>1. CASE Surface!Post(c, gone) \/ \E x,
        d \in Surface!Prefixes : Surface!PostWhole(c, gone, x, d)
    BY <2>1, PostKeeps, PostWholeKeeps
  <2>2. ASSUME NEW u \in Uploads, NEW k \in 0..MaxChunks,
        Surface!Chunk(c, gone, u, k, "patch", None) PROVE SurfaceInv'
    BY <2>2, ChunkKeeps
  <2>3. ASSUME NEW u \in Uploads, NEW k \in 0..MaxChunks, NEW d \in Surface!Prefixes,
        Surface!Chunk(c, gone, u, k, "put", d) PROVE SurfaceInv'
    <3>1. d \in Digests /\ k \in Nat
      BY <2>3 DEF Digests, Surface!RegistryAssumption
    <3> QED BY <1>2, <2>3, <3>1, ChunkKeeps
  <2> QED BY <1>2, <2>1, <2>2, <2>3
<1>3. ASSUME NEW c \in Clients,
             \/ Surface!AppendBody(c) \/ Surface!Resize(c) \/ Surface!Complete(c)
             \/ \E t \in Tags : Surface!DeleteTag(c, t)
                   \/ \E m \in DOMAIN Manifests : Surface!PutManifest(c, t, m)
             \/ \E m \in DOMAIN Manifests : Surface!PutByDigest(c, m)
             \/ Surface!Seal(c) \/ Surface!Write(c)
      PROVE  SurfaceInv'
  BY <1>3, AppendKeeps, ResizeKeeps, CompleteKeeps, DeleteTagKeeps, PutManifestKeeps,
     PutByDigestKeeps,
     SealKeeps, WriteKeeps
<1>4. CASE UNCHANGED Surface!vars
  BY <1>4 DEF Surface!vars, SurfaceInv, SurfaceTypes, Surface!Open, Requests, RequestOK, Stored,
     Surface!TagsComplete, SessionsInStep, InStep, Alone, Ahead
<1> QED BY <1>1, <1>2, <1>3, <1>4 DEF Surface!Next

-----------------------------------------------------------------------------

LEMMA SurfaceIsConsistent ==
  ASSUME Surface!RegistryAssumption, SurfaceInv
  PROVE  Surface!TypeOK /\ Surface!UploadsInOrder /\ Surface!TagsComplete
<1>1. Surface!TypeOK
  BY DEF SurfaceInv, SurfaceTypes, Surface!TypeOK
<1>2. ASSUME NEW u \in Surface!Open \ disturbed, ~Surface!Busy(u)
      PROVE files[u] = SubSeq(Surface!Whole, 1, sessions[u])
  BY <1>2 DEF SurfaceInv, SessionsInStep, InStep, Ahead, Surface!Busy
<1> QED BY <1>1, <1>2 DEF SurfaceInv, Surface!UploadsInOrder


\* While the requests that move tags come one after another, what was free when
\* the request asked is free when it writes.
OneMover == \A c, d \in Clients : Surface!MovesTag(c) /\ Surface!MovesTag(d) => c = d
SealChecked == \A c \in Clients : request[c].pc = "write" => ~Surface!IsLocked(request[c].tag)
Sealing == OneMover /\ SealChecked

LEMMA InitSealing == ASSUME Surface!RegistryAssumption, Surface!Init PROVE Sealing
BY DEF Surface!Init, Surface!Idle, Sealing, OneMover, SealChecked, Surface!MovesTag

\* A step after which client c moves no tag, or the same as before.
LEMMA SealingStays ==
  ASSUME Surface!RegistryAssumption, SurfaceInv, Sealing, NEW c \in Clients,
         NEW f \in SurfaceRequest, Surface!Set(c, f), UNCHANGED tags,
         f.tag = None \/ f.tag = request[c].tag, f.pc = "write" => ~Surface!IsLocked(f.tag)
  PROVE  Sealing'
<1>1. request'[c] = f /\ \A d \in Clients \ {c} : request'[d] = request[d]
  BY BecomesTyped DEF SurfaceInv
<1> QED BY <1>1 DEF Sealing, OneMover, SealChecked, Surface!MovesTag, Surface!IsLocked

\* Client c asks for a tag while nobody moves one.
LEMMA MoverStarts ==
  ASSUME Surface!RegistryAssumption, SurfaceInv, Sealing, NEW c \in Clients,
         NEW f \in SurfaceRequest, Surface!Set(c, f), UNCHANGED tags,
         f.pc = "seal", \A d \in Clients : ~Surface!MovesTag(d)
  PROVE  Sealing'
<1>1. request'[c] = f /\ \A d \in Clients \ {c} : request'[d] = request[d]
  BY BecomesTyped DEF SurfaceInv
<1> QED BY <1>1 DEF Sealing, OneMover, SealChecked, Surface!MovesTag, Surface!IsLocked

LEMMA UploadsKeepSealing ==
  ASSUME Surface!RegistryAssumption, SurfaceInv, Sealing, NEW c \in Clients,
         \/ \E gone \in SUBSET Surface!Open :
              \/ Surface!Post(c, gone) \/ \E x,
                    d \in Surface!Prefixes : Surface!PostWhole(c, gone, x, d)
              \/ \E u \in Uploads, k \in 0..MaxChunks :
                   \/ Surface!Chunk(c, gone, u, k, "patch", None)
                   \/ \E d \in Surface!Prefixes : Surface!Chunk(c, gone, u, k, "put", d)
         \/ Surface!AppendBody(c) \/ Surface!Resize(c) \/ Surface!Complete(c)
         \/ \E m \in DOMAIN Manifests : Surface!PutByDigest(c, m)
  PROVE  Sealing' /\ UNCHANGED tags
<1>1. UNCHANGED tags
  BY DEF Surface!Post, Surface!PostWhole, Surface!Chunk, Surface!AppendBody, Surface!Resize,
     Surface!Complete, Surface!PutByDigest
<1>2. CASE UNCHANGED request
  BY <1>1, <1>2 DEF Sealing, OneMover, SealChecked, Surface!MovesTag, Surface!IsLocked
<1>3. CASE Surface!Set(c, Surface!Idle)
  BY <1>1, <1>3, IdleIsRequest, SealingStays
<1>4. request[c] \in SurfaceRequest
  BY DEF SurfaceInv, SurfaceTypes
<1>5. ASSUME NEW u \in Uploads, NEW k \in 0..MaxChunks, NEW op \in {"patch", "put"},
      NEW d \in Surface!Prefixes \cup {None},
             Surface!Set(c, [Surface!Idle
                 EXCEPT !.pc = "body", !.op = op, !.up = u, !.at = k, !.dig = d])
      PROVE  Sealing'
  <2> DEFINE f == [Surface!Idle EXCEPT !.pc = "body", !.op = op, !.up = u, !.at = k, !.dig = d]
  <2>0. k \in Nat /\ d \in Digests \cup {None}
    BY DEF Digests, Surface!RegistryAssumption
  <2>1. f \in SurfaceRequest /\ f.tag = None /\ f.pc = "body"
    BY <2>0 DEF Surface!Idle, SurfaceRequest, Uploading
  <2> QED BY <1>1, <1>5, <2>1, SealingStays
<1>6. ASSUME NEW pc \in {"size", "complete"}, Surface!Set(c, [request[c] EXCEPT !.pc = pc])
      PROVE Sealing'
  <2>1. PICK f : f = [request[c] EXCEPT !.pc = pc]
    OBVIOUS
  <2>2. f \in SurfaceRequest /\ f.tag = request[c].tag /\ f.pc = pc
    BY <1>4, <2>1 DEF SurfaceRequest, Uploading
  <2> QED BY <1>1, <1>6, <2>1, <2>2, SealingStays
<1>7. CASE \E gone \in SUBSET Surface!Open : Surface!Post(c, gone) \/ \E x,
      d \in Surface!Prefixes : Surface!PostWhole(c, gone, x, d)
  BY <1>2, <1>7 DEF Surface!Post, Surface!PostWhole
<1>8. ASSUME NEW gone \in SUBSET Surface!Open, NEW u \in Uploads, NEW k \in 0..MaxChunks,
             NEW op \in {"patch", "put"}, NEW d \in Surface!Prefixes \cup {None},
                 Surface!Chunk(c, gone, u, k, op, d)
      PROVE  Sealing'
  BY <1>2, <1>5, <1>8 DEF Surface!Chunk
<1>9. CASE Surface!AppendBody(c) \/ Surface!Resize(c) \/ Surface!Complete(c)
  BY <1>3, <1>6, <1>9 DEF Surface!AppendBody, Surface!Resize, Surface!Complete, Surface!Goto,
     Surface!Answer
<1>10. CASE \E m \in DOMAIN Manifests : Surface!PutByDigest(c, m)
  BY <1>2, <1>10 DEF Surface!PutByDigest
<1> QED BY <1>1, <1>7, <1>8, <1>9, <1>10

LEMMA PutsKeepSealing ==
  ASSUME Surface!RegistryAssumption, SurfaceInv, Sealing, NEW c \in Clients, NEW t \in Tags,
         Surface!DeleteTag(c, t) \/ \E m \in DOMAIN Manifests : Surface!PutManifest(c, t, m)
  PROVE  Sealing' /\ UNCHANGED tags
<1>1. CASE Surface!DeleteTag(c, t)
  <2> DEFINE f == [Surface!Idle EXCEPT !.pc = "seal", !.op = "delete", !.tag = t]
  <2>1. f \in SurfaceRequest /\ f.pc = "seal"
    BY DEF Surface!Idle, SurfaceRequest, Tagging
  <2> QED BY <1>1, <2>1, MoverStarts DEF Surface!DeleteTag
<1>2. ASSUME NEW m \in DOMAIN Manifests, Surface!PutManifest(c, t, m)
      PROVE Sealing' /\ UNCHANGED tags
  <2> DEFINE f == [Surface!Idle EXCEPT !.pc = "seal", !.op = "manifest", !.tag = t, !.dig = m]
  <2>1. f \in SurfaceRequest /\ f.pc = "seal"
    BY DEF Surface!Idle, SurfaceRequest, Tagging, Digests
  <2>2. CASE Surface!Set(c, f)
    BY <1>2, <2>1, <2>2, MoverStarts DEF Surface!PutManifest
  <2>3. CASE UNCHANGED request
    BY <1>2, <2>3 DEF Surface!PutManifest, Sealing, OneMover, SealChecked, Surface!MovesTag,
       Surface!IsLocked
  <2> QED BY <1>2, <2>2, <2>3 DEF Surface!PutManifest
<1> QED BY <1>1, <1>2

LEMMA SealKeepsSealing ==
  ASSUME Surface!RegistryAssumption, SurfaceInv, Sealing, NEW c \in Clients, Surface!Seal(c)
  PROVE  Sealing' /\ UNCHANGED tags
<1>1. CASE Surface!IsLocked(request[c].tag)
  BY <1>1, IdleIsRequest, SealingStays DEF Surface!Seal, Surface!Answer
<1>2. CASE ~Surface!IsLocked(request[c].tag)
  <2>1. PICK f : f = [request[c] EXCEPT !.pc = "write"]
    OBVIOUS
  <2>2. f \in SurfaceRequest /\ f.tag = request[c].tag
    BY <2>1 DEF SurfaceRequest, Tagging, SurfaceInv, SurfaceTypes
  <2>3. Surface!Set(c, f) /\ UNCHANGED tags
    BY <1>2, <2>1 DEF Surface!Seal, Surface!Goto
  <2> QED BY <1>2, <2>2, <2>3, SealingStays
<1> QED BY <1>1, <1>2

LEMMA WriteKeepsSealing ==
  ASSUME Surface!RegistryAssumption, SurfaceInv, Sealing, NEW c \in Clients, Surface!Write(c)
  PROVE  Sealing' /\ Surface!SealsHold
<1>1. /\ request[c].pc = "write" /\ Surface!Set(c, Surface!Idle) /\ tags' = [tags
             EXCEPT ![request[c].tag] = request[c].dig]
      /\ request[c].tag # None
  BY DEF Surface!Write, Surface!Answer, Surface!At, SurfaceInv, Requests, RequestOK, Tagging
<1>2. request'[c] = Surface!Idle /\ \A d \in Clients \ {c} : request'[d] = request[d]
  BY <1>1, IdleIsRequest, BecomesTyped DEF SurfaceInv
<1>3. \A d \in Clients : request'[d].tag = None
  BY <1>1, <1>2, IdleIsRequest DEF Sealing, OneMover, Surface!MovesTag
<1>4. \A d \in Clients : request'[d].pc # "write"
  BY <1>2, <1>3, IdleIsRequest DEF SurfaceInv, Requests, RequestOK, Tagging
<1>5. Sealing'
  BY <1>3, <1>4 DEF Sealing, OneMover, SealChecked, Surface!MovesTag
<1>6. Surface!SealsHold
  BY <1>1 DEF Sealing, SealChecked, Surface!IsLocked, Surface!SealsHold, SurfaceInv, SurfaceTypes
<1> QED BY <1>5, <1>6

LEMMA SealsStay ==
  ASSUME Surface!RegistryAssumption, SurfaceInv, Sealing, [Surface!Next]_(Surface!vars)
  PROVE  Sealing' /\ [Surface!SealsHold]_tags
<1>1. CASE Surface!Restart
  <2>1. UNCHANGED tags /\ request' = [c \in Clients |-> Surface!Idle]
    BY <1>1 DEF Surface!Restart
  <2> QED BY <2>1 DEF Surface!Idle, Sealing, OneMover, SealChecked, Surface!MovesTag
<1>2. ASSUME NEW c \in Clients, ~Surface!Write(c),
             \/ \E gone \in SUBSET Surface!Open :
                  \/ Surface!Post(c, gone)
                  \/ \E x, d \in Surface!Prefixes : Surface!PostWhole(c, gone, x, d)
                  \/ \E u \in Uploads, k \in 0..MaxChunks :
                       \/ Surface!Chunk(c, gone, u, k, "patch", None)
                       \/ \E d \in Surface!Prefixes : Surface!Chunk(c, gone, u, k, "put", d)
             \/ Surface!AppendBody(c) \/ Surface!Resize(c) \/ Surface!Complete(c)
             \/ \E t \in Tags :
                  \/ Surface!DeleteTag(c, t)
                  \/ \E m \in DOMAIN Manifests : Surface!PutManifest(c, t, m)
             \/ \E m \in DOMAIN Manifests : Surface!PutByDigest(c, m)
             \/ Surface!Seal(c) \/ Surface!Write(c)
      PROVE  Sealing' /\ UNCHANGED tags
  BY <1>2, UploadsKeepSealing, PutsKeepSealing, SealKeepsSealing
<1>3. ASSUME NEW c \in Clients, Surface!Write(c) PROVE Sealing' /\ Surface!SealsHold
  BY <1>3, WriteKeepsSealing
<1>4. CASE UNCHANGED Surface!vars
  BY <1>4 DEF Surface!vars, Sealing, OneMover, SealChecked, Surface!MovesTag, Surface!IsLocked
<1> QED BY <1>1, <1>2, <1>3, <1>4 DEF Surface!Next

LEMMA SurfaceHolds ==
  ASSUME Surface!RegistryAssumption
  PROVE  Surface!Spec => [](Surface!TypeOK /\ Surface!UploadsInOrder /\ Surface!TagsComplete)
<1>1. Surface!Init => SurfaceInv
  BY SurfaceStart
<1>2. SurfaceInv /\ [Surface!Next]_(Surface!vars) => SurfaceInv'
  BY NextKeeps
<1>3. SurfaceInv => Surface!TypeOK /\ Surface!UploadsInOrder /\ Surface!TagsComplete
  BY SurfaceIsConsistent
<1> QED BY <1>1, <1>2, <1>3, PTL DEF Surface!Spec

\* A sealed tag is created once, as long as the requests that move tags come one
\* after another (src/src/server/serve.ts, isLocked).
THEOREM SealedTagsAreKept ==
  ASSUME Surface!RegistryAssumption
  PROVE  Surface!Spec => [][Surface!SealsHold]_tags
<1>1. Surface!Init => SurfaceInv /\ Sealing
  BY SurfaceStart, InitSealing
<1>2. SurfaceInv /\ Sealing /\ [Surface!Next]_(Surface!vars) => SurfaceInv' /\ Sealing'
      /\ [Surface!SealsHold]_tags
  BY NextKeeps, SealsStay
<1> QED BY <1>1, <1>2, PTL DEF Surface!Spec

-----------------------------------------------------------------------------
(* The published folder *)

Files == [text : Texts, mtime : Nat]
Tree == [Filed -> Files \cup {None}]
Manifest == [tree : Tree, parents : SUBSET Nat]
Job == [of : Nat, head : Nat, at : Nat, stamp : BOOLEAN]

MirrorTypes ==
    /\ folder \in Tree
    /\ heads \in Seq(Manifest) /\ head \in 0..Len(heads)
    /\ jobs \subseteq Job
    /\ server \in {"boot", "walked", "up"}
    /\ walked \in [Filed -> Nat \cup {None}]
    /\ folderClock \in Nat
    /\ mirrored \in BOOLEAN

Parents == \A h \in 1..Len(heads) : heads[h].parents \subseteq 1..(h - 1)

\* A job reads a head that there is, and jobs run while the server is up, which
\* it is with a head.
Jobs == \A j \in jobs : j.head \in 0..Len(heads) /\ (j.head # 0 => j.at # 0)
Phase ==
    /\ server # "up" => jobs = {}
    /\ server = "up" => head # 0

\* Nobody has changed the folder since the walk.
WalkSeen ==
    server = "walked" /\ mirrored =>
        \A p \in Filed : walked[p] = IF folder[p] = None THEN None ELSE folder[p].mtime

\* What the folder has and the head h has not will be removed.
Leftovers(h) == \A p \in Filed : heads[h].tree[p] = None /\ folder[p] # None => p \in Mirror!Gone(h)

\* The one job under way has written the files before its place, and the bytes
\* of the file at its place.
Written(j) ==
    \A i \in DOMAIN Order :
        LET f == heads[head].tree[Order[i]]
        IN  i < j.at /\ f # None => folder[Order[i]] = f
Stamping(j) ==
    j.stamp => /\ j.head # 0 /\ j.at \in DOMAIN Order
               /\ heads[head].tree[Order[j.at]] # None
               /\ folder[Order[j.at]] # None
                     /\ folder[Order[j.at]].text = heads[head].tree[Order[j.at]].text
OnTheWay(j) ==
    /\ j.head \in {0, head} /\ Leftovers(head)
    /\ j.head # 0 => Written(j)
    /\ Stamping(j)
Mirroring ==
    server = "up" /\ mirrored => \A j \in jobs : jobs = {j} /\ OnTheWay(j)

MirrorInv == MirrorTypes /\ Parents /\ Jobs /\ Phase /\ WalkSeen /\ Mirroring
    /\ Mirror!FolderMirrorsHead

-----------------------------------------------------------------------------

LEMMA MirrorStart == ASSUME Mirror!FolderAssumption, Mirror!Init PROVE MirrorInv
<1>1. folder \in Tree
  BY DEF Mirror!Init, Tree, Files, Mirror!File
<1>2. heads \in Seq(Manifest) /\ head \in 0..Len(heads)
  BY DEF Mirror!Init
<1>3. MirrorTypes
  BY <1>1, <1>2 DEF Mirror!Init, MirrorTypes
<1>4. Parents
  BY DEF Mirror!Init, Parents
<1> QED BY <1>3, <1>4 DEF Mirror!Init, MirrorInv, Jobs, Phase, WalkSeen, Mirroring,
    Mirror!FolderMirrorsHead

LEMMA FileIsFile == ASSUME NEW x \in Texts, NEW m \in Nat PROVE Mirror!File(x, m) \in Files
BY DEF Mirror!File, Files

LEMMA SameFile ==
  ASSUME NEW f \in Files, NEW g \in Files, f.text = g.text, f.mtime = g.mtime
  PROVE  f = g
BY DEF Files

LEMMA WalkKeeps == ASSUME Mirror!FolderAssumption, MirrorInv, Mirror!Walk PROVE MirrorInv'
<1>1. /\ server = "boot" /\ server' = "walked" /\ mirrored' = TRUE
      /\ walked' = [p \in Filed |-> IF folder[p] = None THEN None ELSE folder[p].mtime]
      /\ UNCHANGED <<folder, heads, head, jobs, folderClock>>
  BY DEF Mirror!Walk
<1>2. walked' \in [Filed -> Nat \cup {None}]
  BY <1>1 DEF MirrorInv, MirrorTypes, Tree, Files
<1> QED BY <1>1, <1>2 DEF MirrorInv, MirrorTypes, Parents, Jobs, Phase, WalkSeen, Mirroring,
    Mirror!FolderMirrorsHead

\* A head that is minted is the last one.
LEMMA Minted ==
  ASSUME MirrorTypes, Parents, NEW m \in Manifest, heads' = Append(heads, m),
         m.parents \subseteq 1..Len(heads),
         head' = Len(heads) + 1
  PROVE  /\ heads' \in Seq(Manifest) /\ Len(heads') = Len(heads) + 1 /\ head' \in 0..Len(heads') /\ head' # 0
         /\ heads'[head'] = m /\ \A h \in 1..Len(heads) : heads'[h] = heads[h]
         /\ Parents'
<1>1. heads \in Seq(Manifest) /\ Len(heads) \in Nat
  BY DEF MirrorTypes
<1>2. /\ heads' \in Seq(Manifest) /\ Len(heads') = Len(heads) + 1
      /\ heads'[Len(heads) + 1] = m /\ \A h \in 1..Len(heads) : heads'[h] = heads[h]
  BY <1>1
<1>3. ASSUME NEW h \in 1..Len(heads') PROVE heads'[h].parents \subseteq 1..(h - 1)
  <2>1. CASE h = Len(heads) + 1
    BY <1>1, <1>2, <2>1
  <2>2. CASE h # Len(heads) + 1
    <3>1. h \in 1..Len(heads)
      BY <1>1, <1>2, <2>2
    <3> QED BY <1>2, <3>1 DEF Parents
  <2> QED BY <2>1, <2>2
<1> QED BY <1>1, <1>2, <1>3 DEF Parents

LEMMA PublishKeeps == ASSUME Mirror!FolderAssumption, MirrorInv, Mirror!Publish PROVE MirrorInv'
<1>1. server = "walked" /\ jobs = {} /\ UNCHANGED <<folder, jobs, walked, folderClock, mirrored>>
  BY DEF Mirror!Publish, MirrorInv, Phase
<1>2. CASE \E p \in Filed : walked[p] # None /\ folder[p] = None
  <2>1. server' = "boot" /\ UNCHANGED <<heads, head>>
    BY <1>2 DEF Mirror!Publish
  <2> QED BY <1>1, <2>1 DEF MirrorInv, MirrorTypes, Parents, Jobs, Phase, WalkSeen, Mirroring,
      Mirror!FolderMirrorsHead
<1>3. CASE ~\E p \in Filed : walked[p] # None /\ folder[p] = None
  <2>1. server' = "up"
    BY <1>3 DEF Mirror!Publish
  <2>2. Mirror!Published \in Tree
    BY <1>3 DEF Mirror!Published, Tree, Files, Mirror!File, MirrorInv, MirrorTypes
  <2>3. mirrored => Mirror!Published = folder
    <3>1. ASSUME mirrored, NEW p \in Filed PROVE Mirror!Published[p] = folder[p]
      <4>1. walked[p] = IF folder[p] = None THEN None ELSE folder[p].mtime
        BY <1>1, <3>1 DEF MirrorInv, WalkSeen
      <4>2. CASE folder[p] = None
        BY <4>1, <4>2 DEF Mirror!Published
      <4>3. CASE folder[p] # None
        <5>1. folder[p] \in Files /\ folder[p].mtime \in Nat /\ walked[p] # None
          BY <4>1, <4>3 DEF MirrorInv, MirrorTypes, Tree, Files, Mirror!FolderAssumption
        <5> QED BY <4>1, <5>1 DEF Mirror!Published, Mirror!File, Files
      <4> QED BY <4>2, <4>3
    <3> QED BY <2>2, <3>1 DEF Tree, MirrorInv, MirrorTypes
  <2>4. CASE head # 0 /\ heads[head].tree = Mirror!Published
    <3>1. UNCHANGED <<heads, head>>
      BY <1>3, <2>4 DEF Mirror!Publish
    <3> QED BY <1>1, <2>1, <2>3, <2>4, <3>1
            DEF MirrorInv, MirrorTypes, Parents, Jobs, Phase, WalkSeen, Mirroring,
                Mirror!FolderMirrorsHead
  <2>5. CASE ~(head # 0 /\ heads[head].tree = Mirror!Published)
    <3> DEFINE m == [tree |-> Mirror!Published, parents |-> {head} \ {0}]
    <3>1. heads' = Append(heads, m) /\ head' = Len(heads) + 1
      BY <1>3, <2>5 DEF Mirror!Publish
    <3>2. m \in Manifest /\ m.parents \subseteq 1..Len(heads) /\ m.tree = Mirror!Published
      BY <2>2 DEF Manifest, MirrorInv, MirrorTypes
    <3>3. /\ heads' \in Seq(Manifest) /\ head' \in 0..Len(heads') /\ head' # 0
          /\ heads'[head'] = m /\ Parents'
      BY <3>1, <3>2, Minted DEF MirrorInv
    <3> HIDE DEF m
    <3> QED BY <1>1, <2>1, <2>3, <3>2, <3>3
            DEF MirrorInv, MirrorTypes, Jobs, Phase, WalkSeen, Mirroring, Mirror!FolderMirrorsHead
  <2> QED BY <2>4, <2>5
<1> QED BY <1>2, <1>3

LEMMA PutKeeps ==
  ASSUME Mirror!FolderAssumption, MirrorInv, NEW p \in Filed, NEW f \in Files \cup {None},
         Mirror!Put(p, f)
  PROVE  MirrorInv'
<1>1. PICK other \in {0} \cup (1..Len(heads)) :
        /\ server = "up"
        /\ heads' = Append(heads, [tree |-> [heads[head].tree
               EXCEPT ![p] = f], parents |-> {head, other} \ {0}])
        /\ head' = Len(heads) + 1
        /\ jobs' = jobs \cup {[of |-> Len(heads) + 1, head |-> 0, at |-> 0, stamp |-> FALSE]}
        /\ mirrored' = (mirrored /\ jobs = {})
        /\ UNCHANGED <<folder, server, walked, folderClock>>
  BY DEF Mirror!Put
<1>a. PICK m : m = [tree |-> [heads[head].tree EXCEPT ![p] = f], parents |-> {head, other} \ {0}]
  OBVIOUS
<1>b. PICK j : j = [of |-> Len(heads) + 1, head |-> 0, at |-> 0, stamp |-> FALSE]
  OBVIOUS
<1>2. head \in 1..Len(heads) /\ heads[head] \in Manifest /\ heads[head].tree \in Tree
      /\ Len(heads) \in Nat
  <2>1. head \in 1..Len(heads) /\ heads \in Seq(Manifest)
    BY <1>1 DEF MirrorInv, MirrorTypes, Phase
  <2>2. heads[head] \in Manifest
    BY <2>1
  <2> QED BY <2>1, <2>2 DEF Manifest
<1>3. m \in Manifest /\ m.parents \subseteq 1..Len(heads) /\ head \in m.parents
      /\ m.tree \in Tree /\ \A q \in Filed \ {p} : m.tree[q] = heads[head].tree[q]
  BY <1>2, <1>a DEF Manifest, Tree
<1>4. j \in Job /\ j.head = 0 /\ ~j.stamp
  BY <1>2, <1>b DEF Job
<1>5. /\ heads' \in Seq(Manifest) /\ Len(heads') = Len(heads) + 1 /\ head' \in 0..Len(heads') /\ head' # 0
      /\ heads'[head'] = m /\ Parents' /\ \A h \in 1..Len(heads) : heads'[h] = heads[h]
  BY <1>1, <1>3, <1>a, Minted DEF MirrorInv
<1>6. jobs' = jobs \cup {j} /\ jobs' # {}
  BY <1>1, <1>b
<1>7. MirrorTypes'
  BY <1>1, <1>4, <1>5, <1>6 DEF MirrorInv, MirrorTypes
<1>8. Jobs' /\ Phase'
  BY <1>1, <1>2, <1>4, <1>5, <1>6 DEF MirrorInv, Jobs, Phase
<1>9. Mirroring'
  <2> SUFFICES ASSUME mirrored, jobs = {} PROVE jobs' = {j} /\ OnTheWay(j)'
    BY <1>1, <1>6 DEF Mirroring
  <2>1. folder = heads[head].tree
    BY <1>1 DEF MirrorInv, Mirror!FolderMirrorsHead
  <2>2. Leftovers(head)'
    <3> SUFFICES ASSUME NEW q \in Filed, m.tree[q] = None, folder[q] # None
        PROVE q \in Mirror!Gone(head)'
      BY <1>1, <1>5 DEF Leftovers
    <3>1. heads'[head].tree[q] # None /\ head \in heads'[head'].parents
      BY <1>2, <1>3, <1>5, <2>1
    <3> QED BY <1>5, <3>1 DEF Mirror!Gone
  <2> QED BY <1>1, <1>4, <1>6, <2>2 DEF OnTheWay, Stamping
<1> QED BY <1>1, <1>5, <1>6, <1>7, <1>8, <1>9 DEF MirrorInv, WalkSeen, Mirror!FolderMirrorsHead

\* One job moves on, or ends, while the heads rest.
LEMMA JobTyped ==
  ASSUME MirrorTypes, NEW j \in Job, NEW k \in Job, jobs' = (jobs \ {j}) \cup {k}
  PROVE  jobs' \subseteq Job
BY DEF MirrorTypes

LEMMA BeginKeeps == ASSUME Mirror!FolderAssumption, MirrorInv, NEW j \in jobs, Mirror!Begin(j)
  PROVE MirrorInv'
<1>a. PICK k : k = [j EXCEPT !.head = head, !.at = 1]
  OBVIOUS
<1>1. /\ j.head = 0 /\ jobs' = (jobs \ {j}) \cup {k}
      /\ UNCHANGED <<folder, heads, head, server, walked, folderClock, mirrored>>
  BY <1>a DEF Mirror!Begin
<1>2. j \in Job /\ head \in 0..Len(heads) /\ head \in Nat
  BY DEF MirrorInv, MirrorTypes
<1>3. k \in Job /\ k.head = head /\ k.at = 1 /\ k.stamp = j.stamp
  BY <1>2, <1>a DEF Job
<1>4. server = "up" /\ head # 0
  BY DEF MirrorInv, Phase
<1>5. MirrorTypes'
  BY <1>1, <1>2, <1>3, JobTyped DEF MirrorInv, MirrorTypes
<1>6. Parents' /\ Jobs' /\ Phase' /\ WalkSeen'
  BY <1>1, <1>2, <1>3, <1>4 DEF MirrorInv, Parents, Jobs, Phase, WalkSeen
<1>7. ASSUME mirrored PROVE jobs' = {k} /\ OnTheWay(k)'
  <2>1. jobs = {j} /\ OnTheWay(j)
    BY <1>4, <1>7 DEF MirrorInv, Mirroring
  <2>2. ~k.stamp /\ Leftovers(head)
    BY <1>1, <1>3, <2>1 DEF OnTheWay, Stamping
  <2>3. Leftovers(head)'
    BY <1>1, <2>2 DEF Leftovers, Mirror!Gone
  <2>4. Written(k)'
    BY <1>3 DEF Written, Mirror!FolderAssumption
  <2> QED BY <1>1, <1>3, <2>1, <2>2, <2>3, <2>4 DEF OnTheWay, Stamping
<1> QED BY <1>1, <1>5, <1>6, <1>7 DEF MirrorInv, Mirroring, Mirror!FolderMirrorsHead

\* A step of job j that leaves job k, or none, in its place.
LEMMA JobStepKeeps ==
  ASSUME Mirror!FolderAssumption, MirrorInv, NEW j \in jobs,
         folder' \in Tree, jobs' \subseteq Job, mirrored' \in BOOLEAN, mirrored' => mirrored,
         \A k \in jobs' \ jobs : k.head = j.head /\ k.at # 0, j.head # 0,
         mirrored' /\ jobs = {j} /\ OnTheWay(j) => (Mirroring /\ Mirror!FolderMirrorsHead)',
         UNCHANGED <<heads, head, server, walked, folderClock>>
  PROVE  MirrorInv'
<1>1. MirrorTypes' /\ Parents' /\ Jobs'
  BY DEF MirrorInv, MirrorTypes, Parents, Jobs
<1>2. server = "up"
  BY DEF MirrorInv, Phase
<1>3. Phase' /\ WalkSeen'
  BY <1>2 DEF MirrorInv, Phase, WalkSeen
<1>4. mirrored' => (Mirroring /\ Mirror!FolderMirrorsHead)'
  BY <1>2 DEF MirrorInv, Mirroring
<1>5. ~mirrored' => (Mirroring /\ Mirror!FolderMirrorsHead)'
  BY DEF Mirroring, Mirror!FolderMirrorsHead
<1> QED BY <1>1, <1>3, <1>4, <1>5 DEF MirrorInv

\* The job's place moves to the next file.
LEMMA AdvanceKeeps ==
  ASSUME Mirror!FolderAssumption, MirrorInv, NEW j \in jobs, Mirror!Advance(j), j.head # 0,
         j.at <= Len(Order),
         folder' \in Tree, mirrored' \in BOOLEAN, mirrored' => mirrored,
         UNCHANGED <<heads, head, server, walked, folderClock>>,
         \A p \in Filed : p # Order[j.at] => folder'[p] = folder[p],
         folder'[Order[j.at]] # None => folder[Order[j.at]] # None,
         mirrored' /\ jobs = {j} /\ OnTheWay(j) /\ heads[head].tree[Order[j.at]] # None =>
             folder'[Order[j.at]] = heads[head].tree[Order[j.at]]
  PROVE  MirrorInv'
<1>a. PICK k : k = [j EXCEPT !.at = @ + 1, !.stamp = FALSE]
  OBVIOUS
<1>1. jobs' = (jobs \ {j}) \cup {k}
  BY <1>a DEF Mirror!Advance
<1>2. j \in Job /\ j.at \in Nat /\ j.at # 0 /\ j.at + 1 \in Nat /\ j.at + 1 # 0
  BY DEF MirrorInv, MirrorTypes, Job, Jobs
<1>3. k \in Job /\ k.head = j.head /\ k.at = j.at + 1 /\ ~k.stamp
  BY <1>2, <1>a DEF Job
<1>4. jobs' \subseteq Job /\ server = "up"
  BY <1>1, <1>2, <1>3, JobTyped DEF MirrorInv, Phase
<1>5. ASSUME mirrored', jobs = {j}, OnTheWay(j) PROVE (Mirroring /\ Mirror!FolderMirrorsHead)'
  <2>1. jobs' = {k}
    BY <1>1, <1>5
  <2>2. j.head = head /\ Written(j) /\ Leftovers(head) /\ head # 0
    BY <1>5 DEF OnTheWay
  <2>3. Leftovers(head)'
    BY <2>2 DEF Leftovers, Mirror!Gone
  <2>4. j.at \in DOMAIN Order
    BY <1>2 DEF Mirror!FolderAssumption
  <2>5. Written(k)'
    <3> SUFFICES ASSUME NEW i \in DOMAIN Order, i < k.at, heads[head].tree[Order[i]] # None
                 PROVE  folder'[Order[i]] = heads[head].tree[Order[i]]
      BY DEF Written
    <3>1. Order[i] \in Filed /\ i \in Nat
      BY DEF Mirror!FolderAssumption
    <3>2. CASE i = j.at
      BY <1>5, <3>2
    <3>3. CASE i # j.at
      <4>1. i < j.at /\ Order[i] # Order[j.at]
        BY <1>2, <1>3, <2>4, <3>1, <3>3 DEF Mirror!FolderAssumption
      <4> QED BY <2>2, <3>1, <4>1 DEF Written
    <3> QED BY <3>2, <3>3
  <2>6. OnTheWay(k)'
    BY <1>3, <2>2, <2>3, <2>5 DEF OnTheWay, Stamping
  <2> QED BY <2>1, <2>6 DEF Mirroring, Mirror!FolderMirrorsHead
<1> QED BY <1>1, <1>3, <1>4, <1>2, <1>5, JobStepKeeps

LEMMA MirrorWriteKeeps == ASSUME Mirror!FolderAssumption, MirrorInv, NEW j \in jobs,
    Mirror!WriteFile(j) PROVE MirrorInv'
<1> DEFINE p == Order[j.at]
           f == heads[j.head].tree[p]
<1>1. /\ j.head # 0 /\ j.at <= Len(Order) /\ UNCHANGED <<heads, head, server, walked, folderClock>>
      /\ \/ f = None /\ Mirror!Advance(j) /\ UNCHANGED <<folder, mirrored>>
         \/ /\ f # None /\ ~j.stamp /\ Mirror!Skips(folder[p], f) /\ Mirror!Advance(j) /\ UNCHANGED folder
            /\ mirrored' = (mirrored /\ (folder[p].mtime = f.mtime => folder[p].text = f.text))
         \/ /\ f # None /\ ~j.stamp /\ ~Mirror!Skips(folder[p], f) /\ UNCHANGED mirrored
            /\ folder' = [folder EXCEPT ![p] = Mirror!File(f.text, folderClock)]
            /\ jobs' = (jobs \ {j}) \cup {[j EXCEPT !.stamp = TRUE]}
         \/ /\ f # None /\ j.stamp /\ Mirror!Advance(j) /\ UNCHANGED mirrored
            /\ folder' = [folder EXCEPT ![p] = IF folder[p] = None THEN None
                   ELSE Mirror!File(folder[p].text, f.mtime)]
  BY DEF Mirror!WriteFile
<1>2. /\ j \in Job /\ j.at \in DOMAIN Order /\ p \in Filed /\ j.head \in 1..Len(heads)
      /\ folder \in Tree /\ folder[p] \in Files \cup {None} /\ folderClock \in Nat
            /\ mirrored \in BOOLEAN
  BY <1>1 DEF MirrorInv, MirrorTypes, Jobs, Job, Mirror!FolderAssumption, Tree
<1>3. f \in Files \cup {None}
  <2>1. heads[j.head] \in Manifest
    BY <1>2 DEF MirrorInv, MirrorTypes
  <2> QED BY <1>2, <2>1 DEF Manifest, Tree
<1>4. jobs = {j} /\ OnTheWay(j) => j.head = head
  BY <1>1 DEF OnTheWay
<1>5. CASE f = None /\ Mirror!Advance(j) /\ UNCHANGED <<folder, mirrored>>
  BY <1>1, <1>2, <1>4, <1>5, AdvanceKeeps
<1>6. CASE /\ f # None /\ ~j.stamp /\ Mirror!Skips(folder[p], f) /\ Mirror!Advance(j) /\ UNCHANGED folder
           /\ mirrored' = (mirrored /\ (folder[p].mtime = f.mtime => folder[p].text = f.text))
  <2>1. mirrored' => folder[p] = f
    BY <1>2, <1>3, <1>6, SameFile DEF Mirror!Skips
  <2> QED BY <1>1, <1>2, <1>4, <1>6, <2>1, AdvanceKeeps
<1>7. CASE /\ f # None /\ j.stamp /\ Mirror!Advance(j) /\ UNCHANGED mirrored
           /\ folder' = [folder EXCEPT ![p] = IF folder[p] = None THEN None
                  ELSE Mirror!File(folder[p].text, f.mtime)]
  <2> DEFINE g == IF folder[p] = None THEN None ELSE Mirror!File(folder[p].text, f.mtime)
  <2>1. g \in Files \cup {None} /\ (g # None => folder[p] # None)
    BY <1>2, <1>3, <1>7 DEF Mirror!File, Files
  <2>2. folder[p] # None /\ folder[p].text = f.text => g = f
    BY <1>2, <1>3, <1>7 DEF Mirror!File, Files
  <2> HIDE DEF g
  <2>3. folder' = [folder EXCEPT ![p] = g]
    BY <1>7 DEF g
  <2>4. folder' \in Tree /\ folder'[p] = g /\ \A q \in Filed : q # p => folder'[q] = folder[q]
    BY <1>2, <2>1, <2>3 DEF Tree
  <2>5. mirrored' /\ jobs = {j} /\ OnTheWay(j) => folder'[p] = heads[head].tree[p]
    BY <1>4, <1>7, <2>2, <2>4 DEF OnTheWay, Stamping
  <2> QED BY <1>1, <1>2, <1>7, <2>1, <2>4, <2>5, AdvanceKeeps
<1>8. CASE /\ f # None /\ ~j.stamp /\ ~Mirror!Skips(folder[p], f) /\ UNCHANGED mirrored
           /\ folder' = [folder EXCEPT ![p] = Mirror!File(f.text, folderClock)]
           /\ jobs' = (jobs \ {j}) \cup {[j EXCEPT !.stamp = TRUE]}
  <2>a. PICK k : k = [j EXCEPT !.stamp = TRUE]
    OBVIOUS
  <2>1. k \in Job /\ k.head = j.head /\ k.at = j.at /\ k.stamp /\ k.at # 0
    BY <1>1, <1>2, <2>a DEF Job, MirrorInv, Jobs
  <2>2. Mirror!File(f.text, folderClock) \in Files
        /\ Mirror!File(f.text, folderClock).text = f.text /\ Mirror!File(f.text, folderClock) # None
    BY <1>2, <1>3, <1>8 DEF Mirror!File, Files, Mirror!FolderAssumption
  <2>3. /\ folder' \in Tree /\ folder'[p] = Mirror!File(f.text, folderClock) /\ \A q \in Filed
               : q # p => folder'[q] = folder[q]
    BY <1>2, <1>8, <2>2 DEF Tree
  <2>4. jobs' = (jobs \ {j}) \cup {k} /\ jobs' \subseteq Job
    BY <1>2, <1>8, <2>1, <2>a, JobTyped DEF MirrorInv
  <2>5. ASSUME mirrored', jobs = {j}, OnTheWay(j) PROVE (Mirroring /\ Mirror!FolderMirrorsHead)'
    <3>1. jobs' = {k} /\ j.head = head /\ Written(j) /\ Leftovers(head)
      BY <1>1, <2>4, <2>5 DEF OnTheWay
    <3>2. Leftovers(head)'
      BY <1>1, <1>8, <2>3, <3>1 DEF Leftovers, Mirror!Gone
    <3>3. Written(k)'
      <4> SUFFICES ASSUME NEW i \in DOMAIN Order, i < k.at, heads[head].tree[Order[i]] # None
                   PROVE  folder'[Order[i]] = heads[head].tree[Order[i]]
        BY <1>1 DEF Written
      <4>1. Order[i] \in Filed /\ i < j.at /\ i # j.at /\ Order[i] # p
        BY <1>2, <2>1 DEF Mirror!FolderAssumption, Job
      <4> QED BY <2>3, <3>1, <4>1 DEF Written
    <3>4. OnTheWay(k)'
      BY <1>1, <1>2, <1>8, <2>1, <2>2, <2>3, <3>1, <3>2, <3>3 DEF OnTheWay, Stamping
    <3> QED BY <3>1, <3>4 DEF Mirroring, Mirror!FolderMirrorsHead
  <2> QED BY <1>1, <1>2, <1>8, <2>1, <2>3, <2>4, <2>5, JobStepKeeps
<1> QED BY <1>1, <1>5, <1>6, <1>7, <1>8

LEMMA RemoveKeeps == ASSUME Mirror!FolderAssumption, MirrorInv, NEW j \in jobs,
    Mirror!RemoveFiles(j) PROVE MirrorInv'
<1>1. j.head # 0 /\ j.at > Len(Order)
      /\ UNCHANGED <<heads, head, server, walked, folderClock, mirrored>>
  BY DEF Mirror!RemoveFiles
<1>2. j \in Job /\ folder \in Tree /\ jobs \subseteq Job /\ mirrored \in BOOLEAN
  BY DEF MirrorInv, MirrorTypes
<1>3. ASSUME NEW p \in Mirror!Gone(j.head), folder' = [folder EXCEPT ![p] = None],
      UNCHANGED jobs PROVE MirrorInv'
  <2>1. p \in Filed /\ folder' \in Tree /\ folder'[p] = None /\ \A q \in Filed : q # p
        => folder'[q] = folder[q]
    BY <1>2, <1>3 DEF Mirror!Gone, Tree
  <2>2. ASSUME jobs = {j}, OnTheWay(j) PROVE (Mirroring /\ Mirror!FolderMirrorsHead)'
    <3>1. j.head = head /\ heads[head].tree[p] = None /\ Written(j) /\ Leftovers(head)
      BY <1>1, <1>3, <2>2 DEF OnTheWay, Mirror!Gone
    <3>2. Leftovers(head)'
      BY <1>1, <2>1, <3>1 DEF Leftovers, Mirror!Gone
    <3>3. Written(j)'
      BY <1>1, <2>1, <3>1 DEF Written, Mirror!FolderAssumption
    <3>4. Stamping(j)'
      BY <1>1, <2>1, <2>2, <3>1 DEF OnTheWay, Stamping, Mirror!FolderAssumption
    <3> QED BY <1>1, <1>3, <2>2, <3>1, <3>2, <3>3, <3>4 DEF Mirroring, OnTheWay,
        Mirror!FolderMirrorsHead
  <2> QED BY <1>1, <1>2, <1>3, <2>1, <2>2, JobStepKeeps
<1>4. ASSUME \A p \in Mirror!Gone(j.head) : folder[p] = None, jobs' = jobs \ {j},
      UNCHANGED folder PROVE MirrorInv'
  <2>1. ASSUME jobs = {j}, OnTheWay(j) PROVE folder = heads[head].tree
    <3>1. j.head = head /\ Written(j) /\ Leftovers(head) /\ head \in 1..Len(heads)
      BY <1>1, <2>1 DEF OnTheWay, MirrorInv, Jobs
    <3>2. heads[head].tree \in Tree
      <4>1. heads[head] \in Manifest
        BY <3>1 DEF MirrorInv, MirrorTypes
      <4> QED BY <4>1 DEF Manifest
    <3>3. ASSUME NEW p \in Filed PROVE folder[p] = heads[head].tree[p]
      <4>1. CASE heads[head].tree[p] = None
        BY <1>4, <3>1, <4>1 DEF Leftovers
      <4>2. CASE heads[head].tree[p] # None
        <5>1. PICK i \in DOMAIN Order : Order[i] = p
          BY DEF Mirror!FolderAssumption
        <5>2. i < j.at
          BY <1>1, <1>2, <5>1 DEF Mirror!FolderAssumption, Job
        <5> QED BY <3>1, <4>2, <5>1, <5>2 DEF Written
      <4> QED BY <4>1, <4>2
    <3> QED BY <1>2, <3>2, <3>3 DEF Tree
  <2> QED BY <1>1, <1>2, <1>4, <2>1, JobStepKeeps DEF Mirroring, Mirror!FolderMirrorsHead
<1> QED BY <1>3, <1>4 DEF Mirror!RemoveFiles

LEMMA EditKeeps ==
  ASSUME Mirror!FolderAssumption, MirrorInv, NEW p \in Filed, NEW x \in Texts \cup {None},
         Mirror!Edit(p, x)
  PROVE  MirrorInv'
<1>1. /\ folder' = [folder EXCEPT ![p] = IF x = None THEN None
             ELSE Mirror!File(x, folderClock)] /\ mirrored' = FALSE
      /\ UNCHANGED <<heads, head, jobs, server, walked, folderClock>>
  BY DEF Mirror!Edit
<1>2. folder' \in Tree
  <2>1. (IF x = None THEN None ELSE Mirror!File(x, folderClock)) \in Files \cup {None}
    BY FileIsFile DEF MirrorInv, MirrorTypes
  <2> QED BY <1>1, <2>1 DEF MirrorInv, MirrorTypes, Tree
<1> QED BY <1>1, <1>2 DEF MirrorInv, MirrorTypes, Parents, Jobs, Phase, WalkSeen, Mirroring,
    Mirror!FolderMirrorsHead

LEMMA SurroundingsKeep ==
  ASSUME Mirror!FolderAssumption, MirrorInv, Mirror!Restart \/ Mirror!Tick \/ UNCHANGED Mirror!vars
  PROVE  MirrorInv'
<1>1. CASE Mirror!Restart
  BY <1>1 DEF Mirror!Restart, MirrorInv, MirrorTypes, Parents, Jobs, Phase, WalkSeen, Mirroring,
     Mirror!FolderMirrorsHead
<1>2. CASE Mirror!Tick \/ UNCHANGED Mirror!vars
  <2>1. UNCHANGED <<folder, heads, head, jobs, server, walked, mirrored>> /\ folderClock' \in Nat
    BY <1>2 DEF Mirror!Tick, Mirror!vars, MirrorInv, MirrorTypes
  <2> QED BY <2>1 DEF MirrorInv, MirrorTypes, Parents, Jobs, Phase, WalkSeen, Mirroring,
      Mirror!FolderMirrorsHead,
                      OnTheWay, Leftovers, Mirror!Gone, Written, Stamping
<1> QED BY <1>1, <1>2

LEMMA MirrorNextKeeps == ASSUME Mirror!FolderAssumption, MirrorInv, [Mirror!Next]_(Mirror!vars)
  PROVE MirrorInv'
<1>1. ASSUME NEW p \in Filed, NEW x \in Texts \cup {None},
      Mirror!Put(p, IF x = None THEN None ELSE Mirror!File(x, folderClock))
      PROVE  MirrorInv'
  <2>1. (IF x = None THEN None ELSE Mirror!File(x, folderClock)) \in Files \cup {None}
    BY FileIsFile DEF MirrorInv, MirrorTypes
  <2> QED BY <1>1, <2>1, PutKeeps
<1> QED BY <1>1, WalkKeeps, PublishKeeps, BeginKeeps, MirrorWriteKeeps, RemoveKeeps, EditKeeps,
    SurroundingsKeep DEF Mirror!Next

LEMMA FolderIsMirrored == ASSUME MirrorInv PROVE Mirror!TypeOK /\ Mirror!FolderMirrorsHead
BY DEF MirrorInv, MirrorTypes, Tree, Parents, Mirror!TypeOK

LEMMA FolderHolds ==
  ASSUME Mirror!FolderAssumption
  PROVE  Mirror!Spec => [](Mirror!TypeOK /\ Mirror!FolderMirrorsHead)
<1>1. Mirror!Init => MirrorInv
  BY MirrorStart
<1>2. MirrorInv /\ [Mirror!Next]_(Mirror!vars) => MirrorInv'
  BY MirrorNextKeeps
<1>3. MirrorInv => Mirror!TypeOK /\ Mirror!FolderMirrorsHead
  BY FolderIsMirrored
<1> QED BY <1>1, <1>2, <1>3, PTL DEF Mirror!Spec

-----------------------------------------------------------------------------
(* The checkpoints of a workspace *)

BridgeCall ==
    [pc : {"idle", "context", "reread", "save", "workspace", "pod", "worker", "unlock",
           "unlockFailed", "release", "failed", "map", "leave", "done"},
     op : {"none", "create", "restore"}, ctx : Contexts \cup {None}, snap : Bridge!Ids \cup {0}]

BridgeShapes ==
    /\ call \in [Windows -> BridgeCall]
    /\ mapping \in [Contexts -> Bridge!Ids \cup {0}]
    /\ contextLock \in [Contexts -> Bridge!Owners]
    /\ workspaceLock \in Bridge!Owners

\* What holds of window w whose bridge call is k: it owns the workspace's lock
\* while it works on the pod, and a capture the lock of its context, which has
\* no snapshot until it is mapped.
Sound(w, k) ==
    /\ k.pc \in {"pod", "worker", "unlock", "unlockFailed", "release", "failed"}
          => workspaceLock = w
    /\ k.pc # "idle" => k.op \in {"create", "restore"} /\ k.ctx \in Contexts
    /\ k.pc \in {"context", "reread", "save", "map", "leave"} => k.op = "create"
    /\ k.pc \notin {"idle", "context"} /\ k.op = "create" => contextLock[k.ctx] = w
    /\ k.pc \notin {"idle", "context", "reread", "leave"} /\ k.op = "create" => mapping[k.ctx] = 0

\* A worker whose window died keeps the workspace locked.
OrphanLocks == orphans = {} \/ (workspaceLock = Bridge!Dead /\ \E o : orphans = {o})

BridgeInv == BridgeShapes /\ OrphanLocks /\ \A w \in Windows : Sound(w, call[w])

LEMMA BridgeStart ==
  ASSUME Bridge!CheckpointsAssumption, Bridge!Init
  PROVE  BridgeInv
BY DEF Bridge!Init, BridgeInv, BridgeShapes, OrphanLocks, Sound, Bridge!Idle, BridgeCall,
   Bridge!Owners

-----------------------------------------------------------------------------

\* Window w's call becomes k; what the others rely on stays.
LEMMA CallChange ==
  ASSUME BridgeInv, NEW w \in Windows, NEW k \in BridgeCall, call' = [call EXCEPT ![w] = k],
         mapping' \in [Contexts -> Bridge!Ids \cup {0}],
             contextLock' \in [Contexts -> Bridge!Owners],
         workspaceLock' \in Bridge!Owners, OrphanLocks', Sound(w, k)',
         \A v \in Windows \ {w} : Sound(v, call[v])'
  PROVE  BridgeInv'
<1>1. call \in [Windows -> BridgeCall]
  BY DEF BridgeInv, BridgeShapes
<1>2. call'[w] = k /\ \A v \in Windows \ {w} : call'[v] = call[v]
  BY <1>1
<1>3. BridgeShapes'
  BY <1>1 DEF BridgeShapes
<1>4. \A v \in Windows : Sound(v, call[v])'
  BY <1>2 DEF Sound
<1> QED BY <1>3, <1>4 DEF BridgeInv

\* A step that takes and gives no lock.
LEMMA Moves ==
  ASSUME BridgeInv, NEW w \in Windows, NEW k \in BridgeCall, call' = [call EXCEPT ![w] = k],
         Sound(w, k),
         UNCHANGED <<mapping, contextLock, workspaceLock, orphans>>
  PROVE  BridgeInv'
<1>1. \A v \in Windows \ {w} : call'[v] = call[v]
  BY DEF BridgeInv, BridgeShapes
<1>2. OrphanLocks' /\ Sound(w, k)'
  BY DEF BridgeInv, OrphanLocks, Sound
<1>3. \A v \in Windows \ {w} : Sound(v, call[v])'
  BY <1>1 DEF BridgeInv, Sound
<1> QED BY <1>2, <1>3, CallChange DEF BridgeInv, BridgeShapes

Moved(w) == \E k \in BridgeCall : call' = [call EXCEPT ![w] = k] /\ Sound(w, k)

LEMMA UnlockedMoves ==
  ASSUME Bridge!CheckpointsAssumption, BridgeInv, NEW w \in Windows,
         \/ \E c \in Contexts : Bridge!Restore(w, c) \/ Bridge!Capture(w, c)
         \/ Bridge!Reread(w) \/ Bridge!SaveDocuments(w) \/ Bridge!LockPod(w) \/ Bridge!Worker(w)
               \/ Bridge!UnlockPod(w) \/ Bridge!Done(w)
         \/ (Bridge!LockContext(w) /\ contextLock[call[w].ctx] # None)
         \/ (Bridge!LockWorkspace(w) /\ workspaceLock # None)
  PROVE  BridgeInv'
<1>1. Moved(w)
  <2>0. call \in [Windows -> BridgeCall] /\ call[w] \in BridgeCall /\ Sound(w, call[w])
        /\ Bridge!Idle \in BridgeCall /\ Sound(w, Bridge!Idle)
    BY DEF BridgeInv, BridgeShapes, Bridge!Idle, BridgeCall, Sound
  <2>1. ASSUME NEW c \in Contexts, Bridge!Restore(w, c) PROVE Moved(w)
    <3> DEFINE k == [pc |-> "workspace", op |-> "restore", ctx |-> c, snap |-> mapping[c]]
    <3>1. k \in BridgeCall /\ Sound(w, k)
      BY DEF BridgeInv, BridgeShapes, BridgeCall, Sound
    <3> QED BY <2>1, <3>1 DEF Bridge!Restore, Moved
  <2>2. ASSUME NEW c \in Contexts, Bridge!Capture(w, c) PROVE Moved(w)
    <3> DEFINE k == [pc |-> "context", op |-> "create", ctx |-> c, snap |-> 0]
    <3>1. k \in BridgeCall /\ Sound(w, k)
      BY DEF BridgeCall, Sound
    <3> QED BY <2>2, <3>1 DEF Bridge!Capture, Moved
  <2>3. CASE Bridge!Reread(w)
    <3>1. PICK pc \in {"save", "leave"} : Bridge!Goto(w, pc)
          /\ (pc = "save" => mapping[call[w].ctx] = 0) /\ call[w].pc = "reread"
      BY <2>3 DEF Bridge!Reread, Bridge!At
    <3>2. [call[w] EXCEPT !.pc = pc] \in BridgeCall /\ Sound(w, [call[w] EXCEPT !.pc = pc])
      BY <2>0, <3>1 DEF BridgeCall, Sound
    <3> QED BY <2>0, <3>1, <3>2 DEF Bridge!Goto, Moved
  <2>4. CASE Bridge!SaveDocuments(w)
    <3>1. PICK pc \in {"workspace", "leave"} : Bridge!Goto(w, pc) /\ call[w].pc = "save"
      BY <2>4 DEF Bridge!SaveDocuments, Bridge!At
    <3>2. [call[w] EXCEPT !.pc = pc] \in BridgeCall /\ Sound(w, [call[w] EXCEPT !.pc = pc])
      BY <2>0, <3>1 DEF BridgeCall, Sound
    <3> QED BY <2>0, <3>1, <3>2 DEF Bridge!Goto, Moved
  <2>5. CASE Bridge!LockPod(w)
    <3>1. PICK pc \in {"worker", "failed"} : Bridge!Goto(w, pc) /\ call[w].pc = "pod"
      BY <2>5 DEF Bridge!LockPod, Bridge!At
    <3>2. [call[w] EXCEPT !.pc = pc] \in BridgeCall /\ Sound(w, [call[w] EXCEPT !.pc = pc])
      BY <2>0, <3>1 DEF BridgeCall, Sound
    <3> QED BY <2>0, <3>1, <3>2 DEF Bridge!Goto, Moved
  <2>6. CASE Bridge!Worker(w)
    <3>1. call[w].pc = "worker"
      BY <2>6 DEF Bridge!Worker, Bridge!At
    <3>2. ASSUME NEW i \in Bridge!Ids \cup {0},
          call' = [call EXCEPT ![w].pc = "unlock", ![w].snap = i] PROVE Moved(w)
      <4> DEFINE k == [[call[w] EXCEPT !.pc = "unlock"] EXCEPT !.snap = i]
      <4>1. k \in BridgeCall /\ Sound(w, k)
        BY <2>0, <3>1 DEF BridgeCall, Sound
      <4>2. call' = [call EXCEPT ![w] = k]
        BY <2>0, <3>2
      <4> QED BY <4>1, <4>2 DEF Moved
    <3>3. ASSUME Bridge!Goto(w, "unlockFailed") PROVE Moved(w)
      <4>1. [call[w] EXCEPT !.pc = "unlockFailed"] \in BridgeCall
            /\ Sound(w, [call[w] EXCEPT !.pc = "unlockFailed"])
        BY <2>0, <3>1 DEF BridgeCall, Sound
      <4> QED BY <2>0, <3>3, <4>1 DEF Bridge!Goto, Moved
    <3>4. call[w].snap \in Bridge!Ids \cup {0} /\ Bridge!Fresh \subseteq Bridge!Ids
      BY <2>0 DEF BridgeCall, Bridge!Fresh
    <3> QED BY <2>6, <3>2, <3>3, <3>4 DEF Bridge!Worker
  <2>7. CASE Bridge!UnlockPod(w)
    <3>1. PICK pc \in {"release", "failed"} : Bridge!Goto(w, pc)
          /\ call[w].pc \in {"unlock", "unlockFailed"}
      BY <2>7 DEF Bridge!UnlockPod, Bridge!At
    <3>2. [call[w] EXCEPT !.pc = pc] \in BridgeCall /\ Sound(w, [call[w] EXCEPT !.pc = pc])
      BY <2>0, <3>1 DEF BridgeCall, Sound
    <3> QED BY <2>0, <3>1, <3>2 DEF Bridge!Goto, Moved
  <2>8. CASE Bridge!Done(w) \/ (Bridge!LockContext(w) /\ contextLock[call[w].ctx] # None)
    BY <2>0, <2>8 DEF Bridge!Done, Bridge!LockContext, Bridge!Return, Moved
  <2>9. CASE Bridge!LockWorkspace(w) /\ workspaceLock # None
    <3>1. PICK pc \in {"done", "leave"} : Bridge!Goto(w, pc) /\ call[w].pc = "workspace"
          /\ (pc = "leave" => call[w].op # "restore")
                                          /\ (pc = "done" => call[w].op = "restore")
      BY <2>9 DEF Bridge!LockWorkspace, Bridge!At, Bridge!After
    <3>2. [call[w] EXCEPT !.pc = pc] \in BridgeCall /\ Sound(w, [call[w] EXCEPT !.pc = pc])
      BY <2>0, <3>1 DEF BridgeCall, Sound
    <3> QED BY <2>0, <3>1, <3>2 DEF Bridge!Goto, Moved
  <2> QED BY <2>1, <2>2, <2>3, <2>4, <2>5, <2>6, <2>7, <2>8, <2>9
<1>2. UNCHANGED <<mapping, contextLock, workspaceLock, orphans>>
  BY DEF Bridge!Restore, Bridge!Capture, Bridge!Reread, Bridge!SaveDocuments, Bridge!LockPod,
     Bridge!Worker, Bridge!UnlockPod, Bridge!Done, Bridge!LockContext,
         Bridge!LockWorkspace, Bridge!locks
<1> QED BY <1>1, <1>2, Moves DEF Moved

\* Nobody's call changes, nor a lock that somebody who is alive holds.
LEMMA Surroundings ==
  ASSUME Bridge!CheckpointsAssumption, BridgeInv,
         Bridge!Edit \/ Bridge!OrphanEnds \/ Bridge!CleanUp \/ UNCHANGED Bridge!vars
  PROVE  BridgeInv'
<1>1. UNCHANGED <<call, mapping>>
  BY DEF Bridge!Edit, Bridge!OrphanEnds, Bridge!CleanUp, Bridge!vars
<1>2. /\ contextLock \in [Contexts -> Bridge!Owners] /\ workspaceLock \in Bridge!Owners
      /\ \A w \in Windows : w # Bridge!Dead
  BY DEF BridgeInv, BridgeShapes, Bridge!CheckpointsAssumption
<1>3. /\ contextLock' \in [Contexts -> Bridge!Owners] /\ workspaceLock' \in Bridge!Owners
      /\ \A c \in Contexts : contextLock[c] \in Windows => contextLock'[c] = contextLock[c]
      /\ workspaceLock \in Windows => workspaceLock' = workspaceLock
  BY <1>2 DEF Bridge!Edit, Bridge!OrphanEnds, Bridge!CleanUp, Bridge!vars, Bridge!locks,
     Bridge!Owners
<1>4. OrphanLocks'
  BY DEF BridgeInv, OrphanLocks, Bridge!Edit, Bridge!OrphanEnds, Bridge!CleanUp, Bridge!vars,
     Bridge!locks
<1>5. \A w \in Windows : Sound(w, call[w])'
  BY <1>1, <1>3 DEF BridgeInv, Sound
<1> QED BY <1>1, <1>3, <1>4, <1>5 DEF BridgeInv, BridgeShapes

LEMMA LockContextKeeps ==
  ASSUME Bridge!CheckpointsAssumption, BridgeInv, NEW w \in Windows, Bridge!LockContext(w),
         contextLock[call[w].ctx] = None
  PROVE  BridgeInv'
<1> DEFINE c == call[w].ctx
<1>1. /\ call[w].pc = "context" /\ contextLock' = [contextLock EXCEPT ![c] = w]
      /\ call' = [call EXCEPT ![w].pc = "reread"] /\ UNCHANGED <<mapping, workspaceLock, orphans>>
  BY DEF Bridge!LockContext, Bridge!At, Bridge!Goto
<1>2. /\ call \in [Windows -> BridgeCall] /\ call[w] \in BridgeCall /\ contextLock
             \in [Contexts -> Bridge!Owners]
      /\ c \in Contexts /\ call[w].op = "create"
  BY <1>1 DEF BridgeInv, BridgeShapes, Sound
<1>3. PICK k \in BridgeCall : call' = [call EXCEPT ![w] = k] /\ k = [call[w] EXCEPT !.pc = "reread"]
  BY <1>1, <1>2 DEF BridgeCall
<1>4. Sound(w, k)'
  BY <1>1, <1>2, <1>3 DEF Sound, BridgeCall
<1>5. \A v \in Windows \ {w} : Sound(v, call[v])'
  BY <1>1, <1>2 DEF BridgeInv, Sound, Bridge!CheckpointsAssumption
<1>6. contextLock' \in [Contexts -> Bridge!Owners] /\ OrphanLocks'
  BY <1>1, <1>2 DEF Bridge!Owners, BridgeInv, OrphanLocks
<1> HIDE DEF c
<1> QED BY <1>1, <1>3, <1>4, <1>5, <1>6, CallChange DEF BridgeInv, BridgeShapes

LEMMA LockWorkspaceKeeps ==
  ASSUME Bridge!CheckpointsAssumption, BridgeInv, NEW w \in Windows, Bridge!LockWorkspace(w),
         workspaceLock = None
  PROVE  BridgeInv'
<1>1. /\ call[w].pc = "workspace" /\ workspaceLock' = w
      /\ call' = [call EXCEPT ![w].pc = "pod"] /\ UNCHANGED <<mapping, contextLock, orphans>>
  BY DEF Bridge!LockWorkspace, Bridge!At, Bridge!Goto
<1>2. call \in [Windows -> BridgeCall] /\ call[w] \in BridgeCall /\ Sound(w, call[w])
  BY <1>1 DEF BridgeInv, BridgeShapes
<1>3. PICK k \in BridgeCall : call' = [call EXCEPT ![w] = k] /\ k = [call[w] EXCEPT !.pc = "pod"]
  BY <1>1, <1>2 DEF BridgeCall
<1>4. Sound(w, k)'
  BY <1>1, <1>2, <1>3 DEF Sound, BridgeCall
<1>5. \A v \in Windows \ {w} : Sound(v, call[v])'
  BY <1>1, <1>2 DEF BridgeInv, Sound, Bridge!CheckpointsAssumption
<1>6. OrphanLocks'
  BY <1>1 DEF BridgeInv, OrphanLocks, Bridge!CheckpointsAssumption
<1> QED BY <1>1, <1>3, <1>4, <1>5, <1>6, CallChange DEF BridgeInv, BridgeShapes, Bridge!Owners

LEMMA UnlockWorkspaceKeeps ==
  ASSUME Bridge!CheckpointsAssumption, BridgeInv, NEW w \in Windows, Bridge!UnlockWorkspace(w)
  PROVE  BridgeInv'
<1>1. PICK pc \in {"done", "map", "leave"} :
         /\ call' = [call EXCEPT ![w].pc = pc] /\ (pc = "done" <=> call[w].op = "restore")
         /\ call[w].pc \in {"release", "failed"} /\ workspaceLock' = None
         /\ UNCHANGED <<mapping, contextLock, orphans>>
  BY DEF Bridge!UnlockWorkspace, Bridge!At, Bridge!Goto, Bridge!After
<1>2. call \in [Windows -> BridgeCall] /\ call[w] \in BridgeCall /\ Sound(w, call[w])
      /\ workspaceLock = w
  BY <1>1 DEF BridgeInv, BridgeShapes, Sound
<1>3. PICK k \in BridgeCall : call' = [call EXCEPT ![w] = k] /\ k = [call[w] EXCEPT !.pc = pc]
  BY <1>1, <1>2 DEF BridgeCall
<1>4. Sound(w, k)'
  BY <1>1, <1>2, <1>3 DEF Sound, BridgeCall
<1>5. \A v \in Windows \ {w} : Sound(v, call[v])'
  BY <1>1, <1>2 DEF BridgeInv, Sound
<1>6. OrphanLocks'
  BY <1>1, <1>2 DEF BridgeInv, OrphanLocks, Bridge!CheckpointsAssumption
<1> QED BY <1>1, <1>3, <1>4, <1>5, <1>6, CallChange DEF BridgeInv, BridgeShapes, Bridge!Owners

LEMMA MapKeeps ==
  ASSUME BridgeInv, NEW w \in Windows, Bridge!Map(w)
  PROVE  BridgeInv'
<1>1. /\ call[w].pc = "map" /\ mapping' = [mapping EXCEPT ![call[w].ctx] = call[w].snap]
      /\ call' = [call EXCEPT ![w].pc = "leave"]
            /\ UNCHANGED <<contextLock, workspaceLock, orphans>>
  BY DEF Bridge!Map, Bridge!At, Bridge!Goto, Bridge!locks
<1>2. /\ call \in [Windows -> BridgeCall] /\ call[w] \in BridgeCall /\ Sound(w, call[w])
      /\ mapping \in [Contexts -> Bridge!Ids \cup {0}] /\ call[w].ctx \in Contexts
            /\ call[w].op = "create"
      /\ contextLock[call[w].ctx] = w
  BY <1>1 DEF BridgeInv, BridgeShapes, Sound
<1>3. PICK k \in BridgeCall : call' = [call EXCEPT ![w] = k] /\ k = [call[w] EXCEPT !.pc = "leave"]
  BY <1>1, <1>2 DEF BridgeCall
<1>4. Sound(w, k)'
  BY <1>1, <1>2, <1>3 DEF Sound, BridgeCall
<1>5. \A v \in Windows \ {w} : Sound(v, call[v])'
  BY <1>1, <1>2 DEF BridgeInv, Sound
<1>6. mapping' \in [Contexts -> Bridge!Ids \cup {0}] /\ OrphanLocks'
  BY <1>1, <1>2 DEF BridgeCall, BridgeInv, OrphanLocks
<1> QED BY <1>1, <1>3, <1>4, <1>5, <1>6, CallChange DEF BridgeInv, BridgeShapes

LEMMA LeaveKeeps ==
  ASSUME BridgeInv, NEW w \in Windows, Bridge!LeaveContext(w)
  PROVE  BridgeInv'
<1>1. /\ call[w].pc = "leave" /\ contextLock' = [contextLock EXCEPT ![call[w].ctx] = None]
      /\ call' = [call EXCEPT ![w] = Bridge!Idle] /\ UNCHANGED <<mapping, workspaceLock, orphans>>
  BY DEF Bridge!LeaveContext, Bridge!At, Bridge!Return
<1>2. /\ call \in [Windows -> BridgeCall] /\ contextLock \in [Contexts -> Bridge!Owners]
      /\ call[w].ctx \in Contexts /\ contextLock[call[w].ctx] = w
  BY <1>1 DEF BridgeInv, BridgeShapes, Sound
<1>3. Bridge!Idle \in BridgeCall /\ Sound(w, Bridge!Idle)'
  BY DEF Bridge!Idle, BridgeCall, Sound
<1>4. \A v \in Windows \ {w} : Sound(v, call[v])'
  BY <1>1, <1>2 DEF BridgeInv, Sound
<1>5. contextLock' \in [Contexts -> Bridge!Owners] /\ OrphanLocks'
  BY <1>1, <1>2 DEF Bridge!Owners, BridgeInv, OrphanLocks
<1> QED BY <1>1, <1>3, <1>4, <1>5, CallChange DEF BridgeInv, BridgeShapes

LEMMA CrashKeeps ==
  ASSUME Bridge!CheckpointsAssumption, BridgeInv, NEW w \in Windows, Bridge!Crash(w)
  PROVE  BridgeInv'
<1>1. /\ contextLock' = [c \in Contexts |-> Bridge!Abandoned(contextLock[c], w)]
      /\ workspaceLock' = Bridge!Abandoned(workspaceLock, w)
            /\ call' = [call EXCEPT ![w] = Bridge!Idle]
      /\ orphans' = (IF Bridge!At(w, "worker") THEN orphans \cup {<<call[w].op, call[w].snap>>}
             ELSE orphans)
      /\ UNCHANGED mapping
  BY DEF Bridge!Crash, Bridge!Return
<1>2. /\ call \in [Windows -> BridgeCall] /\ contextLock
             \in [Contexts -> Bridge!Owners] /\ workspaceLock \in Bridge!Owners
      /\ Bridge!At(w, "worker") => workspaceLock = w
  BY DEF BridgeInv, BridgeShapes, Sound, Bridge!At
<1>3. Bridge!Idle \in BridgeCall /\ Sound(w, Bridge!Idle)'
  BY DEF Bridge!Idle, BridgeCall, Sound
<1>4. \A v \in Windows \ {w} : Sound(v, call[v])'
  BY <1>1, <1>2 DEF BridgeInv, Sound, Bridge!Abandoned
<1>5. contextLock' \in [Contexts -> Bridge!Owners] /\ workspaceLock' \in Bridge!Owners
  BY <1>1, <1>2 DEF Bridge!Owners, Bridge!Abandoned
<1>6. OrphanLocks'
  <2>1. CASE Bridge!At(w, "worker")
    <3>1. orphans = {} /\ workspaceLock' = Bridge!Dead
      BY <1>1, <1>2, <2>1 DEF BridgeInv, OrphanLocks, Bridge!Abandoned, Bridge!CheckpointsAssumption
    <3> QED BY <1>1, <2>1, <3>1 DEF OrphanLocks
  <2>2. CASE ~Bridge!At(w, "worker")
    BY <1>1, <2>2 DEF BridgeInv, OrphanLocks, Bridge!Abandoned
  <2> QED BY <2>1, <2>2
<1> QED BY <1>1, <1>3, <1>4, <1>5, <1>6, CallChange DEF BridgeInv, BridgeShapes

LEMMA BridgeNextKeeps ==
  ASSUME Bridge!CheckpointsAssumption, BridgeInv, [Bridge!Next]_(Bridge!vars)
  PROVE  BridgeInv'
<1>1. ASSUME NEW w \in Windows, Bridge!Step(w) PROVE BridgeInv'
  <2>1. CASE Bridge!LockContext(w)
    BY <2>1, LockContextKeeps, UnlockedMoves
  <2>2. CASE Bridge!LockWorkspace(w)
    BY <2>2, LockWorkspaceKeeps, UnlockedMoves
  <2>3. CASE Bridge!UnlockWorkspace(w) \/ Bridge!Map(w) \/ Bridge!LeaveContext(w) \/ Bridge!Crash(w)
    BY <2>3, UnlockWorkspaceKeeps, MapKeeps, LeaveKeeps, CrashKeeps
  <2>4. CASE \/ \E c \in Contexts : Bridge!Restore(w, c) \/ Bridge!Capture(w, c)
             \/ Bridge!Reread(w) \/ Bridge!SaveDocuments(w) \/ Bridge!LockPod(w)
                   \/ Bridge!Worker(w) \/ Bridge!UnlockPod(w) \/ Bridge!Done(w)
    BY <2>4, UnlockedMoves
  <2> QED BY <1>1, <2>1, <2>2, <2>3, <2>4 DEF Bridge!Step
<1> QED BY <1>1, Surroundings DEF Bridge!Next

-----------------------------------------------------------------------------

\* The Cardinality that Checkpoints sees is that of FiniteSets.
LEMMA SameCount == ASSUME NEW S PROVE Bridge!Cardinality(S) = Cardinality(S)
BY DEF Bridge!Cardinality, Cardinality

LEMMA AtMostOneWorker ==
  ASSUME Bridge!CheckpointsAssumption, BridgeInv
  PROVE  Bridge!OneWorker
<1>1. \A w \in Bridge!Working : w \in Windows /\ workspaceLock = w
  BY DEF BridgeInv, Sound, Bridge!Working, Bridge!At
<1>2. CASE orphans = {}
  <2>1. Cardinality(orphans) = 0
    BY <1>2, FS_EmptySet
  <2>2. Bridge!Working = {} \/ Bridge!Working = {workspaceLock}
    BY <1>1
  <2>3. Cardinality(Bridge!Working) \in {0, 1}
    BY <2>2, FS_EmptySet, FS_Singleton
  <2> QED BY <2>1, <2>3, SameCount DEF Bridge!OneWorker
<1>3. CASE orphans # {}
  <2>1. PICK o : orphans = {o} /\ workspaceLock = Bridge!Dead
    BY <1>3 DEF BridgeInv, OrphanLocks
  <2>2. Bridge!Working = {}
    BY <1>1, <2>1 DEF Bridge!CheckpointsAssumption
  <2>3. Cardinality(orphans) = 1 /\ Cardinality(Bridge!Working) = 0
    BY <2>1, <2>2, FS_EmptySet, FS_Singleton
  <2> QED BY <2>3, SameCount DEF Bridge!OneWorker
<1> QED BY <1>2, <1>3

\* However windows compete and die, at most one worker changes the pod, also
\* while one whose window is dead has not finished (checkpoint-workspace.ts,
\* withWorkspaceLock).
THEOREM OneWorkerAtATime ==
  ASSUME Bridge!CheckpointsAssumption
  PROVE  Bridge!Spec => []Bridge!OneWorker
<1>1. Bridge!Init => BridgeInv
  BY BridgeStart
<1>2. BridgeInv /\ [Bridge!Next]_(Bridge!vars) => BridgeInv'
  BY BridgeNextKeeps
<1>3. BridgeInv => Bridge!OneWorker
  BY AtMostOneWorker
<1> QED BY <1>1, <1>2, <1>3, PTL DEF Bridge!Spec

\* What is kept: a snapshot that a mapping, a call or a worker names has a
\* content, so that the workspace always has one.
Saved(i) == i \in Bridge!Ids /\ snaps[i] # None
SnapOK(k) == k.op = "restore" \/ k.snap # 0 => Saved(k.snap)
Kept ==
    /\ pod \in Contents /\ drafts \in Contents \cup {None}
    /\ snaps \in [Bridge!Ids -> Contents \cup {None}]
    /\ podLock \in Bridge!Owners
    /\ \A c \in Contexts : mapping[c] # 0 => Saved(mapping[c])
    /\ \A w \in Windows : SnapOK(call[w])
    /\ \A o \in orphans : o[1] = "restore" => Saved(o[2])

LEMMA InitKept == ASSUME Bridge!CheckpointsAssumption, Bridge!Init PROVE Kept
BY DEF Bridge!Init, Kept, SnapOK, Bridge!Idle, Bridge!Owners

LEMMA SavedStays ==
  ASSUME Bridge!CheckpointsAssumption, Kept, NEW j, Saved(j),
         UNCHANGED snaps \/ \E i \in Bridge!Ids : snaps' = [snaps EXCEPT ![i] = pod]
  PROVE  Saved(j)'
BY DEF Saved, Kept, Bridge!CheckpointsAssumption

LEMMA WorkedKeeps ==
  ASSUME Bridge!CheckpointsAssumption, Kept, NEW op, NEW i \in Bridge!Ids, Bridge!Worked(op, i),
         op = "restore" => Saved(i)
  PROVE  /\ pod' \in Contents /\ snaps' \in [Bridge!Ids -> Contents \cup {None}] /\ Saved(i)'
         /\ UNCHANGED snaps \/ \E j \in Bridge!Ids : snaps' = [snaps EXCEPT ![j] = pod]
<1>1. CASE op = "create" /\ snaps' = [snaps EXCEPT ![i] = pod] /\ UNCHANGED pod
  BY <1>1 DEF Kept, Saved, Bridge!CheckpointsAssumption
<1>2. CASE op = "restore" /\ pod' = snaps[i] /\ UNCHANGED snaps
  BY <1>2 DEF Kept, Saved
<1> QED BY <1>1, <1>2 DEF Bridge!Worked

\* Window w's call becomes k; the snapshots only grow.
LEMMA KeptCall ==
  ASSUME Bridge!CheckpointsAssumption, BridgeShapes, Kept, NEW w \in Windows, NEW k,
         call' = [call EXCEPT ![w] = k], SnapOK(k)',
         UNCHANGED snaps \/ \E i \in Bridge!Ids : snaps' = [snaps EXCEPT ![i] = pod],
         pod' \in Contents, drafts' \in Contents \cup {None},
             snaps' \in [Bridge!Ids -> Contents \cup {None}],
         podLock' \in Bridge!Owners,
         \A c \in Contexts : mapping'[c] = mapping[c] \/ (mapping'[c] # 0 => Saved(mapping'[c])),
         \A o \in orphans' \ orphans : o[1] = "restore" => Saved(o[2])
  PROVE  Kept'
<1>1. call'[w] = k /\ \A v \in Windows \ {w} : call'[v] = call[v]
  BY DEF BridgeShapes
<1>2. \A v \in Windows : SnapOK(call[v])'
  BY <1>1, SavedStays DEF Kept, SnapOK
<1>3. \A o \in orphans' : o[1] = "restore" => Saved(o[2])'
  BY SavedStays DEF Kept
<1>4. \A c \in Contexts : mapping'[c] # 0 => Saved(mapping[c])'
  <2> SUFFICES ASSUME NEW c \in Contexts, mapping'[c] # 0 PROVE Saved(mapping'[c])
    BY SavedStays DEF Saved
  <2> QED BY DEF Kept
<1> QED BY <1>2, <1>3, <1>4 DEF Kept

\* A step of a call that changes no snapshot.
LEMMA PlainStepKept ==
  ASSUME Bridge!CheckpointsAssumption, BridgeInv, Kept, NEW w \in Windows,
         \/ \E c \in Contexts : Bridge!Restore(w, c) \/ Bridge!Capture(w, c)
         \/ Bridge!LockContext(w) \/ Bridge!Reread(w) \/ Bridge!SaveDocuments(w)
               \/ Bridge!LeaveContext(w)
         \/ Bridge!LockWorkspace(w) \/ Bridge!LockPod(w) \/ Bridge!UnlockPod(w)
               \/ Bridge!UnlockWorkspace(w) \/ Bridge!Done(w)
  PROVE  Kept'
<1>0. call \in [Windows -> BridgeCall] /\ SnapOK(call[w]) /\ BridgeShapes
  BY DEF BridgeInv, BridgeShapes, Kept
<1>1. UNCHANGED <<snaps, mapping, orphans>>
  BY DEF Bridge!Restore, Bridge!Capture, Bridge!LockContext, Bridge!Reread,
     Bridge!SaveDocuments, Bridge!LeaveContext, Bridge!LockWorkspace, Bridge!LockPod,
         Bridge!UnlockPod, Bridge!UnlockWorkspace, Bridge!Done, Bridge!locks
<1>2. pod' \in Contents /\ drafts' \in Contents \cup {None} /\ podLock' \in Bridge!Owners
  BY DEF Kept, Bridge!Owners, Bridge!Restore, Bridge!Capture, Bridge!LockContext, Bridge!Reread,
     Bridge!SaveDocuments, Bridge!LeaveContext, Bridge!LockWorkspace, Bridge!LockPod,
         Bridge!UnlockPod, Bridge!UnlockWorkspace, Bridge!Done, Bridge!locks
<1>3. \E k : call' = [call EXCEPT ![w] = k] /\ SnapOK(k)
  <2>1. ASSUME NEW pc, Bridge!Goto(w, pc) PROVE \E k : call' = [call EXCEPT ![w] = k] /\ SnapOK(k)
    <3>1. PICK k : k = [call[w] EXCEPT !.pc = pc]
      OBVIOUS
    <3>2. k.op = call[w].op /\ k.snap = call[w].snap
      BY <1>0, <3>1 DEF BridgeCall
    <3> QED BY <1>0, <2>1, <3>1, <3>2 DEF Bridge!Goto, SnapOK
  <2>2. ASSUME Bridge!Return(w) PROVE \E k : call' = [call EXCEPT ![w] = k] /\ SnapOK(k)
    <3>1. SnapOK(Bridge!Idle)
      BY DEF SnapOK, Bridge!Idle
    <3> QED BY <2>2, <3>1 DEF Bridge!Return
  <2>3. ASSUME NEW c \in Contexts, Bridge!Restore(w, c)
        PROVE \E k : call' = [call EXCEPT ![w] = k] /\ SnapOK(k)
    <3>1. PICK k : k = [pc |-> "workspace", op |-> "restore", ctx |-> c, snap |-> mapping[c]]
      OBVIOUS
    <3>2. k.snap = mapping[c] /\ mapping[c] # 0 /\ call' = [call EXCEPT ![w] = k]
      BY <2>3, <3>1 DEF Bridge!Restore
    <3>3. SnapOK(k)
      BY <3>2 DEF Kept, SnapOK
    <3> QED BY <3>2, <3>3
  <2>4. ASSUME NEW c \in Contexts, Bridge!Capture(w, c)
        PROVE \E k : call' = [call EXCEPT ![w] = k] /\ SnapOK(k)
    <3>1. PICK k : k = [pc |-> "context", op |-> "create", ctx |-> c, snap |-> 0]
      OBVIOUS
    <3>2. k.snap = 0 /\ k.op = "create" /\ call' = [call EXCEPT ![w] = k]
      BY <2>4, <3>1 DEF Bridge!Capture
    <3>3. SnapOK(k)
      BY <3>2 DEF SnapOK
    <3> QED BY <3>2, <3>3
  <2>5. CASE Bridge!LockContext(w) \/ Bridge!Reread(w) \/ Bridge!SaveDocuments(w)
        \/ Bridge!LeaveContext(w)
             \/ Bridge!LockWorkspace(w) \/ Bridge!LockPod(w) \/ Bridge!UnlockPod(w)
                   \/ Bridge!UnlockWorkspace(w) \/ Bridge!Done(w)
    BY <2>1, <2>2, <2>5 DEF Bridge!LockContext, Bridge!Reread, Bridge!SaveDocuments,
       Bridge!LeaveContext, Bridge!LockWorkspace, Bridge!LockPod,
         Bridge!UnlockPod, Bridge!UnlockWorkspace, Bridge!Done
  <2> QED BY <2>3, <2>4, <2>5
<1>4. PICK k : call' = [call EXCEPT ![w] = k] /\ SnapOK(k)
  BY <1>3
<1>5. SnapOK(k)' /\ snaps' \in [Bridge!Ids -> Contents \cup {None}]
  BY <1>1, <1>4 DEF SnapOK, Saved, Kept
<1> QED BY <1>0, <1>1, <1>2, <1>4, <1>5, KeptCall

LEMMA WorkerKept ==
  ASSUME Bridge!CheckpointsAssumption, BridgeInv, Kept, NEW w \in Windows, Bridge!Worker(w)
  PROVE  Kept'
<1>0. /\ call \in [Windows -> BridgeCall] /\ SnapOK(call[w]) /\ BridgeShapes /\ UNCHANGED <<drafts, mapping, podLock, orphans>>
      /\ call[w].op \in {"create", "restore"}
  BY DEF BridgeInv, BridgeShapes, Kept, Bridge!Worker, Bridge!locks, Sound, Bridge!At
<1>1. ASSUME NEW i \in (IF call[w].op = "create" THEN Bridge!Fresh ELSE {call[w].snap}),
      Bridge!Worked(call[w].op, i),
             call' = [call EXCEPT ![w].pc = "unlock", ![w].snap = i]
      PROVE  Kept'
  <2>1. i \in Bridge!Ids /\ (call[w].op = "restore" => Saved(i))
    BY <1>0, <1>1 DEF Bridge!Fresh, SnapOK, Saved
  <2>2. /\ pod' \in Contents /\ snaps' \in [Bridge!Ids -> Contents \cup {None}] /\ Saved(i)'
        /\ UNCHANGED snaps \/ \E j \in Bridge!Ids : snaps' = [snaps EXCEPT ![j] = pod]
    BY <1>1, <2>1, WorkedKeeps
  <2>3. PICK k : k = [[call[w] EXCEPT !.pc = "unlock"] EXCEPT !.snap = i]
    OBVIOUS
  <2>4. k.snap = i /\ call' = [call EXCEPT ![w] = k]
    BY <1>0, <1>1, <2>3 DEF BridgeCall
  <2>5. SnapOK(k)'
    BY <2>2, <2>4 DEF SnapOK
  <2>6. drafts' \in Contents \cup {None} /\ podLock' \in Bridge!Owners
    BY <1>0 DEF Kept
  <2> QED BY <1>0, <2>2, <2>4, <2>5, <2>6, KeptCall
<1>2. ASSUME Bridge!Goto(w, "unlockFailed"), UNCHANGED <<pod, snaps>> PROVE Kept'
  <2>1. PICK k : k = [call[w] EXCEPT !.pc = "unlockFailed"]
    OBVIOUS
  <2>2. k.op = call[w].op /\ k.snap = call[w].snap /\ call' = [call EXCEPT ![w] = k]
    BY <1>0, <1>2, <2>1 DEF BridgeCall, Bridge!Goto
  <2>3. SnapOK(k)'
    BY <1>0, <1>2, <2>2 DEF SnapOK, Saved
  <2> QED BY <1>0, <1>2, <2>2, <2>3, KeptCall DEF Kept
<1> QED BY <1>1, <1>2 DEF Bridge!Worker

LEMMA MapKept ==
  ASSUME Bridge!CheckpointsAssumption, BridgeInv, Kept, NEW w \in Windows, Bridge!Map(w)
  PROVE  Kept'
<1>0. /\ call \in [Windows -> BridgeCall] /\ SnapOK(call[w]) /\ BridgeShapes
      /\ UNCHANGED <<pod, drafts, snaps, podLock, orphans>>
      /\ mapping' = [mapping EXCEPT ![call[w].ctx] = call[w].snap] /\ Bridge!Goto(w, "leave")
  BY DEF BridgeInv, BridgeShapes, Kept, Bridge!Map, Bridge!locks
<1>1. PICK k : k = [call[w] EXCEPT !.pc = "leave"]
  OBVIOUS
<1>2. k.op = call[w].op /\ k.snap = call[w].snap /\ call' = [call EXCEPT ![w] = k]
  BY <1>0, <1>1 DEF BridgeCall, Bridge!Goto
<1>3. SnapOK(k)'
  BY <1>0, <1>2 DEF SnapOK, Saved
<1>4. \A c \in Contexts : mapping'[c] = mapping[c] \/ (mapping'[c] # 0 => Saved(mapping'[c]))
  BY <1>0 DEF BridgeShapes, SnapOK
<1> QED BY <1>0, <1>2, <1>3, <1>4, KeptCall DEF Kept

LEMMA CrashKept ==
  ASSUME Bridge!CheckpointsAssumption, BridgeInv, Kept, NEW w \in Windows, Bridge!Crash(w)
  PROVE  Kept'
<1>0. /\ SnapOK(call[w]) /\ BridgeShapes /\ UNCHANGED <<pod, drafts, snaps, mapping>>
      /\ call' = [call EXCEPT ![w] = Bridge!Idle] /\ podLock' = Bridge!Abandoned(podLock, w)
      /\ orphans' \subseteq orphans \cup {<<call[w].op, call[w].snap>>}
  BY DEF BridgeInv, Kept, Bridge!Crash, Bridge!Return
<1>1. SnapOK(Bridge!Idle)' /\ podLock' \in Bridge!Owners
  BY <1>0 DEF SnapOK, Bridge!Idle, Kept, Bridge!Abandoned, Bridge!Owners
<1>2. \A o \in orphans' \ orphans : o[1] = "restore" => Saved(o[2])
  BY <1>0 DEF SnapOK
<1> QED BY <1>0, <1>1, <1>2, KeptCall DEF Kept

LEMMA SurroundingsKept ==
  ASSUME Bridge!CheckpointsAssumption, BridgeInv, Kept, Bridge!Edit \/ Bridge!OrphanEnds
         \/ Bridge!CleanUp \/ UNCHANGED Bridge!vars
  PROVE  Kept'
<1>1. UNCHANGED <<call, mapping>> /\ orphans' \subseteq orphans
  BY DEF Bridge!Edit, Bridge!OrphanEnds, Bridge!CleanUp, Bridge!vars
<1>2. podLock' \in Bridge!Owners /\ drafts' \in Contents \cup {None}
  BY DEF Bridge!Edit, Bridge!OrphanEnds, Bridge!CleanUp, Bridge!vars, Bridge!locks, Kept,
     Bridge!Owners
<1>3. /\ pod' \in Contents /\ snaps' \in [Bridge!Ids -> Contents \cup {None}]
      /\ UNCHANGED snaps \/ \E i \in Bridge!Ids : snaps' = [snaps EXCEPT ![i] = pod]
  <2>1. CASE Bridge!OrphanEnds
    <3>1. CASE UNCHANGED <<pod, snaps>>
      BY <3>1 DEF Kept
    <3>2. ASSUME NEW o \in orphans,
          NEW i \in (IF o[1] = "create" THEN Bridge!Fresh ELSE {o[2]}), Bridge!Worked(o[1], i)
          PROVE  /\ pod' \in Contents /\ snaps' \in [Bridge!Ids -> Contents \cup {None}]
                 /\ UNCHANGED snaps \/ \E j \in Bridge!Ids : snaps' = [snaps EXCEPT ![j] = pod]
      <4>1. i \in Bridge!Ids /\ (o[1] = "restore" => Saved(i))
        BY <3>2 DEF Bridge!Fresh, Kept, Saved, Bridge!Worked
      <4> QED BY <3>2, <4>1, WorkedKeeps
    <3> QED BY <2>1, <3>1, <3>2 DEF Bridge!OrphanEnds
  <2>2. CASE Bridge!Edit \/ Bridge!CleanUp \/ UNCHANGED Bridge!vars
    BY <2>2 DEF Bridge!Edit, Bridge!CleanUp, Bridge!vars, Kept
  <2> QED BY <2>1, <2>2
<1>4. /\ \A c \in Contexts : mapping[c] # 0 => Saved(mapping[c])'
      /\ \A w \in Windows : SnapOK(call[w])'
      /\ \A o \in orphans' : o[1] = "restore" => Saved(o[2])'
  BY <1>1, <1>3, SavedStays DEF Kept, SnapOK
<1> QED BY <1>1, <1>2, <1>3, <1>4 DEF Kept

LEMMA NextKept ==
  ASSUME Bridge!CheckpointsAssumption, BridgeInv, Kept, [Bridge!Next]_(Bridge!vars)
  PROVE  Kept'
BY PlainStepKept, WorkerKept, MapKept, CrashKept, SurroundingsKept DEF Bridge!Next, Bridge!Step

LEMMA BindingsStay ==
  ASSUME BridgeInv, [Bridge!Next]_(Bridge!vars)
  PROVE  [Bridge!BindingsHold]_mapping
<1>1. ASSUME NEW w \in Windows, Bridge!Map(w) PROVE Bridge!BindingsHold
  <2>1. call[w].ctx \in Contexts /\ mapping[call[w].ctx] = 0
        /\ mapping \in [Contexts -> Bridge!Ids \cup {0}]
    BY <1>1 DEF Bridge!Map, Bridge!At, BridgeInv, BridgeShapes, Sound
  <2> QED BY <1>1, <2>1 DEF Bridge!Map, Bridge!BindingsHold
<1>2. CASE \A w \in Windows : ~Bridge!Map(w)
  BY <1>2 DEF Bridge!Next, Bridge!vars, Bridge!Edit, Bridge!OrphanEnds, Bridge!CleanUp,
     Bridge!Step, Bridge!Restore, Bridge!Capture, Bridge!LockContext, Bridge!Reread,
              Bridge!SaveDocuments, Bridge!LeaveContext, Bridge!LockWorkspace, Bridge!LockPod,
                  Bridge!Worker, Bridge!UnlockPod,
              Bridge!UnlockWorkspace, Bridge!Done, Bridge!Crash
<1> QED BY <1>1, <1>2

\* A context keeps the snapshot it was bound to, whoever else captures, restarts
\* or dies (checkpoint-bridge.js, capture).
THEOREM FirstCaptureStays ==
  ASSUME Bridge!CheckpointsAssumption
  PROVE  Bridge!Spec => Bridge!FirstCaptureWins
<1>1. Bridge!Init => BridgeInv
  BY BridgeStart
<1>2. BridgeInv /\ [Bridge!Next]_(Bridge!vars) => BridgeInv'
  BY BridgeNextKeeps
<1>3. BridgeInv /\ [Bridge!Next]_(Bridge!vars) => [Bridge!BindingsHold]_mapping
  BY BindingsStay
<1> QED BY <1>1, <1>2, <1>3, PTL DEF Bridge!Spec, Bridge!FirstCaptureWins

LEMMA BridgeTypes ==
  ASSUME Bridge!CheckpointsAssumption
  PROVE  Bridge!Spec => []Bridge!TypeOK
<1>1. Bridge!Init => BridgeInv /\ Kept
  BY BridgeStart, InitKept
<1>2. BridgeInv /\ Kept /\ [Bridge!Next]_(Bridge!vars) => BridgeInv' /\ Kept'
  BY BridgeNextKeeps, NextKept
<1>3. BridgeInv /\ Kept => Bridge!TypeOK
  BY DEF BridgeInv, BridgeShapes, Kept, Bridge!TypeOK
<1> QED BY <1>1, <1>2, <1>3, PTL DEF Bridge!Spec

-----------------------------------------------------------------------------
(* Replicas that join their heads *)

WellFormed(m) == /\ m \in Seq(Joins!ManifestOver(Nat))
                 /\ \A d \in Joins!Digests(m) : m[d] \in Joins!ManifestOver(1..(d - 1))

\* more is m with more manifests.
Extends(more, m) == Len(m) <= Len(more) /\ \A d \in Joins!Digests(m) : more[d] = m[d]

\* A manifest whose parents are known is one whose parents are digests.
LEMMA ManifestWiden ==
  ASSUME NEW S, NEW T, S \subseteq T, NEW x \in Joins!ManifestOver(S)
  PROVE  x \in Joins!ManifestOver(T)
BY DEF Joins!ManifestOver

\* putBlob of a manifest: its digest is known afterwards, the others stay.
LEMMA PutManifest ==
  ASSUME NEW m, WellFormed(m), NEW new \in Joins!ManifestOver(Joins!Digests(m))
  PROVE  /\ WellFormed(Joins!Put(m, new)) /\ Extends(Joins!Put(m, new), m)
         /\ Joins!DigestOf(m, new) \in Joins!Digests(Joins!Put(m, new))
<1>1. CASE \E d \in Joins!Digests(m) : m[d] = new
  BY <1>1 DEF Joins!Put, Joins!DigestOf, Extends, WellFormed
<1>2. CASE ~\E d \in Joins!Digests(m) : m[d] = new
  <2> DEFINE more == Append(m, new)
  <2>1. Len(m) \in Nat /\ Joins!Digests(m) = 1..Len(m) /\ Joins!Digests(m) \subseteq Nat
    BY DEF WellFormed, Joins!Digests
  <2>2. new \in Joins!ManifestOver(Nat)
    BY <2>1, ManifestWiden
  <2>3. /\ more \in Seq(Joins!ManifestOver(Nat)) /\ Len(more) = Len(m) + 1
        /\ more[Len(m) + 1] = new /\ \A d \in 1..Len(m) : more[d] = m[d]
    BY <2>2 DEF WellFormed
  <2>4. \A d \in Joins!Digests(more) : more[d] \in Joins!ManifestOver(1..(d - 1))
    <3> TAKE d \in Joins!Digests(more)
    <3>1. CASE d \in Joins!Digests(m)
      BY <3>1, <2>1, <2>3 DEF WellFormed
    <3>2. CASE d = Len(m) + 1
      <4>1. 1..(d - 1) = Joins!Digests(m)
        BY <3>2, <2>1
      <4> QED BY <4>1, <3>2, <2>3
    <3> QED BY <3>1, <3>2, <2>1, <2>3 DEF Joins!Digests
  <2>5. Joins!Put(m, new) = more /\ Joins!DigestOf(m, new) = Len(m) + 1
    BY <1>2 DEF Joins!Put, Joins!DigestOf
  <2> HIDE DEF more
  <2> QED BY <2>1, <2>3, <2>4, <2>5 DEF WellFormed, Extends, Joins!Digests
<1> QED BY <1>1, <1>2

\* mergeHeads picks registers of its two heads and makes none up.
LEMMA JoinedFile ==
  ASSUME NEW S, NEW T, NEW a \in Joins!ManifestOver(S), NEW b \in Joins!ManifestOver(T),
         NEW base, NEW path \in Replicated
  PROVE  Joins!JoinPath(a, b, base, path) \in Joins!Register \cup {None}
<1>1. a.files[path] \in Joins!Register \cup {None} /\ b.files[path] \in Joins!Register \cup {None}
  BY DEF Joins!ManifestOver
<1>2. Joins!NewerOf(a.files[path], b.files[path]) \in {a.files[path], b.files[path]}
  BY DEF Joins!NewerOf
<1>3. /\ Joins!Winner(a, b, base, path) \in {None, a.files[path]}
      /\ Joins!Winner(b, a, base, path) \in {None, b.files[path]}
  BY DEF Joins!Winner
<1> QED BY <1>1, <1>2, <1>3 DEF Joins!JoinPath

\* The result of mergeHeads is one of its heads or a new, well-formed one.
LEMMA MergedHead ==
  ASSUME NEW m, WellFormed(m), NEW have, NEW a \in Joins!Digests(m), NEW b \in Joins!Digests(m)
  PROVE  LET result == Joins!MergeHeads(m, have, a, b)
         IN  /\ WellFormed(result.all) /\ Extends(result.all, m)
             /\ result.head \in Joins!Digests(result.all)
<1> DEFINE base == Joins!CommonAncestor(m, have, a, b)
           old == IF base = None THEN None ELSE m[base]
           parents == IF a < b THEN <<a, b>> ELSE <<b, a>>
           joined == Joins!Join(m[a], m[b], old, parents)
<1>1. joined \in Joins!ManifestOver(Joins!Digests(m))
  <2>1. m[a] \in Joins!ManifestOver(1..(a - 1)) /\ m[b] \in Joins!ManifestOver(1..(b - 1))
    BY DEF WellFormed
  <2>2. [path \in Replicated |-> Joins!JoinPath(m[a], m[b], old, path)]
            \in [Replicated -> Joins!Register \cup {None}]
    BY <2>1, JoinedFile
  <2>3. parents \in Seq(Joins!Digests(m))
    OBVIOUS
  <2>4. Joins!NoWhiteouts \in [Actors -> [Replicated -> Nat]]
    BY DEF Joins!NoWhiteouts
  <2> HIDE DEF parents, old
  <2> QED BY <2>2, <2>3, <2>4 DEF Joins!Join, Joins!ManifestOver
<1>2. /\ WellFormed(Joins!Put(m, joined)) /\ Extends(Joins!Put(m, joined), m)
      /\ Joins!DigestOf(m, joined) \in Joins!Digests(Joins!Put(m, joined))
  BY <1>1, PutManifest
<1>3. Extends(m, m)
  BY DEF Extends, WellFormed
<1>4. Joins!MergeHeads(m, have, a, b) \in
        {[all |-> m, head |-> a], [all |-> m, head |-> b],
         [all |-> Joins!Put(m, joined), head |-> Joins!DigestOf(m, joined)]}
  BY DEF Joins!MergeHeads, Joins!Added, Joins!JoinOver
<1> HIDE DEF joined
<1> QED BY <1>2, <1>3, <1>4

\* What a manifest is put under is that manifest.
LEMMA PutFound ==
  ASSUME NEW m, WellFormed(m), NEW new \in Joins!ManifestOver(Joins!Digests(m))
  PROVE  Joins!Put(m, new)[Joins!DigestOf(m, new)] = new
<1>1. CASE \E d \in Joins!Digests(m) : m[d] = new
  BY <1>1 DEF Joins!Put, Joins!DigestOf
<1>2. CASE ~\E d \in Joins!Digests(m) : m[d] = new
  <2>1. new \in Joins!ManifestOver(Nat)
    BY ManifestWiden DEF WellFormed, Joins!Digests
  <2>2. Joins!Put(m, new) = Append(m, new) /\ Joins!DigestOf(m, new) = Len(m) + 1
    BY <1>2 DEF Joins!Put, Joins!DigestOf
  <2> QED BY <2>1, <2>2 DEF WellFormed
<1> QED BY <1>1, <1>2

\* The walk from a manifest finds its parents.
LEMMA ParentFound ==
  ASSUME NEW m, NEW h \in Joins!Digests(m), NEW i \in DOMAIN m[h].parents, NEW have, h \in have
  PROVE  Joins!IsAncestor(m, have, m[h].parents[i], h)
BY DEF Joins!IsAncestor, Joins!ParentsIn

JoinsInv == Joins!TypeOK /\ WellFormed(minted)

LEMMA JoinsStart == ASSUME Joins!ReplicasAssumption, Joins!Init PROVE JoinsInv
<1>1. Joins!Start \in Joins!ManifestOver(1..0)
  BY DEF Joins!Start, Joins!ManifestOver, Joins!NoWhiteouts, Joins!Register
<1>2. Joins!Start \in Joins!ManifestOver(Nat)
  BY <1>1, ManifestWiden
<1>3. minted \in Seq(Joins!ManifestOver(Nat)) /\ Len(minted) = 1 /\ minted[1] = Joins!Start
  BY <1>2 DEF Joins!Init
<1> QED BY <1>1, <1>3 DEF Joins!Init, JoinsInv, Joins!TypeOK, WellFormed, Joins!Everything,
    Joins!Digests, Joins!ReplicasAssumption

\* Heads stay digests when manifests are added.
LEMMA HeadsStay ==
  ASSUME WellFormed(minted), WellFormed(minted'), Extends(minted', minted)
  PROVE  Joins!Everything \subseteq Joins!Everything'
BY DEF Joins!Everything, Joins!Digests, Extends, WellFormed

LEMMA CommitKeeps ==
  ASSUME Joins!ReplicasAssumption, JoinsInv, NEW s \in Actors,
         NEW new \in Joins!ManifestOver(Joins!Everything), NEW moment \in 0..MaxClock,
         new.parents = <<tips[s]>>, Joins!Commit(s, new, moment)
  PROVE  JoinsInv' /\ Joins!HeadsGrow
<1>1. /\ minted' = Joins!Put(minted, new) /\ tips' = [tips
             EXCEPT ![s] = Joins!DigestOf(minted, new)] /\ clock' = moment
  BY DEF Joins!Commit
<1>2. /\ WellFormed(minted') /\ Extends(minted', minted) /\ Joins!DigestOf(minted, new) \in Joins!Everything'
      /\ minted'[Joins!DigestOf(minted, new)] = new
  BY <1>1, PutManifest, PutFound DEF JoinsInv, Joins!Everything
<1>3. tips' \in [Actors -> Joins!Everything']
  BY <1>1, <1>2, HeadsStay DEF JoinsInv, Joins!TypeOK
<1>4. JoinsInv'
  BY <1>1, <1>2, <1>3 DEF JoinsInv, Joins!TypeOK, WellFormed, Joins!Everything
<1>5. Joins!IsAncestor(minted', Joins!Digests(minted'), tips[s], tips'[s])
  <2>1. tips'[s] = Joins!DigestOf(minted, new) /\ tips'[s] \in Joins!Digests(minted')
        /\ minted'[tips'[s]].parents = <<tips[s]>>
    BY <1>1, <1>2 DEF JoinsInv, Joins!TypeOK, Joins!Everything
  <2>2. 1 \in DOMAIN minted'[tips'[s]].parents /\ minted'[tips'[s]].parents[1] = tips[s]
    BY <2>1
  <2> QED BY <2>1, <2>2, ParentFound
<1>6. \A t \in Actors : t # s => tips'[t] = tips[t]
  BY <1>1 DEF JoinsInv, Joins!TypeOK
<1> QED BY <1>4, <1>5, <1>6 DEF Joins!HeadsGrow

LEMMA JoinsWriteKeeps ==
  ASSUME Joins!ReplicasAssumption, JoinsInv, NEW s \in Actors, NEW path \in Replicated,
         Joins!Write(s, path) \/ Joins!Remove(s, path)
  PROVE  JoinsInv' /\ Joins!HeadsGrow
<1> DEFINE last == minted[tips[s]]
<1>1. tips[s] \in Joins!Everything /\ last \in Joins!ManifestOver(Joins!Everything)
  <2>1. tips[s] \in Joins!Everything /\ last \in Joins!ManifestOver(1..(tips[s] - 1))
    BY DEF JoinsInv, Joins!TypeOK
  <2>2. 1..(tips[s] - 1) \subseteq Joins!Everything
    BY <2>1 DEF JoinsInv, WellFormed, Joins!Everything, Joins!Digests
  <2> QED BY <2>1, <2>2, ManifestWiden
<1>2. <<tips[s]>> \in Seq(Joins!Everything)
  BY <1>1
<1>3. Joins!Now \subseteq Nat /\ Joins!Now \subseteq 0..MaxClock
  BY DEF Joins!Now, Joins!ReplicasAssumption
<1>4. ASSUME Joins!Write(s, path) PROVE JoinsInv' /\ Joins!HeadsGrow
  <2>1. PICK moment \in Joins!Now :
          Joins!Commit(s, [last EXCEPT !.by = s, !.parents = <<tips[s]>>, !.files[path]
              = [mtime |-> moment, actor |-> s]], moment)
    BY <1>4 DEF Joins!Write
  <2>2. PICK new : new = [last EXCEPT !.by = s, !.parents = <<tips[s]>>, !.files[path]
            = [mtime |-> moment, actor |-> s]]
    OBVIOUS
  <2>3. new \in Joins!ManifestOver(Joins!Everything) /\ new.parents = <<tips[s]>>
    <3>1. [mtime |-> moment, actor |-> s] \in Joins!Register
      BY <1>3, <2>1 DEF Joins!Register
    <3> HIDE DEF last
    <3> QED BY <1>1, <1>2, <2>2, <3>1 DEF Joins!ManifestOver
  <2> QED BY <1>3, <2>1, <2>2, <2>3, CommitKeeps
<1>5. ASSUME Joins!Remove(s, path) PROVE JoinsInv' /\ Joins!HeadsGrow
  <2>1. PICK moment \in Joins!Now :
          Joins!Commit(s, [last EXCEPT !.by = s, !.parents = <<tips[s]>>, !.files[path] = None, !.gone[s][path] = moment], moment)
    BY <1>5 DEF Joins!Remove
  <2>2. PICK new : new = [last EXCEPT !.by = s, !.parents = <<tips[s]>>, !.files[path] = None, !.gone[s][path] = moment]
    OBVIOUS
  <2>3. new \in Joins!ManifestOver(Joins!Everything) /\ new.parents = <<tips[s]>>
    <3>1. moment \in Nat
      BY <1>3, <2>1
    <3> HIDE DEF last
    <3> QED BY <1>1, <1>2, <2>2, <3>1 DEF Joins!ManifestOver
  <2> QED BY <1>3, <2>1, <2>2, <2>3, CommitKeeps
<1> QED BY <1>4, <1>5

\* The head that mergeHeads gives is the first head or descends from it.
LEMMA MergeGrows ==
  ASSUME NEW m, WellFormed(m), NEW a \in Joins!Digests(m), NEW b \in Joins!Digests(m)
  PROVE  LET result == Joins!MergeHeads(m, Joins!Digests(m), a, b)
         IN  result.head = a
             \/ Joins!IsAncestor(result.all, Joins!Digests(result.all), a, result.head)
<1> DEFINE base == Joins!CommonAncestor(m, Joins!Digests(m), a, b)
           old == IF base = None THEN None ELSE m[base]
           parents == IF a < b THEN <<a, b>> ELSE <<b, a>>
           joined == Joins!Join(m[a], m[b], old, parents)
<1>1. joined \in Joins!ManifestOver(Joins!Digests(m)) /\ joined.parents = parents
  <2>1. m[a] \in Joins!ManifestOver(1..(a - 1)) /\ m[b] \in Joins!ManifestOver(1..(b - 1))
    BY DEF WellFormed
  <2>2. [path \in Replicated |-> Joins!JoinPath(m[a], m[b], old, path)]
            \in [Replicated -> Joins!Register \cup {None}]
    BY <2>1, JoinedFile
  <2>3. parents \in Seq(Joins!Digests(m))
    OBVIOUS
  <2>4. Joins!NoWhiteouts \in [Actors -> [Replicated -> Nat]]
    BY DEF Joins!NoWhiteouts
  <2> HIDE DEF parents, old
  <2> QED BY <2>2, <2>3, <2>4 DEF Joins!Join, Joins!ManifestOver
<1>2. \E i \in DOMAIN parents : parents[i] = a
  OBVIOUS
<1> HIDE DEF joined, parents
<1>3. LET d == Joins!DigestOf(m, joined)
      IN  d \in Joins!Digests(Joins!Put(m, joined)) /\ Joins!Put(m, joined)[d] = joined
  BY <1>1, PutManifest, PutFound
<1>4. Joins!IsAncestor(Joins!Put(m, joined), Joins!Digests(Joins!Put(m, joined)), a, Joins!DigestOf(m, joined))
  BY <1>1, <1>2, <1>3, ParentFound
<1>5. \/ Joins!MergeHeads(m, Joins!Digests(m), a, b).head = a
      \/ Joins!MergeHeads(m, Joins!Digests(m), a, b) = [all |-> m, head |-> b]
            /\ Joins!IsAncestor(m, Joins!Digests(m), a, b)
      \/ Joins!MergeHeads(m, Joins!Digests(m), a, b)
             = [all |-> Joins!Put(m, joined), head |-> Joins!DigestOf(m, joined)]
  BY DEF Joins!MergeHeads, Joins!Added, Joins!JoinOver, joined, parents
<1> QED BY <1>4, <1>5

LEMMA MergeKeeps ==
  ASSUME Joins!ReplicasAssumption, JoinsInv, NEW s \in Actors, NEW t \in Actors, Joins!Merge(s, t)
  PROVE  JoinsInv' /\ Joins!HeadsGrow
<1> DEFINE result == Joins!MergeHeads(minted, Joins!Digests(minted), tips[s], tips[t])
<1>1. minted' = result.all /\ tips' = [tips EXCEPT ![s] = result.head] /\ UNCHANGED clock
  BY DEF Joins!Merge, Joins!Adopt, Joins!Joined, Joins!Everything
<1>2. tips[s] \in Joins!Digests(minted) /\ tips[t] \in Joins!Digests(minted)
  BY DEF JoinsInv, Joins!TypeOK, Joins!Everything
<1>3. /\ WellFormed(result.all) /\ Extends(result.all, minted) /\ result.head \in Joins!Digests(result.all)
      /\ result.head = tips[s]
            \/ Joins!IsAncestor(result.all, Joins!Digests(result.all), tips[s], result.head)
  BY <1>2, MergedHead, MergeGrows DEF JoinsInv
<1> HIDE DEF result
<1>4. tips' \in [Actors -> Joins!Everything']
  BY <1>1, <1>3, HeadsStay DEF JoinsInv, Joins!TypeOK, Joins!Everything
<1>5. JoinsInv'
  BY <1>1, <1>3, <1>4 DEF JoinsInv, Joins!TypeOK, WellFormed, Joins!Everything
<1>6. \A u \in Actors : tips'[u] = IF u = s THEN result.head ELSE tips[u]
  BY <1>1 DEF JoinsInv, Joins!TypeOK
<1> QED BY <1>1, <1>3, <1>5, <1>6 DEF Joins!HeadsGrow

LEMMA JoinsNextKeeps ==
  ASSUME Joins!ReplicasAssumption, JoinsInv, [Joins!Next]_(Joins!vars)
  PROVE  JoinsInv' /\ [Joins!HeadsGrow]_tips
<1>1. CASE Joins!Next
  BY <1>1, JoinsWriteKeeps, MergeKeeps DEF Joins!Next
<1>2. CASE UNCHANGED Joins!vars
  BY <1>2 DEF Joins!vars, JoinsInv, Joins!TypeOK, Joins!Everything
<1> QED BY <1>1, <1>2

\* A store's head is never rewound, whatever the stores edit, delete and merge
\* and in whatever order (src/src/manager/merge.ts, mergeHeads).
THEOREM HeadsDescend ==
  ASSUME Joins!ReplicasAssumption
  PROVE  Joins!Spec => []Joins!TypeOK /\ [][Joins!HeadsGrow]_tips
<1>1. Joins!Init => JoinsInv
  BY JoinsStart
<1>2. JoinsInv /\ [Joins!Next]_(Joins!vars) => JoinsInv' /\ [Joins!HeadsGrow]_tips
  BY JoinsNextKeeps
<1>3. JoinsInv => Joins!TypeOK
  BY DEF JoinsInv
<1> QED BY <1>1, <1>2, <1>3, PTL DEF Joins!Spec

-----------------------------------------------------------------------------
(* The history: layers.  A recursive definition is taken apart by the least    *)
(* number for which a claim about it would fail.                               *)

\* A set of numbers has a least one.
LEMMA Least == ASSUME NEW S \in SUBSET Nat, S # {} PROVE \E m \in S : \A k \in S : m <= k
<1>1. \E x \in S : \A y \in S : ~(<<y, x>> \in OpToRel(<, Nat))
  BY NatLessThanWellFounded, WFMin
<1>2. \E x \in S : \A y \in S : ~(y < x)
  BY <1>1 DEF OpToRel
<1> QED BY <1>2

LayerEntry == [path : History!Paths, val : Bodies
    \cup {History!Absent, History!Dir, History!Whiteout}]

\* Over follows its recursion on layers of at most two entries.
LEMMA OverNone == ASSUME NEW tree PROVE History!Over(tree, <<>>) = tree
<1> DEFINE f == [n \in 0..0 |-> tree]
<1>1. f = [n \in 0..Len(<<>>) |-> IF n = 0 THEN tree ELSE History!Apply(f[n - 1], <<>>[n])]
  OBVIOUS
<1> HIDE DEF f
<1>2. \E g : g = [n \in 0..Len(<<>>) |-> IF n = 0 THEN tree ELSE History!Apply(g[n - 1], <<>>[n])]
  BY <1>1
<1> QED BY <1>2 DEF History!Over

LEMMA OverOne == ASSUME NEW tree, NEW e PROVE History!Over(tree, <<e>>) = History!Apply(tree, e)
<1> DEFINE f == [n \in 0..1 |-> IF n = 0 THEN tree ELSE History!Apply(tree, e)]
           l == <<e>>
<1>0. Len(l) = 1 /\ l[1] = e
  OBVIOUS
<1> HIDE DEF l
<1>1. f = [n \in 0..Len(l) |-> IF n = 0 THEN tree ELSE History!Apply(f[n - 1], l[n])]
  BY <1>0
<1> HIDE DEF f
<1>2. \E g : g = [n \in 0..Len(l) |-> IF n = 0 THEN tree ELSE History!Apply(g[n - 1], l[n])]
  BY <1>1
<1>3. PICK g : /\ g = [n \in 0..Len(l) |-> IF n = 0 THEN tree ELSE History!Apply(g[n - 1], l[n])]
               /\ History!Over(tree, l) = g[Len(l)]
  BY <1>2 DEF History!Over
<1>4. g[0] = tree /\ g[1] = History!Apply(g[0], l[1])
  BY <1>3, <1>0
<1> QED BY <1>3, <1>4, <1>0 DEF l

LEMMA OverTwo ==
  ASSUME NEW tree, NEW d, NEW e
  PROVE History!Over(tree, <<d, e>>) = History!Apply(History!Apply(tree, d), e)
<1> DEFINE f == [n \in 0..2 |-> IF n = 0 THEN tree ELSE IF n = 1 THEN History!Apply(tree, d)
               ELSE History!Apply(History!Apply(tree, d), e)]
           l == <<d, e>>
<1>0. Len(l) = 2 /\ l[1] = d /\ l[2] = e
  OBVIOUS
<1> HIDE DEF l
<1>1. f = [n \in 0..Len(l) |-> IF n = 0 THEN tree ELSE History!Apply(f[n - 1], l[n])]
  BY <1>0
<1> HIDE DEF f
<1>2. \E g : g = [n \in 0..Len(l) |-> IF n = 0 THEN tree ELSE History!Apply(g[n - 1], l[n])]
  BY <1>1
<1>3. PICK g : /\ g = [n \in 0..Len(l) |-> IF n = 0 THEN tree ELSE History!Apply(g[n - 1], l[n])]
               /\ History!Over(tree, l) = g[Len(l)]
  BY <1>2 DEF History!Over
<1>4. g[0] = tree /\ g[1] = History!Apply(g[0], l[1]) /\ g[2] = History!Apply(g[1], l[2])
  BY <1>3, <1>0
<1> QED BY <1>3, <1>4, <1>0 DEF l

LEMMA TupleOfTwo == ASSUME NEW S, NEW a \in S, NEW b \in S PROVE <<a>> \o <<b>> = <<a, b>>
<1> DEFINE s == <<a>> \o <<b>>
           t == <<a, b>>
<1>1. Len(s) = 2 /\ s[1] = a /\ s[2] = b
  OBVIOUS
<1>2. s \in Seq(S)
  OBVIOUS
<1>3. t \in Seq(S) /\ Len(t) = 2 /\ t[1] = a /\ t[2] = b
  OBVIOUS
<1> HIDE DEF s, t
<1>4. \A i \in 1..Len(s) : s[i] = t[i]
  BY <1>1, <1>3
<1>5. s = t
  BY <1>1, <1>2, <1>3, <1>4, SeqEqual
<1> QED BY <1>5 DEF s, t

\* The layer that create writes turns the parent's tree into the captured one.
LEMMA DiffMeans ==
  ASSUME History!SnapshotsAssumption, NEW old \in History!Trees, NEW new \in History!Trees
  PROVE  History!Diff(old, new) \in History!Layers
      /\ History!Over(old, History!Diff(old, new)) = new
<1> DEFINE C == History!Changed(old, new)
           G == History!Gone(old, new)
           c(p) == [path |-> p, val |-> new[p]]
           w(p) == [path |-> p, val |-> History!Whiteout]
<1>t. /\ old \in [History!Paths -> Bodies \cup {History!Absent, History!Dir}]
      /\ new \in [History!Paths -> Bodies \cup {History!Absent, History!Dir}]
      /\ old[History!Nested] # History!Dir
            /\ (old[History!Nested] # History!Absent => old[History!Top] = History!Dir)
      /\ new[History!Nested] # History!Dir
            /\ (new[History!Nested] # History!Absent => new[History!Top] = History!Dir)
      /\ History!Whiteout \notin Bodies /\ History!Absent \notin Bodies /\ History!Dir \notin Bodies
  BY DEF History!Trees, History!SnapshotsAssumption, History!Whiteout, History!Absent, History!Dir
<1>v. \A p \in History!Paths : c(p) \in LayerEntry /\ w(p) \in LayerEntry
  BY <1>t DEF LayerEntry
<1>p. History!Top \in History!Paths /\ History!Nested \in History!Paths
      /\ History!Top # History!Nested /\ History!Paths = {History!Top, History!Nested}
  BY DEF History!Paths, History!Top, History!Nested
<1>d. History!Diff(old, new) = ((IF History!Top \in C THEN <<c(History!Top)>> ELSE <<>>)
          \o (IF History!Nested \in C THEN <<c(History!Nested)>> ELSE <<>>))
                    \o ((IF History!Top \in G THEN <<w(History!Top)>> ELSE <<>>)
                        \o (IF History!Nested \in G THEN <<w(History!Nested)>> ELSE <<>>))
  BY <1>p DEF History!Diff, History!Entries
<1> HIDE DEF C, G
<1>C. \A p \in History!Paths : p \in C <=> new[p] # History!Absent /\ new[p] # old[p]
  BY DEF C, History!Changed
<1>G. \A p \in History!Paths : p \in G <=> old[p] # History!Absent /\ new[p] = History!Absent
  BY DEF G, History!Gone
<1>a. \A p \in History!Paths : new[p] # History!Whiteout
  BY <1>t DEF History!Whiteout, History!Absent, History!Dir
<1> DEFINE cT == c(History!Top)
           cN == c(History!Nested)
           wT == w(History!Top)
           wN == w(History!Nested)
           Valued == [History!Paths -> Bodies \cup {History!Absent, History!Dir}]
<1>x. ASSUME NEW t \in Valued
      PROVE  /\ History!Apply(t, cT) = [p \in History!Paths |-> IF p = History!Top
                    THEN new[History!Top]
                                 ELSE IF new[History!Top] # History!Dir
                                     /\ t[History!Top] = History!Dir THEN History!Absent
                                            ELSE t[History!Nested]]
             /\ History!Apply(t, cN) = [p \in History!Paths |-> IF p = History!Nested
                    THEN new[History!Nested] ELSE t[History!Top]]
             /\ History!Apply(t, wT) = History!EmptyTree
             /\ History!Apply(t, wN) = [p \in History!Paths |-> IF p = History!Nested
                    THEN History!Absent ELSE t[History!Top]]
             /\ History!Apply(t, cT) \in Valued /\ History!Apply(t, cN) \in Valued
             /\ History!Apply(t, wT) \in Valued /\ History!Apply(t, wN) \in Valued
  <2>0. /\ cT.path = History!Top /\ cT.val = new[History!Top] /\ cN.path = History!Nested /\ cN.val = new[History!Nested]
        /\ wT.path = History!Top /\ wT.val = History!Whiteout /\ wN.path = History!Nested
              /\ wN.val = History!Whiteout
    OBVIOUS
  <2> HIDE DEF cT, cN, wT, wN
  <2>w. /\ History!Without(t, History!Top) = History!EmptyTree
        /\ History!Without(t, History!Nested) = [p \in History!Paths |-> IF p = History!Nested
               THEN History!Absent ELSE t[History!Top]]
    BY <1>p DEF History!Without, History!EmptyTree, History!Under
  <2>1. History!Apply(t, cT) =
           [(IF new[History!Top] # History!Dir /\ t[History!Top] = History!Dir
             THEN History!Without(t, History!Top) ELSE t) EXCEPT ![History!Top] = new[History!Top]]
    BY <2>0, <1>a, <1>p DEF History!Apply
  <2>2. History!Apply(t, cN) =
           [(IF new[History!Nested] # History!Dir /\ t[History!Nested] = History!Dir
             THEN History!Without(t, History!Nested) ELSE t) EXCEPT ![History!Nested] = new[History!Nested]]
    BY <2>0, <1>a, <1>p DEF History!Apply
  <2>3. History!Apply(t, wT) = History!Without(t, History!Top)
        /\ History!Apply(t, wN) = History!Without(t, History!Nested)
    BY <2>0 DEF History!Apply
  <2>4. History!Apply(t, cT) = [p \in History!Paths |-> IF p = History!Top THEN new[History!Top]
                                 ELSE IF new[History!Top] # History!Dir
                                     /\ t[History!Top] = History!Dir THEN History!Absent
                                            ELSE t[History!Nested]]
    BY <2>1, <2>w, <1>p DEF History!EmptyTree
  <2>5. History!Apply(t, cN) = [p \in History!Paths |-> IF p = History!Nested
            THEN new[History!Nested] ELSE t[History!Top]]
    BY <2>2, <2>w, <1>p
  <2>6. History!Apply(t, cT) \in Valued /\ History!Apply(t, cN) \in Valued
    BY <2>4, <2>5, <1>t, <1>p
  <2>7. History!Apply(t, wT) \in Valued /\ History!Apply(t, wN) \in Valued
    BY <2>3, <2>w, <1>p DEF History!EmptyTree
  <2> QED BY <2>3, <2>4, <2>5, <2>6, <2>7, <2>w
<1>e. cT \in LayerEntry /\ cN \in LayerEntry /\ wT \in LayerEntry /\ wN \in LayerEntry
  BY <1>v, <1>p
<1>o. old \in Valued /\ new \in Valued
  BY <1>t
<1>f. \A t \in Valued : t[History!Top] = new[History!Top]
      /\ t[History!Nested] = new[History!Nested] => t = new
  BY <1>p, <1>o
<1>g. History!Layers = Seq(LayerEntry)
  BY DEF History!Layers, LayerEntry
<1> HIDE DEF cT, cN, wT, wN, Valued
<1>D. History!Diff(old, new) = ((IF History!Top \in C THEN <<cT>> ELSE <<>>)
          \o (IF History!Nested \in C THEN <<cN>> ELSE <<>>))
                    \o ((IF History!Top \in G THEN <<wT>> ELSE <<>>) \o (IF History!Nested \in G
                        THEN <<wN>> ELSE <<>>))
  BY <1>d DEF cT, cN, wT, wN
<1>s. \A a \in LayerEntry : <<a>> \o <<>> = <<a>> /\ <<>> \o <<a>> = <<a>>
  OBVIOUS
<1>u. \A a, b \in LayerEntry : <<a>> \o <<b>> = <<a, b>> /\ <<a, b>> \o <<>> = <<a, b>>
      /\ <<>> \o <<a, b>> = <<a, b>>
  <2> SUFFICES ASSUME NEW a \in LayerEntry, NEW b \in LayerEntry
               PROVE  <<a>> \o <<b>> = <<a, b>> /\ <<a, b>> \o <<>> = <<a, b>>
                   /\ <<>> \o <<a, b>> = <<a, b>>
    OBVIOUS
  <2>1. <<a, b>> \in Seq(LayerEntry)
    OBVIOUS
  <2>2. <<a>> \o <<b>> = <<a, b>>
    BY TupleOfTwo
  <2>3. \A s \in Seq(LayerEntry) : s \o <<>> = s /\ <<>> \o s = s
    BY ConcatEmptySeq
  <2> QED BY <2>1, <2>2, <2>3
<1>n. <<>> \o <<>> = <<>>
  OBVIOUS
<1>z. History!Dir # History!Absent
  BY DEF History!Dir, History!Absent
<1> HIDE DEF c, w
<1>1. CASE History!Top \notin C /\ History!Top \notin G /\ History!Nested \notin C
      /\ History!Nested \notin G
  <2>1. History!Diff(old, new) = <<>>
    BY <1>1, <1>d
  <2>2. old = new
    BY <1>1, <1>C, <1>G, <1>p, <1>o, <1>f
  <2> QED BY <2>1, <2>2, <1>g, OverNone
<1>2. CASE History!Top \in C /\ History!Nested \notin C /\ History!Nested \notin G
  <2>1. History!Diff(old, new) = <<cT>>
    BY <1>2, <1>D, <1>C, <1>G, <1>p, <1>s, <1>u, <1>n, <1>e
  <2>2. History!Apply(old, cT) = new
    <3> DEFINE t == History!Apply(old, cT)
    <3>1. t \in Valued /\ t[History!Top] = new[History!Top]
      BY <1>o, <1>x, <1>p
    <3>2. t[History!Nested] = IF new[History!Top] # History!Dir
          /\ old[History!Top] = History!Dir THEN History!Absent ELSE old[History!Nested]
      <4>1. t = [p \in History!Paths |-> IF p = History!Top THEN new[History!Top]
                                 ELSE IF new[History!Top] # History!Dir
                                     /\ old[History!Top] = History!Dir THEN History!Absent
                                            ELSE old[History!Nested]]
        BY <1>o, <1>x
      <4> HIDE DEF t
      <4> QED BY <4>1, <1>p
    <3> HIDE DEF t
    <3>3. t[History!Nested] = new[History!Nested]
      BY <3>2, <1>2, <1>C, <1>G, <1>p, <1>t
    <3>4. t = new
      BY <3>1, <3>3, <1>f
    <3> QED BY <3>4 DEF t
  <2> QED BY <2>1, <2>2, <1>g, <1>e, OverOne
<1>3. CASE History!Top \in C /\ History!Nested \in C
  <2>1. History!Diff(old, new) = <<cT, cN>>
    BY <1>3, <1>D, <1>C, <1>G, <1>p, <1>s, <1>u, <1>n, <1>e
  <2>2. History!Apply(History!Apply(old, cT), cN) = new
    BY <1>3, <1>C, <1>G, <1>p, <1>o, <1>f, <1>x, <1>t, <1>z
  <2> QED BY <2>1, <2>2, <1>g, <1>e, OverTwo
<1>4. CASE History!Top \in C /\ History!Nested \in G
  <2>1. History!Diff(old, new) = <<cT, wN>>
    BY <1>4, <1>D, <1>C, <1>G, <1>p, <1>s, <1>u, <1>n, <1>e
  <2>2. History!Apply(History!Apply(old, cT), wN) = new
    BY <1>4, <1>C, <1>G, <1>p, <1>o, <1>f, <1>x, <1>t, <1>z
  <2> QED BY <2>1, <2>2, <1>g, <1>e, OverTwo
<1>5. CASE History!Top \in G /\ History!Nested \notin C /\ History!Nested \notin G
  <2>1. History!Diff(old, new) = <<wT>>
    BY <1>5, <1>D, <1>C, <1>G, <1>p, <1>s, <1>u, <1>n, <1>e
  <2>2. History!Apply(old, wT) = new
    BY <1>5, <1>C, <1>G, <1>p, <1>o, <1>f, <1>x, <1>t, <1>z DEF History!EmptyTree
  <2> QED BY <2>1, <2>2, <1>g, <1>e, OverOne
<1>6. CASE History!Top \in G /\ History!Nested \in G
  <2>1. History!Diff(old, new) = <<wT, wN>>
    BY <1>6, <1>D, <1>C, <1>G, <1>p, <1>s, <1>u, <1>n, <1>e
  <2>2. History!Apply(History!Apply(old, wT), wN) = new
    BY <1>6, <1>C, <1>G, <1>p, <1>o, <1>f, <1>x, <1>t, <1>z DEF History!EmptyTree
  <2> QED BY <2>1, <2>2, <1>g, <1>e, OverTwo
<1>7. ~(History!Top \in G /\ History!Nested \in C)
  BY <1>C, <1>G, <1>p, <1>t, <1>z
<1>8. CASE History!Top \notin C /\ History!Top \notin G /\ History!Nested \in C
  <2>1. History!Diff(old, new) = <<cN>>
    BY <1>8, <1>D, <1>C, <1>G, <1>p, <1>s, <1>u, <1>n, <1>e
  <2>2. History!Apply(old, cN) = new
    BY <1>8, <1>C, <1>G, <1>p, <1>o, <1>f, <1>x, <1>t, <1>z
  <2> QED BY <2>1, <2>2, <1>g, <1>e, OverOne
<1>9. CASE History!Top \notin C /\ History!Top \notin G /\ History!Nested \in G
  <2>1. History!Diff(old, new) = <<wN>>
    BY <1>9, <1>D, <1>C, <1>G, <1>p, <1>s, <1>u, <1>n, <1>e
  <2>2. History!Apply(old, wN) = new
    BY <1>9, <1>C, <1>G, <1>p, <1>o, <1>f, <1>x, <1>t, <1>z
  <2> QED BY <2>1, <2>2, <1>g, <1>e, OverOne
<1> QED BY <1>1, <1>2, <1>3, <1>4, <1>5, <1>6, <1>7, <1>8, <1>9

-----------------------------------------------------------------------------
(* The history: chains of snapshots *)

\* The parents come before their snapshots, and every listed layer is stored.
Ranked == \A i \in History!Listed : manifests[i].parent \in 0..(i - 1)
Backed == \A i \in History!Listed : manifests[i].layer \in stored

\* A snapshot with all its ancestors listed, without the recursion of Intact.
Ancestry(S) == S \subseteq History!Listed /\ \A i \in S : manifests[i].parent \in S \cup {0}
Whole(id) == \E S \in SUBSET (1..id) : id \in S /\ Ancestry(S)

LEMMA WholeStep ==
  ASSUME MaxTaken \in Nat, Ranked, NEW i \in History!Ids
  PROVE  Whole(i) <=> manifests[i] # None /\ (manifests[i].parent = 0 \/ Whole(manifests[i].parent))
<1>0. \A j \in History!Ids : j \in Nat /\ j >= 1 /\ j <= MaxTaken
  BY DEF History!Ids
<1>1. ASSUME Whole(i)
      PROVE manifests[i] # None /\ (manifests[i].parent = 0 \/ Whole(manifests[i].parent))
  <2>1. PICK S \in SUBSET (1..i) : i \in S /\ Ancestry(S)
    BY <1>1 DEF Whole
  <2>2. i \in History!Listed /\ manifests[i] # None
    BY <2>1 DEF Ancestry, History!Listed
  <2>3. PICK p : p = manifests[i].parent
    OBVIOUS
  <2>4. p \in 0..(i - 1) /\ p \in S \cup {0}
    BY <2>1, <2>2, <2>3 DEF Ancestry, Ranked
  <2>5. ASSUME p # 0 PROVE Whole(p)
    <3> DEFINE T == S \cap (1..p)
    <3>1. T \in SUBSET (1..p) /\ p \in T
      BY <2>4, <2>5, <1>0
    <3>2. ASSUME NEW j \in T PROVE j \in History!Listed /\ manifests[j].parent \in T \cup {0}
      <4>1. j \in History!Listed /\ manifests[j].parent \in S \cup {0}
        BY <2>1 DEF Ancestry
      <4>2. manifests[j].parent \in 0..(j - 1) /\ j \in Nat /\ j <= p
        BY <4>1, <2>4, <1>0 DEF Ranked
      <4> QED BY <4>1, <4>2, <2>4, <1>0
    <3> QED BY <3>1, <3>2 DEF Whole, Ancestry
  <2> QED BY <2>2, <2>3, <2>5
<1>2. ASSUME manifests[i] # None, manifests[i].parent = 0 PROVE Whole(i)
  <2>1. {i} \in SUBSET (1..i)
    BY <1>0
  <2>2. Ancestry({i})
    BY <1>2 DEF Ancestry, History!Listed
  <2> QED BY <2>1, <2>2 DEF Whole
<1>3. ASSUME manifests[i] # None, Whole(manifests[i].parent) PROVE Whole(i)
  <2>1. PICK p : p = manifests[i].parent
    OBVIOUS
  <2>2. p \in 0..(i - 1) /\ i \in Nat
    BY <1>3, <2>1, <1>0 DEF Ranked, History!Listed
  <2>3. PICK S \in SUBSET (1..p) : p \in S /\ Ancestry(S)
    BY <1>3, <2>1 DEF Whole
  <2> DEFINE T == S \cup {i}
  <2>4. T \in SUBSET (1..i)
    BY <2>2, <2>3, <1>0
  <2>5. Ancestry(T)
    BY <2>3, <2>1, <1>3 DEF Ancestry, History!Listed
  <2> QED BY <2>4, <2>5 DEF Whole
<1> QED BY <1>1, <1>2, <1>3

\* Intact reads the same chain: its function exists, and any such function says
\* of every id what Whole says.
LEMMA IntactIsWhole ==
  ASSUME MaxTaken \in Nat, Ranked, Backed, NEW id \in History!Ids
  PROVE  History!Intact(id) <=> Whole(id)
<1> DEFINE IsReader(f) == f = [i \in 0..MaxTaken |->
              IF i = 0 THEN TRUE
              ELSE /\ manifests[i] # None
                   /\ manifests[i].layer \in stored
                   /\ f[manifests[i].parent]]
           h == [i \in 0..MaxTaken |-> i = 0 \/ Whole(i)]
<1>0. \A i \in 0..MaxTaken : i # 0 => i \in History!Ids
  BY DEF History!Ids
<1>1. IsReader(h)
  <2>1. ASSUME NEW i \in 0..MaxTaken, i # 0
        PROVE  (i = 0 \/ Whole(i)) <=> /\ manifests[i] # None
                                       /\ manifests[i].layer \in stored
                                       /\ h[manifests[i].parent]
    <3>1. CASE manifests[i] = None
      BY <3>1, <2>1, <1>0, WholeStep
    <3>2. CASE manifests[i] # None
      <4>1. i \in History!Listed /\ manifests[i].layer \in stored
            /\ manifests[i].parent \in 0..(i - 1)
        BY <3>2, <2>1, <1>0 DEF History!Listed, Ranked, Backed
      <4>2. PICK p : p = manifests[i].parent
        OBVIOUS
      <4>3. p \in 0..MaxTaken
        BY <4>1, <4>2
      <4>4. h[p] <=> p = 0 \/ Whole(p)
        BY <4>3
      <4> HIDE DEF h
      <4> QED BY <3>2, <4>1, <4>2, <4>4, <2>1, <1>0, WholeStep
    <3> QED BY <3>1, <3>2
  <2>2. \A i \in 0..MaxTaken :
          (i = 0 \/ Whole(i)) = IF i = 0 THEN TRUE ELSE /\ manifests[i] # None
                                                        /\ manifests[i].layer \in stored
                                                        /\ h[manifests[i].parent]
    BY <2>1
  <2> QED BY <2>2
<1> HIDE DEF h
<1>2. PICK f : IsReader(f) /\ History!Intact(id) = f[id]
  BY <1>1 DEF History!Intact
<1>3. \A i \in History!Ids : f[i] <=> /\ manifests[i] # None
                              /\ manifests[i].layer \in stored
                              /\ f[manifests[i].parent]
  <2> SUFFICES ASSUME NEW i \in History!Ids
               PROVE  f[i] <=> /\ manifests[i] # None
                               /\ manifests[i].layer \in stored
                               /\ f[manifests[i].parent]
    OBVIOUS
  <2>1. i \in 0..MaxTaken /\ i # 0
    BY DEF History!Ids
  <2>2. f[i] = IF i = 0 THEN TRUE ELSE /\ manifests[i] # None
                                       /\ manifests[i].layer \in stored
                                       /\ f[manifests[i].parent]
    BY <1>2, <2>1, Zenon
  <2> QED BY <2>1, <2>2
<1>4. f[0]
  BY <1>2
<1> HIDE DEF IsReader
<1>5. \A i \in History!Ids : f[i] <=> Whole(i)
  <2> DEFINE Wrong == {i \in History!Ids : ~(f[i] <=> Whole(i))}
  <2>1. SUFFICES ASSUME Wrong # {} PROVE FALSE
    OBVIOUS
  <2>2. Wrong \in SUBSET Nat
    BY DEF History!Ids
  <2>3. PICK i \in Wrong : \A j \in Wrong : i <= j
    BY <2>1, <2>2, Least
  <2>4. PICK p : p = manifests[i].parent
    OBVIOUS
  <2>5. CASE i \in History!Listed
    <3>1. p \in 0..(i - 1) /\ manifests[i].layer \in stored /\ manifests[i] # None
      BY <2>5, <2>4 DEF Ranked, Backed, History!Listed
    <3>2. p # 0 => p \in History!Ids /\ p \notin Wrong
      BY <3>1, <2>3, <2>2 DEF History!Ids
    <3>3. p # 0 => (f[p] <=> Whole(p))
      BY <3>2
    <3>4. f[i] <=> f[p]
      BY <1>3, <3>1, <2>4, <2>3
    <3>5. Whole(i) <=> p = 0 \/ Whole(p)
      BY <3>1, <2>4, <2>3, WholeStep
    <3> QED BY <3>3, <3>4, <3>5, <1>4, <2>3
  <2>6. CASE i \notin History!Listed
    BY <2>6, <2>3, <1>3, WholeStep DEF History!Listed
  <2> QED BY <2>5, <2>6
<1> QED BY <1>2, <1>5

\* The chain of a listed snapshot is that of its parent and itself.
LEMMA ChainStep ==
  ASSUME MaxTaken \in Nat, Ranked
  PROVE  /\ History!Chain(0) = <<>>
         /\ \A i \in History!Listed : History!Chain(i) = Append(History!Chain(manifests[i].parent), i)
         /\ \A i \in 0..MaxTaken : History!Chain(i) \in Seq(1..i)
<1> DEFINE IsUp(f, n) == f = [i \in 0..n |-> IF i \notin History!Listed THEN <<>>
               ELSE Append(f[manifests[i].parent], i)]
           up == CHOOSE f : IsUp(f, MaxTaken)
<1>0. /\ \A i \in History!Listed : i \in Nat /\ i >= 1 /\ i <= MaxTaken
      /\ 0 \notin History!Listed
  BY DEF History!Listed, History!Ids
<1>1. \E f : IsUp(f, MaxTaken)
  <2> DEFINE Bad == {n \in 0..MaxTaken : ~\E f : IsUp(f, n)}
  <2>1. SUFFICES ASSUME Bad # {} PROVE FALSE
    <3> HIDE DEF IsUp
    <3>1. MaxTaken \in 0..MaxTaken
      OBVIOUS
    <3> QED BY <3>1
  <2>2. PICK n \in Bad : \A k \in Bad : n <= k
    <3>1. Bad \in SUBSET Nat
      OBVIOUS
    <3> HIDE DEF Bad
    <3> QED BY <2>1, <3>1, Least
  <2>3. n \in 0..MaxTaken /\ n \in Nat
    OBVIOUS
  <2>4. CASE n = 0
    <3> DEFINE f == [i \in 0..0 |-> <<>>]
    <3>1. IsUp(f, 0)
      BY <1>0
    <3> QED BY <3>1, <2>4
  <2>5. CASE n # 0
    <3>1. n - 1 \in 0..MaxTaken /\ n - 1 \notin Bad
      <4> HIDE DEF Bad
      <4> QED BY <2>2, <2>3, <2>5
    <3>2. PICK f : IsUp(f, n - 1)
      <4> HIDE DEF IsUp
      <4> QED BY <3>1
    <3> DEFINE g == [i \in 0..n |-> IF i < n THEN f[i]
                                    ELSE IF n \notin History!Listed THEN <<>>
                                        ELSE Append(f[manifests[n].parent], n)]
    <3>3. \A i \in 0..(n - 1) : g[i] = f[i]
      BY <2>3
    <3>4. \A i \in 0..n : i \in History!Listed => manifests[i].parent \in 0..(n - 1)
          /\ g[manifests[i].parent] = f[manifests[i].parent]
      <4> SUFFICES ASSUME NEW i \in 0..n, i \in History!Listed
                   PROVE  manifests[i].parent \in 0..(n - 1)
                       /\ g[manifests[i].parent] = f[manifests[i].parent]
        OBVIOUS
      <4>1. manifests[i].parent \in 0..(i - 1)
        BY DEF Ranked
      <4>2. manifests[i].parent \in 0..(n - 1)
        BY <4>1, <2>3
      <4> QED BY <4>2, <3>3
    <3>5. \A i \in 0..n : g[i] = IF i \notin History!Listed THEN <<>>
              ELSE Append(f[manifests[i].parent], i)
      <4> SUFFICES ASSUME NEW i \in 0..n
          PROVE g[i] = IF i \notin History!Listed THEN <<>> ELSE Append(f[manifests[i].parent], i)
        OBVIOUS
      <4>1. CASE i = n
        BY <4>1, <2>3
      <4>2. CASE i # n
        <5>1. i \in 0..(n - 1) /\ i < n
          BY <4>2, <2>3
        <5> QED BY <5>1, <3>2
      <4> QED BY <4>1, <4>2
    <3>6. g = [i \in 0..n |-> g[i]]
      OBVIOUS
    <3> HIDE DEF g
    <3>7. IsUp(g, n)
      BY <3>4, <3>5, <3>6
    <3> QED BY <3>7, <2>2
  <2> QED BY <2>4, <2>5
<1>2. IsUp(up, MaxTaken)
  BY <1>1
<1>3. \A i : History!Chain(i) = up[i]
  BY DEF History!Chain
<1> HIDE DEF up
<1>4. \A i \in 0..MaxTaken : History!Chain(i) = IF i \notin History!Listed THEN <<>>
          ELSE Append(History!Chain(manifests[i].parent), i)
  BY <1>2, <1>3
<1>5. History!Chain(0) = <<>>
      /\ \A i \in History!Listed : History!Chain(i) = Append(History!Chain(manifests[i].parent), i)
  BY <1>4, <1>0
<1>6. \A i \in 0..MaxTaken : History!Chain(i) \in Seq(1..i)
  <2> HIDE DEF IsUp
  <2> DEFINE Bad == {n \in 0..MaxTaken : History!Chain(n) \notin Seq(1..n)}
  <2>1. SUFFICES ASSUME Bad # {} PROVE FALSE
    OBVIOUS
  <2>2. PICK n \in Bad : \A k \in Bad : n <= k
    <3>1. Bad \in SUBSET Nat
      OBVIOUS
    <3> HIDE DEF Bad
    <3> QED BY <2>1, <3>1, Least
  <2>3. CASE n \notin History!Listed
    <3>1. History!Chain(n) = <<>>
      BY <2>3, <1>4
    <3>2. <<>> \in Seq(1..n)
      OBVIOUS
    <3> QED BY <3>1, <3>2
  <2>4. CASE n \in History!Listed
    <3>1. PICK p : p = manifests[n].parent
      OBVIOUS
    <3>2. p \in 0..(n - 1) /\ n \in Nat
      BY <2>4, <3>1, <1>0 DEF Ranked
    <3>3. p \in 0..MaxTaken /\ p \notin Bad
      BY <3>2, <2>2
    <3>4. History!Chain(p) \in Seq(1..p)
      BY <3>3
    <3>5. 1..p \subseteq 1..n /\ n \in 1..n
      BY <3>2, <2>4, <1>0
    <3>6. History!Chain(p) \in Seq(1..n)
      BY <3>4, <3>5, SeqMonotonic
    <3>7. Append(History!Chain(p), n) \in Seq(1..n)
      BY <3>6, <3>5
    <3> QED BY <3>7, <3>1, <1>5, <2>4
  <2> QED BY <2>3, <2>4
<1> QED BY <1>5, <1>6

LEMMA MergedNone == History!Merged(<<>>) = History!EmptyTree
<1> DEFINE f == [n \in 0..0 |-> History!EmptyTree]
<1>1. f = [n \in 0..Len(<<>>) |-> IF n = 0 THEN History!EmptyTree
          ELSE History!Over(f[n - 1], <<>>[n])]
  OBVIOUS
<1> HIDE DEF f
<1>2. \E g : g = [n \in 0..Len(<<>>) |-> IF n = 0 THEN History!EmptyTree
          ELSE History!Over(g[n - 1], <<>>[n])]
  BY <1>1
<1> QED BY <1>2 DEF History!Merged

\* A layer more is laid over what the layers before it give.
LEMMA MergedAppend ==
  ASSUME NEW S, NEW ls \in Seq(S), NEW l \in S
  PROVE  History!Merged(Append(ls, l)) = History!Over(History!Merged(ls), l)
<1> DEFINE IsMerge(f, s, n) == f = [k \in 0..n |-> IF k = 0 THEN History!EmptyTree
               ELSE History!Over(f[k - 1], s[k])]
           After(s) == CHOOSE f : IsMerge(f, s, Len(s))
<1>1. ASSUME NEW s \in Seq(S) PROVE \E f : IsMerge(f, s, Len(s))
  <2> DEFINE Bad == {n \in 0..Len(s) : ~\E f : IsMerge(f, s, n)}
  <2>1. SUFFICES ASSUME Bad # {} PROVE FALSE
    OBVIOUS
  <2>2. PICK n \in Bad : \A k \in Bad : n <= k
    <3>1. Bad \in SUBSET Nat
      OBVIOUS
    <3> HIDE DEF Bad
    <3> QED BY <2>1, <3>1, Least
  <2>3. n \in 0..Len(s) /\ n \in Nat /\ Len(s) \in Nat
    OBVIOUS
  <2>4. CASE n = 0
    <3> DEFINE f == [i \in 0..0 |-> History!EmptyTree]
    <3>1. IsMerge(f, s, 0)
      OBVIOUS
    <3> QED BY <3>1, <2>4
  <2>5. CASE n # 0
    <3>1. n - 1 \in 0..Len(s) /\ n - 1 \notin Bad
      <4> HIDE DEF Bad
      <4> QED BY <2>2, <2>3, <2>5
    <3>2. PICK f : IsMerge(f, s, n - 1)
      <4> HIDE DEF IsMerge
      <4> QED BY <3>1
    <3> DEFINE g == [k \in 0..n |-> IF k < n THEN f[k] ELSE History!Over(f[n - 1], s[n])]
    <3>3. \A k \in 0..n : k # 0 => k - 1 \in 0..(n - 1) /\ g[k - 1] = f[k - 1]
      BY <2>3
    <3>5. \A k \in 0..n : g[k] = IF k = 0 THEN History!EmptyTree ELSE History!Over(f[k - 1], s[k])
      <4> SUFFICES ASSUME NEW k \in 0..n
          PROVE g[k] = IF k = 0 THEN History!EmptyTree ELSE History!Over(f[k - 1], s[k])
        OBVIOUS
      <4>1. CASE k = n
        BY <4>1, <2>3, <2>5
      <4>2. CASE k # n
        <5>1. k \in 0..(n - 1) /\ k < n
          BY <4>2, <2>3
        <5> QED BY <5>1, <3>2
      <4> QED BY <4>1, <4>2
    <3>6. g = [k \in 0..n |-> g[k]]
      OBVIOUS
    <3> HIDE DEF g
    <3>7. IsMerge(g, s, n)
      BY <3>3, <3>5, <3>6
    <3> QED BY <3>7, <2>2
  <2> QED BY <2>4, <2>5
<1>2. PICK t : t = Append(ls, l)
  OBVIOUS
<1>3. /\ t \in Seq(S) /\ Len(t) = Len(ls) + 1 /\ Len(ls) \in Nat
      /\ t[Len(t)] = l /\ \A k \in 1..Len(ls) : t[k] = ls[k]
  BY <1>2
<1>4. IsMerge(After(ls), ls, Len(ls)) /\ History!Merged(ls) = After(ls)[Len(ls)]
  <2>1. IsMerge(After(ls), ls, Len(ls))
    BY <1>1
  <2> QED BY <2>1 DEF History!Merged
<1>5. IsMerge(After(t), t, Len(t)) /\ History!Merged(t) = After(t)[Len(t)]
  <2>1. IsMerge(After(t), t, Len(t))
    BY <1>1, <1>3
  <2> QED BY <2>1 DEF History!Merged
<1> HIDE DEF After
<1>6. PICK f, g : f = After(ls) /\ g = After(t)
  OBVIOUS
<1>7. /\ f[0] = History!EmptyTree /\ g[0] = History!EmptyTree
      /\ \A k \in 1..Len(ls) : f[k] = History!Over(f[k - 1], ls[k])
      /\ \A k \in 1..Len(t) : g[k] = History!Over(g[k - 1], t[k])
  <2>1. IsMerge(f, ls, Len(ls)) /\ IsMerge(g, t, Len(t))
    BY <1>4, <1>5, <1>6
  <2>2. f[0] = History!EmptyTree /\ g[0] = History!EmptyTree
    BY <2>1, <1>3
  <2>3. \A k \in 1..Len(ls) : f[k] = History!Over(f[k - 1], ls[k])
    BY <2>1, <1>3
  <2>4. \A k \in 1..Len(t) : g[k] = History!Over(g[k - 1], t[k])
    <3>1. PICK n \in Nat : n = Len(t)
      BY <1>3
    <3>2. g = [k \in 0..n |-> IF k = 0 THEN History!EmptyTree ELSE History!Over(g[k - 1], t[k])]
      BY <2>1, <3>1
    <3>3. \A k \in 1..n : k \in 0..n /\ k # 0
      OBVIOUS
    <3> QED BY <3>1, <3>2, <3>3
  <2> QED BY <2>2, <2>3, <2>4
<1> HIDE DEF IsMerge
<1>8. \A k \in 0..Len(ls) : f[k] = g[k]
  <2> DEFINE Bad == {k \in 0..Len(ls) : f[k] # g[k]}
  <2>1. SUFFICES ASSUME Bad # {} PROVE FALSE
    OBVIOUS
  <2>2. PICK n \in Bad : \A k \in Bad : n <= k
    <3>1. Bad \in SUBSET Nat
      BY <1>3
    <3> HIDE DEF Bad
    <3> QED BY <2>1, <3>1, Least
  <2>3. n \in 1..Len(ls) /\ n \in 1..Len(t) /\ n - 1 \in 0..Len(ls)
    BY <1>3, <1>7
  <2>4. f[n - 1] = g[n - 1]
    BY <2>2, <2>3, <1>3
  <2> QED BY <2>3, <2>4, <1>3, <1>7
<1>9. g[Len(t)] = History!Over(g[Len(ls)], l)
  BY <1>3, <1>7
<1> QED BY <1>2, <1>3, <1>4, <1>5, <1>6, <1>8, <1>9

-----------------------------------------------------------------------------
(* The history: what holds between its steps *)

Captured(i) == IF i = 0 THEN History!EmptyTree ELSE saved[i]   \* the tree an id stands for
Writing == {"layer", "manifest", "index", "head"}
Restoring == {"remove", "write", "moveHead"}
HistoryJobs == [pc : {"idle", "retire", "ref", "sweep"} \cup Writing \cup Restoring,
         id : 0..MaxTaken, base : 0..MaxTaken, tree : History!Trees,
         todo : SUBSET (History!Ids \cup {"twin", "blob"} \X History!Layers)]
HistoryWritten == [parent : 0..MaxTaken, layer : History!Layers]

HistoryTypes ==
    /\ work \in History!Trees
    /\ manifests \in [History!Ids -> HistoryWritten \cup {None}]
    /\ indexes \in [History!Ids -> History!Trees \cup {None}]
    /\ saved \in [History!Ids -> History!Trees \cup {None}]
    /\ snapHead \in 0..MaxTaken
    /\ stored \subseteq History!Layers /\ blobs \subseteq History!Layers
    /\ tag \in History!Layers \cup {None}
    /\ acked \subseteq History!Ids
    /\ job \in [{1} -> HistoryJobs]

\* Ids are drawn in order, and a manifest and an index record the tree of their
\* id: the manifest as a difference to that of an older id.
DrawnInOrder == \A i, j \in History!Ids : saved[i] # None /\ j < i => saved[j] # None
Recorded ==
    \A i \in History!Ids :
        /\ indexes[i] # None => indexes[i] = saved[i]
        /\ manifests[i] # None =>
             /\ saved[i] # None
             /\ manifests[i].parent < i
             /\ manifests[i].layer = History!Diff(Captured(manifests[i].parent), saved[i])

HeadWhole == snapHead # 0 => Whole(snapHead) /\ indexes[snapHead] # None

\* What an operation relies on between its steps.
WritingOK(f) ==
    f.pc \in Writing =>
        /\ f.id \in History!Ids /\ saved[f.id] = f.tree
        /\ f.base \in {0, snapHead} /\ snapHead < f.id
        /\ f.todo \subseteq 1..(f.id - 1)
        /\ f.todo # {} => f.base = 0
        /\ f.pc # "layer" => History!Diff(Captured(f.base), f.tree) \in stored
        /\ f.pc \in {"index", "head"} =>
             manifests[f.id] = [parent |-> f.base, layer |-> History!Diff(Captured(f.base), f.tree)]
        /\ f.pc = "head" => indexes[f.id] = f.tree
RetiringOK(f) ==
    f.pc = "retire" =>
        /\ f.id \in History!Ids /\ snapHead = f.id
        /\ f.todo \subseteq 1..(f.id - 1) /\ f.todo # {}
        /\ manifests[f.id].parent = 0
RestoringOK(f) ==
    f.pc \in Restoring =>
        /\ f.id \in History!Ids /\ Whole(f.id) /\ indexes[f.id] # None
        /\ f.pc = "write" => \A p \in History!Paths : work[p] \in {History!Absent, f.tree[p]}
CommitOK(f) == f.pc = "ref" => History!Diff(History!EmptyTree, f.tree) \in stored \cap blobs
SweepOK(f) ==
    f.pc = "sweep" =>
        /\ f.todo \subseteq {"twin", "blob"} \X History!Layers
        /\ \A l \in History!ReachableLayers : <<"twin", l>> \notin f.todo
        /\ \A l \in History!ReachableBlobs : <<"blob", l>> \notin f.todo

HistoryJob == /\ WritingOK(job[1]) /\ RetiringOK(job[1]) /\ RestoringOK(job[1])
         /\ CommitOK(job[1]) /\ SweepOK(job[1])

HistoryInv ==
    /\ HistoryTypes /\ DrawnInOrder /\ Recorded /\ Backed
    /\ tag # None => tag \in stored \cap blobs
    /\ HeadWhole /\ HistoryJob

LEMMA EmptyIsTree == History!EmptyTree \in History!Trees
<1>1. History!Top \in History!Paths /\ History!Nested \in History!Paths
  BY DEF History!Paths
<1>2. History!EmptyTree[History!Top] = History!Absent
      /\ History!EmptyTree[History!Nested] = History!Absent
      /\ History!EmptyTree \in [History!Paths -> Bodies \cup {History!Absent, History!Dir}]
  BY <1>1 DEF History!EmptyTree
<1> QED BY <1>2 DEF History!Trees, History!Absent, History!Dir

\* The layers of a whole chain give the tree that was captured.
LEMMA WholeIsFaithful ==
  ASSUME History!SnapshotsAssumption, HistoryTypes, DrawnInOrder, Recorded, Backed
  PROVE  /\ Ranked
         /\ \A i \in History!Ids : Whole(i) => History!Merged(History!ChainLayers(i)) = saved[i]
<1>0. MaxTaken \in Nat /\ \A i \in History!Ids : i \in Nat /\ i >= 1 /\ i <= MaxTaken
  BY DEF History!Ids, History!SnapshotsAssumption
<1>1. \A i \in History!Listed : /\ i \in History!Ids /\ manifests[i] # None
                        /\ manifests[i].parent \in 0..MaxTaken
                        /\ manifests[i].layer \in History!Layers
  BY DEF HistoryTypes, History!Listed, HistoryWritten
<1>2. Ranked
  <2> SUFFICES ASSUME NEW i \in History!Listed PROVE manifests[i].parent \in 0..(i - 1)
    BY DEF Ranked
  <2>1. PICK p : p = manifests[i].parent
    OBVIOUS
  <2>2. p \in 0..MaxTaken /\ p < i /\ i \in Nat
    BY <2>1, <1>0, <1>1 DEF Recorded
  <2> QED BY <2>1, <2>2, <1>0
<1> DEFINE Wrong == {i \in History!Ids : Whole(i) /\ History!Merged(History!ChainLayers(i)) # saved[i]}
<1>3. SUFFICES ASSUME Wrong # {} PROVE FALSE
  BY <1>2
<1>4. PICK i \in Wrong : \A j \in Wrong : i <= j
  <2>1. Wrong \in SUBSET Nat
    BY <1>0
  <2> HIDE DEF Wrong
  <2> QED BY <1>3, <2>1, Least
<1>5. i \in History!Ids /\ Whole(i) /\ i \in History!Listed
  <2>1. i \in History!Ids /\ Whole(i)
    OBVIOUS
  <2> QED BY <2>1, <1>0, <1>2, WholeStep DEF History!Listed
<1>6. PICK p : p = manifests[i].parent
  OBVIOUS
<1>7. p \in 0..(i - 1) /\ p \in 0..MaxTaken
  BY <1>5, <1>6, <1>1, <1>2 DEF Ranked
<1>8. p = 0 \/ Whole(p)
  BY <1>5, <1>6, <1>0, <1>2, WholeStep
<1>9. manifests[i].layer = History!Diff(Captured(p), saved[i]) /\ saved[i] # None
  BY <1>5, <1>6, <1>1 DEF Recorded
<1>10. Captured(p) \in History!Trees /\ saved[i] \in History!Trees
  <2>1. saved[i] \in History!Trees
    BY <1>5, <1>9 DEF HistoryTypes
  <2>2. History!EmptyTree \in History!Trees
    BY EmptyIsTree
  <2>3. CASE p # 0
    <3>1. p \in History!Ids /\ p < i
      BY <2>3, <1>7, <1>5, <1>0 DEF History!Ids
    <3>2. saved[p] # None
      BY <3>1, <1>5, <1>9 DEF DrawnInOrder
    <3> QED BY <3>1, <3>2, <2>1, <2>3 DEF HistoryTypes, Captured
  <2> QED BY <2>1, <2>2, <2>3 DEF Captured
<1>11. History!Over(Captured(p), manifests[i].layer) = saved[i]
  BY <1>9, <1>10, DiffMeans
<1>12. History!Merged(History!ChainLayers(p)) = Captured(p)
  <2>1. CASE p = 0
    <3>1. History!Chain(p) = <<>>
      BY <2>1, <1>0, <1>2, ChainStep
    <3>2. History!ChainLayers(p) = <<>>
      BY <3>1 DEF History!ChainLayers, History!LayersOf
    <3> QED BY <3>2, <2>1, MergedNone DEF Captured
  <2>2. CASE p # 0
    <3>1. p \in History!Ids /\ p < i
      BY <2>2, <1>7, <1>5, <1>0 DEF History!Ids
    <3>2. p \notin Wrong
      <4> HIDE DEF Wrong
      <4> QED BY <3>1, <1>4, <1>5, <1>0
    <3> QED BY <3>1, <3>2, <1>8, <2>2 DEF Captured
  <2> QED BY <2>1, <2>2
<1>13. History!Chain(i) = Append(History!Chain(p), i) /\ History!Chain(p) \in Seq(1..p)
  BY <1>5, <1>6, <1>7, <1>0, <1>2, ChainStep
<1>14. PICK ls : ls = History!ChainLayers(p)
  OBVIOUS
<1>15. ls \in Seq({manifests[j].layer : j \in 1..MaxTaken})
       /\ History!ChainLayers(i) = Append(ls, manifests[i].layer)
  <2>1. PICK c : c = History!Chain(p)
    OBVIOUS
  <2>2. c \in Seq(1..p) /\ Len(c) \in Nat /\ DOMAIN c = 1..Len(c)
    BY <2>1, <1>13
  <2>3. ls = [k \in 1..Len(c) |-> manifests[c[k]].layer]
    BY <2>1, <2>2, <1>14 DEF History!ChainLayers, History!LayersOf
  <2>4. \A k \in 1..Len(c) : c[k] \in 1..MaxTaken
    <3>1. \A k \in 1..Len(c) : c[k] \in 1..p
      BY <2>2, ElementOfSeq
    <3> QED BY <3>1, <1>0, <1>7
  <2>5. ls \in Seq({manifests[j].layer : j \in 1..MaxTaken})
    <3> DEFINE L == {manifests[j].layer : j \in 1..MaxTaken}
    <3>1. \A k \in 1..Len(c) : manifests[c[k]].layer \in L
      BY <2>4
    <3> HIDE DEF L
    <3>2. ls \in Seq(L)
      BY <2>3, <3>1, <2>2
    <3> QED BY <3>2 DEF L
  <2>6. History!ChainLayers(i) = [k \in 1..(Len(c) + 1) |-> manifests[Append(c, i)[k]].layer]
    <3>1. DOMAIN Append(c, i) = 1..(Len(c) + 1)
      BY <2>2
    <3> QED BY <3>1, <2>1, <1>13 DEF History!ChainLayers, History!LayersOf
  <2>7. Append(ls, manifests[i].layer) = [k \in 1..(Len(c) + 1) |-> IF k <= Len(c) THEN ls[k]
            ELSE manifests[i].layer]
    BY <2>2, <2>3
  <2>8. \A k \in 1..(Len(c) + 1) : manifests[Append(c, i)[k]].layer = IF k <= Len(c) THEN ls[k]
            ELSE manifests[i].layer
    <3> SUFFICES ASSUME NEW k \in 1..(Len(c) + 1)
                 PROVE  manifests[Append(c, i)[k]].layer = IF k <= Len(c) THEN ls[k]
                            ELSE manifests[i].layer
      OBVIOUS
    <3>1. CASE k <= Len(c)
      <4>1. k \in 1..Len(c) /\ Append(c, i)[k] = c[k]
        BY <3>1, <2>2
      <4> QED BY <4>1, <3>1, <2>3
    <3>2. CASE ~(k <= Len(c))
      <4>1. k = Len(c) + 1 /\ Append(c, i)[k] = i
        BY <3>2, <2>2
      <4> QED BY <4>1, <3>2
    <3> QED BY <3>1, <3>2
  <2> QED BY <2>5, <2>6, <2>7, <2>8
<1>16. manifests[i].layer \in {manifests[j].layer : j \in 1..MaxTaken}
  BY <1>5, <1>0
<1>17. History!Merged(History!ChainLayers(i)) = History!Over(History!Merged(ls), manifests[i].layer)
  BY <1>15, <1>16, MergedAppend
<1>18. History!Merged(History!ChainLayers(i)) = saved[i]
  BY <1>17, <1>14, <1>12, <1>11
<1> QED BY <1>18, <1>4

\* The job of the one process is a record, and ends idle.
LEMMA IdleIsJob == ASSUME History!SnapshotsAssumption PROVE History!Idle \in HistoryJobs
<1>1. 0 \in 0..MaxTaken
  BY DEF History!SnapshotsAssumption
<1> QED BY <1>1, EmptyIsTree DEF History!Idle, HistoryJobs

LEMMA JobSet ==
  ASSUME job \in [{1} -> HistoryJobs], NEW f, job' = [job EXCEPT ![1] = f]
  PROVE  job'[1] = f /\ (job'[1] \in HistoryJobs => job' \in [{1} -> HistoryJobs])
OBVIOUS

LEMMA DoneIsOK == ASSUME History!SnapshotsAssumption, HistoryTypes, History!Done(1)
  PROVE job' \in [{1} -> HistoryJobs] /\ HistoryJob'
<1>1. job \in [{1} -> HistoryJobs]
  BY DEF HistoryTypes
<1>2. job'[1] = History!Idle /\ job' \in [{1} -> HistoryJobs]
  BY <1>1, IdleIsJob DEF History!Done
<1>3. job'[1].pc = "idle"
  BY <1>2 DEF History!Idle
<1> QED BY <1>2, <1>3 DEF HistoryJob, WritingOK, RetiringOK, RestoringOK, CommitOK, SweepOK,
    Writing, Restoring

LEMMA WholeStays ==
  ASSUME NEW i \in History!Ids, Whole(i), \A j \in 1..i : manifests'[j] = manifests[j]
  PROVE  Whole(i)'
<1>1. PICK S \in SUBSET (1..i) : i \in S /\ Ancestry(S)
  BY DEF Whole
<1>2. Ancestry(S)'
  BY <1>1 DEF Ancestry, History!Listed
<1> QED BY <1>1, <1>2 DEF Whole

\* What the chain of HEAD rests on, when no file of a snapshot changes.
LEMMA FilesStay ==
  ASSUME HistoryTypes, DrawnInOrder, Recorded, HeadWhole,
         UNCHANGED <<manifests, indexes, snapHead, saved>>
  PROVE  DrawnInOrder' /\ Recorded' /\ HeadWhole'
<1>1. DrawnInOrder'
  BY DEF DrawnInOrder
<1>2. Recorded'
  <2>1. \A i : Captured(i)' = Captured(i)
    BY DEF Captured
  <2> QED BY <2>1 DEF Recorded
<1>3. ASSUME snapHead # 0 PROVE Whole(snapHead)'
  <2>1. snapHead \in History!Ids /\ Whole(snapHead)
    BY <1>3 DEF HistoryTypes, History!Ids, HeadWhole
  <2>2. PICK h : h = snapHead
    OBVIOUS
  <2>3. h \in History!Ids /\ Whole(h)
    BY <2>1, <2>2
  <2>4. Whole(h)'
    BY <2>3, WholeStays
  <2>5. snapHead' = h
    BY <2>2
  <2> QED BY <2>4, <2>5
<1> QED BY <1>1, <1>2, <1>3 DEF HeadWhole

LEMMA HistoryStart == ASSUME History!SnapshotsAssumption, History!Init PROVE HistoryInv
<1>0. 0 \in 0..MaxTaken
  BY DEF History!SnapshotsAssumption
<1>1. HistoryTypes
  BY <1>0, EmptyIsTree, IdleIsJob DEF History!Init, HistoryTypes
<1>2. job[1].pc = "idle"
  BY DEF History!Init, History!Idle
<1>3. HistoryJob
  BY <1>2 DEF HistoryJob, WritingOK, RetiringOK, RestoringOK, CommitOK, SweepOK, Writing, Restoring
<1>4. \A i \in History!Ids : manifests[i] = None /\ indexes[i] = None /\ saved[i] = None
  BY DEF History!Init
<1> QED BY <1>1, <1>3, <1>4 DEF History!Init, HistoryInv, DrawnInOrder, Recorded, Backed,
    History!Listed, HeadWhole

-----------------------------------------------------------------------------
(* The history: create and compact *)

\* A fresh id is above all that were drawn, HEAD among them.
LEMMA FreshIsNew ==
  ASSUME History!SnapshotsAssumption, HistoryInv, NEW i \in History!Fresh
  PROVE  /\ i \in History!Ids /\ saved[i] = None
         /\ snapHead < i
         /\ \A j \in History!Ids : saved[j] # None => j < i
<1>0. \A j \in History!Ids : j \in Nat /\ j >= 1 /\ j <= MaxTaken
  BY DEF History!SnapshotsAssumption, History!Ids
<1>1. i \in History!Ids /\ saved[i] = None
  BY DEF History!Fresh
<1>2. \A j \in History!Ids : saved[j] # None => j < i
  BY <1>0, <1>1 DEF HistoryInv, DrawnInOrder
<1>3. ASSUME snapHead # 0 PROVE snapHead \in History!Ids /\ saved[snapHead] # None
  BY <1>3 DEF HistoryInv, HistoryTypes, History!Ids, HeadWhole, Recorded
<1>4. snapHead < i
  <2>1. CASE snapHead = 0
    BY <2>1, <1>0, <1>1
  <2>2. CASE snapHead # 0
    BY <2>2, <1>2, <1>3
  <2> QED BY <2>1, <2>2
<1> QED BY <1>1, <1>2, <1>4

\* Drawing an id takes no tree from those that have one.
LEMMA DrawKeeps ==
  ASSUME History!SnapshotsAssumption, HistoryInv, NEW i \in History!Fresh, NEW t \in History!Trees,
         saved' = [saved EXCEPT ![i] = t], UNCHANGED <<manifests, indexes, snapHead, stored>>
  PROVE  /\ DrawnInOrder' /\ Recorded' /\ HeadWhole' /\ Backed'
         /\ saved' \in [History!Ids -> History!Trees \cup {None}] /\ saved'[i] = t
<1>0. \A j \in History!Ids : j \in Nat /\ j >= 1 /\ j <= MaxTaken
  BY DEF History!SnapshotsAssumption, History!Ids
<1>1. i \in History!Ids /\ saved[i] = None /\ \A j \in History!Ids : saved[j] # None => j < i
  BY FreshIsNew
<1>n. t # None
  BY DEF History!SnapshotsAssumption
<1>2. saved' \in [History!Ids -> History!Trees \cup {None}] /\ saved'[i] = t
      /\ \A j \in History!Ids : j # i => saved'[j] = saved[j]
  BY <1>1 DEF HistoryInv, HistoryTypes
<1>3. DrawnInOrder'
  <2>1. \A j \in History!Ids : j < i => saved[j] # None
    BY <1>0 DEF History!Fresh
  <2>2. ASSUME NEW j \in History!Ids, NEW k \in History!Ids, saved'[j] # None, k < j
        PROVE saved'[k] # None
    <3>1. j <= i
      BY <2>2, <1>1, <1>2, <1>0
    <3>2. k < i /\ k # i
      BY <3>1, <2>2, <1>0, <1>1
    <3> QED BY <3>2, <2>1, <1>2
  <2> QED BY <2>2 DEF DrawnInOrder
<1>4. Recorded'
  <2> SUFFICES ASSUME NEW j \in History!Ids
               PROVE  /\ indexes[j] # None => indexes[j] = saved'[j]
                      /\ manifests[j] # None =>
                           /\ saved'[j] # None
                           /\ manifests[j].parent < j
                           /\ manifests[j].layer =
                                  History!Diff(Captured(manifests[j].parent)', saved'[j])
    BY DEF Recorded
  <2>1. ASSUME indexes[j] # None PROVE indexes[j] = saved'[j]
    <3>1. indexes[j] = saved[j] /\ j # i
      BY <2>1, <1>1 DEF HistoryInv, Recorded
    <3> QED BY <3>1, <1>2
  <2>2. ASSUME manifests[j] # None
        PROVE  /\ saved'[j] # None
               /\ manifests[j].parent < j
               /\ manifests[j].layer = History!Diff(Captured(manifests[j].parent)', saved'[j])
    <3>1. /\ saved[j] # None /\ manifests[j].parent < j
          /\ manifests[j].layer = History!Diff(Captured(manifests[j].parent), saved[j])
      BY <2>2 DEF HistoryInv, Recorded
    <3>2. j < i /\ saved'[j] = saved[j]
      BY <3>1, <1>1, <1>2, <1>0
    <3>3. PICK p : p = manifests[j].parent
      OBVIOUS
    <3>4. p \in 0..MaxTaken /\ p < j
      BY <3>1, <3>3, <2>2 DEF HistoryInv, HistoryTypes, HistoryWritten
    <3>5. Captured(p)' = Captured(p)
      <4>1. CASE p = 0
        BY <4>1 DEF Captured
      <4>2. CASE p # 0
        <5>1. p \in History!Ids /\ p # i
          BY <4>2, <3>2, <3>4, <1>0, <1>1 DEF History!Ids
        <5> QED BY <5>1, <1>2 DEF Captured
      <4> QED BY <4>1, <4>2
    <3>6. Captured(manifests[j].parent)' = Captured(p)'
      BY <3>3
    <3> QED BY <3>1, <3>2, <3>3, <3>5, <3>6
  <2> QED BY <2>1, <2>2
<1>5. HeadWhole'
  <2>1. ASSUME snapHead # 0 PROVE Whole(snapHead)'
    <3>1. PICK h : h = snapHead
      OBVIOUS
    <3>2. h \in History!Ids /\ Whole(h)
      BY <3>1, <2>1 DEF HistoryInv, HistoryTypes, History!Ids, HeadWhole
    <3>3. Whole(h)'
      BY <3>2, WholeStays
    <3> QED BY <3>1, <3>3
  <2> QED BY <2>1 DEF HistoryInv, HeadWhole
<1>6. Backed'
  BY DEF HistoryInv, Backed, History!Listed
<1> QED BY <1>2, <1>3, <1>4, <1>5, <1>6

LEMMA CreateKeeps ==
  ASSUME History!SnapshotsAssumption, HistoryInv, NEW clean \in BOOLEAN, History!Create(1, clean)
  PROVE  HistoryInv'
<1>1. PICK i \in History!Fresh :
        /\ job' = [job EXCEPT ![1] = [History!Idle
               EXCEPT !.pc = "layer", !.id = i, !.base = snapHead, !.tree = work]]
        /\ saved' = [saved EXCEPT ![i] = work]
  BY DEF History!Create
<1>2. UNCHANGED <<work, manifests, indexes, snapHead, stored, blobs, tag, acked, spent>>
  BY DEF History!Create
<1>3. work \in History!Trees
  BY DEF HistoryInv, HistoryTypes
<1>4. /\ DrawnInOrder' /\ Recorded' /\ HeadWhole' /\ Backed'
      /\ saved' \in [History!Ids -> History!Trees \cup {None}] /\ saved'[i] = work
  BY <1>1, <1>2, <1>3, DrawKeeps
<1>5. i \in History!Ids /\ snapHead < i /\ i \in 0..MaxTaken
  BY FreshIsNew DEF History!Ids
<1>6. job'[1] = [pc |-> "layer", id |-> i, base |-> snapHead, tree |-> work, todo |-> {}]
  BY <1>1 DEF HistoryInv, HistoryTypes, History!Idle
<1>7. job' \in [{1} -> HistoryJobs]
  <2>1. job'[1] \in HistoryJobs
    BY <1>6, <1>3, <1>5 DEF HistoryJobs, HistoryInv, HistoryTypes, Writing
  <2> QED BY <2>1, <1>1, JobSet DEF HistoryInv, HistoryTypes
<1>8. HistoryTypes'
  BY <1>2, <1>4, <1>7 DEF HistoryInv, HistoryTypes
<1>9. HistoryJob'
  <2>1. /\ job'[1].pc = "layer" /\ job'[1].id = i /\ job'[1].base = snapHead
        /\ job'[1].tree = work /\ job'[1].todo = {}
    BY <1>6
  <2>2. WritingOK(job[1])'
    BY <2>1, <1>2, <1>4, <1>5 DEF WritingOK, Writing
  <2> QED BY <2>1, <2>2 DEF HistoryJob, RetiringOK, RestoringOK, CommitOK, SweepOK, Restoring
<1>10. tag' # None => tag' \in stored' \cap blobs'
  BY <1>2 DEF HistoryInv
<1> QED BY <1>4, <1>8, <1>9, <1>10 DEF HistoryInv

LEMMA CompactKeeps ==
  ASSUME History!SnapshotsAssumption, HistoryInv, History!Compact(1)
  PROVE  HistoryInv'
<1>h. PICK h : h = snapHead
  OBVIOUS
<1>1. PICK i \in History!Fresh :
        /\ job' = [job EXCEPT ![1] = [History!Idle EXCEPT !.pc = "layer", !.id = i,
               !.tree = History!Merged(History!ChainLayers(h)),
                                                   !.todo = History!Range(History!Chain(h))]]
        /\ saved' = [saved EXCEPT ![i] = saved[h]]
  BY <1>h DEF History!Compact
<1>2. UNCHANGED <<work, manifests, indexes, snapHead, stored, blobs, tag, acked, spent>>
  BY DEF History!Compact
<1>3. h \in History!Ids /\ Whole(h) /\ h \in 0..MaxTaken
  BY <1>h DEF History!Compact, HistoryInv, HistoryTypes, HeadWhole, History!Ids
<1>4. History!Merged(History!ChainLayers(h)) = saved[h] /\ Ranked
  BY <1>3, WholeIsFaithful DEF HistoryInv
<1>5. saved[h] \in History!Trees
  <2>1. manifests[h] # None
    BY <1>3, <1>4, WholeStep DEF History!SnapshotsAssumption
  <2> QED BY <2>1, <1>3 DEF HistoryInv, Recorded, HistoryTypes
<1>6. /\ DrawnInOrder' /\ Recorded' /\ HeadWhole' /\ Backed'
      /\ saved' \in [History!Ids -> History!Trees \cup {None}] /\ saved'[i] = saved[h]
  BY <1>1, <1>2, <1>5, DrawKeeps
<1>7. i \in History!Ids /\ h < i /\ i \in 0..MaxTaken /\ h \in Nat /\ i \in Nat
  BY <1>h, <1>3, FreshIsNew DEF History!Ids
<1>8. History!Range(History!Chain(h)) \subseteq 1..(i - 1)
  <2>1. PICK c : c = History!Chain(h)
    OBVIOUS
  <2>2. c \in Seq(1..h)
    BY <2>1, <1>3, <1>4, ChainStep DEF History!SnapshotsAssumption
  <2>3. \A k \in DOMAIN c : c[k] \in 1..h
    <3>1. DOMAIN c = 1..Len(c)
      BY <2>2
    <3> QED BY <2>2, <3>1, ElementOfSeq
  <2>4. 1..h \subseteq 1..(i - 1)
    BY <1>7
  <2>5. History!Range(c) \subseteq 1..h
    BY <2>3 DEF History!Range
  <2> QED BY <2>1, <2>4, <2>5
<1>9. PICK old : old = History!Range(History!Chain(h))
  OBVIOUS
<1>10. job'[1] = [pc |-> "layer", id |-> i, base |-> 0, tree |-> saved[h], todo |-> old]
  BY <1>1, <1>4, <1>9 DEF HistoryInv, HistoryTypes, History!Idle
<1>11. job' \in [{1} -> HistoryJobs]
  <2>1. old \subseteq History!Ids /\ 0 \in 0..MaxTaken
    BY <1>7, <1>8, <1>9 DEF History!Ids, History!SnapshotsAssumption
  <2>2. job'[1] \in HistoryJobs
    BY <1>10, <1>5, <1>7, <2>1 DEF HistoryJobs, Writing
  <2> QED BY <2>2, <1>1, JobSet DEF HistoryInv, HistoryTypes
<1>12. HistoryTypes'
  BY <1>2, <1>6, <1>11 DEF HistoryInv, HistoryTypes
<1>13. HistoryJob'
  <2>1. /\ job'[1].pc = "layer" /\ job'[1].id = i /\ job'[1].base = 0
        /\ job'[1].tree = saved[h] /\ job'[1].todo = old
    BY <1>10
  <2>2. WritingOK(job[1])'
    BY <2>1, <1>2, <1>6, <1>7, <1>8, <1>9, <1>h DEF WritingOK, Writing
  <2> QED BY <2>1, <2>2 DEF HistoryJob, RetiringOK, RestoringOK, CommitOK, SweepOK, Restoring
<1>14. tag' # None => tag' \in stored' \cap blobs'
  BY <1>2 DEF HistoryInv
<1> QED BY <1>6, <1>12, <1>13, <1>14 DEF HistoryInv

\* The tree that the layer is a difference to is the one the base stands for.
LEMMA BaseIsCaptured ==
  ASSUME History!SnapshotsAssumption, HistoryInv, job[1].pc \in Writing
  PROVE  /\ History!Base(1) = Captured(job[1].base)
         /\ Captured(job[1].base) \in History!Trees /\ job[1].tree \in History!Trees
         /\ History!Diff(Captured(job[1].base), job[1].tree) \in History!Layers
<1>1. job[1].base \in {0, snapHead} /\ job[1].tree \in History!Trees
  BY DEF HistoryInv, HistoryJob, WritingOK, HistoryTypes, HistoryJobs
<1>2. CASE job[1].base = 0
  <2>1. History!Base(1) = History!EmptyTree /\ Captured(job[1].base) = History!EmptyTree
    BY <1>2 DEF History!Base, Captured
  <2> QED BY <2>1, <1>1, EmptyIsTree, DiffMeans
<1>3. CASE job[1].base # 0
  <2>1. PICK h : h = snapHead
    OBVIOUS
  <2>2. job[1].base = h /\ h # 0 /\ h \in History!Ids /\ indexes[h] # None
    BY <2>1, <1>1, <1>3 DEF HistoryInv, HeadWhole, HistoryTypes, History!Ids
  <2>3. indexes[h] = saved[h] /\ indexes[h] \in History!Trees
    BY <2>2 DEF HistoryInv, Recorded, HistoryTypes
  <2>4. History!Base(1) = saved[h] /\ Captured(job[1].base) = saved[h]
    BY <2>2, <2>3 DEF History!Base, Captured
  <2> QED BY <2>3, <2>4, <1>1, DiffMeans
<1> QED BY <1>2, <1>3

\* Storing a layer takes nothing from what is kept.
LEMMA PutLayerKeeps ==
  ASSUME History!SnapshotsAssumption, HistoryInv, History!PutLayer(1)
  PROVE  HistoryInv'
<1>1. /\ job[1].pc = "layer" /\ job[1].pc \in Writing
      /\ job' = [job EXCEPT ![1].pc = "manifest"]
      /\ UNCHANGED <<work, manifests, indexes, snapHead, blobs, tag, saved, acked, spent>>
  BY DEF History!PutLayer, History!At, History!Goto, Writing
<1>2. PICK l : l = History!Diff(Captured(job[1].base), job[1].tree)
  OBVIOUS
<1>3. l \in History!Layers /\ stored' = stored \cup {l}
  BY <1>1, <1>2, BaseIsCaptured DEF History!PutLayer
<1>4. DrawnInOrder' /\ Recorded' /\ HeadWhole'
  BY <1>1, FilesStay DEF HistoryInv
<1>5. Backed'
  BY <1>1, <1>3 DEF HistoryInv, Backed, History!Listed
<1>6. /\ job'[1] = [job[1] EXCEPT !.pc = "manifest"]
      /\ job'[1].pc = "manifest" /\ job'[1].id = job[1].id /\ job'[1].base = job[1].base
      /\ job'[1].tree = job[1].tree /\ job'[1].todo = job[1].todo
      /\ job'[1] \in HistoryJobs /\ job' \in [{1} -> HistoryJobs]
  BY <1>1 DEF HistoryInv, HistoryTypes, HistoryJobs, Writing
<1>7. HistoryTypes'
  BY <1>1, <1>3, <1>6 DEF HistoryInv, HistoryTypes
<1>8. WritingOK(job[1])'
  <2>1. WritingOK(job[1])
    BY DEF HistoryInv, HistoryJob
  <2>2. Captured(job[1].base)' = Captured(job[1].base)
    BY <1>1, <1>6 DEF Captured
  <2> QED BY <2>1, <2>2, <1>1, <1>2, <1>3, <1>6 DEF WritingOK, Writing
<1>9. HistoryJob'
  BY <1>6, <1>8 DEF HistoryJob, RetiringOK, RestoringOK, CommitOK, SweepOK, Restoring
<1>10. tag' # None => tag' \in stored' \cap blobs'
  BY <1>1, <1>3 DEF HistoryInv
<1> QED BY <1>4, <1>5, <1>7, <1>9, <1>10 DEF HistoryInv

LEMMA WriteManifestKeeps ==
  ASSUME History!SnapshotsAssumption, HistoryInv, History!WriteManifest(1)
  PROVE  HistoryInv'
<1>1. /\ job[1].pc = "manifest" /\ job[1].pc \in Writing
      /\ job' = [job EXCEPT ![1].pc = "index"]
      /\ UNCHANGED <<work, indexes, snapHead, stored, blobs, tag, saved, acked, spent>>
  BY DEF History!WriteManifest, History!At, History!Goto, Writing
<1>2. PICK l, i, b : l = History!Diff(Captured(job[1].base), job[1].tree) /\ i = job[1].id
      /\ b = job[1].base
  OBVIOUS
<1>3. PICK h : h = snapHead
  OBVIOUS
<1>4. /\ i \in History!Ids /\ saved[i] = job[1].tree /\ b \in {0, h} /\ h < i /\ l \in stored
      /\ h \in 0..MaxTaken /\ i \in Nat /\ h \in Nat
      /\ i >= 1 /\ i <= MaxTaken /\ MaxTaken \in Nat
  BY <1>1, <1>2, <1>3 DEF HistoryInv, HistoryJob, WritingOK, HistoryTypes, History!Ids,
     History!SnapshotsAssumption
<1>5. l \in History!Layers /\ saved[i] \in History!Trees /\ b \in 0..MaxTaken /\ b < i
  <2>1. l \in History!Layers /\ saved[i] \in History!Trees
    BY <1>1, <1>2, <1>4, BaseIsCaptured
  <2>2. 0 \in 0..MaxTaken /\ 0 < i
    BY <1>4
  <2> QED BY <2>1, <2>2, <1>4
<1>6. manifests' = [manifests EXCEPT ![i] = [parent |-> b, layer |-> l]]
  BY <1>1, <1>2, BaseIsCaptured DEF History!WriteManifest
<1>7. /\ manifests' \in [History!Ids -> HistoryWritten \cup {None}]
      /\ manifests'[i] = [parent |-> b, layer |-> l]
      /\ \A j \in History!Ids : j # i => manifests'[j] = manifests[j]
  BY <1>4, <1>5, <1>6 DEF HistoryInv, HistoryTypes, HistoryWritten
<1>8. /\ job'[1].pc = "index" /\ job'[1].id = i /\ job'[1].base = b
      /\ job'[1].tree = job[1].tree /\ job'[1].todo = job[1].todo
      /\ job'[1] \in HistoryJobs /\ job' \in [{1} -> HistoryJobs]
  BY <1>1, <1>2 DEF HistoryInv, HistoryTypes, HistoryJobs, Writing
<1>9. HistoryTypes'
  BY <1>1, <1>7, <1>8 DEF HistoryInv, HistoryTypes
<1>10. DrawnInOrder'
  BY <1>1 DEF HistoryInv, DrawnInOrder
<1>11. \A j : Captured(j)' = Captured(j)
  BY <1>1 DEF Captured
<1>12. Recorded'
  <2> SUFFICES ASSUME NEW j \in History!Ids
               PROVE  /\ indexes[j] # None => indexes[j] = saved[j]
                      /\ manifests'[j] # None =>
                           /\ saved[j] # None
                           /\ manifests'[j].parent < j
                           /\ manifests'[j].layer =
                                  History!Diff(Captured(manifests'[j].parent), saved[j])
    BY <1>1, <1>11 DEF Recorded
  <2>1. CASE j # i
    BY <2>1, <1>7 DEF HistoryInv, Recorded
  <2>2. CASE j = i
    <3>1. saved[i] # None
      BY <1>5 DEF History!SnapshotsAssumption
    <3>2. indexes[j] # None => indexes[j] = saved[j]
      BY DEF HistoryInv, Recorded
    <3>3. l = History!Diff(Captured(b), saved[i])
      BY <1>2, <1>4
    <3> QED BY <2>2, <3>1, <3>2, <3>3, <1>5, <1>7
  <2> QED BY <2>1, <2>2
<1>13. Backed'
  <2>1. manifests'[i].layer \in stored
    BY <1>4, <1>7
  <2> QED BY <2>1, <1>1, <1>7 DEF HistoryInv, Backed, History!Listed
<1>14. HeadWhole'
  <2>1. ASSUME h # 0 PROVE Whole(h)'
    <3>1. h \in History!Ids /\ Whole(h)
      BY <2>1, <1>3, <1>4 DEF HistoryInv, HeadWhole, History!Ids
    <3>2. \A j \in 1..h : manifests'[j] = manifests[j]
      <4> SUFFICES ASSUME NEW j \in 1..h PROVE manifests'[j] = manifests[j]
        OBVIOUS
      <4>1. j \in History!Ids /\ j # i
        BY <1>4 DEF History!Ids
      <4> QED BY <4>1, <1>7
    <3> QED BY <3>1, <3>2, WholeStays
  <2>2. snapHead' = h
    BY <1>1, <1>3
  <2>3. h # 0 => indexes[h] # None
    BY <1>3 DEF HistoryInv, HeadWhole
  <2> QED BY <2>1, <2>2, <2>3, <1>1 DEF HeadWhole
<1>15. WritingOK(job[1])'
  <2>1. WritingOK(job[1])
    BY DEF HistoryInv, HistoryJob
  <2>2. Captured(job[1].base)' = Captured(job[1].base)
    BY <1>1, <1>2, <1>8, <1>11
  <2> QED BY <2>1, <2>2, <1>1, <1>2, <1>4, <1>7, <1>8 DEF WritingOK, Writing
<1>16. HistoryJob'
  BY <1>8, <1>15 DEF HistoryJob, RetiringOK, RestoringOK, CommitOK, SweepOK, Restoring
<1>17. tag' # None => tag' \in stored' \cap blobs'
  BY <1>1 DEF HistoryInv
<1> QED BY <1>9, <1>10, <1>12, <1>13, <1>14, <1>16, <1>17 DEF HistoryInv

LEMMA WriteIndexKeeps ==
  ASSUME History!SnapshotsAssumption, HistoryInv, History!WriteIndex(1)
  PROVE  HistoryInv'
<1>1. /\ job[1].pc = "index" /\ job[1].pc \in Writing
      /\ job' = [job EXCEPT ![1].pc = "head"]
      /\ indexes' = [indexes EXCEPT ![job[1].id] = job[1].tree]
      /\ UNCHANGED <<work, manifests, snapHead, stored, blobs, tag, saved, acked, spent>>
  BY DEF History!WriteIndex, History!At, History!Goto, Writing
<1>2. PICK i : i = job[1].id
  OBVIOUS
<1>3. i \in History!Ids /\ saved[i] = job[1].tree /\ job[1].tree \in History!Trees
  BY <1>1, <1>2 DEF HistoryInv, HistoryJob, WritingOK, HistoryTypes, HistoryJobs
<1>4. /\ indexes' \in [History!Ids -> History!Trees \cup {None}]
      /\ indexes'[i] = saved[i] /\ saved[i] # None
      /\ \A j \in History!Ids : j # i => indexes'[j] = indexes[j]
  BY <1>1, <1>2, <1>3 DEF HistoryInv, HistoryTypes, History!SnapshotsAssumption
<1>5. /\ job'[1].pc = "head" /\ job'[1].id = i /\ job'[1].base = job[1].base
      /\ job'[1].tree = job[1].tree /\ job'[1].todo = job[1].todo
      /\ job'[1] \in HistoryJobs /\ job' \in [{1} -> HistoryJobs]
  BY <1>1, <1>2 DEF HistoryInv, HistoryTypes, HistoryJobs, Writing
<1>6. HistoryTypes'
  BY <1>1, <1>4, <1>5 DEF HistoryInv, HistoryTypes
<1>7. DrawnInOrder'
  BY <1>1 DEF HistoryInv, DrawnInOrder
<1>8. \A j : Captured(j)' = Captured(j)
  BY <1>1 DEF Captured
<1>9. Recorded'
  <2>1. \A j \in History!Ids : indexes'[j] # None => indexes'[j] = saved[j]
    BY <1>4 DEF HistoryInv, Recorded
  <2> QED BY <2>1, <1>1, <1>8 DEF HistoryInv, Recorded
<1>10. Backed'
  BY <1>1 DEF HistoryInv, Backed, History!Listed
<1>11. HeadWhole'
  <2>1. PICK h : h = snapHead
    OBVIOUS
  <2>2. ASSUME h # 0 PROVE Whole(h)' /\ indexes'[h] # None
    <3>1. h \in History!Ids /\ Whole(h) /\ indexes[h] # None
      BY <2>1, <2>2 DEF HistoryInv, HeadWhole, HistoryTypes, History!Ids
    <3> QED BY <3>1, <1>1, <1>4, WholeStays
  <2> QED BY <2>1, <2>2, <1>1 DEF HeadWhole
<1>12. WritingOK(job[1])'
  <2>1. WritingOK(job[1])
    BY DEF HistoryInv, HistoryJob
  <2>2. Captured(job[1].base)' = Captured(job[1].base)
    BY <1>5, <1>8
  <2> QED BY <2>1, <2>2, <1>1, <1>2, <1>3, <1>4, <1>5 DEF WritingOK, Writing
<1>13. HistoryJob'
  BY <1>5, <1>12 DEF HistoryJob, RetiringOK, RestoringOK, CommitOK, SweepOK, Restoring
<1>14. tag' # None => tag' \in stored' \cap blobs'
  BY <1>1 DEF HistoryInv
<1> QED BY <1>6, <1>7, <1>9, <1>10, <1>11, <1>13, <1>14 DEF HistoryInv

\* HEAD moves to a snapshot whose manifest, layer and index are written.
LEMMA WriteHeadKeeps ==
  ASSUME History!SnapshotsAssumption, HistoryInv, History!WriteHead(1)
  PROVE  HistoryInv'
<1>1. /\ job[1].pc = "head" /\ job[1].pc \in Writing
      /\ snapHead' = job[1].id
      /\ UNCHANGED <<work, manifests, indexes, stored, blobs, tag, saved, spent>>
      /\ acked' \subseteq acked \cup {job[1].id}
  BY DEF History!WriteHead, History!At, Writing
<1>2. PICK i : i = job[1].id
  OBVIOUS
<1>3. /\ i \in History!Ids /\ saved[i] = job[1].tree /\ job[1].tree \in History!Trees
      /\ job[1].base \in {0, snapHead} /\ snapHead < i
      /\ job[1].todo \subseteq 1..(i - 1)
      /\ (job[1].todo # {} => job[1].base = 0)
      /\ manifests[i] = [parent |-> job[1].base, layer |->
             History!Diff(Captured(job[1].base), job[1].tree)]
      /\ indexes[i] = job[1].tree
  BY <1>1, <1>2 DEF HistoryInv, HistoryJob, WritingOK, HistoryTypes, HistoryJobs
<1>4. Whole(i)
  <2>1. Ranked
    BY WholeIsFaithful DEF HistoryInv
  <2>2. manifests[i].parent = job[1].base
    BY <1>3
  <2>3. manifests[i] # None
    <3>1. job[1].base \in 0..MaxTaken
          /\ History!Diff(Captured(job[1].base), job[1].tree) \in History!Layers
      BY <1>1, BaseIsCaptured DEF HistoryInv, HistoryTypes, HistoryJobs
    <3> QED BY <3>1, <1>3 DEF History!SnapshotsAssumption
  <2>4. job[1].base = 0 \/ Whole(job[1].base)
    BY <1>3 DEF HistoryInv, HeadWhole
  <2> QED BY <2>1, <2>2, <2>3, <2>4, <1>3, WholeStep DEF History!SnapshotsAssumption
<1>5. HeadWhole'
  <2>1. Whole(i)'
    BY <1>1, <1>3, <1>4, WholeStays
  <2>2. snapHead' = i /\ indexes'[i] # None
    BY <1>1, <1>2, <1>3 DEF History!SnapshotsAssumption
  <2> QED BY <2>1, <2>2 DEF HeadWhole
<1>6. DrawnInOrder' /\ Recorded' /\ Backed'
  <2>1. \A j : Captured(j)' = Captured(j)
    BY <1>1 DEF Captured
  <2> QED BY <2>1, <1>1 DEF HistoryInv, DrawnInOrder, Recorded, Backed, History!Listed
<1>7. job' \in [{1} -> HistoryJobs] /\ HistoryJob'
  <2>1. CASE job[1].todo = {}
    BY <2>1, DoneIsOK DEF History!WriteHead, HistoryInv
  <2>2. CASE job[1].todo # {}
    <3>1. job' = [job EXCEPT ![1].pc = "retire"]
      BY <2>2 DEF History!WriteHead, History!Goto
    <3>2. /\ job'[1].pc = "retire" /\ job'[1].id = i /\ job'[1].base = job[1].base
          /\ job'[1].tree = job[1].tree /\ job'[1].todo = job[1].todo
          /\ job'[1] \in HistoryJobs /\ job' \in [{1} -> HistoryJobs]
      BY <3>1, <1>2 DEF HistoryInv, HistoryTypes, HistoryJobs
    <3>3. RetiringOK(job[1])'
      <4>1. manifests'[i].parent = 0 /\ snapHead' = i
        BY <1>1, <1>2, <1>3, <2>2
      <4> QED BY <4>1, <3>2, <1>3, <2>2 DEF RetiringOK
    <3> QED BY <3>2, <3>3 DEF HistoryJob, WritingOK, RestoringOK, CommitOK, SweepOK, Restoring,
        Writing
  <2> QED BY <2>1, <2>2
<1>8. HistoryTypes'
  <2>1. snapHead' \in 0..MaxTaken /\ acked' \subseteq History!Ids
    BY <1>1, <1>2, <1>3 DEF HistoryInv, HistoryTypes, History!Ids
  <2> QED BY <2>1, <1>1, <1>7 DEF HistoryInv, HistoryTypes
<1>9. tag' # None => tag' \in stored' \cap blobs'
  BY <1>1 DEF HistoryInv
<1> QED BY <1>5, <1>6, <1>7, <1>8, <1>9 DEF HistoryInv

\* The snapshots that compact deletes are not the one that replaced them.
LEMMA RetireKeeps ==
  ASSUME History!SnapshotsAssumption, HistoryInv, History!Retire(1)
  PROVE  HistoryInv'
<1> DEFINE min == CHOOSE i \in job[1].todo : \A j \in job[1].todo : i <= j
<1>1. /\ job[1].pc = "retire"
      /\ manifests' = [manifests EXCEPT ![min] = None]
      /\ indexes' = [indexes EXCEPT ![min] = None]
      /\ UNCHANGED <<work, snapHead, stored, blobs, tag, saved, spent>>
      /\ acked' \subseteq acked \cup {job[1].id}
      /\ IF job[1].todo = {min} THEN History!Done(1) ELSE job' = [job EXCEPT ![1].todo = @ \ {min}]
  BY DEF History!Retire, History!At
<1>2. PICK h : h = job[1].id
  OBVIOUS
<1>3. /\ h \in History!Ids /\ snapHead = h /\ manifests[h].parent = 0 /\ h \in Nat /\ h >= 1 /\ h <= MaxTaken
      /\ job[1].todo \subseteq 1..(h - 1) /\ job[1].todo # {} /\ MaxTaken \in Nat
  BY <1>1, <1>2 DEF HistoryInv, HistoryJob, RetiringOK, HistoryTypes, History!Ids,
     History!SnapshotsAssumption
<1>4. min \in job[1].todo
  <2>1. job[1].todo \in SUBSET Nat
    BY <1>3
  <2> QED BY <2>1, <1>3, Least
<1> HIDE DEF min
<1>5. min \in History!Ids /\ min # h
  BY <1>3, <1>4 DEF History!Ids
<1>6. /\ manifests' \in [History!Ids -> HistoryWritten \cup {None}] /\ indexes'
             \in [History!Ids -> History!Trees \cup {None}]
      /\ manifests'[min] = None /\ indexes'[min] = None
      /\ \A j \in History!Ids : j # min => manifests'[j] = manifests[j] /\ indexes'[j] = indexes[j]
  BY <1>1, <1>5 DEF HistoryInv, HistoryTypes
<1>7. DrawnInOrder' /\ Recorded' /\ Backed'
  <2>1. \A j : Captured(j)' = Captured(j)
    BY <1>1 DEF Captured
  <2>2. Recorded'
    <3> SUFFICES ASSUME NEW j \in History!Ids
               PROVE  /\ indexes'[j] # None => indexes'[j] = saved[j]
                      /\ manifests'[j] # None =>
                           /\ saved[j] # None
                           /\ manifests'[j].parent < j
                           /\ manifests'[j].layer =
                                  History!Diff(Captured(manifests'[j].parent), saved[j])
      BY <2>1, <1>1 DEF Recorded
    <3>1. CASE j = min
      BY <3>1, <1>6
    <3>2. CASE j # min
      BY <3>2, <1>6 DEF HistoryInv, Recorded
    <3> QED BY <3>1, <3>2
  <2>3. DrawnInOrder' /\ Backed'
    BY <1>1, <1>6 DEF HistoryInv, DrawnInOrder, Backed, History!Listed
  <2> QED BY <2>2, <2>3
<1>8. HeadWhole'
  <2>1. manifests[h] # None /\ indexes[h] # None
    <3>1. Whole(h) /\ Ranked /\ indexes[h] # None
      BY <1>3, WholeIsFaithful DEF HistoryInv, HeadWhole
    <3> QED BY <3>1, <1>3, WholeStep
  <2>2. manifests'[h] # None /\ manifests'[h].parent = 0 /\ indexes'[h] # None
    BY <2>1, <1>3, <1>5, <1>6
  <2>3. {h} \in SUBSET (1..h) /\ Ancestry({h})'
    BY <2>2, <1>3 DEF Ancestry, History!Listed
  <2>4. Whole(h)'
    BY <2>3 DEF Whole
  <2>5. snapHead' = h
    BY <1>1, <1>3
  <2> QED BY <2>2, <2>4, <2>5 DEF HeadWhole
<1>9. job' \in [{1} -> HistoryJobs] /\ HistoryJob'
  <2>1. CASE job[1].todo = {min}
    BY <2>1, <1>1, DoneIsOK DEF HistoryInv
  <2>2. CASE job[1].todo # {min}
    <3>1. job' = [job EXCEPT ![1].todo = @ \ {min}]
      BY <2>2, <1>1
    <3>2. /\ job'[1].pc = "retire" /\ job'[1].id = h /\ job'[1].base = job[1].base
          /\ job'[1].tree = job[1].tree /\ job'[1].todo = job[1].todo \ {min}
          /\ job'[1] \in HistoryJobs /\ job' \in [{1} -> HistoryJobs]
      BY <3>1, <1>1, <1>2 DEF HistoryInv, HistoryTypes, HistoryJobs
    <3>3. RetiringOK(job[1])'
      <4>1. manifests'[h].parent = 0 /\ snapHead' = h
        BY <1>1, <1>3, <1>5, <1>6
      <4> QED BY <4>1, <3>2, <1>3, <1>4, <2>2 DEF RetiringOK
    <3> QED BY <3>2, <3>3 DEF HistoryJob, WritingOK, RestoringOK, CommitOK, SweepOK, Restoring,
        Writing
  <2> QED BY <2>1, <2>2
<1>10. HistoryTypes'
  <2>1. snapHead' \in 0..MaxTaken /\ acked' \subseteq History!Ids
    BY <1>1, <1>2, <1>3 DEF HistoryInv, HistoryTypes
  <2> QED BY <2>1, <1>1, <1>6, <1>9 DEF HistoryInv, HistoryTypes
<1>11. tag' # None => tag' \in stored' \cap blobs'
  BY <1>1 DEF HistoryInv
<1> QED BY <1>7, <1>8, <1>9, <1>10, <1>11 DEF HistoryInv

\* What every step leaves alone that changes no file of a snapshot or a layer.
LEMMA WorkKeeps ==
  ASSUME History!SnapshotsAssumption, HistoryInv, work' \in History!Trees,
         job' \in [{1} -> HistoryJobs], HistoryJob',
         UNCHANGED <<manifests, indexes, snapHead, stored, blobs, tag, saved, acked>>
  PROVE  HistoryInv'
<1>1. DrawnInOrder' /\ Recorded' /\ HeadWhole'
  BY FilesStay DEF HistoryInv
<1>2. HistoryTypes' /\ Backed'
  BY DEF HistoryInv, HistoryTypes, Backed, History!Listed
<1>3. tag' # None => tag' \in stored' \cap blobs'
  BY DEF HistoryInv
<1> QED BY <1>1, <1>2, <1>3 DEF HistoryInv

-----------------------------------------------------------------------------
(* The history: restore *)

LEMMA RestoreKeeps ==
  ASSUME History!SnapshotsAssumption, HistoryInv, NEW i \in History!Ids, History!Restore(1, i)
  PROVE  HistoryInv'
<1>1. /\ History!Restorable(i)
      /\ job' = [job EXCEPT ![1] = [History!Idle EXCEPT !.pc = "remove", !.id = i,
             !.tree = History!Merged(History!ChainLayers(i))]]
      /\ UNCHANGED <<work, manifests, indexes, snapHead, stored, blobs, tag, saved, acked, spent>>
  BY DEF History!Restore
<1>2. Ranked
  BY WholeIsFaithful DEF HistoryInv
<1>3. Whole(i) /\ indexes[i] # None /\ History!Merged(History!ChainLayers(i)) = indexes[i]
  BY <1>1, <1>2, IntactIsWhole DEF History!Restorable, HistoryInv, History!SnapshotsAssumption
<1>4. indexes[i] \in History!Trees
  BY <1>3 DEF HistoryInv, HistoryTypes
<1>5. job'[1] = [pc |-> "remove", id |-> i, base |-> 0, tree |-> indexes[i], todo |-> {}]
  BY <1>1, <1>3 DEF HistoryInv, HistoryTypes, History!Idle
<1>6. job' \in [{1} -> HistoryJobs]
  <2>1. i \in 0..MaxTaken /\ 0 \in 0..MaxTaken
    BY DEF History!Ids, History!SnapshotsAssumption
  <2>2. job'[1] \in HistoryJobs
    BY <1>4, <1>5, <2>1 DEF HistoryJobs, Restoring
  <2> QED BY <2>2, <1>1, JobSet DEF HistoryInv, HistoryTypes
<1>7. HistoryJob'
  <2>1. job'[1].pc = "remove" /\ job'[1].id = i
    BY <1>5
  <2>2. Whole(i)'
    BY <1>1, <1>3, WholeStays
  <2>3. RestoringOK(job[1])'
    BY <2>1, <2>2, <1>1, <1>3 DEF RestoringOK
  <2> QED BY <2>1, <2>3 DEF HistoryJob, WritingOK, RetiringOK, CommitOK, SweepOK, Writing
<1> QED BY <1>1, <1>6, <1>7, WorkKeeps DEF HistoryInv, HistoryTypes

\* Between the steps of a restore: the snapshot stays, the tree is one.
LEMMA RestoringStays ==
  ASSUME HistoryInv, job[1].pc \in Restoring, NEW pc \in Restoring,
         NEW to, job' = [job EXCEPT ![1].pc = to], to = pc,
         UNCHANGED <<manifests, indexes>>,
         pc = "write" => \A p \in History!Paths : work'[p] \in {History!Absent, job[1].tree[p]}
  PROVE  job' \in [{1} -> HistoryJobs] /\ HistoryJob'
<1>1. /\ job'[1].pc = pc /\ job'[1].id = job[1].id /\ job'[1].tree = job[1].tree
      /\ job'[1] \in HistoryJobs /\ job' \in [{1} -> HistoryJobs]
  BY DEF HistoryInv, HistoryTypes, HistoryJobs
<1>2. PICK i : i = job[1].id
  OBVIOUS
<1>3. i \in History!Ids /\ Whole(i) /\ indexes[i] # None
  BY <1>2 DEF HistoryInv, HistoryJob, RestoringOK
<1>4. Whole(i)'
  BY <1>3, WholeStays
<1>5. RestoringOK(job[1])'
  BY <1>1, <1>2, <1>3, <1>4 DEF RestoringOK
<1> QED BY <1>1, <1>5 DEF HistoryJob, WritingOK, RetiringOK, CommitOK, SweepOK, Writing, Restoring

LEMMA BothPaths == /\ History!Top \in History!Paths /\ History!Nested \in History!Paths
    /\ History!Top # History!Nested
                  /\ \A p \in History!Paths : p = History!Top \/ p = History!Nested
BY DEF History!Paths, History!Top, History!Nested

LEMMA RestoreRemoveKeeps ==
  ASSUME History!SnapshotsAssumption, HistoryInv, History!RestoreRemove(1)
  PROVE  HistoryInv'
<1>1. /\ job[1].pc = "remove" /\ job[1].pc \in Restoring
      /\ UNCHANGED <<manifests, indexes, snapHead, stored, blobs, tag, saved, acked, spent>>
  BY DEF History!RestoreRemove, History!At, Restoring
<1>2. PICK t \in History!Trees : t = job[1].tree
  BY DEF HistoryInv, HistoryTypes, HistoryJobs
<1>3. /\ work \in [History!Paths -> Bodies \cup {History!Absent, History!Dir}] /\ t
             \in [History!Paths -> Bodies \cup {History!Absent, History!Dir}]
      /\ work[History!Nested] # History!Dir
            /\ (work[History!Nested] # History!Absent => work[History!Top] = History!Dir)
      /\ t[History!Nested] # History!Dir
            /\ (t[History!Nested] # History!Absent => t[History!Top] = History!Dir)
  BY DEF HistoryInv, HistoryTypes, History!Trees
<1>4. CASE History!Outdated(1) = {}
  <2>1. job' = [job EXCEPT ![1].pc = "write"] /\ UNCHANGED work
    BY <1>4 DEF History!RestoreRemove, History!Goto
  <2>2. \A p \in History!Paths : work'[p] \in {History!Absent, job[1].tree[p]}
    BY <1>4, <2>1 DEF History!Outdated
  <2>3. "write" \in Restoring
    BY DEF Restoring
  <2>4. job' \in [{1} -> HistoryJobs] /\ HistoryJob'
    BY <1>1, <2>1, <2>2, <2>3, RestoringStays
  <2> QED BY <1>1, <2>1, <2>4, WorkKeeps DEF HistoryInv, HistoryTypes
<1>5. CASE History!Outdated(1) # {}
  <2>1. PICK p \in History!Paths : p = (IF History!Nested \in History!Outdated(1)
            THEN History!Nested ELSE History!Top)
    BY BothPaths
  <2>2. work' = [work EXCEPT ![p] = History!Absent] /\ UNCHANGED job
    BY <1>5, <2>1 DEF History!RestoreRemove
  <2>3. work' \in [History!Paths -> Bodies \cup {History!Absent, History!Dir}]
        /\ work'[p] = History!Absent
        /\ \A q \in History!Paths : q # p => work'[q] = work[q]
    BY <2>2, <1>3
  <2>4. work' \in History!Trees
    <3>1. CASE p = History!Nested
      BY <3>1, <2>3, BothPaths DEF History!Trees, History!Absent, History!Dir
    <3>2. CASE p = History!Top
      <4>1. History!Nested \notin History!Outdated(1) /\ History!Top \in History!Outdated(1)
        <5>1. History!Nested \notin History!Outdated(1)
          BY <2>1, <3>2, BothPaths
        <5>2. \E q \in History!Paths : q \in History!Outdated(1)
          BY <1>5 DEF History!Outdated
        <5> QED BY <5>1, <5>2, BothPaths
      <4>2. work[History!Nested] = History!Absent \/ work[History!Nested] = t[History!Nested]
        BY <4>1, <1>2, BothPaths DEF History!Outdated
      <4>3. work[History!Top] # t[History!Top]
        BY <4>1, <1>2 DEF History!Outdated
      <4>4. work[History!Nested] = History!Absent
        BY <4>2, <4>3, <1>3
      <4>5. work'[History!Nested] = History!Absent
        BY <4>4, <2>3, <3>2, BothPaths
      <4> QED BY <4>5, <2>3 DEF History!Trees, History!Absent, History!Dir
    <3> QED BY <3>1, <3>2, BothPaths
  <2>5. job' = [job EXCEPT ![1].pc = "remove"]
    BY <2>2, <1>1 DEF HistoryInv, HistoryTypes, HistoryJobs
  <2>6. job' \in [{1} -> HistoryJobs] /\ HistoryJob'
    BY <1>1, <2>5, RestoringStays
  <2> QED BY <1>1, <2>4, <2>6, WorkKeeps
<1> QED BY <1>4, <1>5

LEMMA RestoreWriteKeeps ==
  ASSUME History!SnapshotsAssumption, HistoryInv, History!RestoreWrite(1)
  PROVE  HistoryInv'
<1>1. /\ job[1].pc = "write" /\ job[1].pc \in Restoring
      /\ UNCHANGED <<manifests, indexes, snapHead, stored, blobs, tag, saved, acked, spent>>
  BY DEF History!RestoreWrite, History!At, Restoring
<1>2. PICK t \in History!Trees : t = job[1].tree
  BY DEF HistoryInv, HistoryTypes, HistoryJobs
<1>3. /\ work \in [History!Paths -> Bodies \cup {History!Absent, History!Dir}] /\ t
             \in [History!Paths -> Bodies \cup {History!Absent, History!Dir}]
      /\ work[History!Nested] # History!Dir
            /\ (work[History!Nested] # History!Absent => work[History!Top] = History!Dir)
      /\ t[History!Nested] # History!Dir
            /\ (t[History!Nested] # History!Absent => t[History!Top] = History!Dir)
  BY DEF HistoryInv, HistoryTypes, History!Trees
<1>p. \A p \in History!Paths : work[p] \in {History!Absent, t[p]}
  BY <1>1, <1>2 DEF HistoryInv, HistoryJob, RestoringOK
<1>4. CASE History!Unwritten(1) = {}
  <2>1. job' = [job EXCEPT ![1].pc = "moveHead"] /\ UNCHANGED work
    BY <1>4 DEF History!RestoreWrite, History!Goto
  <2>3. "moveHead" \in Restoring
    BY DEF Restoring
  <2>4. job' \in [{1} -> HistoryJobs] /\ HistoryJob'
    BY <1>1, <2>1, <2>3, RestoringStays
  <2> QED BY <1>1, <2>1, <2>4, WorkKeeps DEF HistoryInv, HistoryTypes
<1>5. CASE History!Unwritten(1) # {}
  <2>1. PICK p \in History!Paths : p = (IF History!Top \in History!Unwritten(1) THEN History!Top
            ELSE History!Nested)
    BY BothPaths
  <2>2. work' = [work EXCEPT ![p] = t[p]] /\ UNCHANGED job
    BY <1>2, <1>5, <2>1 DEF History!RestoreWrite
  <2>3. work' \in [History!Paths -> Bodies \cup {History!Absent, History!Dir}] /\ work'[p] = t[p]
        /\ \A q \in History!Paths : q # p => work'[q] = work[q]
    BY <2>2, <1>3
  <2>4. work' \in History!Trees
    <3>1. CASE p = History!Top
      <4>1. work'[History!Nested] = work[History!Nested]
            /\ work[History!Nested] \in {History!Absent, t[History!Nested]}
        BY <3>1, <2>3, <1>p, BothPaths
      <4> QED BY <4>1, <3>1, <2>3, <1>3 DEF History!Trees
    <3>2. CASE p = History!Nested
      <4>1. work[History!Top] = t[History!Top]
        BY <3>2, <2>1, <1>2, BothPaths DEF History!Unwritten
      <4>2. work'[History!Top] = t[History!Top] /\ work'[History!Nested] = t[History!Nested]
        BY <4>1, <3>2, <2>3, BothPaths
      <4> QED BY <4>2, <2>3, <1>3 DEF History!Trees
    <3> QED BY <3>1, <3>2, BothPaths
  <2>5. job' = [job EXCEPT ![1].pc = "write"]
    BY <2>2, <1>1 DEF HistoryInv, HistoryTypes, HistoryJobs
  <2>6. \A q \in History!Paths : work'[q] \in {History!Absent, job[1].tree[q]}
    BY <2>3, <1>2, <1>p
  <2>7. job' \in [{1} -> HistoryJobs] /\ HistoryJob'
    BY <1>1, <2>5, <2>6, RestoringStays
  <2> QED BY <1>1, <2>4, <2>7, WorkKeeps
<1> QED BY <1>4, <1>5

LEMMA RestoreHeadKeeps ==
  ASSUME History!SnapshotsAssumption, HistoryInv, History!RestoreHead(1)
  PROVE  HistoryInv'
<1>1. /\ job[1].pc \in Restoring /\ snapHead' = job[1].id /\ History!Done(1)
      /\ UNCHANGED <<work, manifests, indexes, stored, blobs, tag, saved, acked, spent>>
  BY DEF History!RestoreHead, History!At, Restoring
<1>2. PICK i : i = job[1].id
  OBVIOUS
<1>3. i \in History!Ids /\ Whole(i) /\ indexes[i] # None
  BY <1>1, <1>2 DEF HistoryInv, HistoryJob, RestoringOK
<1>4. Whole(i)' /\ snapHead' = i /\ indexes'[i] # None
  BY <1>1, <1>2, <1>3, WholeStays
<1>5. HeadWhole'
  BY <1>4 DEF HeadWhole
<1>6. DrawnInOrder' /\ Recorded' /\ Backed'
  <2>1. \A j : Captured(j)' = Captured(j)
    BY <1>1 DEF Captured
  <2> QED BY <2>1, <1>1 DEF HistoryInv, DrawnInOrder, Recorded, Backed, History!Listed
<1>7. job' \in [{1} -> HistoryJobs] /\ HistoryJob'
  BY <1>1, DoneIsOK DEF HistoryInv
<1>8. HistoryTypes'
  <2>1. snapHead' \in 0..MaxTaken
    BY <1>3, <1>4 DEF History!Ids
  <2> QED BY <2>1, <1>1, <1>7 DEF HistoryInv, HistoryTypes
<1>9. tag' # None => tag' \in stored' \cap blobs'
  BY <1>1 DEF HistoryInv
<1> QED BY <1>5, <1>6, <1>7, <1>8, <1>9 DEF HistoryInv

-----------------------------------------------------------------------------
(* The history: commit, gc and the surroundings *)

\* The image of a tree, in the store and among the blobs before its ref.
LEMMA CommitBlobsKeeps ==
  ASSUME History!SnapshotsAssumption, HistoryInv, History!CommitBlobs(1)
  PROVE  HistoryInv'
<1>1. PICK l : l = History!Diff(History!EmptyTree, work)
  OBVIOUS
<1>2. /\ blobs' = blobs \cup {l} /\ stored' = stored \cup {l}
      /\ job' = [job EXCEPT ![1] = [History!Idle EXCEPT !.pc = "ref", !.tree = work]]
      /\ UNCHANGED <<work, manifests, indexes, snapHead, tag, saved, acked>>
  BY <1>1 DEF History!CommitBlobs
<1>3. work \in History!Trees /\ l \in History!Layers
  <2>1. work \in History!Trees
    BY DEF HistoryInv, HistoryTypes
  <2> QED BY <2>1, <1>1, EmptyIsTree, DiffMeans
<1>4. job'[1] = [pc |-> "ref", id |-> 0, base |-> 0, tree |-> work, todo |-> {}]
  BY <1>2 DEF HistoryInv, HistoryTypes, History!Idle
<1>5. job' \in [{1} -> HistoryJobs]
  <2>1. 0 \in 0..MaxTaken
    BY DEF History!SnapshotsAssumption
  <2>2. job'[1] \in HistoryJobs
    BY <1>3, <1>4, <2>1 DEF HistoryJobs
  <2> QED BY <2>2, <1>2, JobSet DEF HistoryInv, HistoryTypes
<1>6. HistoryJob'
  <2>1. job'[1].pc = "ref" /\ job'[1].tree = work
    BY <1>4
  <2>2. CommitOK(job[1])'
    BY <2>1, <1>1, <1>2 DEF CommitOK
  <2> QED BY <2>1, <2>2 DEF HistoryJob, WritingOK, RetiringOK, RestoringOK, SweepOK, Writing,
      Restoring
<1>7. DrawnInOrder' /\ Recorded' /\ HeadWhole'
  BY <1>2, FilesStay DEF HistoryInv
<1>8. HistoryTypes' /\ Backed'
  BY <1>2, <1>3, <1>5 DEF HistoryInv, HistoryTypes, Backed, History!Listed
<1>9. tag' # None => tag' \in stored' \cap blobs'
  BY <1>2 DEF HistoryInv
<1> QED BY <1>6, <1>7, <1>8, <1>9 DEF HistoryInv

LEMMA CommitRefKeeps ==
  ASSUME History!SnapshotsAssumption, HistoryInv, History!CommitRef(1)
  PROVE  HistoryInv'
<1>1. /\ job[1].pc = "ref" /\ History!Done(1) /\ tag' = History!Diff(History!EmptyTree, job[1].tree)
      /\ UNCHANGED <<work, manifests, indexes, snapHead, stored, blobs, saved, acked, spent>>
  BY DEF History!CommitRef, History!At
<1>2. tag' \in stored \cap blobs
  BY <1>1 DEF HistoryInv, HistoryJob, CommitOK
<1>3. DrawnInOrder' /\ Recorded' /\ HeadWhole'
  BY <1>1, FilesStay DEF HistoryInv
<1>4. job' \in [{1} -> HistoryJobs] /\ HistoryJob'
  BY <1>1, DoneIsOK DEF HistoryInv
<1>5. HistoryTypes' /\ Backed'
  BY <1>1, <1>2, <1>4 DEF HistoryInv, HistoryTypes, Backed, History!Listed
<1> QED BY <1>1, <1>2, <1>3, <1>4, <1>5 DEF HistoryInv

\* gc marks what nothing reaches; while it sweeps, nothing else moves.
LEMMA GcMarkKeeps ==
  ASSUME History!SnapshotsAssumption, HistoryInv, History!GcMark(1)
  PROVE  HistoryInv'
<1>1. PICK t : t = ({"twin"} \X (stored \ History!ReachableLayers))
          \cup ({"blob"} \X (blobs \ History!ReachableBlobs))
  OBVIOUS
<1>2. /\ job' = [job EXCEPT ![1] = [History!Idle EXCEPT !.pc = "sweep", !.todo = t]]
      /\ UNCHANGED <<work, manifests, indexes, snapHead, stored, blobs, tag, saved, acked, spent>>
  BY <1>1 DEF History!GcMark
<1>3. /\ t \subseteq {"twin", "blob"} \X History!Layers
      /\ \A l \in History!ReachableLayers : <<"twin", l>> \notin t
      /\ \A l \in History!ReachableBlobs : <<"blob", l>> \notin t
  <2>1. stored \subseteq History!Layers /\ blobs \subseteq History!Layers
    BY DEF HistoryInv, HistoryTypes
  <2> QED BY <1>1, <2>1
<1>4. job'[1] = [pc |-> "sweep", id |-> 0, base |-> 0, tree |-> History!EmptyTree, todo |-> t]
  BY <1>2 DEF HistoryInv, HistoryTypes, History!Idle
<1>5. job' \in [{1} -> HistoryJobs]
  <2>1. 0 \in 0..MaxTaken /\ t \subseteq History!Ids \cup {"twin", "blob"} \X History!Layers
    BY <1>3 DEF History!SnapshotsAssumption
  <2>2. job'[1] \in HistoryJobs
    BY <1>4, <2>1, EmptyIsTree DEF HistoryJobs
  <2> QED BY <2>2, <1>2, JobSet DEF HistoryInv, HistoryTypes
<1>6. HistoryJob'
  <2>1. job'[1].pc = "sweep" /\ job'[1].todo = t
    BY <1>4
  <2>2. History!ReachableLayers' = History!ReachableLayers
        /\ History!ReachableBlobs' = History!ReachableBlobs
    BY <1>2 DEF History!ReachableLayers, History!ReachableBlobs, History!Listed
  <2>3. SweepOK(job[1])'
    BY <2>1, <2>2, <1>3 DEF SweepOK
  <2> QED BY <2>1, <2>3 DEF HistoryJob, WritingOK, RetiringOK, RestoringOK, CommitOK, Writing,
      Restoring
<1> QED BY <1>2, <1>5, <1>6, WorkKeeps DEF HistoryInv, HistoryTypes

LEMMA GcSweepKeeps ==
  ASSUME History!SnapshotsAssumption, HistoryInv, History!GcSweep(1)
  PROVE  HistoryInv'
<1>1. /\ job[1].pc = "sweep"
      /\ UNCHANGED <<work, manifests, indexes, snapHead, tag, saved, acked, spent>>
  BY DEF History!GcSweep, History!At
<1>2. CASE job[1].todo = {}
  <2>1. History!Done(1) /\ UNCHANGED <<stored, blobs>>
    BY <1>2 DEF History!GcSweep
  <2> QED BY <1>1, <2>1, DoneIsOK, WorkKeeps DEF HistoryInv, HistoryTypes
<1>3. CASE job[1].todo # {}
  <2> DEFINE c == CHOOSE c \in job[1].todo : TRUE
  <2>1. /\ job' = [job EXCEPT ![1].todo = @ \ {c}]
        /\ stored' = IF c[1] = "twin" THEN stored \ {c[2]} ELSE stored
        /\ blobs' = IF c[1] = "blob" THEN blobs \ {c[2]} ELSE blobs
    BY <1>3 DEF History!GcSweep
  <2>2. c \in job[1].todo
    BY <1>3
  <2> HIDE DEF c
  <2>3. /\ job[1].todo \subseteq {"twin", "blob"} \X History!Layers
        /\ \A l \in History!ReachableLayers : <<"twin", l>> \notin job[1].todo
        /\ \A l \in History!ReachableBlobs : <<"blob", l>> \notin job[1].todo
    BY <1>1 DEF HistoryInv, HistoryJob, SweepOK
  <2>4. PICK k \in {"twin", "blob"}, l \in History!Layers : c = <<k, l>>
    BY <2>2, <2>3
  <2>5. (k = "twin" => l \notin History!ReachableLayers)
        /\ (k = "blob" => l \notin History!ReachableBlobs)
    BY <2>2, <2>3, <2>4
  <2>6. /\ stored' = IF k = "twin" THEN stored \ {l} ELSE stored
        /\ blobs' = IF k = "blob" THEN blobs \ {l} ELSE blobs
    BY <2>1, <2>4
  <2>7. Backed'
    <3>1. \A i \in History!Listed : manifests[i].layer \in stored
          /\ manifests[i].layer \in History!ReachableLayers
      BY DEF HistoryInv, Backed, History!ReachableLayers
    <3> QED BY <3>1, <2>5, <2>6, <1>1 DEF Backed, History!Listed
  <2>8. tag' # None => tag' \in stored' \cap blobs'
    <3>1. tag # None => tag \in History!ReachableLayers /\ tag \in History!ReachableBlobs
          /\ tag \in stored \cap blobs
      BY DEF HistoryInv, History!ReachableLayers, History!ReachableBlobs
    <3> QED BY <3>1, <2>5, <2>6, <1>1
  <2>9. DrawnInOrder' /\ Recorded' /\ HeadWhole'
    BY <1>1, FilesStay DEF HistoryInv
  <2>10. /\ job'[1].pc = "sweep" /\ job'[1].todo = job[1].todo \ {c}
         /\ job'[1] \in HistoryJobs /\ job' \in [{1} -> HistoryJobs]
    BY <2>1, <1>1 DEF HistoryInv, HistoryTypes, HistoryJobs
  <2>11. HistoryJob'
    <3>1. History!ReachableLayers' = History!ReachableLayers
          /\ History!ReachableBlobs' = History!ReachableBlobs
      BY <1>1 DEF History!ReachableLayers, History!ReachableBlobs, History!Listed
    <3>2. SweepOK(job[1])'
      BY <3>1, <2>3, <2>10 DEF SweepOK
    <3> QED BY <2>10, <3>2 DEF HistoryJob, WritingOK, RetiringOK, RestoringOK, CommitOK,
        Writing, Restoring
  <2>12. HistoryTypes'
    BY <1>1, <2>6, <2>10 DEF HistoryInv, HistoryTypes
  <2> QED BY <2>7, <2>8, <2>9, <2>11, <2>12 DEF HistoryInv
<1> QED BY <1>2, <1>3

LEMMA HistoryEditKeeps ==
  ASSUME History!SnapshotsAssumption, HistoryInv, History!Edit
  PROVE  HistoryInv'
<1>1. /\ job[1].pc = "idle" /\ work' \in History!Trees
      /\ UNCHANGED <<manifests, indexes, snapHead, stored, blobs, tag, job, saved, acked, spent>>
  BY DEF History!Edit, History!At
<1>2. HistoryJob'
  BY <1>1 DEF HistoryJob, WritingOK, RetiringOK, RestoringOK, CommitOK, SweepOK, Writing, Restoring
<1> QED BY <1>1, <1>2, WorkKeeps DEF HistoryInv, HistoryTypes

LEMMA HistoryCrashKeeps ==
  ASSUME History!SnapshotsAssumption, HistoryInv, History!Crash(1)
  PROVE  HistoryInv'
<1>1. History!Done(1)
      /\ UNCHANGED <<work, manifests, indexes, snapHead, stored, blobs, tag, saved, acked>>
  BY DEF History!Crash
<1> QED BY <1>1, DoneIsOK, WorkKeeps DEF HistoryInv, HistoryTypes

LEMMA HistoryNextKeeps ==
  ASSUME History!SnapshotsAssumption, HistoryInv, [History!Next]_(History!vars)
  PROVE  HistoryInv'
<1>1. CASE History!Edit
  BY <1>1, HistoryEditKeeps
<1>2. CASE History!Step(1)
  BY <1>2, CreateKeeps, CompactKeeps, PutLayerKeeps, WriteManifestKeeps, WriteIndexKeeps,
     WriteHeadKeeps,
     RetireKeeps, RestoreKeeps, RestoreRemoveKeeps, RestoreWriteKeeps, RestoreHeadKeeps,
     CommitBlobsKeeps, CommitRefKeeps, GcMarkKeeps, GcSweepKeeps, HistoryCrashKeeps DEF History!Step
<1>3. CASE UNCHANGED History!vars
  <2>1. UNCHANGED <<work, manifests, indexes, snapHead, stored, blobs, tag, job, saved, acked>>
    BY <1>3 DEF History!vars
  <2>2. RestoringOK(job[1])'
    <3>1. RestoringOK(job[1])
      BY DEF HistoryInv, HistoryJob
    <3>2. PICK i : i = job[1].id
      OBVIOUS
    <3>3. i \in History!Ids /\ Whole(i) => Whole(i)'
      BY <2>1, WholeStays
    <3> QED BY <3>1, <3>2, <3>3, <2>1 DEF RestoringOK
  <2>3. HistoryJob'
    <3>1. History!ReachableLayers' = History!ReachableLayers
          /\ History!ReachableBlobs' = History!ReachableBlobs
      BY <2>1 DEF History!ReachableLayers, History!ReachableBlobs, History!Listed
    <3>2. \A i : Captured(i)' = Captured(i)
      BY <2>1 DEF Captured
    <3> QED BY <3>1, <3>2, <2>1, <2>2 DEF HistoryInv, HistoryJob, WritingOK, RetiringOK,
        CommitOK, SweepOK
  <2> QED BY <2>1, <2>3, WorkKeeps DEF HistoryInv, HistoryTypes
<1> QED BY <1>1, <1>2, <1>3 DEF History!Next

\* What the invariant says of the history.
LEMMA HistoryMeans ==
  ASSUME History!SnapshotsAssumption, HistoryInv
  PROVE  History!TypeOK /\ History!HistorySafe
<1>1. History!TypeOK
  BY DEF HistoryInv, HistoryTypes, History!TypeOK
<1>2. Ranked /\ \A i \in History!Ids : Whole(i) => History!Merged(History!ChainLayers(i)) = saved[i]
  BY WholeIsFaithful DEF HistoryInv
<1>3. \A i \in History!Ids : History!Intact(i) <=> Whole(i)
  BY <1>2, IntactIsWhole DEF HistoryInv, History!SnapshotsAssumption
<1>4. History!SnapshotsFaithful
  BY <1>2, <1>3 DEF History!SnapshotsFaithful
<1>5. History!HeadRestorable
  <2> SUFFICES ASSUME snapHead # 0 PROVE History!Restorable(snapHead)
    BY DEF History!HeadRestorable
  <2>1. PICK h : h = snapHead
    OBVIOUS
  <2>2. h \in History!Ids /\ Whole(h) /\ indexes[h] # None
    BY <2>1 DEF HistoryInv, HistoryTypes, HeadWhole, History!Ids
  <2>3. manifests[h] # None
    BY <2>2, <1>2, WholeStep DEF History!SnapshotsAssumption
  <2>4. indexes[h] = saved[h]
    BY <2>2 DEF HistoryInv, Recorded
  <2> QED BY <2>1, <2>2, <2>3, <2>4, <1>2, <1>3 DEF History!Restorable
<1>6. History!NothingReachableSwept
  BY DEF HistoryInv, Backed, History!NothingReachableSwept, History!ReachableLayers,
     History!ReachableBlobs
<1> QED BY <1>1, <1>4, <1>5, <1>6 DEF History!HistorySafe

LEMMA HistoryHolds ==
  ASSUME History!SnapshotsAssumption
  PROVE  History!Spec => [](History!TypeOK /\ History!HistorySafe)
<1>1. History!Init => HistoryInv
  BY HistoryStart
<1>2. HistoryInv /\ [History!Next]_(History!vars) => HistoryInv'
  BY HistoryNextKeeps
<1>3. HistoryInv => History!TypeOK /\ History!HistorySafe
  BY HistoryMeans
<1> QED BY <1>1, <1>2, <1>3, PTL DEF History!Spec

-----------------------------------------------------------------------------
(* Replicas that join their heads: no edit is lost *)

\* The register p is q's equal or newer than q.
AtLeast(p, q) == p.mtime > q.mtime \/ (p.mtime = q.mtime /\ p.actor >= q.actor)

\* An edit that no deletion of its path reaches.
Spared(m, path, edit) ==
    edit # None /\ \A e \in Joins!Digests(m), q \in Actors : m[e].gone[q][path] < edit.mtime

\* A manifest shows what its ancestors show, or something newer.
Monotone(m) ==
    \A d, e \in Joins!Digests(m), path \in Replicated :
        Joins!IsAncestor(m, Joins!Digests(m), d, e) /\ Spared(m, path, m[d].files[path])
          => m[e].files[path] # None /\ AtLeast(m[e].files[path], m[d].files[path])

\* Registers carry the publisher's time or a later one.
Stamped(m, now) ==
    \A d \in Joins!Digests(m), path \in Replicated : m[d].files[path] # None =>
        /\ m[d].files[path].mtime <= now
        /\ m[d].files[path].mtime = 0 => m[d].files[path].actor = Joins!Publisher

NothingGone(m) == \A d \in Joins!Digests(m) : m[d].gone = Joins!NoWhiteouts
AllShown(m) == \A d \in Joins!Digests(m), path \in Replicated : m[d].files[path] # None

-----------------------------------------------------------------------------
(* Replicas that join their heads: the nearest common ancestor *)

\* What a walk from h may meet: digests in the history of h.
Visits(m, h) == [digest : {d \in Joins!Digests(m) : Joins!IsAncestor(m, Joins!Digests(m), d, h)}, depth : Nat]
Walks(m, h) == [queue : Seq(Visits(m, h)), met : Seq(Visits(m, h))]

LEMMA SelfFound == ASSUME NEW m, NEW have, NEW d PROVE Joins!IsAncestor(m, have, d, d)
BY DEF Joins!IsAncestor

LEMMA FoundThrough ==
  ASSUME NEW m, NEW have, NEW a, NEW b \in Joins!Digests(m), NEW c,
         Joins!IsAncestor(m, have, a, b), Joins!IsAncestor(m, have, b, c)
  PROVE  Joins!IsAncestor(m, have, a, c)
<1> SUFFICES ASSUME NEW S \in SUBSET (Joins!Digests(m) \ {a}), c \in S
             PROVE  \E d \in S \cap have : ~Joins!ParentsIn(m, d, S)
  BY DEF Joins!IsAncestor
<1>1. CASE b \in S
  BY <1>1 DEF Joins!IsAncestor
<1>2. CASE b \notin S
  <2>1. S \in SUBSET (Joins!Digests(m) \ {b})
    BY <1>2
  <2> QED BY <2>1 DEF Joins!IsAncestor
<1> QED BY <1>1, <1>2

LEMMA ElementIn == ASSUME NEW S, NEW s \in Seq(S), NEW i \in DOMAIN s PROVE s[i] \in S
OBVIOUS

LEMMA ParentKnown ==
  ASSUME NEW m, WellFormed(m), NEW d \in Joins!Digests(m)
  PROVE  /\ m[d].parents \in Seq(Joins!Digests(m))
         /\ \A i \in DOMAIN m[d].parents : m[d].parents[i] \in Joins!Digests(m)
               /\ m[d].parents[i] < d
<1>1. m[d] \in Joins!ManifestOver(1..(d - 1)) /\ d \in 1..Len(m) /\ Len(m) \in Nat
  BY DEF WellFormed, Joins!Digests
<1>2. m[d].parents \in Seq(1..(d - 1))
  BY <1>1 DEF Joins!ManifestOver
<1>3. 1..(d - 1) \subseteq Joins!Digests(m)
  BY <1>1 DEF Joins!Digests
<1>4. m[d].parents \in Seq(Joins!Digests(m))
  BY <1>2, <1>3, SeqMonotonic
<1>5. \A i \in DOMAIN m[d].parents : m[d].parents[i] \in 1..(d - 1)
  BY <1>2, ElementIn
<1> QED BY <1>1, <1>3, <1>4, <1>5

\* A turn of the walk meets only what is in the history of h.
LEMMA WalkStays ==
  ASSUME NEW m, WellFormed(m), NEW h \in Joins!Digests(m), NEW w \in Walks(m, h)
  PROVE  Joins!Walk(m, Joins!Digests(m), w) \in Walks(m, h)
<1>1. w.queue \in Seq(Visits(m, h)) /\ w.met \in Seq(Visits(m, h))
  BY DEF Walks
<1>2. CASE w.queue = <<>>
  BY <1>2 DEF Joins!Walk
<1>3. CASE w.queue # <<>>
  <2>1. PICK next, rest : next = Head(w.queue) /\ rest = Tail(w.queue)
    OBVIOUS
  <2>2. next \in Visits(m, h) /\ rest \in Seq(Visits(m, h))
    <3> HIDE DEF Visits
    <3> QED BY <1>1, <1>3, <2>1, HeadTailProperties
  <2>3. next.digest \in Joins!Digests(m)
        /\ Joins!IsAncestor(m, Joins!Digests(m), next.digest, h) /\ next.depth \in Nat
    BY <2>2 DEF Visits
  <2> DEFINE parents == m[next.digest].parents
             more == [i \in DOMAIN parents |-> [digest |-> parents[i], depth |-> next.depth + 1]]
  <2>4. more \in Seq(Visits(m, h))
    <3>1. parents \in Seq(Joins!Digests(m))
      BY <2>3, ParentKnown
    <3>2. \A i \in DOMAIN parents : parents[i] \in Joins!Digests(m)
          /\ Joins!IsAncestor(m, Joins!Digests(m), parents[i], h)
      <4> TAKE i \in DOMAIN parents
      <4>1. parents[i] \in Joins!Digests(m)
        BY <2>3, ParentKnown
      <4>2. Joins!IsAncestor(m, Joins!Digests(m), parents[i], next.digest)
        BY <2>3, ParentFound
      <4> QED BY <2>3, <4>1, <4>2, FoundThrough
    <3>3. \A i \in DOMAIN parents : more[i] \in Visits(m, h)
      BY <3>2, <2>3 DEF Visits
    <3>4. DOMAIN parents = 1..Len(parents) /\ Len(parents) \in Nat
      BY <3>1
    <3> HIDE DEF parents
    <3>5. more = [i \in 1..Len(parents) |-> more[i]]
      BY <3>4
    <3> HIDE DEF more
    <3> QED BY <3>3, <3>4, <3>5, IsASeq
  <2>5. Joins!Meet(m, Joins!Digests(m), next, rest, w.met) \in Walks(m, h)
    <3>1. rest \o more \in Seq(Visits(m, h)) /\ Append(w.met, next) \in Seq(Visits(m, h))
      <4> HIDE DEF more, Visits
      <4> QED BY <1>1, <2>2, <2>4, ConcatProperties, AppendProperties
    <3>2. Joins!Meet(m, Joins!Digests(m), next, rest, w.met) \in
            {[queue |-> rest, met |-> w.met], [met |-> Append(w.met, next), queue |-> rest \o more]}
      BY <2>3 DEF Joins!Meet
    <3> HIDE DEF more, Visits
    <3>3. \A x, y \in Seq(Visits(m, h)) : [queue |-> x, met |-> y] \in Walks(m, h)
      BY DEF Walks
    <3>4. [met |-> Append(w.met, next), queue |-> rest \o more] = [queue |-> rest \o more, met |-> Append(w.met, next)]
      OBVIOUS
    <3> QED BY <1>1, <2>2, <3>1, <3>2, <3>3, <3>4
  <2> QED BY <1>3, <2>1, <2>5 DEF Joins!Walk
<1> QED BY <1>2, <1>3

FirstTurn(h) == [queue |-> <<[digest |-> h, depth |-> 0]>>, met |-> <<>>]
IsWalk(f, m, h, n) ==
    f = [k \in 0..n |-> IF k = 0 THEN FirstTurn(h) ELSE Joins!Walk(m, Joins!Digests(m), f[k - 1])]

LEMMA WalkExists ==
  ASSUME NEW m, NEW h, NEW last \in Nat
  PROVE  \E f : IsWalk(f, m, h, last)
<1> DEFINE Bad == {n \in 0..last : ~\E f : IsWalk(f, m, h, n)}
<1>1. SUFFICES ASSUME Bad # {} PROVE FALSE
  OBVIOUS
<1>2. PICK n \in Bad : \A k \in Bad : n <= k
  <2>1. Bad \in SUBSET Nat
    OBVIOUS
  <2> HIDE DEF Bad
  <2> QED BY <1>1, <2>1, Least
<1>3. n \in 0..last /\ n \in Nat
  OBVIOUS
<1>4. CASE n = 0
  <2> DEFINE f == [i \in 0..0 |-> FirstTurn(h)]
  <2>1. IsWalk(f, m, h, 0)
    BY DEF IsWalk
  <2> QED BY <2>1, <1>4
<1>5. CASE n # 0
  <2>1. n - 1 \in 0..last /\ n - 1 \notin Bad
    <3> HIDE DEF Bad
    <3> QED BY <1>2, <1>3, <1>5
  <2>2. PICK f : IsWalk(f, m, h, n - 1)
    BY <2>1
  <2> DEFINE g == [k \in 0..n |-> IF k < n THEN f[k] ELSE Joins!Walk(m, Joins!Digests(m), f[n - 1])]
  <2>3. \A k \in 0..n : k # 0 => k - 1 \in 0..(n - 1) /\ g[k - 1] = f[k - 1]
    BY <1>3
  <2>4. \A k \in 0..n : g[k] = IF k = 0 THEN FirstTurn(h) ELSE Joins!Walk(m, Joins!Digests(m), f[k - 1])
    <3> SUFFICES ASSUME NEW k \in 0..n
        PROVE g[k] = IF k = 0 THEN FirstTurn(h) ELSE Joins!Walk(m, Joins!Digests(m), f[k - 1])
      OBVIOUS
    <3>1. CASE k = n
      BY <3>1, <1>3, <1>5
    <3>2. CASE k # n
      <4>1. k \in 0..(n - 1) /\ k < n
        BY <3>2, <1>3
      <4> QED BY <4>1, <2>2 DEF IsWalk
    <3> QED BY <3>1, <3>2
  <2>5. g = [k \in 0..n |-> g[k]]
    OBVIOUS
  <2> HIDE DEF g
  <2>6. IsWalk(g, m, h, n)
    BY <2>3, <2>4, <2>5 DEF IsWalk
  <2> QED BY <2>6, <1>2
<1> QED BY <1>4, <1>5

LEMMA ReachIsHistory ==
  ASSUME NEW m, WellFormed(m), NEW h \in Joins!Digests(m)
  PROVE  Joins!Reach(m, Joins!Digests(m), h) \in Seq(Visits(m, h))
<1> DEFINE last == 2 * Len(m) + 1
           turn == CHOOSE f : IsWalk(f, m, h, last)
<1>1. last \in Nat
  BY DEF WellFormed
<1>2. Joins!Reach(m, Joins!Digests(m), h) = turn[last].met
  BY DEF Joins!Reach, IsWalk, FirstTurn
<1>3. IsWalk(turn, m, h, last)
  <2> HIDE DEF last
  <2> QED BY <1>1, WalkExists
<1> HIDE DEF last, turn
<1>4. turn[0] = FirstTurn(h)
      /\ \A k \in 1..last : turn[k] = Joins!Walk(m, Joins!Digests(m), turn[k - 1])
  <2>1. turn[0] = FirstTurn(h)
    BY <1>1, <1>3 DEF IsWalk
  <2>2. ASSUME NEW k \in 1..last PROVE turn[k] = Joins!Walk(m, Joins!Digests(m), turn[k - 1])
    <3>1. k \in 0..last /\ k # 0
      BY <1>1
    <3> QED BY <1>3, <3>1 DEF IsWalk
  <2> QED BY <2>1, <2>2
<1>5. FirstTurn(h) \in Walks(m, h)
  <2>1. [digest |-> h, depth |-> 0] \in Visits(m, h)
    BY SelfFound DEF Visits
  <2> HIDE DEF Visits
  <2> QED BY <2>1 DEF FirstTurn, Walks
<1>6. \A k \in 0..last : turn[k] \in Walks(m, h)
  <2> DEFINE Bad == {k \in 0..last : turn[k] \notin Walks(m, h)}
  <2>1. SUFFICES ASSUME Bad # {} PROVE FALSE
    OBVIOUS
  <2>2. PICK n \in Bad : \A k \in Bad : n <= k
    <3>1. Bad \in SUBSET Nat
      BY <1>1
    <3> HIDE DEF Bad
    <3> QED BY <2>1, <3>1, Least
  <2>3. n \in 1..last /\ n - 1 \in 0..last /\ n - 1 \notin Bad
    <3>1. n \in 0..last /\ n # 0
      BY <1>4, <1>5
    <3> HIDE DEF Bad
    <3> QED BY <3>1, <1>1, <2>2
  <2>4. turn[n - 1] \in Walks(m, h)
    BY <2>3
  <2>5. turn[n] \in Walks(m, h)
    BY <2>3, <2>4, <1>4, WalkStays
  <2> QED BY <2>5
<1>7. turn[last] \in Walks(m, h)
  BY <1>1, <1>6
<1> QED BY <1>2, <1>7 DEF Walks

\* commonAncestor gives a manifest in the history of both heads, or none.
LEMMA CommonIsShared ==
  ASSUME NEW m, WellFormed(m), NEW a \in Joins!Digests(m), NEW b \in Joins!Digests(m)
  PROVE  LET base == Joins!CommonAncestor(m, Joins!Digests(m), a, b)
         IN  base = None \/ /\ base \in Joins!Digests(m)
                            /\ Joins!IsAncestor(m, Joins!Digests(m), base, a)
                                  /\ Joins!IsAncestor(m, Joins!Digests(m), base, b)
<1> DEFINE fromA == Joins!Reach(m, Joins!Digests(m), a)
           fromB == Joins!Reach(m, Joins!Digests(m), b)
           shared == Joins!Shared(fromA, fromB)
           worst == [p \in shared |-> Joins!Larger(fromA[p[1]].depth, fromB[p[2]].depth)]
           First(p) == \A q \in shared : worst[p] < worst[q]
               \/ (worst[p] = worst[q] /\ p[1] <= q[1])
<1>1. fromA \in Seq(Visits(m, a)) /\ fromB \in Seq(Visits(m, b))
  BY ReachIsHistory
<1>2. Joins!CommonAncestor(m, Joins!Digests(m), a, b) =
        IF shared = {} THEN None ELSE fromA[(CHOOSE p \in shared : First(p))[1]].digest
  BY DEF Joins!CommonAncestor, Joins!NearestOf, Joins!NearestShared, Joins!Nearest
<1> HIDE DEF fromA, fromB
<1>3. SUFFICES ASSUME shared # {} PROVE
        LET base == fromA[(CHOOSE p \in shared : First(p))[1]].digest
        IN  /\ base \in Joins!Digests(m)
            /\ Joins!IsAncestor(m, Joins!Digests(m), base, a)
                  /\ Joins!IsAncestor(m, Joins!Digests(m), base, b)
  BY <1>2
<1>4. ASSUME NEW p \in shared
      PROVE  /\ p[1] \in Nat /\ worst[p] \in Nat
             /\ fromA[p[1]].digest \in Joins!Digests(m)
             /\ Joins!IsAncestor(m, Joins!Digests(m), fromA[p[1]].digest, a)
             /\ Joins!IsAncestor(m, Joins!Digests(m), fromA[p[1]].digest, b)
  <2>1. p[1] \in DOMAIN fromA /\ p[2] \in DOMAIN fromB /\ fromA[p[1]].digest = fromB[p[2]].digest
    BY DEF Joins!Shared
  <2>2. fromA[p[1]] \in Visits(m, a) /\ fromB[p[2]] \in Visits(m, b)
    BY <1>1, <2>1, ElementIn
  <2>3. /\ fromA[p[1]].digest \in Joins!Digests(m) /\ Joins!IsAncestor(m, Joins!Digests(m), fromA[p[1]].digest, a)
        /\ Joins!IsAncestor(m, Joins!Digests(m), fromB[p[2]].digest, b)
        /\ fromA[p[1]].depth \in Nat /\ fromB[p[2]].depth \in Nat
    BY <2>2 DEF Visits
  <2>4. p[1] \in Nat
    <3>1. DOMAIN fromA = 1..Len(fromA) /\ Len(fromA) \in Nat
      BY <1>1
    <3> QED BY <2>1, <3>1
  <2>5. worst[p] \in Nat
    BY <2>3 DEF Joins!Larger
  <2> QED BY <2>1, <2>3, <2>4, <2>5
<1> HIDE DEF shared, worst
<1>5. \E p \in shared : First(p)
  <2> DEFINE W == {worst[p] : p \in shared}
  <2>1. PICK x \in W : \A y \in W : x <= y
    <3>1. W \in SUBSET Nat /\ W # {}
      BY <1>3, <1>4
    <3> HIDE DEF W
    <3> QED BY <3>1, Least
  <2> DEFINE P == {p[1] : p \in {r \in shared : worst[r] = x}}
  <2>2. PICK i \in P : \A j \in P : i <= j
    <3>1. P \in SUBSET Nat /\ P # {}
      BY <1>4
    <3> HIDE DEF P, W
    <3> QED BY <3>1, Least
  <2>3. PICK p \in shared : worst[p] = x /\ p[1] = i
    OBVIOUS
  <2>4. ASSUME NEW q \in shared PROVE worst[p] < worst[q] \/ (worst[p] = worst[q] /\ p[1] <= q[1])
    <3>1. x <= worst[q] /\ x \in Nat /\ worst[q] \in Nat
      BY <2>1, <2>3, <1>4
    <3>2. CASE worst[q] = x
      <4>1. q[1] \in P
        BY <3>2
      <4> HIDE DEF P
      <4> QED BY <4>1, <2>2, <2>3, <3>2
    <3>3. CASE worst[q] # x
      BY <3>1, <3>3, <2>3
    <3> QED BY <3>2, <3>3
  <2> QED BY <2>4
<1>6. PICK p : p = CHOOSE r \in shared : First(r)
  OBVIOUS
<1>7. p \in shared
  <2> HIDE DEF First
  <2> QED BY <1>5, <1>6
<1> HIDE DEF First
<1> QED BY <1>4, <1>6, <1>7

EditsOK(m, now) ==
    Monotone(m) /\ Stamped(m, now) /\ (NothingGone(m) => AllShown(m))

\* Registers are compared by numbers.
LEMMA RegisterNumbers ==
  ASSUME Joins!ReplicasAssumption, NEW r \in Joins!Register
  PROVE  r.mtime \in Nat /\ r.actor \in Nat /\ r # None /\ AtLeast(r, r)
         /\ r = [mtime |-> r.mtime, actor |-> r.actor]
<1>1. r.mtime \in Nat /\ r.actor \in Nat /\ r # None /\ r = [mtime |-> r.mtime, actor |-> r.actor]
  <2>1. r.mtime \in Nat /\ r.actor \in Actors \cup {0}
    BY DEF Joins!Register, Joins!Publisher
  <2>2. r.actor \in Nat
    <3>1. \A q \in Actors : q \in Nat
      BY DEF Joins!ReplicasAssumption
    <3>2. r.actor \in Actors \/ r.actor = 0
      BY <2>1
    <3> QED BY <3>1, <3>2
  <2>3. r = [mtime |-> r.mtime, actor |-> r.actor]
    BY DEF Joins!Register
  <2> QED BY <2>1, <2>2, <2>3 DEF Joins!ReplicasAssumption
<1> QED BY <1>1 DEF AtLeast

LEMMA AtLeastThrough ==
  ASSUME Joins!ReplicasAssumption, NEW p \in Joins!Register, NEW q \in Joins!Register,
         NEW r \in Joins!Register,
         AtLeast(p, q), AtLeast(q, r)
  PROVE  AtLeast(p, r)
BY RegisterNumbers DEF AtLeast

LEMMA NewerIsAtLeast ==
  ASSUME Joins!ReplicasAssumption, NEW p \in Joins!Register, NEW q \in Joins!Register
  PROVE  /\ Joins!NewerOf(p, q) \in {p, q} /\ Joins!NewerOf(p, q) \in Joins!Register
         /\ AtLeast(Joins!NewerOf(p, q), p) /\ AtLeast(Joins!NewerOf(p, q), q)
         /\ Joins!NewerOf(p, q) = p <=> AtLeast(p, q)
         /\ Joins!NewerOf(p, q) = q <=> AtLeast(q, p)
<1>1. /\ p.mtime \in Nat /\ p.actor \in Nat /\ q.mtime \in Nat /\ q.actor \in Nat
      /\ p = [mtime |-> p.mtime, actor |-> p.actor] /\ q = [mtime |-> q.mtime, actor |-> q.actor]
  BY RegisterNumbers
<1>2. AtLeast(p, q) /\ AtLeast(q, p) => p = q
  BY <1>1 DEF AtLeast
<1>3. AtLeast(p, q) \/ AtLeast(q, p)
  BY <1>1 DEF AtLeast
<1>4. Joins!NewerOf(p, q) = IF AtLeast(p, q) THEN p ELSE q
  BY DEF Joins!NewerOf, AtLeast
<1>5. AtLeast(p, p) /\ AtLeast(q, q)
  BY RegisterNumbers
<1> QED BY <1>2, <1>3, <1>4, <1>5

LEMMA FileOrNone ==
  ASSUME NEW m, WellFormed(m), NEW d \in Joins!Digests(m), NEW path \in Replicated
  PROVE  m[d].files[path] \in Joins!Register \cup {None}
<1>1. m[d] \in Joins!ManifestOver(1..(d - 1))
  BY DEF WellFormed
<1> QED BY <1>1 DEF Joins!ManifestOver

LEMMA StampIsNumber ==
  ASSUME NEW m, WellFormed(m), NEW d \in Joins!Digests(m), NEW q \in Actors, NEW path \in Replicated
  PROVE  m[d].gone[q][path] \in Nat
<1>1. m[d] \in Joins!ManifestOver(1..(d - 1))
  BY DEF WellFormed
<1> QED BY <1>1 DEF Joins!ManifestOver

\* Manifests are never in the history of older ones.
LEMMA OlderUnfound ==
  ASSUME NEW m, WellFormed(m), NEW more, Extends(more, m), WellFormed(more),
         NEW e \in Joins!Digests(m), NEW d \in Joins!Digests(more),
             Joins!IsAncestor(more, Joins!Digests(more), d, e)
  PROVE  d \in Joins!Digests(m) /\ Joins!IsAncestor(m, Joins!Digests(m), d, e)
<1>1. Joins!Digests(m) \subseteq Joins!Digests(more) /\ \A x \in Joins!Digests(m) : more[x] = m[x]
  BY DEF Extends, Joins!Digests, WellFormed
<1>2. d \in Joins!Digests(m)
  <2> SUFFICES ASSUME d \notin Joins!Digests(m) PROVE FALSE
    OBVIOUS
  <2>1. Joins!Digests(m) \in SUBSET (Joins!Digests(more) \ {d})
    BY <1>1
  <2>2. PICK x \in Joins!Digests(m) : ~Joins!ParentsIn(more, x, Joins!Digests(m))
    BY <2>1 DEF Joins!IsAncestor
  <2> QED BY <2>2, <1>1, ParentKnown DEF Joins!ParentsIn
<1>3. Joins!IsAncestor(m, Joins!Digests(m), d, e)
  <2> SUFFICES ASSUME NEW S \in SUBSET (Joins!Digests(m) \ {d}), e \in S
               PROVE  \E x \in S \cap Joins!Digests(m) : ~Joins!ParentsIn(m, x, S)
    BY DEF Joins!IsAncestor
  <2>1. S \in SUBSET (Joins!Digests(more) \ {d})
    BY <1>1
  <2>2. PICK x \in S \cap Joins!Digests(more) : ~Joins!ParentsIn(more, x, S)
    BY <2>1 DEF Joins!IsAncestor
  <2>3. x \in S \cap Joins!Digests(m) /\ more[x] = m[x]
    BY <2>2, <1>1
  <2> QED BY <2>2, <2>3 DEF Joins!ParentsIn
<1> QED BY <1>2, <1>3

\* What is in the history of h is h itself or in the history of a parent.
LEMMA FoundByParent ==
  ASSUME NEW m, WellFormed(m), NEW d \in Joins!Digests(m), NEW h \in Joins!Digests(m),
         Joins!IsAncestor(m, Joins!Digests(m), d, h), d # h
  PROVE  \E i \in DOMAIN m[h].parents : Joins!IsAncestor(m, Joins!Digests(m), d, m[h].parents[i])
<1> SUFFICES ASSUME \A i \in DOMAIN m[h].parents : ~Joins!IsAncestor(m, Joins!Digests(m), d, m[h].parents[i])
             PROVE  FALSE
  OBVIOUS
<1> DEFINE Far == {x \in Joins!Digests(m) : ~Joins!IsAncestor(m, Joins!Digests(m), d, x)}
           S == Far \cup {h}
<1>1. d \notin S
  BY SelfFound
<1>2. ASSUME NEW x \in S PROVE Joins!ParentsIn(m, x, S)
  <2>1. CASE x = h
    BY <2>1, ParentKnown DEF Joins!ParentsIn
  <2>2. CASE x \in Far
    <3> SUFFICES ASSUME NEW i \in DOMAIN m[x].parents PROVE m[x].parents[i] \in Far
      BY DEF Joins!ParentsIn
    <3>1. m[x].parents[i] \in Joins!Digests(m)
          /\ Joins!IsAncestor(m, Joins!Digests(m), m[x].parents[i], x)
      BY <2>2, ParentKnown, ParentFound
    <3> QED BY <2>2, <3>1, FoundThrough
  <2> QED BY <2>1, <2>2
<1>3. S \in SUBSET (Joins!Digests(m) \ {d}) /\ h \in S
  BY <1>1
<1> HIDE DEF S
<1> QED BY <1>2, <1>3 DEF Joins!IsAncestor

\* A new manifest keeps what is known of the edits, if it shows what its
\* parents show that its own whiteouts spare, or something newer.
LEMMA PutEdits ==
  ASSUME Joins!ReplicasAssumption, NEW m, WellFormed(m),
         NEW new \in Joins!ManifestOver(Joins!Digests(m)),
         NEW now \in Nat, NEW later \in Nat, now <= later, EditsOK(m, now),
         \A path \in Replicated : new.files[path] # None =>
            /\ new.files[path].mtime <= later
            /\ new.files[path].mtime = 0 => new.files[path].actor = Joins!Publisher,
         NothingGone(m) /\ new.gone = Joins!NoWhiteouts
             => \A path \in Replicated : new.files[path] # None,
         \A d \in Joins!Digests(m), path \in Replicated, i \in DOMAIN new.parents :
            /\ Joins!IsAncestor(m, Joins!Digests(m), d, new.parents[i])
            /\ Spared(m, path, m[d].files[path])
            /\ \A q \in Actors : new.gone[q][path] < m[d].files[path].mtime
            => new.files[path] # None /\ AtLeast(new.files[path], m[d].files[path])
  PROVE  EditsOK(Joins!Put(m, new), later)
<1>1. CASE \E d \in Joins!Digests(m) : m[d] = new
  <2>1. Joins!Put(m, new) = m
    BY <1>1 DEF Joins!Put
  <2>2. Stamped(m, later)
    <3> SUFFICES ASSUME NEW d \in Joins!Digests(m), NEW path \in Replicated, m[d].files[path] # None
                 PROVE  /\ m[d].files[path].mtime <= later
                        /\ m[d].files[path].mtime = 0 => m[d].files[path].actor = Joins!Publisher
      BY DEF Stamped
    <3>1. m[d].files[path] \in Joins!Register
      BY FileOrNone
    <3>2. m[d].files[path].mtime \in Nat
      BY <3>1, RegisterNumbers
    <3> QED BY <3>2 DEF EditsOK, Stamped
  <2> QED BY <2>1, <2>2 DEF EditsOK
<1>2. CASE ~\E d \in Joins!Digests(m) : m[d] = new
  <2> DEFINE more == Joins!Put(m, new)
             n == Len(m) + 1
  <2>1. more = Append(m, new)
    BY <1>2 DEF Joins!Put
  <2>2. WellFormed(more) /\ Extends(more, m)
    BY PutManifest
  <2>3. Len(m) \in Nat /\ new \in Joins!ManifestOver(Nat)
    BY ManifestWiden DEF WellFormed, Joins!Digests
  <2>4. /\ Joins!Digests(more) = Joins!Digests(m) \cup {n} /\ n \in Joins!Digests(more) /\ more[n] = new
        /\ \A d \in Joins!Digests(m) : more[d] = m[d] /\ d # n
    BY <2>1, <2>3 DEF WellFormed, Joins!Digests
  <2> HIDE DEF more, n
  <2>5. Stamped(more, later)
    <3> SUFFICES ASSUME NEW d \in Joins!Digests(more), NEW path \in Replicated,
        more[d].files[path] # None
                 PROVE  /\ more[d].files[path].mtime <= later
                        /\ more[d].files[path].mtime = 0
                              => more[d].files[path].actor = Joins!Publisher
      BY DEF Stamped
    <3>1. CASE d \in Joins!Digests(m)
      <4>1. m[d].files[path] \in Joins!Register /\ more[d] = m[d]
        BY <2>4, <3>1, FileOrNone
      <4>2. m[d].files[path].mtime \in Nat
        BY <4>1, RegisterNumbers
      <4> QED BY <3>1, <4>1, <4>2 DEF EditsOK, Stamped
    <3>2. CASE d = n
      BY <2>4, <3>2
    <3> QED BY <2>4, <3>1, <3>2
  <2>6. NothingGone(more) => AllShown(more)
    <3> SUFFICES ASSUME NothingGone(more), NEW d \in Joins!Digests(more), NEW path \in Replicated
                 PROVE  more[d].files[path] # None
      BY DEF AllShown
    <3>1. NothingGone(m) /\ new.gone = Joins!NoWhiteouts
      BY <2>4 DEF NothingGone
    <3> QED BY <2>4, <3>1 DEF EditsOK, AllShown
  <2>7. Monotone(more)
    <3> SUFFICES ASSUME NEW d \in Joins!Digests(more), NEW e \in Joins!Digests(more),
        NEW path \in Replicated,
                        Joins!IsAncestor(more, Joins!Digests(more), d, e),
                        Spared(more, path, more[d].files[path])
                 PROVE  more[e].files[path] # None
                        /\ AtLeast(more[e].files[path], more[d].files[path])
      BY DEF Monotone
    <3>1. CASE e \in Joins!Digests(m)
      <4>1. d \in Joins!Digests(m) /\ Joins!IsAncestor(m, Joins!Digests(m), d, e)
        BY <2>2, <3>1, OlderUnfound
      <4>2. Spared(m, path, m[d].files[path])
        BY <2>4, <4>1 DEF Spared
      <4> QED BY <2>4, <3>1, <4>1, <4>2 DEF EditsOK, Monotone
    <3>2. CASE e = n /\ d = n
      <4>1. more[n].files[path] \in Joins!Register
        BY <2>2, <2>4, <3>2, FileOrNone DEF Spared
      <4> QED BY <3>2, <4>1, RegisterNumbers
    <3>3. CASE e = n /\ d \in Joins!Digests(m)
      <4>1. PICK i \in DOMAIN new.parents : Joins!IsAncestor(more, Joins!Digests(more), d, new.parents[i])
        BY <2>2, <2>4, <3>3, FoundByParent
      <4>2. new.parents[i] \in Joins!Digests(m)
        <5>1. new.parents \in Seq(Joins!Digests(m))
          BY DEF Joins!ManifestOver
        <5> QED BY <5>1, ElementIn
      <4>3. Joins!IsAncestor(m, Joins!Digests(m), d, new.parents[i])
        BY <2>2, <4>1, <4>2, OlderUnfound
      <4>4. Spared(m, path, m[d].files[path])
            /\ \A q \in Actors : new.gone[q][path] < m[d].files[path].mtime
        BY <2>4, <3>3 DEF Spared
      <4> QED BY <2>4, <3>3, <4>3, <4>4
    <3> QED BY <2>4, <3>1, <3>2, <3>3
  <2> QED BY <2>5, <2>6, <2>7 DEF EditsOK, more
<1> QED BY <1>1, <1>2

\* The join of two heads keeps what is known of the edits.
LEMMA JoinedEdits ==
  ASSUME Joins!ReplicasAssumption, NEW m, WellFormed(m), NEW now \in Nat, EditsOK(m, now),
         NEW a \in Joins!Digests(m), NEW b \in Joins!Digests(m),
         NEW base, base = None \/ /\ base \in Joins!Digests(m)
                                  /\ Joins!IsAncestor(m, Joins!Digests(m), base, a)
                                  /\ Joins!IsAncestor(m, Joins!Digests(m), base, b)
  PROVE  LET joined == Joins!JoinOver(m, a, b, base)
         IN  /\ joined \in Joins!ManifestOver(Joins!Digests(m)) /\ joined.gone = Joins!NoWhiteouts
             /\ \A path \in Replicated :
                  m[a].files[path] # None /\ m[b].files[path] # None
                    => joined.files[path] = Joins!NewerOf(m[a].files[path], m[b].files[path])
             /\ EditsOK(Joins!Put(m, joined), now)
<1> DEFINE old == IF base = None THEN None ELSE m[base]
           parents == IF a < b THEN <<a, b>> ELSE <<b, a>>
           picked == [path \in Replicated |-> Joins!JoinPath(m[a], m[b], old, path)]
           joined == [by |-> Joins!MergeActor, parents |-> parents, files |-> picked, gone |-> Joins!NoWhiteouts]
<1>1. Joins!JoinOver(m, a, b, base) = joined
  BY DEF Joins!JoinOver, Joins!Join
<1>2. joined \in Joins!ManifestOver(Joins!Digests(m))
  <2>1. m[a] \in Joins!ManifestOver(1..(a - 1)) /\ m[b] \in Joins!ManifestOver(1..(b - 1))
    BY DEF WellFormed
  <2>2. picked \in [Replicated -> Joins!Register \cup {None}]
    BY <2>1, JoinedFile
  <2>3. parents \in Seq(Joins!Digests(m))
    OBVIOUS
  <2>4. Joins!NoWhiteouts \in [Actors -> [Replicated -> Nat]]
    BY DEF Joins!NoWhiteouts
  <2> HIDE DEF parents, picked
  <2> QED BY <2>2, <2>3, <2>4 DEF Joins!ManifestOver
<1>3. \A i \in DOMAIN parents : parents[i] \in {a, b}
  OBVIOUS
<1>4. \A path \in Replicated : picked[path] = Joins!JoinPath(m[a], m[b], old, path)
  OBVIOUS
<1> HIDE DEF picked, parents
<1>5. /\ joined.parents = parents /\ joined.files = picked /\ joined.gone = Joins!NoWhiteouts
  OBVIOUS
<1> HIDE DEF joined
<1>6. ASSUME NEW path \in Replicated
      PROVE  /\ picked[path] \in {m[a].files[path], m[b].files[path], None}
             /\ m[a].files[path] # None /\ m[b].files[path] # None
                  => picked[path] = Joins!NewerOf(m[a].files[path], m[b].files[path])
             /\ m[a].files[path] # None /\ m[b].files[path] = None
                  => picked[path] = Joins!Winner(m[a], m[b], old, path)
             /\ m[b].files[path] # None /\ m[a].files[path] = None
                  => picked[path] = Joins!Winner(m[b], m[a], old, path)
  BY <1>4 DEF Joins!JoinPath, Joins!NewerOf, Joins!Winner
<1>7. ASSUME NEW path \in Replicated, picked[path] # None
      PROVE  picked[path].mtime <= now
          /\ (picked[path].mtime = 0 => picked[path].actor = Joins!Publisher)
  BY <1>6, <1>7 DEF EditsOK, Stamped
<1>8. ASSUME NothingGone(m), NEW path \in Replicated PROVE picked[path] # None
  <2>1. m[a].files[path] # None /\ m[b].files[path] # None
    BY <1>8 DEF EditsOK, AllShown
  <2> QED BY <1>6, <2>1 DEF Joins!NewerOf
<1>9. ASSUME NEW x \in {a, b}, NEW y \in {a, b}, y # x \/ a = b, NEW d \in Joins!Digests(m),
      NEW path \in Replicated,
             Joins!IsAncestor(m, Joins!Digests(m), d, x), Spared(m, path, m[d].files[path])
      PROVE  picked[path] # None /\ AtLeast(picked[path], m[d].files[path])
  <2>1. m[x].files[path] # None /\ AtLeast(m[x].files[path], m[d].files[path])
    BY <1>9 DEF EditsOK, Monotone
  <2>2. m[x].files[path] \in Joins!Register /\ m[d].files[path] \in Joins!Register
        /\ m[d].files[path] # None
    BY <1>9, <2>1, FileOrNone DEF Spared
  <2>3. CASE m[y].files[path] # None
    <3>1. m[y].files[path] \in Joins!Register
      BY <2>3, FileOrNone
    <3>2. picked[path] \in {Joins!NewerOf(m[x].files[path], m[y].files[path]), Joins!NewerOf(m[y].files[path], m[x].files[path])}
      BY <1>6, <1>9, <2>1, <2>3
    <3>3. picked[path] \in Joins!Register /\ AtLeast(picked[path], m[x].files[path])
      BY <2>2, <3>1, <3>2, NewerIsAtLeast
    <3> QED BY <2>1, <2>2, <3>3, RegisterNumbers, AtLeastThrough
  <2>4. CASE m[y].files[path] = None
    <3>1. picked[path] = Joins!Winner(m[x], m[y], old, path)
      BY <1>6, <1>9, <2>1, <2>4
    <3> DEFINE was == IF old = None THEN None ELSE old.files[path]
    <3>2. was # None => base # None /\ was = m[base].files[path]
      OBVIOUS
    <3>3. ~\E stamp \in Joins!DeletionStamp(m[y], path) : stamp >= m[x].files[path].mtime
      <4> SUFFICES ASSUME NEW q \in Actors, m[y].gone[q][path] >= m[x].files[path].mtime PROVE FALSE
        BY DEF Joins!DeletionStamp
      <4>1. m[y].gone[q][path] < m[d].files[path].mtime
        BY <1>9 DEF Spared
      <4>2. m[y].gone[q][path] \in Nat
        BY StampIsNumber
      <4> QED BY <2>1, <2>2, <4>1, <4>2, RegisterNumbers DEF AtLeast
    <3>4. ~(was # None /\ m[x].files[path] = was)
      <4> SUFFICES ASSUME was # None, m[x].files[path] = was PROVE FALSE
        OBVIOUS
      <4>1. base \in Joins!Digests(m) /\ Joins!IsAncestor(m, Joins!Digests(m), base, y)
            /\ m[base].files[path] = m[x].files[path]
        BY <3>2
      <4>2. Spared(m, path, m[base].files[path])
        <5> SUFFICES ASSUME NEW e \in Joins!Digests(m), NEW q \in Actors
                     PROVE  m[e].gone[q][path] < m[x].files[path].mtime
          BY <2>1, <4>1 DEF Spared
        <5>1. m[e].gone[q][path] < m[d].files[path].mtime /\ m[e].gone[q][path] \in Nat
          BY <1>9, StampIsNumber DEF Spared
        <5> QED BY <2>1, <2>2, <5>1, RegisterNumbers DEF AtLeast
      <4> QED BY <2>4, <4>1, <4>2 DEF EditsOK, Monotone
    <3>5. picked[path] = m[x].files[path]
      BY <3>1, <3>3, <3>4 DEF Joins!Winner
    <3> QED BY <2>1, <3>5
  <2> QED BY <2>3, <2>4
<1>10. ASSUME NEW d \in Joins!Digests(m), NEW path \in Replicated, NEW i \in DOMAIN joined.parents,
              Joins!IsAncestor(m, Joins!Digests(m), d, joined.parents[i]),
                  Spared(m, path, m[d].files[path])
       PROVE  joined.files[path] # None /\ AtLeast(joined.files[path], m[d].files[path])
  <2>1. PICK x \in {a, b} : x = joined.parents[i]
    BY <1>3, <1>5
  <2>2. PICK y \in {a, b} : y # x \/ a = b
    OBVIOUS
  <2> QED BY <1>5, <1>9, <1>10, <2>1, <2>2
<1>11. EditsOK(Joins!Put(m, joined), now)
  BY <1>2, <1>5, <1>7, <1>8, <1>10, PutEdits
<1> QED BY <1>1, <1>2, <1>5, <1>6, <1>11

EditsInvariant == JoinsInv /\ EditsOK(minted, clock)

\* mergeHeads keeps what is known of the edits.
LEMMA MergedEdits ==
  ASSUME Joins!ReplicasAssumption, NEW m, WellFormed(m), NEW now \in Nat, EditsOK(m, now),
         NEW a \in Joins!Digests(m), NEW b \in Joins!Digests(m)
  PROVE  EditsOK(Joins!MergeHeads(m, Joins!Digests(m), a, b).all, now)
<1>1. PICK base : base = Joins!CommonAncestor(m, Joins!Digests(m), a, b)
  OBVIOUS
<1>2. base = None \/ /\ base \in Joins!Digests(m)
                     /\ Joins!IsAncestor(m, Joins!Digests(m), base, a)
                           /\ Joins!IsAncestor(m, Joins!Digests(m), base, b)
  BY <1>1, CommonIsShared
<1>3. EditsOK(Joins!Put(m, Joins!JoinOver(m, a, b, base)), now)
  BY <1>2, JoinedEdits
<1>4. Joins!MergeHeads(m, Joins!Digests(m), a, b).all \in {m, Joins!Put(m, Joins!JoinOver(m, a, b, base))}
  BY <1>1 DEF Joins!MergeHeads, Joins!Added
<1> QED BY <1>3, <1>4

LEMMA EditsStart == ASSUME Joins!ReplicasAssumption, Joins!Init PROVE EditsInvariant
<1>1. JoinsInv
  BY JoinsStart
<1>2. Joins!Digests(minted) = {1} /\ minted[1] = Joins!Start /\ clock = 0
  BY DEF Joins!Init, Joins!Digests
<1>3. \A path \in Replicated : /\ Joins!Start.files[path] = [mtime |-> 0, actor |-> Joins!Publisher]
                          /\ Joins!Start.files[path] \in Joins!Register
  BY DEF Joins!Start, Joins!Register
<1>4. \A path \in Replicated : Joins!Start.files[path] # None
      /\ AtLeast(Joins!Start.files[path], Joins!Start.files[path])
  BY <1>3, RegisterNumbers
<1> QED BY <1>1, <1>2, <1>3, <1>4 DEF EditsInvariant, EditsOK, Monotone, Stamped, AllShown

LEMMA EditsNext == ASSUME Joins!ReplicasAssumption, EditsInvariant, [Joins!Next]_(Joins!vars)
  PROVE EditsInvariant'
<1>1. JoinsInv' /\ WellFormed(minted) /\ EditsOK(minted, clock)
  BY JoinsNextKeeps DEF EditsInvariant, JoinsInv
<1>2. /\ \A s \in Actors : tips[s] \in Joins!Digests(minted)
      /\ clock \in Nat /\ Joins!Everything = Joins!Digests(minted)
  BY DEF EditsInvariant, JoinsInv, Joins!TypeOK, Joins!Everything
<1>3. \A moment \in Joins!Now : moment \in Nat /\ moment > 0 /\ clock <= moment
  BY <1>2 DEF Joins!Now, Joins!ReplicasAssumption
<1>4. ASSUME NEW s \in Actors, NEW path \in Replicated, Joins!Write(s, path)
      \/ Joins!Remove(s, path)
      PROVE  EditsOK(minted', clock')
  <2> DEFINE last == minted[tips[s]]
  <2>1. last \in Joins!ManifestOver(Joins!Digests(minted))
    <3>1. last \in Joins!ManifestOver(1..(tips[s] - 1))
      BY <1>1, <1>2 DEF WellFormed
    <3>2. 1..(tips[s] - 1) \subseteq Joins!Digests(minted)
      BY <1>1, <1>2 DEF WellFormed, Joins!Digests
    <3> QED BY <3>1, <3>2, ManifestWiden
  <2>2. <<tips[s]>> \in Seq(Joins!Digests(minted)) /\ DOMAIN <<tips[s]>> = {1}
        /\ <<tips[s]>>[1] = tips[s]
    BY <1>2
  <2>3. ASSUME NEW d \in Joins!Digests(minted), NEW p \in Replicated,
        Joins!IsAncestor(minted, Joins!Digests(minted), d, tips[s]),
               Spared(minted, p, minted[d].files[p])
        PROVE  last.files[p] # None /\ AtLeast(last.files[p], minted[d].files[p])
    BY <1>1, <1>2, <2>3 DEF EditsOK, Monotone
  <2>4. ASSUME NEW p \in Replicated, last.files[p] # None
        PROVE  last.files[p].mtime <= clock
            /\ (last.files[p].mtime = 0 => last.files[p].actor = Joins!Publisher)
    BY <1>1, <1>2, <2>4 DEF EditsOK, Stamped
  <2>5. \A p \in Replicated,
        d \in Joins!Digests(minted) : minted[d].files[p] \in Joins!Register \cup {None}
    BY <1>1, FileOrNone
  <2>6. ASSUME Joins!Write(s, path) PROVE EditsOK(minted', clock')
    <3>1. PICK moment \in Joins!Now :
            /\ last.files[path] # None => last.files[path].mtime < moment
            /\ Joins!Commit(s, [last EXCEPT !.by = s, !.parents = <<tips[s]>>, !.files[path]
                   = [mtime |-> moment, actor |-> s]], moment)
      BY <2>6 DEF Joins!Write
    <3>2. PICK new : new = [last EXCEPT !.by = s, !.parents = <<tips[s]>>, !.files[path]
              = [mtime |-> moment, actor |-> s]]
      OBVIOUS
    <3>3. [mtime |-> moment, actor |-> s] \in Joins!Register
          /\ [mtime |-> moment, actor |-> s] # None
      BY <1>3, RegisterNumbers DEF Joins!Register
    <3> HIDE DEF last
    <3>4. /\ new \in Joins!ManifestOver(Joins!Digests(minted)) /\ new.parents = <<tips[s]>>
          /\ new.files[path] = [mtime |-> moment, actor |-> s]
          /\ \A p \in Replicated : p # path => new.files[p] = last.files[p]
          /\ new.gone = last.gone
      BY <2>1, <2>2, <3>2, <3>3 DEF Joins!ManifestOver
    <3>5. minted' = Joins!Put(minted, new) /\ clock' = moment
      BY <3>1, <3>2 DEF Joins!Commit
    <3>6. ASSUME NEW p \in Replicated, new.files[p] # None
          PROVE  new.files[p].mtime <= moment
              /\ (new.files[p].mtime = 0 => new.files[p].actor = Joins!Publisher)
      <4>1. CASE p = path
        BY <1>3, <3>4, <4>1
      <4>2. CASE p # path
        <5>1. new.files[p] \in Joins!Register /\ new.files[p] = last.files[p]
          BY <1>2, <2>5, <3>4, <3>6, <4>2 DEF last
        <5>2. new.files[p].mtime \in Nat
          BY <5>1, RegisterNumbers
        <5> QED BY <1>2, <1>3, <2>4, <3>6, <5>1, <5>2
      <4> QED BY <4>1, <4>2
    <3>7. ASSUME NothingGone(minted), NEW p \in Replicated PROVE new.files[p] # None
      <4>1. last.files[p] # None
        BY <1>1, <1>2, <3>7 DEF EditsOK, AllShown, last
      <4> QED BY <3>3, <3>4, <4>1
    <3>8. ASSUME NEW d \in Joins!Digests(minted), NEW p \in Replicated,
          Joins!IsAncestor(minted, Joins!Digests(minted), d, tips[s]),
                 Spared(minted, p, minted[d].files[p])
          PROVE  new.files[p] # None /\ AtLeast(new.files[p], minted[d].files[p])
      <4>1. last.files[p] # None /\ AtLeast(last.files[p], minted[d].files[p])
        BY <2>3, <3>8
      <4>2. CASE p = path
        <5>1. minted[d].files[p] \in Joins!Register /\ last.files[p] \in Joins!Register
          BY <1>2, <2>5, <3>8, <4>1 DEF Spared, last
        <5>2. /\ minted[d].files[p].mtime \in Nat /\ last.files[p].mtime \in Nat /\ last.files[p].mtime < moment
              /\ minted[d].files[p].mtime <= last.files[p].mtime
          BY <3>1, <4>1, <4>2, <5>1, RegisterNumbers DEF AtLeast
        <5> QED BY <1>3, <3>3, <3>4, <4>2, <5>2 DEF AtLeast
      <4>3. CASE p # path
        BY <3>4, <4>1, <4>3
      <4> QED BY <4>2, <4>3
    <3>9. \A i \in DOMAIN new.parents : new.parents[i] = tips[s]
      BY <2>2, <3>4
    <3> QED BY <1>1, <1>2, <1>3, <3>4, <3>5, <3>6, <3>7, <3>8, <3>9, PutEdits
  <2>7. ASSUME Joins!Remove(s, path) PROVE EditsOK(minted', clock')
    <3>1. PICK moment \in Joins!Now :
            Joins!Commit(s, [last EXCEPT !.by = s, !.parents = <<tips[s]>>, !.files[path] = None, !.gone[s][path] = moment], moment)
      BY <2>7 DEF Joins!Remove
    <3>2. PICK new : new = [last EXCEPT !.by = s, !.parents = <<tips[s]>>, !.files[path] = None, !.gone[s][path] = moment]
      OBVIOUS
    <3> HIDE DEF last
    <3>3. moment \in Nat
      BY <1>3
    <3>4. /\ new \in Joins!ManifestOver(Joins!Digests(minted)) /\ new.parents = <<tips[s]>>
          /\ new.files[path] = None
          /\ \A p \in Replicated : p # path => new.files[p] = last.files[p]
          /\ new.gone[s][path] = moment
      BY <2>1, <2>2, <3>2, <3>3 DEF Joins!ManifestOver
    <3>5. minted' = Joins!Put(minted, new) /\ clock' = moment
      BY <3>1, <3>2 DEF Joins!Commit
    <3>6. ASSUME NEW p \in Replicated, new.files[p] # None
          PROVE  new.files[p].mtime <= moment
              /\ (new.files[p].mtime = 0 => new.files[p].actor = Joins!Publisher)
      <4>1. p # path
        BY <3>4, <3>6
      <4>2. new.files[p] \in Joins!Register /\ new.files[p] = last.files[p]
        BY <1>2, <2>5, <3>4, <3>6, <4>1 DEF last
      <4>3. new.files[p].mtime \in Nat
        BY <4>2, RegisterNumbers
      <4> QED BY <1>2, <1>3, <2>4, <3>6, <4>2, <4>3
    <3>7. new.gone # Joins!NoWhiteouts
      BY <1>3, <3>4 DEF Joins!NoWhiteouts
    <3>8. ASSUME NEW d \in Joins!Digests(minted), NEW p \in Replicated,
          Joins!IsAncestor(minted, Joins!Digests(minted), d, tips[s]),
                 Spared(minted, p, minted[d].files[p]),
                 \A q \in Actors : new.gone[q][p] < minted[d].files[p].mtime
          PROVE  new.files[p] # None /\ AtLeast(new.files[p], minted[d].files[p])
      <4>1. last.files[p] # None /\ AtLeast(last.files[p], minted[d].files[p])
        BY <2>3, <3>8
      <4>2. ASSUME p = path PROVE FALSE
        <5>1. minted[d].files[p] # None /\ minted[d].files[p] \in Joins!Register
          BY <2>5, <3>8 DEF Spared
        <5>2. minted[d].files[p].mtime <= clock /\ minted[d].files[p].mtime \in Nat
          BY <1>1, <5>1, RegisterNumbers DEF EditsOK, Stamped
        <5>3. moment < minted[d].files[p].mtime
          BY <3>4, <3>8, <4>2
        <5> QED BY <1>2, <1>3, <5>2, <5>3
      <4> QED BY <3>4, <4>1, <4>2
    <3>9. \A i \in DOMAIN new.parents : new.parents[i] = tips[s]
      BY <2>2, <3>4
    <3> QED BY <1>1, <1>2, <1>3, <3>4, <3>5, <3>6, <3>7, <3>8, <3>9, PutEdits
  <2> QED BY <1>4, <2>6, <2>7
<1>5. ASSUME NEW s \in Actors, NEW t \in Actors, Joins!Merge(s, t) PROVE EditsOK(minted', clock')
  BY <1>1, <1>2, <1>5, MergedEdits DEF Joins!Merge, Joins!Adopt, Joins!Joined
<1>6. ASSUME UNCHANGED Joins!vars PROVE EditsOK(minted', clock')
  <2>1. minted' = minted /\ clock' = clock
    BY <1>6 DEF Joins!vars
  <2> QED BY <1>1, <2>1
<1>7. EditsOK(minted', clock')
  <2>1. ASSUME Joins!Next PROVE EditsOK(minted', clock')
    BY <1>4, <1>5, <2>1 DEF Joins!Next
  <2> QED BY <1>6, <2>1
<1> QED BY <1>1, <1>7 DEF EditsInvariant

LEMMA EditsKept == ASSUME Joins!ReplicasAssumption, EditsInvariant PROVE Joins!EditsSurvive
<1> SUFFICES ASSUME NEW s \in Actors, NEW path \in Replicated, NEW d \in Joins!Everything,
                    minted[d].files[path] # None,
                    \A e \in Joins!Everything : \A stamp \in Joins!DeletionStamp(minted[e], path) :
                        stamp < minted[d].files[path].mtime,
                    \/ minted[tips[s]].files[path] = None
                    \/ Joins!NewerOf(minted[tips[s]].files[path], minted[d].files[path]) # minted[tips[s]].files[path],
                    Joins!IsAncestor(minted, Joins!Everything, d, tips[s])
             PROVE  FALSE
  BY DEF Joins!EditsSurvive
<1>1. WellFormed(minted) /\ tips[s] \in Joins!Digests(minted)
      /\ Joins!Everything = Joins!Digests(minted)
  BY DEF EditsInvariant, JoinsInv, Joins!TypeOK, Joins!Everything
<1>2. Spared(minted, path, minted[d].files[path])
  BY <1>1 DEF Spared, Joins!DeletionStamp
<1>3. minted[tips[s]].files[path] # None
      /\ AtLeast(minted[tips[s]].files[path], minted[d].files[path])
  BY <1>1, <1>2 DEF EditsInvariant, EditsOK, Monotone
<1>4. minted[tips[s]].files[path] \in Joins!Register /\ minted[d].files[path] \in Joins!Register
  BY <1>1, <1>3, FileOrNone
<1> QED BY <1>3, <1>4, NewerIsAtLeast

\* The registers of two trees, path by path.
NewerTree(p, q) == [path \in Replicated |-> Joins!NewerOf(p[path], q[path])]
Trees == [Replicated -> Joins!Register]

LEMMA NewerAssociates ==
  ASSUME Joins!ReplicasAssumption, NEW p \in Trees, NEW q \in Trees, NEW r \in Trees
  PROVE  NewerTree(NewerTree(p, q), r) = NewerTree(p, NewerTree(q, r))
<1>1. ASSUME NEW x \in Joins!Register, NEW y \in Joins!Register, NEW z \in Joins!Register
      PROVE  Joins!NewerOf(Joins!NewerOf(x, y), z) = Joins!NewerOf(x, Joins!NewerOf(y, z))
  <2>1. /\ x.mtime \in Nat /\ x.actor \in Nat /\ y.mtime \in Nat /\ y.actor \in Nat
        /\ z.mtime \in Nat /\ z.actor \in Nat
    BY RegisterNumbers
  <2> QED BY <2>1 DEF Joins!NewerOf
<1>2. ASSUME NEW path \in Replicated
      PROVE  Joins!NewerOf(Joins!NewerOf(p[path], q[path]), r[path]) = Joins!NewerOf(p[path], Joins!NewerOf(q[path], r[path]))
  <2>1. p[path] \in Joins!Register /\ q[path] \in Joins!Register /\ r[path] \in Joins!Register
    BY DEF Trees
  <2> QED BY <1>1, <2>1
<1> QED BY <1>2 DEF NewerTree

\* While nothing was deleted, a manifest shows every path.
LEMMA FullTree ==
  ASSUME Joins!ReplicasAssumption, NEW m, WellFormed(m), NEW now \in Nat, EditsOK(m, now),
         NothingGone(m),
         NEW d \in Joins!Digests(m)
  PROVE  m[d].files \in Trees
<1>1. m[d].files \in [Replicated -> Joins!Register \cup {None}]
  BY DEF WellFormed, Joins!ManifestOver
<1>2. \A path \in Replicated : m[d].files[path] # None
  BY DEF EditsOK, AllShown
<1> QED BY <1>1, <1>2 DEF Trees

\* While nothing was deleted, an ancestor's registers are no newer.
LEMMA DescendantIsNewer ==
  ASSUME Joins!ReplicasAssumption, NEW m, WellFormed(m), NEW now \in Nat, EditsOK(m, now),
         NothingGone(m),
         NEW d \in Joins!Digests(m), NEW e \in Joins!Digests(m),
             Joins!IsAncestor(m, Joins!Digests(m), d, e)
  PROVE  NewerTree(m[e].files, m[d].files) = m[e].files
      /\ NewerTree(m[d].files, m[e].files) = m[e].files
<1>1. m[d].files \in Trees /\ m[e].files \in Trees
  BY FullTree
<1>2. ASSUME NEW path \in Replicated
      PROVE  AtLeast(m[e].files[path], m[d].files[path])
  <2>1. m[d].files[path] \in Joins!Register /\ m[e].files[path] \in Joins!Register
        /\ m[d].files[path] # None
    BY <1>1, RegisterNumbers DEF Trees
  <2>2. CASE m[d].files[path].mtime = 0
    <3>1. m[d].files[path].actor = 0
      BY <2>1, <2>2 DEF EditsOK, Stamped, Joins!Publisher
    <3>2. m[e].files[path].mtime \in Nat /\ m[e].files[path].actor \in Nat
      BY <2>1, RegisterNumbers
    <3> QED BY <2>2, <3>1, <3>2 DEF AtLeast
  <2>3. CASE m[d].files[path].mtime # 0
    <3>1. m[d].files[path].mtime \in Nat
      BY <2>1, RegisterNumbers
    <3>2. \A x \in Joins!Digests(m), q \in Actors : m[x].gone[q][path] = 0
      BY DEF NothingGone, Joins!NoWhiteouts
    <3>3. Spared(m, path, m[d].files[path])
      BY <2>1, <2>3, <3>1, <3>2 DEF Spared
    <3> QED BY <3>3 DEF EditsOK, Monotone
  <2> QED BY <2>2, <2>3
<1>3. \A path \in Replicated : /\ Joins!NewerOf(m[e].files[path], m[d].files[path]) = m[e].files[path]
                          /\ Joins!NewerOf(m[d].files[path], m[e].files[path]) = m[e].files[path]
  <2> TAKE path \in Replicated
  <2>1. m[d].files[path] \in Joins!Register /\ m[e].files[path] \in Joins!Register
    BY <1>1 DEF Trees
  <2> QED BY <1>2, <2>1, NewerIsAtLeast
<1>4. m[e].files = [path \in Replicated |-> m[e].files[path]]
  BY <1>1 DEF Trees
<1> QED BY <1>3, <1>4 DEF NewerTree

\* While nothing was deleted, mergeHeads gives the newer registers.
LEMMA MergedTree ==
  ASSUME Joins!ReplicasAssumption, NEW m, WellFormed(m), NEW now \in Nat, EditsOK(m, now),
         NothingGone(m),
         NEW a \in Joins!Digests(m), NEW b \in Joins!Digests(m)
  PROVE  LET result == Joins!MergeHeads(m, Joins!Digests(m), a, b)
         IN  NothingGone(result.all) /\ Joins!TreeOf(result) = NewerTree(m[a].files, m[b].files)
<1>1. PICK base : base = Joins!CommonAncestor(m, Joins!Digests(m), a, b)
  OBVIOUS
<1>2. base = None \/ /\ base \in Joins!Digests(m)
                     /\ Joins!IsAncestor(m, Joins!Digests(m), base, a)
                           /\ Joins!IsAncestor(m, Joins!Digests(m), base, b)
  BY <1>1, CommonIsShared
<1>3. PICK joined : joined = Joins!JoinOver(m, a, b, base)
  OBVIOUS
<1>4. /\ joined \in Joins!ManifestOver(Joins!Digests(m)) /\ joined.gone = Joins!NoWhiteouts
      /\ \A path \in Replicated :
           m[a].files[path] # None /\ m[b].files[path] # None
             => joined.files[path] = Joins!NewerOf(m[a].files[path], m[b].files[path])
  BY <1>2, <1>3, JoinedEdits
<1>5. joined.files = NewerTree(m[a].files, m[b].files)
  <2>1. \A path \in Replicated : joined.files[path] = Joins!NewerOf(m[a].files[path], m[b].files[path])
    BY <1>4 DEF EditsOK, AllShown
  <2>2. joined.files = [path \in Replicated |-> joined.files[path]]
    BY <1>4 DEF Joins!ManifestOver
  <2> QED BY <2>1, <2>2 DEF NewerTree
<1>6. CASE Joins!IsAncestor(m, Joins!Digests(m), b, a)
  <2>1. Joins!MergeHeads(m, Joins!Digests(m), a, b) = [all |-> m, head |-> a]
    BY <1>6 DEF Joins!MergeHeads
  <2> QED BY <1>6, <2>1, DescendantIsNewer DEF Joins!TreeOf
<1>7. CASE ~Joins!IsAncestor(m, Joins!Digests(m), b, a)
      /\ Joins!IsAncestor(m, Joins!Digests(m), a, b)
  <2>1. Joins!MergeHeads(m, Joins!Digests(m), a, b) = [all |-> m, head |-> b]
    BY <1>7 DEF Joins!MergeHeads
  <2> QED BY <1>7, <2>1, DescendantIsNewer DEF Joins!TreeOf
<1>8. CASE ~Joins!IsAncestor(m, Joins!Digests(m), b, a)
      /\ ~Joins!IsAncestor(m, Joins!Digests(m), a, b)
  <2>1. Joins!MergeHeads(m, Joins!Digests(m), a, b) = [all |-> Joins!Put(m, joined), head |-> Joins!DigestOf(m, joined)]
    BY <1>1, <1>3, <1>8 DEF Joins!MergeHeads, Joins!Added
  <2>2. Joins!Put(m, joined)[Joins!DigestOf(m, joined)] = joined
    BY <1>4, PutFound
  <2>3. NothingGone(Joins!Put(m, joined))
    <3>1. CASE \E d \in Joins!Digests(m) : m[d] = joined
      BY <3>1 DEF Joins!Put
    <3>2. CASE ~\E d \in Joins!Digests(m) : m[d] = joined
      <4>1. Joins!Put(m, joined) = Append(m, joined)
        BY <3>2 DEF Joins!Put
      <4>2. Len(m) \in Nat /\ m \in Seq(Joins!ManifestOver(Nat))
            /\ joined \in Joins!ManifestOver(Nat)
        BY <1>4, ManifestWiden DEF WellFormed, Joins!Digests
      <4>3. /\ Joins!Digests(Append(m, joined)) = Joins!Digests(m) \cup {Len(m) + 1}
            /\ Append(m, joined)[Len(m) + 1] = joined
            /\ \A d \in Joins!Digests(m) : Append(m, joined)[d] = m[d]
        BY <4>2 DEF Joins!Digests
      <4> QED BY <1>4, <4>1, <4>3 DEF NothingGone
    <3> QED BY <3>1, <3>2
  <2> QED BY <1>5, <2>1, <2>2, <2>3 DEF Joins!TreeOf
<1> QED BY <1>6, <1>7, <1>8

LEMMA EditsAreAssociative == ASSUME Joins!ReplicasAssumption, EditsInvariant
  PROVE Joins!EditsAssociate
<1> SUFFICES ASSUME \A d \in Joins!Everything : minted[d].gone = Joins!NoWhiteouts,
                    NEW a \in Joins!Heads, NEW b \in Joins!Heads, NEW c \in Joins!Heads,
                    NEW ab, ab = Joins!Joined(a, b), NEW bc, bc = Joins!Joined(b, c)
             PROVE  Joins!JoinTo(ab, ab.head, c) = Joins!JoinTo(bc, a, bc.head)
  BY DEF Joins!EditsAssociate, Joins!JoinAssociates
<1>1. /\ WellFormed(minted) /\ EditsOK(minted, clock) /\ clock \in Nat
      /\ NothingGone(minted) /\ Joins!Everything = Joins!Digests(minted)
      /\ a \in Joins!Digests(minted) /\ b \in Joins!Digests(minted) /\ c \in Joins!Digests(minted)
  BY DEF EditsInvariant, JoinsInv, Joins!TypeOK, Joins!Everything, Joins!Heads, NothingGone
<1>2. PICK A, B, C : A = minted[a].files /\ B = minted[b].files /\ C = minted[c].files
  OBVIOUS
<1>3. A \in Trees /\ B \in Trees /\ C \in Trees
  BY <1>1, <1>2, FullTree
<1>4. ASSUME NEW x \in Joins!Digests(minted), NEW y \in Joins!Digests(minted),
      NEW z \in Joins!Digests(minted),
             NEW xy, xy = Joins!Joined(x, y)
      PROVE  /\ WellFormed(xy.all) /\ EditsOK(xy.all, clock) /\ NothingGone(xy.all)
             /\ xy.head \in Joins!Digests(xy.all) /\ z \in Joins!Digests(xy.all)
             /\ xy.all[xy.head].files = NewerTree(minted[x].files, minted[y].files)
             /\ xy.all[z] = minted[z]
  <2>1. xy = Joins!MergeHeads(minted, Joins!Digests(minted), x, y)
    BY <1>1, <1>4 DEF Joins!Joined
  <2>2. WellFormed(xy.all) /\ Extends(xy.all, minted) /\ xy.head \in Joins!Digests(xy.all)
    BY <1>1, <2>1, MergedHead
  <2>3. EditsOK(xy.all, clock)
    BY <1>1, <2>1, MergedEdits
  <2>4. NothingGone(xy.all) /\ xy.all[xy.head].files = NewerTree(minted[x].files, minted[y].files)
    BY <1>1, <2>1, MergedTree DEF Joins!TreeOf
  <2>5. z \in Joins!Digests(xy.all) /\ xy.all[z] = minted[z]
    BY <1>1, <2>2 DEF Extends, WellFormed, Joins!Digests
  <2> QED BY <2>2, <2>3, <2>4, <2>5
<1>5. Joins!JoinTo(ab, ab.head, c) = NewerTree(NewerTree(A, B), C)
  <2>1. /\ WellFormed(ab.all) /\ EditsOK(ab.all, clock) /\ NothingGone(ab.all)
        /\ ab.head \in Joins!Digests(ab.all) /\ c \in Joins!Digests(ab.all)
        /\ ab.all[ab.head].files = NewerTree(A, B) /\ ab.all[c].files = C
    BY <1>1, <1>2, <1>4
  <2> QED BY <1>1, <2>1, MergedTree DEF Joins!JoinTo
<1>6. Joins!JoinTo(bc, a, bc.head) = NewerTree(A, NewerTree(B, C))
  <2>1. /\ WellFormed(bc.all) /\ EditsOK(bc.all, clock) /\ NothingGone(bc.all)
        /\ bc.head \in Joins!Digests(bc.all) /\ a \in Joins!Digests(bc.all)
        /\ bc.all[bc.head].files = NewerTree(B, C) /\ bc.all[a].files = A
    BY <1>1, <1>2, <1>4
  <2> QED BY <1>1, <2>1, MergedTree DEF Joins!JoinTo
<1> QED BY <1>3, <1>5, <1>6, NewerAssociates

\* No merge drops an edit that every deletion of its path is older than, and
\* while nothing is deleted three heads merge to one tree in any order
\* (src/src/manager/merge.ts, mergeHeads).
THEOREM EditsAreKept ==
  ASSUME Joins!ReplicasAssumption
  PROVE  Joins!Spec => [](Joins!TypeOK /\ Joins!EditsSurvive /\ Joins!EditsAssociate)
<1>1. Joins!Init => EditsInvariant
  BY EditsStart
<1>2. EditsInvariant /\ [Joins!Next]_(Joins!vars) => EditsInvariant'
  BY EditsNext
<1>3. EditsInvariant => Joins!TypeOK /\ Joins!EditsSurvive /\ Joins!EditsAssociate
  BY EditsKept, EditsAreAssociative DEF EditsInvariant, JoinsInv
<1> QED BY <1>1, <1>2, <1>3, PTL DEF Joins!Spec

-----------------------------------------------------------------------------
(* The properties of the whole *)

\* No merge drops an edit that is newer than every deletion of its path, and
\* while nothing is deleted three heads merge to one tree in any order
\* (src/src/manager/merge.ts, mergeHeads).
THEOREM EditsAlwaysSurvive == Spec => []EditsSurvive
<1>1. Joins!TypeOK /\ Joins!EditsSurvive /\ Joins!EditsAssociate => EditsSurvive
  BY DEF EditsSurvive
<1> QED BY <1>1, JoinsRun, EditsAreKept, StoresAssumption, PTL

\* Wherever create, compact, restore, commit and gc are cut off, HEAD can be
\* restored, a chain that can be read gives the tree that was captured, and
\* nothing that a snapshot or a tag names is swept (src/src/oci/snapshot.ts).
THEOREM HistoryStaysSafe == Spec => []HistorySafe
<1>1. History!TypeOK /\ History!HistorySafe => HistorySafe
  BY DEF HistorySafe
<1> QED BY <1>1, HistoryRun, HistoryHolds, StoresAssumption, PTL

\* What the registry's tags name is in its store, and an upload session that one
\* request at a time uses has its chunks in order (src/src/server/
\* distribution-handler.ts).
THEOREM RegistryIsConsistent == Spec => []RegistryConsistent
<1>1. Surface!TypeOK /\ Surface!UploadsInOrder /\ Surface!TagsComplete => RegistryConsistent
  BY DEF RegistryConsistent
<1> QED BY <1>1, SurfaceRun, SurfaceHolds, StoresAssumption, PTL

\* A published folder that nobody else touches is the tree of the ref's head
\* when no write-back is under way (src/src/server/folder.ts).
THEOREM FolderIsTheHead == Spec => []FolderMirrorsHead
<1>1. Mirror!TypeOK /\ Mirror!FolderMirrorsHead => FolderMirrorsHead
  BY DEF FolderMirrorsHead
<1> QED BY <1>1, MirrorRun, FolderHolds, StoresAssumption, PTL

\* One worker at a time changes a workspace's pod (src/src/checkpoint-
\* workspace.ts).
THEOREM OneWorkerAlways == Spec => []OneWorker
<1>1. Bridge!TypeOK /\ Bridge!OneWorker => OneWorker
  BY DEF OneWorker
<1> QED BY <1>1, BridgeRun, OneWorkerAtATime, BridgeTypes, StoresAssumption, PTL

\* No store's head is rewound, no sealed tag moves, and no context is bound to
\* another snapshot: what merge.ts, serve.ts and checkpoint-bridge.js promise.
THEOREM EstablishedIsKept == Spec => EstablishedStays
<1>1. Joins!Spec => [][Joins!HeadsGrow]_tips
  <2>1. Joins!Spec => []Joins!TypeOK /\ [][Joins!HeadsGrow]_tips
    BY HeadsDescend, StoresAssumption
  <2> QED BY <2>1, PTL
<1>2. Surface!Spec => [][Surface!SealsHold]_tags
  BY SealedTagsAreKept, StoresAssumption
<1>3. Bridge!Spec => [][Bridge!BindingsHold]_mapping
  BY FirstCaptureStays, StoresAssumption DEF Bridge!FirstCaptureWins
<1>4. [Joins!HeadsGrow]_tips /\ [Surface!SealsHold]_tags /\ [Bridge!BindingsHold]_mapping
      => [Joins!HeadsGrow /\ Surface!SealsHold /\ Bridge!BindingsHold]_<<tips, tags, mapping>>
  BY DEF Joins!HeadsGrow, Surface!SealsHold, Bridge!BindingsHold
<1> QED BY <1>1, <1>2, <1>3, <1>4, JoinsRun, SurfaceRun, BridgeRun, PTL DEF EstablishedStays
===============================================================================
