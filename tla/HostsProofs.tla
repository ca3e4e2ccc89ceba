----------------------------- MODULE HostsProofs ------------------------------
(* The proofs about what MCHosts runs one at a time.  An invariant of a part   *)
(* is proved of the part's own specification and carried over by its <Part>Run *)
(* lemma: every behaviour of MCHosts is one of each part.                      *)
EXTENDS MCHosts, WellFoundedInduction, TLAPS

-----------------------------------------------------------------------------
(* The session host *)

ConsoleRequest == [pc : {"idle", "mkdir", "running"}, id : Ids \cup {None}, entry : Consoles!Entries \cup {0}]

ConsoleTypes ==
    /\ sessions \in [Ids -> Consoles!Entries \cup {0}]
    /\ entries \in [Consoles!Entries -> Consoles!Console \cup {None}]
    /\ request \in [Callers -> ConsoleRequest]
    /\ idleClock \in 0..IdleTime
    /\ disposed \subseteq Consoles!Entries

\* A command runs on the console of its session, which it keeps busy.
RunsOnItsConsole ==
    \A c \in Callers :
        /\ request[c].pc # "idle" => request[c].id \in Ids
        /\ Consoles!Running(c) =>
             /\ request[c].entry # 0 /\ sessions[request[c].id] = request[c].entry
             /\ entries[request[c].entry].busy

OneRunner ==
    \A c, d \in Callers : Consoles!Running(c) /\ Consoles!Running(d) /\ request[c].id = request[d].id => c = d

BusyHasRunner ==
    \A i \in Ids : sessions[i] # 0 /\ entries[sessions[i]].busy
        => \E c \in Callers : Consoles!Running(c) /\ request[c].id = i

\* Every session has a console of its own that was opened.
OwnConsole ==
    /\ \A i \in Ids : sessions[i] # 0 => entries[sessions[i]] \in Consoles!Console
    /\ \A i, j \in Ids : sessions[i] # 0 /\ sessions[i] = sessions[j] => i = j

\* What was disposed of had been opened and is no session's console.
DisposedUnused ==
    \A e \in disposed : entries[e] \in Consoles!Console /\ \A i \in Ids : sessions[i] # e

ConsolesInv == ConsoleTypes /\ RunsOnItsConsole /\ OneRunner /\ BusyHasRunner /\ OwnConsole /\ DisposedUnused

LEMMA ConsolesStart ==
  ASSUME Consoles!SessionHostAssumption, Consoles!Init
  PROVE  ConsolesInv
<1>1. ConsoleTypes
  BY DEF Consoles!Init, ConsoleTypes, Consoles!SessionHostAssumption, Consoles!Idle, ConsoleRequest
<1>2. \A c \in Callers : request[c].pc = "idle"
  BY DEF Consoles!Init, Consoles!Idle
<1> QED BY <1>1, <1>2
     DEF Consoles!Init, ConsolesInv, RunsOnItsConsole, OneRunner, BusyHasRunner, OwnConsole, DisposedUnused, Consoles!Running

-----------------------------------------------------------------------------

\* A caller takes console f for session i: an idle console that i has, or a
\* new one when it has none.  `s' and `gone' are what eviction left.
LEMMA ClaimKeeps ==
  ASSUME Consoles!SessionHostAssumption, ConsolesInv, NEW s, NEW gone, NEW c \in Callers, NEW i \in Ids, NEW f \in Consoles!Entries,
         s \in [Ids -> Consoles!Entries \cup {0}], gone \subseteq Consoles!Entries,
         \A j \in Ids : s[j] = 0 \/ s[j] = sessions[j],
         \A j \in Ids : sessions[j] # 0 /\ entries[sessions[j]].busy => s[j] = sessions[j],
         \A e \in gone : entries[e] \in Consoles!Console /\ \A j \in Ids : s[j] # e,
         request[c].pc # "running",
         \/ s[i] = f /\ ~entries[f].busy
         \/ s[i] = 0 /\ entries[f] = None,
         sessions' = [s EXCEPT ![i] = f], disposed' = gone,
         entries' = [entries EXCEPT ![f] = [busy |-> TRUE, lastUsed |-> idleClock]],
         Consoles!Claim(c, i, f), UNCHANGED idleClock
  PROVE  ConsolesInv'
<1>1. None \notin Consoles!Console
  BY DEF Consoles!SessionHostAssumption
<1>2. f # 0 /\ 0 \notin Consoles!Entries
  BY DEF Consoles!Entries
<1>3. \A d \in Callers : Consoles!Running(d) => request[d].id # i /\ request[d].entry # f
  <2> SUFFICES ASSUME NEW d \in Callers, Consoles!Running(d) PROVE request[d].id # i /\ request[d].entry # f
    OBVIOUS
  <2>1. /\ request[d].id \in Ids /\ request[d].entry # 0 /\ sessions[request[d].id] = request[d].entry
        /\ entries[request[d].entry].busy
    BY DEF ConsolesInv, RunsOnItsConsole, Consoles!Running
  <2>2. entries[request[d].entry] \in Consoles!Console
    BY <2>1 DEF ConsolesInv, OwnConsole
  <2>3. s[request[d].id] = request[d].entry
    BY <2>1
  <2> QED BY <1>1, <1>2, <2>1, <2>2, <2>3
<1>4. \A j \in Ids : s[j] # 0 /\ s[j] = f => j = i
  BY <1>1 DEF ConsolesInv, OwnConsole
<1>5. ConsoleTypes'
  BY <1>2 DEF ConsolesInv, ConsoleTypes, Consoles!Console, Consoles!Claim, ConsoleRequest
<1>6. /\ request' = [request EXCEPT ![c] = [pc |-> "running", id |-> i, entry |-> f]]
      /\ request \in [Callers -> ConsoleRequest] /\ s \in [Ids -> Consoles!Entries \cup {0}]
      /\ entries \in [Consoles!Entries -> Consoles!Console \cup {None}] /\ idleClock \in Nat
  BY DEF ConsolesInv, ConsoleTypes, Consoles!Claim
<1>7. /\ sessions'[i] = f /\ \A j \in Ids \ {i} : sessions'[j] = s[j]
      /\ entries'[f].busy /\ entries'[f] \in Consoles!Console
      /\ \A e \in Consoles!Entries \ {f} : entries'[e] = entries[e]
      /\ request'[c] = [pc |-> "running", id |-> i, entry |-> f]
      /\ \A d \in Callers \ {c} : request'[d] = request[d]
  BY <1>6 DEF Consoles!Console
<1>8. RunsOnItsConsole'
  <2> SUFFICES ASSUME NEW d \in Callers
               PROVE  /\ request'[d].pc # "idle" => request'[d].id \in Ids
                      /\ request'[d].pc = "running" =>
                           /\ request'[d].entry # 0 /\ sessions'[request'[d].id] = request'[d].entry
                           /\ entries'[request'[d].entry].busy
    BY DEF RunsOnItsConsole, Consoles!Running
  <2>1. CASE d = c
    BY <1>2, <1>7, <2>1
  <2>2. CASE d # c
    <3>1. request'[d] = request[d]
      BY <1>7, <2>2
    <3>2. request[d].pc # "idle" => request[d].id \in Ids
      BY DEF ConsolesInv, RunsOnItsConsole
    <3>3. ASSUME request[d].pc = "running"
          PROVE  /\ request[d].entry # 0 /\ sessions'[request[d].id] = request[d].entry
                 /\ entries'[request[d].entry].busy
      <4>1. /\ request[d].id \in Ids /\ request[d].entry # 0 /\ sessions[request[d].id] = request[d].entry
            /\ entries[request[d].entry].busy
        BY <3>3 DEF ConsolesInv, RunsOnItsConsole, Consoles!Running
      <4>2. request[d].id # i /\ request[d].entry # f /\ request[d].entry \in Consoles!Entries
        BY <1>3, <1>6, <3>3, <4>1 DEF Consoles!Running, ConsoleRequest
      <4> QED BY <1>7, <4>1, <4>2
    <3> QED BY <3>1, <3>2, <3>3
  <2> QED BY <2>1, <2>2
<1>9. OneRunner'
  <2> SUFFICES ASSUME NEW d \in Callers, NEW e \in Callers, request'[d].pc = "running",
                      request'[e].pc = "running", request'[d].id = request'[e].id
               PROVE  d = e
    BY DEF OneRunner, Consoles!Running
  <2>1. CASE d # c /\ e # c
    BY <1>7, <2>1 DEF ConsolesInv, OneRunner, Consoles!Running
  <2>2. CASE d = c \/ e = c
    BY <1>3, <1>7, <2>2 DEF Consoles!Running
  <2> QED BY <2>1, <2>2
<1>10. BusyHasRunner'
  <2> SUFFICES ASSUME NEW j \in Ids, sessions'[j] # 0, entries'[sessions'[j]].busy
               PROVE  \E d \in Callers : request'[d].pc = "running" /\ request'[d].id = j
    BY DEF BusyHasRunner, Consoles!Running
  <2>1. CASE j = i
    BY <1>7, <2>1
  <2>2. CASE j # i
    <3>1. sessions'[j] = s[j] /\ s[j] = sessions[j] /\ s[j] # f /\ s[j] \in Consoles!Entries
      BY <1>4, <1>6, <1>7, <2>2
    <3>2. entries[sessions[j]].busy
      BY <1>7, <3>1
    <3>3. PICK d \in Callers : Consoles!Running(d) /\ request[d].id = j
      BY <3>1, <3>2 DEF ConsolesInv, BusyHasRunner
    <3> QED BY <1>7, <3>3 DEF Consoles!Running
  <2> QED BY <2>1, <2>2
<1>11. OwnConsole'
  <2>1. \A j \in Ids : sessions'[j] # 0 => entries'[sessions'[j]] \in Consoles!Console
    BY <1>6, <1>7 DEF ConsolesInv, OwnConsole
  <2>2. \A j, k \in Ids : sessions'[j] # 0 /\ sessions'[j] = sessions'[k] => j = k
    BY <1>4, <1>7 DEF ConsolesInv, OwnConsole
  <2> QED BY <2>1, <2>2 DEF OwnConsole
<1>12. DisposedUnused'
  <2>1. f \notin gone
    BY <1>1, <1>2
  <2> QED BY <1>7, <2>1 DEF DisposedUnused
<1> QED BY <1>5, <1>8, <1>9, <1>10, <1>11, <1>12 DEF ConsolesInv

\* Eviction alone, whatever becomes of the caller short of a command.
LEMMA EvictKeeps ==
  ASSUME Consoles!SessionHostAssumption, ConsolesInv, NEW s, NEW gone,
         s \in [Ids -> Consoles!Entries \cup {0}], gone \subseteq Consoles!Entries,
         \A j \in Ids : s[j] = 0 \/ s[j] = sessions[j],
         \A j \in Ids : sessions[j] # 0 /\ entries[sessions[j]].busy => s[j] = sessions[j],
         \A e \in gone : entries[e] \in Consoles!Console /\ \A j \in Ids : s[j] # e,
         request' \in [Callers -> ConsoleRequest],
         \A d \in Callers : /\ request'[d].pc # "idle" => request'[d].id \in Ids
                            /\ request'[d] # request[d] => request'[d].pc # "running" /\ request[d].pc # "running",
         sessions' = s, disposed' = gone, UNCHANGED <<idleClock, entries>>
  PROVE  ConsolesInv'
<1>1. ConsoleTypes'
  BY DEF ConsolesInv, ConsoleTypes
<1>2. RunsOnItsConsole'
  <2> SUFFICES ASSUME NEW d \in Callers, request'[d].pc = "running"
               PROVE  /\ request'[d].entry # 0 /\ sessions'[request'[d].id] = request'[d].entry
                      /\ entries'[request'[d].entry].busy
    BY DEF RunsOnItsConsole, Consoles!Running
  <2>1. request'[d] = request[d]
    OBVIOUS
  <2>2. /\ request[d].id \in Ids /\ request[d].entry # 0 /\ sessions[request[d].id] = request[d].entry
        /\ entries[request[d].entry].busy
    BY <2>1 DEF ConsolesInv, RunsOnItsConsole, Consoles!Running
  <2> QED BY <2>1, <2>2
<1>3. OneRunner'
  BY DEF ConsolesInv, OneRunner, Consoles!Running
<1>4. BusyHasRunner'
  <2> SUFFICES ASSUME NEW j \in Ids, s[j] # 0, entries[s[j]].busy
               PROVE  \E d \in Callers : request'[d].pc = "running" /\ request'[d].id = j
    BY DEF BusyHasRunner, Consoles!Running
  <2>1. PICK d \in Callers : Consoles!Running(d) /\ request[d].id = j
    BY DEF ConsolesInv, BusyHasRunner
  <2>2. request'[d] = request[d]
    BY <2>1 DEF Consoles!Running
  <2> QED BY <2>1, <2>2 DEF Consoles!Running
<1>5. OwnConsole' /\ DisposedUnused'
  BY DEF ConsolesInv, OwnConsole, DisposedUnused
<1> QED BY <1>1, <1>2, <1>3, <1>4, <1>5 DEF ConsolesInv

\* What evictExpired leaves.
LEMMA Evicting ==
  ASSUME Consoles!SessionHostAssumption, ConsolesInv,
         NEW gone, gone = disposed \cup {sessions[j] : j \in {j \in Ids : Consoles!Expired(j)}}
  PROVE  /\ Consoles!Evicted \in [Ids -> Consoles!Entries \cup {0}] /\ gone \subseteq Consoles!Entries
         /\ \A j \in Ids : Consoles!Evicted[j] = 0 \/ Consoles!Evicted[j] = sessions[j]
         /\ \A j \in Ids : sessions[j] # 0 /\ entries[sessions[j]].busy => Consoles!Evicted[j] = sessions[j]
         /\ \A e \in gone : entries[e] \in Consoles!Console /\ \A j \in Ids : Consoles!Evicted[j] # e
<1>1. Consoles!Evicted \in [Ids -> Consoles!Entries \cup {0}] /\ gone \subseteq Consoles!Entries
  BY DEF ConsolesInv, ConsoleTypes, Consoles!Evicted, Consoles!Expired
<1>2. \A j \in Ids : Consoles!Evicted[j] = (IF Consoles!Expired(j) THEN 0 ELSE sessions[j])
  BY DEF Consoles!Evicted
<1>3. \A j \in Ids : sessions[j] # 0 /\ entries[sessions[j]].busy => ~Consoles!Expired(j)
  BY DEF Consoles!Expired
<1>4. ASSUME NEW e \in gone PROVE entries[e] \in Consoles!Console /\ \A j \in Ids : Consoles!Evicted[j] # e
  <2>0. e # 0
    BY <1>1 DEF Consoles!Entries
  <2>1. CASE e \in disposed
    BY <1>2, <2>0, <2>1 DEF ConsolesInv, DisposedUnused
  <2>2. CASE e \notin disposed
    <3>1. PICK k \in Ids : Consoles!Expired(k) /\ sessions[k] = e
      BY <2>2
    <3>2. \A j \in Ids : sessions[j] = e => j = k
      BY <2>0, <3>1 DEF ConsolesInv, OwnConsole
    <3> QED BY <1>2, <2>0, <3>1, <3>2 DEF ConsolesInv, OwnConsole
  <2> QED BY <2>1, <2>2
<1> QED BY <1>1, <1>2, <1>3, <1>4

LEMMA AcquireKeeps ==
  ASSUME Consoles!SessionHostAssumption, ConsolesInv, NEW c \in Callers, NEW i \in Ids, Consoles!Acquire(c, i)
  PROVE  ConsolesInv'
<1> DEFINE gone == disposed \cup {sessions[j] : j \in {j \in Ids : Consoles!Expired(j)}}
           s == Consoles!Evicted
<1>1. /\ request[c].pc = "idle" /\ sessions' = s /\ disposed' = gone /\ UNCHANGED idleClock
  BY DEF Consoles!Acquire
<1>2. /\ s \in [Ids -> Consoles!Entries \cup {0}] /\ gone \subseteq Consoles!Entries
      /\ \A j \in Ids : s[j] = 0 \/ s[j] = sessions[j]
      /\ \A j \in Ids : sessions[j] # 0 /\ entries[sessions[j]].busy => s[j] = sessions[j]
      /\ \A e \in gone : entries[e] \in Consoles!Console /\ \A j \in Ids : s[j] # e
  BY Evicting
<1>3. /\ request \in [Callers -> ConsoleRequest] /\ \A d \in Callers : request[d].pc # "idle" => request[d].id \in Ids
  BY DEF ConsolesInv, ConsoleTypes, RunsOnItsConsole
<1>4. CASE UNCHANGED <<entries, request>>
  <2> HIDE DEF s, gone
  <2> QED BY <1>1, <1>2, <1>3, <1>4, EvictKeeps
<1>5. CASE UNCHANGED entries /\ request' = [request EXCEPT ![c] = [pc |-> "mkdir", id |-> i, entry |-> 0]]
  <2>1. /\ request' \in [Callers -> ConsoleRequest]
        /\ \A d \in Callers : /\ request'[d].pc # "idle" => request'[d].id \in Ids
                              /\ request'[d] # request[d] => request'[d].pc # "running" /\ request[d].pc # "running"
    BY <1>1, <1>3, <1>5 DEF ConsoleRequest
  <2> HIDE DEF s, gone
  <2> QED BY <1>1, <1>2, <1>5, <2>1, EvictKeeps
<1>6. ASSUME sessions'[i] # 0, ~entries[sessions'[i]].busy, Consoles!Claim(c, i, sessions'[i]),
             entries' = [entries EXCEPT ![sessions'[i]] = [busy |-> TRUE, lastUsed |-> idleClock]]
      PROVE  ConsolesInv'
  <2>1. PICK f \in Consoles!Entries : f = s[i] /\ f = sessions'[i]
    BY <1>1, <1>2, <1>6
  <2>2. request[c].pc # "running" /\ sessions' = [s EXCEPT ![i] = f]
    BY <1>1, <1>2, <2>1
  <2>3. ~entries[f].busy /\ Consoles!Claim(c, i, f) /\ entries' = [entries EXCEPT ![f] = [busy |-> TRUE, lastUsed |-> idleClock]]
    BY <1>6, <2>1
  <2> HIDE DEF s, gone
  <2> QED BY <1>1, <1>2, <2>1, <2>2, <2>3, ClaimKeeps
<1> QED BY <1>4, <1>5, <1>6 DEF Consoles!Acquire

LEMMA OpenedKeeps ==
  ASSUME Consoles!SessionHostAssumption, ConsolesInv, NEW c \in Callers, Consoles!Opened(c)
  PROVE  ConsolesInv'
<1> DEFINE i == request[c].id
<1>1. /\ request[c].pc = "mkdir" /\ i \in Ids /\ UNCHANGED <<idleClock, disposed>>
  BY DEF Consoles!Opened, ConsolesInv, RunsOnItsConsole
<1>2. /\ sessions \in [Ids -> Consoles!Entries \cup {0}] /\ disposed \subseteq Consoles!Entries
      /\ \A e \in disposed : entries[e] \in Consoles!Console /\ \A j \in Ids : sessions[j] # e
  BY DEF ConsolesInv, ConsoleTypes, DisposedUnused
<1>3. CASE request' = [request EXCEPT ![c] = Consoles!Idle] /\ UNCHANGED <<sessions, entries>>
  <2>1. /\ request' \in [Callers -> ConsoleRequest]
        /\ \A d \in Callers : /\ request'[d].pc # "idle" => request'[d].id \in Ids
                              /\ request'[d] # request[d] => request'[d].pc # "running" /\ request[d].pc # "running"
    BY <1>1, <1>3 DEF ConsolesInv, ConsoleTypes, RunsOnItsConsole, Consoles!Idle, ConsoleRequest
  <2> QED BY <1>1, <1>2, <1>3, <2>1, EvictKeeps
<1>4. ASSUME NEW f \in IF sessions[i] # 0 THEN {sessions[i]} ELSE Consoles!Fresh,
             ~(sessions[i] # 0 /\ entries[sessions[i]].busy),
             sessions' = [sessions EXCEPT ![i] = f], Consoles!Claim(c, i, f),
             entries' = [entries EXCEPT ![f] = [busy |-> TRUE, lastUsed |-> idleClock]]
      PROVE  ConsolesInv'
  <2>1. /\ f \in Consoles!Entries /\ request[c].pc # "running"
        /\ \/ sessions[i] = f /\ ~entries[f].busy
           \/ sessions[i] = 0 /\ entries[f] = None
    BY <1>1, <1>2, <1>4 DEF Consoles!Fresh
  <2> HIDE DEF i
  <2> QED BY <1>1, <1>2, <1>4, <2>1, ClaimKeeps
<1> QED BY <1>3, <1>4 DEF Consoles!Opened

LEMMA ReleaseKeeps ==
  ASSUME Consoles!SessionHostAssumption, ConsolesInv, NEW c \in Callers, Consoles!Release(c)
  PROVE  ConsolesInv'
<1> DEFINE e == request[c].entry
<1>1. /\ request[c].pc = "running" /\ request' = [request EXCEPT ![c] = Consoles!Idle]
      /\ entries' = [entries EXCEPT ![e] = [busy |-> FALSE, lastUsed |-> idleClock]]
      /\ UNCHANGED <<sessions, idleClock, disposed>>
  BY DEF Consoles!Release
<1>2. /\ request \in [Callers -> ConsoleRequest] /\ entries \in [Consoles!Entries -> Consoles!Console \cup {None}]
      /\ sessions \in [Ids -> Consoles!Entries \cup {0}] /\ idleClock \in Nat
  BY DEF ConsolesInv, ConsoleTypes
<1>3. request[c].id \in Ids /\ sessions[request[c].id] = e /\ e # 0 /\ e \in Consoles!Entries
  BY <1>1, <1>2 DEF ConsolesInv, RunsOnItsConsole, Consoles!Running
<1>4. /\ request'[c] = Consoles!Idle /\ \A d \in Callers \ {c} : request'[d] = request[d]
      /\ entries'[e] \in Consoles!Console /\ ~entries'[e].busy
      /\ \A x \in Consoles!Entries \ {e} : entries'[x] = entries[x]
  BY <1>1, <1>2, <1>3 DEF Consoles!Console
<1>5. ConsoleTypes'
  BY <1>1, <1>2, <1>3 DEF ConsolesInv, ConsoleTypes, Consoles!Console, Consoles!Idle, ConsoleRequest
<1>6. RunsOnItsConsole'
  <2> SUFFICES ASSUME NEW d \in Callers \ {c}
               PROVE  /\ request[d].pc # "idle" => request[d].id \in Ids
                      /\ request[d].pc = "running" =>
                           /\ request[d].entry # 0 /\ sessions[request[d].id] = request[d].entry
                           /\ entries'[request[d].entry].busy
    BY <1>1, <1>4 DEF RunsOnItsConsole, Consoles!Running, Consoles!Idle
  <2>1. /\ request[d].pc # "idle" => request[d].id \in Ids
        /\ request[d].pc = "running" =>
             /\ request[d].entry # 0 /\ sessions[request[d].id] = request[d].entry
             /\ entries[request[d].entry].busy /\ request[d].entry \in Consoles!Entries
    BY <1>2 DEF ConsolesInv, RunsOnItsConsole, Consoles!Running
  <2>2. request[d].pc = "running" => request[d].id # request[c].id
    BY <1>1 DEF ConsolesInv, OneRunner, Consoles!Running
  <2>3. request[d].pc = "running" => request[d].entry # e
    BY <1>3, <2>1, <2>2 DEF ConsolesInv, OwnConsole
  <2> QED BY <1>4, <2>1, <2>3
<1>7. OneRunner'
  BY <1>4 DEF ConsolesInv, OneRunner, Consoles!Running, Consoles!Idle
<1>8. BusyHasRunner'
  <2> SUFFICES ASSUME NEW j \in Ids, sessions[j] # 0, entries'[sessions[j]].busy
               PROVE  \E d \in Callers : request'[d].pc = "running" /\ request'[d].id = j
    BY <1>1 DEF BusyHasRunner, Consoles!Running
  <2>1. sessions[j] # e /\ entries[sessions[j]].busy
    BY <1>2, <1>4
  <2>2. PICK d \in Callers : Consoles!Running(d) /\ request[d].id = j
    BY <2>1 DEF ConsolesInv, BusyHasRunner
  <2>3. d # c
    BY <1>3, <2>1, <2>2
  <2> QED BY <1>4, <2>2, <2>3 DEF Consoles!Running
<1>9. OwnConsole' /\ DisposedUnused'
  BY <1>1, <1>2, <1>4 DEF ConsolesInv, ConsoleTypes, OwnConsole, DisposedUnused
<1> QED BY <1>5, <1>6, <1>7, <1>8, <1>9 DEF ConsolesInv

LEMMA TickKeeps ==
  ASSUME Consoles!SessionHostAssumption, ConsolesInv, Consoles!Tick \/ UNCHANGED Consoles!vars
  PROVE  ConsolesInv'
<1>1. UNCHANGED <<sessions, entries, request, disposed>> /\ idleClock' \in 0..IdleTime
  BY DEF Consoles!Tick, Consoles!vars, ConsolesInv, ConsoleTypes, Consoles!SessionHostAssumption
<1>2. ConsoleTypes'
  BY <1>1 DEF ConsolesInv, ConsoleTypes
<1> QED BY <1>1, <1>2
     DEF ConsolesInv, RunsOnItsConsole, OneRunner, BusyHasRunner, OwnConsole, DisposedUnused, Consoles!Running

\* However requests for a session and evictions meet, a session runs one command
\* at a time, on a console that is not disposed of, and is busy only while one
\* runs (session-host.ts: acquire, exec, evictExpired).
THEOREM CommandsAreSerial ==
  ASSUME Consoles!SessionHostAssumption
  PROVE  Consoles!Spec => []Consoles!OneCommandPerSession
<1>1. Consoles!Init => ConsolesInv
  BY ConsolesStart
<1>2. ConsolesInv /\ [Consoles!Next]_(Consoles!vars) => ConsolesInv'
  BY AcquireKeeps, OpenedKeeps, ReleaseKeeps, TickKeeps DEF Consoles!Next
<1>3. ConsolesInv => Consoles!OneCommandPerSession
  BY DEF ConsolesInv, OneRunner, BusyHasRunner, RunsOnItsConsole, DisposedUnused, Consoles!OneCommandPerSession, Consoles!Running
<1> QED BY <1>1, <1>2, <1>3, PTL DEF Consoles!Spec

\* The map, the disposed consoles and the clock stay in their types.
THEOREM HostTypes ==
  ASSUME Consoles!SessionHostAssumption
  PROVE  Consoles!Spec => []Consoles!TypeOK
<1>1. Consoles!Init => ConsolesInv
  BY ConsolesStart
<1>2. ConsolesInv /\ [Consoles!Next]_(Consoles!vars) => ConsolesInv'
  BY AcquireKeeps, OpenedKeeps, ReleaseKeeps, TickKeeps DEF Consoles!Next
<1>3. ConsolesInv => Consoles!TypeOK
  BY DEF ConsolesInv, ConsoleTypes, Consoles!TypeOK
<1> QED BY <1>1, <1>2, <1>3, PTL DEF Consoles!Spec

-----------------------------------------------------------------------------
(* The editor buffer *)

EditorSave == [pc : {"none", "write", "written"}, text : Texts \cup {None}, live : BOOLEAN]
EditorBound == [base : Texts, saved : Texts, stale : BOOLEAN]

EditorTypes ==
    /\ disk \in Texts /\ content \in Texts /\ saved \in Texts /\ seen \in Texts
    /\ shown \in {"closed", "opening", "open"}
    /\ loaded \in Texts \cup {None} /\ typed \in Texts \cup {None}
    /\ reads \in Seq(Texts \cup {None})
    /\ save \in EditorSave /\ (save.pc # "none" => save.text \in Texts)
    /\ draft \in Editor!Draft \cup {None}
    /\ bound \in EditorBound

\* Only a mounted buffer has reads, a reload or a save that will change it.
CallsOfMounted == shown # "open" => reads = <<>> /\ ~reloading /\ ~save.live

\* The draft follows the buffer, and a clean buffer owes the user nothing.
DraftFollows ==
    shown = "open" =>
        /\ content # saved => draft \in Editor!Draft /\ draft.content = content
        /\ content = saved => draft = None /\ typed = None

EditorInv == EditorTypes /\ CallsOfMounted /\ DraftFollows /\ Editor!TypedTextKept

LEMMA EditorStart ==
  ASSUME Editor!FileBufferAssumption, Editor!Init
  PROVE  EditorInv
<1>1. PICK text \in Texts : disk = text
  BY DEF Editor!Init
<1>2. /\ content = text /\ saved = text /\ seen = text /\ shown = "closed" /\ typed = None
      /\ bound = [base |-> text, saved |-> text, stale |-> FALSE] /\ draft = None /\ loaded = None
      /\ reads = <<>> /\ ~reloading /\ save = Editor!NoSave
  BY <1>1 DEF Editor!Init
<1>3. Editor!NoSave \in EditorSave /\ Editor!NoSave.pc = "none" /\ ~Editor!NoSave.live
  BY DEF Editor!NoSave, EditorSave
<1>4. bound \in EditorBound /\ reads \in Seq(Texts \cup {None})
  BY <1>1, <1>2 DEF EditorBound
<1>5. EditorTypes
  BY <1>1, <1>2, <1>3, <1>4 DEF EditorTypes
<1>6. CallsOfMounted /\ DraftFollows /\ Editor!TypedTextKept
  BY <1>2, <1>3 DEF CallsOfMounted, DraftFollows, Editor!TypedTextKept
<1> QED BY <1>5, <1>6 DEF EditorInv

\* attach's listener, whatever has just changed.
LEMMA Updated ==
  ASSUME NEW b \in EditorBound, Editor!Update(b), content' \in Texts, saved' \in Texts
  PROVE  /\ draft' \in Editor!Draft \cup {None} /\ bound' \in EditorBound
         /\ content' # saved' => draft' \in Editor!Draft /\ draft'.content = content'
         /\ content' = saved' => draft' = None
<1>1. b.base \in Texts /\ b.stale \in BOOLEAN
  BY DEF EditorBound
<1>2. CASE content' = saved'
  <2>1. draft' = None /\ bound' = [base |-> content', saved |-> saved', stale |-> FALSE]
    BY <1>2 DEF Editor!Update
  <2> QED BY <1>2, <2>1 DEF EditorBound
<1>3. CASE content' # saved'
  <2>1. PICK base \in Texts, stale \in BOOLEAN :
             /\ draft' = [content |-> content', base |-> base]
             /\ bound' = [base |-> base, saved |-> saved', stale |-> stale]
    BY <1>1, <1>3 DEF Editor!Update
  <2> QED BY <1>3, <2>1 DEF EditorBound, Editor!Draft
<1> QED BY <1>2, <1>3

LEMMA OpenKeeps ==
  ASSUME EditorInv, Editor!Open
  PROVE  EditorInv'
<1>1. /\ shown = "closed" /\ shown' = "opening" /\ loaded' = None
      /\ UNCHANGED <<disk, content, saved, reloading, reads, save, draft, bound, typed, seen>>
  BY DEF Editor!Open, Editor!buffer
<1>2. EditorTypes'
  BY <1>1 DEF EditorInv, EditorTypes
<1>3. CallsOfMounted'
  BY <1>1 DEF EditorInv, CallsOfMounted
<1>4. DraftFollows' /\ Editor!TypedTextKept'
  BY <1>1 DEF EditorInv, DraftFollows, Editor!TypedTextKept
<1> QED BY <1>2, <1>3, <1>4 DEF EditorInv

\* The draft holds what was typed when the component goes.
LEMMA CloseKeeps ==
  ASSUME Editor!FileBufferAssumption, EditorInv, Editor!Close
  PROVE  EditorInv'
<1>1. /\ shown' = "closed" /\ loaded' = None /\ ~reloading' /\ reads' = <<>>
      /\ save' = [save EXCEPT !.live = FALSE]
      /\ UNCHANGED <<disk, content, saved, draft, bound, typed, seen>>
  BY DEF Editor!Close, Editor!buffer
<1>2. save' \in EditorSave /\ save'.pc = save.pc /\ save'.text = save.text /\ ~save'.live
  BY <1>1 DEF EditorInv, EditorTypes, EditorSave
<1>3. reads' \in Seq(Texts \cup {None})
  BY <1>1
<1>4. EditorTypes'
  BY <1>1, <1>2, <1>3 DEF EditorInv, EditorTypes
<1>5. CallsOfMounted' /\ DraftFollows'
  BY <1>1, <1>2 DEF CallsOfMounted, DraftFollows
<1>6. typed # None => draft # None /\ draft.content = typed
  BY DEF EditorInv, DraftFollows, Editor!TypedTextKept, Editor!FileBufferAssumption
<1>7. Editor!TypedTextKept'
  BY <1>1, <1>6 DEF Editor!TypedTextKept
<1> QED BY <1>4, <1>5, <1>7 DEF EditorInv

LEMMA AttachKeeps ==
  ASSUME Editor!FileBufferAssumption, EditorInv, Editor!Attach
  PROVE  EditorInv'
<1> DEFINE b == [base |-> Editor!Base, saved |-> loaded, stale |-> Editor!Base # loaded]
<1>1. /\ shown = "opening" /\ loaded \in Texts /\ shown' = "open" /\ loaded' = None
      /\ content' = (IF draft = None THEN loaded ELSE draft.content) /\ saved' = loaded
      /\ Editor!Update(b) /\ typed' = (IF content' = saved' THEN None ELSE typed)
      /\ seen' = (IF content' = saved' THEN loaded ELSE seen)
      /\ UNCHANGED <<disk, reloading, reads, save, missed>>
  BY DEF Editor!Attach, EditorInv, EditorTypes
<1>2. content' \in Texts /\ b \in EditorBound
  BY <1>1 DEF EditorInv, EditorTypes, Editor!Draft, Editor!Base, EditorBound
<1> HIDE DEF b
<1>3. /\ draft' \in Editor!Draft \cup {None} /\ bound' \in EditorBound
      /\ content' # saved' => draft' \in Editor!Draft /\ draft'.content = content'
      /\ content' = saved' => draft' = None
  BY <1>1, <1>2, Updated
<1>4. EditorTypes'
  BY <1>1, <1>2, <1>3 DEF EditorInv, EditorTypes
<1>5. CallsOfMounted' /\ DraftFollows'
  BY <1>1, <1>3 DEF CallsOfMounted, DraftFollows
<1>6. Editor!TypedTextKept'
  BY <1>1 DEF EditorInv, Editor!TypedTextKept
<1> QED BY <1>4, <1>5, <1>6 DEF EditorInv

\* What such a step does: the listener runs, and the user's text goes only when
\* it is saved or discarded.
BufferChange ==
    /\ shown = "open" /\ shown' = "open" /\ Editor!Update(bound)
    /\ content' \in Texts /\ saved' \in Texts /\ seen' \in Texts /\ disk' = disk
    /\ typed' = None \/ typed' = content' \/ (typed' = typed /\ (content' = content \/ content = saved))
    /\ content' = saved' => typed' = None \/ (typed' = typed /\ content = saved)
    /\ typed' \in Texts \cup {None} /\ loaded' \in Texts \cup {None}
    /\ save' \in EditorSave /\ (save'.pc # "none" => save'.text \in Texts)

\* The user, a save or the disk changes a mounted buffer.
LEMMA BufferKeeps ==
  ASSUME Editor!FileBufferAssumption, EditorInv,
         (\E t \in Texts : Editor!Type(t)) \/ (Editor!SaveDone /\ save.live) \/ Editor!ReloadDone
           \/ (Editor!ApplyRead /\ reads[1] # saved)
  PROVE  EditorInv'
<1>1. BufferChange
  <2>1. ASSUME NEW t \in Texts, Editor!Type(t) PROVE BufferChange
    BY <2>1 DEF BufferChange, Editor!Type, EditorInv, EditorTypes
  <2>2. ASSUME Editor!SaveDone, save.live PROVE BufferChange
    <3>1. shown = "open" /\ save.text \in Texts
      BY <2>2 DEF Editor!SaveDone, EditorInv, CallsOfMounted, EditorTypes
    <3> QED BY <2>2, <3>1 DEF BufferChange, Editor!SaveDone, EditorInv, EditorTypes, Editor!NoSave, EditorSave
  <2>3. ASSUME Editor!ReloadDone PROVE BufferChange
    BY <2>3 DEF BufferChange, Editor!ReloadDone, EditorInv, EditorTypes
  <2>4. ASSUME Editor!ApplyRead, reads[1] # saved PROVE BufferChange
    <3>1. shown = "open" /\ reads[1] \in Texts
      BY <2>4 DEF Editor!ApplyRead, EditorInv, CallsOfMounted, EditorTypes
    <3>2. /\ typed' = typed
          /\ content = saved \/ (content' = content /\ content # saved /\ saved' = saved)
      BY <2>4, <3>1 DEF Editor!ApplyRead, Editor!Applied, Editor!Dirty
    <3> QED BY <2>4, <3>1, <3>2 DEF BufferChange, Editor!ApplyRead, Editor!Applied, Editor!Dirty, EditorInv, EditorTypes
  <2> QED BY <2>1, <2>2, <2>3, <2>4
<1>2. /\ draft' \in Editor!Draft \cup {None} /\ bound' \in EditorBound
      /\ content' # saved' => draft' \in Editor!Draft /\ draft'.content = content'
      /\ content' = saved' => draft' = None
  BY <1>1, Updated DEF BufferChange, EditorInv, EditorTypes
<1>3. reads' \in Seq(Texts \cup {None})
  BY DEF Editor!Type, Editor!SaveDone, Editor!ReloadDone, Editor!ApplyRead, EditorInv, EditorTypes
<1>4. EditorTypes'
  BY <1>1, <1>2, <1>3 DEF BufferChange, EditorInv, EditorTypes
<1>5. content = saved => typed = None
  BY <1>1 DEF BufferChange, EditorInv, DraftFollows
<1>6. CallsOfMounted' /\ DraftFollows'
  BY <1>1, <1>2, <1>5 DEF BufferChange, CallsOfMounted, DraftFollows
<1>7. Editor!TypedTextKept'
  BY <1>1, <1>5 DEF BufferChange, EditorInv, Editor!TypedTextKept
<1> QED BY <1>4, <1>6, <1>7 DEF EditorInv

\* The other steps leave the buffer, the draft and the user's text alone.
Aside ==
    /\ UNCHANGED <<shown, content, saved, draft, bound, typed, seen>>
    /\ disk' \in Texts /\ loaded' \in Texts \cup {None} /\ reads' \in Seq(Texts \cup {None})
    /\ save' \in EditorSave /\ (save'.pc # "none" => save'.text \in Texts)
    /\ shown # "open" => reads' = <<>> /\ ~reloading' /\ ~save'.live

LEMMA AsideKeeps ==
  ASSUME EditorInv, Aside
  PROVE  EditorInv'
BY DEF Aside, EditorInv, EditorTypes, CallsOfMounted, DraftFollows, Editor!TypedTextKept

LEMMA RestKeeps ==
  ASSUME EditorInv,
         Editor!LoadRead \/ Editor!SaveBegin \/ Editor!SaveWrite \/ (Editor!SaveDone /\ ~save.live) \/ Editor!ReloadBegin
           \/ (\E t \in Texts : Editor!External(t)) \/ Editor!ReadText \/ Editor!ReadFails
           \/ (Editor!ApplyRead /\ reads[1] = saved) \/ UNCHANGED Editor!vars
  PROVE  EditorInv'
<1> USE DEF Editor!buffer
<1>0. /\ disk \in Texts /\ content \in Texts /\ loaded \in Texts \cup {None}
      /\ reads \in Seq(Texts \cup {None}) /\ save \in EditorSave /\ (save.pc # "none" => save.text \in Texts)
      /\ shown # "open" => reads = <<>> /\ ~reloading /\ ~save.live
      /\ Editor!NoSave \in EditorSave /\ Editor!NoSave.pc = "none" /\ ~Editor!NoSave.live
  BY DEF EditorInv, EditorTypes, CallsOfMounted, Editor!NoSave, EditorSave
<1>1. ASSUME Editor!LoadRead PROVE Aside
  BY <1>0, <1>1 DEF Editor!LoadRead, Aside
<1>2. ASSUME Editor!SaveBegin PROVE Aside
  BY <1>0, <1>2 DEF Editor!SaveBegin, Aside, EditorSave
<1>3. ASSUME Editor!SaveWrite PROVE Aside
  BY <1>0, <1>3 DEF Editor!SaveWrite, Aside, EditorSave
<1>4. ASSUME Editor!SaveDone /\ ~save.live PROVE Aside
  BY <1>0, <1>4 DEF Editor!SaveDone, Aside, EditorSave
<1>5. ASSUME Editor!ReloadBegin PROVE Aside
  BY <1>0, <1>5 DEF Editor!ReloadBegin, Aside
<1>6. ASSUME \E t \in Texts : Editor!External(t) PROVE Aside
  BY <1>0, <1>6 DEF Editor!External, Aside
<1>7. ASSUME Editor!ReadText PROVE Aside
  BY <1>0, <1>7 DEF Editor!ReadText, Aside
<1>8. ASSUME Editor!ReadFails PROVE Aside
  BY <1>0, <1>8 DEF Editor!ReadFails, Aside
<1>9. ASSUME Editor!ApplyRead /\ reads[1] = saved PROVE Aside
  BY <1>0, <1>9 DEF Editor!ApplyRead, Aside
<1>10. ASSUME UNCHANGED Editor!vars PROVE Aside
  BY <1>0, <1>10 DEF Editor!vars, Aside
<1> QED BY <1>1, <1>2, <1>3, <1>4, <1>5, <1>6, <1>7, <1>8, <1>9, <1>10, AsideKeeps

\* Text that the user typed and neither saved nor discarded stays in the mounted
\* buffer, or among the drafts while there is none (file-buffer.ts, with the
\* binding of Editor.tsx), whatever is saved, reloaded or written meanwhile.
THEOREM TypedTextIsKept ==
  ASSUME Editor!FileBufferAssumption
  PROVE  Editor!Spec => []Editor!TypedTextKept
<1>1. Editor!Init => EditorInv
  BY EditorStart
<1>2. EditorInv /\ [Editor!Next]_(Editor!vars) => EditorInv'
  BY OpenKeeps, CloseKeeps, AttachKeeps, BufferKeeps, RestKeeps DEF Editor!Next
<1>3. EditorInv => Editor!TypedTextKept
  BY DEF EditorInv
<1> QED BY <1>1, <1>2, <1>3, PTL DEF Editor!Spec

\* The buffer, the drafts and the history stay in their types.
THEOREM BufferTypes ==
  ASSUME Editor!FileBufferAssumption
  PROVE  Editor!Spec => []Editor!TypeOK
<1>1. Editor!Init => EditorInv
  BY EditorStart
<1>2. EditorInv /\ [Editor!Next]_(Editor!vars) => EditorInv'
  BY OpenKeeps, CloseKeeps, AttachKeeps, BufferKeeps, RestKeeps DEF Editor!Next
<1>3. EditorInv => Editor!TypeOK
  BY DEF EditorInv, EditorTypes, Editor!TypeOK
<1> QED BY <1>1, <1>2, <1>3, PTL DEF Editor!Spec

-----------------------------------------------------------------------------

SaveNamed == save.pc = "none" => save = Editor!NoSave

\* The base of a draft is the file as the user last saw it.
BaseSeen ==
    /\ draft # None => draft.base = seen
    /\ shown = "open" =>
         /\ bound.saved = saved
         /\ content # saved => draft # None /\ draft.base = bound.base
         /\ content = saved => seen = saved /\ ~bound.stale
         /\ ~bound.stale => bound.base = saved
         /\ bound.stale /\ save.live => save.text # saved

\* Reads take their texts in the order they were issued.
ReadsInOrder == \A i, j \in DOMAIN reads : i < j /\ reads[i] = None => reads[j] = None

\* What was read last, or will be, is the file.
Known ==
    /\ shown = "opening" /\ ~missed => save = Editor!NoSave /\ loaded \in {None, disk}
    /\ shown = "open" /\ ~missed =>
         /\ reads # <<>> => save = Editor!NoSave /\ ~reloading /\ reads[Len(reads)] \in {None, disk}
         /\ reloading => save = Editor!NoSave /\ loaded \in {None, disk}
         /\ reads = <<>> /\ save.pc # "written" /\ ~reloading => changed \/ disk = saved
         /\ save.pc # "none" => save.live
         /\ save.pc = "written" => disk = save.text

EditorShows == SaveNamed /\ BaseSeen /\ ReadsInOrder /\ Known

LEMMA ShowsStart ==
  ASSUME Editor!FileBufferAssumption, Editor!Init
  PROVE  EditorShows
<1>1. /\ shown = "closed" /\ draft = None /\ reads = <<>> /\ save = Editor!NoSave
  BY DEF Editor!Init
<1> QED BY <1>1 DEF EditorShows, SaveNamed, BaseSeen, ReadsInOrder, Known

\* What attach's listener leaves of the base.
LEMMA UpdatedBase ==
  ASSUME NEW b \in EditorBound, Editor!Update(b)
  PROVE  /\ content' = saved' => /\ draft' = None /\ bound'.base = content' /\ bound'.saved = saved' /\ ~bound'.stale
         /\ content' # saved' =>
              /\ draft'.base = bound'.base /\ bound'.saved = saved'
              /\ saved' # b.saved => bound'.base = saved' /\ ~bound'.stale
              /\ saved' = b.saved => bound'.base = b.base /\ bound'.stale = b.stale
<1>1. CASE content' = saved'
  <2>1. draft' = None /\ bound' = [base |-> content', saved |-> saved', stale |-> FALSE]
    BY <1>1 DEF Editor!Update
  <2> QED BY <1>1, <2>1
<1>2. CASE content' # saved' /\ saved' # b.saved
  <2>1. /\ draft' = [content |-> content', base |-> saved']
        /\ bound' = [base |-> saved', saved |-> saved', stale |-> FALSE]
    BY <1>2 DEF Editor!Update
  <2> QED BY <1>2, <2>1
<1>3. CASE content' # saved' /\ saved' = b.saved
  <2>1. /\ draft' = [content |-> content', base |-> b.base]
        /\ bound' = [base |-> b.base, saved |-> saved', stale |-> b.stale]
    BY <1>3 DEF Editor!Update
  <2> QED BY <1>3, <2>1
<1> QED BY <1>1, <1>2, <1>3

\* Steps that leave the buffer alone.
LEMMA AsideBase ==
  ASSUME Editor!FileBufferAssumption, EditorInv, EditorShows, UNCHANGED <<content, saved, draft, bound, seen>>, shown' = shown \/ shown' # "open",
         save'.live => save.live /\ save'.text = save.text
  PROVE  BaseSeen'
  BY DEF EditorShows, BaseSeen

LEMMA SameReads ==
  ASSUME EditorShows, reads' = reads \/ reads' = <<>>
  PROVE  ReadsInOrder'
  BY DEF EditorShows, ReadsInOrder

LEMMA OpenShows ==
  ASSUME Editor!FileBufferAssumption, EditorInv, EditorShows, Editor!Open
  PROVE  EditorShows'
<1>1. /\ shown = "closed" /\ shown' = "opening" /\ loaded' = None /\ missed' = (save # Editor!NoSave)
      /\ UNCHANGED <<disk, content, saved, changed, reloading, reads, save, draft, bound, typed, seen>>
  BY DEF Editor!Open, Editor!buffer
<1>2. BaseSeen' /\ ReadsInOrder'
  BY <1>1, AsideBase, SameReads
<1> QED BY <1>1, <1>2 DEF EditorShows, SaveNamed, Known

LEMMA LoadReadShows ==
  ASSUME Editor!FileBufferAssumption, EditorInv, EditorShows, Editor!LoadRead
  PROVE  EditorShows'
<1>1. /\ loaded' = disk
      /\ UNCHANGED <<disk, shown, content, saved, changed, reloading, reads, save, draft, bound, typed, seen, missed>>
  BY DEF Editor!LoadRead, Editor!buffer
<1>2. BaseSeen' /\ ReadsInOrder'
  BY <1>1, AsideBase, SameReads
<1> QED BY <1>1, <1>2 DEF EditorShows, SaveNamed, Known

LEMMA CloseShows ==
  ASSUME Editor!FileBufferAssumption, EditorInv, EditorShows, Editor!Close
  PROVE  EditorShows'
<1>1. /\ shown' = "closed" /\ reads' = <<>> /\ save' = [save EXCEPT !.live = FALSE]
      /\ UNCHANGED <<disk, content, saved, changed, draft, bound, typed, seen, missed>>
  BY DEF Editor!Close, Editor!buffer
<1>2. save' \in EditorSave /\ save'.pc = save.pc /\ save'.text = save.text /\ ~save'.live
  BY <1>1 DEF EditorInv, EditorTypes, EditorSave
<1>3. BaseSeen' /\ ReadsInOrder'
  BY <1>1, <1>2, AsideBase, SameReads
<1>4. SaveNamed'
  <2>1. CASE save.pc # "none"
    BY <1>2, <2>1 DEF SaveNamed
  <2>2. CASE save = Editor!NoSave
    <3>1. save \in EditorSave /\ save.live = FALSE
      BY <2>2 DEF EditorInv, EditorTypes, Editor!NoSave
    <3>2. [save EXCEPT !.live = FALSE] = save
      BY <3>1 DEF EditorSave
    <3> QED BY <1>1, <2>2, <3>2 DEF SaveNamed
  <2> QED BY <2>1, <2>2 DEF EditorShows, SaveNamed
<1> QED BY <1>1, <1>3, <1>4 DEF EditorShows, Known

LEMMA AttachShows ==
  ASSUME Editor!FileBufferAssumption, EditorInv, EditorShows, Editor!Attach
  PROVE  EditorShows'
<1> DEFINE b == [base |-> Editor!Base, saved |-> loaded, stale |-> Editor!Base # loaded]
<1>1. /\ shown = "opening" /\ loaded \in Texts /\ shown' = "open" /\ loaded' = None /\ ~changed'
      /\ content' = (IF draft = None THEN loaded ELSE draft.content) /\ saved' = loaded
      /\ Editor!Update(b)
      /\ seen' = (IF content' = saved' THEN loaded ELSE seen)
      /\ UNCHANGED <<disk, reloading, reads, save, missed>>
  BY DEF Editor!Attach, EditorInv, EditorTypes
<1>2. b \in EditorBound /\ b.saved = loaded /\ b.base = Editor!Base /\ b.stale = (Editor!Base # loaded)
  BY <1>1 DEF EditorInv, EditorTypes, Editor!Draft, Editor!Base, EditorBound
<1> HIDE DEF b
<1>3. reads = <<>> /\ ~reloading /\ ~save.live
  BY <1>1 DEF EditorInv, CallsOfMounted
<1>4. /\ content' = saved' => /\ draft' = None /\ bound'.base = content' /\ bound'.saved = saved' /\ ~bound'.stale
      /\ content' # saved' =>
           /\ draft'.base = bound'.base /\ bound'.saved = saved'
           /\ bound'.base = Editor!Base /\ bound'.stale = (Editor!Base # loaded)
  BY <1>1, <1>2, UpdatedBase
<1>5. content' # saved' => draft # None /\ Editor!Base = seen /\ draft' # None
  <2>1. content' # saved' => draft # None
    BY <1>1
  <2>2. draft # None => Editor!Base = seen
    BY DEF Editor!Base, EditorShows, BaseSeen
  <2>3. content' # saved' => draft' # None
    BY <1>1, <1>2, Updated DEF Editor!FileBufferAssumption, EditorInv, EditorTypes, Editor!Draft
  <2> QED BY <2>1, <2>2, <2>3
<1>6. BaseSeen'
  BY <1>1, <1>3, <1>4, <1>5 DEF BaseSeen
<1>7. ReadsInOrder' /\ SaveNamed'
  BY <1>1, SameReads DEF EditorShows, SaveNamed
<1>8. Known'
  BY <1>1, <1>3, <1>7 DEF EditorShows, Known, Editor!NoSave, Editor!FileBufferAssumption
<1> QED BY <1>6, <1>7, <1>8 DEF EditorShows

LEMMA TypeShows ==
  ASSUME Editor!FileBufferAssumption, EditorInv, EditorShows, NEW t \in Texts, Editor!Type(t)
  PROVE  EditorShows'
<1>1. /\ shown = "open" /\ shown' = "open" /\ content' = t /\ saved' = saved /\ changed' = changed /\ Editor!Update(bound)
      /\ seen' = (IF t = saved THEN t ELSE seen) /\ t # content
      /\ UNCHANGED <<disk, loaded, reloading, reads, save, missed>>
  BY DEF Editor!Type
<1>2. bound \in EditorBound /\ (draft' # None \/ t = saved)
  BY <1>1, Updated DEF Editor!FileBufferAssumption, EditorInv, EditorTypes, Editor!Draft
<1>3. bound \in EditorBound /\ content' \in Texts /\ saved' \in Texts
  BY <1>1 DEF EditorInv, EditorTypes
<1>4. /\ t = saved => /\ draft' = None /\ bound'.base = t /\ bound'.saved = saved /\ ~bound'.stale
      /\ t # saved => /\ draft'.base = bound'.base /\ bound'.saved = saved
                      /\ saved = bound.saved => bound'.base = bound.base /\ bound'.stale = bound.stale
  BY <1>1, <1>3, UpdatedBase
<1>5. t # saved => bound.base = seen
  BY <1>1 DEF EditorShows, BaseSeen
<1>6. BaseSeen'
  BY <1>1, <1>2, <1>4, <1>5 DEF EditorShows, BaseSeen
<1>7. ReadsInOrder' /\ SaveNamed' /\ Known'
  BY <1>1, SameReads DEF EditorShows, SaveNamed, Known
<1> QED BY <1>6, <1>7 DEF EditorShows

LEMMA SaveBeginShows ==
  ASSUME Editor!FileBufferAssumption, EditorInv, EditorShows, Editor!SaveBegin
  PROVE  EditorShows'
<1>1. /\ shown = "open" /\ save = Editor!NoSave /\ save' = [pc |-> "write", text |-> content, live |-> TRUE]
      /\ missed' = (missed \/ reads # <<>> \/ reloading)
      /\ UNCHANGED <<disk, shown, content, saved, changed, loaded, reloading, reads, draft, bound, typed, seen>>
  BY DEF Editor!SaveBegin, Editor!buffer
<1>2. BaseSeen'
  BY <1>1 DEF EditorShows, BaseSeen
<1>3. ReadsInOrder' /\ SaveNamed'
  BY <1>1, SameReads DEF SaveNamed
<1>4. Known'
  BY <1>1 DEF EditorShows, Known, Editor!NoSave
<1> QED BY <1>2, <1>3, <1>4 DEF EditorShows

LEMMA SaveWriteShows ==
  ASSUME Editor!FileBufferAssumption, EditorInv, EditorShows, Editor!SaveWrite
  PROVE  EditorShows'
<1>1. /\ save.pc = "write"
      /\ UNCHANGED <<shown, content, saved, changed, loaded, reloading, reads, draft, bound, typed, seen, missed>>
  BY DEF Editor!SaveWrite, Editor!buffer
<1>2. save \in EditorSave
  BY DEF EditorInv, EditorTypes
<1>3. CASE disk' = save.text /\ save' = [save EXCEPT !.pc = "written"]
  <2>1. save'.pc = "written" /\ save'.text = save.text /\ save'.live = save.live
    BY <1>2, <1>3 DEF EditorSave
  <2>2. BaseSeen' /\ ReadsInOrder' /\ SaveNamed'
    BY <1>1, <2>1, AsideBase, SameReads DEF SaveNamed
  <2>3. Known'
    BY <1>1, <1>3, <2>1 DEF EditorShows, Known, Editor!NoSave
  <2> QED BY <2>2, <2>3 DEF EditorShows
<1>4. CASE disk' = disk /\ save' = Editor!NoSave
  <2>1. ~save'.live /\ save'.pc = "none"
    BY <1>4 DEF Editor!NoSave
  <2>2. BaseSeen' /\ ReadsInOrder' /\ SaveNamed'
    BY <1>1, <1>4, <2>1, AsideBase, SameReads DEF SaveNamed
  <2>3. Known'
    BY <1>1, <1>4, <2>1 DEF EditorShows, Known, Editor!NoSave
  <2> QED BY <2>2, <2>3 DEF EditorShows
<1> QED BY <1>3, <1>4 DEF Editor!SaveWrite

LEMMA SaveDoneShows ==
  ASSUME Editor!FileBufferAssumption, EditorInv, EditorShows, Editor!SaveDone
  PROVE  EditorShows'
<1>1. /\ save.pc = "written" /\ save' = Editor!NoSave /\ save.text \in Texts
      /\ UNCHANGED <<disk, shown, loaded, reloading, reads, missed>>
  BY DEF Editor!SaveDone, EditorInv, EditorTypes
<1>2. ~save'.live /\ save'.pc = "none" /\ save # Editor!NoSave
  BY <1>1 DEF Editor!NoSave
<1>3. ReadsInOrder' /\ SaveNamed'
  BY <1>1, SameReads DEF SaveNamed
<1>4. CASE save.live
  <2>1. /\ shown = "open" /\ saved' = save.text /\ ~changed' /\ content' = content /\ Editor!Update(bound) /\ seen' = save.text
    BY <1>4 DEF Editor!SaveDone, EditorInv, CallsOfMounted
  <2>2. bound \in EditorBound /\ content' \in Texts /\ saved' \in Texts
    BY <1>1, <2>1 DEF EditorInv, EditorTypes
  <2>3. /\ content' = saved' => /\ draft' = None /\ bound'.base = content' /\ bound'.saved = saved' /\ ~bound'.stale
        /\ content' # saved' =>
             /\ draft' # None
             /\ draft'.base = bound'.base /\ bound'.saved = saved'
             /\ saved' # bound.saved => bound'.base = saved' /\ ~bound'.stale
             /\ saved' = bound.saved => bound'.base = bound.base /\ bound'.stale = bound.stale
    BY <2>1, <2>2, UpdatedBase, Updated DEF Editor!FileBufferAssumption
  <2>4. saved' = bound.saved => ~bound.stale /\ bound.base = saved'
    BY <1>4, <2>1 DEF EditorShows, BaseSeen
  <2>5. BaseSeen'
    BY <1>1, <1>2, <2>1, <2>3, <2>4 DEF BaseSeen
  <2>6. Known'
    BY <1>1, <1>2, <2>1 DEF EditorShows, Known
  <2> QED BY <1>3, <2>5, <2>6 DEF EditorShows
<1>5. CASE ~save.live
  <2>1. UNCHANGED <<content, saved, changed, draft, bound, typed, seen>>
    BY <1>5 DEF Editor!SaveDone, Editor!buffer
  <2>2. BaseSeen'
    BY <1>1, <1>2, <2>1, AsideBase
  <2>3. Known'
    BY <1>1, <1>2, <1>5, <2>1 DEF EditorShows, Known
  <2> QED BY <1>3, <2>2, <2>3 DEF EditorShows
<1> QED BY <1>4, <1>5

LEMMA ReloadShows ==
  ASSUME Editor!FileBufferAssumption, EditorInv, EditorShows, Editor!ReloadBegin \/ Editor!ReloadDone
  PROVE  EditorShows'
<1>1. CASE Editor!ReloadBegin
  <2>1. /\ shown = "open" /\ reloading' /\ loaded' = None /\ missed' = (missed \/ reads # <<>> \/ save # Editor!NoSave)
        /\ UNCHANGED <<disk, shown, content, saved, changed, reads, save, draft, bound, typed, seen>>
    BY <1>1 DEF Editor!ReloadBegin, Editor!buffer
  <2>2. BaseSeen' /\ ReadsInOrder'
    BY <2>1, AsideBase, SameReads
  <2> QED BY <2>1, <2>2 DEF EditorShows, SaveNamed, Known, Editor!NoSave
<1>2. CASE Editor!ReloadDone
  <2>1. /\ shown = "open" /\ reloading /\ loaded \in Texts /\ ~reloading' /\ content' = loaded /\ saved' = loaded
        /\ ~changed' /\ Editor!Update(bound) /\ seen' = loaded
        /\ UNCHANGED <<disk, shown, reads, save, missed>>
    BY <1>2 DEF Editor!ReloadDone, EditorInv, EditorTypes
  <2>2. /\ draft' = None /\ bound'.base = loaded /\ bound'.saved = loaded /\ ~bound'.stale
    BY <2>1, UpdatedBase DEF EditorInv, EditorTypes
  <2>3. BaseSeen' /\ ReadsInOrder'
    BY <2>1, <2>2, SameReads DEF BaseSeen
  <2>4. Known'
    BY <2>1 DEF EditorShows, Known, Editor!NoSave, Editor!FileBufferAssumption
  <2> QED BY <2>1, <2>3, <2>4 DEF EditorShows, SaveNamed
<1> QED BY <1>1, <1>2

LEMMA ExternalShows ==
  ASSUME Editor!FileBufferAssumption, EditorInv, EditorShows, NEW t \in Texts, Editor!External(t)
  PROVE  EditorShows'
<1>1. /\ disk' = t /\ reads' = (IF shown = "open" THEN Append(reads, None) ELSE reads)
      /\ missed' = (missed \/ reloading \/ save # Editor!NoSave \/ shown = "opening")
      /\ UNCHANGED <<shown, content, saved, changed, loaded, reloading, save, draft, bound, typed, seen>>
  BY DEF Editor!External, Editor!buffer
<1>2. reads \in Seq(Texts \cup {None})
  BY DEF EditorInv, EditorTypes
<1>3. BaseSeen' /\ SaveNamed'
  BY <1>1, AsideBase DEF EditorShows, SaveNamed
<1>4. ReadsInOrder'
  BY <1>1, <1>2 DEF EditorShows, ReadsInOrder
<1>5. Known'
  <2>1. CASE shown = "open"
    <3>1. reads' = Append(reads, None)
      BY <1>1, <2>1
    <3>2. reads' # <<>> /\ reads'[Len(reads')] = None
      BY <1>2, <3>1
    <3>3. missed' = (missed \/ reloading \/ save # Editor!NoSave) /\ shown' = "open" /\ save' = save /\ reloading' = reloading
      BY <1>1, <2>1
    <3>4. ~missed' => save = Editor!NoSave /\ ~reloading
      BY <3>3
    <3> QED BY <3>2, <3>3, <3>4 DEF Known, Editor!NoSave
  <2>2. CASE shown # "open"
    <3>1. shown' # "open" /\ (shown' = "opening" => missed')
      BY <1>1, <2>2
    <3> QED BY <3>1 DEF Known
  <2> QED BY <2>1, <2>2
<1> QED BY <1>3, <1>4, <1>5 DEF EditorShows

LEMMA ReadTextShows ==
  ASSUME Editor!FileBufferAssumption, EditorInv, EditorShows, Editor!ReadText
  PROVE  EditorShows'
<1>1. PICK i \in DOMAIN reads : /\ reads[i] = None /\ \A j \in 1..(i - 1) : reads[j] # None
                                /\ reads' = [reads EXCEPT ![i] = disk]
  BY DEF Editor!ReadText
<1>2. /\ reads \in Seq(Texts \cup {None}) /\ disk \in Texts
      /\ UNCHANGED <<disk, shown, content, saved, changed, loaded, reloading, save, draft, bound, typed, seen, missed>>
  BY DEF EditorInv, EditorTypes, Editor!ReadText, Editor!buffer
<1>3. /\ DOMAIN reads' = DOMAIN reads /\ Len(reads') = Len(reads) /\ reads'[i] = disk /\ disk # None
      /\ \A j \in DOMAIN reads : j # i => reads'[j] = reads[j]
  BY <1>1, <1>2 DEF Editor!FileBufferAssumption
<1>4. BaseSeen' /\ SaveNamed'
  BY <1>2, AsideBase DEF EditorShows, SaveNamed
<1>5. ReadsInOrder'
  BY <1>1, <1>2, <1>3 DEF EditorShows, ReadsInOrder
<1>6. reads # <<>> /\ reads' # <<>> /\ reads'[Len(reads')] \in {disk, reads[Len(reads)]}
  BY <1>1, <1>2, <1>3
<1>7. Known'
  BY <1>2, <1>6 DEF EditorShows, Known
<1> QED BY <1>4, <1>5, <1>7 DEF EditorShows

LEMMA TailReads ==
  ASSUME Editor!FileBufferAssumption, EditorInv, EditorShows, reads # <<>>, reads' = Tail(reads)
  PROVE  /\ ReadsInOrder'
         /\ reads' # <<>> => reads'[Len(reads')] = reads[Len(reads)]
         /\ reads' = <<>> => reads[Len(reads)] = reads[1]
<1>1. reads \in Seq(Texts \cup {None})
  BY DEF EditorInv, EditorTypes
<1>2. /\ Len(reads') = Len(reads) - 1 /\ DOMAIN reads' = 1..Len(reads') /\ DOMAIN reads = 1..Len(reads) /\ Len(reads) \in Nat
      /\ \A j \in DOMAIN reads' : reads'[j] = reads[j + 1] /\ j + 1 \in DOMAIN reads
  BY <1>1
<1>3. ReadsInOrder'
  <2> SUFFICES ASSUME NEW i \in DOMAIN reads', NEW j \in DOMAIN reads', i < j, reads'[i] = None
               PROVE  reads'[j] = None
    BY DEF ReadsInOrder
  <2>1. i + 1 \in DOMAIN reads /\ j + 1 \in DOMAIN reads /\ i + 1 < j + 1
    BY <1>2
  <2>2. reads[i + 1] = None
    BY <1>2
  <2>3. reads[j + 1] = None
    BY <2>1, <2>2 DEF EditorShows, ReadsInOrder
  <2> QED BY <1>2, <2>3
<1>4. reads' # <<>> => reads'[Len(reads')] = reads[Len(reads)]
  BY <1>1, <1>2
<1>5. reads' = <<>> => reads[Len(reads)] = reads[1]
  <2> SUFFICES ASSUME reads' = <<>> PROVE Len(reads) = 1
    OBVIOUS
  <2>1. Tail(reads) = <<>> /\ Len(Tail(reads)) = Len(reads) - 1
    BY <1>1
  <2>2. Len(Tail(reads)) = 0
    BY <2>1
  <2> QED BY <1>2, <2>1, <2>2
<1> QED BY <1>3, <1>4, <1>5

LEMMA ReadFailsShows ==
  ASSUME Editor!FileBufferAssumption, EditorInv, EditorShows, Editor!ReadFails
  PROVE  EditorShows'
<1>1. /\ reads # <<>> /\ reads' = Tail(reads) /\ missed'
      /\ UNCHANGED <<disk, shown, content, saved, changed, loaded, reloading, save, draft, bound, typed, seen>>
  BY DEF Editor!ReadFails, Editor!buffer
<1>2. BaseSeen' /\ ReadsInOrder' /\ SaveNamed'
  BY <1>1, AsideBase, TailReads DEF EditorShows, SaveNamed
<1> QED BY <1>1, <1>2 DEF EditorShows, Known

LEMMA ApplyReadShows ==
  ASSUME Editor!FileBufferAssumption, EditorInv, EditorShows, Editor!ApplyRead
  PROVE  EditorShows'
<1>1. /\ reads # <<>> /\ reads[1] # None /\ reads' = Tail(reads) /\ UNCHANGED <<disk, shown, loaded, reloading, save, missed>>
  BY DEF Editor!ApplyRead
<1>2. /\ ReadsInOrder' /\ (reads' # <<>> => reads'[Len(reads')] = reads[Len(reads)])
      /\ (reads' = <<>> => reads[Len(reads)] = reads[1])
  BY <1>1, TailReads
<1>3. shown = "open"
  BY <1>1 DEF EditorInv, CallsOfMounted
<1>4. SaveNamed'
  BY <1>1 DEF EditorShows, SaveNamed
<1>5. CASE reads[1] = saved
  <2>1. UNCHANGED <<content, saved, changed, draft, bound, seen>>
    BY <1>5 DEF Editor!ApplyRead, Editor!buffer
  <2>2. BaseSeen'
    BY <1>1, <2>1, AsideBase
  <2>3. Known'
    BY <1>1, <1>2, <1>3, <1>5, <2>1 DEF EditorShows, Known, Editor!NoSave
  <2> QED BY <1>2, <1>4, <2>2, <2>3 DEF EditorShows
<1>6. CASE reads[1] # saved /\ Editor!Dirty
  <2>1. changed' /\ content' = content /\ saved' = saved /\ seen' = seen /\ Editor!Update(bound) /\ content # saved
    BY <1>6 DEF Editor!ApplyRead, Editor!Applied, Editor!Dirty
  <2>2. bound \in EditorBound /\ content' \in Texts /\ saved' \in Texts
    BY <2>1 DEF EditorInv, EditorTypes
  <2>3. /\ draft' # None /\ draft'.base = bound'.base /\ bound'.saved = saved'
        /\ saved' = bound.saved => bound'.base = bound.base /\ bound'.stale = bound.stale
    BY <2>1, <2>2, UpdatedBase, Updated DEF Editor!FileBufferAssumption
  <2>4. BaseSeen'
    BY <1>1, <1>3, <2>1, <2>3 DEF EditorShows, BaseSeen
  <2>5. Known'
    BY <1>1, <1>2, <1>3, <2>1 DEF EditorShows, Known, Editor!NoSave
  <2> QED BY <1>2, <1>4, <2>4, <2>5 DEF EditorShows
<1>7. CASE reads[1] # saved /\ ~Editor!Dirty
  <2>1. ~changed' /\ content' = reads[1] /\ saved' = reads[1] /\ seen' = reads[1] /\ Editor!Update(bound)
    BY <1>7 DEF Editor!ApplyRead, Editor!Applied, Editor!Dirty
  <2>2. bound \in EditorBound /\ ~bound.stale
    BY <1>3, <1>7 DEF EditorInv, EditorTypes, EditorShows, BaseSeen, Editor!Dirty
  <2>3. draft' = None /\ bound'.base = content' /\ bound'.saved = saved' /\ ~bound'.stale
    BY <2>1, <2>2, UpdatedBase
  <2>4. BaseSeen'
    BY <1>1, <2>1, <2>3 DEF BaseSeen
  <2>5. Known'
    BY <1>1, <1>2, <1>3, <2>1 DEF EditorShows, Known, Editor!NoSave
  <2> QED BY <1>2, <1>4, <2>4, <2>5 DEF EditorShows
<1> QED BY <1>5, <1>6, <1>7

LEMMA NextShows ==
  ASSUME Editor!FileBufferAssumption, EditorInv, EditorShows, [Editor!Next]_(Editor!vars)
  PROVE  EditorShows'
<1>1. ASSUME UNCHANGED Editor!vars PROVE EditorShows'
  BY <1>1 DEF Editor!vars, EditorShows, SaveNamed, BaseSeen, ReadsInOrder, Known
<1> QED BY <1>1, OpenShows, LoadReadShows, AttachShows, CloseShows, TypeShows, ExternalShows, SaveBeginShows, SaveWriteShows,
     SaveDoneShows, ReloadShows, ReadTextShows, ReadFailsShows, ApplyReadShows DEF Editor!Next

\* Nothing that others write is hidden from the user (file-buffer.ts:74).
LEMMA ChangesAreShown ==
  ASSUME Editor!FileBufferAssumption
  PROVE  Editor!Spec => []Editor!ChangesShow
<1>1. Editor!Init => EditorInv /\ EditorShows
  BY EditorStart, ShowsStart
<1>2. EditorInv /\ [Editor!Next]_(Editor!vars) => EditorInv'
  BY OpenKeeps, CloseKeeps, AttachKeeps, BufferKeeps, RestKeeps DEF Editor!Next
<1>3. EditorInv /\ EditorShows /\ [Editor!Next]_(Editor!vars) => EditorShows'
  BY NextShows
<1>4. EditorInv /\ EditorShows => Editor!ChangesShow
  <2> SUFFICES ASSUME EditorInv, EditorShows, Editor!Quiet, ~missed, ~changed, ~bound.stale PROVE disk = IF Editor!Dirty THEN seen ELSE content
    BY DEF Editor!ChangesShow
  <2>1. disk = saved
    BY DEF EditorShows, Known, Editor!Quiet, Editor!NoSave
  <2> QED BY <2>1 DEF EditorShows, BaseSeen, Editor!Dirty, Editor!Quiet
<1> QED BY <1>1, <1>2, <1>3, <1>4, PTL DEF Editor!Spec

-----------------------------------------------------------------------------
(* The controller of a running application *)

Commands == {"suspend", "resume"}
PendingRequest == [id : Nat, command : Commands \cup {"none"}]
Asked == [kind : Commands \cup {"query"}, id : Nat]
Answer == [kind : {"ready", "ack"}, id : Nat, state : {"running", "suspended"}]

\* The queues hold what each side posts, and what has no listener is silent.
ControllerTypes ==
    /\ state \in {"unknown", "unsupported", "running", "suspending", "suspended", "resuming", "error"}
    /\ pending \in PendingRequest /\ ids \in Nat
    /\ app \in {"running", "suspended", "deaf"}
    /\ toApp \in Seq(Asked) /\ toHost \in Seq(Answer)

\* A request is pending exactly while its state is shown; its id is the last.
Requested ==
    /\ pending.id \in 0..ids
    /\ pending = Controller!NoRequest <=> state \notin {"suspending", "resuming"}
    /\ pending # Controller!NoRequest => pending.id = ids /\ ids > 0 /\ pending.command \in Commands
                              /\ state = (IF pending.command = "suspend" THEN "suspending" ELSE "resuming")

\* Until an error gives up on it, the only command on its way is the pending one.
OneCommandUnderWay ==
    state # "error" =>
        /\ \A i \in DOMAIN toApp : toApp[i].kind # "query"
               => pending # Controller!NoRequest /\ toApp[i].id = pending.id /\ toApp[i].kind = pending.command
        /\ \A i, j \in DOMAIN toApp : toApp[i].kind # "query" /\ toApp[j].kind # "query" => i = j

\* An id is used once, also by the answer.
Numbered ==
    /\ \A i \in DOMAIN toApp : toApp[i].kind # "query" => toApp[i].id \in 1..ids
    /\ \A i \in DOMAIN toHost : toHost[i].kind = "ack" => toHost[i].id \in 1..ids

\* An answer to it is the application's state, which nothing will change.
AnswersAreCurrent ==
    state # "error" =>
        \A i \in DOMAIN toHost : toHost[i].kind = "ack" /\ toHost[i].id = pending.id
            => toHost[i].state = app /\ \A j \in DOMAIN toApp : toApp[j].kind = "query"

\* Before the first answer the application has not been asked to do anything.
FirstWord ==
    /\ state \in {"unknown", "unsupported"} => \A i \in DOMAIN toHost : toHost[i].state = app
    /\ state \notin {"unknown", "unsupported"} => app # "deaf"

ControllerInv == ControllerTypes /\ Requested /\ OneCommandUnderWay /\ Numbered /\ AnswersAreCurrent /\ FirstWord /\ Controller!SettledStateIsTrue

LEMMA Appended ==
  ASSUME NEW S, NEW q \in Seq(S), NEW m \in S
  PROVE  /\ Append(q, m) \in Seq(S)
         /\ \A i \in DOMAIN Append(q, m) :
               (i \in DOMAIN q /\ Append(q, m)[i] = q[i]) \/ (i = Len(q) + 1 /\ i \notin DOMAIN q /\ Append(q, m)[i] = m)
         /\ \A i \in DOMAIN q : i \in DOMAIN Append(q, m) /\ Append(q, m)[i] = q[i]
OBVIOUS

LEMMA Removed ==
  ASSUME NEW S, NEW q \in Seq(S), q # <<>>
  PROVE  /\ Tail(q) \in Seq(S) /\ Head(q) = q[1] /\ 1 \in DOMAIN q /\ q[1] \in S
         /\ \A i \in DOMAIN Tail(q) : i \in Nat \ {0} /\ i + 1 \in DOMAIN q /\ Tail(q)[i] = q[i + 1]
OBVIOUS

LEMMA ControllerStarts ==
  ASSUME Controller!Init
  PROVE  ControllerInv
<1>1. ControllerTypes
  BY DEF Controller!Init, ControllerTypes, PendingRequest, Controller!NoRequest, Asked, Commands
<1>2. toHost = <<>> /\ DOMAIN toApp = {1} /\ toApp[1].kind = "query" /\ state = "unknown" /\ pending = Controller!NoRequest /\ pending.id = 0
  BY DEF Controller!Init, Controller!NoRequest
<1> QED BY <1>1, <1>2 DEF Controller!Init, ControllerInv, ControllerTypes, Requested, OneCommandUnderWay, Numbered, AnswersAreCurrent, FirstWord, Controller!SettledStateIsTrue

LEMMA RequestKeeps ==
  ASSUME ControllerInv, NEW command \in Commands, Controller!Request(command)
  PROVE  ControllerInv'
<1> DEFINE m == [kind |-> command, id |-> ids']
<1>1. /\ pending = Controller!NoRequest /\ state \in {"running", "suspended"} /\ app = state
      /\ ids' = ids + 1 /\ pending' = [id |-> ids + 1, command |-> command]
      /\ state' = (IF command = "suspend" THEN "suspending" ELSE "resuming")
      /\ toApp' = Append(toApp, m) /\ UNCHANGED <<probe, app, toHost>>
  BY DEF Controller!Request, Controller!Post, Controller!Target, ControllerInv, Controller!SettledStateIsTrue
<1>2. ids \in Nat /\ toApp \in Seq(Asked) /\ toHost \in Seq(Answer)
  BY DEF ControllerInv, ControllerTypes
<1>3. m \in Asked /\ m.kind = command /\ m.id = ids + 1 /\ m.kind # "query"
  BY <1>1, <1>2 DEF Asked, Commands
<1>4. /\ pending' \in PendingRequest /\ pending'.id = ids + 1 /\ pending'.command = command /\ pending' # Controller!NoRequest
      /\ pending'.id = ids' /\ ids' \in Nat /\ ids' > 0 /\ state' # "error" /\ state' \in {"suspending", "resuming"}
  BY <1>1, <1>2 DEF PendingRequest, Controller!NoRequest, Commands
<1> HIDE DEF m
<1>5. ControllerTypes'
  BY <1>1, <1>2, <1>3, <1>4, Appended DEF ControllerInv, ControllerTypes
<1>6. Requested'
  BY <1>1, <1>2, <1>4 DEF Requested
<1>7. \A i \in DOMAIN toApp : toApp[i].kind = "query"
  BY <1>1 DEF ControllerInv, OneCommandUnderWay
<1>8. \A i \in DOMAIN toApp' : toApp'[i].kind # "query" => i = Len(toApp) + 1 /\ toApp'[i] = m
  BY <1>1, <1>2, <1>3, <1>7, Appended
<1>9. OneCommandUnderWay'
  BY <1>3, <1>4, <1>8 DEF OneCommandUnderWay
<1>10. Numbered'
  <2>1. \A i \in DOMAIN toApp' : toApp'[i].kind # "query" => toApp'[i].id = ids + 1
    BY <1>3, <1>8
  <2> QED BY <1>1, <1>2, <2>1 DEF ControllerInv, Numbered
<1>11. AnswersAreCurrent'
  BY <1>1, <1>2, <1>4 DEF ControllerInv, Numbered, AnswersAreCurrent
<1>12. FirstWord' /\ Controller!SettledStateIsTrue'
  BY <1>1, <1>4 DEF ControllerInv, FirstWord, Controller!SettledStateIsTrue
<1> QED BY <1>5, <1>6, <1>9, <1>10, <1>11, <1>12 DEF ControllerInv

\* Steps that end in an error, which is final.
LEMMA ErrorKeeps ==
  ASSUME ControllerInv, (\E command \in Commands : Controller!RequestFails(command)) \/ Controller!TimedOut
  PROVE  ControllerInv'
<1>1. /\ state' = "error" /\ pending' = Controller!NoRequest /\ UNCHANGED <<ids, app, toApp, toHost>>
  BY DEF Controller!RequestFails, Controller!TimedOut
<1>2. pending' \in PendingRequest /\ pending'.id = 0
  BY <1>1 DEF Controller!NoRequest, PendingRequest
<1>3. state \notin {"unknown", "unsupported"}
  BY DEF Controller!RequestFails, Controller!TimedOut, Controller!Target, ControllerInv, Requested
<1> QED BY <1>1, <1>2, <1>3
     DEF ControllerInv, ControllerTypes, Requested, OneCommandUnderWay, Numbered, AnswersAreCurrent, FirstWord, Controller!SettledStateIsTrue

LEMMA QueryKeeps ==
  ASSUME ControllerInv, Controller!Query
  PROVE  ControllerInv'
<1> DEFINE m == [kind |-> "query", id |-> 0]
<1>1. /\ state' = (IF state = "unsupported" THEN "unknown" ELSE state)
      /\ toApp' = Append(toApp, m) /\ UNCHANGED <<pending, ids, app, toHost>>
  BY DEF Controller!Query, Controller!Post
<1>2. m \in Asked /\ m.kind = "query"
  BY DEF Asked, Commands
<1> HIDE DEF m
<1>3. toApp \in Seq(Asked)
  BY DEF ControllerInv, ControllerTypes
<1>4. ControllerTypes' /\ Requested' /\ FirstWord' /\ Controller!SettledStateIsTrue'
  BY <1>1, <1>2, <1>3, Appended DEF ControllerInv, ControllerTypes, Requested, FirstWord, Controller!SettledStateIsTrue
<1>5. \A i \in DOMAIN toApp' : toApp'[i].kind # "query" => i \in DOMAIN toApp /\ toApp'[i] = toApp[i]
  BY <1>1, <1>2, <1>3, Appended
<1>6. OneCommandUnderWay' /\ Numbered' /\ AnswersAreCurrent'
  BY <1>1, <1>5 DEF ControllerInv, OneCommandUnderWay, Numbered, AnswersAreCurrent
<1> QED BY <1>4, <1>6 DEF ControllerInv

LEMMA ProbedKeeps ==
  ASSUME ControllerInv, Controller!Probed
  PROVE  ControllerInv'
BY DEF Controller!Probed, ControllerInv, ControllerTypes, Requested, OneCommandUnderWay, Numbered, AnswersAreCurrent, FirstWord, Controller!SettledStateIsTrue

LEMMA ReceiveKeeps ==
  ASSUME ControllerInv, Controller!Receive
  PROVE  ControllerInv'
<1> DEFINE m == toHost[1]
<1>1. toHost # <<>> /\ toHost' = Tail(toHost) /\ UNCHANGED <<ids, app, toApp>>
  BY DEF Controller!Receive
<1>2. toHost \in Seq(Answer)
  BY DEF ControllerInv, ControllerTypes
<1>3. /\ Tail(toHost) \in Seq(Answer) /\ Head(toHost) = m /\ 1 \in DOMAIN toHost /\ m \in Answer
      /\ \A i \in DOMAIN toHost' : i + 1 \in DOMAIN toHost /\ toHost'[i] = toHost[i + 1]
  BY <1>1, <1>2, Removed
<1>4. CASE m.kind = "ready" /\ state \in {"unknown", "unsupported"}
  <2>1. state' = m.state /\ pending' = pending /\ m.state = app
    BY <1>3, <1>4 DEF Controller!Receive, Controller!Answers, ControllerInv, FirstWord
  <2>2. m.state \in {"running", "suspended"}
    BY <1>3 DEF Answer
  <2> QED BY <1>1, <1>3, <1>4, <2>1, <2>2
     DEF ControllerInv, ControllerTypes, Requested, OneCommandUnderWay, Numbered, AnswersAreCurrent, FirstWord, Controller!SettledStateIsTrue
<1>5. CASE Controller!Answers(m)
  <2>1. state' = Controller!Confirmed(m) /\ pending' = Controller!NoRequest /\ pending # Controller!NoRequest /\ m.kind = "ack" /\ m.id = pending.id
    BY <1>3, <1>5 DEF Controller!Receive, Controller!Answers
  <2>2. state \in {"suspending", "resuming"} /\ m.state = app /\ \A j \in DOMAIN toApp : toApp[j].kind = "query"
    BY <1>3, <2>1 DEF ControllerInv, Requested, AnswersAreCurrent
  <2>3. state' \in {"running", "suspended", "error"} /\ (state' # "error" => state' = app) /\ app # "deaf"
    BY <2>1, <2>2 DEF Controller!Confirmed, Controller!Target, ControllerInv, FirstWord
  <2>4. pending' \in PendingRequest /\ pending'.id = 0
    BY <2>1 DEF Controller!NoRequest, PendingRequest
  <2>5. ControllerTypes' /\ Requested' /\ FirstWord' /\ Controller!SettledStateIsTrue'
    BY <1>1, <1>3, <2>1, <2>3, <2>4 DEF ControllerInv, ControllerTypes, Requested, FirstWord, Controller!SettledStateIsTrue
  <2>6. OneCommandUnderWay'
    BY <1>1, <2>2 DEF OneCommandUnderWay
  <2>7. Numbered' /\ AnswersAreCurrent'
    BY <1>1, <1>3, <2>4 DEF ControllerInv, ControllerTypes, Numbered, AnswersAreCurrent
  <2> QED BY <2>5, <2>6, <2>7 DEF ControllerInv
<1>6. CASE ~(m.kind = "ready" /\ state \in {"unknown", "unsupported"}) /\ ~Controller!Answers(m)
  <2>1. state' = state /\ pending' = pending
    BY <1>3, <1>6 DEF Controller!Receive
  <2>2. ControllerTypes' /\ Requested' /\ FirstWord' /\ Controller!SettledStateIsTrue'
    BY <1>1, <1>3, <2>1 DEF ControllerInv, ControllerTypes, Requested, FirstWord, Controller!SettledStateIsTrue
  <2>3. OneCommandUnderWay' /\ Numbered' /\ AnswersAreCurrent'
    BY <1>1, <1>3, <2>1 DEF ControllerInv, OneCommandUnderWay, Numbered, AnswersAreCurrent
  <2> QED BY <2>2, <2>3 DEF ControllerInv
<1> QED BY <1>4, <1>5, <1>6

LEMMA AppHandlesKeeps ==
  ASSUME ControllerInv, Controller!AppHandles
  PROVE  ControllerInv'
<1> DEFINE m == toApp[1]
           a == [kind |-> IF m.kind = "query" THEN "ready" ELSE "ack", id |-> m.id, state |-> app']
<1>1. toApp # <<>> /\ toApp' = Tail(toApp) /\ UNCHANGED <<state, pending, ids>>
  BY DEF Controller!AppHandles
<1>2. toApp \in Seq(Asked) /\ toHost \in Seq(Answer)
  BY DEF ControllerInv, ControllerTypes
<1>3. /\ Tail(toApp) \in Seq(Asked) /\ Head(toApp) = m /\ 1 \in DOMAIN toApp /\ m \in Asked
      /\ \A i \in DOMAIN toApp' : i \in Nat \ {0} /\ i + 1 \in DOMAIN toApp /\ toApp'[i] = toApp[i + 1]
  BY <1>1, <1>2, Removed
<1>4. Requested' /\ OneCommandUnderWay'
  <2>1. Requested'
    BY <1>1 DEF ControllerInv, Requested
  <2>2. \A i \in DOMAIN toApp' : toApp'[i].kind # "query" => i \in Nat /\ i + 1 \in DOMAIN toApp /\ toApp'[i] = toApp[i + 1]
    BY <1>3
  <2> QED BY <1>1, <2>1, <2>2 DEF ControllerInv, OneCommandUnderWay
<1>5. CASE app = "deaf"
  <2>1. app' = app /\ toHost' = toHost
    BY <1>5 DEF Controller!AppHandles
  <2>2. Numbered' /\ AnswersAreCurrent'
    BY <1>1, <1>3, <2>1 DEF ControllerInv, Numbered, AnswersAreCurrent
  <2> QED BY <1>1, <1>3, <1>4, <2>1, <2>2 DEF ControllerInv, ControllerTypes, FirstWord, Controller!SettledStateIsTrue
<1>6. CASE app # "deaf" /\ m.kind = "query"
  <2>1. app' = app /\ toHost' = Append(toHost, a)
    BY <1>3, <1>6 DEF Controller!AppHandles
  <2>2. a \in Answer /\ a.kind = "ready" /\ a.state = app
    BY <1>2, <1>3, <1>6, <2>1 DEF ControllerInv, ControllerTypes, Answer, Asked
  <2> HIDE DEF a
  <2>3. /\ Append(toHost, a) \in Seq(Answer)
        /\ \A i \in DOMAIN toHost' : (i \in DOMAIN toHost /\ toHost'[i] = toHost[i]) \/ toHost'[i] = a
    BY <1>2, <2>1, <2>2, Appended
  <2>4. Numbered' /\ AnswersAreCurrent'
    BY <1>1, <1>3, <2>1, <2>2, <2>3 DEF ControllerInv, Numbered, AnswersAreCurrent
  <2> QED BY <1>1, <1>3, <1>4, <2>1, <2>2, <2>3, <2>4 DEF ControllerInv, ControllerTypes, FirstWord, Controller!SettledStateIsTrue
<1>7. CASE app # "deaf" /\ m.kind # "query"
  <2>1. app' \in {app, Controller!Target(m.kind)} /\ toHost' = Append(toHost, a)
    BY <1>3, <1>7 DEF Controller!AppHandles
  <2>2. app' \in {"running", "suspended"}
    BY <1>7, <2>1 DEF Controller!Target, ControllerInv, ControllerTypes
  <2>3. a \in Answer /\ a.kind = "ack" /\ a.state = app' /\ a.id = m.id
    BY <1>2, <1>3, <1>7, <2>2 DEF Answer, Asked
  <2> HIDE DEF a
  <2>4. /\ Append(toHost, a) \in Seq(Answer)
        /\ \A i \in DOMAIN toHost' : (i \in DOMAIN toHost /\ toHost'[i] = toHost[i]) \/ toHost'[i] = a
    BY <1>2, <2>1, <2>3, Appended
  <2>5. ControllerTypes'
    BY <1>1, <1>3, <2>1, <2>2, <2>4 DEF ControllerInv, ControllerTypes
  <2>6. state # "error" =>
          /\ pending # Controller!NoRequest /\ m.id = pending.id
          /\ state \in {"suspending", "resuming"}
          /\ \A j \in DOMAIN toApp' : toApp'[j].kind = "query"
          /\ \A i \in DOMAIN toHost : ~(toHost[i].kind = "ack" /\ toHost[i].id = pending.id)
    <3> SUFFICES ASSUME state # "error"
                 PROVE  /\ pending # Controller!NoRequest /\ m.id = pending.id
                        /\ state \in {"suspending", "resuming"}
                        /\ \A j \in DOMAIN toApp' : toApp'[j].kind = "query"
                        /\ \A i \in DOMAIN toHost : ~(toHost[i].kind = "ack" /\ toHost[i].id = pending.id)
      OBVIOUS
    <3>1. pending # Controller!NoRequest /\ m.id = pending.id /\ state \in {"suspending", "resuming"}
      BY <1>3, <1>7 DEF ControllerInv, OneCommandUnderWay, Requested
    <3>2. \A j \in DOMAIN toApp : j # 1 => toApp[j].kind = "query"
      BY <1>3, <1>7 DEF ControllerInv, OneCommandUnderWay
    <3>3. \A j \in DOMAIN toApp' : toApp'[j].kind = "query"
      BY <1>3, <3>2
    <3>4. \A i \in DOMAIN toHost : ~(toHost[i].kind = "ack" /\ toHost[i].id = pending.id)
      BY <1>3, <1>7 DEF ControllerInv, AnswersAreCurrent
    <3> QED BY <3>1, <3>3, <3>4
  <2>7. Numbered'
    BY <1>1, <1>3, <1>7, <2>1, <2>3, <2>4 DEF ControllerInv, Numbered
  <2>8. AnswersAreCurrent'
    BY <1>1, <2>1, <2>3, <2>4, <2>6 DEF AnswersAreCurrent
  <2>9. FirstWord' /\ Controller!SettledStateIsTrue'
    BY <1>1, <2>2, <2>6 DEF ControllerInv, FirstWord, Controller!SettledStateIsTrue
  <2> QED BY <1>4, <2>5, <2>7, <2>8, <2>9 DEF ControllerInv
<1> QED BY <1>5, <1>6, <1>7

LEMMA AppReloadsKeeps ==
  ASSUME ControllerInv, Controller!AppReloads
  PROVE  ControllerInv'
<1> DEFINE m == [kind |-> "ready", id |-> 0, state |-> "running"]
<1>1. app = "running" /\ toApp' = <<>> /\ toHost' = Append(toHost, m) /\ UNCHANGED <<state, pending, ids, app>>
  BY DEF Controller!AppReloads
<1>2. m \in Answer /\ m.kind = "ready" /\ m.state = "running"
  BY DEF Answer
<1> HIDE DEF m
<1>3. toHost \in Seq(Answer)
  BY DEF ControllerInv, ControllerTypes
<1>4. /\ Append(toHost, m) \in Seq(Answer)
      /\ \A i \in DOMAIN toHost' : (i \in DOMAIN toHost /\ toHost'[i] = toHost[i]) \/ toHost'[i] = m
  BY <1>1, <1>2, <1>3, Appended
<1>5. toApp' \in Seq(Asked) /\ DOMAIN toApp' = {}
  BY <1>1
<1>6. ControllerTypes' /\ Requested' /\ OneCommandUnderWay'
  BY <1>1, <1>4, <1>5 DEF ControllerInv, ControllerTypes, Requested, OneCommandUnderWay
<1>7. Numbered' /\ AnswersAreCurrent' /\ FirstWord' /\ Controller!SettledStateIsTrue'
  BY <1>1, <1>2, <1>4, <1>5 DEF ControllerInv, Numbered, AnswersAreCurrent, FirstWord, Controller!SettledStateIsTrue
<1> QED BY <1>6, <1>7 DEF ControllerInv

LEMMA ControllerInvariant == Controller!Spec => []ControllerInv
<1>1. Controller!Init => ControllerInv
  BY ControllerStarts
<1>2. ControllerInv /\ [Controller!Next]_(Controller!vars) => ControllerInv'
  <2> SUFFICES ASSUME ControllerInv, [Controller!Next]_(Controller!vars) PROVE ControllerInv'
    OBVIOUS
  <2>1. CASE UNCHANGED Controller!vars
    BY <2>1 DEF Controller!vars, ControllerInv, ControllerTypes, Requested, OneCommandUnderWay, Numbered, AnswersAreCurrent, FirstWord, Controller!SettledStateIsTrue
  <2>2. CASE Controller!Next
    BY <2>2, RequestKeeps, ErrorKeeps, QueryKeeps, ProbedKeeps, ReceiveKeeps, AppHandlesKeeps, AppReloadsKeeps
       DEF Controller!Next, Controller!Timers, Commands
  <2> QED BY <2>1, <2>2
<1> QED BY <1>1, <1>2, PTL DEF Controller!Spec

\* A settled state is the application's (lifecycle.ts:29).
LEMMA SettledIsTrue == Controller!Spec => [](Controller!TypeOK /\ Controller!SettledStateIsTrue)
<1>1. ControllerInv => Controller!TypeOK /\ Controller!SettledStateIsTrue
  BY DEF ControllerInv, ControllerTypes, Requested, Controller!TypeOK
<1> QED BY <1>1, ControllerInvariant, PTL

-----------------------------------------------------------------------------
(* The application runtime *)

Pcs == {"idle", "capture", "evidence", "admitted", "granting", "ready"}
LaunchCall == [pc : Pcs, mode : {"release", "development"}, auth : BOOLEAN, version : Versions \cup {0},
         until : Nat, session : SessionIds \cup {0}]
Term == [version : Versions \cup {0}, until : Nat]
Message == {"grant", "revoke"} \X SessionIds \X Nat

RuntimeTypes ==
    /\ files \in Versions /\ runClock \in Nat /\ timer \in Nat
    /\ phase \in {"stopped", "opening", "running", "error"}
    /\ generation \in Launches \cup {None}
    /\ session \in SessionIds \cup {0}
    /\ development \in Term /\ lease \in Term /\ admitted \subseteq Term
    /\ launch \in [Launches -> LaunchCall]
    /\ toWorker \in Seq(Message)
    /\ granted \in [SessionIds -> Nat]

\* The phase tells what the page has: a current launch, a session, or neither.
Phases ==
    /\ phase = "opening" <=> generation # None
    /\ phase \in {"stopped", "error"} => session = 0
    /\ phase = "running" => session # 0 /\ timer = lease.until /\ rows = {session}
    /\ phase # "running" => rows = {} /\ timer = 0

\* The current launch is pending, and the session, once there is one, is its own.
CurrentLaunch ==
    generation # None =>
        /\ launch[generation].pc # "idle"
        /\ launch[generation].pc \in {"capture", "evidence", "admitted"} => session = 0
        /\ launch[generation].pc \in {"granting", "ready"} =>
             session = launch[generation].session /\ session # 0 /\ lease.until = launch[generation].until

\* A revocation follows every grant that is not the page's session any more.
RevokesFollow ==
    /\ \A i \in DOMAIN toWorker : toWorker[i][1] = "grant" =>
         toWorker[i][2] = session \/ \E j \in DOMAIN toWorker : j > i /\ toWorker[j][1] = "revoke"
                                                                /\ toWorker[j][2] = toWorker[i][2]
    /\ \A s \in SessionIds : granted[s] # 0 => s = session \/ Runtime!Revoking(s)

\* What is admitted, is authorized or is served was allowed, while it lasts.
Allowed(t) == runClock < t.until => t \in admitted
Terms ==
    /\ Allowed(development)
    /\ \A l \in Launches : launch[l].pc \in {"admitted", "granting", "ready"} =>
         Allowed([version |-> launch[l].version, until |-> launch[l].until])
    /\ session # 0 => Allowed(lease)

RuntimeInv == RuntimeTypes /\ Phases /\ CurrentLaunch /\ RevokesFollow /\ Terms

-----------------------------------------------------------------------------

LEMMA RuntimeStarts ==
  ASSUME Runtime!AppRuntimeAssumption, Runtime!Init
  PROVE  RuntimeInv
<1>1. Runtime!Idle \in LaunchCall /\ Runtime!Idle.pc = "idle"
  BY DEF Runtime!Idle, LaunchCall, Pcs
<1>2. Runtime!Free \in Term /\ Runtime!Free.until = 0
  BY DEF Runtime!Free, Term
<1>3. RuntimeTypes
  BY <1>1, <1>2 DEF Runtime!Init, RuntimeTypes
<1>4. Terms
  BY <1>1, <1>2 DEF Runtime!Init, Terms, Allowed
<1> QED BY <1>3, <1>4 DEF Runtime!Init, RuntimeInv, Phases, CurrentLaunch, RevokesFollow

\* What Stopped leaves.
LEMMA AfterStop ==
  ASSUME Runtime!AppRuntimeAssumption, RuntimeInv, Runtime!Stopped, granted' = granted
  PROVE  /\ toWorker' \in Seq(Message) /\ session' = 0 /\ lease' \in Term /\ timer' = 0 /\ rows' = {}
         /\ RevokesFollow'
<1>1. /\ toWorker' = (IF session # 0 THEN Append(toWorker, <<"revoke", session, 0>>) ELSE toWorker)
      /\ session' = 0 /\ lease' = Runtime!Free /\ timer' = 0 /\ rows' = rows \ {session}
  BY DEF Runtime!Stopped
<1>2. toWorker \in Seq(Message) /\ session \in SessionIds \cup {0} /\ rows \subseteq {session}
  BY DEF RuntimeInv, RuntimeTypes, Phases
<1>3. Runtime!Free \in Term
  BY DEF Runtime!Free, Term
<1>4. CASE session = 0
  <2>1. toWorker' = toWorker /\ session' = session
    BY <1>1, <1>4
  <2> QED BY <1>1, <1>2, <1>3, <2>1 DEF RuntimeInv, RevokesFollow, Runtime!Revoking
<1>5. CASE session # 0
  <2> DEFINE m == <<"revoke", session, 0>>
             n == Len(toWorker) + 1
  <2>1. m \in Message /\ m[1] = "revoke" /\ m[2] = session
    BY <1>2, <1>5 DEF Message
  <2>2. toWorker' = Append(toWorker, m)
    BY <1>1, <1>5
  <2> HIDE DEF m
  <2>3. /\ toWorker' \in Seq(Message) /\ n \in Nat /\ DOMAIN toWorker = 1..(n - 1) /\ DOMAIN toWorker' = 1..n
        /\ toWorker'[n] = m /\ \A i \in DOMAIN toWorker : toWorker'[i] = toWorker[i]
    BY <1>2, <2>1, <2>2
  <2>4. ASSUME NEW i \in DOMAIN toWorker', toWorker'[i][1] = "grant"
        PROVE  \E j \in DOMAIN toWorker' : j > i /\ toWorker'[j][1] = "revoke" /\ toWorker'[j][2] = toWorker'[i][2]
    <3> HIDE DEF n
    <3>1. i \in DOMAIN toWorker /\ toWorker'[i] = toWorker[i] /\ i < n
      BY <2>1, <2>3, <2>4
    <3>2. CASE toWorker[i][2] = session
      BY <2>1, <2>3, <3>1, <3>2
    <3>3. CASE toWorker[i][2] # session
      <4>1. PICK j \in DOMAIN toWorker : j > i /\ toWorker[j][1] = "revoke" /\ toWorker[j][2] = toWorker[i][2]
        BY <2>4, <3>1, <3>3 DEF RuntimeInv, RevokesFollow
      <4>2. j \in DOMAIN toWorker' /\ toWorker'[j] = toWorker[j]
        BY <2>3, <4>1
      <4> QED BY <3>1, <4>1, <4>2
    <3> QED BY <3>2, <3>3
  <2>5. ASSUME NEW s \in SessionIds, granted[s] # 0
        PROVE  \E i \in DOMAIN toWorker' : toWorker'[i][1] = "revoke" /\ toWorker'[i][2] = s
    <3>1. CASE s = session
      BY <2>1, <2>3, <3>1
    <3>2. CASE s # session
      BY <2>3, <2>5, <3>2 DEF RuntimeInv, RevokesFollow, Runtime!Revoking
    <3> QED BY <3>1, <3>2
  <2>6. RevokesFollow'
    BY <2>4, <2>5 DEF RevokesFollow, Runtime!Revoking
  <2> QED BY <1>1, <1>2, <1>3, <2>3, <2>6
<1> QED BY <1>4, <1>5

\* Steps that leave the page without a session and a current launch.
LEMMA StopKeeps ==
  ASSUME Runtime!AppRuntimeAssumption, RuntimeInv, Runtime!Stop, phase' \in {"stopped", "error"},
         launch' \in [Launches -> LaunchCall],
         \A l \in Launches : launch'[l] = launch[l] \/ launch'[l].pc = "idle",
         development' = development \/ development' = Runtime!Free,
         UNCHANGED <<files, runClock, granted, admitted>>
  PROVE  RuntimeInv'
<1>1. Runtime!Stopped /\ generation' = None
  BY DEF Runtime!Stop
<1>2. /\ toWorker' \in Seq(Message) /\ session' = 0 /\ lease' \in Term /\ timer' = 0 /\ rows' = {}
      /\ RevokesFollow'
  BY <1>1, AfterStop
<1>3. Runtime!Free \in Term /\ Runtime!Free.until = 0
  BY DEF Runtime!Free, Term
<1>4. RuntimeTypes'
  BY <1>1, <1>2, <1>3 DEF RuntimeInv, RuntimeTypes
<1>5. Phases' /\ CurrentLaunch'
  BY <1>1, <1>2 DEF Phases, CurrentLaunch
<1>6. Terms'
  BY <1>2, <1>3 DEF RuntimeInv, RuntimeTypes, Terms, Allowed
<1> QED BY <1>2, <1>4, <1>5, <1>6 DEF RuntimeInv

Early == {"capture", "evidence", "admitted"}

\* Steps of one launch that leave the page alone.
LEMMA LaunchStepKeeps ==
  ASSUME Runtime!AppRuntimeAssumption, RuntimeInv, NEW l \in Launches, NEW f \in LaunchCall,
         launch' = [launch EXCEPT ![l] = f], UNCHANGED <<files, runClock, phase, Runtime!page, granted>>,
         generation = l => f.pc \in Early /\ launch[l].pc \in Early,
         development' \in Term, admitted \subseteq admitted', admitted' \subseteq Term,
         runClock < development'.until => development' \in admitted',
         f.pc \in {"admitted", "granting", "ready"} /\ runClock < f.until
             => [version |-> f.version, until |-> f.until] \in admitted'
  PROVE  RuntimeInv'
<1>1. launch \in [Launches -> LaunchCall] /\ UNCHANGED <<generation, toWorker, session, lease, timer, rows, runClock, phase, granted>>
  BY DEF RuntimeInv, RuntimeTypes, Runtime!page
<1>2. launch' \in [Launches -> LaunchCall] /\ launch'[l] = f /\ \A k \in Launches : k # l => launch'[k] = launch[k]
  BY <1>1
<1>3. RuntimeTypes'
  BY <1>1, <1>2 DEF RuntimeInv, RuntimeTypes
<1>4. Phases' /\ RevokesFollow'
  BY <1>1 DEF RuntimeInv, Phases, RevokesFollow, Runtime!Revoking
<1>5. CurrentLaunch'
  <2>1. CASE generation = l
    <3>1. launch[l].pc \in Early /\ f.pc \in Early /\ generation # None
      BY <2>1 DEF Runtime!AppRuntimeAssumption
    <3>2. session = 0
      BY <2>1, <3>1 DEF RuntimeInv, CurrentLaunch, Early
    <3> QED BY <1>1, <1>2, <2>1, <3>1, <3>2 DEF CurrentLaunch, Early
  <2>2. CASE generation # l
    BY <1>1, <1>2, <2>2 DEF RuntimeInv, RuntimeTypes, CurrentLaunch
  <2> QED BY <2>1, <2>2
<1>6. Terms'
  <2>1. \A t : runClock < t.until /\ t \in admitted => t \in admitted'
    OBVIOUS
  <2>2. session' # 0 => (Allowed(lease))'
    BY <1>1, <2>1 DEF RuntimeInv, Terms, Allowed
  <2>3. (Allowed(development))'
    BY <1>1 DEF Allowed
  <2>4. ASSUME NEW k \in Launches, launch'[k].pc \in {"admitted", "granting", "ready"}, runClock < launch'[k].until
        PROVE  [version |-> launch'[k].version, until |-> launch'[k].until] \in admitted'
    <3>1. CASE k = l
      BY <1>2, <2>4, <3>1
    <3>2. CASE k # l
      <4>1. launch'[k] = launch[k]
        BY <1>2, <3>2
      <4>2. [version |-> launch[k].version, until |-> launch[k].until] \in admitted
        BY <2>4, <4>1 DEF RuntimeInv, Terms, Allowed
      <4> QED BY <4>1, <4>2
    <3> QED BY <3>1, <3>2
  <2> QED BY <1>1, <2>2, <2>3, <2>4 DEF Terms, Allowed
<1> QED BY <1>3, <1>4, <1>5, <1>6 DEF RuntimeInv

LEMMA IdleCall == Runtime!Idle \in LaunchCall /\ Runtime!Idle.pc = "idle"
BY DEF Runtime!Idle, LaunchCall, Pcs

LEMMA FailedKeeps ==
  ASSUME Runtime!AppRuntimeAssumption, RuntimeInv, NEW l \in Launches, Runtime!Failed(l),
         UNCHANGED <<files, runClock, development, granted, admitted>>
  PROVE  RuntimeInv'
<1>1. launch' = [launch EXCEPT ![l] = Runtime!Idle] /\ launch \in [Launches -> LaunchCall] /\ Runtime!Idle \in LaunchCall /\ Runtime!Idle.pc = "idle"
  BY IdleCall DEF Runtime!Failed, Runtime!Goto, RuntimeInv, RuntimeTypes
<1>2. CASE Runtime!Current(l)
  <2>1. /\ launch' \in [Launches -> LaunchCall]
        /\ \A k \in Launches : launch'[k] = launch[k] \/ launch'[k].pc = "idle"
    BY <1>1
  <2> QED BY <1>2, <2>1, StopKeeps DEF Runtime!Failed
<1>3. CASE ~Runtime!Current(l)
  <2>1. UNCHANGED <<Runtime!page, phase>> /\ generation # l
    BY <1>3 DEF Runtime!Failed, Runtime!Current
  <2>2. development \in Term /\ admitted \subseteq Term /\ (runClock < development.until => development \in admitted)
    BY DEF RuntimeInv, RuntimeTypes, Terms, Allowed
  <2> QED BY <1>1, <2>1, <2>2, LaunchStepKeeps
<1> QED BY <1>2, <1>3

LEMMA LaunchKeeps ==
  ASSUME Runtime!AppRuntimeAssumption, RuntimeInv, NEW l \in Launches, NEW mode \in {"release", "development"}, NEW auth \in BOOLEAN,
         Runtime!Launch(l, mode, auth)
  PROVE  RuntimeInv'
<1> DEFINE f == [Runtime!Idle EXCEPT !.pc = "capture", !.mode = mode, !.auth = auth]
<1>1. /\ Runtime!Stopped /\ generation' = l /\ phase' = "opening" /\ launch' = [launch EXCEPT ![l] = f]
      /\ UNCHANGED <<files, runClock, development, granted, admitted>>
  BY DEF Runtime!Launch, Runtime!Goto
<1>2. f \in LaunchCall /\ f.pc = "capture"
  BY IdleCall DEF LaunchCall, Pcs
<1> HIDE DEF f
<1>3. /\ toWorker' \in Seq(Message) /\ session' = 0 /\ lease' \in Term /\ timer' = 0 /\ rows' = {}
      /\ RevokesFollow'
  BY <1>1, AfterStop
<1>4. launch' \in [Launches -> LaunchCall] /\ launch'[l] = f /\ \A k \in Launches : k # l => launch'[k] = launch[k]
  BY <1>1, <1>2 DEF RuntimeInv, RuntimeTypes
<1>5. RuntimeTypes' /\ Phases' /\ CurrentLaunch'
  BY <1>1, <1>2, <1>3, <1>4 DEF RuntimeInv, RuntimeTypes, Phases, CurrentLaunch, Runtime!AppRuntimeAssumption
<1>6. Terms'
  BY <1>1, <1>2, <1>3, <1>4 DEF RuntimeInv, Terms, Allowed
<1> QED BY <1>3, <1>5, <1>6 DEF RuntimeInv

LEMMA CapturedKeeps ==
  ASSUME Runtime!AppRuntimeAssumption, RuntimeInv, NEW l \in Launches, Runtime!Captured(l)
  PROVE  RuntimeInv'
<1>1. /\ launch[l].pc = "capture" /\ UNCHANGED <<files, runClock, granted>>
      /\ launch[l] \in LaunchCall /\ files \in Versions /\ runClock \in Nat /\ development \in Term /\ admitted \subseteq Term
      /\ Window \in Nat /\ (runClock < development.until => development \in admitted)
  BY DEF Runtime!Captured, RuntimeInv, RuntimeTypes, Runtime!AppRuntimeAssumption, Terms, Allowed
<1>2. CASE launch[l].mode = "release"
  <2> DEFINE f == [launch[l] EXCEPT !.pc = "evidence", !.version = files]
  <2>1. launch' = [launch EXCEPT ![l] = f] /\ UNCHANGED <<development, phase, Runtime!page, admitted>>
    BY <1>2 DEF Runtime!Captured, Runtime!Goto
  <2>2. f \in LaunchCall /\ f.pc = "evidence"
    BY <1>1 DEF LaunchCall, Pcs
  <2> HIDE DEF f
  <2> QED BY <1>1, <2>1, <2>2, LaunchStepKeeps DEF Early
<1>3. CASE launch[l].mode = "development" /\ (launch[l].auth \/ Runtime!Live)
  <2> DEFINE d == [version |-> files, until |-> runClock + Window]
             f == [launch[l] EXCEPT !.pc = "admitted", !.version = files, !.until = development'.until]
  <2>1. /\ development' = (IF launch[l].auth THEN d ELSE development)
        /\ admitted' = (IF launch[l].auth THEN admitted \cup {development'} ELSE admitted)
        /\ launch' = [launch EXCEPT ![l] = f] /\ UNCHANGED <<phase, Runtime!page>>
    BY <1>3 DEF Runtime!Captured, Runtime!Goto
  <2>2. d \in Term /\ d.version = files
    BY <1>1 DEF Term
  <2> HIDE DEF d
  <2>3. development' \in Term /\ development'.version = files
    BY <1>1, <1>3, <2>1, <2>2 DEF Runtime!Live
  <2>4. /\ admitted \subseteq admitted' /\ admitted' \subseteq Term
        /\ (runClock < development'.until => development' \in admitted')
    BY <1>1, <2>1, <2>3
  <2>5. f \in LaunchCall /\ f.pc = "admitted" /\ f.version = files /\ f.until = development'.until
    BY <1>1, <2>3 DEF LaunchCall, Pcs, Term
  <2>6. [version |-> files, until |-> development'.until] = development'
    BY <2>3 DEF Term
  <2> HIDE DEF f
  <2> QED BY <1>1, <2>1, <2>3, <2>4, <2>5, <2>6, LaunchStepKeeps DEF Early
<1>4. CASE launch[l].mode = "development" /\ ~launch[l].auth /\ ~Runtime!Live
  <2>1. Runtime!Failed(l) /\ UNCHANGED <<development, admitted>>
    BY <1>4 DEF Runtime!Captured
  <2> QED BY <1>1, <2>1, FailedKeeps
<1> QED BY <1>2, <1>3, <1>4 DEF Runtime!Captured

LEMMA ApprovedKeeps ==
  ASSUME Runtime!AppRuntimeAssumption, RuntimeInv, NEW l \in Launches, Runtime!Approved(l)
  PROVE  RuntimeInv'
<1>1. /\ launch[l].pc = "evidence" /\ UNCHANGED <<files, runClock, phase, Runtime!page, development, granted>>
      /\ launch[l] \in LaunchCall /\ runClock \in Nat /\ development \in Term /\ admitted \subseteq Term
      /\ Window \in Nat /\ (runClock < development.until => development \in admitted)
  BY DEF Runtime!Approved, RuntimeInv, RuntimeTypes, Runtime!AppRuntimeAssumption, Terms, Allowed
<1>2. PICK t \in 1..Window :
        /\ launch' = [launch EXCEPT ![l] = [launch[l] EXCEPT !.pc = "admitted", !.until = runClock + t]]
        /\ admitted' = admitted \cup {[version |-> launch[l].version, until |-> runClock + t]}
  BY DEF Runtime!Approved, Runtime!Goto
<1> DEFINE f == [launch[l] EXCEPT !.pc = "admitted", !.until = runClock + t]
<1>3. f \in LaunchCall /\ f.pc = "admitted" /\ f.version = launch[l].version /\ f.until = runClock + t
  <2>1. runClock + t \in Nat
    BY <1>1
  <2> QED BY <1>1, <2>1 DEF LaunchCall, Pcs
<1>4. [version |-> launch[l].version, until |-> runClock + t] \in Term
  BY <1>1 DEF LaunchCall, Term
<1> HIDE DEF f
<1>5. launch' = [launch EXCEPT ![l] = f]
  BY <1>2 DEF f
<1> QED BY <1>1, <1>2, <1>3, <1>4, <1>5, LaunchStepKeeps DEF Early

LEMMA RegisteredKeeps ==
  ASSUME Runtime!AppRuntimeAssumption, RuntimeInv, NEW l \in Launches, Runtime!Registered(l)
  PROVE  RuntimeInv'
<1> DEFINE s == CHOOSE s \in SessionIds : s \notin Runtime!InUse
           f == [launch[l] EXCEPT !.pc = "granting", !.session = s]
           t == [version |-> launch[l].version, until |-> launch[l].until]
           m == <<"grant", s, launch[l].until>>
           n == Len(toWorker) + 1
<1>1. /\ launch[l].pc = "admitted" /\ generation = l /\ session' = s /\ lease' = t
      /\ toWorker' = Append(toWorker, m) /\ launch' = [launch EXCEPT ![l] = f]
      /\ UNCHANGED <<files, runClock, phase, generation, timer, development, rows, granted, admitted>>
  BY DEF Runtime!Registered, Runtime!Current, Runtime!Goto
<1>2. s \in SessionIds
  BY DEF Runtime!Registered
<1>3. launch[l] \in LaunchCall /\ launch \in [Launches -> LaunchCall] /\ toWorker \in Seq(Message) /\ l # None /\ 0 \notin SessionIds
  BY DEF RuntimeInv, RuntimeTypes, Runtime!AppRuntimeAssumption
<1> HIDE DEF s
<1>4. /\ f \in LaunchCall /\ f.pc = "granting" /\ f.session = s /\ f.until = launch[l].until /\ f.version = launch[l].version
      /\ t \in Term /\ t.until = launch[l].until /\ m \in Message /\ m[1] = "grant" /\ m[2] = s
  BY <1>2, <1>3 DEF LaunchCall, Pcs, Term, Message
<1> HIDE DEF f, m
<1>5. /\ toWorker' \in Seq(Message) /\ n \in Nat /\ DOMAIN toWorker = 1..(n - 1) /\ DOMAIN toWorker' = 1..n
      /\ toWorker'[n] = m /\ \A i \in DOMAIN toWorker : toWorker'[i] = toWorker[i]
  BY <1>1, <1>3, <1>4
<1>6. launch' \in [Launches -> LaunchCall] /\ launch'[l] = f /\ \A k \in Launches : k # l => launch'[k] = launch[k]
  BY <1>1, <1>3, <1>4
<1>7. session = 0
  BY <1>1, <1>3 DEF RuntimeInv, CurrentLaunch
<1>8. Allowed(t)
  BY <1>1 DEF RuntimeInv, Terms
<1>9. RuntimeTypes'
  BY <1>1, <1>2, <1>4, <1>5, <1>6 DEF RuntimeInv, RuntimeTypes
<1>10. Phases'
  BY <1>1, <1>3 DEF RuntimeInv, Phases
<1>11. CurrentLaunch'
  BY <1>1, <1>2, <1>3, <1>4, <1>6 DEF CurrentLaunch
<1>12. RevokesFollow'
  <2> HIDE DEF n
  <2>1. ASSUME NEW i \in DOMAIN toWorker', toWorker'[i][1] = "grant", toWorker'[i][2] # s
        PROVE  \E j \in DOMAIN toWorker' : j > i /\ toWorker'[j][1] = "revoke" /\ toWorker'[j][2] = toWorker'[i][2]
    <3>1. i \in DOMAIN toWorker /\ toWorker'[i] = toWorker[i]
      BY <1>4, <1>5, <2>1
    <3>2. toWorker[i][2] # 0
      BY <1>3, <3>1 DEF Message
    <3>3. PICK j \in DOMAIN toWorker : j > i /\ toWorker[j][1] = "revoke" /\ toWorker[j][2] = toWorker[i][2]
      BY <1>7, <2>1, <3>1, <3>2 DEF RuntimeInv, RevokesFollow
    <3>4. j \in DOMAIN toWorker' /\ toWorker'[j] = toWorker[j]
      BY <1>5
    <3> QED BY <3>1, <3>3, <3>4
  <2>2. ASSUME NEW q \in SessionIds, granted[q] # 0
        PROVE  \E i \in DOMAIN toWorker' : toWorker'[i][1] = "revoke" /\ toWorker'[i][2] = q
    <3>1. q # session
      BY <1>3, <1>7
    <3>2. PICK i \in DOMAIN toWorker : toWorker[i][1] = "revoke" /\ toWorker[i][2] = q
      BY <2>2, <3>1 DEF RuntimeInv, RevokesFollow, Runtime!Revoking
    <3> QED BY <1>5, <3>2
  <2> QED BY <1>1, <2>1, <2>2 DEF RevokesFollow, Runtime!Revoking
<1>13. Terms'
  BY <1>1, <1>4, <1>6, <1>8 DEF RuntimeInv, Terms, Allowed
<1> QED BY <1>9, <1>10, <1>11, <1>12, <1>13 DEF RuntimeInv

LEMMA RunningKeeps ==
  ASSUME Runtime!AppRuntimeAssumption, RuntimeInv, NEW l \in Launches, Runtime!Running(l)
  PROVE  RuntimeInv'
<1>1. CASE Runtime!Current(l)
  <2>1. /\ launch[l].pc = "ready" /\ generation = l /\ timer' = launch[l].until /\ rows' = rows \cup {launch[l].session}
        /\ phase' = "running" /\ launch' = [launch EXCEPT ![l] = Runtime!Idle] /\ generation' = None
        /\ UNCHANGED <<session, lease, toWorker, files, runClock, development, granted, admitted>>
    BY <1>1 DEF Runtime!Running, Runtime!Current, Runtime!Goto
  <2>2. /\ l # None /\ session = launch[l].session /\ session # 0 /\ lease.until = launch[l].until /\ phase = "opening" /\ rows = {}
    BY <2>1 DEF Runtime!AppRuntimeAssumption, RuntimeInv, CurrentLaunch, Phases
  <2>3. launch[l] \in LaunchCall /\ launch \in [Launches -> LaunchCall]
    BY DEF RuntimeInv, RuntimeTypes
  <2>4. launch' \in [Launches -> LaunchCall] /\ launch'[l].pc = "idle" /\ \A k \in Launches : k # l => launch'[k] = launch[k]
    BY <2>1, <2>3, IdleCall
  <2>5. launch[l].until \in Nat
    BY <2>3 DEF LaunchCall
  <2>6. RuntimeTypes' /\ Phases' /\ CurrentLaunch'
    BY <2>1, <2>2, <2>4, <2>5 DEF RuntimeInv, RuntimeTypes, Phases, CurrentLaunch
  <2>7. RevokesFollow'
    BY <2>1 DEF RuntimeInv, RevokesFollow, Runtime!Revoking
  <2>8. Terms'
    BY <2>1, <2>4 DEF RuntimeInv, Terms, Allowed
  <2> QED BY <2>6, <2>7, <2>8 DEF RuntimeInv
<1>2. CASE ~Runtime!Current(l)
  BY <1>2, FailedKeeps DEF Runtime!Running
<1> QED BY <1>1, <1>2

LEMMA WorkerReceivesKeeps ==
  ASSUME Runtime!AppRuntimeAssumption, RuntimeInv, Runtime!WorkerReceives
  PROVE  RuntimeInv'
<1> DEFINE m == toWorker[1]
           taken == m[1] = "grant" /\ m[3] > runClock
           waiting == {l \in Launches : launch[l].pc = "granting" /\ launch[l].session = m[2] /\ Runtime!Current(l) /\ session = m[2]}
<1>1. /\ toWorker # <<>> /\ toWorker' = Tail(toWorker)
      /\ UNCHANGED <<files, runClock, phase, generation, session, lease, timer, rows, development, admitted>>
      /\ toWorker \in Seq(Message) /\ launch \in [Launches -> LaunchCall] /\ granted \in [SessionIds -> Nat]
  BY DEF Runtime!WorkerReceives, RuntimeInv, RuntimeTypes
<1>2. /\ Head(toWorker) = m /\ m \in Message /\ 1 \in DOMAIN toWorker /\ toWorker' \in Seq(Message)
      /\ \A i \in DOMAIN toWorker' : i \in Nat /\ i + 1 \in DOMAIN toWorker /\ toWorker'[i] = toWorker[i + 1]
      /\ \A i \in DOMAIN toWorker : i \in Nat /\ (i # 1 => i - 1 \in DOMAIN toWorker' /\ toWorker'[i - 1] = toWorker[i])
  BY <1>1
<1>3. /\ granted' = (IF taken THEN [granted EXCEPT ![m[2]] = m[3]]
                     ELSE IF m[1] = "revoke" THEN [granted EXCEPT ![m[2]] = 0] ELSE granted)
      /\ launch' = [l \in Launches |-> IF taken /\ l \in waiting THEN [launch[l] EXCEPT !.pc = "ready"] ELSE launch[l]]
  BY <1>2 DEF Runtime!WorkerReceives
<1>4. m[1] \in {"grant", "revoke"} /\ m[2] \in SessionIds /\ m[3] \in Nat
  BY <1>2 DEF Message
<1>5. \A l \in Launches : launch'[l] = launch[l] \/
        /\ launch[l].pc = "granting" /\ launch'[l].pc = "ready" /\ launch'[l].session = launch[l].session
        /\ launch'[l].until = launch[l].until /\ launch'[l].version = launch[l].version /\ launch'[l] \in LaunchCall
  <2> SUFFICES ASSUME NEW l \in Launches, launch'[l] # launch[l]
               PROVE  /\ launch[l].pc = "granting" /\ launch'[l].pc = "ready" /\ launch'[l].session = launch[l].session
                      /\ launch'[l].until = launch[l].until /\ launch'[l].version = launch[l].version /\ launch'[l] \in LaunchCall
    OBVIOUS
  <2>1. launch[l].pc = "granting" /\ launch'[l] = [launch[l] EXCEPT !.pc = "ready"]
    BY <1>3
  <2>2. launch[l] \in LaunchCall
    BY <1>1
  <2> QED BY <2>1, <2>2 DEF LaunchCall, Pcs
<1>6. launch' \in [Launches -> LaunchCall]
  BY <1>1, <1>3, <1>5
<1>7. granted' \in [SessionIds -> Nat]
  BY <1>1, <1>3, <1>4
<1>8. RuntimeTypes' /\ Phases' /\ CurrentLaunch' /\ Terms'
  <2>1. RuntimeTypes' /\ Phases'
    BY <1>1, <1>2, <1>6, <1>7 DEF RuntimeInv, RuntimeTypes, Phases
  <2>2. CurrentLaunch'
    BY <1>1, <1>5 DEF RuntimeInv, RuntimeTypes, CurrentLaunch
  <2>3. Terms'
    BY <1>1, <1>5 DEF RuntimeInv, Terms, Allowed
  <2> QED BY <2>1, <2>2, <2>3
<1> HIDE DEF taken, waiting
<1>9. RevokesFollow'
  <2>1. ASSUME NEW i \in DOMAIN toWorker', toWorker'[i][1] = "grant", toWorker'[i][2] # session
        PROVE  \E j \in DOMAIN toWorker' : j > i /\ toWorker'[j][1] = "revoke" /\ toWorker'[j][2] = toWorker'[i][2]
    <3> DEFINE k == i + 1
    <3>1. k \in DOMAIN toWorker /\ toWorker'[i] = toWorker[k] /\ i \in Nat
      BY <1>2
    <3> HIDE DEF k
    <3>2. toWorker[k][1] = "grant" /\ toWorker[k][2] # session
      BY <2>1, <3>1
    <3>3. PICK j \in DOMAIN toWorker : j > k /\ toWorker[j][1] = "revoke" /\ toWorker[j][2] = toWorker[k][2]
      BY <3>1, <3>2 DEF RuntimeInv, RevokesFollow
    <3>4. j \in Nat /\ j > i + 1 /\ j - 1 > i
      BY <1>2, <3>1, <3>3 DEF k
    <3>5. j - 1 \in DOMAIN toWorker' /\ toWorker'[j - 1] = toWorker[j]
      BY <1>2, <3>1, <3>4
    <3> QED BY <3>1, <3>3, <3>4, <3>5
  <2>2. ASSUME NEW s \in SessionIds, granted'[s] # 0, s # session
        PROVE  \E j \in DOMAIN toWorker' : toWorker'[j][1] = "revoke" /\ toWorker'[j][2] = s
    <3>1. PICK j \in DOMAIN toWorker : toWorker[j][1] = "revoke" /\ toWorker[j][2] = s /\ j # 1
      <4>1. CASE m[1] = "grant" /\ m[2] = s
        BY <1>2, <2>2, <4>1 DEF RuntimeInv, RevokesFollow
      <4>2. CASE ~(m[1] = "grant" /\ m[2] = s)
        <5>1. granted[s] # 0 /\ ~(m[1] = "revoke" /\ m[2] = s)
          BY <1>1, <1>3, <1>4, <2>2, <4>2 DEF taken
        <5>2. PICK j \in DOMAIN toWorker : toWorker[j][1] = "revoke" /\ toWorker[j][2] = s
          BY <2>2, <5>1 DEF RuntimeInv, RevokesFollow, Runtime!Revoking
        <5> QED BY <5>1, <5>2
      <4> QED BY <4>1, <4>2
    <3> QED BY <1>2, <3>1
  <2> QED BY <1>1, <2>1, <2>2 DEF RevokesFollow, Runtime!Revoking
<1> QED BY <1>8, <1>9 DEF RuntimeInv

\* What stops the page: the user, the timer, or a read after the time.
LEMMA RevokeKeeps ==
  ASSUME Runtime!AppRuntimeAssumption, RuntimeInv, Runtime!Revoke, UNCHANGED <<files, runClock, launch, granted, admitted>>
  PROVE  RuntimeInv'
<1>1. Runtime!Stop /\ phase' = "stopped" /\ development' = Runtime!Free /\ launch' \in [Launches -> LaunchCall]
  BY DEF Runtime!Revoke, RuntimeInv, RuntimeTypes
<1> QED BY <1>1, StopKeeps

LEMMA OthersKeep ==
  ASSUME Runtime!AppRuntimeAssumption, RuntimeInv, Runtime!WorkerRestarts \/ Runtime!Edit \/ Runtime!Tick \/ UNCHANGED Runtime!vars
  PROVE  RuntimeInv'
<1>1. CASE Runtime!WorkerRestarts \/ Runtime!Edit \/ UNCHANGED Runtime!vars
  <2>1. /\ UNCHANGED <<runClock, phase, generation, toWorker, session, lease, timer, rows, development, launch, admitted>>
        /\ files' \in Versions /\ granted' \in [SessionIds -> Nat] /\ \A s \in SessionIds : granted'[s] \in {0, granted[s]}
    BY <1>1 DEF Runtime!WorkerRestarts, Runtime!Edit, Runtime!vars, Runtime!page, RuntimeInv, RuntimeTypes
  <2> QED BY <2>1 DEF RuntimeInv, RuntimeTypes, Phases, CurrentLaunch, RevokesFollow, Runtime!Revoking, Terms, Allowed
<1>2. CASE Runtime!Tick
  <2>1. /\ UNCHANGED <<files, phase, generation, toWorker, session, lease, timer, rows, development, launch, granted>>
        /\ runClock' = runClock + 1 /\ admitted' = {a \in admitted : a.until > runClock'}
    BY <1>2 DEF Runtime!Tick, Runtime!page
  <2>2. runClock \in Nat
    BY DEF RuntimeInv, RuntimeTypes
  <2>3. RuntimeTypes' /\ Phases' /\ CurrentLaunch' /\ RevokesFollow'
    BY <2>1, <2>2 DEF RuntimeInv, RuntimeTypes, Phases, CurrentLaunch, RevokesFollow, Runtime!Revoking
  <2>4. ASSUME NEW t \in Term, Allowed(t), runClock' < t.until PROVE t \in admitted'
    BY <2>1, <2>2, <2>4 DEF Allowed, Term
  <2>5. \A l \in Launches : [version |-> launch[l].version, until |-> launch[l].until] \in Term
    BY DEF RuntimeInv, RuntimeTypes, LaunchCall, Term
  <2>6. Terms'
    BY <2>1, <2>4, <2>5 DEF RuntimeInv, RuntimeTypes, Terms, Allowed
  <2> QED BY <2>3, <2>6 DEF RuntimeInv
<1> QED BY <1>1, <1>2

LEMMA ServeKeeps ==
  ASSUME Runtime!AppRuntimeAssumption, RuntimeInv, NEW s \in SessionIds, Runtime!Serve(s)
  PROVE  RuntimeInv'
<1>1. CASE runClock >= lease.until
  BY <1>1, RevokeKeeps DEF Runtime!Serve
<1>2. CASE ~(runClock >= lease.until)
  BY <1>2, OthersKeep DEF Runtime!Serve, Runtime!vars, Runtime!page
<1> QED BY <1>1, <1>2

LEMMA RuntimeInvariant ==
  ASSUME Runtime!AppRuntimeAssumption
  PROVE  Runtime!Spec => []RuntimeInv
<1>1. Runtime!Init => RuntimeInv
  BY RuntimeStarts
<1>2. RuntimeInv /\ [Runtime!Next]_(Runtime!vars) => RuntimeInv'
  BY LaunchKeeps, CapturedKeeps, ApprovedKeeps, RegisteredKeeps, RunningKeeps, FailedKeeps, RevokeKeeps,
     WorkerReceivesKeeps, OthersKeep, ServeKeeps DEF Runtime!Next, Runtime!Work, Runtime!Fail, Runtime!UserStops, Runtime!Expires
<1> QED BY <1>1, <1>2, PTL DEF Runtime!Spec

LEMMA SessionIsAdmitted ==
  ASSUME Runtime!AppRuntimeAssumption
  PROVE  Runtime!Spec => [](Runtime!TypeOK /\ Runtime!OneAdmittedSession /\ Runtime!ServesAdmitted)
<1>1. RuntimeInv => Runtime!TypeOK /\ Runtime!OneAdmittedSession /\ Runtime!ServesAdmitted
  <2> SUFFICES ASSUME RuntimeInv PROVE Runtime!TypeOK /\ Runtime!OneAdmittedSession /\ Runtime!ServesAdmitted
    OBVIOUS
  <2>1. Runtime!TypeOK
    BY DEF RuntimeInv, RuntimeTypes, Phases, Runtime!TypeOK, Message
  <2>2. Runtime!OneAdmittedSession
    BY DEF RuntimeInv, RuntimeTypes, Phases, CurrentLaunch, RevokesFollow, Runtime!OneAdmittedSession, Runtime!Current, Runtime!AppRuntimeAssumption
  <2>3. Runtime!ServesAdmitted
    BY DEF RuntimeInv, Terms, Allowed, Runtime!ServesAdmitted
  <2> QED BY <2>1, <2>2, <2>3
<1> QED BY <1>1, RuntimeInvariant, PTL

-----------------------------------------------------------------------------
(* Approvals, keys and the audit chain *)

Kinds == {"request", "unapprovable", "denied", "approved", "login", "lock"}
Records == [kind : Kinds, id : Nat]
NextSteps == {"idle", "prompt", "revoke"}
Frame == [pc : NextSteps \cup {"append", "write", "lease", "grant"}, id : Nat, class : Classes \cup {None},
          rec : Records \cup {None}, then : NextSteps, seen : Seq(Records)]
Capability == [expiry : Nat, id : Nat]

In(log, r) == \E i \in DOMAIN log : log[i] = r
InOrder(log, r, s) == \E i, j \in DOMAIN log : i < j /\ log[i] = r /\ log[j] = s
OnRecord(log, id) == In(log, Broker!Record("request", id))

BrokerTypes ==
    /\ kek \in 0..(MaxTime + MaxTtl) /\ clock \in 0..MaxTime /\ made \in 0..MaxRequests
    /\ caps \in [Classes -> Capability \cup {None}]
    /\ chain \in Seq(Records)
    /\ call \in [Askers -> Frame]
    /\ answered \subseteq [kind : Broker!Outcomes, id : Nat]

\* What a pending call may say or grant: only an approvable request that is on
\* record comes to the prompt, and only there is it answered.
FrameOK(f, log, n) ==
    /\ f.pc = "prompt" => f.class \in Approvable \cap Classes /\ OnRecord(log, f.id) /\ f.id \in 1..n
    /\ f.pc \in {"append", "write"} =>
         /\ f.rec \in Records /\ f.rec.id = f.id
         /\ f.then = "prompt" => f.rec.kind = "request" /\ f.class \in Approvable \cap Classes /\ f.id \in 1..n
         /\ f.rec.kind \in {"denied", "approved"} => OnRecord(log, f.id)

PendingCalls == \A c \in Askers : FrameOK(call[c], chain, made)

\* One append at a time, so that it writes behind what it read.
OneWriter ==
    /\ \A c \in Askers : Broker!At(c, "write") => call[c].seen = chain
    /\ \A c, d \in Askers : Broker!At(c, "write") /\ Broker!At(d, "write") => c = d

Audited == \A r \in answered :
    IF r.kind = "unapprovable" THEN In(chain, r) ELSE InOrder(chain, Broker!Record("request", r.id), r)

Granted == \A k \in Classes : caps[k] # None =>
    k \in Approvable /\ caps[k].id \in 1..made /\ OnRecord(chain, caps[k].id)

BrokerInv == BrokerTypes /\ PendingCalls /\ OneWriter /\ Audited /\ Granted

-----------------------------------------------------------------------------

LEMMA Grown ==
  ASSUME NEW log \in Seq(Records), NEW r \in Records
  PROVE  /\ Append(log, r) \in Seq(Records)
         /\ In(Append(log, r), r)
         /\ \A q : In(log, q) => In(Append(log, r), q) /\ InOrder(Append(log, r), q, r)
         /\ \A q, s : InOrder(log, q, s) => InOrder(Append(log, r), q, s)
<1> DEFINE new == Append(log, r)
<1>1. /\ new \in Seq(Records) /\ DOMAIN log = 1..Len(log) /\ Len(log) \in Nat /\ DOMAIN new = 1..(Len(log) + 1)
      /\ new[Len(log) + 1] = r /\ \A i \in DOMAIN log : new[i] = log[i]
  OBVIOUS
<1> HIDE DEF new
<1>2. In(new, r) /\ \A q : In(log, q) => In(new, q)
  BY <1>1 DEF In
<1>3. ASSUME NEW q, In(log, q) PROVE InOrder(new, q, r)
  <2>1. PICK i \in DOMAIN log : log[i] = q
    BY <1>3 DEF In
  <2>2. i \in DOMAIN new /\ Len(log) + 1 \in DOMAIN new /\ i < Len(log) + 1 /\ new[i] = q
    BY <1>1, <2>1
  <2> QED BY <1>1, <2>2 DEF InOrder
<1>4. ASSUME NEW q, NEW s, InOrder(log, q, s) PROVE InOrder(new, q, s)
  <2>1. PICK i \in DOMAIN log, j \in DOMAIN log : i < j /\ log[i] = q /\ log[j] = s
    BY <1>4 DEF InOrder
  <2>2. i \in DOMAIN new /\ j \in DOMAIN new /\ new[i] = q /\ new[j] = s
    BY <1>1, <2>1
  <2> QED BY <2>1, <2>2 DEF InOrder
<1> QED BY <1>1, <1>2, <1>3, <1>4 DEF new

LEMMA RecordType ==
  ASSUME NEW kind \in Kinds, NEW id \in Nat
  PROVE  Broker!Record(kind, id) \in Records /\ Broker!Record(kind, id).kind = kind /\ Broker!Record(kind, id).id = id
BY DEF Broker!Record, Records

LEMMA IdleFrame ==
  ASSUME Broker!CustodyAssumption
  PROVE  Broker!Idle \in Frame /\ Broker!Idle.pc = "idle" /\ \A log, n : FrameOK(Broker!Idle, log, n)
<1>1. Broker!Idle \in Frame /\ Broker!Idle.pc = "idle"
  BY DEF Broker!Idle, Frame, NextSteps
<1> QED BY <1>1 DEF FrameOK

LEMMA AppendingFrame ==
  ASSUME NEW f \in Frame, NEW kind \in Kinds, NEW then \in NextSteps
  PROVE  /\ Broker!Appending(f, kind, then) \in Frame
         /\ Broker!Appending(f, kind, then).pc = "append" /\ Broker!Appending(f, kind, then).id = f.id
         /\ Broker!Appending(f, kind, then).class = f.class /\ Broker!Appending(f, kind, then).then = then
         /\ Broker!Appending(f, kind, then).rec = Broker!Record(kind, f.id)
<1>1. Broker!Record(kind, f.id) \in Records
  BY RecordType DEF Frame
<1> QED BY <1>1 DEF Broker!Appending, Frame, NextSteps

\* A step of one caller that neither writes nor begins to write.
BrokerAside(c, f) ==
    /\ call' = [call EXCEPT ![c] = f]
    /\ f \in Frame /\ f.pc # "write" /\ made' \in made..MaxRequests /\ FrameOK(f, chain, made')
    /\ clock' \in 0..MaxTime /\ kek' \in 0..(MaxTime + MaxTtl)
    /\ chain' = chain /\ answered' = answered

LEMMA BrokerAsideKeeps ==
  ASSUME Broker!CustodyAssumption, BrokerInv, NEW c \in Askers, NEW f, BrokerAside(c, f), caps' = caps
  PROVE  BrokerInv'
<1>1. /\ call \in [Askers -> Frame] /\ call' = [call EXCEPT ![c] = f] /\ f \in Frame
      /\ made \in Nat /\ made' \in Nat /\ made <= made' /\ made' <= MaxRequests /\ MaxRequests \in Nat
      /\ chain' = chain /\ answered' = answered
  BY DEF BrokerInv, BrokerTypes, BrokerAside, Broker!CustodyAssumption
<1>2. call' \in [Askers -> Frame] /\ call'[c] = f /\ \A d \in Askers : d # c => call'[d] = call[d]
  BY <1>1
<1>3. BrokerTypes'
  BY <1>1, <1>2 DEF BrokerInv, BrokerTypes, BrokerAside
<1>4. PendingCalls'
  <2>1. \A d \in Askers : FrameOK(call[d], chain, made) => FrameOK(call[d], chain, made')
    BY <1>1 DEF FrameOK
  <2> QED BY <1>1, <1>2, <2>1 DEF BrokerInv, PendingCalls, BrokerAside
<1>5. OneWriter'
  BY <1>1, <1>2 DEF BrokerInv, OneWriter, Broker!At, BrokerAside
<1>6. Audited' /\ Granted'
  BY <1>1 DEF BrokerInv, Audited, Granted
<1> QED BY <1>3, <1>4, <1>5, <1>6 DEF BrokerInv

LEMMA BrokerStarts ==
  ASSUME Broker!CustodyAssumption, Broker!Init
  PROVE  BrokerInv
<1>1. BrokerTypes
  BY IdleFrame DEF Broker!Init, BrokerTypes, Broker!CustodyAssumption
<1>2. \A c \in Askers : call[c] = Broker!Idle
  BY DEF Broker!Init
<1> QED BY <1>1, <1>2, IdleFrame DEF Broker!Init, BrokerInv, PendingCalls, OneWriter, Broker!At, Audited, Granted

LEMMA ReadHeadKeeps ==
  ASSUME Broker!CustodyAssumption, BrokerInv, NEW c \in Askers, Broker!ReadHead(c)
  PROVE  BrokerInv'
<1> DEFINE f == [call[c] EXCEPT !.pc = "write", !.seen = chain]
<1>1. /\ Broker!At(c, "append") /\ \A d \in Askers : ~Broker!At(d, "write")
      /\ call' = [call EXCEPT ![c] = f] /\ UNCHANGED <<kek, caps, chain, clock, made, answered>>
  BY DEF Broker!ReadHead, Broker!Set
<1>2. call \in [Askers -> Frame] /\ chain \in Seq(Records) /\ call[c] \in Frame
  BY DEF BrokerInv, BrokerTypes
<1>3. /\ f \in Frame /\ f.pc = "write" /\ f.seen = chain /\ f.id = call[c].id /\ f.rec = call[c].rec
      /\ f.then = call[c].then /\ f.class = call[c].class
  BY <1>2 DEF Frame
<1> HIDE DEF f
<1>4. call' \in [Askers -> Frame] /\ call'[c] = f /\ \A d \in Askers : d # c => call'[d] = call[d]
  BY <1>1, <1>2, <1>3
<1>5. FrameOK(f, chain, made)
  BY <1>1, <1>3 DEF BrokerInv, PendingCalls, FrameOK, Broker!At
<1>6. BrokerTypes' /\ Audited' /\ Granted'
  BY <1>1, <1>4 DEF BrokerInv, BrokerTypes, Audited, Granted
<1>7. PendingCalls'
  BY <1>1, <1>4, <1>5 DEF BrokerInv, PendingCalls
<1>8. OneWriter'
  BY <1>1, <1>3, <1>4 DEF OneWriter, Broker!At
<1> QED BY <1>6, <1>7, <1>8 DEF BrokerInv

LEMMA WriteHeadKeeps ==
  ASSUME Broker!CustodyAssumption, BrokerInv, NEW c \in Askers, Broker!WriteHead(c)
  PROVE  BrokerInv'
<1> DEFINE r == call[c].rec
           f == IF call[c].then = "idle" THEN Broker!Idle ELSE [call[c] EXCEPT !.pc = call[c].then]
<1>1. Broker!At(c, "write") /\ UNCHANGED <<kek, caps, clock, made>> /\ call[c].seen = chain
  BY DEF Broker!WriteHead, BrokerInv, OneWriter
<1>2. call \in [Askers -> Frame] /\ chain \in Seq(Records) /\ call[c] \in Frame /\ made \in 0..MaxRequests
  BY DEF BrokerInv, BrokerTypes
<1>3. CASE ~Broker!CanWrite
  <2>1. call' = [call EXCEPT ![c] = Broker!Idle] /\ UNCHANGED <<chain, answered>>
    BY <1>3 DEF Broker!WriteHead, Broker!Set
  <2>2. BrokerAside(c, Broker!Idle)
    BY <1>1, <1>2, <2>1, IdleFrame DEF BrokerAside, BrokerInv, BrokerTypes, Broker!CustodyAssumption
  <2> QED BY <1>1, <2>2, BrokerAsideKeeps
<1>4. CASE Broker!CanWrite
  <2>1. /\ chain' = Append(chain, r) /\ call' = [call EXCEPT ![c] = f]
        /\ answered' = answered \cup ({r} \cap [kind : Broker!Outcomes, id : 1..MaxRequests])
    BY <1>1, <1>4 DEF Broker!WriteHead, Broker!Set
  <2>2. FrameOK(call[c], chain, made) /\ r \in Records /\ r.id = call[c].id
    BY <1>1 DEF BrokerInv, PendingCalls, FrameOK, Broker!At
  <2>3. f \in Frame /\ f.pc \in NextSteps /\ FrameOK(f, chain', made)
    <3>1. CASE call[c].then = "idle"
      BY <3>1, IdleFrame DEF NextSteps
    <3>2. CASE call[c].then # "idle"
      <4>1. f = [call[c] EXCEPT !.pc = call[c].then]
        BY <3>2
      <4>2. /\ f \in Frame /\ f.pc = call[c].then /\ f.pc \in {"prompt", "revoke"} /\ f.id = call[c].id
            /\ f.class = call[c].class
        BY <1>2, <3>2, <4>1 DEF Frame, NextSteps
      <4> HIDE DEF f
      <4>3. CASE call[c].then = "prompt"
        <5>1. r = Broker!Record("request", call[c].id)
          BY <1>1, <2>2, <4>3 DEF FrameOK, Broker!At, Records, Broker!Record
        <5>2. OnRecord(chain', f.id)
          BY <1>2, <2>1, <2>2, <4>2, <5>1, Grown DEF OnRecord
        <5> QED BY <1>1, <2>2, <4>2, <4>3, <5>2 DEF FrameOK, Broker!At, NextSteps
      <4>4. CASE call[c].then = "revoke"
        BY <4>2, <4>4 DEF FrameOK, NextSteps
      <4> QED BY <4>2, <4>3, <4>4
    <3> QED BY <3>1, <3>2
  <2> HIDE DEF f
  <2>4. call' \in [Askers -> Frame] /\ call'[c] = f /\ \A d \in Askers : d # c => call'[d] = call[d]
    BY <1>2, <2>1, <2>3
  <2> HIDE DEF r
  <2>5. /\ chain' \in Seq(Records) /\ In(chain', r)
        /\ \A q : In(chain, q) => In(chain', q) /\ InOrder(chain', q, r)
        /\ \A q, s : InOrder(chain, q, s) => InOrder(chain', q, s)
    BY <1>2, <2>1, <2>2, Grown
  <2>6. BrokerTypes'
    <3>1. [kind : Broker!Outcomes, id : 1..MaxRequests] \subseteq [kind : Broker!Outcomes, id : Nat]
      BY DEF Broker!CustodyAssumption
    <3> QED BY <1>1, <2>1, <2>4, <2>5, <3>1 DEF BrokerInv, BrokerTypes
  <2>7. PendingCalls'
    <3>1. \A d \in Askers : FrameOK(call[d], chain, made) => FrameOK(call[d], chain', made)
      BY <2>5 DEF FrameOK, OnRecord
    <3> QED BY <1>1, <2>3, <2>4, <3>1 DEF BrokerInv, PendingCalls
  <2>8. OneWriter'
    <3>1. \A d \in Askers : call'[d].pc # "write"
      BY <1>1, <2>3, <2>4 DEF BrokerInv, OneWriter, Broker!At, NextSteps
    <3> QED BY <3>1 DEF OneWriter, Broker!At
  <2>9. Audited'
    <3> SUFFICES ASSUME NEW q \in answered'
                 PROVE  IF q.kind = "unapprovable" THEN In(chain', q) ELSE InOrder(chain', Broker!Record("request", q.id), q)
      BY DEF Audited
    <3>1. CASE q \in answered
      BY <2>5, <3>1 DEF BrokerInv, Audited
    <3>2. CASE q = r /\ q.kind \in Broker!Outcomes
      <4>1. q.kind # "unapprovable" => In(chain, Broker!Record("request", q.id))
        BY <1>1, <2>2, <3>2 DEF FrameOK, Broker!At, Broker!Outcomes, OnRecord, r
      <4> QED BY <2>5, <3>2, <4>1
    <3> QED BY <2>1, <3>1, <3>2
  <2>10. Granted'
    BY <1>1, <2>5 DEF BrokerInv, Granted, OnRecord
  <2> QED BY <2>6, <2>7, <2>8, <2>9, <2>10 DEF BrokerInv
<1> QED BY <1>3, <1>4

LEMMA BrokerRequestKeeps ==
  ASSUME Broker!CustodyAssumption, BrokerInv, NEW c \in Askers, NEW k \in Classes, Broker!Request(c, k)
  PROVE  BrokerInv'
<1> DEFINE f == [Broker!Idle EXCEPT !.id = made + 1, !.class = k]
           g == IF k \in Approvable THEN Broker!Appending(f, "request", "prompt") ELSE Broker!Appending(f, "unapprovable", "idle")
<1>1. /\ made < MaxRequests /\ made' = made + 1 /\ call' = [call EXCEPT ![c] = g]
      /\ UNCHANGED <<kek, caps, chain, clock, answered>>
  BY DEF Broker!Request, Broker!Set
<1>2. made \in Nat /\ made + 1 \in Nat /\ made + 1 \in made..MaxRequests /\ clock \in 0..MaxTime /\ kek \in 0..(MaxTime + MaxTtl)
  BY <1>1 DEF BrokerInv, BrokerTypes, Broker!CustodyAssumption
<1>3. f \in Frame /\ f.id = made + 1 /\ f.class = k
  <2>1. ASSUME NEW h \in Frame
        PROVE  LET e == [h EXCEPT !.id = made + 1, !.class = k] IN e \in Frame /\ e.id = made + 1 /\ e.class = k
    BY <1>2 DEF Frame
  <2>2. Broker!Idle \in Frame
    BY IdleFrame
  <2> QED BY <2>1, <2>2
<1> HIDE DEF f
<1>4. g \in Frame /\ g.pc = "append" /\ FrameOK(g, chain, made + 1)
  <2>1. CASE k \in Approvable
    <3>1. /\ g \in Frame /\ g.pc = "append" /\ g.id = made + 1 /\ g.class = k /\ g.then = "prompt"
          /\ g.rec = Broker!Record("request", made + 1)
      BY <1>3, <2>1, AppendingFrame DEF Kinds, NextSteps
    <3>2. g.rec \in Records /\ g.rec.kind = "request" /\ g.rec.id = made + 1
      BY <1>2, <3>1, RecordType DEF Kinds
    <3> QED BY <1>2, <2>1, <3>1, <3>2 DEF FrameOK
  <2>2. CASE k \notin Approvable
    <3>1. /\ g \in Frame /\ g.pc = "append" /\ g.id = made + 1 /\ g.class = k /\ g.then = "idle"
          /\ g.rec = Broker!Record("unapprovable", made + 1)
      BY <1>3, <2>2, AppendingFrame DEF Kinds, NextSteps
    <3>2. g.rec \in Records /\ g.rec.kind = "unapprovable" /\ g.rec.id = made + 1
      BY <1>2, <3>1, RecordType DEF Kinds
    <3> QED BY <1>2, <3>1, <3>2 DEF FrameOK
  <2> QED BY <2>1, <2>2
<1> HIDE DEF g
<1>5. BrokerAside(c, g)
  BY <1>1, <1>2, <1>4 DEF BrokerAside
<1> QED BY <1>1, <1>5, BrokerAsideKeeps

\* What is answered at the prompt is on record.
LEMMA AnswerFrame ==
  ASSUME Broker!CustodyAssumption, BrokerInv, NEW c \in Askers, Broker!At(c, "prompt"), NEW kind \in {"denied", "approved"}
  PROVE  LET g == Broker!Appending(call[c], kind, "idle")
         IN  /\ g \in Frame /\ g.pc = "append" /\ FrameOK(g, chain, made)
             /\ call[c].class \in Approvable \cap Classes /\ OnRecord(chain, call[c].id)
             /\ call[c].id \in 1..made /\ call[c].id \in Nat
<1> DEFINE g == Broker!Appending(call[c], kind, "idle")
<1>1. /\ call[c] \in Frame /\ call[c].class \in Approvable \cap Classes /\ OnRecord(chain, call[c].id)
      /\ call[c].id \in 1..made /\ call[c].id \in Nat
  BY DEF BrokerInv, BrokerTypes, PendingCalls, FrameOK, Broker!At, Frame
<1>2. /\ g \in Frame /\ g.pc = "append" /\ g.id = call[c].id /\ g.then = "idle" /\ g.rec = Broker!Record(kind, call[c].id)
  BY <1>1, AppendingFrame DEF Kinds, NextSteps
<1> HIDE DEF g
<1>3. g.rec \in Records /\ g.rec.id = call[c].id
  BY <1>1, <1>2, RecordType DEF Kinds
<1>4. FrameOK(g, chain, made)
  BY <1>1, <1>2, <1>3 DEF FrameOK
<1> QED BY <1>1, <1>2, <1>4 DEF g

LEMMA DeniedKeeps ==
  ASSUME Broker!CustodyAssumption, BrokerInv, NEW c \in Askers, Broker!Denied(c)
  PROVE  BrokerInv'
<1> DEFINE g == Broker!Appending(call[c], "denied", "idle")
<1>1. Broker!At(c, "prompt") /\ call' = [call EXCEPT ![c] = g] /\ UNCHANGED <<kek, caps, chain, clock, made, answered>>
  BY DEF Broker!Denied, Broker!Set
<1>2. g \in Frame /\ g.pc = "append" /\ FrameOK(g, chain, made)
  BY <1>1, AnswerFrame
<1> HIDE DEF g
<1>3. BrokerAside(c, g)
  BY <1>1, <1>2 DEF BrokerAside, BrokerInv, BrokerTypes, Broker!CustodyAssumption
<1> QED BY <1>1, <1>3, BrokerAsideKeeps

LEMMA BrokerApprovedKeeps ==
  ASSUME Broker!CustodyAssumption, BrokerInv, NEW c \in Askers, NEW ttl \in 1..MaxTtl, Broker!Approved(c, ttl)
  PROVE  BrokerInv'
<1> DEFINE g == Broker!Appending(call[c], "approved", "idle")
           k == call[c].class
           m == [expiry |-> clock + ttl, id |-> call[c].id]
<1>1. /\ Broker!At(c, "prompt") /\ call' = [call EXCEPT ![c] = g] /\ caps' = [caps EXCEPT ![k] = m]
      /\ UNCHANGED <<kek, chain, clock, made, answered>>
  BY DEF Broker!Approved, Broker!Set, Broker!Mint
<1>2. /\ g \in Frame /\ g.pc = "append" /\ FrameOK(g, chain, made)
      /\ k \in Approvable \cap Classes /\ OnRecord(chain, call[c].id) /\ call[c].id \in 1..made /\ call[c].id \in Nat
  BY <1>1, AnswerFrame
<1>3. caps \in [Classes -> Capability \cup {None}] /\ call \in [Askers -> Frame] /\ clock \in Nat /\ ttl \in Nat
  BY DEF BrokerInv, BrokerTypes, Broker!CustodyAssumption
<1>4. m \in Capability /\ m.id = call[c].id
  BY <1>2, <1>3 DEF Capability
<1> HIDE DEF g, m
<1>5. caps' \in [Classes -> Capability \cup {None}] /\ \A l \in Classes : caps'[l] = IF l = k THEN m ELSE caps[l]
  BY <1>1, <1>2, <1>3, <1>4
<1>6. Granted'
  BY <1>1, <1>2, <1>4, <1>5 DEF BrokerInv, Granted
<1>7. call' \in [Askers -> Frame] /\ call'[c] = g /\ \A d \in Askers : d # c => call'[d] = call[d]
  BY <1>1, <1>2, <1>3
<1>8. BrokerTypes' /\ PendingCalls' /\ OneWriter' /\ Audited'
  BY <1>1, <1>2, <1>5, <1>7 DEF BrokerInv, BrokerTypes, PendingCalls, OneWriter, Broker!At, Audited
<1> QED BY <1>6, <1>8 DEF BrokerInv

\* The locker: keys come and go, and only "login" and "lock" are recorded.
LEMMA LockerKeeps ==
  ASSUME Broker!CustodyAssumption, BrokerInv, NEW c \in Askers,
         Broker!BeginLogin(c) \/ Broker!Adopt(c) \/ Broker!LoginFails(c) \/ Broker!BeginLock(c) \/ Broker!Revoke(c)
  PROVE  BrokerInv'
<1>1. /\ call[c] \in Frame /\ Broker!Idle \in Frame /\ Broker!Idle.pc = "idle" /\ \A log, n : FrameOK(Broker!Idle, log, n)
      /\ made \in made..MaxRequests /\ clock \in 0..MaxTime /\ kek \in 0..(MaxTime + MaxTtl)
      /\ 0 \in 0..(MaxTime + MaxTtl) /\ clock + MaxTtl \in 0..(MaxTime + MaxTtl)
  BY IdleFrame DEF BrokerInv, BrokerTypes, Broker!CustodyAssumption
<1>2. \A f \in Frame, kind \in {"login", "lock"}, then \in {"idle", "revoke"} :
        LET g == Broker!Appending(f, kind, then) IN g \in Frame /\ g.pc = "append" /\ FrameOK(g, chain, made)
  <2> SUFFICES ASSUME NEW f \in Frame, NEW kind \in {"login", "lock"}, NEW then \in {"idle", "revoke"}
               PROVE  LET g == Broker!Appending(f, kind, then) IN g \in Frame /\ g.pc = "append" /\ FrameOK(g, chain, made)
    OBVIOUS
  <2> DEFINE g == Broker!Appending(f, kind, then)
  <2>1. g \in Frame /\ g.pc = "append" /\ g.id = f.id /\ g.then = then /\ g.rec = Broker!Record(kind, f.id)
    BY AppendingFrame DEF Kinds, NextSteps
  <2> HIDE DEF g
  <2>2. g.rec \in Records /\ g.rec.id = f.id /\ g.rec.kind = kind
    BY <2>1, RecordType DEF Kinds, Frame
  <2>3. FrameOK(g, chain, made)
    BY <2>1, <2>2 DEF FrameOK
  <2> QED BY <2>1, <2>3 DEF g
<1>3. PICK f : /\ f \in Frame /\ f.pc # "write" /\ FrameOK(f, chain, made) /\ call' = [call EXCEPT ![c] = f]
               /\ kek' \in 0..(MaxTime + MaxTtl) /\ UNCHANGED <<caps, chain, clock, made, answered>>
  <2>1. CASE Broker!BeginLogin(c)
    <3>1. PICK how \in {"lease", "grant"} : call' = [call EXCEPT ![c] = [Broker!Idle EXCEPT !.pc = how]]
      BY <2>1 DEF Broker!BeginLogin, Broker!Set
    <3>2. [Broker!Idle EXCEPT !.pc = how] \in Frame /\ [Broker!Idle EXCEPT !.pc = how].pc = how
      BY <1>1 DEF Frame, NextSteps
    <3>3. FrameOK([Broker!Idle EXCEPT !.pc = how], chain, made)
      BY <3>2 DEF FrameOK
    <3> QED BY <1>1, <2>1, <3>1, <3>2, <3>3 DEF Broker!BeginLogin
  <2>2. CASE Broker!Adopt(c)
    BY <1>1, <1>2, <2>2 DEF Broker!Adopt, Broker!Set
  <2>3. CASE Broker!LoginFails(c) \/ Broker!Revoke(c)
    BY <1>1, <2>3 DEF Broker!LoginFails, Broker!Revoke, Broker!Set
  <2>4. CASE Broker!BeginLock(c)
    BY <1>1, <1>2, <2>4 DEF Broker!BeginLock, Broker!Set
  <2> QED BY <2>1, <2>2, <2>3, <2>4
<1>4. BrokerAside(c, f)
  BY <1>1, <1>3 DEF BrokerAside
<1> QED BY <1>3, <1>4, BrokerAsideKeeps

LEMMA CustodyInvariant ==
  ASSUME Broker!CustodyAssumption
  PROVE  Broker!Spec => []BrokerInv
<1>1. Broker!Init => BrokerInv
  BY BrokerStarts
<1>2. BrokerInv /\ [Broker!Next]_(Broker!vars) => BrokerInv'
  <2> SUFFICES ASSUME BrokerInv, [Broker!Next]_(Broker!vars) PROVE BrokerInv'
    OBVIOUS
  <2>1. CASE Broker!Tick \/ UNCHANGED Broker!vars
    <3>1. clock' \in 0..MaxTime /\ UNCHANGED <<kek, caps, chain, call, made, answered>>
      BY <2>1 DEF Broker!Tick, Broker!vars, BrokerInv, BrokerTypes, Broker!CustodyAssumption
    <3> QED BY <3>1 DEF BrokerInv, BrokerTypes, PendingCalls, OneWriter, Broker!At, Audited, Granted
  <2>2. CASE Broker!Next /\ ~Broker!Tick
    BY <2>2, ReadHeadKeeps, WriteHeadKeeps, BrokerRequestKeeps, DeniedKeeps, BrokerApprovedKeeps, LockerKeeps DEF Broker!Next
  <2> QED BY <2>1, <2>2
<1> QED BY <1>1, <1>2, PTL DEF Broker!Spec

\* Nothing is answered, and nothing granted, that the chain does not tell of.
LEMMA AnswersAreAudited ==
  ASSUME Broker!CustodyAssumption
  PROVE  Broker!Spec => [](Broker!TypeOK /\ Broker!AnswersAudited)
<1>1. BrokerInv => Broker!TypeOK /\ Broker!AnswersAudited
  <2> SUFFICES ASSUME BrokerInv PROVE Broker!TypeOK /\ Broker!AnswersAudited
    OBVIOUS
  <2>1. Broker!TypeOK
    BY DEF BrokerInv, BrokerTypes, Granted, Broker!TypeOK
  <2>2. Broker!AnswersAudited
    BY DEF BrokerInv, Audited, Granted, Broker!AnswersAudited, Broker!Recorded, Broker!Before, In, InOrder, OnRecord
  <2> QED BY <2>1, <2>2
<1> QED BY <1>1, CustodyInvariant, PTL

-----------------------------------------------------------------------------
(* The terminal.  What a key paints depends on where the cursor is and on what *)
(* is left of the line before, which Fits says of any screen.                  *)

\* The characters of a line.
Alphabet == Chars \cup {Space}

\* A screen that shows a line with its cursor, followed by blanks at most.
Fits(s, text, at) ==
    /\ s = [line |-> s.line, at |-> at]
    /\ s.line \in Seq(Alphabet) /\ Len(text) <= Len(s.line)
    /\ \A i \in 1..Len(text) : s.line[i] = text[i]
    /\ \A i \in (Len(text) + 1)..Len(s.line) : s.line[i] = Space

\* What a reverse search remembers.
Searches == [query : Seq(Alphabet), match : 0..Len(history), saved : Seq(Alphabet)]

ShellTypes ==
    /\ buffer \in Seq(Alphabet) /\ cursor \in 0..Len(buffer)
    /\ history \in Seq(Seq(Alphabet)) /\ index \in 0..Len(history)
    /\ busy \in BOOLEAN /\ raced \in BOOLEAN
    /\ search # None => search \in Searches
    /\ busy => search = None

\* Between two keys, while nobody types into a completion.
Calm ==
    /\ busy => buffer = <<>> /\ cursor = 0
    /\ completing # None => ~busy /\ search = None /\ cursor = Len(buffer)
    /\ ~busy /\ search = None => Fits(screen, buffer, cursor)

ShellInv == ShellTypes /\ (~raced => Calm)

-----------------------------------------------------------------------------

\* A set of numbers has a least one, and one with a bound a greatest.
LEMMA Least == ASSUME NEW S \in SUBSET Nat, S # {} PROVE \E m \in S : \A k \in S : m <= k
<1>1. \E x \in S : \A y \in S : ~(<<y, x>> \in OpToRel(<, Nat))
  BY NatLessThanWellFounded, WFMin
<1>2. \E x \in S : \A y \in S : ~(y < x)
  BY <1>1 DEF OpToRel
<1> QED BY <1>2

LEMMA Greatest ==
  ASSUME NEW n \in Nat, NEW S \in SUBSET (0..n), S # {}
  PROVE  \E m \in S : \A k \in S : k <= m
<1> DEFINE T == {n - k : k \in S}
<1>0. PICK s \in S : TRUE
  OBVIOUS
<1>1. T \in SUBSET Nat /\ T # {}
  <2>1. n - s \in T
    OBVIOUS
  <2>2. \A k \in S : n - k \in Nat
    OBVIOUS
  <2> QED BY <2>1, <2>2
<1>2. PICK t \in T : \A u \in T : t <= u
  BY <1>1, Least
<1>3. PICK m \in S : t = n - m
  BY <1>2
<1>4. \A k \in S : n - m <= n - k
  BY <1>2, <1>3
<1>5. \A k \in S : k <= m
  BY <1>4
<1> QED BY <1>5

\* A line has a last character that is not blank, or none.
LEMMA TrimPoint ==
  ASSUME NEW t \in Seq(Alphabet)
  PROVE  \E n \in 0..Len(t) : /\ \A i \in (n + 1)..Len(t) : t[i] = Space
                              /\ n = 0 \/ t[n] # Space
<1> DEFINE S == {n \in 0..Len(t) : n = 0 \/ t[n] # Space}
<1>1. S \in SUBSET (0..Len(t)) /\ 0 \in S /\ Len(t) \in Nat
  OBVIOUS
<1>2. PICK m \in S : \A k \in S : k <= m
  BY <1>1, Greatest
<1>3. \A i \in (m + 1)..Len(t) : t[i] = Space
  BY <1>2
<1> QED BY <1>2, <1>3

\* Only blanks are cut off, so that a screen that fits shows the line.
LEMMA TrimSame ==
  ASSUME NEW s, NEW b \in Seq(Alphabet), NEW at, Fits(s, b, at)
  PROVE  Shell!Trim(s.line) = Shell!Trim(b) /\ s.at = at
<1> DEFINE l == s.line
           Point(t, n) == (\A i \in (n + 1)..Len(t) : t[i] = Space) /\ (n = 0 \/ t[n] # Space)
           End(t) == CHOOSE n \in 0..Len(t) : Point(t, n)
<1>1. /\ l \in Seq(Alphabet) /\ Len(b) <= Len(l) /\ s.at = at
      /\ \A i \in 1..Len(b) : l[i] = b[i]
      /\ \A i \in (Len(b) + 1)..Len(l) : l[i] = Space
  BY DEF Fits
<1> HIDE DEF l
<1>2. Len(b) \in Nat /\ Len(l) \in Nat
  BY <1>1
<1>3. \E n \in 0..Len(l) : Point(l, n)
  BY <1>1, TrimPoint
<1>4. \E n \in 0..Len(b) : Point(b, n)
  BY TrimPoint
<1>5. End(l) \in 0..Len(l) /\ Point(l, End(l))
  <2> HIDE DEF Point
  <2> QED BY <1>3
<1>6. End(b) \in 0..Len(b) /\ Point(b, End(b))
  <2> HIDE DEF Point
  <2> QED BY <1>4
<1>7. End(l) = End(b)
  <2> HIDE DEF End
  <2>1. PICK m : m = End(l)
    OBVIOUS
  <2>2. PICK n : n = End(b)
    OBVIOUS
  <2>3. m \in 0..Len(l) /\ n \in 0..Len(b) /\ Point(l, m) /\ Point(b, n)
    BY <2>1, <2>2, <1>5, <1>6
  <2>4. m <= Len(b)
    BY <2>3, <1>1, <1>2
  <2>5. ~(m < n)
    BY <2>3, <1>1, <1>2
  <2>6. ~(n < m)
    BY <2>3, <2>4, <1>1, <1>2
  <2> QED BY <2>1, <2>2, <2>3, <2>5, <2>6
<1>8. Shell!Trim(l) = SubSeq(l, 1, End(l)) /\ Shell!Trim(b) = SubSeq(b, 1, End(b))
  BY DEF Shell!Trim
<1>9. SubSeq(l, 1, End(l)) = SubSeq(b, 1, End(l))
  <2> HIDE DEF End
  <2>1. PICK n : n = End(l)
    OBVIOUS
  <2>2. n \in 0..Len(b) /\ n <= Len(l)
    BY <2>1, <1>6, <1>7, <1>1, <1>2
  <2>3. SubSeq(l, 1, n) = SubSeq(b, 1, n)
    BY <2>2, <1>1
  <2> QED BY <2>1, <2>3
<1> QED BY <1>1, <1>7, <1>8, <1>9 DEF l

-----------------------------------------------------------------------------
(* What is written where *)

\* Text written from inside the line: it replaces what is there, and the line
\* is as long as before or ends with the text.
LEMMA WriteMeans ==
  ASSUME NEW s, s.line \in Seq(Alphabet), s.at \in 0..Len(s.line), NEW text \in Seq(Alphabet),
         NEW w, w = Shell!Write(s, text), NEW top, top = s.at + Len(text)
  PROVE  /\ w = [line |-> w.line, at |-> top]
         /\ w.line \in Seq(Alphabet)
         /\ Len(w.line) = IF top > Len(s.line) THEN top ELSE Len(s.line)
         /\ \A i \in 1..Len(w.line) :
              w.line[i] = IF i > s.at /\ i <= top THEN text[i - s.at] ELSE s.line[i]
<1> DEFINE n == IF top > Len(s.line) THEN top ELSE Len(s.line)
           e(i) == IF i \in (s.at + 1)..top THEN text[i - s.at]
                   ELSE IF i <= Len(s.line) THEN s.line[i] ELSE Space
<1>1. w = [line |-> [i \in 1..n |-> e(i)], at |-> top]
  BY DEF Shell!Write
<1>2. n \in Nat /\ top \in Nat /\ s.at \in Nat /\ Len(text) \in Nat /\ Len(s.line) \in Nat /\ s.at <= Len(s.line)
  OBVIOUS
<1>3. \A i \in 1..n : e(i) \in Alphabet
  BY <1>2 DEF Alphabet
<1>4. [i \in 1..n |-> e(i)] \in Seq(Alphabet) /\ Len([i \in 1..n |-> e(i)]) = n
  <2> HIDE DEF n, e
  <2> QED BY <1>2, <1>3
<1>5. \A i \in 1..n : w.line[i] = e(i)
  <2> HIDE DEF e, n
  <2> QED BY <1>1
<1>6. \A i \in 1..n : e(i) = IF i > s.at /\ i <= top THEN text[i - s.at] ELSE s.line[i]
  BY <1>2
<1>7. w.line \in Seq(Alphabet) /\ Len(w.line) = n /\ w = [line |-> w.line, at |-> top]
  <2> HIDE DEF e, n
  <2>1. PICK f : f = [i \in 1..n |-> e(i)]
    OBVIOUS
  <2>2. f \in Seq(Alphabet) /\ Len(f) = n
    BY <2>1, <1>4
  <2>3. w = [line |-> f, at |-> top]
    BY <2>1, <1>1
  <2> QED BY <2>2, <2>3
<1>8. \A i \in 1..n : w.line[i] = IF i > s.at /\ i <= top THEN text[i - s.at] ELSE s.line[i]
  <2> HIDE DEF e, n
  <2> QED BY <1>5, <1>6
<1> QED BY <1>7, <1>8

\* The line before and after a place, and two lines joined.
LEMMA Parts ==
  ASSUME NEW b \in Seq(Alphabet), NEW c \in 0..Len(b)
  PROVE  /\ SubSeq(b, 1, c) \in Seq(Alphabet) /\ Len(SubSeq(b, 1, c)) = c
         /\ \A i \in 1..c : SubSeq(b, 1, c)[i] = b[i]
         /\ SubSeq(b, c + 1, Len(b)) \in Seq(Alphabet)
         /\ Len(SubSeq(b, c + 1, Len(b))) = Len(b) - c
         /\ \A i \in 1..(Len(b) - c) : SubSeq(b, c + 1, Len(b))[i] = b[c + i]
OBVIOUS

LEMMA Joined ==
  ASSUME NEW b \in Seq(Alphabet), NEW c \in Seq(Alphabet)
  PROVE  /\ b \o c \in Seq(Alphabet) /\ Len(b \o c) = Len(b) + Len(c)
         /\ \A i \in 1..(Len(b) + Len(c)) : (b \o c)[i] = IF i <= Len(b) THEN b[i] ELSE c[i - Len(b)]
OBVIOUS

\* A line that is painted anew.
LEMMA ShownFits == ASSUME NEW t \in Seq(Alphabet) PROVE Fits(Shell!Shown(t), t, Len(t))
BY DEF Fits, Shell!Shown

\* The tail of the line is painted over from some place on.
LEMMA Repainted ==
  ASSUME NEW b \in Seq(Alphabet), NEW s, NEW at \in 0..Len(b), Fits(s, b, at), NEW from \in 0..Len(b),
         NEW tail \in Seq(Alphabet), NEW new \in Seq(Alphabet), NEW k,
         Len(new) <= from + Len(tail), Len(b) <= from + Len(tail), from <= Len(new),
         \A i \in 1..Len(new) : new[i] = IF i <= from THEN b[i] ELSE tail[i - from],
         \A j \in 1..Len(tail) : from + j > Len(new) => tail[j] = Space
  PROVE  Fits([Shell!Write([s EXCEPT !.at = from], tail) EXCEPT !.at = k], new, k)
<1> DEFINE w == Shell!Write([s EXCEPT !.at = from], tail)
<1>1. /\ s = [line |-> s.line, at |-> at] /\ s.line \in Seq(Alphabet) /\ Len(b) <= Len(s.line)
      /\ \A i \in 1..Len(b) : s.line[i] = b[i]
      /\ \A i \in (Len(b) + 1)..Len(s.line) : s.line[i] = Space
  BY DEF Fits
<1>2. /\ Len(b) \in Nat /\ Len(s.line) \in Nat /\ Len(tail) \in Nat /\ Len(new) \in Nat /\ from \in Nat
      /\ from <= Len(s.line)
  BY <1>1
<1> DEFINE r == [s EXCEPT !.at = from]
<1>3. r.line = s.line /\ r.at = from
  BY <1>1
<1> HIDE DEF r
<1>t. PICK top : top = from + Len(tail)
  OBVIOUS
<1>4. /\ w = [line |-> w.line, at |-> top]
      /\ w.line \in Seq(Alphabet)
      /\ Len(w.line) = IF top > Len(s.line) THEN top ELSE Len(s.line)
      /\ \A i \in 1..Len(w.line) :
           w.line[i] = IF i > from /\ i <= top THEN tail[i - from] ELSE s.line[i]
  <2>1. r.line \in Seq(Alphabet) /\ r.at \in 0..Len(r.line)
    BY <1>1, <1>2, <1>3
  <2>2. w = Shell!Write(r, tail)
    BY DEF r
  <2>3. top = r.at + Len(tail)
    BY <1>t, <1>3
  <2> HIDE DEF w
  <2>4. /\ w = [line |-> w.line, at |-> top]
        /\ w.line \in Seq(Alphabet)
        /\ Len(w.line) = IF top > Len(r.line) THEN top ELSE Len(r.line)
        /\ \A i \in 1..Len(w.line) :
             w.line[i] = IF i > r.at /\ i <= top THEN tail[i - r.at] ELSE r.line[i]
    BY <2>1, <2>2, <2>3, WriteMeans
  <2> QED BY <2>4, <1>3
<1> HIDE DEF w
<1>7. Len(new) <= Len(w.line) /\ Len(w.line) \in Nat /\ top \in Nat
  BY <1>2, <1>4, <1>t
<1>5. \A i \in 1..Len(new) : w.line[i] = new[i]
  <2> SUFFICES ASSUME NEW i \in 1..Len(new) PROVE w.line[i] = new[i]
    OBVIOUS
  <2>1. i \in 1..Len(w.line) /\ i <= top /\ i \in Nat
    BY <1>2, <1>7, <1>t
  <2>2. w.line[i] = IF i > from THEN tail[i - from] ELSE s.line[i]
    BY <2>1, <1>4
  <2>3. CASE i <= from
    BY <2>1, <2>2, <2>3, <1>1, <1>2
  <2>4. CASE i > from
    BY <2>1, <2>2, <2>4, <1>2
  <2> QED BY <2>1, <2>3, <2>4, <1>2
<1>6. \A i \in (Len(new) + 1)..Len(w.line) : w.line[i] = Space
  <2> SUFFICES ASSUME NEW i \in (Len(new) + 1)..Len(w.line) PROVE w.line[i] = Space
    OBVIOUS
  <2>0. i \in 1..Len(w.line) /\ i > from /\ i > Len(new) /\ i \in Nat
    BY <1>2, <1>7
  <2>1. CASE i <= top
    <3>1. w.line[i] = tail[i - from]
      BY <2>0, <2>1, <1>4
    <3>2. i - from \in 1..Len(tail) /\ from + (i - from) > Len(new)
      BY <2>0, <2>1, <1>2, <1>t
    <3> QED BY <3>1, <3>2
  <2>2. CASE i > top
    <3>1. w.line[i] = s.line[i]
      BY <2>0, <2>2, <1>4, <1>7
    <3>2. i \in (Len(b) + 1)..Len(s.line)
      BY <2>0, <2>2, <1>2, <1>4, <1>t, <1>7
    <3> QED BY <3>1, <3>2, <1>1
  <2> QED BY <2>0, <1>7, <2>1, <2>2
<1>8. PICK v : v = [w EXCEPT !.at = k]
  OBVIOUS
<1>9. v = [line |-> w.line, at |-> k]
  BY <1>4, <1>8
<1> QED BY <1>4, <1>5, <1>6, <1>7, <1>8, <1>9 DEF Fits, w

-----------------------------------------------------------------------------
(* The keys *)

\* The character and the rest of the line are painted from the cursor on.
LEMMA InsertKeeps ==
  ASSUME ShellInv, NEW ch \in Chars, Shell!Insert(ch)
  PROVE  ShellInv'
<1>1. /\ buffer \in Seq(Alphabet) /\ cursor \in 0..Len(buffer) /\ Len(buffer) \in Nat
      /\ ch \in Alphabet /\ ~busy /\ search = None
  BY DEF ShellInv, ShellTypes, Shell!Insert, Shell!Heard, Alphabet
<1> DEFINE tail == <<ch>> \o Shell!After
           new == (Shell!Before \o <<ch>>) \o Shell!After
<1>2. /\ tail \in Seq(Alphabet) /\ Len(tail) = 1 + (Len(buffer) - cursor)
      /\ \A i \in 1..Len(tail) : tail[i] = IF i = 1 THEN ch ELSE buffer[cursor + i - 1]
  BY <1>1, Parts DEF Shell!After
<1>3. /\ new \in Seq(Alphabet) /\ Len(new) = Len(buffer) + 1
      /\ \A i \in 1..Len(new) : new[i] = IF i <= cursor THEN buffer[i] ELSE tail[i - cursor]
  <2>1. /\ (Shell!Before \o <<ch>>) \in Seq(Alphabet) /\ Len(Shell!Before \o <<ch>>) = cursor + 1
        /\ \A i \in 1..(cursor + 1) : (Shell!Before \o <<ch>>)[i] = IF i <= cursor THEN buffer[i] ELSE ch
    <3>1. PICK b \in Seq(Alphabet) : b = Shell!Before /\ Len(b) = cursor /\ \A i \in 1..cursor : b[i] = buffer[i]
      BY <1>1, Parts DEF Shell!Before
    <3>2. PICK c \in Seq(Alphabet) : c = <<ch>> /\ Len(c) = 1 /\ c[1] = ch
      <4>1. ch \in Alphabet
        BY <1>1
      <4> HIDE DEF new, tail
      <4>2. <<ch>> \in Seq(Alphabet) /\ Len(<<ch>>) = 1 /\ <<ch>>[1] = ch
        BY <4>1
      <4> QED BY <4>2
    <3>3. /\ b \o c \in Seq(Alphabet) /\ Len(b \o c) = cursor + 1
          /\ \A i \in 1..(cursor + 1) : (b \o c)[i] = IF i <= cursor THEN b[i] ELSE c[i - cursor]
      BY <3>1, <3>2, Joined
    <3>4. \A i \in 1..(cursor + 1) : (b \o c)[i] = IF i <= cursor THEN buffer[i] ELSE ch
      BY <1>1, <3>1, <3>2, <3>3
    <3> QED BY <3>1, <3>2, <3>3, <3>4
  <2>2. Shell!After \in Seq(Alphabet) /\ Len(Shell!After) = Len(buffer) - cursor
        /\ \A i \in 1..(Len(buffer) - cursor) : Shell!After[i] = buffer[cursor + i]
    BY <1>1, Parts DEF Shell!After
  <2>3. /\ new \in Seq(Alphabet) /\ Len(new) = Len(buffer) + 1
        /\ \A i \in 1..Len(new) : new[i] = IF i <= cursor + 1 THEN (Shell!Before \o <<ch>>)[i] ELSE Shell!After[i - cursor - 1]
    BY <1>1, <2>1, <2>2
  <2>4. ASSUME NEW i \in 1..Len(new) PROVE new[i] = IF i <= cursor THEN buffer[i] ELSE tail[i - cursor]
    <3> HIDE DEF tail, new
    <3>1. i \in 1..(Len(buffer) + 1) /\ new[i] = IF i <= cursor + 1 THEN (Shell!Before \o <<ch>>)[i] ELSE Shell!After[i - cursor - 1]
      BY <2>3
    <3>2. CASE i <= cursor + 1
      BY <3>1, <3>2, <2>1, <1>1, <1>2
    <3>3. CASE i > cursor + 1
      <4>0. i \in Nat /\ cursor \in Nat /\ Len(buffer) \in Nat /\ i <= Len(buffer) + 1 /\ Len(tail) = 1 + (Len(buffer) - cursor)
        BY <3>1, <1>1, <1>2
      <4>1. i - cursor - 1 \in 1..(Len(buffer) - cursor) /\ i - cursor \in 1..Len(tail)
            /\ cursor + (i - cursor - 1) = i - 1 /\ cursor + (i - cursor) - 1 = i - 1
            /\ ~(i <= cursor) /\ i - cursor # 1
        BY <4>0, <3>3
      <4>2. Shell!After[i - cursor - 1] = buffer[i - 1] /\ tail[i - cursor] = buffer[i - 1]
        BY <4>0, <4>1, <2>2, <1>2
      <4> QED BY <4>0, <4>2, <3>1, <3>3
    <3>4. i \in Nat /\ cursor \in Nat
      BY <3>1, <1>1
    <3> QED BY <3>2, <3>3, <3>4
  <2> QED BY <2>3, <2>4
<1>4. buffer' = new /\ cursor' = cursor + 1
  BY DEF Shell!Insert
<1> HIDE DEF new
<1>5. ShellTypes'
  <2>1. buffer' \in Seq(Alphabet) /\ cursor' \in 0..Len(buffer')
    BY <1>1, <1>3, <1>4
  <2> QED BY <2>1, <1>1 DEF Shell!Insert, Shell!Heard, Shell!Unchanged, ShellInv, ShellTypes, Searches
<1>6. ASSUME ~raced' PROVE Calm'
  <2>1. ~raced /\ completing = None /\ Fits(screen, buffer, cursor)
    BY <1>1, <1>6 DEF Shell!Insert, Shell!Heard, ShellInv, Calm, ShellTypes
  <2>2. screen' = [Shell!Write(screen, tail) EXCEPT !.at = @ - Len(Shell!After)]
    BY DEF Shell!Insert, Shell!Left
  <2>3. Len(Shell!After) = Len(buffer) - cursor
    BY <1>1, Parts DEF Shell!After
  <2> HIDE DEF tail
  <2>4. screen.at = cursor /\ screen = [screen EXCEPT !.at = cursor] /\ Shell!Write(screen, tail).at = cursor + Len(tail)
    BY <2>1 DEF Fits, Shell!Write
  <2>5. screen' = [Shell!Write([screen EXCEPT !.at = cursor], tail) EXCEPT !.at = cursor + 1]
    <3>1. cursor + Len(tail) - Len(Shell!After) = cursor + 1
      <4>1. cursor \in Nat /\ Len(buffer) \in Nat /\ Len(tail) = 1 + (Len(buffer) - cursor)
        BY <1>1, <1>2
      <4> QED BY <4>1, <2>3
    <3>2. PICK v : v = Shell!Write(screen, tail)
      OBVIOUS
    <3>3. v.at - Len(Shell!After) = cursor + 1
      <4>1. v.at = cursor + Len(tail)
        BY <2>4, <3>2
      <4>2. cursor \in Nat /\ Len(tail) \in Nat /\ Len(Shell!After) \in Nat
        BY <1>1, <1>2, <2>3
      <4> QED BY <4>1, <4>2, <3>1
    <3>5. v = Shell!Write([screen EXCEPT !.at = cursor], tail)
      BY <2>4, <3>2
    <3>4. screen' = [v EXCEPT !.at = v.at - Len(Shell!After)]
      BY <2>2, <3>2
    <3> QED BY <3>3, <3>4, <3>5
  <2>6. Fits([Shell!Write([screen EXCEPT !.at = cursor], tail) EXCEPT !.at = cursor + 1], new, cursor + 1)
    <3>1. cursor \in Nat /\ Len(buffer) \in Nat
      BY <1>1
    <3>2. /\ Len(new) <= cursor + Len(tail) /\ Len(buffer) <= cursor + Len(tail) /\ cursor <= Len(new)
          /\ \A j \in 1..Len(tail) : ~(cursor + j > Len(new))
      BY <3>1, <1>1, <1>2, <1>3
    <3> QED BY <3>1, <3>2, <1>1, <1>2, <1>3, <2>1, Repainted
  <2> QED BY <1>1, <2>1, <2>5, <2>6, <1>4 DEF Calm, Shell!Insert, Shell!Unchanged
<1> QED BY <1>5, <1>6 DEF ShellInv

\* The cursor goes back by one; the rest is painted there, and a blank.
LEMMA BackspaceKeeps ==
  ASSUME ShellInv, Shell!Backspace
  PROVE  ShellInv'
<1>1. /\ buffer \in Seq(Alphabet) /\ cursor \in Nat /\ cursor <= Len(buffer) /\ Len(buffer) \in Nat
      /\ ~busy /\ search = None
  BY DEF ShellInv, ShellTypes, Shell!Backspace, Shell!Heard
<1>2. CASE cursor = 0
  <2>1. UNCHANGED <<buffer, cursor, screen, history, index, search, busy, aborted, completing>>
        /\ (~raced' => ~raced) /\ raced' \in BOOLEAN
    BY <1>2 DEF Shell!Backspace, Shell!Heard, Shell!Unchanged, ShellInv, ShellTypes
  <2> QED BY <2>1 DEF ShellInv, ShellTypes, Calm, Searches, Fits
<1>3. CASE cursor > 0
  <2> DEFINE tail == Append(Shell!After, Space)
             new == SubSeq(buffer, 1, cursor - 1) \o Shell!After
  <2>1. Shell!After \in Seq(Alphabet) /\ Len(Shell!After) = Len(buffer) - cursor /\ Len(Shell!After) \in Nat
        /\ \A i \in 1..(Len(buffer) - cursor) : Shell!After[i] = buffer[cursor + i]
    BY <1>1, Parts DEF Shell!After
  <2>2. /\ SubSeq(buffer, 1, cursor - 1) \in Seq(Alphabet) /\ Len(SubSeq(buffer, 1, cursor - 1)) = cursor - 1
        /\ \A i \in 1..(cursor - 1) : SubSeq(buffer, 1, cursor - 1)[i] = buffer[i]
    BY <1>1, <1>3, Parts
  <2>3. tail \in Seq(Alphabet) /\ Len(tail) = Len(Shell!After) + 1
        /\ \A j \in 1..Len(tail) : tail[j] = IF j <= Len(Shell!After) THEN Shell!After[j] ELSE Space
    BY <2>1 DEF Alphabet
  <2>4. new \in Seq(Alphabet) /\ Len(new) = cursor - 1 + Len(Shell!After)
        /\ \A i \in 1..Len(new) : new[i] = IF i <= cursor - 1 THEN buffer[i] ELSE Shell!After[i - (cursor - 1)]
    <3>1. PICK front : front = SubSeq(buffer, 1, cursor - 1)
      OBVIOUS
    <3>2. front \in Seq(Alphabet) /\ Len(front) = cursor - 1 /\ \A i \in 1..(cursor - 1) : front[i] = buffer[i]
      BY <2>2, <3>1
    <3>3. front \o Shell!After \in Seq(Alphabet) /\ Len(front \o Shell!After) = cursor - 1 + Len(Shell!After)
          /\ \A i \in 1..(cursor - 1 + Len(Shell!After)) :
               (front \o Shell!After)[i] = IF i <= cursor - 1 THEN front[i] ELSE Shell!After[i - (cursor - 1)]
      <4>1. /\ front \o Shell!After \in Seq(Alphabet) /\ Len(front \o Shell!After) = Len(front) + Len(Shell!After)
            /\ \A i \in 1..(Len(front) + Len(Shell!After)) :
                 (front \o Shell!After)[i] = IF i <= Len(front) THEN front[i] ELSE Shell!After[i - Len(front)]
        BY <2>1, <3>2, Joined
      <4> QED BY <4>1, <3>2
    <3>4. \A i \in 1..(cursor - 1 + Len(Shell!After)) :
               (front \o Shell!After)[i] = IF i <= cursor - 1 THEN buffer[i] ELSE Shell!After[i - (cursor - 1)]
      BY <1>1, <1>3, <2>1, <3>2, <3>3
    <3> QED BY <3>1, <3>3, <3>4
  <2>5. buffer' = new /\ cursor' = cursor - 1 /\ screen' = Shell!Erased(Shell!Left(screen, 1), Shell!After)
    BY <1>1, <1>3 DEF Shell!Backspace
  <2>6. ShellTypes'
    <3> HIDE DEF new
    <3>1. buffer' \in Seq(Alphabet) /\ cursor' \in 0..Len(buffer')
      BY <1>1, <1>3, <2>1, <2>4, <2>5
    <3> QED BY <3>1, <1>1 DEF Shell!Backspace, Shell!Heard, Shell!Unchanged, ShellInv, ShellTypes, Searches
  <2>7. ASSUME ~raced' PROVE Calm'
    <3>1. ~raced /\ completing = None /\ Fits(screen, buffer, cursor)
      BY <1>1, <2>7 DEF Shell!Backspace, Shell!Heard, ShellInv, Calm, ShellTypes
    <3> DEFINE from == cursor - 1
               v == Shell!Write([screen EXCEPT !.at = from], tail)
    <3>2. screen' = [v EXCEPT !.at = v.at - (Len(Shell!After) + 1)]
      <4>1. [screen EXCEPT !.at = from] = Shell!Left(screen, 1)
        BY <3>1 DEF Fits, Shell!Left
      <4> QED BY <2>5, <4>1 DEF Shell!Erased, Shell!Left
    <3>3. v.at = from + Len(tail)
      <4>1. [screen EXCEPT !.at = from].at = from
        BY <3>1 DEF Fits
      <4> HIDE DEF tail, from
      <4> QED BY <4>1 DEF Shell!Write
    <3> HIDE DEF v
    <3>4. v.at - (Len(Shell!After) + 1) = from
      BY <3>3, <2>1, <2>3, <1>1, <1>3
    <3>5. Fits([v EXCEPT !.at = from], new, from)
      <4> HIDE DEF tail, new
      <4>1. from \in Nat /\ from <= Len(buffer) /\ cursor = from + 1 /\ from <= Len(new)
            /\ Len(new) <= from + Len(tail) /\ Len(buffer) <= from + Len(tail) /\ Len(new) = from + Len(Shell!After)
            /\ Len(tail) = Len(Shell!After) + 1
        BY <1>1, <1>3, <2>1, <2>3, <2>4
      <4>5. cursor \in 0..Len(buffer) /\ from \in 0..Len(buffer)
        BY <4>1, <1>1
      <4> HIDE DEF from
      <4>2. \A i \in 1..Len(new) : new[i] = IF i <= from THEN buffer[i] ELSE tail[i - from]
        <5> SUFFICES ASSUME NEW i \in 1..Len(new) PROVE new[i] = IF i <= from THEN buffer[i] ELSE tail[i - from]
          OBVIOUS
        <5>1. i \in Nat /\ new[i] = IF i <= from THEN buffer[i] ELSE Shell!After[i - from]
          BY <2>4, <4>1 DEF from
        <5>2. i > from => i - from \in 1..Len(tail) /\ i - from <= Len(Shell!After)
          BY <5>1, <4>1, <2>1
        <5> QED BY <5>1, <5>2, <2>3, <4>1
      <4>3. \A j \in 1..Len(tail) : from + j > Len(new) => tail[j] = Space
        BY <4>1, <2>1, <2>3
      <4>4. Fits([Shell!Write([screen EXCEPT !.at = from], tail) EXCEPT !.at = from], new, from)
        BY <1>1, <2>3, <2>4, <3>1, <4>1, <4>2, <4>3, <4>5, Repainted
      <4> QED BY <4>4 DEF v
    <3>6. Fits(screen', buffer', cursor')
      BY <3>2, <3>4, <3>5, <2>5
    <3> QED BY <1>1, <3>1, <3>6 DEF Calm, Shell!Backspace, Shell!Unchanged
  <2> QED BY <2>6, <2>7 DEF ShellInv
<1> QED BY <1>1, <1>2, <1>3

\* The rest moves to the cursor, and a blank follows it.
LEMMA DeleteKeeps ==
  ASSUME ShellInv, Shell!Delete
  PROVE  ShellInv'
<1>1. /\ buffer \in Seq(Alphabet) /\ cursor \in Nat /\ cursor <= Len(buffer) /\ Len(buffer) \in Nat
      /\ cursor \in 0..Len(buffer) /\ ~busy /\ search = None
  BY DEF ShellInv, ShellTypes, Shell!Delete, Shell!Heard
<1>2. CASE cursor = Len(buffer)
  <2>1. UNCHANGED <<buffer, cursor, screen, history, index, search, busy, aborted, completing>>
        /\ (~raced' => ~raced) /\ raced' \in BOOLEAN
    BY <1>1, <1>2 DEF Shell!Delete, Shell!Heard, Shell!Unchanged, ShellInv, ShellTypes
  <2> QED BY <2>1 DEF ShellInv, ShellTypes, Calm, Searches, Fits
<1>3. CASE cursor < Len(buffer)
  <2> DEFINE rest == Tail(Shell!After)
             tail == Append(rest, Space)
             new == Shell!Before \o rest
  <2>0. Shell!After \in Seq(Alphabet) /\ Len(Shell!After) = Len(buffer) - cursor /\ Len(Shell!After) \in Nat
        /\ \A i \in 1..(Len(buffer) - cursor) : Shell!After[i] = buffer[cursor + i]
    BY <1>1, Parts DEF Shell!After
  <2>1. rest \in Seq(Alphabet) /\ Len(rest) = Len(buffer) - cursor - 1 /\ Len(rest) \in Nat
    BY <1>1, <1>3, <2>0
  <2>2. /\ Shell!Before \in Seq(Alphabet) /\ Len(Shell!Before) = cursor
        /\ \A i \in 1..cursor : Shell!Before[i] = buffer[i]
    BY <1>1, Parts DEF Shell!Before
  <2>5. buffer' = new /\ cursor' = cursor /\ screen' = Shell!Erased(screen, rest)
    BY <1>1, <1>3 DEF Shell!Delete
  <2> HIDE DEF rest
  <2>3. tail \in Seq(Alphabet) /\ Len(tail) = Len(rest) + 1
        /\ \A j \in 1..Len(tail) : tail[j] = IF j <= Len(rest) THEN rest[j] ELSE Space
    BY <2>1 DEF Alphabet
  <2>4. new \in Seq(Alphabet) /\ Len(new) = cursor + Len(rest)
        /\ \A i \in 1..Len(new) : new[i] = IF i <= cursor THEN buffer[i] ELSE rest[i - cursor]
    <3>1. new \in Seq(Alphabet) /\ Len(new) = cursor + Len(rest)
          /\ \A i \in 1..(cursor + Len(rest)) : new[i] = IF i <= cursor THEN Shell!Before[i] ELSE rest[i - cursor]
      BY <2>1, <2>2, Joined
    <3>2. \A i \in 1..(cursor + Len(rest)) : new[i] = IF i <= cursor THEN buffer[i] ELSE rest[i - cursor]
      <4> HIDE DEF new
      <4> QED BY <1>1, <2>1, <2>2, <3>1
    <3> QED BY <3>1, <3>2
  <2>6. ShellTypes'
    <3> HIDE DEF new
    <3>1. buffer' \in Seq(Alphabet) /\ cursor' \in 0..Len(buffer')
      BY <1>1, <1>3, <2>1, <2>4, <2>5
    <3> QED BY <3>1, <1>1 DEF Shell!Delete, Shell!Heard, Shell!Unchanged, ShellInv, ShellTypes, Searches
  <2>7. ASSUME ~raced' PROVE Calm'
    <3>1. ~raced /\ completing = None /\ Fits(screen, buffer, cursor)
      BY <1>1, <2>7 DEF Shell!Delete, Shell!Heard, ShellInv, Calm, ShellTypes
    <3> DEFINE v == Shell!Write([screen EXCEPT !.at = cursor], tail)
    <3>2. screen' = [v EXCEPT !.at = v.at - (Len(rest) + 1)]
      <4>1. [screen EXCEPT !.at = cursor] = screen
        BY <3>1 DEF Fits
      <4> QED BY <2>5, <4>1 DEF Shell!Erased, Shell!Left
    <3>3. v.at = cursor + Len(tail)
      <4>1. [screen EXCEPT !.at = cursor].at = cursor
        BY <3>1 DEF Fits
      <4> HIDE DEF tail
      <4> QED BY <4>1 DEF Shell!Write
    <3> HIDE DEF v
    <3>4. v.at - (Len(rest) + 1) = cursor
      BY <3>3, <2>1, <2>3, <1>1, <1>3
    <3>5. Fits([v EXCEPT !.at = cursor], new, cursor)
      <4> HIDE DEF tail, new
      <4>1. cursor <= Len(new) /\ Len(new) <= cursor + Len(tail) /\ Len(buffer) <= cursor + Len(tail)
            /\ Len(new) = cursor + Len(rest) /\ Len(tail) = Len(rest) + 1
        BY <1>1, <1>3, <2>1, <2>3, <2>4
      <4>2. \A i \in 1..Len(new) : new[i] = IF i <= cursor THEN buffer[i] ELSE tail[i - cursor]
        <5> SUFFICES ASSUME NEW i \in 1..Len(new) PROVE new[i] = IF i <= cursor THEN buffer[i] ELSE tail[i - cursor]
          OBVIOUS
        <5>3. i \in Nat
          BY <1>1, <2>1, <4>1
        <5>1. i \in Nat /\ new[i] = IF i <= cursor THEN buffer[i] ELSE rest[i - cursor]
          BY <5>3, <2>4
        <5>2. i > cursor => i - cursor \in 1..Len(tail) /\ i - cursor <= Len(rest)
          BY <1>1, <5>1, <4>1, <2>1
        <5> QED BY <1>1, <5>1, <5>2, <2>3, <4>1
      <4>3. \A j \in 1..Len(tail) : cursor + j > Len(new) => tail[j] = Space
        BY <1>1, <4>1, <2>1, <2>3
      <4>4. Fits([Shell!Write([screen EXCEPT !.at = cursor], tail) EXCEPT !.at = cursor], new, cursor)
        BY <1>1, <2>3, <2>4, <3>1, <4>1, <4>2, <4>3, Repainted
      <4> QED BY <4>4 DEF v
    <3>6. Fits(screen', buffer', cursor')
      BY <3>2, <3>4, <3>5, <2>5
    <3> QED BY <1>1, <3>1, <3>6 DEF Calm, Shell!Delete, Shell!Unchanged
  <2> QED BY <2>6, <2>7 DEF ShellInv
<1> QED BY <1>1, <1>2, <1>3

\* The cursor moves by as many places as the screen is told.
LEMMA MoveKeeps ==
  ASSUME ShellInv, NEW to \in 0..Len(buffer), Shell!Move(to)
  PROVE  ShellInv'
<1>1. /\ buffer \in Seq(Alphabet) /\ cursor \in Nat /\ Len(buffer) \in Nat /\ to \in Nat
      /\ ~busy /\ search = None
  BY DEF ShellInv, ShellTypes, Shell!Move, Shell!Heard
<1>2. ShellTypes'
  BY <1>1 DEF Shell!Move, Shell!Heard, Shell!Unchanged, ShellInv, ShellTypes, Searches
<1>3. ASSUME ~raced' PROVE Calm'
  <2>1. ~raced /\ completing = None /\ Fits(screen, buffer, cursor)
    BY <1>1, <1>3 DEF Shell!Move, Shell!Heard, ShellInv, Calm, ShellTypes
  <2>2. screen' = [screen EXCEPT !.at = screen.at - (cursor - to)]
    BY DEF Shell!Move, Shell!Left
  <2>3. screen.at - (cursor - to) = to
    <3>1. screen.at = cursor
      BY <2>1 DEF Fits
    <3> QED BY <3>1, <1>1
  <2>4. Fits(screen', buffer', cursor')
    <3>1. screen' = [screen EXCEPT !.at = to] /\ buffer' = buffer /\ cursor' = to
      BY <2>2, <2>3 DEF Shell!Move
    <3> QED BY <3>1, <2>1 DEF Fits
  <2> QED BY <1>1, <2>1, <2>4 DEF Calm, Shell!Move, Shell!Unchanged
<1> QED BY <1>2, <1>3 DEF ShellInv

\* An entry of the history takes the place of the line.
LEMMA RecallKeeps ==
  ASSUME ShellInv, NEW i \in 0..Len(history), Shell!Recall(i)
  PROVE  ShellInv'
<1>1. /\ history \in Seq(Seq(Alphabet)) /\ Len(history) \in Nat /\ ~busy /\ search = None
  BY DEF ShellInv, ShellTypes, Shell!Recall, Shell!Heard
<1>2. PICK text \in Seq(Alphabet) : Shell!SetLine(text)
  <2>1. CASE i = Len(history)
    <3>1. Shell!SetLine(<<>>)
      BY <2>1 DEF Shell!Recall
    <3>2. <<>> \in Seq(Alphabet)
      OBVIOUS
    <3> QED BY <3>1, <3>2
  <2>2. CASE i # Len(history)
    <3>1. Shell!SetLine(history[i + 1])
      BY <2>2 DEF Shell!Recall
    <3>2. history[i + 1] \in Seq(Alphabet)
      BY <1>1, <2>2
    <3> QED BY <3>1, <3>2
  <2> QED BY <2>1, <2>2
<1>3. ShellTypes'
  BY <1>1, <1>2 DEF Shell!Recall, Shell!Heard, Shell!SetLine, ShellInv, ShellTypes, Searches
<1>4. ASSUME ~raced' PROVE Calm'
  <2>1. ~raced /\ completing = None
    BY <1>1, <1>4 DEF Shell!Recall, Shell!Heard, ShellInv, ShellTypes
  <2> QED BY <1>1, <1>2, <2>1, ShownFits DEF Calm, Shell!Recall, Shell!SetLine
<1> QED BY <1>3, <1>4 DEF ShellInv

\* Enter on a line.
LEMMA RunKeeps ==
  ASSUME ShellInv, ~busy, NEW cmd \in Seq(Alphabet), Shell!Run(cmd), search' = None,
         raced' \in BOOLEAN, UNCHANGED completing, ~raced' => completing = None
  PROVE  ShellInv'
<1>1. history \in Seq(Seq(Alphabet)) /\ index \in 0..Len(history)
  BY DEF ShellInv, ShellTypes
<1>2. buffer' = <<>> /\ cursor' = 0 /\ screen' = Shell!Shown(<<>>)
  BY DEF Shell!Run
<1>3. history' \in Seq(Seq(Alphabet)) /\ index' \in 0..Len(history') /\ busy' \in BOOLEAN
  <2>1. CASE UNCHANGED <<history, index, busy, aborted>>
    BY <1>1, <2>1 DEF ShellInv, ShellTypes
  <2>2. CASE history' = Append(history, cmd) /\ index' = Len(history) + 1 /\ busy' = TRUE
    <3>1. Append(history, cmd) \in Seq(Seq(Alphabet)) /\ Len(Append(history, cmd)) = Len(history) + 1
      BY <1>1
    <3> QED BY <1>1, <2>2, <3>1
  <2> QED BY <2>1, <2>2 DEF Shell!Run
<1>4. Fits(Shell!Shown(<<>>), <<>>, 0)
  BY ShownFits DEF Fits, Shell!Shown
<1>5. ShellTypes'
  BY <1>2, <1>3 DEF ShellTypes
<1> QED BY <1>2, <1>4, <1>5 DEF ShellInv, Calm

\* Enter outside a search runs the line.
LEMMA EnterKeeps ==
  ASSUME ShellInv, Shell!Enter
  PROVE  ShellInv'
<1>1. buffer \in Seq(Alphabet) /\ ~busy /\ search' = None /\ Shell!Run(buffer) /\ raced' \in BOOLEAN
      /\ UNCHANGED completing /\ (~raced' => completing = None)
  BY DEF Shell!Enter, ShellInv, ShellTypes
<1> QED BY <1>1, RunKeeps

\* The prompt is empty when a command has ended or the line was given up.
LEMMA CommandKeeps ==
  ASSUME ShellInv, Shell!ExecEnds \/ Shell!CtrlC
  PROVE  ShellInv'
<1>0. Fits(Shell!Shown(<<>>), <<>>, 0)
  BY ShownFits DEF Fits, Shell!Shown
<1>1. CASE Shell!ExecEnds
  <2>1. ShellTypes'
    BY <1>1 DEF Shell!ExecEnds, ShellInv, ShellTypes, Searches
  <2> QED BY <1>0, <1>1, <2>1 DEF Shell!ExecEnds, ShellInv, ShellTypes, Calm
<1>2. CASE Shell!CtrlC
  <2>1. CASE busy
    BY <1>2, <2>1 DEF Shell!CtrlC, ShellInv, ShellTypes, Searches, Calm, Fits
  <2>2. CASE ~busy
    <3>1. ShellTypes'
      BY <1>2, <2>2 DEF Shell!CtrlC, ShellInv, ShellTypes, Searches
    <3> QED BY <1>0, <1>2, <2>2, <3>1 DEF Shell!CtrlC, ShellInv, Calm
  <2> QED BY <2>1, <2>2
<1> QED BY <1>1, <1>2

-----------------------------------------------------------------------------
(* Reverse search *)

\* A match is an entry of the history at or before the place where it was sought.
LEMMA MatchIn ==
  ASSUME NEW query, NEW from \in 0..Len(history), Len(history) \in Nat
  PROVE  Shell!Match(query, from) \in 0..Len(history)
<1> DEFINE hits == {i \in 1..from : query # <<>> /\ Shell!Has(history[i], query)}
<1>1. CASE hits = {}
  BY <1>1 DEF Shell!Match
<1>2. CASE hits # {}
  <2>1. hits \in SUBSET (0..from) /\ from \in Nat /\ hits \in SUBSET (0..Len(history))
    OBVIOUS
  <2>2. Shell!Match(query, from) = CHOOSE i \in hits : \A j \in hits : j <= i
    BY <1>2 DEF Shell!Match
  <2> HIDE DEF hits
  <2>3. \E i \in hits : \A j \in hits : j <= i
    BY <1>2, <2>1, Greatest
  <2> QED BY <2>1, <2>2, <2>3
<1> QED BY <1>1, <1>2

\* The search leaves the line alone until it adopts or runs a match.
LEMMA SearchKeeps ==
  ASSUME Shell!TerminalAssumption, ShellInv,
         \/ Shell!BeginSearch \/ Shell!SearchErase \/ Shell!SearchOlder \/ Shell!SearchLeave \/ Shell!SearchEnter
         \/ \E ch \in Chars : Shell!SearchType(ch)
  PROVE  ShellInv'
<1>0. /\ buffer \in Seq(Alphabet) /\ history \in Seq(Seq(Alphabet)) /\ Len(history) \in Nat
      /\ search # None => search \in Searches
      /\ raced \in BOOLEAN /\ Len(history) \in 0..Len(history)
  BY DEF ShellInv, ShellTypes
<1>n. None \notin Searches
  <2>1. \A x \in Searches : x \in [query : Seq(Alphabet), match : Nat, saved : Seq(Alphabet)]
    BY <1>0 DEF Searches
  <2> QED BY <2>1 DEF Shell!TerminalAssumption, Alphabet
<1> DEFINE Resting == ~busy /\ raced' = (raced \/ completing # None)
                    /\ UNCHANGED <<buffer, cursor, history, index, busy, aborted, completing, screen>>
<1>1. ASSUME Resting, search' \in Searches PROVE ShellInv'
  <2>1. ShellTypes'
    BY <1>0, <1>1 DEF ShellInv, ShellTypes, Searches
  <2> QED BY <1>0, <1>n, <1>1, <2>1 DEF ShellInv, Calm
<1>2. CASE Shell!BeginSearch
  <2>1. [query |-> <<>>, match |-> 0, saved |-> buffer] \in Searches
    BY <1>0 DEF Searches
  <2> QED BY <1>1, <1>2, <2>1 DEF Shell!BeginSearch, Shell!Heard
<1>3. ASSUME NEW query \in Seq(Alphabet), NEW from \in 0..Len(history), Shell!Searching, Shell!Search(query, from)
      PROVE  ShellInv'
  <2>1. search \in Searches
    BY <1>0, <1>3 DEF Shell!Searching
  <2>2. [search EXCEPT !.query = query, !.match = Shell!Match(query, from)] \in Searches
    BY <1>0, <1>3, <2>1, MatchIn DEF Searches
  <2> QED BY <1>1, <1>3, <2>2 DEF Shell!Searching, Shell!Search
<1>4. CASE Shell!SearchErase
  <2>1. search.query \in Seq(Alphabet)
    BY <1>0, <1>4 DEF Shell!SearchErase, Shell!Searching, Searches
  <2>2. (IF search.query = <<>> THEN <<>> ELSE Shell!Front(search.query)) \in Seq(Alphabet)
    BY <2>1 DEF Shell!Front
  <2> QED BY <1>0, <1>3, <1>4, <2>2 DEF Shell!SearchErase
<1>5. ASSUME NEW ch \in Chars, Shell!SearchType(ch) PROVE ShellInv'
  <2>1. search.query \in Seq(Alphabet) /\ search.match \in 0..Len(history) /\ ch \in Alphabet
    BY <1>0, <1>5 DEF Shell!SearchType, Shell!Searching, Searches, Alphabet
  <2>2. Append(search.query, ch) \in Seq(Alphabet)
        /\ (IF search.match > 0 THEN search.match ELSE Len(history)) \in 0..Len(history)
    BY <1>0, <2>1
  <2> QED BY <1>3, <1>5, <2>2 DEF Shell!SearchType
<1>6. CASE Shell!SearchOlder
  <2>1. search \in Searches
    BY <1>0, <1>6 DEF Shell!SearchOlder, Shell!Searching
  <2>2. (IF search.match > 0 THEN search.match - 1 ELSE Len(history)) \in 0..Len(history)
    BY <1>0, <2>1 DEF Searches
  <2>3. PICK older \in 0..Len(history) :
          search' = IF older > 0 THEN [search EXCEPT !.match = older] ELSE search
    BY <1>0, <1>6, <2>2, MatchIn DEF Shell!SearchOlder
  <2>4. search' \in Searches
    BY <2>1, <2>3 DEF Searches
  <2> QED BY <1>1, <1>6, <2>4 DEF Shell!SearchOlder, Shell!Searching
<1>7. CASE Shell!SearchLeave \/ Shell!SearchEnter
  <2>1. search.saved \in Seq(Alphabet) /\ search.match \in 0..Len(history)
    BY <1>0, <1>7 DEF Shell!SearchLeave, Shell!SearchEnter, Shell!Searching, Searches
  <2>2. Shell!Adopted \in Seq(Alphabet)
    BY <1>0, <2>1 DEF Shell!Adopted
  <2>3. ~busy /\ raced' \in BOOLEAN /\ (~raced' => completing = None) /\ search' = None
        /\ UNCHANGED completing
    BY <1>0, <1>7 DEF Shell!SearchLeave, Shell!SearchEnter, Shell!Searching
  <2>4. CASE Shell!SearchEnter
    BY <2>2, <2>3, <2>4, RunKeeps DEF Shell!SearchEnter
  <2>5. CASE Shell!SearchLeave
    <3> DEFINE text == Shell!Adopted
    <3>1. PICK t \in Seq(Alphabet) : Shell!SetLine(t)
      BY <2>2, <2>5 DEF Shell!SearchLeave
    <3>2. ShellTypes'
      BY <1>0, <2>3, <2>5, <3>1 DEF Shell!SearchLeave, Shell!SetLine, ShellInv, ShellTypes
    <3> QED BY <2>3, <2>5, <3>1, <3>2, ShownFits DEF Shell!SearchLeave, Shell!SetLine, ShellInv, Calm
  <2> QED BY <1>7, <2>4, <2>5
<1> QED BY <1>2, <1>4, <1>5, <1>6, <1>7

-----------------------------------------------------------------------------
(* Completion *)

\* Any words have a longest common prefix.
LEMMA CommonPrefixIn ==
  ASSUME NEW words, words \subseteq Seq(Alphabet), words # {}
  PROVE  Shell!CommonPrefix(words) \in Seq(Alphabet)
<1> DEFINE ps == {p \in UNION {Shell!Prefixes(w) : w \in words} : \A w \in words : Shell!IsPrefix(p, w)}
<1>1. PICK word \in words : TRUE
  OBVIOUS
<1>2. word \in Seq(Alphabet) /\ Len(word) \in Nat
  BY <1>1
<1>3. \A p \in ps : p \in Seq(Alphabet) /\ Len(p) \in 0..Len(word)
  <2> SUFFICES ASSUME NEW p \in ps PROVE p \in Seq(Alphabet) /\ Len(p) \in 0..Len(word)
    OBVIOUS
  <2>1. PICK w \in words : p \in Shell!Prefixes(w)
    OBVIOUS
  <2>2. p \in Seq(Alphabet) /\ Len(p) \in Nat
    <3>1. PICK n \in 0..Len(w) : p = SubSeq(w, 1, n)
      BY <2>1 DEF Shell!Prefixes
    <3>2. w \in Seq(Alphabet) /\ n \in 0..Len(w) /\ Len(w) \in Nat
      OBVIOUS
    <3> QED BY <3>1, <3>2
  <2>3. Len(p) <= Len(word)
    BY <1>1 DEF Shell!IsPrefix
  <2> QED BY <1>2, <2>2, <2>3
<1>4. <<>> \in ps
  <2>1. SubSeq(word, 1, 0) = <<>> /\ 0 \in 0..Len(word)
    BY <1>2
  <2>2. <<>> \in Shell!Prefixes(word)
    BY <2>1 DEF Shell!Prefixes
  <2>3. \A w \in words : Shell!IsPrefix(<<>>, w)
    BY DEF Shell!IsPrefix
  <2> QED BY <1>1, <2>2, <2>3
<1>5. \E p \in ps : \A q \in ps : Len(q) <= Len(p)
  <2> DEFINE lens == {Len(p) : p \in ps}
  <2> HIDE DEF ps
  <2>1. lens \in SUBSET (0..Len(word)) /\ Len(<<>>) \in lens
    BY <1>3, <1>4
  <2>2. PICK m \in lens : \A k \in lens : k <= m
    BY <1>2, <2>1, Greatest
  <2>3. PICK p \in ps : Len(p) = m
    BY <2>2
  <2> QED BY <2>2, <2>3
<1>6. Shell!CommonPrefix(words) = CHOOSE p \in ps : \A q \in ps : Len(q) <= Len(p)
  BY DEF Shell!CommonPrefix
<1> HIDE DEF ps
<1> QED BY <1>3, <1>5, <1>6

\* What a completion adds is made of characters of a line.
LEMMA AdditionIn ==
  ASSUME Shell!TerminalAssumption, buffer \in Seq(Alphabet), Shell!Candidates # {}
  PROVE  Shell!Addition \in Seq(Alphabet)
<1>1. Shell!Candidates \subseteq Seq(Alphabet)
  BY DEF Shell!Candidates, Shell!TerminalAssumption, Alphabet
<1>2. PICK lcp \in Seq(Alphabet) : lcp = Shell!CommonPrefix(Shell!Candidates)
  BY <1>1, CommonPrefixIn
<1>3. PICK add : add = SubSeq(lcp, Len(buffer) + 1, Len(lcp))
  OBVIOUS
<1>4. add \in Seq(Alphabet) /\ Append(add, Space) \in Seq(Alphabet)
  <2>1. Len(buffer) \in Nat /\ Len(lcp) \in Nat
    BY <1>2
  <2>2. add \in Seq(Alphabet)
    BY <1>2, <1>3, <2>1
  <2> QED BY <2>2 DEF Alphabet
<1>5. Shell!Addition = IF \E w \in Shell!Candidates : Shell!Candidates = {w} THEN Append(add, Space) ELSE add
  BY <1>2, <1>3 DEF Shell!Addition
<1> QED BY <1>4, <1>5

\* The answer goes to the end of the line, where the cursor still is if nobody
\* typed meanwhile.
LEMMA CompletionKeeps ==
  ASSUME Shell!TerminalAssumption, ShellInv, Shell!Tab \/ Shell!Completed
  PROVE  ShellInv'
<1>0. /\ buffer \in Seq(Alphabet) /\ Len(buffer) \in Nat /\ raced \in BOOLEAN /\ cursor \in 0..Len(buffer)
  BY DEF ShellInv, ShellTypes
<1>1. CASE Shell!Tab
  <2>1. ShellTypes'
    BY <1>1 DEF Shell!Tab, ShellInv, ShellTypes, Searches
  <2> QED BY <1>1, <2>1 DEF Shell!Tab, ShellInv, Calm
<1>2. CASE Shell!Completed /\ UNCHANGED <<buffer, cursor>> /\ (screen' = screen \/ screen' = Shell!Shown(buffer))
  <2>1. ShellTypes'
    BY <1>2 DEF Shell!Completed, ShellInv, ShellTypes, Searches
  <2>2. ASSUME ~raced PROVE Fits(screen', buffer, cursor)
    <3>1. Fits(screen, buffer, cursor) /\ cursor = Len(buffer)
      BY <1>2, <2>2 DEF Shell!Completed, ShellInv, Calm
    <3> QED BY <1>0, <1>2, <3>1, ShownFits
  <2> QED BY <1>2, <2>1, <2>2 DEF Shell!Completed, ShellInv, Calm
<1>3. CASE /\ Shell!Completed /\ Shell!Candidates # {}
           /\ buffer' = buffer \o Shell!Addition
           /\ cursor' = Len(buffer) + Len(Shell!Addition)
           /\ screen' = Shell!Write(screen, Shell!Addition)
  <2>1. PICK add \in Seq(Alphabet) : add = Shell!Addition
    BY <1>0, <1>3, AdditionIn
  <2>2. PICK new : new = buffer \o add
    OBVIOUS
  <2>3. /\ new \in Seq(Alphabet) /\ Len(new) = Len(buffer) + Len(add) /\ Len(add) \in Nat
        /\ \A i \in 1..Len(new) : new[i] = IF i <= Len(buffer) THEN buffer[i] ELSE add[i - Len(buffer)]
    <3>1. Len(add) \in Nat
      OBVIOUS
    <3> QED BY <1>0, <2>2, <3>1, Joined
  <2>4. buffer' = new /\ cursor' = Len(new) /\ screen' = Shell!Write(screen, add)
    BY <1>3, <2>1, <2>2, <2>3
  <2>5. ShellTypes'
    <3>1. buffer' \in Seq(Alphabet) /\ cursor' \in 0..Len(buffer')
      BY <2>3, <2>4
    <3> QED BY <1>3, <3>1 DEF Shell!Completed, ShellInv, ShellTypes, Searches
  <2>6. ASSUME ~raced PROVE Fits(screen', new, Len(new))
    <3>1. Fits(screen, buffer, Len(buffer))
      BY <1>3, <2>6 DEF Shell!Completed, ShellInv, Calm
    <3> DEFINE s == [screen EXCEPT !.at = Len(buffer)]
               v == Shell!Write(s, add)
    <3>2. s = screen /\ s.at = Len(buffer)
      BY <3>1 DEF Fits
    <3>3. Fits([v EXCEPT !.at = Len(new)], new, Len(new))
      <4>1. /\ Len(buffer) \in 0..Len(buffer)
            /\ Len(new) <= Len(buffer) + Len(add) /\ Len(buffer) <= Len(buffer) + Len(add)
            /\ Len(buffer) <= Len(new)
            /\ \A j \in 1..Len(add) : ~(Len(buffer) + j > Len(new))
        BY <1>0, <2>3
      <4> QED BY <1>0, <2>3, <3>1, <4>1, Repainted
    <3>4. [v EXCEPT !.at = Len(new)] = v
      <4>1. v.at = Len(new) /\ v = [line |-> v.line, at |-> v.at]
        <5> HIDE DEF s
        <5> QED BY <3>2, <2>3 DEF Shell!Write
      <4> HIDE DEF v
      <4> QED BY <4>1
    <3>5. v = Shell!Write(screen, add)
      BY <3>2
    <3> QED BY <2>4, <3>3, <3>4, <3>5
  <2>7. ~raced => ~busy /\ search = None
    BY <1>3 DEF Shell!Completed, ShellInv, Calm
  <2> QED BY <1>3, <2>4, <2>5, <2>6, <2>7 DEF Shell!Completed, ShellInv, Calm
<1> QED BY <1>1, <1>2, <1>3 DEF Shell!Completed

-----------------------------------------------------------------------------

\* Every key, answer and end of a command keeps the invariant.
LEMMA ShellInvariant ==
  ASSUME Shell!TerminalAssumption
  PROVE  Shell!Spec => []ShellInv
<1>1. Shell!Init => ShellInv
  <2> SUFFICES ASSUME Shell!Init PROVE ShellInv
    OBVIOUS
  <2>1. ShellTypes
    <3>1. <<>> \in Seq(Alphabet) /\ <<>> \in Seq(Seq(Alphabet)) /\ 0 \in 0..Len(<<>>)
      OBVIOUS
    <3>2. buffer = <<>> /\ cursor = 0 /\ history = <<>> /\ index = 0 /\ search = None /\ busy = FALSE
          /\ raced = FALSE
      BY DEF Shell!Init
    <3>3. cursor \in 0..Len(buffer) /\ index \in 0..Len(history)
      BY <3>1, <3>2
    <3> QED BY <3>1, <3>2, <3>3 DEF ShellTypes
  <2>2. Fits(Shell!Shown(<<>>), <<>>, 0)
    BY ShownFits DEF Fits, Shell!Shown
  <2> QED BY <2>1, <2>2 DEF Shell!Init, ShellInv, Calm
<1>2. ShellInv /\ [Shell!Next]_(Shell!vars) => ShellInv'
  <2> SUFFICES ASSUME ShellInv, [Shell!Next]_(Shell!vars) PROVE ShellInv'
    OBVIOUS
  <2>1. CASE UNCHANGED Shell!vars
    BY <2>1 DEF Shell!vars, ShellInv, ShellTypes, Searches, Calm, Fits
  <2>2. CASE Shell!Next
    BY <2>2, InsertKeeps, BackspaceKeeps, DeleteKeeps, MoveKeeps, RecallKeeps, EnterKeeps, CommandKeeps,
       SearchKeeps, CompletionKeeps DEF Shell!Next
  <2> QED BY <2>1, <2>2
<1> QED BY <1>1, <1>2, PTL DEF Shell!Spec

\* What the user sees is what Enter runs.
LEMMA ScreenShows ==
  ASSUME Shell!TerminalAssumption
  PROVE  Shell!Spec => [](Shell!TypeOK /\ Shell!ScreenShowsLine)
<1>1. ShellInv => Shell!TypeOK /\ Shell!ScreenShowsLine
  BY TrimSame DEF ShellInv, ShellTypes, Calm, Shell!TypeOK, Shell!ScreenShowsLine
<1> QED BY <1>1, ShellInvariant, PTL

-----------------------------------------------------------------------------
(* The patches: what a patch takes away, of lines that do not mention the     *)
(* file's path and of sections too short for the allowance of a fuzzy match.  *)

\* What a section is read into, for lines of the set L.
Chunks(L) == [at : Nat, del : Seq(L), ins : Seq(L)]

Reads(L) == [mode : {"add", "del", "keep"}, old : Seq(L), del : Seq(L), ins : Seq(L),
             chunks : Seq(Chunks(L)), merges : Nat]

MarkedOps(L) == [mark : {"add", "del", "keep", "bare"}, line : L]

\* A chunk takes away lines of its section, in their place.
Inside(c, old) ==
    c.at + Len(c.del) <= Len(old) /\ \A j \in 1..Len(c.del) : c.del[j] = old[c.at + j]

\* While a section is read: the removals that are pending are the last lines of
\* the section, and a kept line comes after all chunks.
Reading(s, L) ==
    /\ s \in Reads(L)
    /\ Inside([at |-> Len(s.old) - Len(s.del), del |-> s.del], s.old) /\ Len(s.del) <= Len(s.old)
    /\ \A c \in DOMAIN s.chunks : Inside(s.chunks[c], s.old)
    /\ s.mode = "keep" =>
         /\ s.del = <<>> /\ s.ins = <<>>
         /\ \A c \in DOMAIN s.chunks : s.chunks[c].at + Len(s.chunks[c].del) < Len(s.old)

LEMMA FlushKeeps ==
  ASSUME NEW L, NEW s, Reading(s, L)
  PROVE  /\ Reading(Tool!Flush(s), L) /\ Tool!Flush(s).mode = s.mode
         /\ Tool!Flush(s).old = s.old /\ Tool!Flush(s).merges = s.merges
         /\ Tool!Flush(s).del = <<>> /\ Tool!Flush(s).ins = <<>>
<1> DEFINE f == Tool!Flush(s)
<1>1. s \in Reads(L)
  BY DEF Reading
<1>2. CASE s.del = <<>> /\ s.ins = <<>>
  <2>1. f = s
    BY <1>2 DEF Tool!Flush
  <2> QED BY <1>2, <2>1
<1>3. CASE ~(s.del = <<>> /\ s.ins = <<>>)
  <2> DEFINE chunk == [at |-> Len(s.old) - Len(s.del), del |-> s.del, ins |-> s.ins]
             chunks == Append(s.chunks, chunk)
  <2>1. f = [s EXCEPT !.chunks = chunks, !.del = <<>>, !.ins = <<>>]
    BY <1>3 DEF Tool!Flush
  <2>2. Len(s.old) \in Nat /\ Len(s.del) \in Nat /\ Len(s.del) <= Len(s.old)
    BY <1>1 DEF Reading, Reads
  <2>3. chunk \in Chunks(L) /\ chunk.at = Len(s.old) - Len(s.del) /\ chunk.del = s.del
    BY <1>1, <2>2 DEF Reads, Chunks
  <2>4. Inside(chunk, s.old)
    BY <2>3 DEF Reading, Inside
  <2>5. s.chunks \in Seq(Chunks(L))
    BY <1>1 DEF Reads
  <2> HIDE DEF chunk
  <2>6. chunks \in Seq(Chunks(L)) /\ \A c \in DOMAIN chunks : Inside(chunks[c], s.old)
    <3>1. chunks \in Seq(Chunks(L))
      BY <2>3, <2>5
    <3>2. ASSUME NEW c \in DOMAIN chunks PROVE Inside(chunks[c], s.old)
      <4>1. (c \in DOMAIN s.chunks /\ chunks[c] = s.chunks[c]) \/ chunks[c] = chunk
        BY <2>3, <2>5
      <4> QED BY <4>1, <2>4 DEF Reading
    <3> QED BY <3>1, <3>2
  <2> HIDE DEF chunks, f
  <2>7. <<>> \in Seq(L)
    OBVIOUS
  <2>8. /\ f.mode = s.mode /\ f.old = s.old /\ f.merges = s.merges
        /\ f.del = <<>> /\ f.ins = <<>> /\ f.chunks = chunks
    BY <1>1, <2>1 DEF Reads
  <2>9. f \in Reads(L)
    BY <1>1, <2>1, <2>6, <2>7 DEF Reads
  <2>10. s.mode # "keep"
    BY <1>3 DEF Reading
  <2>11. Inside([at |-> Len(f.old) - Len(f.del), del |-> f.del], f.old) /\ Len(f.del) <= Len(f.old)
    BY <2>2, <2>8 DEF Inside
  <2>12. Reading(f, L)
    BY <2>6, <2>8, <2>9, <2>10, <2>11 DEF Reading
  <2> QED BY <2>8, <2>12 DEF f
<1> QED BY <1>2, <1>3

\* A line that is read: what is pending is still at the end, and a line that is
\* kept leaves nothing pending.
LEMMA TakenKeeps ==
  ASSUME NEW L, NEW s, Reading(s, L), NEW mode \in {"add", "del", "keep"}, NEW line \in L, NEW merges \in Nat,
         mode = "keep" => s.del = <<>> /\ s.ins = <<>>
  PROVE  /\ Reading(Tool!Taken(s, mode, line, merges), L)
         /\ Tool!Taken(s, mode, line, merges).merges = merges
         /\ Len(Tool!Taken(s, mode, line, merges).old) <= Len(s.old) + 1
         /\ mode = "add" => Len(Tool!Taken(s, mode, line, merges).old) <= Len(s.old)
<1> DEFINE t == Tool!Taken(s, mode, line, merges)
           old == IF mode = "add" THEN s.old ELSE Append(s.old, line)
           del == IF mode = "del" THEN Append(s.del, line) ELSE s.del
           ins == IF mode = "add" THEN Append(s.ins, line) ELSE s.ins
<1>1. /\ s \in Reads(L) /\ s.old \in Seq(L) /\ s.del \in Seq(L) /\ s.ins \in Seq(L)
      /\ s.chunks \in Seq(Chunks(L))
  BY DEF Reading, Reads
<1>2. old \in Seq(L) /\ del \in Seq(L) /\ ins \in Seq(L)
  BY <1>1
<1>3. t = [s EXCEPT !.mode = mode, !.merges = merges, !.old = old, !.del = del, !.ins = ins]
  BY <1>1 DEF Tool!Taken, Reads
<1>4. /\ Len(s.old) \in Nat /\ Len(s.del) \in Nat /\ Len(s.del) <= Len(s.old)
      /\ \A j \in 1..Len(s.del) : s.del[j] = s.old[Len(s.old) - Len(s.del) + j]
  <2>1. Len(s.old) \in Nat /\ Len(s.del) \in Nat /\ Len(s.del) <= Len(s.old)
    BY <1>1 DEF Reading
  <2> QED BY <2>1 DEF Reading, Inside
<1>41. Len(s.old) \in Nat /\ Len(s.del) \in Nat /\ Len(s.del) <= Len(s.old)
  BY <1>4
<1>5. /\ Len(old) = Len(s.old) + (IF mode = "add" THEN 0 ELSE 1)
      /\ \A j \in 1..Len(s.old) : old[j] = s.old[j]
      /\ mode # "add" => old[Len(s.old) + 1] = line
  <2>1. CASE mode = "add"
    BY <2>1, <1>4
  <2>2. CASE mode # "add"
    BY <2>2, <1>1
  <2> QED BY <2>1, <2>2
<1>51. /\ mode = "add" => Len(old) = Len(s.old)
       /\ mode # "add" => Len(old) = Len(s.old) + 1
  BY <1>5
<1>6. Len(del) <= Len(old) /\ \A j \in 1..Len(del) : del[j] = old[Len(old) - Len(del) + j]
  <2>1. CASE mode = "add"
    BY <2>1, <1>4
  <2>2. CASE mode = "keep"
    <3>1. Len(del) = 0
      BY <2>2
    <3>2. Len(old) \in Nat
      BY <1>2
    <3> HIDE DEF old, del
    <3> QED BY <3>1, <3>2
  <2>3. CASE mode = "del"
    <3>1. Len(del) = Len(s.del) + 1 /\ Len(old) = Len(s.old) + 1
      BY <2>3, <1>1
    <3>2. /\ \A j \in 1..Len(s.del) : del[j] = s.del[j]
          /\ del[Len(s.del) + 1] = line
      BY <2>3, <1>1
    <3> HIDE DEF old, del
    <3>3. Len(del) <= Len(old)
      BY <3>1, <1>4
    <3>4. ASSUME NEW j \in 1..Len(del) PROVE del[j] = old[Len(old) - Len(del) + j]
      <4>1. j \in Nat /\ Len(old) - Len(del) + j = Len(s.old) - Len(s.del) + j
        BY <3>1, <1>4
      <4>0. \A o, d \in Nat : d <= o => (d + 1 = j => o - d + j = o + 1) /\ (j \in 1..d => o - d + j \in 1..o)
        BY <4>1
      <4>2. CASE j = Len(s.del) + 1
        <5>1. Len(s.old) - Len(s.del) + j = Len(s.old) + 1
          BY <4>2, <4>0, <1>41
        <5> QED BY <4>1, <4>2, <5>1, <3>2, <2>3, <1>5
      <4>3. CASE j # Len(s.del) + 1
        <5>1. j \in 1..Len(s.del)
          BY <4>3, <3>1, <1>4
        <5>2. Len(s.old) - Len(s.del) + j \in 1..Len(s.old)
          BY <5>1, <4>0, <1>41
        <5> QED BY <5>1, <5>2, <4>1, <3>2, <1>4, <1>5
      <4> QED BY <4>2, <4>3
    <3> QED BY <3>3, <3>4
  <2> QED BY <2>1, <2>2, <2>3
<1>7. ASSUME NEW c \in DOMAIN s.chunks
      PROVE  Inside(s.chunks[c], old) /\ (mode = "keep" => s.chunks[c].at + Len(s.chunks[c].del) < Len(old))
  <2>1. s.chunks[c] \in Chunks(L) /\ Inside(s.chunks[c], s.old)
    BY <1>1 DEF Reading
  <2>2. s.chunks[c].at \in Nat /\ Len(s.chunks[c].del) \in Nat
    BY <2>1 DEF Chunks
  <2>3. s.chunks[c].at + Len(s.chunks[c].del) <= Len(s.old)
    BY <2>1 DEF Inside
  <2>4. \A j \in 1..Len(s.chunks[c].del) :
           s.chunks[c].at + j \in 1..Len(s.old) /\ s.chunks[c].del[j] = s.old[s.chunks[c].at + j]
    BY <2>1, <2>2, <2>3, <1>4 DEF Inside
  <2>0. /\ Len(old) \in Nat /\ Len(s.old) <= Len(old)
        /\ mode = "keep" => Len(s.old) < Len(old)
    <3> HIDE DEF old
    <3> QED BY <1>41, <1>51
  <2> HIDE DEF old
  <2>5. s.chunks[c].at + Len(s.chunks[c].del) <= Len(old)
    BY <2>0, <2>2, <2>3, <1>4
  <2>6. Inside(s.chunks[c], old)
    BY <2>4, <2>5, <1>5 DEF Inside
  <2>7. mode = "keep" => s.chunks[c].at + Len(s.chunks[c].del) < Len(old)
    BY <2>0, <2>2, <2>3, <1>4
  <2> QED BY <2>6, <2>7
<1>8. mode = "keep" => del = <<>> /\ ins = <<>>
  OBVIOUS
<1> HIDE DEF old, del, ins, t
<1>9. /\ t.mode = mode /\ t.merges = merges /\ t.old = old /\ t.del = del /\ t.ins = ins
      /\ t.chunks = s.chunks
  BY <1>1, <1>3 DEF Reads
<1>10. t \in Reads(L)
  BY <1>1, <1>2, <1>3 DEF Reads
<1>11. Inside([at |-> Len(t.old) - Len(t.del), del |-> t.del], t.old) /\ Len(t.del) <= Len(t.old)
  <2>1. Len(t.old) \in Nat /\ Len(t.del) \in Nat
    BY <1>2, <1>9
  <2> QED BY <2>1, <1>6, <1>9 DEF Inside
<1>12. Reading(t, L)
  <2>1. \A c \in DOMAIN t.chunks : Inside(t.chunks[c], t.old)
    BY <1>7, <1>9
  <2>2. t.mode = "keep" =>
         /\ t.del = <<>> /\ t.ins = <<>>
         /\ \A c \in DOMAIN t.chunks : t.chunks[c].at + Len(t.chunks[c].del) < Len(t.old)
    BY <1>7, <1>8, <1>9
  <2> QED BY <2>1, <2>2, <1>10, <1>11 DEF Reading
<1>13. Len(t.old) <= Len(s.old) + 1 /\ (mode = "add" => Len(t.old) <= Len(s.old))
  <2>1. CASE mode = "add"
    BY <2>1, <1>41, <1>51, <1>9
  <2>2. CASE mode # "add"
    BY <2>2, <1>41, <1>51, <1>9
  <2> QED BY <2>1, <2>2
<1> QED BY <1>9, <1>12, <1>13 DEF t

LEMMA LineKeeps ==
  ASSUME NEW L, NEW s, Reading(s, L), NEW ops \in Seq(MarkedOps(L)), NEW i \in 1..Len(ops), NEW fuzz \in Nat
  PROVE  /\ Reading(Tool!Line(s, ops, i, fuzz), L)
         /\ Tool!Line(s, ops, i, fuzz).merges <= s.merges + 1
         /\ Len(Tool!Line(s, ops, i, fuzz).old) <= Len(s.old) + (IF ops[i].mark = "add" THEN 0 ELSE 1)
<1> DEFINE mode == Tool!Mode(s, ops, i, fuzz)
           line == ops[i].line
           between == Tool!Between(s, Tool!NextMode(ops, i))
           merges == IF ops[i].mark = "bare" /\ between THEN s.merges + 1 ELSE s.merges
           u == IF mode = "keep" /\ s.mode # "keep" THEN Tool!Flush(s) ELSE s
<1>1. s \in Reads(L) /\ s.mode \in {"add", "del", "keep"} /\ s.merges \in Nat
  BY DEF Reading, Reads
<1>2. ops[i] \in MarkedOps(L) /\ ops[i].mark \in {"add", "del", "keep", "bare"} /\ ops[i].line \in L
  <2>1. ops[i] \in MarkedOps(L)
    OBVIOUS
  <2> QED BY <2>1 DEF MarkedOps
<1>3. mode \in {"add", "del", "keep"} /\ (ops[i].mark = "add" => mode = "add")
  BY <1>1, <1>2 DEF Tool!Mode
<1>4. merges \in Nat /\ merges <= s.merges + 1
  BY <1>1
<1>5. Tool!Line(s, ops, i, fuzz) = Tool!Taken(u, mode, line, merges)
  BY DEF Tool!Line, Tool!InMode
<1>6. Reading(u, L) /\ u.old = s.old /\ u.merges = s.merges /\ (mode = "keep" => u.del = <<>> /\ u.ins = <<>>)
  <2>1. CASE mode = "keep" /\ s.mode # "keep"
    BY <2>1, FlushKeeps
  <2>2. CASE ~(mode = "keep" /\ s.mode # "keep")
    BY <2>2 DEF Reading
  <2> QED BY <2>1, <2>2
<1> HIDE DEF mode, between, merges, u, line
<1>8. /\ Reading(Tool!Taken(u, mode, line, merges), L)
      /\ Tool!Taken(u, mode, line, merges).merges = merges
      /\ Len(Tool!Taken(u, mode, line, merges).old) <= Len(u.old) + 1
      /\ mode = "add" => Len(Tool!Taken(u, mode, line, merges).old) <= Len(u.old)
  <2>1. Reading(u, L) /\ mode \in {"add", "del", "keep"} /\ line \in L /\ merges \in Nat
    BY <1>2, <1>3, <1>4, <1>6 DEF line
  <2>2. mode = "keep" => u.del = <<>> /\ u.ins = <<>>
    BY <1>6
  <2> QED BY <2>1, <2>2, TakenKeeps
<1>9. Len(s.old) \in Nat
  BY <1>1 DEF Reads
<1> DEFINE t == Tool!Taken(u, mode, line, merges)
<1>10. Len(t.old) \in Nat
  BY <1>8 DEF Reading, Reads
<1>11. Len(t.old) <= Len(s.old) + (IF ops[i].mark = "add" THEN 0 ELSE 1)
  <2> HIDE DEF t
  <2>1. Len(t.old) <= Len(s.old) + 1 /\ (mode = "add" => Len(t.old) <= Len(s.old))
    BY <1>6, <1>8 DEF t
  <2>2. CASE ops[i].mark = "add"
    BY <2>1, <2>2, <1>3
  <2>3. CASE ops[i].mark # "add"
    <3>1. CASE mode = "add"
      BY <2>1, <2>3, <3>1, <1>9, <1>10
    <3>2. CASE mode # "add"
      BY <2>1, <2>3, <3>2
    <3> QED BY <3>1, <3>2
  <2> QED BY <2>2, <2>3
<1> QED BY <1>4, <1>5, <1>8, <1>11 DEF line

\* The reading of a section, line by line.
Unread == [mode |-> "keep", old |-> <<>>, del |-> <<>>, ins |-> <<>>, chunks |-> <<>>, merges |-> 0]

IsReading(f, ops, fuzz, n) ==
    f = [k \in 0..n |-> IF k = 0 THEN Unread ELSE Tool!Line(f[k - 1], ops, k, fuzz)]

LEMMA ReadingExists ==
  ASSUME NEW ops, NEW fuzz, NEW last \in Nat
  PROVE  \E f : IsReading(f, ops, fuzz, last)
<1> DEFINE Bad == {n \in 0..last : ~\E f : IsReading(f, ops, fuzz, n)}
<1>1. SUFFICES ASSUME Bad # {} PROVE FALSE
  OBVIOUS
<1>2. PICK n \in Bad : \A k \in Bad : n <= k
  <2>1. Bad \in SUBSET Nat
    OBVIOUS
  <2> HIDE DEF Bad
  <2> QED BY <1>1, <2>1, Least
<1>3. n \in 0..last /\ n \in Nat
  OBVIOUS
<1>4. CASE n = 0
  <2> DEFINE f == [i \in 0..0 |-> Unread]
  <2>1. IsReading(f, ops, fuzz, 0)
    BY DEF IsReading
  <2> QED BY <2>1, <1>4
<1>5. CASE n # 0
  <2>1. n - 1 \in 0..last /\ n - 1 \notin Bad
    <3> HIDE DEF Bad
    <3> QED BY <1>2, <1>3, <1>5
  <2>2. PICK f : IsReading(f, ops, fuzz, n - 1)
    BY <2>1
  <2> DEFINE g == [k \in 0..n |-> IF k < n THEN f[k] ELSE Tool!Line(f[n - 1], ops, n, fuzz)]
  <2>3. \A k \in 0..n : k # 0 => k - 1 \in 0..(n - 1) /\ g[k - 1] = f[k - 1]
    BY <1>3
  <2>4. \A k \in 0..n : g[k] = IF k = 0 THEN Unread ELSE Tool!Line(f[k - 1], ops, k, fuzz)
    <3> SUFFICES ASSUME NEW k \in 0..n
        PROVE g[k] = IF k = 0 THEN Unread ELSE Tool!Line(f[k - 1], ops, k, fuzz)
      OBVIOUS
    <3>1. CASE k = n
      BY <3>1, <1>3, <1>5
    <3>2. CASE k # n
      <4>1. k \in 0..(n - 1) /\ k < n
        BY <3>2, <1>3
      <4> QED BY <4>1, <2>2 DEF IsReading
    <3> QED BY <3>1, <3>2
  <2>5. g = [k \in 0..n |-> g[k]]
    OBVIOUS
  <2> HIDE DEF g
  <2>6. IsReading(g, ops, fuzz, n)
    BY <2>3, <2>4, <2>5 DEF IsReading
  <2> QED BY <2>6, <1>2
<1> QED BY <1>4, <1>5

\* Where two lines of a section may be unmarked, or marked for removal or to be
\* kept, the section has no more of the file's lines.
Room(i, j, n) == (IF i <= n THEN 1 ELSE 0) + (IF j <= n /\ i # j THEN 1 ELSE 0)

\* What peekNextSection gives: chunks that are inside the section's lines of the
\* file.
LEMMA PeekReads ==
  ASSUME NEW L, NEW ops \in Seq(MarkedOps(L)), NEW fuzz \in Nat
  PROVE  LET peek == Tool!Peek(ops, fuzz) IN
         /\ peek.old \in Seq(L) /\ peek.chunks \in Seq(Chunks(L)) /\ peek.merges \in 0..Len(ops)
         /\ \A c \in DOMAIN peek.chunks : Inside(peek.chunks[c], peek.old)
         /\ \A i, j \in Nat : Marked(ops) \subseteq {i, j} => Len(peek.old) <= 2
<1> DEFINE peek == Tool!Peek(ops, fuzz)
           last == Len(ops)
           read == CHOOSE f : IsReading(f, ops, fuzz, last)
           Good(n) == /\ Reading(read[n], L) /\ read[n].merges <= n
                      /\ \A i, j \in Nat : Marked(ops) \subseteq {i, j} => Len(read[n].old) <= Room(i, j, n)
<1>1. last \in Nat
  OBVIOUS
<1>2. peek = Tool!Flush(Tool!Trimmed(read[last]))
  BY DEF Tool!Peek, IsReading, Unread
<1>3. IsReading(read, ops, fuzz, last)
  <2> HIDE DEF last
  <2> QED BY <1>1, ReadingExists
<1> HIDE DEF read, peek
<1>4. read[0] = Unread /\ \A k \in 1..last : read[k] = Tool!Line(read[k - 1], ops, k, fuzz)
  <2> HIDE DEF last
  <2>1. read[0] = Unread
    BY <1>1, <1>3 DEF IsReading
  <2>2. ASSUME NEW k \in 1..last PROVE read[k] = Tool!Line(read[k - 1], ops, k, fuzz)
    <3>1. k \in 0..last /\ k # 0
      BY <1>1
    <3> QED BY <1>3, <3>1 DEF IsReading
  <2> QED BY <2>1, <2>2
<1>5. Good(0)
  <2>1. <<>> \in Seq(L) /\ <<>> \in Seq(Chunks(L))
    OBVIOUS
  <2>2. Unread \in Reads(L)
    BY <2>1 DEF Unread, Reads
  <2>3. Reading(Unread, L)
    BY <2>1, <2>2 DEF Unread, Reading, Inside
  <2>4. \A i, j \in Nat : Len(Unread.old) <= Room(i, j, 0)
    BY DEF Unread, Room
  <2> QED BY <1>4, <2>3, <2>4 DEF Unread
<1>6. ASSUME NEW k \in 1..last, Good(k - 1) PROVE Good(k)
  <2>1. k \in 1..Len(ops) /\ k \in Nat /\ k - 1 \in Nat
    BY <1>1
  <2>2. /\ Reading(read[k], L) /\ read[k].merges <= read[k - 1].merges + 1
        /\ Len(read[k].old) <= Len(read[k - 1].old) + (IF ops[k].mark = "add" THEN 0 ELSE 1)
    BY <1>4, <1>6, <2>1, LineKeeps
  <2>3. /\ read[k].merges \in Nat /\ read[k - 1].merges \in Nat
        /\ Len(read[k].old) \in Nat /\ Len(read[k - 1].old) \in Nat
    BY <1>6, <2>2 DEF Reading, Reads
  <2>4. read[k].merges <= k
    BY <1>6, <2>1, <2>2, <2>3
  <2>5. ASSUME NEW i \in Nat, NEW j \in Nat, Marked(ops) \subseteq {i, j} PROVE Len(read[k].old) <= Room(i, j, k)
    <3>1. Len(read[k - 1].old) <= Room(i, j, k - 1)
      BY <1>6, <2>5
    <3>2. ops[k].mark # "add" => k = i \/ k = j
      BY <2>1, <2>5 DEF Marked
    <3>3. CASE ops[k].mark = "add"
      <4>1. Len(read[k].old) <= Len(read[k - 1].old)
        BY <3>3, <2>2, <2>3
      <4>2. Room(i, j, k - 1) <= Room(i, j, k) /\ Room(i, j, k) \in Nat /\ Room(i, j, k - 1) \in Nat
        BY <2>1 DEF Room
      <4> QED BY <4>1, <4>2, <3>1, <2>3
    <3>4. CASE ops[k].mark # "add"
      <4>1. Len(read[k].old) <= Len(read[k - 1].old) + 1
        BY <3>4, <2>2, <2>3
      <4>2. Room(i, j, k - 1) + 1 <= Room(i, j, k) /\ Room(i, j, k) \in Nat /\ Room(i, j, k - 1) \in Nat
        BY <2>1, <3>2, <3>4 DEF Room
      <4> QED BY <4>1, <4>2, <3>1, <2>3
    <3> QED BY <3>3, <3>4
  <2> QED BY <2>2, <2>4, <2>5
<1>7. Good(last)
  <2> DEFINE Bad == {k \in 0..last : ~Good(k)}
  <2> HIDE DEF Good, last
  <2>1. SUFFICES ASSUME Bad # {} PROVE FALSE
    BY <1>1
  <2>2. PICK n \in Bad : \A k \in Bad : n <= k
    <3>1. Bad \in SUBSET Nat
      BY <1>1
    <3> HIDE DEF Bad
    <3> QED BY <2>1, <3>1, Least
  <2>3. n \in 0..last /\ ~Good(n)
    OBVIOUS
  <2>4. n # 0
    BY <2>3, <1>5
  <2>5. n \in 1..last /\ n - 1 \in 0..last /\ n - 1 \notin Bad
    <3> HIDE DEF Bad
    <3> QED BY <2>2, <2>3, <2>4, <1>1
  <2>6. Good(n - 1)
    BY <2>5
  <2> QED BY <2>3, <2>5, <2>6, <1>6
<1> DEFINE s == read[last]
           t == Tool!Trimmed(s)
<1>8. /\ Reading(s, L) /\ s.merges \in 0..last
      /\ \A i, j \in Nat : Marked(ops) \subseteq {i, j} => Len(s.old) <= 2
  <2>1. Reading(s, L) /\ s.merges <= last
    BY <1>7
  <2>2. s.merges \in Nat
    BY <2>1 DEF Reading, Reads
  <2>3. ASSUME NEW i \in Nat, NEW j \in Nat, Marked(ops) \subseteq {i, j} PROVE Len(s.old) <= 2
    <3>1. Len(s.old) <= Room(i, j, last)
      BY <1>7, <2>3
    <3>2. Len(s.old) \in Nat
      BY <2>1 DEF Reading, Reads
    <3>3. Room(i, j, last) \in 0..2
      BY <1>1 DEF Room
    <3> QED BY <3>1, <3>2, <3>3
  <2> QED BY <1>1, <2>1, <2>2, <2>3
<1> HIDE DEF s, last
<1> HIDE DEF t
<1>9. /\ peek.old \in Seq(L) /\ peek.chunks \in Seq(Chunks(L)) /\ peek.merges = s.merges
      /\ \A c \in DOMAIN peek.chunks : Inside(peek.chunks[c], peek.old)
      /\ Len(peek.old) <= Len(s.old) /\ Len(peek.old) \in Nat /\ Len(s.old) \in Nat
  <2>1. s \in Reads(L) /\ s.old \in Seq(L) /\ Len(s.old) \in Nat
    BY <1>8 DEF Reading, Reads
  <2>2. CASE t = s
    <3>1. peek = Tool!Flush(s)
      BY <2>2, <1>2 DEF t, s
    <3>2. Reading(peek, L) /\ peek.old = s.old /\ peek.merges = s.merges
      BY <3>1, <1>8, FlushKeeps
    <3> QED BY <3>2, <2>1 DEF Reading, Reads
  <2>3. CASE t # s
    <3>1. s.mode = "keep" /\ s.old # <<>> /\ t = [s EXCEPT !.old = Tool!Front(@)]
      BY <2>3 DEF t, Tool!Trimmed
    <3>2. Len(s.old) \in Nat \ {0}
      BY <2>1, <3>1
    <3> DEFINE front == SubSeq(s.old, 1, Len(s.old) - 1)
    <3>3. /\ front \in Seq(L) /\ Len(front) = Len(s.old) - 1
          /\ \A k \in 1..(Len(s.old) - 1) : front[k] = s.old[k]
      BY <2>1, <3>2
    <3>4. t = [s EXCEPT !.old = front]
      BY <2>1, <3>1 DEF Tool!Front, Reads
    <3> HIDE DEF front
    <3>5. /\ t \in Reads(L) /\ t.old = front /\ t.del = <<>> /\ t.ins = <<>> /\ t.mode = s.mode
          /\ t.merges = s.merges /\ t.chunks = s.chunks
      <4>1. s.del = <<>> /\ s.ins = <<>>
        BY <3>1, <1>8 DEF Reading
      <4> QED BY <4>1, <2>1, <3>3, <3>4 DEF Reads
    <3>6. peek = t
      <4>1. peek = Tool!Flush(t)
        BY <1>2 DEF t, s
      <4> QED BY <4>1, <3>5 DEF Tool!Flush
    <3>7. ASSUME NEW c \in DOMAIN s.chunks
          PROVE  Inside(s.chunks[c], front)
      <4>1. s.chunks[c] \in Chunks(L)
        BY <2>1 DEF Reads
      <4>2. Inside(s.chunks[c], s.old) /\ s.chunks[c].at + Len(s.chunks[c].del) < Len(s.old)
        BY <3>1, <1>8 DEF Reading
      <4>3. s.chunks[c].at \in Nat /\ Len(s.chunks[c].del) \in Nat
        BY <4>1 DEF Chunks
      <4>4. s.chunks[c].at + Len(s.chunks[c].del) <= Len(front)
        BY <4>2, <4>3, <3>2, <3>3
      <4>5. \A j \in 1..Len(s.chunks[c].del) : s.chunks[c].at + j \in 1..(Len(s.old) - 1)
        BY <4>2, <4>3, <3>2
      <4> QED BY <4>2, <4>4, <4>5, <3>3 DEF Inside
    <3>8. s.chunks \in Seq(Chunks(L))
      BY <2>1 DEF Reads
    <3>9. Len(front) \in Nat /\ Len(front) <= Len(s.old)
      BY <3>2, <3>3
    <3> QED BY <3>3, <3>5, <3>6, <3>7, <3>8, <3>9
  <2> QED BY <2>2, <2>3
<1>10. ASSUME NEW i \in Nat, NEW j \in Nat, Marked(ops) \subseteq {i, j} PROVE Len(peek.old) <= 2
  <2>1. Len(s.old) <= 2
    BY <1>8, <1>10
  <2> QED BY <2>1, <1>9
<1> QED BY <1>8, <1>9, <1>10 DEF last, peek
-----------------------------------------------------------------------------

LEMMA FirstIsOne == ASSUME NEW S \in SUBSET Nat, S # {} PROVE Tool!FirstOf(S) \in S
<1> PICK m \in S : \A k \in S : m <= k
  BY Least
<1> QED BY DEF Tool!FirstOf

\* A context that leaves no room for a mistake is found where its lines are, up
\* to their outer white space.
Lies(lines, ctx, r) ==
    r.line \in Nat /\ (ctx # <<>> => Tool!MatchesAt(2, lines, ctx, r.line))

LEMMA CoreFits ==
  ASSUME NEW L, NEW lines \in Seq(L), NEW ctx \in Seq(L), NEW start \in Int,
         Tool!Allowance(ctx) = 0, ctx = <<>> => start \in Nat,
         Tool!FindCore(lines, ctx, start) # None
  PROVE  Lies(lines, ctx, Tool!FindCore(lines, ctx, start))
<1> DEFINE r == Tool!FindCore(lines, ctx, start)
<1>1. CASE ctx = <<>>
  <2>1. r.line = start
    BY <1>1 DEF Tool!FindCore, Tool!Found
  <2> QED BY <1>1, <2>1 DEF Lies
<1>2. CASE ctx # <<>>
  <2> DEFINE hits == [k \in 0..3 |-> {i \in start..(Len(lines) - 1) :
                                       IF k = 3 THEN Tool!Near(lines, ctx, i) ELSE Tool!MatchesAt(k, lines, ctx, i)}]
             ranks == {k \in 0..3 : hits[k] # {}}
             first == Tool!FirstOf(ranks)
             line == Tool!FirstOf(hits[first])
  <2>1. r = Tool!Strictest(hits)
    BY <1>2 DEF Tool!FindCore
  <2>2. hits[3] = {}
    BY DEF Tool!Near
  <2>3. \A k \in 0..2 : \A i \in hits[k] : i \in Nat /\ Tool!MatchesAt(k, lines, ctx, i)
    <3> SUFFICES ASSUME NEW k \in 0..2, NEW i \in hits[k] PROVE i \in Nat /\ Tool!MatchesAt(k, lines, ctx, i)
      OBVIOUS
    <3>1. k \in 0..3 /\ k # 3
      OBVIOUS
    <3>2. i \in start..(Len(lines) - 1) /\ Tool!MatchesAt(k, lines, ctx, i)
      BY <3>1
    <3>3. i \in Int /\ i >= 0
      BY <3>2 DEF Tool!MatchesAt
    <3> QED BY <3>2, <3>3
  <2> HIDE DEF hits
  <2>4. ranks # {} /\ r = Tool!Found(line, first)
    BY <2>1 DEF Tool!Strictest
  <2>5. first \in ranks
    <3>1. ranks \in SUBSET Nat
      OBVIOUS
    <3> HIDE DEF ranks
    <3> QED BY <3>1, <2>4, FirstIsOne
  <2>6. first \in 0..2 /\ hits[first] # {}
    <3> HIDE DEF first
    <3>1. first \in 0..3 /\ hits[first] # {} /\ first # 3
      BY <2>2, <2>5
    <3> QED BY <3>1
  <2> HIDE DEF first, ranks
  <2>7. line \in hits[first]
    <3>1. hits[first] \in SUBSET Nat
      BY <2>3, <2>6
    <3> QED BY <3>1, <2>6, FirstIsOne
  <2>8. line \in Nat /\ Tool!MatchesAt(first, lines, ctx, line)
    BY <2>3, <2>6, <2>7
  <2> HIDE DEF line
  <2>9. r.line = line
    BY <2>4 DEF Tool!Found
  <2>10. \A a, b : Tool!Same(first, a, b) => Tool!Same(2, a, b)
    <3>1. first = 0 \/ first = 1 \/ first = 2
      BY <2>6
    <3>2. CASE first = 0
      BY <3>2 DEF Tool!Same
    <3>3. CASE first = 1
      BY <3>3 DEF Tool!Same
    <3>4. CASE first = 2
      BY <3>4
    <3> QED BY <3>1, <3>2, <3>3, <3>4
  <2>11. Tool!MatchesAt(2, lines, ctx, line)
    BY <2>8, <2>10 DEF Tool!MatchesAt
  <2> HIDE DEF r
  <2> QED BY <2>8, <2>9, <2>11 DEF Lies, r
<1> QED BY <1>1, <1>2

\* Where no line mentions the file's path, nothing is skipped.
LEMMA NothingSkipped ==
  ASSUME NEW L, \A line \in L : line.text # "path", NEW lines \in Seq(L)
  PROVE  Tool!SkipPath(lines) = lines
<1>1. lines # <<>> => Head(lines) \in L
  OBVIOUS
<1> QED BY <1>1 DEF Tool!SkipPath

LEMMA AttemptFits ==
  ASSUME NEW L, \A line \in L : line.text # "path", NEW lines \in Seq(L), NEW ctx \in Seq(L),
         NEW at \in Nat, NEW eof, Tool!Allowance(ctx) = 0, Tool!Attempt(lines, ctx, at, eof) # None
  PROVE  Lies(lines, ctx, Tool!Attempt(lines, ctx, at, eof))
<1> DEFINE Core(start) == Tool!FindCore(lines, ctx, start)
           last == Len(lines) - Len(ctx)
<1>1. ASSUME NEW start \in Nat PROVE Core(start) # None => Lies(lines, ctx, Core(start))
  BY CoreFits
<1>2. Core(last) # None => Lies(lines, ctx, Core(last))
  <2>1. last \in Int /\ (ctx = <<>> => last \in Nat)
    OBVIOUS
  <2> HIDE DEF last
  <2> QED BY <2>1, CoreFits
<1>3. ASSUME NEW start \in Nat
      PROVE  LET r == Tool!FindContext(lines, ctx, start, eof) IN r # None => Lies(lines, ctx, r)
  <2> HIDE DEF Core
  <2>1. Tool!SkipPath(lines) = lines /\ Tool!SkipPath(ctx) = ctx
    BY NothingSkipped
  <2>2. Tool!FindContext(lines, ctx, start, eof) =
           Tool!OrElse(IF eof THEN Core(last) ELSE None, Core(start))
    BY <2>1 DEF Tool!FindContext, Tool!FindFrom, Core
  <2> HIDE DEF last
  <2> QED BY <2>2, <1>1, <1>2 DEF Tool!OrElse
<1> HIDE DEF Core, last
<1>4. 0 \in Nat
  OBVIOUS
<1> QED BY <1>3, <1>4 DEF Tool!Attempt, Tool!OrElse

-----------------------------------------------------------------------------

SectionOver(L) == [ops : Seq(MarkedOps(L)), def : L \cup {None}, eof : BOOLEAN]

\* Sections whose lines are too few for the allowance of a fuzzy match.
NoMistakes(section) == \A n \in 0..Len(section.ops) : Tool!Allowance(Tool!Peek(section.ops, n).old) = 0

\* What a chunk takes away is there.
Names(lines, c) ==
    \A j \in 1..Len(c.del) : c.at + j <= Len(lines) /\ Tool!Same(2, lines[c.at + j], c.del[j])

Placing(s, lines, L) ==
    /\ s \in [ok : BOOLEAN, index : Nat, chunks : Seq(Chunks(L))]
    /\ \A c \in DOMAIN s.chunks : Names(lines, s.chunks[c])

\* A chunk that is inside a section names what it removes where the section's
\* lines are found.
LEMMA ChunkNames ==
  ASSUME NEW L, NEW lines \in Seq(L), NEW ctx \in Seq(L), NEW c \in Chunks(L), Inside(c, ctx),
         NEW r, Lies(lines, ctx, r)
  PROVE  Names(lines, [c EXCEPT !.at = @ + r.line])
<1> DEFINE d == [c EXCEPT !.at = @ + r.line]
<1>1. /\ r.line \in Nat /\ c.at \in Nat /\ Len(c.del) \in Nat /\ Len(ctx) \in Nat
      /\ d.at = c.at + r.line /\ d.del = c.del
  BY DEF Lies, Chunks
<1> HIDE DEF d
<1> SUFFICES ASSUME NEW j \in 1..Len(c.del)
             PROVE  d.at + j <= Len(lines) /\ Tool!Same(2, lines[d.at + j], c.del[j])
  BY <1>1 DEF Names, d
<1>2. c.at + Len(c.del) <= Len(ctx) /\ c.del[j] = ctx[c.at + j]
  BY DEF Inside
<1>3. c.at + j \in 1..Len(ctx)
  BY <1>1, <1>2
<1>4. ctx # <<>>
  BY <1>3
<1>5. /\ r.line + Len(ctx) <= Len(lines)
      /\ Tool!Same(2, lines[r.line + (c.at + j)], ctx[c.at + j])
  BY <1>3, <1>4 DEF Lies, Tool!MatchesAt
<1>6. d.at + j = r.line + (c.at + j)
  BY <1>1
<1>7. d.at + j <= Len(lines)
  BY <1>1, <1>3, <1>5, <1>6
<1> QED BY <1>2, <1>5, <1>6, <1>7

LEMMA PlaceAtKeeps ==
  ASSUME NEW L, NEW lines \in Seq(L), NEW s, Placing(s, lines, L), NEW peek,
         peek.old \in Seq(L), peek.chunks \in Seq(Chunks(L)),
         \A c \in DOMAIN peek.chunks : Inside(peek.chunks[c], peek.old),
         NEW r, Lies(lines, peek.old, r)
  PROVE  Placing(Tool!PlaceAt(s, peek, r), lines, L)
<1> DEFINE more == Tool!Shifted(peek.chunks, r.line)
           chunks == s.chunks \o more
           t == Tool!PlaceAt(s, peek, r)
<1>1. /\ s \in [ok : BOOLEAN, index : Nat, chunks : Seq(Chunks(L))] /\ s.chunks \in Seq(Chunks(L))
      /\ r.line \in Nat /\ Len(peek.old) \in Nat
  BY DEF Placing, Lies
<1>2. ASSUME NEW c \in DOMAIN peek.chunks
      PROVE  more[c] \in Chunks(L) /\ Names(lines, more[c])
  <2>1. peek.chunks[c] \in Chunks(L) /\ Inside(peek.chunks[c], peek.old)
    BY <1>2
  <2>2. more[c] = [peek.chunks[c] EXCEPT !.at = @ + r.line]
    BY <1>2 DEF Tool!Shifted
  <2> DEFINE chunk == peek.chunks[c]
  <2>3. more[c] \in Chunks(L)
    <3>1. chunk \in Chunks(L) /\ more[c] = [chunk EXCEPT !.at = @ + r.line]
      BY <2>1, <2>2
    <3> HIDE DEF chunk, more
    <3>2. chunk.at + r.line \in Nat
      <4>1. chunk.at \in Nat
        BY <3>1 DEF Chunks
      <4> QED BY <4>1, <1>1
    <3> QED BY <3>1, <3>2 DEF Chunks
  <2> QED BY <2>1, <2>2, <2>3, ChunkNames
<1>3. more \in Seq(Chunks(L))
  <2>1. DOMAIN peek.chunks = 1..Len(peek.chunks) /\ Len(peek.chunks) \in Nat
    OBVIOUS
  <2>2. more = [c \in 1..Len(peek.chunks) |-> more[c]]
    BY <2>1 DEF Tool!Shifted
  <2>3. \A c \in 1..Len(peek.chunks) : more[c] \in Chunks(L)
    BY <1>2, <2>1
  <2> HIDE DEF more
  <2>4. more \in [1..Len(peek.chunks) -> Chunks(L)]
    BY <2>2, <2>3
  <2> QED BY <2>1, <2>4
<1>4. chunks \in Seq(Chunks(L)) /\ \A c \in DOMAIN chunks : Names(lines, chunks[c])
  <2>1. DOMAIN more = DOMAIN peek.chunks
    BY DEF Tool!Shifted
  <2> HIDE DEF more
  <2>2. chunks \in Seq(Chunks(L))
    BY <1>1, <1>3
  <2>3. ASSUME NEW c \in DOMAIN chunks PROVE Names(lines, chunks[c])
    <3>1. \/ c \in DOMAIN s.chunks /\ chunks[c] = s.chunks[c]
          \/ c - Len(s.chunks) \in DOMAIN more /\ chunks[c] = more[c - Len(s.chunks)]
      BY <1>1, <1>3
    <3> QED BY <3>1, <2>1, <1>2 DEF Placing
  <2> QED BY <2>2, <2>3
<1>5. t = [s EXCEPT !.index = r.line + Len(peek.old), !.chunks = chunks]
  BY DEF Tool!PlaceAt
<1> HIDE DEF chunks, t
<1>6. t \in [ok : BOOLEAN, index : Nat, chunks : Seq(Chunks(L))] /\ t.chunks = chunks
  <2>1. r.line + Len(peek.old) \in Nat
    BY <1>1
  <2> QED BY <2>1, <1>1, <1>4, <1>5
<1> QED BY <1>4, <1>6 DEF Placing, t

LEMMA HeaderIsPlace ==
  ASSUME NEW lines, Len(lines) \in Nat, NEW def, NEW at \in Nat
  PROVE  Tool!AfterHeader(lines, def, at) \in Nat
<1> DEFINE exact == {i \in at..(Len(lines) - 1) : lines[i + 1] = def}
           trimmed == {i \in at..(Len(lines) - 1) : lines[i + 1].text = def.text}
           hits == IF exact # {} THEN exact ELSE trimmed
<1>1. hits \in SUBSET Nat
  OBVIOUS
<1>2. Tool!AfterHeader(lines, def, at) = IF def = None \/ hits = {} THEN at ELSE 1 + Tool!FirstOf(hits)
  BY DEF Tool!AfterHeader
<1> HIDE DEF hits
<1>3. hits # {} => Tool!FirstOf(hits) \in Nat
  BY <1>1, FirstIsOne
<1> QED BY <1>2, <1>3

LEMMA PlaceKeeps ==
  ASSUME NEW L, \A line \in L : line.text # "path", NEW lines \in Seq(L), NEW s, Placing(s, lines, L),
         NEW section \in SectionOver(L), NoMistakes(section)
  PROVE  Placing(Tool!Place(lines, s, section), lines, L)
<1> DEFINE ops == section.ops
           at == Tool!AfterHeader(lines, section.def, s.index)
           peeks == [n \in 0..Len(ops) |-> Tool!Peek(ops, n)]
           matches == [n \in 0..peeks[0].merges |-> Tool!Attempt(lines, peeks[n].old, at, section.eof)]
           tries == {n \in DOMAIN matches : matches[n] # None}
           n == Tool!FirstOf(tries)
<1>1. ops \in Seq(MarkedOps(L)) /\ Len(ops) \in Nat
  BY DEF SectionOver
<1>2. s \in [ok : BOOLEAN, index : Nat, chunks : Seq(Chunks(L))]
  BY DEF Placing
<1>3. at \in Nat
  BY <1>2, HeaderIsPlace
<1>4. Tool!Place(lines, s, section) = Tool!PlaceFirst(s, peeks, matches)
  BY DEF Tool!Place, Tool!PlacePeeked
<1>5. \A k \in 0..Len(ops) : peeks[k] = Tool!Peek(ops, k) /\ Tool!Allowance(peeks[k].old) = 0
  BY DEF NoMistakes
<1>6. ASSUME NEW k \in 0..Len(ops)
      PROVE  /\ peeks[k].old \in Seq(L) /\ peeks[k].chunks \in Seq(Chunks(L)) /\ peeks[k].merges \in 0..Len(ops)
             /\ \A c \in DOMAIN peeks[k].chunks : Inside(peeks[k].chunks[c], peeks[k].old)
  <2> HIDE DEF ops, peeks
  <2>1. k \in Nat
    BY <1>1
  <2> QED BY <2>1, <1>1, <1>5, PeekReads
<1>7. CASE ~s.ok \/ tries = {}
  <2>1. Tool!Place(lines, s, section) = [s EXCEPT !.ok = FALSE]
    BY <1>4, <1>7 DEF Tool!PlaceFirst
  <2>2. /\ [s EXCEPT !.ok = FALSE] \in [ok : BOOLEAN, index : Nat, chunks : Seq(Chunks(L))]
        /\ [s EXCEPT !.ok = FALSE].chunks = s.chunks
    BY <1>2
  <2> QED BY <2>1, <2>2 DEF Placing
<1>8. CASE ~(~s.ok \/ tries = {})
  <2>1. Tool!Place(lines, s, section) = Tool!PlaceAt(s, peeks[n], matches[n])
    BY <1>4, <1>8 DEF Tool!PlaceFirst
  <2>2. peeks[0].merges \in 0..Len(ops)
    <3> HIDE DEF ops, peeks
    <3>1. 0 \in 0..Len(ops)
      BY <1>1
    <3> QED BY <3>1, <1>6
  <2>3. n \in tries
    <3>1. tries \in SUBSET Nat /\ tries # {}
      <4>1. DOMAIN matches = 0..peeks[0].merges
        OBVIOUS
      <4> HIDE DEF matches, peeks, ops
      <4> QED BY <4>1, <2>2, <1>1, <1>8
    <3> HIDE DEF tries
    <3> QED BY <3>1, FirstIsOne
  <2> HIDE DEF n
  <2>4. n \in 0..peeks[0].merges /\ matches[n] # None
    BY <2>3
  <2>5. matches[n] = Tool!Attempt(lines, peeks[n].old, at, section.eof)
    BY <2>4
  <2> HIDE DEF matches, peeks, ops, at
  <2>6. n \in 0..Len(ops)
    BY <2>2, <2>4, <1>1
  <2>7. Lies(lines, peeks[n].old, matches[n])
    BY <2>4, <2>5, <2>6, <1>3, <1>5, <1>6, AttemptFits
  <2>8. Placing(Tool!PlaceAt(s, peeks[n], matches[n]), lines, L)
    BY <2>6, <2>7, <1>6, PlaceAtKeeps
  <2> QED BY <2>1, <2>8
<1> QED BY <1>7, <1>8

\* The placing of the sections, one by one.
Unplaced == [ok |-> TRUE, index |-> 0, chunks |-> <<>>]

IsPlacing(f, lines, sections, n) ==
    f = [k \in 0..n |-> IF k = 0 THEN Unplaced ELSE Tool!Place(lines, f[k - 1], sections[k])]

LEMMA PlacingExists ==
  ASSUME NEW lines, NEW sections, NEW last \in Nat
  PROVE  \E f : IsPlacing(f, lines, sections, last)
<1> DEFINE Bad == {n \in 0..last : ~\E f : IsPlacing(f, lines, sections, n)}
<1>1. SUFFICES ASSUME Bad # {} PROVE FALSE
  OBVIOUS
<1>2. PICK n \in Bad : \A k \in Bad : n <= k
  <2>1. Bad \in SUBSET Nat
    OBVIOUS
  <2> HIDE DEF Bad
  <2> QED BY <1>1, <2>1, Least
<1>3. n \in 0..last /\ n \in Nat
  OBVIOUS
<1>4. CASE n = 0
  <2> DEFINE f == [i \in 0..0 |-> Unplaced]
  <2>1. IsPlacing(f, lines, sections, 0)
    BY DEF IsPlacing
  <2> QED BY <2>1, <1>4
<1>5. CASE n # 0
  <2>1. n - 1 \in 0..last /\ n - 1 \notin Bad
    <3> HIDE DEF Bad
    <3> QED BY <1>2, <1>3, <1>5
  <2>2. PICK f : IsPlacing(f, lines, sections, n - 1)
    BY <2>1
  <2> DEFINE g == [k \in 0..n |-> IF k < n THEN f[k] ELSE Tool!Place(lines, f[n - 1], sections[n])]
  <2>3. \A k \in 0..n : k # 0 => k - 1 \in 0..(n - 1) /\ g[k - 1] = f[k - 1]
    BY <1>3
  <2>4. \A k \in 0..n : g[k] = IF k = 0 THEN Unplaced ELSE Tool!Place(lines, f[k - 1], sections[k])
    <3> SUFFICES ASSUME NEW k \in 0..n
        PROVE g[k] = IF k = 0 THEN Unplaced ELSE Tool!Place(lines, f[k - 1], sections[k])
      OBVIOUS
    <3>1. CASE k = n
      BY <3>1, <1>3, <1>5
    <3>2. CASE k # n
      <4>1. k \in 0..(n - 1) /\ k < n
        BY <3>2, <1>3
      <4> QED BY <4>1, <2>2 DEF IsPlacing
    <3> QED BY <3>1, <3>2
  <2>5. g = [k \in 0..n |-> g[k]]
    OBVIOUS
  <2> HIDE DEF g
  <2>6. IsPlacing(g, lines, sections, n)
    BY <2>3, <2>4, <2>5 DEF IsPlacing
  <2> QED BY <2>6, <1>2
<1> QED BY <1>4, <1>5

\* A patch of sections that leave no room for a mistake takes away lines that it
\* names, whatever the file, the sections and their order.
THEOREM PatchTakesWhatItNames ==
  ASSUME NEW L, \A line \in L : line.text # "path", NEW lines \in Seq(L),
         NEW sections \in Seq(SectionOver(L)), \A k \in DOMAIN sections : NoMistakes(sections[k])
  PROVE  LET parsed == Tool!Parse(lines, sections) IN
         /\ parsed.chunks \in Seq(Chunks(L))
         /\ \A c \in DOMAIN parsed.chunks : Names(lines, parsed.chunks[c])
<1> DEFINE last == Len(sections)
           placed == CHOOSE f : IsPlacing(f, lines, sections, last)
<1>1. last \in Nat
  OBVIOUS
<1>2. Tool!Parse(lines, sections) = placed[last]
  BY DEF Tool!Parse, IsPlacing, Unplaced
<1>3. IsPlacing(placed, lines, sections, last)
  <2> HIDE DEF last
  <2> QED BY <1>1, PlacingExists
<1>4. \A k \in 1..last : sections[k] \in SectionOver(L) /\ NoMistakes(sections[k])
  OBVIOUS
<1> HIDE DEF placed, last
<1>5. placed[0] = Unplaced /\ \A k \in 1..last : placed[k] = Tool!Place(lines, placed[k - 1], sections[k])
  <2>1. placed[0] = Unplaced
    BY <1>1, <1>3 DEF IsPlacing
  <2>2. ASSUME NEW k \in 1..last PROVE placed[k] = Tool!Place(lines, placed[k - 1], sections[k])
    <3>1. k \in 0..last /\ k # 0
      BY <1>1
    <3> QED BY <1>3, <3>1 DEF IsPlacing
  <2> QED BY <2>1, <2>2
<1>6. Placing(placed[0], lines, L)
  <2>1. <<>> \in Seq(Chunks(L))
    OBVIOUS
  <2> QED BY <2>1, <1>5 DEF Placing, Unplaced
<1>7. Placing(placed[last], lines, L)
  <2> DEFINE Bad == {k \in 0..last : ~Placing(placed[k], lines, L)}
  <2>1. SUFFICES ASSUME Bad # {} PROVE FALSE
    BY <1>1
  <2>2. PICK n \in Bad : \A k \in Bad : n <= k
    <3>1. Bad \in SUBSET Nat
      BY <1>1
    <3> HIDE DEF Bad
    <3> QED BY <2>1, <3>1, Least
  <2>3. n \in 0..last /\ ~Placing(placed[n], lines, L)
    OBVIOUS
  <2>4. n # 0
    BY <2>3, <1>6
  <2>5. n \in 1..last /\ n - 1 \in 0..last /\ n - 1 \notin Bad
    <3> HIDE DEF Bad
    <3> QED BY <2>2, <2>3, <2>4, <1>1
  <2>6. Placing(placed[n - 1], lines, L)
    BY <2>5
  <2>7. Placing(Tool!Place(lines, placed[n - 1], sections[n]), lines, L)
    BY <2>5, <2>6, <1>4, PlaceKeeps
  <2> QED BY <2>3, <2>5, <2>7, <1>5
<1> QED BY <1>2, <1>7 DEF Placing

-----------------------------------------------------------------------------

\* The patches of MCHosts are of lines and sections as the theorem has them.
ToolLines == [text : {"a", "b", ""}, space : {"none", "trailing"}]

LEMMA PatchesAreShort ==
  ASSUME NEW p \in Patches
  PROVE  p \in Seq(SectionOver(ToolLines)) /\ \A k \in DOMAIN p : NoMistakes(p[k])
<1>1. Lines \subseteq ToolLines /\ Text("b", "none") \in ToolLines
  BY DEF Lines, Text, ToolLines
<1>2. Ops \subseteq MarkedOps(ToolLines)
  BY <1>1 DEF Ops, MarkedOps
<1>3. ASSUME NEW ops \in Seq(Ops), NEW i \in Nat, NEW j \in Nat, Marked(ops) \subseteq {i, j},
             NEW def \in {None, Text("b", "none")}, NEW eof \in BOOLEAN
      PROVE  Section(ops, def, eof) \in SectionOver(ToolLines) /\ NoMistakes(Section(ops, def, eof))
  <2>1. ops \in Seq(MarkedOps(ToolLines))
    BY <1>2
  <2>2. Section(ops, def, eof) \in SectionOver(ToolLines) /\ Section(ops, def, eof).ops = ops
    BY <1>1, <2>1 DEF Section, SectionOver
  <2>3. ASSUME NEW n \in 0..Len(ops) PROVE Tool!Allowance(Tool!Peek(ops, n).old) = 0
    <3> DEFINE old == Tool!Peek(ops, n).old
    <3>1. n \in Nat
      BY <2>1
    <3>2. old \in Seq(ToolLines) /\ Len(old) <= 2
      BY <1>3, <2>1, <3>1, PeekReads
    <3> HIDE DEF old
    <3>3. Len(old) = 0 \/ Len(old) = 1 \/ Len(old) = 2
      <4>1. Len(old) \in Nat
        BY <3>2
      <4>2. \A l \in Nat : l <= 2 => l = 0 \/ l = 1 \/ l = 2
        OBVIOUS
      <4> QED BY <4>1, <4>2, <3>2
    <3>4. (0 * 34) \div 100 = 0 /\ (1 * 34) \div 100 = 0 /\ (2 * 34) \div 100 = 0
      OBVIOUS
    <3>5. (Len(old) * 34) \div 100 = 0
      BY <3>3, <3>4
    <3> QED BY <3>5 DEF Tool!Allowance, old
  <2> QED BY <2>2, <2>3 DEF NoMistakes
<1>4. CASE \E s \in Sections : p = <<s>>
  <2>1. PICK s \in Sections : p = <<s>>
    BY <1>4
  <2>2. PICK ops \in UNION {[1..n -> Ops] : n \in 1..3} :
           s = Section(ops, None, FALSE) /\ \E i, j \in 1..3 : Marked(ops) \subseteq {i, j}
    BY DEF Sections
  <2>3. PICK i \in 1..3, j \in 1..3 : Marked(ops) \subseteq {i, j}
    BY <2>2
  <2>4. ops \in Seq(Ops)
    <3>1. PICK n \in 1..3 : ops \in [1..n -> Ops]
      BY <2>2
    <3> QED BY <3>1
  <2>5. i \in Nat /\ j \in Nat
    OBVIOUS
  <2>6. s \in SectionOver(ToolLines) /\ NoMistakes(s)
    BY <1>3, <2>2, <2>3, <2>4, <2>5
  <2> QED BY <2>1, <2>6
<1>5. CASE \E s \in [ops : OneLine, def : {None}, eof : {FALSE}],
              t \in [ops : OneLine, def : {None, Text("b", "none")}, eof : BOOLEAN] : p = <<s, t>>
  <2>1. PICK s \in [ops : OneLine, def : {None}, eof : {FALSE}],
             t \in [ops : OneLine, def : {None, Text("b", "none")}, eof : BOOLEAN] : p = <<s, t>>
    BY <1>5
  <2>2. ASSUME NEW u \in [ops : OneLine, def : {None, Text("b", "none")}, eof : BOOLEAN]
        PROVE  u \in SectionOver(ToolLines) /\ NoMistakes(u)
    <3>1. u = Section(u.ops, u.def, u.eof) /\ u.ops \in OneLine
      BY <2>2 DEF Section
    <3>2. PICK o \in Ops : u.ops = <<o>>
      BY <3>1 DEF OneLine
    <3>3. <<o>> \in Seq(Ops) /\ Marked(<<o>>) \subseteq {1, 1}
      BY DEF Marked
    <3>4. u.ops \in Seq(Ops) /\ Marked(u.ops) \subseteq {1, 1} /\ 1 \in Nat
      BY <3>2, <3>3
    <3> QED BY <1>3, <3>1, <3>4
  <2>3. s \in [ops : OneLine, def : {None, Text("b", "none")}, eof : BOOLEAN]
    BY <2>1
  <2>4. /\ s \in SectionOver(ToolLines) /\ NoMistakes(s)
        /\ t \in SectionOver(ToolLines) /\ NoMistakes(t)
    BY <2>1, <2>2, <2>3
  <2>5. Len(p) = 2 /\ DOMAIN p = 1..2 /\ p[1] = s /\ p[2] = t /\ p \in Seq(SectionOver(ToolLines))
    BY <2>1, <2>4
  <2>6. ASSUME NEW k \in DOMAIN p PROVE NoMistakes(p[k])
    <3>1. k = 1 \/ k = 2
      BY <2>5
    <3> QED BY <3>1, <2>4, <2>5
  <2> QED BY <2>5, <2>6
<1>6. \/ p \in {<<s>> : s \in Sections}
      \/ p \in [ops : OneLine, def : {None}, eof : {FALSE}]
                \X [ops : OneLine, def : {None, Text("b", "none")}, eof : BOOLEAN]
  BY DEF Patches
<1>7. CASE p \in {<<s>> : s \in Sections}
  BY <1>4, <1>7
<1>8. CASE p \in [ops : OneLine, def : {None}, eof : {FALSE}]
                \X [ops : OneLine, def : {None, Text("b", "none")}, eof : BOOLEAN]
  <2> DEFINE A == [ops : OneLine, def : {None}, eof : {FALSE}]
             B == [ops : OneLine, def : {None, Text("b", "none")}, eof : BOOLEAN]
  <2>1. p \in A \X B
    BY <1>8
  <2> HIDE DEF A, B
  <2>2. p[1] \in A /\ p[2] \in B /\ p = <<p[1], p[2]>>
    BY <2>1
  <2>3. \E s \in A, t \in B : p = <<s, t>>
    BY <2>2
  <2> QED BY <2>3, <1>5 DEF A, B
<1> QED BY <1>6, <1>7, <1>8

\* While the tool runs: a file and a patch of those that MCHosts has, and no
\* chunk that takes away what is not named.
ToolInv ==
    part = "tool" =>
      /\ file \in Seq(ToolLines) /\ patch \in Patches
      /\ result.done \in BOOLEAN /\ result.chunks \in Seq(Chunks(ToolLines))
      /\ \A c \in DOMAIN result.chunks : Names(file, result.chunks[c])

-----------------------------------------------------------------------------
(* The parts within the whole *)

LEMMA ConsolesRun == Spec => Consoles!Spec
<1>1. Init => Consoles!Init
  BY DEF Init
<1>2. [Next]_<<part, runtime, controller, consoles, broker, editor, tool, shell>> => [Consoles!Next]_(Consoles!vars)
  BY DEF Next, consoles, Consoles!vars
<1> QED BY <1>1, <1>2, PTL DEF Spec, Consoles!Spec

LEMMA EditorRun == Spec => Editor!Spec
<1>1. Init => Editor!Init
  BY DEF Init
<1>2. [Next]_<<part, runtime, controller, consoles, broker, editor, tool, shell>> => [Editor!Next]_(Editor!vars)
  BY DEF Next, editor, Editor!vars
<1> QED BY <1>1, <1>2, PTL DEF Spec, Editor!Spec

LEMMA ControllerRun == Spec => Controller!Spec
<1>1. Init => Controller!Init
  BY DEF Init
<1>2. [Next]_<<part, runtime, controller, consoles, broker, editor, tool, shell>> => [Controller!Next]_(Controller!vars)
  BY DEF Next, controller, Controller!vars
<1> QED BY <1>1, <1>2, PTL DEF Spec, Controller!Spec

LEMMA RuntimeRun == Spec => Runtime!Spec
<1>1. Init => Runtime!Init
  BY DEF Init
<1>2. [Next]_<<part, runtime, controller, consoles, broker, editor, tool, shell>> => [Runtime!Next]_(Runtime!vars)
  BY DEF Next, runtime, Runtime!vars
<1> QED BY <1>1, <1>2, PTL DEF Spec, Runtime!Spec

LEMMA BrokerRun == Spec => Broker!Spec
<1>1. Init => Broker!Init
  BY DEF Init
<1>2. [Next]_<<part, runtime, controller, consoles, broker, editor, tool, shell>> => [Broker!Next]_(Broker!vars)
  BY DEF Next, broker, Broker!vars
<1> QED BY <1>1, <1>2, PTL DEF Spec, Broker!Spec

LEMMA ShellRun == Spec => Shell!Spec
<1>1. Init => Shell!Init
  BY DEF Init
<1>2. [Next]_<<part, runtime, controller, consoles, broker, editor, tool, shell>> => [Shell!Next]_(Shell!vars)
  BY DEF Next, shell, Shell!vars
<1> QED BY <1>1, <1>2, PTL DEF Spec, Shell!Spec

\* A session runs one command at a time, and is not disposed of meanwhile: the
\* queue of a session (src/src/sandbox/session-host.ts).
THEOREM OneCommand == Spec => []OneCommandPerSession
<1>1. Consoles!OneCommandPerSession /\ Consoles!TypeOK => OneCommandPerSession
  BY DEF OneCommandPerSession
<1> QED BY <1>1, ConsolesRun, CommandsAreSerial, HostTypes, HostsAssumption, PTL

\* What the user typed is in the buffer or in a draft, and no change of the file
\* is hidden from him (src/src/host/file-buffer.ts).
THEOREM TypedTextIsSafe == Spec => []TypedTextKept
<1>1. Editor!TypedTextKept /\ Editor!TypeOK /\ Editor!ChangesShow => TypedTextKept
  BY DEF TypedTextKept
<1> QED BY <1>1, EditorRun, TypedTextIsKept, BufferTypes, ChangesAreShown, HostsAssumption, PTL

\* An application's page serves the one session it was admitted with, whatever
\* launches, stops and deadlines overlap (src/src/apps/runtime.ts).
THEOREM AdmittedSession == Spec => []OneAdmittedSession
<1>1. Runtime!TypeOK /\ Runtime!OneAdmittedSession /\ Runtime!ServesAdmitted => OneAdmittedSession
  BY DEF OneAdmittedSession
<1> QED BY <1>1, RuntimeRun, SessionIsAdmitted, HostsAssumption, PTL

\* A settled state is the state that the application is in: "The app must
\* acknowledge before the host reports it suspended" (src/src/apps/lifecycle.ts:29).
THEOREM SettledState == Spec => []SettledStateIsTrue
<1>1. Controller!TypeOK /\ Controller!SettledStateIsTrue => SettledStateIsTrue
  BY DEF SettledStateIsTrue
<1> QED BY <1>1, ControllerRun, SettledIsTrue, PTL

\* No request is answered, and no capability granted, without its record in the
\* audit chain (src/src/manager/approval.ts, audit.ts).
THEOREM AuditedAnswers == Spec => []AnswersAudited
<1>1. Broker!TypeOK /\ Broker!AnswersAudited => AnswersAudited
  BY DEF AnswersAudited
<1> QED BY <1>1, BrokerRun, AnswersAreAudited, HostsAssumption, PTL

\* The screen shows the line that Enter runs, with the cursor in its place, after
\* any keys (src/src/host/terminal-session.ts).
THEOREM ScreenIsLine == Spec => []ScreenShowsLine
<1>1. Shell!TypeOK /\ Shell!ScreenShowsLine => ScreenShowsLine
  BY DEF ScreenShowsLine
<1> QED BY <1>1, ShellRun, ScreenShows, HostsAssumption, PTL

\* The lines that a patch takes away are lines that it names, up to their outer
\* white space, and lines of the file (src/src/tools/applyPatchParser.ts).
THEOREM PatchesAreTrue == Spec => []RemovesWhatItNames
<1>1. Init => ToolInv
  <2>1. SUFFICES ASSUME Init, part = "tool" PROVE ToolInv
    BY DEF ToolInv
  <2>2. Tool!Init
    BY <2>1 DEF Init
  <2>3. file \in Seq(ToolLines)
    <3>1. PICK n \in 1..3 : file \in [1..n -> Lines]
      BY <2>2 DEF Tool!Init
    <3>2. Lines \subseteq ToolLines
      BY DEF Lines, Text, ToolLines
    <3>3. file \in [1..n -> ToolLines]
      BY <3>1, <3>2
    <3> QED BY <3>3
  <2>4. <<>> \in Seq(Chunks(ToolLines))
    OBVIOUS
  <2> QED BY <2>2, <2>3, <2>4 DEF Tool!Init, ToolInv
<1>2. ToolInv /\ [Next]_<<part, runtime, controller, consoles, broker, editor, tool, shell>> => ToolInv'
  <2> SUFFICES ASSUME ToolInv, [Next]_<<part, runtime, controller, consoles, broker, editor, tool, shell>> PROVE ToolInv'
    OBVIOUS
  <2>1. CASE UNCHANGED <<part, tool>>
    BY <2>1 DEF ToolInv, tool, Names, Tool!Same
  <2>2. CASE part = "tool" /\ part' = part /\ Tool!Apply
    <3>1. file' = file /\ patch' = patch /\ file \in Seq(ToolLines) /\ patch \in Patches
      BY <2>2 DEF ToolInv, Tool!Apply
    <3>2. result'.done = TRUE /\ result'.chunks = Tool!Parse(file, patch).chunks
      BY <2>2 DEF Tool!Apply
    <3>3. \A line \in ToolLines : line.text # "path"
      BY DEF ToolLines
    <3>4. patch \in Seq(SectionOver(ToolLines)) /\ \A k \in DOMAIN patch : NoMistakes(patch[k])
      BY <3>1, PatchesAreShort
    <3> DEFINE chunks == Tool!Parse(file, patch).chunks
    <3>5. chunks \in Seq(Chunks(ToolLines)) /\ \A c \in DOMAIN chunks : Names(file, chunks[c])
      BY <3>1, <3>3, <3>4, PatchTakesWhatItNames
    <3> HIDE DEF chunks
    <3>6. result'.chunks = chunks
      BY <3>2 DEF chunks
    <3>7. \A c \in DOMAIN result'.chunks : Names(file, result'.chunks[c])
      BY <3>5, <3>6
    <3>8. \A c \in DOMAIN result'.chunks : Names(file', result'.chunks[c])
      BY <3>1, <3>7
    <3> QED BY <3>1, <3>2, <3>5, <3>6, <3>8 DEF ToolInv
  <2> QED BY <2>1, <2>2 DEF Next, tool
<1>3. ToolInv => RemovesWhatItNames
  <2> SUFFICES ASSUME ToolInv, part = "tool" PROVE Tool!TypeOK /\ Tool!RemovesWhatItNames
    BY DEF RemovesWhatItNames
  <2>1. ASSUME NEW c \in DOMAIN result.chunks, NEW j \in DOMAIN result.chunks[c].del
        PROVE  /\ result.chunks[c].at + j <= Len(file)
               /\ Tool!Same(2, file[result.chunks[c].at + j], result.chunks[c].del[j])
    <3>1. result.chunks[c] \in Chunks(ToolLines)
      BY <2>1 DEF ToolInv
    <3>2. j \in 1..Len(result.chunks[c].del)
      BY <3>1, <2>1 DEF Chunks
    <3> QED BY <3>2, <2>1 DEF ToolInv, Names
  <2> QED BY <2>1 DEF ToolInv, Tool!TypeOK, Tool!RemovesWhatItNames
<1> QED BY <1>1, <1>2, <1>3, PTL DEF Spec
===============================================================================
