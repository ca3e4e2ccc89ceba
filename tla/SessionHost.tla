------------------------------ MODULE SessionHost ------------------------------
(* Hosted shell sessions: PodSessionHost (src/src/manager/session-host.ts)     *)
(* behind POST /exec (src/src/server/exec-handler.ts).  Each request of Callers *)
(* acquires its session, waiting for a directory when the session is new, runs *)
(* one command and releases it.  Requests interleave at every await.           *)
(*                                                                             *)
(* Left out: the checks of the request's form, authorization, the content of   *)
(* a command, and reset(), which only tests call.                              *)
EXTENDS Naturals, FiniteSets

CONSTANTS Callers, Ids,
          MaxSessions,
          Ttl,         \* ttlMs, in ticks
          MaxTime,     \* bound of the clock
          MaxEntries,  \* bound: consoles ever opened
          None

Console == [busy : BOOLEAN, lastUsed : Nat]

SessionHostAssumption ==
    /\ MaxSessions \in Nat \ {0} /\ Ttl \in Nat /\ MaxTime \in Nat /\ MaxEntries \in Nat
    /\ None \notin Callers /\ None \notin Console

Entries == 1..MaxEntries

VARIABLES sessions,  \* the map: an entry per id, or 0
          entries,   \* busy and lastUsed of every console opened; None if not opened
          request,   \* per caller: "idle", "mkdir", "running"; its id and its entry
          clock,
          disposed   \* consoles that eviction disposed of

vars == <<sessions, entries, request, clock, disposed>>

Idle == [pc |-> "idle", id |-> None, entry |-> 0]

Init ==
    /\ sessions = [i \in Ids |-> 0]
    /\ entries = [e \in Entries |-> None]
    /\ request = [c \in Callers |-> Idle]
    /\ clock = 0
    /\ disposed = {}

Fresh == {e \in Entries : entries[e] = None /\ \A f \in 1..(e - 1) : entries[f] # None}

Size(map) == Cardinality({i \in Ids : map[i] # 0})

\* evictExpired spares a session whose command still runs.
Expired(i) ==
    /\ sessions[i] # 0
    /\ ~entries[sessions[i]].busy
    /\ clock - entries[sessions[i]].lastUsed > Ttl

Evicted == [i \in Ids |-> IF Expired(i) THEN 0 ELSE sessions[i]]

Claim(c, i, e) ==
    request' = [request EXCEPT ![c] = [pc |-> "running", id |-> i, entry |-> e]]

\* acquire up to its first wait: evict, then refuse, claim the session that is
\* there, or make the directory of a new one.
Acquire(c, i) ==
    /\ request[c].pc = "idle"
    /\ sessions' = Evicted
    /\ disposed' = disposed \cup {sessions[j] : j \in {j \in Ids : Expired(j)}}
    /\ LET e == sessions'[i]
       IN  \/ /\ e = 0 /\ Size(sessions') >= MaxSessions          \* 503
              /\ UNCHANGED <<entries, request>>
           \/ /\ e = 0 /\ Size(sessions') < MaxSessions
              /\ request' = [request EXCEPT ![c] = [pc |-> "mkdir", id |-> i, entry |-> 0]]
              /\ UNCHANGED entries
           \/ /\ e # 0 /\ entries[e].busy                         \* 429
              /\ UNCHANGED <<entries, request>>
           \/ /\ e # 0 /\ ~entries[e].busy
              /\ entries' = [entries EXCEPT ![e] = [busy |-> TRUE, lastUsed |-> clock]]
              /\ Claim(c, i, e)
    /\ UNCHANGED clock

\* The console is opened whether or not somebody came first.
Opened_NoRecheck(c) ==
    /\ request[c].pc = "mkdir"
    /\ \E e \in Fresh :
         /\ sessions' = [sessions EXCEPT ![request[c].id] = e]
         /\ entries' = [entries EXCEPT ![e] = [busy |-> TRUE, lastUsed |-> clock]]
         /\ Claim(c, request[c].id, e)
    /\ UNCHANGED <<clock, disposed>>

\* The directory is there: whoever came first has opened the console.
Opened(c) ==
    /\ request[c].pc = "mkdir"
    /\ LET i == request[c].id
           e == sessions[i]
       IN  IF e # 0 /\ entries[e].busy
           THEN request' = [request EXCEPT ![c] = Idle] /\ UNCHANGED <<sessions, entries>>
           ELSE \E f \in (IF e # 0 THEN {e} ELSE Fresh) :
                  /\ sessions' = [sessions EXCEPT ![i] = f]
                  /\ entries' = [entries EXCEPT ![f] = [busy |-> TRUE, lastUsed |-> clock]]
                  /\ Claim(c, i, f)
    /\ UNCHANGED <<clock, disposed>>

\* exec's finally: the command ended, failed or was aborted by its timeout.
Release(c) ==
    /\ request[c].pc = "running"
    /\ request' = [request EXCEPT ![c] = Idle]
    /\ entries' = [entries EXCEPT ![request[c].entry] = [busy |-> FALSE, lastUsed |-> clock]]
    /\ UNCHANGED <<sessions, clock, disposed>>

Tick ==
    /\ clock < MaxTime
    /\ clock' = clock + 1
    /\ UNCHANGED <<sessions, entries, request, disposed>>

Next ==
    \/ Tick
    \/ \E c \in Callers :
         \/ \E i \in Ids : Acquire(c, i)
         \/ Opened(c) \/ Release(c)

Spec == Init /\ [][Next]_vars

-----------------------------------------------------------------------------
(* Properties *)

TypeOK ==
    /\ sessions \in [Ids -> Entries \cup {0}]
    /\ disposed \subseteq Entries
    /\ clock \in 0..MaxTime

Running(c) == request[c].pc = "running"

\* A session runs one command at a time, on the console that the map holds and
\* that nobody has disposed of, however requests for a new session and evictions
\* meet; a session that is busy has a command, so that none is refused for ever.
OneCommandPerSession ==
    /\ \A c, d \in Callers : Running(c) /\ Running(d) /\ request[c].id = request[d].id => c = d
    /\ \A c \in Callers : Running(c) =>
         /\ sessions[request[c].id] = request[c].entry
         /\ request[c].entry \notin disposed
    /\ \A i \in Ids : sessions[i] # 0 /\ entries[sessions[i]].busy
         => \E c \in Callers : Running(c) /\ request[c].id = i

=============================================================================
