-------------------------------- MODULE Custody --------------------------------
(* Approvals, the audit chain and the keyring of one pod: ApprovalBroker        *)
(* (src/src/manager/approval.ts) with policy.ts, AuditLog (audit.ts), Keyring  *)
(* (keyring.ts), PodLocker (locker.ts) and unlockWithGrant (grants.ts), wired   *)
(* as in src/src/realize/zenfs.ts: the audit chain lies in the pod's own store, *)
(* which takes writes only with the pod's key when it is encrypted.            *)
(*                                                                             *)
(* An entry of the keyring counts as gone once its time is over, as live()     *)
(* enforces at every use; the expiry timer only clears it away and is left out, *)
(* as are signatures, the high-water clock and the purge of blobs.             *)
EXTENDS Naturals, Sequences, SequencesExt

CONSTANTS Callers,
          Classes, Approvable,  \* capability classes, those the policy may approve
          MaxTtl,               \* maxTtlMs of a rule and time to live of a lease
          Encrypted,            \* whether the store needs the key
          Overlap,              \* whether appends overlap
          MaxTime, MaxRequests, \* bounds: clock, requests ever made
          MaxLogins,            \* bound: leases and grants adopted, and locks
          None

CustodyAssumption == {MaxTtl, MaxTime, MaxRequests, MaxLogins} \subseteq Nat

VARIABLES kek,      \* when the pod's key expires, 0 without one
          caps,     \* per class the capability, or None
          chain,    \* the audit records, oldest first
          call,     \* what each caller is doing
          clock,
          made,     \* number of requests made
          logins,   \* number of keys adopted and dropped
          answered  \* history: requests that returned, with their outcome

vars == <<kek, caps, chain, call, clock, made, logins, answered>>

Idle == [pc |-> "idle", id |-> 0, class |-> None, rec |-> None, then |-> "idle", seen |-> <<>>]

Init ==
    /\ kek = IF Encrypted THEN MaxTtl ELSE 0
    /\ caps = [k \in Classes |-> None]
    /\ chain = <<>>
    /\ call = [c \in Callers |-> Idle]
    /\ clock = 0
    /\ made = 0 /\ logins = 0
    /\ answered = {}

Record(kind, id) == [kind |-> kind, id |-> id]

At(c, pc) == call[c].pc = pc
Set(c, f) == call' = [call EXCEPT ![c] = f]

\* live(): an entry serves strictly before its expiry.
Live(expiry) == clock < expiry

-----------------------------------------------------------------------------
(* AuditLog *)

\* append reads the head and writes a record on top of it.
Appending(f, kind, then) ==
    [f EXCEPT !.pc = "append", !.rec = Record(kind, f.id), !.then = then]

ReadHead(c) ==
    /\ At(c, "append")
    /\ Overlap \/ \A d \in Callers : ~At(d, "write")
    /\ Set(c, [call[c] EXCEPT !.pc = "write", !.seen = chain])
    /\ UNCHANGED <<kek, caps, chain, clock, made, logins, answered>>

CanWrite == Encrypted => Live(kek)

Outcomes == {"unapprovable", "denied", "approved"}

\* A locked store refuses and the caller gets the error; else the caller goes
\* on, and after the record of an outcome it returns.
WriteHead(c) ==
    /\ At(c, "write")
    /\ IF CanWrite
       THEN /\ chain' = Append(call[c].seen, call[c].rec)
            /\ Set(c, IF call[c].then = "idle" THEN Idle ELSE [call[c] EXCEPT !.pc = call[c].then])
            /\ answered' = answered \cup ({call[c].rec} \cap [kind : Outcomes, id : 1..MaxRequests])
       ELSE Set(c, Idle) /\ UNCHANGED <<chain, answered>>
    /\ UNCHANGED <<kek, caps, clock, made, logins>>

-----------------------------------------------------------------------------
(* ApprovalBroker *)

\* What the policy bans is recorded and refused; the rest is recorded and put
\* to the approver.
Request(c, k) ==
    /\ At(c, "idle") /\ made < MaxRequests
    /\ made' = made + 1
    /\ LET f == [Idle EXCEPT !.id = made + 1, !.class = k]
       IN  Set(c, IF k \in Approvable THEN Appending(f, "request", "prompt")
                                      ELSE Appending(f, "unapprovable", "idle"))
    /\ UNCHANGED <<kek, caps, chain, clock, logins, answered>>

\* Nobody to ask, no right to approve, or a no.
Denied(c) ==
    /\ At(c, "prompt")
    /\ Set(c, Appending(call[c], "denied", "idle"))
    /\ UNCHANGED <<kek, caps, chain, clock, made, logins, answered>>

Mint(c, ttl) == caps' = [caps EXCEPT ![call[c].class] = [expiry |-> clock + ttl, id |-> call[c].id]]

\* The answer of the approver is not recorded.
Approved_Silently(c, ttl) ==
    /\ At(c, "prompt")
    /\ Mint(c, ttl)
    /\ answered' = answered \cup {Record("approved", call[c].id)}
    /\ Set(c, Idle)
    /\ UNCHANGED <<kek, chain, clock, made, logins>>

\* A yes of somebody who may approve: the capability is minted, then recorded.
Approved(c, ttl) ==
    /\ At(c, "prompt")
    /\ Mint(c, ttl)
    /\ Set(c, Appending(call[c], "approved", "idle"))
    /\ UNCHANGED <<kek, chain, clock, made, logins, answered>>

-----------------------------------------------------------------------------
(* PodLocker and unlockWithGrant *)

\* login, or a ceremony of the user: the answer comes later.
BeginLogin(c) ==
    /\ Encrypted /\ At(c, "idle") /\ logins < MaxLogins
    /\ logins' = logins + 1
    /\ \E how \in {"lease", "grant"} : Set(c, [Idle EXCEPT !.pc = how])
    /\ UNCHANGED <<kek, caps, chain, clock, made, answered>>

\* adoptLease puts the key and then records the login; a grant is not recorded.
Adopt(c) ==
    /\ At(c, "lease") \/ At(c, "grant")
    /\ kek' = clock + MaxTtl
    /\ Set(c, IF At(c, "lease") THEN Appending(call[c], "login", "idle") ELSE Idle)
    /\ UNCHANGED <<caps, chain, clock, made, logins, answered>>

LoginFails(c) ==
    /\ At(c, "lease") \/ At(c, "grant")
    /\ Set(c, Idle)
    /\ UNCHANGED <<kek, caps, chain, clock, made, logins, answered>>

\* lock records first, since a locked store takes no record, and then drops the
\* key: not if the record fails.
BeginLock(c) ==
    /\ Encrypted /\ At(c, "idle") /\ logins < MaxLogins
    /\ logins' = logins + 1
    /\ Set(c, Appending(Idle, "lock", "revoke"))
    /\ UNCHANGED <<kek, caps, chain, clock, made, answered>>

Revoke(c) ==
    /\ At(c, "revoke")
    /\ kek' = 0
    /\ Set(c, Idle)
    /\ UNCHANGED <<caps, chain, clock, made, logins, answered>>

Tick ==
    /\ clock < MaxTime
    /\ clock' = clock + 1
    /\ UNCHANGED <<kek, caps, chain, call, made, logins, answered>>

Next ==
    \/ Tick
    \/ \E c \in Callers :
         \/ ReadHead(c) \/ WriteHead(c)
         \/ \E k \in Classes : Request(c, k)
         \/ Denied(c) \/ \E ttl \in 1..MaxTtl : Approved(c, ttl)
         \/ BeginLogin(c) \/ Adopt(c) \/ LoginFails(c) \/ BeginLock(c) \/ Revoke(c)

Spec == Init /\ [][Next]_vars

-----------------------------------------------------------------------------
(* Properties *)

TypeOK ==
    /\ kek \in 0..(MaxTime + MaxTtl)
    /\ clock \in 0..MaxTime
    /\ made \in 0..MaxRequests
    /\ \A k \in Classes : caps[k] = None \/ caps[k].id \in 1..made

Recorded(r) == \E i \in DOMAIN chain : chain[i] = r

Before(r, s) == \E i, j \in DOMAIN chain : i < j /\ chain[i] = r /\ chain[j] = s

\* The chain tells of every request that was answered, asked before decided, and
\* of the question behind every capability, also when the pod locks and unlocks
\* in between, as long as appends do not overlap.
AnswersAudited ==
    /\ \A r \in answered :
         IF r.kind = "unapprovable" THEN Recorded(r) ELSE Before(Record("request", r.id), r)
    /\ \A k \in Classes : caps[k] # None =>
         k \in Approvable /\ Recorded(Record("request", caps[k].id))

\* approval.ts: "everything is audited to the pod provenance stream".  A usable
\* capability is in the chain, unless its request is about to record it.
GrantsAudited ==
    \A k \in Classes : caps[k] # None /\ Live(caps[k].expiry) =>
      \/ Recorded(Record("approved", caps[k].id))
      \/ \E c \in Callers : call[c].id = caps[k].id

=============================================================================
