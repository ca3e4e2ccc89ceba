------------------------------ MODULE KeyLease ------------------------------
(***************************************************************************)
(* The browser's key lease: KeysService (src/storage/keys.ts) with the one *)
(* task it arms on TaskScheduler (src/storage/task-scheduler.ts).          *)
(*                                                                         *)
(* One tab.  Its memory is the record `tab', which a reload replaces; the  *)
(* key-value store `kv' (IndexedDB) and the synchronous `mirror'           *)
(* (localStorage) survive.  install(), login(), the renewal task and the   *)
(* re-login after a 401 run concurrently as `call's; an action runs from   *)
(* one await to the next.  leaseGeneration only ever serves to compare a   *)
(* call's captured value with the present one, so `current' is the set of  *)
(* calls for which they are equal.  The broker and the network are         *)
(* external: any request may fail or be answered at any later time.        *)
(***************************************************************************)
EXTENDS Naturals, Sequences, SequencesExt

CONSTANTS Calls,   \* concurrent calls of the service
          Leases,  \* signed leases with the keys they carry
          Pairs,   \* device key pairs
          None,    \* no lease, pair, session or caller
          Read,    \* the operation reads its key
          MaxIo,   \* bound: outstanding storage operations when a call starts
          KvFails,         \* whether storage operations may reject
          FirstUse,        \* whether the device starts without a key pair
          PrincipalYields  \* whether the host's principal() waits for anything

VARIABLES tab, call, kv, mirror, expired,
          revoked  \* history: released, with no login requested since

vars == <<tab, call, kv, mirror, expired, revoked>>

Session == [lease : Leases, pair : Pairs]
IoOp == [by : Calls \cup {None}, key : {"session", "pair"},
         val : Session \cup Pairs \cup {None, Read}]
Tab == [released : BOOLEAN, installed : BOOLEAN, current : SUBSET Calls,
        lease : Leases \cup {None}, status : {"none", "leased", "locked"},
        policy : {"unknown", "encrypted", "plaintext"}, memo : {"none", "meta", "plain"},
        probeError : BOOLEAN, proved : BOOLEAN, timer : BOOLEAN,
        task : {"idle", "scheduled", "running"},
        suspended : {"no", "draining", "drained"}, io : Seq(IoOp)]
Pcs == {"idle", "session", "clear", "device", "pair", "savePair", "fetch",
        "validate", "save", "meta", "principal", "probe"}
Call == [pc : Pcs, kind : {"install", "login", "renew", "retry"}, restoring : BOOLEAN,
         pair : Pairs \cup {None}, wire : Session \cup {None}]

ASSUME KeyLeaseAssumption ==
  /\ None \notin Calls \cup Leases \cup Pairs \cup Session
  /\ Read \notin Pairs \cup Session \cup {None}
  /\ MaxIo \in Nat /\ {KvFails, FirstUse, PrincipalYields} \subseteq BOOLEAN

Idle == [pc |-> "idle", kind |-> "login", restoring |-> FALSE, pair |-> None, wire |-> None]

\* constructor: only the mirrored release marker is remembered.
Boot(m) == [released |-> m.tomb, installed |-> FALSE, current |-> {}, lease |-> None,
            status |-> "none", policy |-> "unknown", memo |-> "none", probeError |-> FALSE,
            proved |-> FALSE, timer |-> FALSE, task |-> "idle", suspended |-> "no", io |-> <<>>]

Init == /\ mirror = [tomb |-> FALSE, known |-> FALSE]
        /\ tab = Boot(mirror)
        /\ call = [c \in Calls |-> Idle]
        /\ kv \in [session : {None}, pair : IF FirstUse THEN {None} ELSE Pairs]
        /\ expired = {} /\ revoked = FALSE

-----------------------------------------------------------------------------
(* Storage and lease, as functions of the tab's memory                       *)

\* stored(): an operation is refused once a reset has suspended storage.
Stored_Unsuspended(t, c, key, val) == \* faulty: the suspension is not looked at
  [t EXCEPT !.io = Append(@, [by |-> c, key |-> key, val |-> val])]
Stored(t, c, key, val) ==
  IF t.suspended # "no" THEN t
  ELSE [t EXCEPT !.io = Append(@, [by |-> c, key |-> key, val |-> val])]

\* What kv.put makes of the store; `undefined' deletes.
Put(k, op) == IF op.val = Read THEN k ELSE [k EXCEPT ![op.key] = op.val]

Live(t) == t.lease # None /\ t.lease \notin expired

\* dropLease(): the deletion of the persisted grant is not awaited.
DropLease(t) ==
  Stored([t EXCEPT !.current = {}, !.timer = FALSE, !.task = "idle", !.lease = None,
                   !.status = "locked"], None, "session", None)

\* hasLiveLease(), as far as it changes anything.
Sweep(t) == IF t.lease \in expired THEN DropLease(t) ELSE t

\* adopt() of a lease that has not expired, with armRenewal's schedule().
Adopt(t, l) == [t EXCEPT !.policy = "encrypted", !.lease = l, !.status = "leased",
                         !.timer = TRUE, !.task = "scheduled"]

\* A call ends; TaskScheduler.run marks the task idle whatever it did.
Ended(t, kind) == IF kind = "renew" THEN [t EXCEPT !.task = "idle"] ELSE t

Cancelled(t, c) == c \notin t.current \/ t.released

\* login()'s catch block.
LoginFailed(t, c) ==
  Ended(IF Cancelled(t, c) \/ Live(t) THEN t ELSE DropLease(Sweep(t)), call[c].kind)

-----------------------------------------------------------------------------
(* Steps                                                                     *)

Become(c, r) == call' = [call EXCEPT ![c] = r]
Goto(c, pc) == Become(c, [call[c] EXCEPT !.pc = pc])
End(c, t) == tab' = Ended(t, call[c].kind) /\ Become(c, Idle)
Fail(c, t) == tab' = LoginFailed(t, c) /\ Become(c, Idle)
Room(c) == call[c].pc = "idle" /\ Len(tab.io) <= MaxIo

\* login() up to its first await.
EnterLogin(c, kind, t) ==
  IF t.suspended # "no" THEN tab' = Ended(t, kind) /\ Become(c, Idle)
  ELSE /\ tab' = [Sweep(t) EXCEPT !.current = {c}, !.released = FALSE]
       /\ Become(c, [Idle EXCEPT !.pc = "probe", !.kind = kind])

\* `await this.login(await this.principal())'
AwaitPrincipal(c, kind, t) ==
  IF PrincipalYields
  THEN tab' = t /\ Become(c, [Idle EXCEPT !.pc = "principal", !.kind = kind])
  ELSE EnterLogin(c, kind, t)

\* The user logs in.
Login(c) ==
  /\ Room(c)
  /\ EnterLogin(c, "login", tab)
  /\ revoked' = (revoked /\ tab.suspended # "no")
  /\ UNCHANGED <<kv, mirror, expired>>

\* The renewal timer fires: TaskScheduler.run and the task's function.
Renew(c) ==
  /\ Room(c) /\ tab.timer /\ tab.task # "running"
  /\ LET t == [tab EXCEPT !.timer = FALSE, !.task = "running"]
     IN IF tab.installed THEN AwaitPrincipal(c, "renew", t)
        ELSE tab' = Ended(t, "renew") /\ UNCHANGED call
  /\ UNCHANGED <<kv, mirror, expired, revoked>>

\* patchedFetch got a 401.
Unauthorized(c) ==
  /\ Room(c) /\ ~tab.released /\ tab.installed
  /\ AwaitPrincipal(c, "retry", tab)
  /\ UNCHANGED <<kv, mirror, expired, revoked>>

Principal(c) ==
  /\ call[c].pc = "principal"
  /\ EnterLogin(c, call[c].kind, tab)
  /\ UNCHANGED <<kv, mirror, expired, revoked>>

\* install(), with restoreSession() up to its first await.
Install(c) ==
  /\ Room(c) /\ tab.suspended = "no"
  /\ LET t == [Sweep(tab) EXCEPT !.installed = TRUE]
         restore == ~Live(t) /\ ~t.released /\ ~mirror.tomb
     IN /\ tab' = IF restore
                  THEN Stored([t EXCEPT !.current = @ \cup {c}], c, "session", Read) ELSE t
        /\ Become(c, [Idle EXCEPT !.pc = IF restore THEN "session" ELSE "meta",
                                  !.kind = "install", !.restoring = restore])
  /\ UNCHANGED <<kv, mirror, expired, revoked>>

\* probe(): a broker's answer is remembered until an error is recorded.
ProbeResults(t) ==
  LET kept == [t EXCEPT !.memo = IF t.probeError THEN "none" ELSE @]
      failed == [tab |-> [t EXCEPT !.probeError = TRUE], meta |-> FALSE]
      broker == [tab |-> [t EXCEPT !.memo = "meta", !.policy = "encrypted",
                                   !.probeError = FALSE], meta |-> TRUE]
      plain == [tab |-> [t EXCEPT !.memo = "plain", !.policy = "plaintext",
                                  !.probeError = FALSE], meta |-> FALSE]
  IN IF t.memo # "none" THEN {[tab |-> kept, meta |-> t.memo = "meta"]}
     ELSE IF t.suspended # "no" THEN {failed} ELSE {failed, broker, plain}

\* login() goes on to read the device key pair.
Probed(c) ==
  /\ call[c].pc = "probe"
  /\ \E r \in ProbeResults(tab) :
       /\ mirror' = [mirror EXCEPT !.known = @ \/ r.meta]
       /\ IF ~r.meta \/ Cancelled(r.tab, c) THEN End(c, r.tab)
          ELSE tab' = Stored(r.tab, c, "pair", Read) /\ Goto(c, "device")
  /\ UNCHANGED <<kv, expired, revoked>>

\* install() after its probe.
Meta(c) ==
  /\ call[c].pc = "meta"
  /\ \E r \in ProbeResults(tab) :
       /\ mirror' = [mirror EXCEPT !.known = @ \/ r.meta]
       /\ LET t == Sweep(r.tab)
          IN IF r.meta
             THEN IF Live(t) THEN End(c, t)
                  ELSE IF t.released THEN End(c, [t EXCEPT !.status = "locked"])
                  ELSE AwaitPrincipal(c, "install", t)
             ELSE End(c, IF mirror.known /\ r.tab.policy # "plaintext"
                         THEN [r.tab EXCEPT !.policy = "encrypted",
                                 !.status = IF @ = "none" THEN "locked" ELSE @]
                         ELSE r.tab)
  /\ UNCHANGED <<kv, expired, revoked>>

-----------------------------------------------------------------------------
(* A storage operation completes                                             *)

Done(c, pc) == call[c].pc = pc /\ tab.io # <<>> /\ Head(tab.io).by = c
Rest == [tab EXCEPT !.io = Tail(@)]
Ok == IF KvFails THEN BOOLEAN ELSE {TRUE}

\* A device or key error: restoreSession() answers false, login() fails.
Throw(c, t) ==
  IF call[c].restoring
  THEN tab' = t /\ Become(c, [Idle EXCEPT !.pc = "meta", !.kind = "install"])
  ELSE Fail(c, t)

\* deviceKeyPair() has a pair: restoreSession() unwraps, login() asks the
\* broker (refused once a reset has suspended it).
HavePair(c, t, p) ==
  IF IF call[c].restoring THEN call[c].wire.pair # p ELSE t.suspended # "no"
  THEN Throw(c, t)
  ELSE /\ tab' = t
       /\ Become(c, [call[c] EXCEPT !.pair = p,
                       !.pc = IF call[c].restoring THEN "validate" ELSE "fetch"])

\* restoreSession() has read the grant.
SessionRead(c) ==
  /\ Done(c, "session")
  /\ \E ok \in Ok :
       IF ~ok \/ kv.session = None \/ tab.suspended # "no" THEN Throw(c, Rest)
       ELSE IF kv.session.lease \in expired
            THEN tab' = Stored(Rest, c, "session", None) /\ Goto(c, "clear")
       ELSE /\ tab' = Stored(Rest, c, "pair", Read)
            /\ Become(c, [call[c] EXCEPT !.pc = "device", !.wire = kv.session])
  /\ UNCHANGED <<kv, mirror, expired, revoked>>

SessionCleared(c) ==
  /\ Done(c, "clear")
  /\ \E ok \in Ok : kv' = IF ok THEN Put(kv, Head(tab.io)) ELSE kv
  /\ Throw(c, Rest)
  /\ UNCHANGED <<mirror, expired, revoked>>

DeviceRead(c) ==
  /\ Done(c, "device")
  /\ \E ok \in Ok :
       IF ~ok THEN Throw(c, Rest)
       ELSE IF kv.pair # None THEN HavePair(c, Rest, kv.pair)
       ELSE tab' = Rest /\ Goto(c, "pair")
  /\ UNCHANGED <<kv, mirror, expired, revoked>>

\* A key pair nothing refers to any more stands for a newly generated one.
FreshPair(p) ==
  /\ kv.pair # p /\ \A c \in Calls : call[c].pair # p
  /\ kv.session # None => kv.session.pair # p
  /\ \A i \in DOMAIN tab.io : LET v == tab.io[i].val
                              IN v # p /\ (v \in Session => v.pair # p)
PairMade(c) ==
  /\ call[c].pc = "pair"
  /\ \E p \in Pairs :
       /\ FreshPair(p)
       /\ IF tab.suspended # "no" THEN Throw(c, tab)
          ELSE /\ tab' = Stored(tab, c, "pair", p)
               /\ Become(c, [call[c] EXCEPT !.pc = "savePair", !.pair = p])
  /\ UNCHANGED <<kv, mirror, expired, revoked>>

PairSaved(c) ==
  /\ Done(c, "savePair")
  /\ \E ok \in Ok :
       /\ kv' = IF ok THEN Put(kv, Head(tab.io)) ELSE kv
       /\ IF ok THEN HavePair(c, Rest, call[c].pair) ELSE Throw(c, Rest)
  /\ UNCHANGED <<mirror, expired, revoked>>

\* The broker answers with a lease wrapped to the pair, or not at all.
FreshLease(l) ==
  /\ tab.lease # l /\ (kv.session # None => kv.session.lease # l)
  /\ \A c \in Calls : call[c].wire # None => call[c].wire.lease # l
  /\ \A i \in DOMAIN tab.io : tab.io[i].val \in Session => tab.io[i].val.lease # l
Granted(c) ==
  /\ call[c].pc = "fetch"
  /\ \E l \in Leases :
       /\ FreshLease(l)
       /\ expired' = expired \ {l}
       /\ Become(c, [call[c] EXCEPT !.pc = "validate",
                                    !.wire = [lease |-> l, pair |-> call[c].pair]])
  /\ UNCHANGED <<tab, kv, mirror, revoked>>
Refused(c) ==
  /\ call[c].pc = "fetch"
  /\ Fail(c, tab)
  /\ UNCHANGED <<kv, mirror, expired, revoked>>

\* validateKeys() and the checks after it.
Validated(c) ==
  /\ call[c].pc = "validate"
  /\ LET t == Sweep([tab EXCEPT !.proved = TRUE])
     IN IF Cancelled(t, c)
        THEN IF call[c].restoring THEN Throw(c, t) ELSE End(c, t)
        ELSE IF call[c].restoring
             THEN Throw(c, IF call[c].wire.lease \in expired THEN t
                           ELSE Adopt(t, call[c].wire.lease))
             ELSE tab' = Stored(t, c, "session", call[c].wire) /\ Goto(c, "save")
  /\ UNCHANGED <<kv, mirror, expired, revoked>>

\* The key does not decrypt what an earlier one encrypted.
KeyChanged(c) ==
  /\ call[c].pc = "validate" /\ tab.proved
  /\ Throw(c, DropLease([tab EXCEPT !.probeError = TRUE]))
  /\ UNCHANGED <<kv, mirror, expired, revoked>>

\* login() has persisted the wrapped grant, or failed to, and adopts it.
Saved(c) ==
  /\ Done(c, "save")
  /\ \E ok \in Ok : kv' = IF ok THEN Put(kv, Head(tab.io)) ELSE kv
  /\ IF Cancelled(Rest, c) THEN End(c, Rest) /\ UNCHANGED mirror
     ELSE /\ mirror' = [mirror EXCEPT !.tomb = FALSE]
          /\ IF call[c].wire.lease \in expired THEN Fail(c, Rest)
             ELSE End(c, Adopt(Rest, call[c].wire.lease))
  /\ UNCHANGED <<expired, revoked>>

\* dropLease's deletion, for which nobody waits.
Dropped ==
  /\ tab.io # <<>> /\ Head(tab.io).by = None
  /\ tab' = Rest
  /\ \E ok \in Ok : kv' = IF ok THEN Put(kv, Head(tab.io)) ELSE kv
  /\ UNCHANGED <<call, mirror, expired, revoked>>

-----------------------------------------------------------------------------
(* Expiry, release, reset, reload                                            *)

\* Time passes for one lease.
Expire(l) ==
  /\ l \in {tab.lease} \cup {IF kv.session = None THEN None ELSE kv.session.lease}
           \cup {IF call[c].wire = None THEN None ELSE call[c].wire.lease : c \in Calls}
  /\ l \notin expired
  /\ expired' = expired \cup {l}
  /\ UNCHANGED <<tab, call, kv, mirror, revoked>>

\* armExpiry()'s timer (cleared by a reset), or anyone asking for the key.
ExpiryFires_NoRenewal == \* faulty: expiry waits for the renewal timer
  /\ tab.lease \in expired /\ tab.suspended = "no" /\ ~tab.timer
  /\ tab' = Sweep(tab)
  /\ UNCHANGED <<call, kv, mirror, expired, revoked>>
ExpiryFires ==
  /\ tab.lease \in expired /\ tab.suspended = "no"
  /\ tab' = Sweep(tab)
  /\ UNCHANGED <<call, kv, mirror, expired, revoked>>
GetKey ==
  /\ tab.lease \in expired
  /\ tab' = Sweep(tab)
  /\ UNCHANGED <<call, kv, mirror, expired, revoked>>

Release_NoTomb == \* faulty: the marker is not mirrored
  /\ Len(tab.io) <= MaxIo
  /\ tab' = [IF tab.status # "none" \/ tab.policy = "encrypted" THEN DropLease(tab) ELSE tab
             EXCEPT !.released = TRUE]
  /\ revoked' = TRUE
  /\ UNCHANGED <<call, kv, mirror, expired>>
Release ==
  /\ Len(tab.io) <= MaxIo
  /\ mirror' = [mirror EXCEPT !.tomb = TRUE]
  /\ tab' = [IF tab.status # "none" \/ tab.policy = "encrypted" THEN DropLease(tab) ELSE tab
             EXCEPT !.released = TRUE]
  /\ revoked' = TRUE
  /\ UNCHANGED <<call, kv, expired>>

\* suspendForReset(): stop, drain, and later forget the key.
SuspendForReset ==
  /\ tab.suspended = "no"
  /\ tab' = [tab EXCEPT !.suspended = "draining", !.current = {},
                        !.timer = FALSE, !.task = "idle"]
  /\ UNCHANGED <<call, kv, mirror, expired, revoked>>
Drained ==
  /\ tab.suspended = "draining" /\ tab.io = <<>>
  /\ tab' = [tab EXCEPT !.suspended = "drained"]
  /\ UNCHANGED <<call, kv, mirror, expired, revoked>>
Forget ==
  /\ tab.suspended = "drained" /\ tab.status # "locked"
  /\ tab' = DropLease(tab)
  /\ UNCHANGED <<call, kv, mirror, expired, revoked>>

\* The page is loaded again: any prefix of the outstanding operations was done.
Reload ==
  /\ \E n \in 0..Len(tab.io) : kv' = FoldLeft(Put, kv, SubSeq(tab.io, 1, n))
  /\ tab' = Boot(mirror) /\ call' = [c \in Calls |-> Idle]
  /\ UNCHANGED <<mirror, expired, revoked>>

Respond(c) ==
  \/ Principal(c) \/ Probed(c) \/ Meta(c) \/ SessionRead(c) \/ SessionCleared(c)
  \/ DeviceRead(c) \/ PairMade(c) \/ PairSaved(c) \/ Granted(c) \/ Refused(c)
  \/ Validated(c) \/ KeyChanged(c) \/ Saved(c)

Next ==
  \/ \E c \in Calls : Install(c) \/ Login(c) \/ Renew(c) \/ Unauthorized(c) \/ Respond(c)
  \/ Dropped \/ ExpiryFires \/ GetKey \/ Release \/ SuspendForReset \/ Drained \/ Forget
  \/ Reload \/ \E l \in Leases : Expire(l)

Spec == Init /\ [][Next]_vars

\* Requests are answered or time out, storage operations complete, timers fire.
Fairness == /\ \A c \in Calls : WF_vars(Respond(c))
            /\ WF_vars(Dropped) /\ WF_vars(ExpiryFires) /\ WF_vars(Drained)

FairSpec == Spec /\ Fairness

-----------------------------------------------------------------------------
(* Properties                                                                *)

TypeOK ==
  /\ tab \in Tab
  /\ call \in [Calls -> Call] /\ revoked \in BOOLEAN
  /\ kv \in [session : Session \cup {None}, pair : Pairs \cup {None}]
  /\ mirror \in [tomb : BOOLEAN, known : BOOLEAN] /\ expired \subseteq Leases

\* "no auto-relogin until the next explicit login" (keys.ts:274), across
\* reloads too: after release() neither a call that was already under way, nor
\* a renewal, a 401 or a restored grant gives the tab a key.
NoAutoRelogin == revoked => tab.lease = None

\* "Drain device/grant IO before erasure" (keys.ts:165): once
\* suspendForReset() has resolved, no call that is still running touches the
\* database the reset is about to delete.
DrainedIsQuiet == tab.suspended = "drained" => tab.io = <<>>

\* "a live lease survives reloads online and offline alike" (keys.ts:13):
\* once what is outstanding is written, the store holds a grant (the tab's, or
\* the one a later login has obtained) and the key pair it is wrapped to.
LeaseSurvivesReload ==
  LET after == FoldLeft(Put, kv, tab.io)
  IN Live(tab) => after.session # None /\ after.session.pair = after.pair

\* "offline tabs must lock on time too" (keys.ts:219): whatever the network and
\* the renewal do, an expired lease is dropped.
ExpiredLocks ==
  (tab.lease \in expired /\ tab.suspended = "no")
    ~> (tab.lease \notin expired \/ tab.suspended # "no")

\* Calls started before or during a suspension cannot keep it from draining.
SuspendDrains == (tab.suspended = "draining") ~> (tab.suspended # "draining")
=============================================================================
