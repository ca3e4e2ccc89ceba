--------------------------- MODULE KeyLeaseProofs ---------------------------
(***************************************************************************)
(* A lease that was given up stays given up, and a drained key service     *)
(* leaves its database alone, for any calls, leases and key pairs.         *)
(*                                                                         *)
(* NoAutoRelogin is not inductive: a call under way may adopt a lease, the *)
(* renewal timer may log in, and a reload forgets all but the mirror.  The *)
(* invariant says what stops each of them: `released' cancels every call,  *)
(* no timer is left, and the marker is mirrored.  That release() always    *)
(* drops the lease, although it skips dropLease() for a service that never *)
(* had one, rests on Honest.  The host's principal() must answer at once:  *)
(* a call that waits for it logs in without looking at the marker again.   *)
(***************************************************************************)
EXTENDS MCKeyLease, TLAPS

Fields == {"released", "installed", "current", "lease", "status", "policy", "memo",
           "probeError", "proved", "timer", "task", "suspended", "io"}

\* A tab without a status has neither a lease nor a timer for one.
Honest(t) == t.status = "none" => t.lease = None /\ t.timer = FALSE

Quiet(t) == t.suspended = "drained" => t.io = <<>>

\* What release() leaves behind: nothing that could log in again.
Down(t) == t.released = TRUE /\ t.lease = None /\ t.timer = FALSE

Sound(t, gone) == /\ DOMAIN t = Fields
                  /\ Honest(t) /\ Quiet(t)
                  /\ gone => Down(t)

CallOK(r) == DOMAIN r = DOMAIN Idle /\ r.pc # "principal"
CallsOK == DOMAIN call = Calls /\ \A c \in Calls : CallOK(call[c])

MirrorOK == DOMAIN mirror = {"tomb", "known"} /\ (revoked => mirror.tomb = TRUE)

IInv == /\ revoked \in BOOLEAN
        /\ Sound(tab, revoked)
        /\ CallsOK
        /\ MirrorOK

-----------------------------------------------------------------------------
(* The functions of the tab's memory keep it sound.                        *)

LEMMA StoredSound ==
  ASSUME NEW t, NEW gone, Sound(t, gone), NEW c, NEW key, NEW val
  PROVE  /\ Sound(Stored(t, c, key, val), gone)
         /\ Stored(t, c, key, val).released = t.released
         /\ Stored(t, c, key, val).suspended = t.suspended
BY DEF Sound, Honest, Quiet, Down, Stored, Fields

LEMMA DropLeaseSound ==
  ASSUME NEW t, NEW gone, Sound(t, gone)
  PROVE  /\ Sound(DropLease(t), gone)
         /\ DropLease(t).released = t.released
         /\ DropLease(t).suspended = t.suspended
         /\ DropLease(t).lease = None /\ DropLease(t).timer = FALSE
         /\ DropLease(t).status = "locked" /\ DropLease(t).current = {}
BY DEF DropLease, Sound, Honest, Quiet, Down, Stored, Fields

LEMMA SweepSound ==
  ASSUME NEW t, NEW gone, Sound(t, gone)
  PROVE  /\ Sound(Sweep(t), gone)
         /\ Sweep(t).released = t.released /\ Sweep(t).suspended = t.suspended
BY DropLeaseSound DEF Sweep

LEMMA EndedSound ==
  ASSUME NEW t, NEW gone, Sound(t, gone), NEW kind
  PROVE  Sound(Ended(t, kind), gone)
BY DEF Ended, Sound, Honest, Quiet, Down, Fields

LEMMA LoginFailedSound ==
  ASSUME NEW t, NEW gone, Sound(t, gone), NEW c
  PROVE  Sound(LoginFailed(t, c), gone)
<1>1. Sound(DropLease(Sweep(t)), gone)
  BY SweepSound, DropLeaseSound
<1> QED BY <1>1, EndedSound DEF LoginFailed

\* Only a tab that was not released adopts a lease.
LEMMA AdoptSound ==
  ASSUME NEW t, NEW gone \in BOOLEAN, Sound(t, gone), ~t.released, NEW l
  PROVE  Sound(Adopt(t, l), gone)
BY DEF Adopt, Sound, Honest, Quiet, Down, Fields

\* A reload remembers the marker.
LEMMA BootSound ==
  ASSUME NEW m, NEW gone, gone => m.tomb = TRUE
  PROVE  Sound(Boot(m), gone)
BY DEF Boot, Sound, Honest, Quiet, Down, Fields

-----------------------------------------------------------------------------
(* The steps of a call keep the calls and the tab sound.                   *)

LEMMA BecomeOK ==
  ASSUME CallsOK, NEW c \in Calls, NEW r, CallOK(r), Become(c, r)
  PROVE  CallsOK'
BY DEF CallsOK, CallOK, Become

LEMMA GotoOK ==
  ASSUME CallsOK, NEW c \in Calls, NEW pc, pc # "principal", Goto(c, pc)
  PROVE  CallsOK'
<1>1. CallOK([call[c] EXCEPT !.pc = pc])
  BY DEF CallsOK, CallOK, Idle
<1> QED BY <1>1, BecomeOK DEF Goto

LEMMA IdleOK == CallOK(Idle)
BY DEF CallOK, Idle

LEMMA EndOK ==
  ASSUME CallsOK, NEW c \in Calls, NEW t, NEW gone, Sound(t, gone), End(c, t)
  PROVE  CallsOK' /\ Sound(tab', gone)
BY BecomeOK, IdleOK, EndedSound DEF End

LEMMA FailOK ==
  ASSUME CallsOK, NEW c \in Calls, NEW t, NEW gone, Sound(t, gone), Fail(c, t)
  PROVE  CallsOK' /\ Sound(tab', gone)
BY BecomeOK, IdleOK, LoginFailedSound DEF Fail

\* login() forgets the marker: it was asked for, or there was none.
LEMMA EnterLoginOK ==
  ASSUME CallsOK, NEW c \in Calls, NEW kind, NEW t, NEW gone, Sound(t, gone),
         gone => t.suspended # "no", EnterLogin(c, kind, t)
  PROVE  CallsOK' /\ Sound(tab', gone)
<1>1. CASE t.suspended # "no"
  BY <1>1, BecomeOK, IdleOK, EndedSound DEF EnterLogin
<1>2. CASE t.suspended = "no"
  <2>1. Sound(Sweep(t), gone)
    BY SweepSound
  <2>2. Sound([Sweep(t) EXCEPT !.current = {c}, !.released = FALSE], gone)
    BY <1>2, <2>1 DEF Sound, Honest, Quiet, Fields
  <2>3. CallOK([Idle EXCEPT !.pc = "probe", !.kind = kind])
    BY DEF CallOK, Idle
  <2> QED BY <1>2, <2>2, <2>3, BecomeOK DEF EnterLogin
<1> QED BY <1>1, <1>2

LEMMA AwaitPrincipalOK ==
  ASSUME ~PrincipalYields, CallsOK, NEW c \in Calls, NEW kind, NEW t, NEW gone,
         Sound(t, gone), gone => t.suspended # "no", AwaitPrincipal(c, kind, t)
  PROVE  CallsOK' /\ Sound(tab', gone)
BY EnterLoginOK DEF AwaitPrincipal

LEMMA ProbeResultsSound ==
  ASSUME NEW t, NEW gone, Sound(t, gone), NEW r \in ProbeResults(t)
  PROVE  Sound(r.tab, gone) /\ r.tab.released = t.released
<1> DEFINE kept == [t EXCEPT !.memo = IF t.probeError THEN "none" ELSE @]
           failed == [t EXCEPT !.probeError = TRUE]
           broker == [t EXCEPT !.memo = "meta", !.policy = "encrypted", !.probeError = FALSE]
           plain == [t EXCEPT !.memo = "plain", !.policy = "plaintext", !.probeError = FALSE]
<1>1. r.tab \in {kept, failed, broker, plain}
  BY DEF ProbeResults
<1>2. \A s \in {kept, failed, broker, plain} : Sound(s, gone) /\ s.released = t.released
  BY DEF Sound, Honest, Quiet, Down, Fields
<1> QED BY <1>1, <1>2

LEMMA ThrowOK ==
  ASSUME CallsOK, NEW c \in Calls, NEW t, NEW gone, Sound(t, gone), Throw(c, t)
  PROVE  CallsOK' /\ Sound(tab', gone)
<1>1. CallOK([Idle EXCEPT !.pc = "meta", !.kind = "install"])
  BY DEF CallOK, Idle
<1> QED BY <1>1, BecomeOK, FailOK DEF Throw

LEMMA HavePairOK ==
  ASSUME CallsOK, NEW c \in Calls, NEW t, NEW gone, Sound(t, gone), NEW p, HavePair(c, t, p)
  PROVE  CallsOK' /\ Sound(tab', gone)
<1>1. CallOK([call[c] EXCEPT !.pair = p, !.pc = IF call[c].restoring THEN "validate" ELSE "fetch"])
  BY DEF CallsOK, CallOK, Idle
<1> QED BY <1>1, BecomeOK, ThrowOK DEF HavePair

LEMMA RestSound ==
  ASSUME NEW gone, Sound(tab, gone), tab.io # <<>>
  PROVE  Sound(Rest, gone) /\ Rest.released = tab.released
BY DEF Rest, Sound, Honest, Quiet, Down, Fields

-----------------------------------------------------------------------------
(* The invariant                                                           *)

LEMMA InitIInv == Init => IInv
<1> SUFFICES ASSUME Init PROVE IInv
  OBVIOUS
<1>1. Sound(tab, revoked)
  BY BootSound DEF Init
<1>2. CallsOK
  BY IdleOK DEF Init, CallsOK
<1> QED BY <1>1, <1>2 DEF Init, IInv, MirrorOK

LEMMA StartKeeps ==
  ASSUME IInv, ~PrincipalYields, NEW c \in Calls,
         Install(c) \/ Login(c) \/ Renew(c) \/ Unauthorized(c)
  PROVE  IInv'
<1> USE DEF IInv
<1>1. CASE Install(c)
  <2> DEFINE t == [Sweep(tab) EXCEPT !.installed = TRUE]
             restore == ~Live(t) /\ ~t.released /\ ~mirror.tomb
  <2>1. Sound(t, revoked)
    BY SweepSound DEF Sound, Honest, Quiet, Down, Fields
  <2>2. Sound([t EXCEPT !.current = @ \cup {c}], revoked)
    BY <2>1 DEF Sound, Honest, Quiet, Down, Fields
  <2>3. CallOK([Idle EXCEPT !.pc = IF restore THEN "session" ELSE "meta",
                            !.kind = "install", !.restoring = restore])
    BY DEF CallOK, Idle
  <2>4. tab' = IF restore THEN Stored([t EXCEPT !.current = @ \cup {c}], c, "session", Read)
               ELSE t
    BY <1>1 DEF Install
  <2>5. Become(c, [Idle EXCEPT !.pc = IF restore THEN "session" ELSE "meta",
                               !.kind = "install", !.restoring = restore])
    BY <1>1 DEF Install
  <2> HIDE DEF t, restore
  <2>6. Sound(tab', revoked)
    BY <2>1, <2>2, <2>4, StoredSound
  <2>7. CallsOK'
    BY <2>3, <2>5, BecomeOK
  <2> QED BY <1>1, <2>6, <2>7 DEF Install, MirrorOK
<1>2. CASE Login(c)
  <2> DEFINE gone == revoked /\ tab.suspended # "no"
  <2>1. Sound(tab, gone) /\ (gone => tab.suspended # "no")
    BY DEF Sound
  <2>2. CallsOK' /\ Sound(tab', gone)
    BY <1>2, <2>1, EnterLoginOK DEF Login
  <2> QED BY <1>2, <2>2 DEF Login, MirrorOK
<1>3. CASE Renew(c)
  <2> DEFINE t == [tab EXCEPT !.timer = FALSE, !.task = "running"]
  <2>1. ~revoked
    BY <1>3 DEF Renew, Sound, Down
  <2>2. Sound(t, FALSE)
    BY DEF Sound, Honest, Quiet, Fields
  <2>3. CASE tab.installed
    <3>1. AwaitPrincipal(c, "renew", t)
      BY <1>3, <2>3 DEF Renew
    <3> HIDE DEF t
    <3> QED BY <1>3, <2>1, <2>2, <3>1, AwaitPrincipalOK DEF Renew, MirrorOK, Sound
  <2>4. CASE ~tab.installed
    <3>1. tab' = Ended(t, "renew") /\ UNCHANGED <<call, mirror, revoked>>
      BY <1>3, <2>4 DEF Renew
    <3> HIDE DEF t
    <3>2. Sound(tab', FALSE)
      BY <2>2, <3>1, EndedSound
    <3> QED BY <2>1, <3>1, <3>2 DEF MirrorOK, CallsOK, Sound
  <2> QED BY <2>3, <2>4
<1>4. CASE Unauthorized(c)
  <2>1. ~revoked /\ Sound(tab, FALSE)
    BY <1>4 DEF Unauthorized, Sound, Down
  <2>2. CallsOK' /\ Sound(tab', FALSE)
    BY <1>4, <2>1, AwaitPrincipalOK DEF Unauthorized
  <2> QED BY <1>4, <2>1, <2>2 DEF Unauthorized, MirrorOK, Sound
<1> QED BY <1>1, <1>2, <1>3, <1>4

\* A call that waits for the broker or for the storage goes on.
LEMMA RespondKeeps ==
  ASSUME IInv, ~PrincipalYields, NEW c \in Calls, Respond(c)
  PROVE  IInv'
<1> USE DEF IInv
<1> SUFFICES /\ CallsOK' /\ Sound(tab', revoked) /\ UNCHANGED revoked
             /\ DOMAIN mirror' = {"tomb", "known"} /\ (revoked => mirror'.tomb = TRUE)
  BY DEF MirrorOK
<1>1. CASE Principal(c)
  BY <1>1 DEF Principal, CallsOK, CallOK
<1>2. CASE Probed(c)
  <2>1. PICK r \in ProbeResults(tab) :
          /\ mirror' = [mirror EXCEPT !.known = @ \/ r.meta]
          /\ IF ~r.meta \/ Cancelled(r.tab, c) THEN End(c, r.tab)
             ELSE tab' = Stored(r.tab, c, "pair", Read) /\ Goto(c, "device")
    BY <1>2 DEF Probed
  <2>2. Sound(r.tab, revoked)
    BY ProbeResultsSound
  <2>3. CallsOK' /\ Sound(tab', revoked)
    BY <2>1, <2>2, EndOK, StoredSound, GotoOK
  <2> QED BY <1>2, <2>1, <2>3 DEF Probed, MirrorOK
<1>3. CASE Meta(c)
  <2>1. PICK r \in ProbeResults(tab) :
          /\ mirror' = [mirror EXCEPT !.known = @ \/ r.meta]
          /\ LET t == Sweep(r.tab)
             IN IF r.meta
                THEN IF Live(t) THEN End(c, t)
                     ELSE IF t.released THEN End(c, [t EXCEPT !.status = "locked"])
                     ELSE AwaitPrincipal(c, "install", t)
                ELSE End(c, IF mirror.known /\ r.tab.policy # "plaintext"
                            THEN [r.tab EXCEPT !.policy = "encrypted",
                                    !.status = IF @ = "none" THEN "locked" ELSE @]
                            ELSE r.tab)
    BY <1>3 DEF Meta
  <2> DEFINE t == Sweep(r.tab)
             lock == [r.tab EXCEPT !.policy = "encrypted",
                                   !.status = IF @ = "none" THEN "locked" ELSE @]
  <2>2. Sound(r.tab, revoked)
    BY ProbeResultsSound
  <2>3. Sound(t, revoked)
    BY <2>2, SweepSound
  <2>4. Sound([t EXCEPT !.status = "locked"], revoked)
    BY <2>3 DEF Sound, Honest, Quiet, Down, Fields
  <2>5. Sound(lock, revoked)
    BY <2>2 DEF Sound, Honest, Quiet, Down, Fields
  <2>6. CASE r.meta /\ (Live(t) \/ t.released)
    <3>1. End(c, t) \/ End(c, [t EXCEPT !.status = "locked"])
      BY <2>1, <2>6
    <3> HIDE DEF t
    <3> QED BY <1>3, <2>1, <2>3, <2>4, <3>1, EndOK DEF Meta, MirrorOK
  <2>7. CASE r.meta /\ ~Live(t) /\ ~t.released
    <3>1. AwaitPrincipal(c, "install", t)
      BY <2>1, <2>7
    <3>2. ~revoked
      BY <2>3, <2>7 DEF Sound, Down
    <3> HIDE DEF t
    <3>3. CallsOK' /\ Sound(tab', revoked)
      BY <2>3, <3>1, <3>2, AwaitPrincipalOK
    <3> QED BY <1>3, <2>1, <3>3 DEF Meta, MirrorOK
  <2>8. CASE ~r.meta
    <3>1. End(c, lock) \/ End(c, r.tab)
      BY <2>1, <2>8
    <3> HIDE DEF lock
    <3> QED BY <1>3, <2>1, <2>2, <2>5, <3>1, EndOK DEF Meta, MirrorOK
  <2> QED BY <2>6, <2>7, <2>8
<1>4. CASE SessionRead(c)
  <2>1. Sound(Rest, revoked)
    BY <1>4, RestSound DEF SessionRead, Done
  <2>2. PICK val : \/ Throw(c, Rest)
                   \/ tab' = Stored(Rest, c, "session", None) /\ Goto(c, "clear")
                   \/ /\ tab' = Stored(Rest, c, "pair", Read)
                      /\ Become(c, [call[c] EXCEPT !.pc = "device", !.wire = val])
    BY <1>4 DEF SessionRead
  <2>3. CallOK([call[c] EXCEPT !.pc = "device", !.wire = val])
    BY DEF CallsOK, CallOK, Idle
  <2>4. CallsOK' /\ Sound(tab', revoked)
    BY <2>1, <2>2, <2>3, ThrowOK, GotoOK, BecomeOK, StoredSound
  <2> QED BY <1>4, <2>4 DEF SessionRead, MirrorOK
<1>5. CASE SessionCleared(c)
  BY <1>5, RestSound, ThrowOK DEF SessionCleared, Done, MirrorOK
<1>6. CASE DeviceRead(c)
  <2>1. Sound(Rest, revoked)
    BY <1>6, RestSound DEF DeviceRead, Done
  <2>2. Throw(c, Rest) \/ HavePair(c, Rest, kv.pair) \/ (tab' = Rest /\ Goto(c, "pair"))
    BY <1>6 DEF DeviceRead
  <2>3. CallsOK' /\ Sound(tab', revoked)
    BY <2>1, <2>2, ThrowOK, HavePairOK, GotoOK
  <2> QED BY <1>6, <2>3 DEF DeviceRead, MirrorOK
<1>7. CASE PairMade(c)
  <2>1. PICK p \in Pairs : \/ Throw(c, tab)
                           \/ /\ tab' = Stored(tab, c, "pair", p)
                              /\ Become(c, [call[c] EXCEPT !.pc = "savePair", !.pair = p])
    BY <1>7 DEF PairMade
  <2>2. CallOK([call[c] EXCEPT !.pc = "savePair", !.pair = p])
    BY DEF CallsOK, CallOK, Idle
  <2>3. CallsOK' /\ Sound(tab', revoked)
    BY <2>1, <2>2, ThrowOK, BecomeOK, StoredSound
  <2> QED BY <1>7, <2>3 DEF PairMade, MirrorOK
<1>8. CASE PairSaved(c)
  <2>1. Sound(Rest, revoked)
    BY <1>8, RestSound DEF PairSaved, Done
  <2>2. HavePair(c, Rest, call[c].pair) \/ Throw(c, Rest)
    BY <1>8 DEF PairSaved
  <2> QED BY <1>8, <2>1, <2>2, HavePairOK, ThrowOK DEF PairSaved, MirrorOK
<1>9. CASE Granted(c)
  <2>1. PICK l : Become(c, [call[c] EXCEPT !.pc = "validate",
                                           !.wire = [lease |-> l, pair |-> call[c].pair]])
    BY <1>9 DEF Granted
  <2>2. CallOK([call[c] EXCEPT !.pc = "validate", !.wire = [lease |-> l, pair |-> call[c].pair]])
    BY DEF CallsOK, CallOK, Idle
  <2>3. CallsOK'
    BY <2>1, <2>2, BecomeOK
  <2> QED BY <1>9, <2>3 DEF Granted, MirrorOK
<1>10. CASE Refused(c)
  BY <1>10, FailOK DEF Refused, MirrorOK
<1>11. CASE Validated(c)
  <2> DEFINE t == Sweep([tab EXCEPT !.proved = TRUE])
             l == call[c].wire.lease
  <2>1. Sound([tab EXCEPT !.proved = TRUE], revoked)
    BY DEF Sound, Honest, Quiet, Down, Fields
  <2>2. Sound(t, revoked)
    BY <2>1, SweepSound
  <2>3. \/ Throw(c, t) \/ End(c, t)
        \/ ~Cancelled(t, c) /\ Throw(c, Adopt(t, l))
        \/ tab' = Stored(t, c, "session", call[c].wire) /\ Goto(c, "save")
    BY <1>11 DEF Validated
  <2> HIDE DEF t, l
  <2>4. ~Cancelled(t, c) => Sound(Adopt(t, l), revoked)
    BY <2>2, AdoptSound DEF Cancelled
  <2>5. CallsOK' /\ Sound(tab', revoked)
    BY <2>2, <2>3, <2>4, ThrowOK, EndOK, GotoOK, StoredSound
  <2> QED BY <1>11, <2>5 DEF Validated, MirrorOK
<1>12. CASE KeyChanged(c)
  <2>1. Sound([tab EXCEPT !.probeError = TRUE], revoked)
    BY DEF Sound, Honest, Quiet, Down, Fields
  <2>2. Sound(DropLease([tab EXCEPT !.probeError = TRUE]), revoked)
    BY <2>1, DropLeaseSound
  <2>3. CallsOK' /\ Sound(tab', revoked)
    BY <1>12, <2>2, ThrowOK DEF KeyChanged
  <2> QED BY <1>12, <2>3 DEF KeyChanged, MirrorOK
<1>13. CASE Saved(c)
  <2>1. Sound(Rest, revoked)
    BY <1>13, RestSound DEF Saved, Done
  <2>2. CASE Cancelled(Rest, c)
    BY <1>13, <2>1, <2>2, EndOK DEF Saved, MirrorOK
  <2>3. CASE ~Cancelled(Rest, c)
    <3>1. ~revoked
      BY <2>1, <2>3 DEF Cancelled, Sound, Down
    <3>2. Sound(Adopt(Rest, call[c].wire.lease), revoked)
      BY <2>1, <2>3, AdoptSound DEF Cancelled
    <3>3. Fail(c, Rest) \/ End(c, Adopt(Rest, call[c].wire.lease))
      BY <1>13, <2>3 DEF Saved
    <3>4. CallsOK' /\ Sound(tab', revoked)
      BY <2>1, <3>2, <3>3, FailOK, EndOK
    <3> QED BY <1>13, <2>3, <3>1, <3>4 DEF Saved, MirrorOK
  <2> QED BY <2>2, <2>3
<1> QED BY <1>1, <1>2, <1>3, <1>4, <1>5, <1>6, <1>7, <1>8, <1>9, <1>10, <1>11, <1>12, <1>13
     DEF Respond

\* Expiry, release, reset and reload.
LEMMA SurroundingsKeep ==
  ASSUME IInv, \/ Dropped \/ ExpiryFires \/ GetKey \/ Release \/ SuspendForReset \/ Drained
               \/ Forget \/ Reload \/ \E l \in Leases : Expire(l)
  PROVE  IInv'
<1> USE DEF IInv
<1>1. CASE Dropped
  BY <1>1, RestSound DEF Dropped, MirrorOK, CallsOK
<1>2. CASE ExpiryFires \/ GetKey
  BY <1>2, SweepSound DEF ExpiryFires, GetKey, MirrorOK, CallsOK
<1>3. CASE Release
  <2> DEFINE t == IF tab.status # "none" \/ tab.policy = "encrypted" THEN DropLease(tab) ELSE tab
  <2>1. Sound(t, revoked) /\ t.lease = None /\ t.timer = FALSE
    BY DropLeaseSound DEF Sound, Honest
  <2>2. tab' = [t EXCEPT !.released = TRUE]
    BY <1>3 DEF Release
  <2> HIDE DEF t
  <2>3. Sound(tab', TRUE)
    BY <2>1, <2>2 DEF Sound, Honest, Quiet, Down, Fields
  <2> QED BY <1>3, <2>3 DEF Release, MirrorOK, CallsOK
<1>4. CASE SuspendForReset
  <2>1. Sound(tab', revoked)
    BY <1>4 DEF SuspendForReset, Sound, Honest, Quiet, Down, Fields
  <2> QED BY <1>4, <2>1 DEF SuspendForReset, MirrorOK, CallsOK
<1>5. CASE Drained
  <2>1. Sound(tab', revoked)
    BY <1>5 DEF Drained, Sound, Honest, Quiet, Down, Fields
  <2> QED BY <1>5, <2>1 DEF Drained, MirrorOK, CallsOK
<1>6. CASE Forget
  BY <1>6, DropLeaseSound DEF Forget, MirrorOK, CallsOK
<1>7. CASE Reload
  <2>1. Sound(tab', revoked)
    BY <1>7, BootSound DEF Reload, MirrorOK
  <2>2. CallsOK'
    BY <1>7, IdleOK DEF Reload, CallsOK
  <2> QED BY <1>7, <2>1, <2>2 DEF Reload, MirrorOK
<1>8. CASE \E l \in Leases : Expire(l)
  BY <1>8 DEF Expire, MirrorOK, CallsOK
<1> QED BY <1>1, <1>2, <1>3, <1>4, <1>5, <1>6, <1>7, <1>8

LEMMA IInvStep ==
  ASSUME ~PrincipalYields, IInv, [Next]_vars
  PROVE  IInv'
<1>1. CASE Next
  BY <1>1, StartKeeps, RespondKeeps, SurroundingsKeep DEF Next
<1>2. CASE UNCHANGED vars
  BY <1>2 DEF vars, IInv, CallsOK, MirrorOK
<1> QED BY <1>1, <1>2

\* "No auto-relogin until the next explicit login", and no storage operation
\* once a reset has drained them (keys.ts:165, :274): for any calls, leases and
\* pairs, whatever fails, expires or reloads, if principal() answers at once.
THEOREM LeaseIsDown ==
  ASSUME ~PrincipalYields
  PROVE  Spec => []LeaseStaysDown
<1>1. IInv /\ [Next]_vars => IInv'
  BY IInvStep
<1>2. IInv => LeaseStaysDown
  BY DEF IInv, Sound, Quiet, Down, LeaseStaysDown, NoAutoRelogin, DrainedIsQuiet
<1> QED BY <1>1, <1>2, InitIInv, PTL DEF Spec
=============================================================================
