-------------------------- MODULE CommandAuthProofs --------------------------
(***************************************************************************)
(* Proofs about CommandAuth, for any matchers, events, price, limit and    *)
(* number of reloads.                                                      *)
(***************************************************************************)
EXTENDS CommandAuth, FiniteSetTheorems, TLAPS

(* The matcher r lost the slot of its event to another matcher. *)
Displaced(r) ==
    \E s \in Runs \ {r} : /\ EventOf[s] = EventOf[r]
                          /\ limitRec[s] # "none" \/ goldRec[s] # "none"

(* What the records of a run can be, by where the run is. *)
RecordsFit ==
    \A r \in Runs :
        /\ phase[r] \in {"waiting", "policy", "limits"} =>
               limitRec[r] = "none" /\ goldRec[r] = "none"
        /\ phase[r] \in {"gold", "deducted"} =>
               limitRec[r] \in {"none", "reserved"} /\ goldRec[r] = "none"
        /\ phase[r] = "authed" =>
               limitRec[r] \in {"none", "reserved"} /\ goldRec[r] \in {"none", "reserved"}
        /\ phase[r] = "refund" =>
               limitRec[r] \in {"none", "released"} /\ goldRec[r] = "reserved"
        /\ phase[r] = "refused" =>
               limitRec[r] \in {"none", "released"} /\ goldRec[r] = "none"
        /\ phase[r] = "deducted" \/ goldRec[r] # "none" => fee[r] = Price

(* A run with something to settle owns the slot or has lost it. *)
SlotFits ==
    \A r \in Runs :
        "reserved" \in {limitRec[r], goldRec[r]} =>
            /\ phase[r] = "authed" => Owner(r) \/ Displaced(r)
            /\ phase[r] = "ended" => Displaced(r)

(* The uses that stand were counted by the limiters in force. *)
UsesFit ==
    \A r \in uses : limitRec[r] \in {"reserved", "committed"} /\ madeIn[r] = version

LEMMA Assumptions ==
    /\ IsFiniteSet(Runs)
    /\ EventOf \in [Runs -> Events]
    /\ Price \in Nat \ {0}
    /\ StartGold \in Nat
    /\ MaxCount \in Nat \ {0}
    /\ MaxTurns \in Nat
    /\ None \notin Runs
BY AuthAssumption

--------------------------------------------------------------------------------
LEMMA TypeInit == Init => TypeOK
<1> SUFFICES ASSUME Init PROVE TypeOK
    OBVIOUS
<1>1. oldCount \in [Runs -> 0 .. MaxCount - 1] /\ madeIn \in [Runs -> 0 .. version]
  BY Assumptions DEF Init
<1>2. /\ count \in 0 .. MaxCount /\ version \in 0 .. MaxTurns /\ days \in 0 .. MaxTurns
      /\ gold \in Nat /\ lost \in Nat
  BY Assumptions DEF Init
<1>3. cooling \in BOOLEAN /\ blocked \in BOOLEAN /\ newDay \in BOOLEAN /\ exact \in BOOLEAN
  BY DEF Init
<1>4. /\ phase \in [Runs -> Phases] /\ fee \in [Runs -> {0, Price}]
      /\ limitRec \in [Runs -> RecordStates] /\ goldRec \in [Runs -> RecordStates]
  BY DEF Init, Phases, RecordStates
<1>5. /\ lock \in [Events -> Runs \cup {None}] /\ slot \in [Events -> Runs \cup {None}]
      /\ result \in [Events -> {"none", "allow", "skip"}]
      /\ lifted \subseteq Runs /\ uses \subseteq Runs
  BY DEF Init
<1> QED
  BY <1>1, <1>2, <1>3, <1>4, <1>5 DEF TypeOK

LEMMA UnblockTypes ==
    ASSUME TypeOK, NEW by, Unblock(by)
    PROVE  blocked' \in BOOLEAN /\ lifted' \subseteq Runs
BY DEF TypeOK, Unblock, Inside

LEMMA ReleaseTypes ==
    ASSUME TypeOK, NEW r \in Runs, ReleaseCooldownAndCount(r)
    PROVE  /\ cooling' \in BOOLEAN /\ newDay' \in BOOLEAN /\ exact' \in BOOLEAN
           /\ count' \in 0 .. MaxCount
           /\ uses' \subseteq Runs
<1>1. CASE limitRec[r] = "reserved" /\ madeIn[r] = version
  <2> RestoreCount(r) /\ cooling' = FALSE
    BY <1>1 DEF ReleaseCooldownAndCount
  <2>1. exact' \in BOOLEAN
    BY DEF RestoreCount
  <2>2. cooling' \in BOOLEAN /\ newDay' \in BOOLEAN
    BY DEF RestoreCount, TypeOK
  <2>3. count' \in 0 .. MaxCount
    BY Assumptions DEF RestoreCount, TypeOK
  <2> QED
    BY <2>1, <2>2, <2>3 DEF RestoreCount, TypeOK
<1>2. CASE ~(limitRec[r] = "reserved" /\ madeIn[r] = version)
  BY <1>2 DEF ReleaseCooldownAndCount, TypeOK, counter
<1> QED
  BY <1>1, <1>2

LEMMA ReleasedTypes ==
    ASSUME TypeOK, NEW r \in Runs
    PROVE  Released(limitRec, r) \in [Runs -> RecordStates]
BY DEF TypeOK, Released, RecordStates

LEMMA TypeStep == TypeOK /\ [Next]_vars => TypeOK'
<1> SUFFICES ASSUME TypeOK, [Next]_vars PROVE TypeOK'
    OBVIOUS
<1> USE Assumptions DEF TypeOK, Phases, RecordStates, Goto, Decide
<1>1. ASSUME NEW r \in Runs, Authorise(r) PROVE TypeOK'
  <2> USE DEF records, cache, limits, counter, Unblock, Inside
  <2>1. ASSUME Skip(r) PROVE TypeOK'
    <3>1. blocked' \in BOOLEAN /\ lifted' \subseteq Runs
      BY <2>1, UnblockTypes DEF Skip
    <3>2. /\ cooling' \in BOOLEAN /\ newDay' \in BOOLEAN /\ exact' \in BOOLEAN
          /\ count' \in 0 .. MaxCount /\ uses' \subseteq Runs
      BY <2>1, ReleaseTypes DEF Skip
    <3>3. limitRec' \in [Runs -> RecordStates]
      BY <2>1, ReleasedTypes DEF Skip
    <3> QED
      BY <2>1, <3>1, <3>2, <3>3 DEF Skip
  <2>2. CASE Enter(r)
    BY <2>2 DEF Enter
  <2>3. CASE CachedAllow(r)
    BY <2>3 DEF CachedAllow
  <2>4. CASE Exempt(r)
    BY <2>4 DEF Exempt
  <2>5. CASE Resolve(r)
    BY <2>5 DEF Resolve
  <2>6. CASE Reserve(r)
    <3>1. exact' \in BOOLEAN /\ cooling' \in BOOLEAN /\ blocked' \in BOOLEAN
      BY <2>6 DEF Reserve
    <3>2. Counted \in 0 .. MaxCount - 1
      BY <2>6 DEF Reserve, Allowed, Counted
    <3>3. count' \in 0 .. MaxCount /\ oldCount' \in [Runs -> 0 .. MaxCount - 1]
      BY <2>6, <3>2 DEF Reserve
    <3>4. madeIn' \in [Runs -> 0 .. version']
      BY <2>6 DEF Reserve
    <3>5. newDay' \in BOOLEAN /\ uses' \subseteq Runs
      BY <2>6 DEF Reserve
    <3> QED
      BY <2>6, <3>1, <3>3, <3>4, <3>5 DEF Reserve
  <2>7. CASE Unlimited(r)
    BY <2>7 DEF Unlimited
  <2>8. CASE AuthFree(r)
    BY <2>8 DEF AuthFree
  <2>9. CASE Deduct(r)
    BY <2>9 DEF Deduct
  <2>10. CASE AuthPaid(r)
    BY <2>10 DEF AuthPaid
  <2>11. CASE AuthFails(r)
    <3>1. blocked' \in BOOLEAN /\ lifted' \subseteq Runs
      BY <2>11, UnblockTypes DEF AuthFails, ReleaseBlock
    <3>2. /\ cooling' \in BOOLEAN /\ newDay' \in BOOLEAN /\ exact' \in BOOLEAN
          /\ count' \in 0 .. MaxCount /\ uses' \subseteq Runs
      BY <2>11, ReleaseTypes DEF AuthFails
    <3>3. limitRec' \in [Runs -> RecordStates] /\ lost' \in Nat
      BY <2>11, ReleasedTypes DEF AuthFails
    <3>4. result' \in [Events -> {"none", "allow", "skip"}]
      BY <2>11 DEF AuthFails
    <3> QED
      BY <2>11, <3>1, <3>2, <3>3, <3>4 DEF AuthFails
  <2> QED
    BY <1>1, <2>1, <2>2, <2>3, <2>4, <2>5, <2>6, <2>7, <2>8, <2>9, <2>10, <2>11
    DEF Authorise, CachedSkip, Deny, Limited, Insufficient
<1>2. ASSUME NEW r \in Runs, Ignore(r) PROVE TypeOK'
  BY <1>2 DEF Ignore, records, limits, counter
<1>3. ASSUME NEW r \in Runs, Settle(r) PROVE TypeOK'
  <2> USE DEF records, cache, counter, Unblock, Inside
  <2>1. CASE Commit(r)
    BY <2>1 DEF Commit, TakeSlot, Passed
  <2>2. CASE Rollback(r)
    <3>1. blocked' \in BOOLEAN /\ lifted' \subseteq Runs
      BY <2>2, UnblockTypes DEF Rollback, ReleaseBlock
    <3>2. /\ cooling' \in BOOLEAN /\ newDay' \in BOOLEAN /\ exact' \in BOOLEAN
          /\ count' \in 0 .. MaxCount /\ uses' \subseteq Runs
      BY <2>2, ReleaseTypes DEF Rollback
    <3>3. limitRec' \in [Runs -> RecordStates]
      BY <2>2, ReleasedTypes DEF Rollback
    <3>4. phase' \in [Runs -> Phases]
      BY <2>2 DEF Rollback
    <3> QED
      BY <2>2, <3>1, <3>2, <3>3, <3>4 DEF Rollback, TakeSlot
  <2>3. CASE Refund(r)
    <3>1. blocked' \in BOOLEAN /\ lifted' \subseteq Runs
      BY <2>3, UnblockTypes DEF Refund
    <3>2. gold' \in Nat
      BY <2>3 DEF Refund
    <3> QED
      BY <2>3, <3>1, <3>2 DEF Refund, Settled
  <2>4. CASE RefundFails(r)
    <3> gold' \in Nat /\ lost' \in Nat
      BY <2>4 DEF RefundFails
    <3> QED
      BY <2>4 DEF RefundFails, Settled
  <2>5. CASE Bystander(r)
    BY <2>5 DEF Bystander
  <2>6. CASE CommitStopped(r)
    BY <2>6 DEF CommitStopped, TakeSlot, limits
  <2> QED
    BY <1>3, <2>1, <2>2, <2>3, <2>4, <2>5, <2>6 DEF Settle
<1>4. CASE CooldownOver
  BY <1>4 DEF CooldownOver, records, cache, counter
<1>5. CASE BlockTimesOut
  BY <1>5 DEF BlockTimesOut, records, cache, counter, Unblock, Inside
<1>6. CASE Midnight
  BY <1>6 DEF Midnight, records, cache
<1>7. CASE Reload
  <2>1. blocked' \in BOOLEAN /\ lifted' \subseteq Runs
    BY <1>7, UnblockTypes DEF Reload
  <2>2. /\ version' \in 0 .. MaxTurns /\ madeIn' \in [Runs -> 0 .. version']
        /\ count' \in 0 .. MaxCount
    BY <1>7 DEF Reload, records
  <2>3. exact' \in BOOLEAN /\ newDay' \in BOOLEAN /\ cooling' \in BOOLEAN
    BY <1>7 DEF Reload
  <2> QED
    BY <1>7, <2>1, <2>2, <2>3 DEF Reload, records, cache
<1>8. CASE UNCHANGED vars
  BY <1>8 DEF vars, records, cache, limits, counter
<1> QED
  BY <1>1, <1>2, <1>3, <1>4, <1>5, <1>6, <1>7, <1>8 DEF Next

--------------------------------------------------------------------------------
(* The lock of an event and the chain. *)
LEMMA LockInit == Init => LockIsHeld
BY Assumptions DEF Init, LockIsHeld, InChain

(* Stated for one run at a time, the form the steps preserve. *)
LockFits ==
    /\ \A r \in Runs : InChain(r) => lock[EventOf[r]] = r
    /\ \A e \in Events : lock[e] # None => InChain(lock[e]) /\ EventOf[lock[e]] = e

LEMMA LockFitsIsHeld == TypeOK => (LockFits <=> LockIsHeld)
<1> SUFFICES ASSUME TypeOK PROVE LockFits <=> LockIsHeld
    OBVIOUS
<1>1. ASSUME LockFits PROVE LockIsHeld
  BY <1>1, Assumptions DEF LockFits, LockIsHeld, TypeOK
<1>2. ASSUME LockIsHeld PROVE LockFits
  BY <1>2, Assumptions DEF LockFits, LockIsHeld, TypeOK
<1> QED
  BY <1>1, <1>2

LEMMA LockStep == TypeOK /\ LockFits /\ [Next]_vars => LockFits'
<1> SUFFICES ASSUME TypeOK, LockFits, [Next]_vars PROVE LockFits'
    OBVIOUS
<1> USE Assumptions DEF TypeOK, LockFits, InChain, Goto
<1>1. ASSUME NEW r \in Runs, Authorise(r) PROVE LockFits'
  <2>1. ASSUME InChain(r) \/ lock[EventOf[r]] = None, Decide(r, "skip"), Goto(r, "refused")
        PROVE  LockFits'
    BY <2>1 DEF Decide
  <2>2. CASE Enter(r)
    BY <2>2 DEF Enter
  <2>3. CASE CachedAllow(r)
    BY <2>3 DEF CachedAllow, cache
  <2>4. CASE Exempt(r)
    BY <2>4 DEF Exempt, Decide
  <2>5. CASE Resolve(r)
    BY <2>5 DEF Resolve, cache
  <2>6. CASE Reserve(r)
    BY <2>6 DEF Reserve, cache
  <2>7. CASE Unlimited(r)
    BY <2>7 DEF Unlimited, cache
  <2>8. CASE AuthFree(r)
    BY <2>8 DEF AuthFree, Decide
  <2>9. CASE Deduct(r)
    BY <2>9 DEF Deduct, cache
  <2>10. CASE AuthPaid(r)
    BY <2>10 DEF AuthPaid, Decide
  <2>11. CASE AuthFails(r)
    BY <2>11 DEF AuthFails, Decide
  <2> QED
    BY <1>1, <2>1, <2>2, <2>3, <2>4, <2>5, <2>6, <2>7, <2>8, <2>9, <2>10, <2>11
    DEF Authorise, CachedSkip, Deny, Limited, Insufficient, Skip
<1>2. ASSUME NEW r \in Runs, Ignore(r) PROVE LockFits'
  BY <1>2 DEF Ignore, Decide
<1>3. ASSUME NEW r \in Runs, Settle(r) PROVE LockFits'
  <2>1. lock' = lock /\ ~InChain(r)
    BY <1>3
    DEF Settle, Commit, CommitStopped, Rollback, Refund, RefundFails, Bystander, Settled, cache
  <2>2. \E to \in {"refund", "ended", "ignored"} : phase' = [phase EXCEPT ![r] = to]
    BY <1>3 DEF Settle, Commit, CommitStopped, Rollback, Refund, RefundFails, Bystander, Settled
  <2> QED
    BY <2>1, <2>2
<1>4. CASE UNCHANGED <<phase, lock>>
  BY <1>4
<1> QED
  BY <1>1, <1>2, <1>3, <1>4
  DEF Next, CooldownOver, BlockTimesOut, Midnight, Reload, vars, cache

--------------------------------------------------------------------------------
(* The records of a run and the slot of its event. *)
LEMMA RecordsInit == Init => RecordsFit /\ SlotFits /\ UsesFit
BY DEF Init, RecordsFit, SlotFits, UsesFit

LEMMA RecordsStep == TypeOK /\ RecordsFit /\ [Next]_vars => RecordsFit'
<1> SUFFICES ASSUME TypeOK, RecordsFit, [Next]_vars PROVE RecordsFit'
    OBVIOUS
<1> USE Assumptions DEF TypeOK, RecordsFit, Goto, RecordStates, Phases
<1>1. ASSUME NEW r \in Runs, Authorise(r) PROVE RecordsFit'
  <2>1. ASSUME Skip(r), phase[r] \in {"waiting", "policy", "limits", "gold"}
        PROVE  RecordsFit'
    BY <2>1 DEF Skip, Released
  <2>2. CASE Enter(r)
    BY <2>2 DEF Enter, records
  <2>3. CASE CachedAllow(r)
    BY <2>3 DEF CachedAllow, records
  <2>4. CASE Exempt(r)
    BY <2>4 DEF Exempt, records
  <2>5. CASE Resolve(r)
    BY <2>5 DEF Resolve
  <2>6. CASE Reserve(r)
    BY <2>6 DEF Reserve
  <2>7. CASE Unlimited(r)
    BY <2>7 DEF Unlimited, records
  <2>8. CASE AuthFree(r)
    BY <2>8 DEF AuthFree, records
  <2>9. CASE Deduct(r)
    BY <2>9 DEF Deduct, records
  <2>10. CASE AuthPaid(r)
    BY <2>10 DEF AuthPaid
  <2>11. CASE AuthFails(r)
    BY <2>11 DEF AuthFails, Released
  <2> QED
    BY <1>1, <2>1, <2>2, <2>3, <2>4, <2>5, <2>6, <2>7, <2>8, <2>9, <2>10, <2>11
    DEF Authorise, CachedSkip, Deny, Limited, Insufficient
<1>2. ASSUME NEW r \in Runs, Ignore(r) PROVE RecordsFit'
  BY <1>2 DEF Ignore, records
<1>3. ASSUME NEW r \in Runs, Settle(r) PROVE RecordsFit'
  <2>1. CASE Commit(r)
    BY <2>1 DEF Commit, Passed
  <2>2. CASE Rollback(r)
    BY <2>2 DEF Rollback, Released
  <2>3. CASE Refund(r) \/ RefundFails(r)
    BY <2>3 DEF Refund, RefundFails, Settled
  <2>4. CASE Bystander(r) \/ CommitStopped(r)
    BY <2>4 DEF Bystander, CommitStopped, records
  <2> QED
    BY <1>3, <2>1, <2>2, <2>3, <2>4 DEF Settle
<1>4. CASE UNCHANGED <<phase, records>>
  BY <1>4 DEF records
<1> QED
  BY <1>1, <1>2, <1>3, <1>4 DEF Next, CooldownOver, BlockTimesOut, Midnight, Reload, vars

LEMMA RecordsStay ==
    ASSUME TypeOK, RecordsFit, [Next]_vars, NEW s \in Runs
    PROVE  /\ limitRec[s] # "none" => limitRec'[s] # "none"
           /\ goldRec[s] # "none" => goldRec'[s] # "none"
<1> USE Assumptions DEF TypeOK, RecordStates, Released, Passed
<1>1. CASE \E r \in Runs : Authorise(r)
  <2>1. CASE UNCHANGED <<limitRec, goldRec>>
    BY <2>1
  <2>2. CASE \E r \in Runs : /\ limitRec' = Released(limitRec, r) /\ goldRec' = goldRec
    BY <2>2
  <2>3. CASE \E r \in Runs : Reserve(r) \/ AuthPaid(r)
    BY <2>3 DEF Reserve, AuthPaid
  <2> QED
    BY <1>1, <2>1, <2>2, <2>3
    DEF Authorise, Enter, CachedAllow, CachedSkip, Exempt, Deny, Resolve, Limited, Unlimited,
        AuthFree, Deduct, Insufficient, AuthFails, Skip, records
<1>2. CASE \E r \in Runs : Settle(r)
  BY <1>2
  DEF Settle, Commit, CommitStopped, Rollback, Refund, RefundFails, Bystander, Settled, records
<1>3. CASE UNCHANGED records
  BY <1>3 DEF records
<1> QED
  BY <1>1, <1>2, <1>3 DEF Next, Ignore, CooldownOver, BlockTimesOut, Midnight, Reload, vars

LEMMA DisplacedStays ==
    ASSUME TypeOK, RecordsFit, [Next]_vars, NEW r \in Runs, Displaced(r)
    PROVE  Displaced(r)'
BY RecordsStay DEF Displaced

LEMMA SlotStep == TypeOK /\ RecordsFit /\ SlotFits /\ [Next]_vars => SlotFits'
<1> SUFFICES ASSUME TypeOK, RecordsFit, SlotFits, [Next]_vars,
                    NEW q \in Runs,
                    "reserved" \in {limitRec'[q], goldRec'[q]}
             PROVE  /\ phase'[q] = "authed" => Owner(q)' \/ Displaced(q)'
                    /\ phase'[q] = "ended" => Displaced(q)'
    BY DEF SlotFits
<1> USE Assumptions DEF TypeOK, RecordStates, Phases, Goto
<1>1. CASE /\ limitRec'[q] = limitRec[q] /\ goldRec'[q] = goldRec[q]
           /\ phase'[q] = phase[q] /\ slot'[EventOf[q]] = slot[EventOf[q]]
  BY <1>1, DisplacedStays DEF SlotFits, Owner
<1>2. ASSUME NEW r \in Runs, AuthFree(r) \/ AuthPaid(r)
      PROVE  /\ phase'[q] = "authed" => Owner(q)' \/ Displaced(q)'
             /\ phase'[q] = "ended" => Displaced(q)'
  <2>1. CASE AuthFree(r) /\ limitRec[r] # "reserved"
    <3> q # r
      BY <2>1 DEF AuthFree, RecordsFit, records
    <3> QED
      BY <1>1, <2>1 DEF AuthFree, records
  <2>2. CASE AuthPaid(r) \/ (AuthFree(r) /\ limitRec[r] = "reserved")
    <3>0. slot' = [slot EXCEPT ![EventOf[r]] = r]
      BY <2>2 DEF AuthPaid, AuthFree
    <3>1. limitRec'[r] # "none" \/ goldRec'[r] # "none"
      BY <2>2 DEF AuthFree, AuthPaid, records
    <3>2. CASE q = r
      <4> Owner(q)' /\ phase'[q] = "authed"
        BY <2>2, <3>0, <3>2 DEF Owner, AuthPaid, AuthFree
      <4> QED
        OBVIOUS
    <3>3. CASE q # r /\ EventOf[q] = EventOf[r]
      BY <3>1, <3>3 DEF Displaced
    <3>4. CASE q # r /\ EventOf[q] # EventOf[r]
      BY <1>1, <2>2, <3>0, <3>4 DEF AuthFree, AuthPaid, records
    <3> QED
      BY <3>2, <3>3, <3>4
  <2> QED
    BY <1>2, <2>1, <2>2
<1>3. ASSUME NEW r \in Runs, Authorise(r) \/ Ignore(r), ~AuthFree(r), ~AuthPaid(r)
      PROVE  /\ phase'[q] = "authed" => Owner(q)' \/ Displaced(q)'
             /\ phase'[q] = "ended" => Displaced(q)'
  <2>1. CASE q # r
    <3>1. slot' = slot /\ phase'[q] = phase[q]
      BY <1>3, <2>1 DEF Authorise, Enter, CachedAllow, CachedSkip, Exempt, Deny, Resolve,
           Reserve, Limited, Unlimited, Deduct, Insufficient, AuthFails, Skip, Ignore, cache
    <3>2. limitRec'[q] = limitRec[q] /\ goldRec'[q] = goldRec[q]
      BY <1>3, <2>1 DEF Authorise, Enter, CachedAllow, CachedSkip, Exempt, Deny, Resolve,
           Reserve, Limited, Unlimited, Deduct, Insufficient, AuthFails, Skip, Ignore,
           records, Released
    <3> QED
      BY <1>1, <3>1, <3>2
  <2>2. CASE q = r
    <3>1. CASE CachedAllow(r) \/ Exempt(r)
      BY <2>2, <3>1 DEF CachedAllow, Exempt, RecordsFit, records
    <3>2. CASE ~(CachedAllow(r) \/ Exempt(r))
      <4> phase'[q] \notin {"authed", "ended"}
        BY <1>3, <2>2, <3>2 DEF Authorise, Enter, CachedSkip, Deny, Resolve, Reserve, Limited,
             Unlimited, Deduct, Insufficient, AuthFails, Skip, Ignore
      <4> QED
        OBVIOUS
    <3> QED
      BY <3>1, <3>2
  <2> QED
    BY <2>1, <2>2
<1>4. ASSUME NEW r \in Runs, Commit(r) \/ CommitStopped(r) \/ Rollback(r)
      PROVE  /\ phase'[q] = "authed" => Owner(q)' \/ Displaced(q)'
             /\ phase'[q] = "ended" => Displaced(q)'
  <2>1. CASE q = r
    BY <1>4, <2>1 DEF Commit, CommitStopped, Rollback, Passed, Released, RecordsFit
  <2>2. CASE q # r
    <3>1. /\ limitRec'[q] = limitRec[q] /\ goldRec'[q] = goldRec[q] /\ phase'[q] = phase[q]
      BY <1>4, <2>2 DEF Commit, CommitStopped, Rollback, Passed, Released, records
    <3>2. CASE EventOf[q] = EventOf[r]
      <4> ~Owner(q)
        BY <1>4, <2>2, <3>2 DEF Commit, CommitStopped, Rollback, Owner
      <4> QED
        BY <3>1, DisplacedStays DEF SlotFits
    <3>3. CASE EventOf[q] # EventOf[r]
      BY <1>1, <1>4, <3>1, <3>3 DEF Commit, CommitStopped, Rollback, TakeSlot
    <3> QED
      BY <3>2, <3>3
  <2> QED
    BY <2>1, <2>2
<1>5. ASSUME NEW r \in Runs, Refund(r) \/ RefundFails(r) \/ Bystander(r)
      PROVE  /\ phase'[q] = "authed" => Owner(q)' \/ Displaced(q)'
             /\ phase'[q] = "ended" => Displaced(q)'
  <2>1. CASE q # r
    BY <1>1, <1>5, <2>1 DEF Refund, RefundFails, Bystander, Settled, records, cache
  <2>2. CASE q = r /\ Bystander(r)
    <3> Displaced(q) /\ phase'[q] = "ended"
      BY <2>2 DEF Bystander, SlotFits, records
    <3> QED
      BY DisplacedStays
  <2>3. CASE q = r /\ (Refund(r) \/ RefundFails(r))
    BY <2>3 DEF Refund, RefundFails, Settled, RecordsFit
  <2> QED
    BY <1>5, <2>1, <2>2, <2>3
<1>6. CASE UNCHANGED <<phase, records, slot>>
  BY <1>1, <1>6 DEF records
<1> QED
  BY <1>2, <1>3, <1>4, <1>5, <1>6
  DEF Next, Settle, CooldownOver, BlockTimesOut, Midnight, Reload, vars, cache

LEMMA LeftBehind == RecordsFit /\ SlotFits => NothingLeftBehind
BY DEF RecordsFit, SlotFits, NothingLeftBehind, Displaced

--------------------------------------------------------------------------------
(* Gold.  One step moves one run in or out of Charged. *)
LEMMA ChargedFinite == IsFiniteSet(Charged) /\ Cardinality(Charged) \in Nat
<1>1. Charged \subseteq Runs
  BY DEF Charged
<1> QED
  BY <1>1, Assumptions, FS_Subset, FS_CardinalityType

LEMMA GoldInit == Init => GoldBalances
<1> SUFFICES ASSUME Init PROVE GoldBalances
    OBVIOUS
<1>1. Charged = {}
  BY DEF Init, Charged
<1> QED
  BY <1>1, FS_EmptySet, Assumptions DEF Init, GoldBalances

LEMMA GoldStep == TypeOK /\ RecordsFit /\ GoldBalances /\ [Next]_vars => GoldBalances'
<1> SUFFICES ASSUME TypeOK, RecordsFit, GoldBalances, [Next]_vars PROVE GoldBalances'
    OBVIOUS
<1>1. CASE Charged' = Charged /\ gold' = gold /\ lost' = lost
  BY <1>1 DEF GoldBalances
<1>2. ASSUME NEW r \in Runs, r \notin Charged, Charged' = Charged \cup {r},
             gold' = gold - Price, lost' = lost
      PROVE  GoldBalances'
  <2>1. Cardinality(Charged') = Cardinality(Charged) + 1
    BY <1>2, ChargedFinite, FS_AddElement
  <2> QED
    BY <1>2, <2>1, ChargedFinite, Assumptions DEF GoldBalances, TypeOK
<1>3. ASSUME NEW r \in Runs, r \in Charged, Charged' = Charged \ {r},
             \/ (gold' = gold + Price /\ lost' = lost)
             \/ (gold' = gold /\ lost' = lost + 1)
      PROVE  GoldBalances'
  <2> DEFINE n == Cardinality(Charged)
  <2>1. Cardinality(Charged') = n - 1
    BY <1>3, ChargedFinite, FS_RemoveElement
  <2>2. Price * (n - 1 + lost) = Price * (n + lost) - Price
    BY ChargedFinite, Assumptions DEF TypeOK
  <2>3. CASE gold' = gold + Price /\ lost' = lost
    BY <2>1, <2>2, <2>3, ChargedFinite, Assumptions DEF GoldBalances, TypeOK
  <2>4. CASE gold' = gold /\ lost' = lost + 1
    <3> n - 1 + (lost + 1) = n + lost
      BY ChargedFinite DEF TypeOK
    <3> QED
      BY <2>1, <2>4 DEF GoldBalances
  <2> QED
    BY <1>3, <2>3, <2>4
<1> USE Assumptions DEF TypeOK, RecordStates, Phases, Charged, Goto
<1>4. ASSUME NEW r \in Runs, Authorise(r) PROVE GoldBalances'
  <2>1. ASSUME Skip(r), phase[r] \in {"waiting", "policy", "limits", "gold"}
        PROVE  GoldBalances'
    BY <1>1, <2>1 DEF Skip
  <2>2. CASE Deduct(r)
    BY <1>2, <2>2 DEF Deduct, RecordsFit, records
  <2>3. CASE AuthPaid(r)
    BY <1>1, <2>3 DEF AuthPaid
  <2>4. CASE AuthFails(r) /\ phase[r] = "deducted"
    BY <1>3, <2>4 DEF AuthFails, RecordsFit
  <2>5. CASE AuthFails(r) /\ phase[r] # "deducted"
    BY <1>1, <2>5 DEF AuthFails
  <2>6. CASE \/ Enter(r) \/ CachedAllow(r) \/ Exempt(r) \/ Resolve(r) \/ Reserve(r)
             \/ Unlimited(r) \/ AuthFree(r)
    <3>1. goldRec' = goldRec /\ gold' = gold /\ lost' = lost
      BY <2>6 DEF Enter, CachedAllow, Exempt, Resolve, Reserve, Unlimited, AuthFree, records
    <3>2. \E to \in Phases \ {"deducted"} : phase' = [phase EXCEPT ![r] = to]
      BY <2>6 DEF Enter, CachedAllow, Exempt, Resolve, Reserve, Unlimited, AuthFree
    <3>3. phase[r] # "deducted"
      BY <2>6 DEF Enter, CachedAllow, Exempt, Resolve, Reserve, Unlimited, AuthFree
    <3> QED
      BY <1>1, <3>1, <3>2, <3>3
  <2> QED
    BY <1>4, <2>1, <2>2, <2>3, <2>4, <2>5, <2>6
    DEF Authorise, CachedSkip, Deny, Limited, Insufficient
<1>5. ASSUME NEW r \in Runs, Ignore(r) PROVE GoldBalances'
  <2>1. CASE phase[r] = "deducted"
    BY <1>3, <1>5, <2>1 DEF Ignore, RecordsFit, records
  <2>2. CASE phase[r] # "deducted"
    BY <1>1, <1>5, <2>2 DEF Ignore, records
  <2> QED
    BY <2>1, <2>2
<1>6. ASSUME NEW r \in Runs, Settle(r) PROVE GoldBalances'
  <2>1. CASE Commit(r)
    BY <1>1, <2>1 DEF Commit, Passed
  <2>2. CASE Rollback(r)
    BY <1>1, <2>2 DEF Rollback
  <2>3. CASE Refund(r)
    BY <1>3, <2>3 DEF Refund, Settled, RecordsFit
  <2>4. CASE RefundFails(r)
    BY <1>3, <2>4 DEF RefundFails, Settled, RecordsFit
  <2>5. CASE Bystander(r) \/ CommitStopped(r)
    BY <1>1, <2>5 DEF Bystander, CommitStopped, records
  <2> QED
    BY <1>6, <2>1, <2>2, <2>3, <2>4, <2>5 DEF Settle
<1>7. CASE UNCHANGED <<phase, records, gold, lost>>
  BY <1>1, <1>7 DEF records
<1> QED
  BY <1>4, <1>5, <1>6, <1>7 DEF Next, CooldownOver, BlockTimesOut, Midnight, Reload, vars

--------------------------------------------------------------------------------
(* The block. *)
BlockFits ==
    /\ \A a, b \in Inside \ lifted : a = b
    /\ Inside \subseteq lifted \/ blocked

LEMMA BlockFitsIsExclusive == BlockFits => BlockIsExclusive
<1> SUFFICES ASSUME BlockFits PROVE Cardinality(Inside \ lifted) <= 1
    BY DEF BlockFits, BlockIsExclusive
<1> DEFINE S == Inside \ lifted
<1>1. S = {} \/ \E a : S = {a}
  BY DEF BlockFits
<1>2. Cardinality(S) = 0 \/ Cardinality(S) = 1
  <2> HIDE DEF S
  <2> QED
    BY <1>1, FS_EmptySet, FS_Singleton
<1> QED
  BY <1>2

(* A step that lifts the block leaves nobody in it but the lifted. *)
LEMMA UnblockClears ==
    ASSUME NEW by, Unblock(by), Inside' \subseteq Inside, by \notin Inside'
    PROVE  BlockFits'
BY DEF Unblock, BlockFits

LEMMA InsideShrinks ==
    ASSUME BlockFits, Inside' \subseteq Inside, UNCHANGED <<blocked, lifted>>
    PROVE  BlockFits'
BY DEF BlockFits

LEMMA BlockStep == TypeOK /\ RecordsFit /\ BlockFits /\ [Next]_vars => BlockFits'
<1> SUFFICES ASSUME TypeOK, RecordsFit, BlockFits, [Next]_vars PROVE BlockFits'
    OBVIOUS
<1> USE Assumptions DEF TypeOK, RecordStates, Phases, Goto
<1>1. ASSUME NEW r \in Runs, Authorise(r) PROVE BlockFits'
  <2>1. ASSUME Skip(r), phase[r] \in {"waiting", "policy", "limits", "gold"}
        PROVE  BlockFits'
    <3> Inside' \subseteq Inside /\ r \notin Inside'
      BY <2>1 DEF Skip, Inside, Released
    <3> QED
      BY <2>1, UnblockClears DEF Skip
  <2>2. CASE Reserve(r)
    <3>1. Inside' = Inside \cup {r} /\ Inside \subseteq lifted
      BY <2>2 DEF Reserve, Allowed, Inside, BlockFits
    <3> QED
      BY <2>2, <3>1 DEF Reserve, BlockFits
  <2>3. CASE AuthFails(r)
    <3>1. Inside' \subseteq Inside /\ r \notin Inside'
      BY <2>3 DEF AuthFails, Inside, Released
    <3> QED
      BY <2>3, <3>1, UnblockClears, InsideShrinks DEF AuthFails, ReleaseBlock
  <2>4. CASE \/ Enter(r) \/ CachedAllow(r) \/ Exempt(r) \/ Resolve(r) \/ Unlimited(r)
             \/ AuthFree(r) \/ Deduct(r) \/ AuthPaid(r)
    <3>1. limitRec' = limitRec /\ UNCHANGED <<blocked, lifted>>
      BY <2>4 DEF Enter, CachedAllow, Exempt, Resolve, Unlimited, AuthFree, Deduct, AuthPaid,
                  records, limits
    <3>2. \E to \in Phases : phase' = [phase EXCEPT ![r] = to]
      BY <2>4 DEF Enter, CachedAllow, Exempt, Resolve, Unlimited, AuthFree, Deduct, AuthPaid
    <3>3. phase[r] \notin {"ignored", "ended"}
      BY <2>4 DEF Enter, CachedAllow, Exempt, Resolve, Unlimited, AuthFree, Deduct, AuthPaid
    <3>4. Inside' \subseteq Inside
      BY <3>1, <3>2, <3>3 DEF Inside
    <3> QED
      BY <3>1, <3>4, InsideShrinks
  <2> QED
    BY <1>1, <2>1, <2>2, <2>3, <2>4 DEF Authorise, CachedSkip, Deny, Limited, Insufficient
<1>2. ASSUME NEW r \in Runs, Ignore(r) PROVE BlockFits'
  <2> Inside' \subseteq Inside
    BY <1>2 DEF Ignore, Inside, records
  <2> QED
    BY <1>2, InsideShrinks DEF Ignore, limits
<1>3. ASSUME NEW r \in Runs, Settle(r) PROVE BlockFits'
  <2>1. Inside' \subseteq Inside /\ r \notin Inside'
    <3>1. CASE Commit(r)
      BY <3>1 DEF Commit, Passed, Inside
    <3>2. CASE Rollback(r)
      BY <3>2 DEF Rollback, Released, Inside
    <3>3. CASE Refund(r) \/ RefundFails(r)
      BY <3>3 DEF Refund, RefundFails, Settled, Inside, RecordsFit
    <3>4. CASE Bystander(r) \/ CommitStopped(r)
      BY <3>4 DEF Bystander, CommitStopped, records, Inside
    <3> QED
      BY <1>3, <3>1, <3>2, <3>3, <3>4 DEF Settle
  <2>2. Unblock(r) \/ UNCHANGED <<blocked, lifted>>
    BY <1>3
    DEF Settle, Commit, CommitStopped, Rollback, Refund, RefundFails, Bystander, ReleaseBlock,
        limits
  <2> QED
    BY <2>1, <2>2, UnblockClears, InsideShrinks
<1>4. CASE UNCHANGED <<phase, records>> /\ Unblock(None)
  <2> Inside' = Inside /\ None \notin Inside'
    BY <1>4 DEF Inside, records
  <2> QED
    BY <1>4, UnblockClears
<1>5. CASE UNCHANGED <<phase, records, blocked, lifted>>
  BY <1>5, InsideShrinks DEF Inside, records
<1> QED
  BY <1>1, <1>2, <1>3, <1>4, <1>5
  DEF Next, CooldownOver, BlockTimesOut, Midnight, Reload, vars, limits

--------------------------------------------------------------------------------
(* The count. *)
LEMMA UsesFinite == TypeOK => IsFiniteSet(uses) /\ Cardinality(uses) \in Nat
BY Assumptions, FS_Subset, FS_CardinalityType DEF TypeOK

(* What a release does to the uses and the count. *)
LEMMA CountReleased ==
    ASSUME TypeOK, UsesFit, CountIsExact, NEW r \in Runs, ReleaseCooldownAndCount(r),
           limitRec' = Released(limitRec, r), UNCHANGED <<madeIn, version>>
    PROVE  CountIsExact' /\ UsesFit'
<1>1. CASE limitRec[r] = "reserved" /\ madeIn[r] = version
  <2>1. RestoreCount(r)
    BY <1>1 DEF ReleaseCooldownAndCount
  <2>2. ASSUME exact' PROVE count' = Cardinality(uses')
    <3>1. exact /\ r \in uses /\ count = oldCount[r] + 1 /\ count' = oldCount[r]
          /\ uses' = uses \ {r}
      BY <2>1, <2>2 DEF RestoreCount
    <3>2. Cardinality(uses') = Cardinality(uses) - 1
      BY <3>1, UsesFinite, FS_RemoveElement
    <3> QED
      BY <3>1, <3>2, Assumptions DEF CountIsExact, TypeOK
  <2>3. count' <= MaxCount
    BY <2>1, Assumptions DEF RestoreCount, TypeOK
  <2>4. UsesFit'
    BY <2>1 DEF RestoreCount, UsesFit, Released, TypeOK
  <2> QED
    BY <2>2, <2>3, <2>4 DEF CountIsExact
<1>2. CASE ~(limitRec[r] = "reserved" /\ madeIn[r] = version)
  <2>1. UNCHANGED counter
    BY <1>2 DEF ReleaseCooldownAndCount
  <2>2. CountIsExact'
    BY <2>1 DEF CountIsExact, counter
  <2>3. UsesFit'
    BY <1>2, <2>1 DEF UsesFit, Released, counter, TypeOK
  <2> QED
    BY <2>2, <2>3
<1> QED
  BY <1>1, <1>2

LEMMA CountStep ==
    TypeOK /\ RecordsFit /\ UsesFit /\ CountIsExact /\ [Next]_vars => UsesFit' /\ CountIsExact'
<1> SUFFICES ASSUME TypeOK, RecordsFit, UsesFit, CountIsExact, [Next]_vars
             PROVE  UsesFit' /\ CountIsExact'
    OBVIOUS
<1>1. CASE UNCHANGED <<limitRec, madeIn, version, counter>>
  BY <1>1 DEF UsesFit, CountIsExact, counter
<1>2. CASE \E r \in Runs : /\ ReleaseCooldownAndCount(r)
                           /\ limitRec' = Released(limitRec, r)
                           /\ UNCHANGED <<madeIn, version>>
  BY <1>2, CountReleased
<1>3. ASSUME NEW r \in Runs, Reserve(r) PROVE UsesFit' /\ CountIsExact'
  <2>1. r \notin uses
    BY <1>3 DEF Reserve, RecordsFit, UsesFit
  <2>2. UsesFit'
    BY <1>3 DEF Reserve, UsesFit, TypeOK
  <2>3. CASE newDay
    <3>1. uses' = {r} /\ count' = 1
      BY <1>3, <2>3 DEF Reserve, Counted
    <3> QED
      BY <2>2, <3>1, FS_Singleton, Assumptions DEF CountIsExact
  <2>4. CASE ~newDay
    <3>1. /\ uses' = uses \cup {r} /\ count' = count + 1 /\ exact' = exact
          /\ count < MaxCount
      BY <1>3, <2>4 DEF Reserve, Counted, Allowed, TypeOK
    <3>2. Cardinality(uses') = Cardinality(uses) + 1
      BY <2>1, <3>1, UsesFinite, FS_AddElement
    <3> QED
      BY <2>2, <3>1, <3>2, Assumptions DEF CountIsExact, TypeOK
  <2> QED
    BY <2>3, <2>4
<1>4. CASE Reload
  <2> uses' = {} /\ count' = 0
    BY <1>4 DEF Reload
  <2> QED
    BY FS_EmptySet, Assumptions DEF UsesFit, CountIsExact
<1>5. CASE Midnight
  BY <1>5 DEF Midnight, UsesFit, CountIsExact, records
<1>6. ASSUME NEW r \in Runs, Commit(r) PROVE UsesFit' /\ CountIsExact'
  <2>1. UNCHANGED <<madeIn, version, counter>>
    BY <1>6 DEF Commit
  <2>2. UsesFit'
    BY <1>6, <2>1 DEF Commit, UsesFit, Passed, counter, TypeOK
  <2> QED
    BY <2>1, <2>2 DEF CountIsExact, counter
<1>7. ASSUME NEW r \in Runs, Authorise(r) \/ Ignore(r) PROVE UsesFit' /\ CountIsExact'
  BY <1>1, <1>2, <1>3, <1>7
  DEF Authorise, Enter, CachedAllow, CachedSkip, Exempt, Deny, Resolve, Limited, Unlimited,
      AuthFree, Deduct, Insufficient, AuthPaid, AuthFails, Skip, Ignore, records, limits
<1>8. ASSUME NEW r \in Runs, Settle(r) PROVE UsesFit' /\ CountIsExact'
  BY <1>1, <1>2, <1>6, <1>8
  DEF Settle, CommitStopped, Rollback, Refund, RefundFails, Bystander, Settled, records, limits
<1>9. CASE CooldownOver \/ BlockTimesOut \/ UNCHANGED vars
  BY <1>1, <1>9 DEF CooldownOver, BlockTimesOut, vars, records, limits
<1> QED
  BY <1>4, <1>5, <1>7, <1>8, <1>9 DEF Next

--------------------------------------------------------------------------------
(* The inductive invariant. *)
Inductive ==
    /\ TypeOK /\ LockFits /\ RecordsFit /\ SlotFits /\ UsesFit
    /\ GoldBalances /\ BlockFits /\ CountIsExact

\* Types, lock, records, slots, uses, gold, block and count, together (the stages of
\* auth_pipeline.py and _unblock_after_matcher).
THEOREM InductiveInvariant == Spec => []Inductive
<1>1. Init => Inductive
  <2> SUFFICES ASSUME Init PROVE Inductive
      OBVIOUS
  <2>1. LockFits
    BY LockInit, TypeInit, LockFitsIsHeld
  <2>2. BlockFits
    BY DEF Init, BlockFits, Inside
  <2>3. CountIsExact
    BY FS_EmptySet, Assumptions DEF Init, CountIsExact
  <2> QED
    BY <2>1, <2>2, <2>3, TypeInit, RecordsInit, GoldInit DEF Inductive
<1>2. Inductive /\ [Next]_vars => Inductive'
  BY TypeStep, LockStep, RecordsStep, SlotStep, GoldStep, BlockStep, CountStep DEF Inductive
<1> QED
  BY <1>1, <1>2, PTL DEF Spec

(* Every variable keeps its type: in particular the account never goes     *)
(* below zero and the count never beyond the limit, whatever the order of  *)
(* the runs, reloads and midnights.                                        *)
THEOREM TypesHold == Spec => []TypeOK
BY InductiveInvariant, PTL DEF Inductive

(* The gold that is missing from the account is the price of the runs that *)
(* hold or paid a fee, and of those an error hit between the transaction   *)
(* and its record (GoldReservation).                                       *)
THEOREM GoldIsAccounted == Spec => []GoldBalances
BY InductiveInvariant, PTL DEF Inductive

(* Two runs are inside the block together only when somebody lifted the    *)
(* block of one of them (UserBlockLimiter).                                *)
THEOREM BlockExcludes == Spec => []BlockIsExclusive
<1>1. Inductive => BlockIsExclusive
  BY BlockFitsIsExclusive DEF Inductive
<1> QED
  BY <1>1, InductiveInvariant, PTL

(* The count is the number of uses that stand until a rollback overwrites  *)
(* a later use (CountLimiter).                                             *)
THEOREM CountHolds == Spec => []CountIsExact
BY InductiveInvariant, PTL DEF Inductive

(* A run that is over holds nothing, unless it lost its slot to another    *)
(* matcher of its event (_unblock_after_matcher).                          *)
THEOREM RunsSettle == Spec => []NothingLeftBehind
<1>1. Inductive => NothingLeftBehind
  BY LeftBehind DEF Inductive
<1> QED
  BY <1>1, InductiveInvariant, PTL

(* The lock of an event is held exactly by the matcher in the chain        *)
(* (decision_log_stage).                                                   *)
THEOREM LockGivenBack == Spec => []LockIsHeld
<1>1. Inductive => LockIsHeld
  BY LockFitsIsHeld DEF Inductive
<1> QED
  BY <1>1, InductiveInvariant, PTL

=============================================================================
