----------------------------- MODULE CommandAuth -----------------------------
(***************************************************************************)
(* The permission chain around the commands of one plugin, called by one   *)
(* user in one place (builtin_plugins/hooks): the limits of the plugin     *)
(* (cooldown, block, daily count) and its price are reserved before a      *)
(* matcher runs and committed or rolled back by the postprocessor after    *)
(* it.  A run is one matcher of the plugin on one event.  The matchers of  *)
(* an event share its side-effect cache (a lock, a cached result and a     *)
(* slot for the pending commit); all runs share the limiters, which are    *)
(* module state, and the gold of the account.                              *)
(*                                                                         *)
(* `lifted', `uses', `exact' and `lost' are history: nothing reads them    *)
(* but the properties.                                                     *)
(***************************************************************************)
EXTENDS Integers, FiniteSets

CONSTANTS Runs,        \* matchers of the plugin that an event of the user selects
          Events,      \* the events
          EventOf,     \* [Runs -> Events]
          Price,       \* cost_gold of the plugin
          StartGold,   \* the account before the first run
          MaxCount,    \* max_count of the plugin's daily limit
          MaxTurns,    \* bound: reloads of the limiters and midnights together
          None         \* no run

ASSUME AuthAssumption ==
    /\ IsFiniteSet(Runs)
    /\ EventOf \in [Runs -> Events]
    /\ Price \in Nat \ {0}
    /\ StartGold \in Nat
    /\ MaxCount \in Nat \ {0}
    /\ MaxTurns \in Nat
    /\ None \notin Runs

VARIABLES phase,     \* where each run is
          fee,       \* cost_gold of the pipeline context
          limitRec,  \* state of the "limit" reservation of the run's SideEffectCommit
          goldRec,   \* state of its "gold" reservation
          oldCount,  \* old_count of the run's release_count
          madeIn,    \* the limiters its release closures act on
          lock,      \* module_locks[module] of each event
          result,    \* auth_results[module]
          slot,      \* commits[module]
          cooling,   \* FreqLimiter: next_time is still to come
          blocked,   \* UserBlockLimiter.flag_data
          count,     \* CountLimiter.count
          newDay,    \* CountLimiter.today is not today
          version,   \* which limiters LimitManager holds
          days,      \* bound counter
          gold,      \* UserConsole.gold
          lifted,    \* runs whose block somebody else removed
          uses,      \* runs counted since the count was last cleared
          exact,     \* no release has overwritten a later use since then
          lost       \* prices taken that no reservation answers for

records == <<fee, limitRec, goldRec, oldCount, madeIn>>
cache   == <<lock, result, slot>>
counter == <<count, newDay, uses, exact>>
limits  == <<cooling, blocked, lifted, counter, version, days>>
vars    == <<phase, records, cache, limits, gold, lost>>

Phases == {"waiting", "policy", "limits", "gold", "deducted", "authed",
           "refund", "refused", "ignored", "ended"}
RecordStates == {"none", "reserved", "committed", "released"}

Init ==
    /\ phase = [r \in Runs |-> "waiting"]
    /\ fee = [r \in Runs |-> 0]
    /\ limitRec = [r \in Runs |-> "none"]
    /\ goldRec = [r \in Runs |-> "none"]
    /\ oldCount = [r \in Runs |-> 0]
    /\ madeIn = [r \in Runs |-> 0]
    /\ lock = [e \in Events |-> None]
    /\ result = [e \in Events |-> "none"]
    /\ slot = [e \in Events |-> None]
    /\ cooling = FALSE /\ blocked = FALSE
    /\ count = 0 /\ newDay = TRUE /\ version = 0 /\ days = 0
    /\ gold = StartGold
    /\ lifted = {} /\ uses = {} /\ exact = TRUE /\ lost = 0

(* The runs between the reservation of their block and its end. *)
Inside == {r \in Runs : limitRec[r] = "reserved" /\ phase[r] \notin {"ignored", "ended"}}

Goto(r, to) == phase' = [phase EXCEPT ![r] = to]

(* Clears the flag, whoever set it. *)
Unblock(by) ==
    /\ blocked' = FALSE
    /\ lifted' = lifted \cup (Inside \ {by})

(* decision_log_stage: remembers what the event may do and frees its lock. *)
Decide(r, answer) ==
    LET e == EventOf[r] IN
    /\ result' = IF answer = "none" THEN result ELSE [result EXCEPT ![e] = answer]
    /\ lock' = [lock EXCEPT ![e] = None]

--------------------------------------------------------------------------------
(* Mutant: the count is left as it is. *)
RestoreNothing(r) ==
    /\ uses' = uses \ {r}
    /\ UNCHANGED <<count, exact, newDay>>

(* The release closures of a LimitReservation put back what reserve found. *)
RestoreCount(r) ==
    /\ count' = oldCount[r]
    /\ exact' = (exact /\ r \in uses /\ count = oldCount[r] + 1)
    /\ uses' = uses \ {r}
    /\ UNCHANGED newDay

(* They act on the limiters they were made for, which a reload discards.   *)
ReleaseCooldownAndCount(r) ==
    IF limitRec[r] = "reserved" /\ madeIn[r] = version
    THEN cooling' = FALSE /\ RestoreCount(r)
    ELSE UNCHANGED <<cooling, counter>>

ReleaseBlock(r) ==
    IF limitRec[r] = "reserved" /\ madeIn[r] = version
    THEN Unblock(r)
    ELSE UNCHANGED <<blocked, lifted>>

Released(rec, r) ==
    IF rec[r] = "reserved" THEN [rec EXCEPT ![r] = "released"] ELSE rec

(* Mutant: the reservations stay. *)
SkipKeeping(r) ==
    /\ Goto(r, "refused")
    /\ Decide(r, "skip")
    /\ Unblock(r)
    /\ UNCHANGED <<records, cooling, counter, slot, version, days, gold, lost>>

(* SkipPluginException: the block is lifted, then everything rolled back. *)
Skip(r) ==
    /\ Goto(r, "refused")
    /\ Decide(r, "skip")
    /\ Unblock(r)
    /\ ReleaseCooldownAndCount(r)
    /\ limitRec' = Released(limitRec, r)
    /\ UNCHANGED <<fee, goldRec, oldCount, madeIn, slot, version, days, gold, lost>>

--------------------------------------------------------------------------------
(* route_gate: the matchers of an event are authorised one after another,  *)
(* the later ones from the cached result when there is one.                *)
Enter(r) ==
    /\ phase[r] = "waiting" /\ lock[EventOf[r]] = None
    /\ result[EventOf[r]] = "none"
    /\ lock' = [lock EXCEPT ![EventOf[r]] = r]
    /\ Goto(r, "policy")
    /\ UNCHANGED <<records, result, slot, limits, gold, lost>>

CachedAllow(r) ==
    /\ phase[r] = "waiting" /\ lock[EventOf[r]] = None
    /\ result[EventOf[r]] = "allow"
    /\ Goto(r, "authed")
    /\ UNCHANGED <<records, cache, limits, gold, lost>>

CachedSkip(r) ==
    /\ phase[r] = "waiting" /\ lock[EventOf[r]] = None
    /\ result[EventOf[r]] = "skip"
    /\ Skip(r)

(* Superusers, hidden plugins, a database too slow to answer. *)
Exempt(r) ==
    /\ phase[r] = "policy"
    /\ Goto(r, "authed")
    /\ Decide(r, "allow")
    /\ UNCHANGED <<records, slot, limits, gold, lost>>

(* Bans, disabled plugins, an account that is already too small.           *)
Deny(r) == phase[r] = "policy" /\ Skip(r)

(* _resolve_cost_gold: a cost that is not known in time counts as nothing. *)
Resolve(r) ==
    /\ phase[r] = "policy"
    /\ \E cost \in {0, Price} : fee' = [fee EXCEPT ![r] = cost]
    /\ Goto(r, "limits")
    /\ UNCHANGED <<limitRec, goldRec, oldCount, madeIn, cache, limits, gold, lost>>

(* LimitManager.reserve: the three limits in turn, without an await.       *)
Counted == IF newDay THEN 0 ELSE count

(* Mutant: the block is not asked. *)
AllowedThoughBlocked == ~cooling /\ Counted < MaxCount

(* Mutant: the count is not asked. *)
AllowedUncounted == ~cooling /\ ~blocked

Allowed == ~cooling /\ ~blocked /\ Counted < MaxCount

Reserve(r) ==
    /\ phase[r] = "limits" /\ Allowed
    /\ cooling' = TRUE /\ blocked' = TRUE
    /\ count' = Counted + 1 /\ newDay' = FALSE
    /\ uses' = (IF newDay THEN {} ELSE uses) \cup {r}
    /\ exact' = (exact \/ newDay)
    /\ oldCount' = [oldCount EXCEPT ![r] = Counted]
    /\ madeIn' = [madeIn EXCEPT ![r] = version]
    /\ limitRec' = [limitRec EXCEPT ![r] = "reserved"]
    /\ Goto(r, "gold")
    /\ UNCHANGED <<fee, goldRec, cache, lifted, version, days, gold, lost>>

Limited(r) == phase[r] = "limits" /\ ~Allowed /\ Skip(r)

(* The limit hook timed out, its circuit breaker is open, or the limits     *)
(* could not be read: the chain goes on without them.                       *)
Unlimited(r) ==
    /\ phase[r] = "limits"
    /\ Goto(r, "gold")
    /\ UNCHANGED <<records, cache, limits, gold, lost>>
--------------------------------------------------------------------------------
(* side_effect_commit_stage.  The slot of the event holds one commit.      *)
AuthFree(r) ==
    /\ phase[r] = "gold" /\ fee[r] = 0
    /\ Goto(r, "authed")
    /\ IF limitRec[r] = "reserved"
       THEN /\ slot' = [slot EXCEPT ![EventOf[r]] = r]
            /\ Decide(r, "none")
       ELSE /\ UNCHANGED slot
            /\ Decide(r, "allow")
    /\ UNCHANGED <<records, limits, gold, lost>>

(* UserConsole.reserve_gold: the transaction, then the cache is dropped.   *)
Deduct(r) ==
    /\ phase[r] = "gold" /\ fee[r] > 0 /\ gold >= fee[r]
    /\ gold' = gold - fee[r]
    /\ Goto(r, "deducted")
    /\ UNCHANGED <<records, cache, limits, lost>>

Insufficient(r) ==
    /\ phase[r] = "gold" /\ fee[r] > 0 /\ gold < fee[r]
    /\ Skip(r)

AuthPaid(r) ==
    /\ phase[r] = "deducted"
    /\ goldRec' = [goldRec EXCEPT ![r] = "reserved"]
    /\ slot' = [slot EXCEPT ![EventOf[r]] = r]
    /\ Decide(r, "none")
    /\ Goto(r, "authed")
    /\ UNCHANGED <<fee, limitRec, oldCount, madeIn, limits, gold, lost>>

(* The chain fails with an error.  Once the limits have been dealt with,   *)
(* auth_allowed is set, and the event is remembered as allowed.            *)
AuthFails(r) ==
    /\ phase[r] \in {"policy", "limits", "gold", "deducted"}
    /\ phase[r] \in {"gold", "deducted"} => fee[r] > 0
    /\ Goto(r, "refused")
    /\ Decide(r, IF phase[r] \in {"gold", "deducted"} THEN "allow" ELSE "none")
    /\ ReleaseCooldownAndCount(r) /\ ReleaseBlock(r)
    /\ limitRec' = Released(limitRec, r)
    /\ lost' = IF phase[r] = "deducted" THEN lost + 1 ELSE lost
    /\ UNCHANGED <<fee, goldRec, oldCount, madeIn, slot, version, days, gold>>

(* Mutant: the lock is not given back. *)
IgnoreLocked(r) ==
    /\ phase[r] \in {"waiting", "policy", "limits", "gold", "deducted", "authed"}
    /\ Goto(r, "ignored")
    /\ lost' = IF phase[r] = "deducted" THEN lost + 1 ELSE lost
    /\ UNCHANGED <<records, cache, limits, gold>>

(* Another preprocessor ignores the matcher, or a matcher of the event that *)
(* blocks has ended: the dispatcher runs them in one task group, without a  *)
(* shield, so that the others are cancelled where they stand, in the chain  *)
(* or in their handler.  Nothing is rolled back.                            *)
Ignore(r) ==
    /\ phase[r] \in {"waiting", "policy", "limits", "gold", "deducted", "authed"}
    /\ Goto(r, "ignored")
    /\ IF phase[r] \in {"policy", "limits", "gold", "deducted"}
       THEN Decide(r, IF phase[r] \in {"gold", "deducted"} /\ limitRec[r] # "reserved"
                      THEN "allow" ELSE "none")
       ELSE UNCHANGED <<lock, result>>
    /\ lost' = IF phase[r] = "deducted" THEN lost + 1 ELSE lost
    /\ UNCHANGED <<records, slot, limits, gold>>

--------------------------------------------------------------------------------
(* _unblock_after_matcher: what the postprocessor does when the matcher    *)
(* has run.  Only the run in the slot has something to settle.             *)
Owner(r) == slot[EventOf[r]] = r

TakeSlot(r) == slot' = [slot EXCEPT ![EventOf[r]] = None]

Passed(rec, r) ==
    IF rec[r] = "reserved" THEN [rec EXCEPT ![r] = "committed"] ELSE rec

(* The gold is logged, then the limits kept. *)
Commit(r) ==
    /\ phase[r] = "authed" /\ Owner(r)
    /\ TakeSlot(r)
    /\ goldRec' = Passed(goldRec, r)
    /\ limitRec' = Passed(limitRec, r)
    /\ result' = [result EXCEPT ![EventOf[r]] = "allow"]
    /\ IF limitRec[r] = "reserved" THEN Unblock(r) ELSE UNCHANGED <<blocked, lifted>>
    /\ Goto(r, "ended")
    /\ UNCHANGED <<fee, oldCount, madeIn, lock, cooling, counter, version, days, gold, lost>>

(* The matcher is cancelled in its postprocessor, while the gold is logged. *)
CommitStopped(r) ==
    /\ phase[r] = "authed" /\ Owner(r) /\ goldRec[r] = "reserved"
    /\ TakeSlot(r)
    /\ Goto(r, "ignored")
    /\ UNCHANGED <<records, lock, result, limits, gold, lost>>

(* Mutant: the gold comes back whether or not it was taken. *)
RollbackPaying(r) ==
    /\ phase[r] = "authed" /\ Owner(r)
    /\ TakeSlot(r)
    /\ ReleaseCooldownAndCount(r)
    /\ limitRec' = Released(limitRec, r)
    /\ Goto(r, "refund") /\ ReleaseBlock(r)
    /\ UNCHANGED <<fee, goldRec, oldCount, madeIn, lock, result, version, days, gold, lost>>

(* The matcher raised, or the gold could not be logged: the limits are     *)
(* released first, and the gold by a transaction of its own.               *)
Rollback(r) ==
    /\ phase[r] = "authed" /\ Owner(r)
    /\ TakeSlot(r)
    /\ ReleaseCooldownAndCount(r)
    /\ limitRec' = Released(limitRec, r)
    /\ IF goldRec[r] = "reserved"
       THEN Goto(r, "refund") /\ ReleaseBlock(r)
       ELSE Goto(r, "ended") /\ Unblock(r)
    /\ UNCHANGED <<fee, goldRec, oldCount, madeIn, lock, result, version, days, gold, lost>>

Settled(r) ==
    /\ goldRec' = [goldRec EXCEPT ![r] = "released"]
    /\ Goto(r, "ended")
    /\ UNCHANGED <<fee, limitRec, oldCount, madeIn, cache, cooling, counter, version, days>>

Refund(r) ==
    /\ phase[r] = "refund"
    /\ gold' = gold + fee[r]
    /\ Settled(r)
    /\ IF limitRec[r] # "none" THEN Unblock(r) ELSE UNCHANGED <<blocked, lifted>>
    /\ UNCHANGED lost

(* The transaction, or what follows it, fails or is cancelled: the         *)
(* reservation is marked released all the same, and the postprocessor ends *)
(* before it unblocks.                                                     *)
RefundFails(r) ==
    /\ phase[r] = "refund"
    /\ \/ lost' = lost + 1 /\ gold' = gold
       \/ lost' = lost /\ gold' = gold + fee[r]
    /\ Settled(r)
    /\ UNCHANGED <<blocked, lifted>>

(* A run that is not in the slot settles nothing, but unblocks. *)
Bystander(r) ==
    /\ phase[r] = "authed" /\ ~Owner(r)
    /\ Unblock(r)
    /\ Goto(r, "ended")
    /\ UNCHANGED <<records, cache, cooling, counter, version, days, gold, lost>>
--------------------------------------------------------------------------------
CooldownOver ==
    /\ cooling /\ cooling' = FALSE
    /\ UNCHANGED <<phase, records, cache, blocked, lifted, counter, version, days, gold, lost>>

(* UserBlockLimiter.check forgets a flag that is 30 seconds old. *)
BlockTimesOut ==
    /\ blocked /\ Unblock(None)
    /\ UNCHANGED <<phase, records, cache, cooling, counter, version, days, gold, lost>>

Midnight ==
    /\ version + days < MaxTurns /\ days' = days + 1
    /\ newDay' = TRUE
    /\ UNCHANGED <<phase, records, cache, cooling, blocked, lifted, count, uses, exact,
                   version, gold, lost>>

(* update_limits: every 6000 seconds all limiters are made anew. *)
Reload ==
    /\ version + days < MaxTurns /\ version' = version + 1
    /\ cooling' = FALSE /\ Unblock(None)
    /\ count' = 0 /\ newDay' = TRUE /\ uses' = {} /\ exact' = TRUE
    /\ UNCHANGED <<phase, records, cache, days, gold, lost>>

Authorise(r) ==
    \/ Enter(r) \/ CachedAllow(r) \/ CachedSkip(r) \/ Exempt(r) \/ Deny(r)
    \/ Resolve(r) \/ Reserve(r) \/ Limited(r) \/ Unlimited(r)
    \/ AuthFree(r) \/ Deduct(r) \/ Insufficient(r) \/ AuthPaid(r) \/ AuthFails(r)

Settle(r) ==
    \/ Commit(r) \/ CommitStopped(r) \/ Rollback(r)
    \/ Refund(r) \/ RefundFails(r) \/ Bystander(r)

Next ==
    \/ \E r \in Runs : Authorise(r) \/ Ignore(r) \/ Settle(r)
    \/ CooldownOver \/ BlockTimesOut \/ Midnight \/ Reload

Spec == Init /\ [][Next]_vars
--------------------------------------------------------------------------------
TypeOK ==
    /\ phase \in [Runs -> Phases]
    /\ fee \in [Runs -> {0, Price}]
    /\ limitRec \in [Runs -> RecordStates]
    /\ goldRec \in [Runs -> RecordStates]
    /\ oldCount \in [Runs -> 0 .. MaxCount - 1]
    /\ madeIn \in [Runs -> 0 .. version]
    /\ lock \in [Events -> Runs \cup {None}]
    /\ result \in [Events -> {"none", "allow", "skip"}]
    /\ slot \in [Events -> Runs \cup {None}]
    /\ cooling \in BOOLEAN /\ blocked \in BOOLEAN
    /\ count \in 0 .. MaxCount /\ newDay \in BOOLEAN
    /\ version \in 0 .. MaxTurns /\ days \in 0 .. MaxTurns
    /\ gold \in Nat
    /\ lifted \subseteq Runs /\ uses \subseteq Runs
    /\ exact \in BOOLEAN /\ lost \in Nat

Charged == {r \in Runs : phase[r] = "deducted" \/ goldRec[r] \in {"reserved", "committed"}}

(* The gold missing from the account is the price of the runs that hold or *)
(* have paid a fee, and of those that fell to an error between the         *)
(* transaction and its record: a fee is given back at most once, and never *)
(* by a run that took none (GoldReservation, SideEffectCommit).            *)
GoldBalances == gold + Price * (Cardinality(Charged) + lost) = StartGold

(* At most one run is inside the block at a time, save those whose block   *)
(* somebody else removed: a refused call, a bystander, the 30 seconds or a *)
(* reload (UserBlockLimiter, LimitManager.unblock).                        *)
BlockIsExclusive ==
    /\ Cardinality(Inside \ lifted) <= 1
    /\ Inside \subseteq lifted \/ blocked

(* The count is that of the uses that stand, and so stays within the       *)
(* limit, until a rollback puts back a count that later uses have passed   *)
(* (CountLimiter, release_count).                                          *)
CountIsExact ==
    /\ exact => count = Cardinality(uses)
    /\ count <= MaxCount

(* A run that is over has settled what it reserved, unless another matcher *)
(* of its event took the slot of its commit; a refused run holds nothing   *)
(* (auth, _unblock_after_matcher).                                         *)
NothingLeftBehind ==
    \A r \in Runs :
        phase[r] \in {"refused", "ended"} /\ "reserved" \in {limitRec[r], goldRec[r]} =>
            /\ phase[r] = "ended"
            /\ \E s \in Runs \ {r} : /\ EventOf[s] = EventOf[r]
                                     /\ limitRec[s] # "none" \/ goldRec[s] # "none"

(* The lock of an event is held by the one matcher that is in the chain,   *)
(* and every way out of the chain, an error or a cancellation too, gives   *)
(* it back: the other matchers of the event are never left waiting         *)
(* (PermissionSideEffectCache.lock_for, decision_log_stage).               *)
InChain(r) == phase[r] \in {"policy", "limits", "gold", "deducted"}

LockIsHeld ==
    \A e \in Events : {r \in Runs : EventOf[r] = e /\ InChain(r)} = {lock[e]} \ {None}
=============================================================================
