------------------------------ MODULE BanCache ------------------------------
(***************************************************************************)
(* Bans of a user: the table ban_console (models/ban_console.py) and the    *)
(* copy of it that every process of the bot keeps in memory and asks before *)
(* each command (services/cache/runtime_cache.py, BanMemoryCache), kept     *)
(* together by the commands themselves, by messages between the processes   *)
(* (RuntimeCacheSync) and by a refresh every five minutes.                  *)
(*                                                                          *)
(* One user is modelled, with the ban "here", in one group, and the ban     *)
(* "everywhere", which a lookup in the group falls back to.  Bans are       *)
(* numbered in the order in which they reach the table; 0 is no ban.        *)
(*                                                                          *)
(* A command that has changed the table goes on to the cache: left out are  *)
(* a command cancelled between the two, which only a refresh would cure,    *)
(* and two processes that insert a row of one key at once (IntegrityError   *)
(* in update_or_create, which then returns the row it finds, unchanged).    *)
(***************************************************************************)
EXTENDS Integers, FiniteSets

CONSTANTS Procs,      \* the processes that share the database
          Commands,   \* the ban and unban commands given
          Given,      \* where commands are given: a process, and a key
          Asked,      \* the lookups made: a process, and a key it is asked for
          MaxBans     \* bound on the bans given

Keys == {"here", "everywhere"}

ASSUME Assumptions == MaxBans \in Nat \ {0} /\ Given \cup Asked \subseteq Procs \X Keys

Numbers == 0..MaxBans
Stages == {"new", "store", "delete", "remove", "done"}
Events == [key : Keys, ban : Numbers]     \* ban 0: a delete, else an upsert
Row(b) == [id |-> b, ban |-> b]
NoRow == Row(0)
Nothing == [k \in Keys |-> 0]

VARIABLES
  table,      \* the row of each key: its id and the ban it holds
  bans,       \* the number of bans given so far
  over,       \* the bans whose time is over
  cache,      \* the entries of each process (_by_user, _by_user_group)
  neg,        \* the keys a process answers "not banned" for (_negative)
  loaded,     \* the processes whose cache was refreshed once (_loaded)
  reading,    \* the processes in a refresh, which holds _lock across its read
  snap,       \* what the refresh of a process has read
  due,        \* the keys whose rows a clean-up still has to delete
  doomed,     \* the keys of the removal tasks of lookups (_remove_tasks)
  inbox,      \* the messages on their way to a process
  cmd,        \* where each command stands
  contested   \* for each process and key: are operations at odds (history)

\* The bans of the keys of a set, in an order
Number(left, k) == IF k = "here" THEN 1 ELSE Cardinality(left)

vars == <<table, bans, over, cache, neg, loaded, reading, snap, due, doomed,
          inbox, cmd, contested>>

Init ==
  /\ \E left \in SUBSET Keys :
       /\ bans = Cardinality(left) /\ bans < MaxBans
       /\ table = [k \in Keys |-> IF k \in left THEN Row(Number(left, k)) ELSE NoRow]
  /\ over = {}
  /\ cache = [p \in Procs |-> Nothing] /\ neg = [p \in Procs |-> {}]
  /\ loaded = {} /\ reading = {} /\ snap = [p \in Procs |-> Nothing]
  /\ due = [p \in Procs |-> {}] /\ doomed = [p \in Procs |-> {}]
  /\ inbox = [p \in Procs |-> {}]
  /\ cmd \in [Commands -> {[stage |-> "new", proc |-> g[1], key |-> g[2], ban |-> 0] : g \in Given}]
  /\ contested = [p \in Procs |-> [k \in Keys |-> "no"]]

-----------------------------------------------------------------------------
\* What is under way, and which operations are at odds

BanInFlight(k) ==
  \/ \E c \in Commands : cmd[c].stage = "store" /\ cmd[c].key = k
  \/ \E p \in Procs : \E e \in inbox[p] : e.key = k /\ e.ban # 0

InFlight(k) ==
  \/ \E c \in Commands : cmd[c].stage \in {"store", "delete", "remove"} /\ cmd[c].key = k
  \/ \E p \in Procs : \/ k \in due[p] \cup doomed[p]
                      \/ \E e \in inbox[p] : e.key = k

\* Every process may be left with a wrong entry for the keys ks.
Contest(ks) ==
  contested' = [p \in Procs |-> [k \in Keys |->
                  IF k \in ks THEN "yes" ELSE contested[p][k]]]

\* Removing something of the keys ks starts: at odds with a ban under way, and
\* no better than the entry it was decided on.
RemovalStarts(ks) ==
  Contest({k \in ks : BanInFlight(k) \/ \E p \in Procs : contested[p][k] # "no"})

-----------------------------------------------------------------------------
\* The cache of a process: BanMemoryCache

\* Mutant: the refresh does not hold the lock across its read.
FreeAlways(p) == p \in Procs

Free(p) == p \notin reading               \* _lock can be had

\* Mutant: a lookup in the group looks for bans there only.
PlaceOwn(p, k) == k

\* _get_entry: where the entry for a key is found
Place(p, k) == IF cache[p][k] # 0 THEN k ELSE "everywhere"
Entry(p, k) == cache[p][Place(p, k)]

\* Messages go to the other processes, when they are connected to Redis.
Publish(p, k, b) ==
  inbox' = [q \in Procs |-> IF q = p THEN inbox[q]
                            ELSE inbox[q] \cup {[key |-> k, ban |-> b]}]

\* Mutant: only the key's own negative answer is forgotten.
SetEntryNarrow(p, k, b) ==
  /\ Free(p)
  /\ cache' = [cache EXCEPT ![p][k] = b]
  /\ neg' = [neg EXCEPT ![p] = @ \ {k}]

\* An entry is put in or, with 0, removed: every negative answer is forgotten.
SetEntry(p, k, b) ==
  /\ Free(p)
  /\ cache' = [cache EXCEPT ![p][k] = b]
  /\ neg' = [neg EXCEPT ![p] = {}]

\* is_banned, remaining_time and check_ban_level: a negative answer is given
\* again; no entry is noted as one; an entry that is over is removed by a task.
Lookup(p, k) ==
  /\ <<p, k>> \in Asked /\ p \in loaded /\ k \notin neg[p]
  /\ \/ /\ Entry(p, k) = 0
        /\ neg' = [neg EXCEPT ![p] = @ \cup {k}]
        /\ UNCHANGED <<doomed, contested>>
     \/ /\ Entry(p, k) \in over
        /\ doomed' = [doomed EXCEPT ![p] = @ \cup {Place(p, k)}]
        /\ RemovalStarts({Place(p, k)})
        /\ UNCHANGED neg
  /\ UNCHANGED <<table, bans, over, cache, loaded, reading, snap, due, inbox, cmd>>

\* What remaining_time answers: 0 for "not banned", else the ban.
RemainingTime(p, k) ==
  IF p \notin loaded \/ k \in neg[p] \/ Entry(p, k) \in over THEN 0 ELSE Entry(p, k)

\* remove, as the task a lookup has started
RemovalTask(p, k) ==
  /\ k \in doomed[p]
  /\ SetEntry(p, k, 0)
  /\ Publish(p, k, 0)
  /\ doomed' = [doomed EXCEPT ![p] = @ \ {k}]
  /\ UNCHANGED <<table, bans, over, loaded, reading, snap, due, cmd, contested>>

\* A negative answer is valid for BAN_MEM_NEGATIVE_TTL seconds.
NegativeEnds(p, k) ==
  /\ k \in neg[p]
  /\ neg' = [neg EXCEPT ![p] = @ \ {k}]
  /\ UNCHANGED <<table, bans, over, cache, loaded, reading, snap, due, doomed,
                 inbox, cmd, contested>>

-----------------------------------------------------------------------------
\* refresh and cleanup_expired

\* The refresh takes the lock and reads the table; rows that are over are left out.
RefreshRead(p) ==
  /\ Free(p)
  /\ reading' = reading \cup {p}
  /\ snap' = [snap EXCEPT ![p] = [k \in Keys |->
                IF table[k].ban \in over THEN 0 ELSE table[k].ban]]
  /\ contested' = [contested EXCEPT ![p] = [k \in Keys |->
                     IF @[k] = "yes" /\ ~InFlight(k) THEN "curing" ELSE @[k]]]
  /\ UNCHANGED <<table, bans, over, cache, neg, loaded, due, doomed, inbox, cmd>>

RefreshDone(p, cured) ==
  /\ p \in reading
  /\ reading' = reading \ {p}
  /\ snap' = [snap EXCEPT ![p] = Nothing]
  /\ contested' = [contested EXCEPT ![p] = [k \in Keys |->
                     IF @[k] = "curing" THEN cured ELSE @[k]]]
  /\ UNCHANGED <<table, bans, over, due, doomed, inbox, cmd>>

\* Mutant: what was read is added to the entries instead of replacing them.
RefreshMerges(p) ==
  /\ RefreshDone(p, "no")
  /\ cache' = [cache EXCEPT ![p] = [k \in Keys |-> IF snap[p][k] # 0 THEN snap[p][k] ELSE @[k]]]
  /\ neg' = [neg EXCEPT ![p] = {}]
  /\ loaded' = loaded \cup {p}

RefreshInstall(p) ==
  /\ RefreshDone(p, "no")
  /\ cache' = [cache EXCEPT ![p] = snap[p]]
  /\ neg' = [neg EXCEPT ![p] = {}]
  /\ loaded' = loaded \cup {p}

\* read_db: the read fails, times out or the database is unhealthy
RefreshFails(p) ==
  /\ RefreshDone(p, "yes")
  /\ UNCHANGED <<cache, neg, loaded>>

\* cleanup_expired drops the entries that are over, then deletes their rows
\* one by one, whatever ban the rows hold by then.
CleanStart(p) ==
  LET expired == {k \in Keys : cache[p][k] \in over} IN
  /\ Free(p) /\ due[p] = {} /\ expired # {}
  /\ cache' = [cache EXCEPT ![p] = [k \in Keys |-> IF k \in expired THEN 0 ELSE @[k]]]
  /\ neg' = [neg EXCEPT ![p] = {}]
  /\ due' = [due EXCEPT ![p] = expired]
  /\ RemovalStarts(expired)
  /\ UNCHANGED <<table, bans, over, loaded, reading, snap, doomed, inbox, cmd>>

CleanDelete(p, k) ==
  /\ k \in due[p] /\ (k = "here" => due[p] = {"here"})
  /\ table' = [table EXCEPT ![k] = NoRow]
  /\ due' = [due EXCEPT ![p] = @ \ {k}]
  /\ UNCHANGED <<bans, over, cache, neg, loaded, reading, snap, doomed, inbox,
                 cmd, contested>>

\* A delete raises: _cleanup_loop gives up the rest.
CleanFails(p) ==
  /\ due[p] # {}
  /\ due' = [due EXCEPT ![p] = {}]
  /\ UNCHANGED <<table, bans, over, cache, neg, loaded, reading, snap, doomed,
                 inbox, cmd, contested>>

-----------------------------------------------------------------------------
\* BanConsole.ban and unban, in the process and for the key of the command

\* Mutant: the row gets a number that was not given.
NextBanWrong == bans + 2

NextBan == bans + 1

\* update_or_create: a row keeps its id, a new one gets one.
Ban(c) ==
  LET k == cmd[c].key IN
  /\ cmd[c].stage = "new" /\ bans < MaxBans
  /\ bans' = bans + 1
  /\ table' = [table EXCEPT ![k] = [id |-> IF @.id = 0 THEN NextBan ELSE @.id,
                                    ban |-> NextBan]]
  /\ cmd' = [cmd EXCEPT ![c].stage = "store", ![c].ban = NextBan]
  /\ Contest({k} \cap {j \in Keys : InFlight(j)})
  /\ UNCHANGED <<over, cache, neg, loaded, reading, snap, due, doomed, inbox>>

\* upsert_from_model; bans of one process store in the order of their commits
\* (the semaphore of update_or_create, then the queue of _lock).
Store(c) ==
  LET p == cmd[c].proc IN
  /\ cmd[c].stage = "store"
  /\ \A d \in Commands : cmd[d].stage = "store" /\ cmd[d].proc = p => cmd[c].ban <= cmd[d].ban
  /\ SetEntry(p, cmd[c].key, cmd[c].ban)
  /\ Publish(p, cmd[c].key, cmd[c].ban)
  /\ cmd' = [cmd EXCEPT ![c].stage = "done"]
  /\ UNCHANGED <<table, bans, over, loaded, reading, snap, due, doomed, contested>>

\* unban, by name or by id, and the deletion of a row that is over
\* (calculate_ban_time): the row is read, ...
Unban(c) ==
  LET k == cmd[c].key IN
  /\ cmd[c].stage = "new" /\ table[k].id # 0
  /\ cmd' = [cmd EXCEPT ![c].stage = "delete", ![c].ban = table[k].id]
  /\ RemovalStarts({k})
  /\ UNCHANGED <<table, bans, over, cache, neg, loaded, reading, snap, due,
                 doomed, inbox>>

\* ... deleted by its id, if it is still there, ...
Delete(c) ==
  LET k == cmd[c].key IN
  /\ cmd[c].stage = "delete"
  /\ table' = [table EXCEPT ![k] = IF @.id = cmd[c].ban THEN NoRow ELSE @]
  /\ cmd' = [cmd EXCEPT ![c].stage = "remove"]
  /\ UNCHANGED <<bans, over, cache, neg, loaded, reading, snap, due, doomed,
                 inbox, contested>>

\* ... and the entry removed, whatever it holds.
Remove(c) ==
  LET p == cmd[c].proc IN
  /\ cmd[c].stage = "remove"
  /\ SetEntry(p, cmd[c].key, 0)
  /\ Publish(p, cmd[c].key, 0)
  /\ cmd' = [cmd EXCEPT ![c].stage = "done"]
  /\ UNCHANGED <<table, bans, over, loaded, reading, snap, due, doomed, contested>>

-----------------------------------------------------------------------------
\* RuntimeCacheSync and time

\* apply_sync_event; messages arrive in any order.
Deliver(p, e) ==
  /\ e \in inbox[p]
  /\ SetEntry(p, e.key, e.ban)
  /\ inbox' = [inbox EXCEPT ![p] = @ \ {e}]
  /\ UNCHANGED <<table, bans, over, loaded, reading, snap, due, doomed, cmd, contested>>

\* Redis cannot be reached, or the listener of p has ended with an error.
Lose(p, e) ==
  /\ e \in inbox[p]
  /\ inbox' = [inbox EXCEPT ![p] = @ \ {e}]
  /\ contested' = [contested EXCEPT ![p][e.key] = "yes"]
  /\ UNCHANGED <<table, bans, over, cache, neg, loaded, reading, snap, due, doomed, cmd>>

Expire(b) ==
  /\ b \in 1..bans /\ b \notin over
  /\ over' = over \cup {b}
  /\ UNCHANGED <<table, bans, cache, neg, loaded, reading, snap, due, doomed,
                 inbox, cmd, contested>>

-----------------------------------------------------------------------------
CommandStep(c) == Ban(c) \/ Store(c) \/ Unban(c) \/ Delete(c) \/ Remove(c)
Message(p) == \E e \in Events : Deliver(p, e) \/ Lose(p, e)
CleanStep(p) == CleanFails(p) \/ \E k \in Keys : CleanDelete(p, k)

Next ==
  \/ \E c \in Commands : CommandStep(c)
  \/ \E p \in Procs : \/ RefreshRead(p) \/ RefreshInstall(p) \/ RefreshFails(p)
                      \/ CleanStart(p) \/ CleanStep(p) \/ Message(p)
                      \/ \E k \in Keys : Lookup(p, k) \/ RemovalTask(p, k) \/ NegativeEnds(p, k)
  \/ \E b \in 1..MaxBans : Expire(b)

\* What has been begun and goes on by itself
Work ==
  \/ \E c \in Commands : Store(c) \/ Delete(c) \/ Remove(c)
  \/ \E p \in Procs : CleanStep(p) \/ Message(p) \/ \E k \in Keys : RemovalTask(p, k)

\* Work that is begun goes on: what waits for _lock gets it in its turn, for the
\* lock is first come, first served (hence strong fairness), and a message arrives
\* or is lost.  The refresh comes round, and its read succeeds again and again.
Fairness ==
  /\ SF_vars(Work)
  /\ \A p \in Procs : WF_vars(RefreshRead(p)) /\ SF_vars(RefreshInstall(p))

Spec == Init /\ [][Next]_vars
FairSpec == Spec /\ Fairness

-----------------------------------------------------------------------------
\* Properties

\* Everything has its type; bans are those given, and only a refresh under way
\* has something read.
TypeOK ==
  /\ bans \in Numbers /\ over \subseteq 1..bans
  /\ table \in [Keys -> [id : 0..bans, ban : 0..bans]]
  /\ \A k \in Keys : table[k].id = 0 <=> table[k].ban = 0
  /\ cache \in [Procs -> [Keys -> 0..bans]] /\ neg \in [Procs -> SUBSET Keys]
  /\ loaded \subseteq Procs /\ reading \subseteq Procs
  /\ snap \in [Procs -> [Keys -> 0..bans]]
  /\ \A p \in Procs : p \notin reading => snap[p] = Nothing
  /\ due \in [Procs -> SUBSET Keys] /\ doomed \in [Procs -> SUBSET Keys]
  /\ inbox \in [Procs -> SUBSET [key : Keys, ban : 0..bans]]
  /\ cmd \in [Commands -> [stage : Stages, proc : Procs, key : Keys, ban : 0..bans]]
  /\ contested \in [Procs -> [Keys -> {"no", "yes", "curing"}]]

\* A remembered "not banned" never hides an entry that has come since: neither
\* one for the key itself nor the ban everywhere that a lookup here falls back to
\* (runtime_cache.py, clear_negative_all on every change of the entries).
NegativeIsTrue ==
  \A p \in Procs : \A k \in neg[p] : Entry(p, k) = 0

Active(b) == IF b \in over THEN 0 ELSE b

\* A process that has loaded its cache, and has nothing on a key under way, has
\* for that key the ban of the table, or none where the table has none in force:
\* unless operations on the key were at odds, or a message was lost, since its
\* last refresh that began with nothing under way.
CacheAgrees ==
  \A p \in loaded, k \in Keys :
    contested[p][k] = "no" /\ ~InFlight(k) => Active(cache[p][k]) = Active(table[k].ban)

\* Whatever went wrong between them, once the commands have ended the processes
\* come to agree with the table on the bans in force, for good (_refresh_loop).
CachesHeal ==
  <>[](\A p \in Procs, k \in Keys :
         p \in loaded /\ Active(cache[p][k]) = Active(table[k].ban))

\* remaining_time is 0 exactly for a user who is not banned (models/ban_console.py:111),
\* in the group or everywhere, when nothing is under way or at odds: unless an entry
\* here whose time is over hides a ban everywhere, until it is removed.
AnswerIsRight ==
  \A p \in loaded, k \in Keys :
    /\ \A j \in Keys : contested[p][j] = "no" /\ ~InFlight(j)
    /\ k = "here" => cache[p]["here"] \notin over
    => (RemainingTime(p, k) = 0
          <=> \A j \in {k, "everywhere"} : Active(table[j].ban) = 0)
=============================================================================
