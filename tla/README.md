# A verification project for bocchi-bot

bocchi-bot is a QQ bot on NoneBot2: one Python process, one asyncio event loop.
Nothing runs in parallel, but every command, worker and scheduled job is a task
that is suspended at each `await`, and almost everything that can go wrong in the
program's own logic goes wrong there: a value read before an await and used after
it, a task cancelled between two steps, a shutdown that meets work in flight, a
message of another process that comes late.

This directory models that control in TLA+, checks it with TLC on small instances
and proves the safety properties of the passing runs with TLAPS for all of them.

## 1. Inventory

Paths are relative to `src/bocchi`. `PROJECT.json` lists every component with its
source files; these are the ones that keep state across steps.

| component | state it keeps | operations | what is hard | what makes it correct | module |
|---|---|---|---|---|---|
| Send queue, `services/send_queue.py` | a bounded queue of calls with their futures, workers, a rate-limit lock, a semaphore, the patched adapter | call, worker loop, direct call, start, stop | cancelled callers and workers, a full queue, a drain that times out | every caller is answered once; nothing is sent twice; order; a clean stop | `SendQueue` |
| Low-priority writer, `services/low_priority_writer.py` | a bounded buffer, drop counter, backoff, a worker, one flush lock | append, worker flush, forced flush, stop | failures, uncertain timeouts, cancellation in mid-write, appends during the stop | no row twice, losses counted, oldest first, the buffer drains | `LowPriorityWriter` |
| Renderer, `services/renderer/engine.py` | contexts by generations, leases, shared render tasks, cached results, the tracker | render, acquire, release, swap, idle recycle, close | leases against retirement, shared tasks, close | no context shared or closed under a render; nobody starves; close ends and leaves nothing | `ContextPool` |
| Scheduler, `services/scheduler` | rows of `ScheduledJob`, APScheduler's jobs, the sets of running jobs and of one-off functions | add, pause, resume, update, remove, trigger, fire, restart | two runs or commands at once, one-off jobs, restarts | rows and jobs agree; a one-off runs once; "running" is true | `Scheduler` |
| Command limits, `builtin_plugins/hooks`, `utils/limiters.py` | per event: lock, result, pending commit; globally: cooldown, block, count; the gold | check, reserve, commit, roll back, reload | two matchers of one event, cancellation by siblings, timeouts, reload | gold is accounted for; one run in the block; counts exact; nothing reserved is left | `CommandAuth` |
| Ban cache, `services/cache/runtime_cache.py`, `models/ban_console.py` | the table, a copy in each process, negative answers, messages | ban, unban, lookup, refresh, clean-up, message | lost and reordered messages, expiry, a refresh across an await | copies agree with the table, and heal | `BanCache` |
| Gold red bags, `builtin_plugins/gold_redbag` | bags of each group, festivals, end-of-festival jobs | send, open, return, broadcast, automatic end | commands interleaved at database calls; dicts changed while they are iterated | gold handed out once; one piece of a broadcast for each user | `RedBag` |
| Drawing queue, `plugins/drawer` | futures in their order, who has the turn, the next free time | enter, wait, draw, leave, cancel | handlers cancelled or failing between two steps | one turn at a time, in order, no wake-up lost | `DrawQueue` |
| Russian roulette, `plugins/russian` | one duel for each group and its job | challenge, accept, refuse, shoot, settle, time out | a settlement suspended before it removes the duel | one settlement for each duel; a duel ends | `Russian` |
| User accounts, `models/user_console.py` | gold and props columns | add, reduce, reserve, release, read-modify-save | atomic updates beside read-modify-writes | no update is lost | in `RedBag`, `CommandAuth` |
| Bank, `builtin_plugins/bocchi_bank` | deposits, loans, their log | deposit, withdraw, lend, repay, nightly settlement | a settlement that writes back old balances | gold is conserved | none |
| Shop and sign-in | goods, props, impressions | buy, use, sign | read-modify-writes | as for accounts | none |
| Sandboxes, `services/ai/sandbox`, `utils/lifespan.py` | sessions, their shared container, registrations that run out | get or create, close on idleness, delete | a container deleted under a session being created | a session keeps its container; idle ones go | none |
| Other caches, `services/cache` | maps with a time to live and limits | get, set, evict, refresh | as for bans | bounds hold | none |
| Database context, `services/db_context` | connections, health flags | timeouts, schema migration | a timeout leaves the statement running | the caller knows what it does not know | its outcomes, in the callers |
| Lifecycle, `utils/manager/priority_manager.py`, `services/runtime_bootstrap.py` | hooks by priority | start, stop, restart | order of the shutdown | writers flush before the database closes | stops, in the services |
| AI services, `services/ai`, `services/llm` | sessions, keys, tools, memory | chat, tool calls, agents | remote control flow | | none |

The rest (tags, help, image building, HTTP, administration, web console, other
entertainment plugins, vendored plugins) formats, queries or calls a remote service
in one go and keeps no state between steps. It is by far the larger part of the
repository's 150 000 lines, so that the share of lines the modules stand for is
small, although most of the bot's own stateful services are among them.

Interaction. Plugins send through the send queue and render through the engine;
the gold log, statistics and chat history write through the low-priority writer,
which the memory governor also flushes and which pauses while the database is
unhealthy. The permission chain runs before every command and asks the ban cache.
Red bags and duels share the gold column with the permission chain, and have jobs
in APScheduler beside those of the scheduler service. `AsyncioLock` is what they
have in common: locks that are first come, first served.

## 2. Modules

| module | what | composes | proofs |
|---|---|---|---|
| `AsyncioLock` | `asyncio.Lock` as a sequence (external) | | |
| `SendService` | what a caller of the bot's API may rely on (abstract) | | |
| `SendQueue` | the send queue | `AsyncioLock`; implements `SendService` | `SendQueueProofs` |
| `LowPriorityWriter` | a buffered writer | `AsyncioLock` | `LowPriorityWriterProofs` |
| `LeasePool` | a pool whose contexts are leased to one task each (abstract) | | |
| `ContextPool` | the renderer's engine | implements `LeasePool` | `ContextPoolProofs` |
| `Scheduler` | rows, jobs, runs | | `SchedulerProofs` |
| `CommandAuth` | the permission chain | | `CommandAuthProofs` |
| `BanCache` | bans in a table and in several processes | | `BanCacheProofs` |
| `DrawQueue` | the queue of drawings | | `PluginProofs` |
| `Russian` | a group's duel | | `PluginProofs` |
| `RedBag` | gold red bags | | `RedBagProofs` |

Each `MC_*` module extends one specification and gives its constants values; the
`.cfg` beside it names the properties of one run. Everywhere an action is what a
task does between two awaits; a section under a lock that does not await is one
step. Definitions marked "Mutant" are plausible faults, used to see that the
properties notice them, and stand before the definition they vary.

### SendQueue, SendService

| action | code |
|---|---|
| `CallRaw`, `Enqueue`, `DropLike`, `CallDirect` | the branches of `_queued_call_api`; not patched, the adapter's own function |
| `CancelCaller` | the task that awaits the future, or sends directly, is cancelled |
| `Take`, `Finish` | `_worker`: `get()`, and what follows the call |
| `PassRateLimit`, `Acquire` | `_rate_limit` and the semaphore of `_direct_call_api` |
| `Start`, `Stop`, `Joined`, `DrainTimeout`, `EndWorker`, `Stopped` | `start_send_queue` and the steps of `stop_send_queue` |

A request in flight is in exactly one of `queue`, `lock` (in the rate limit, whose
first place holds the lock), `slot` (waiting for a permit) and `calling`. The
answer of a caller is one variable, `reply`, for its future and for its return.
`accepted` and `sent` record history. A worker's `get()` and its request for the
rate-limit lock are one step: no await separates them. A stop leaves callers who
are in the middle of `_direct_call_api` alone, and so does the model: after a stop
the lock and the semaphore may have direct senders in them, and only those
(`StopLeavesNothing`).

`SendService` says what a caller may rely on: one answer, `ok` only for a call that
was made, a call at most once, a drop for `send_like` only, and an answer in the
end. `SendQueue` implements it with `issued` as the set of what `sent` lists.

### LowPriorityWriter

One writer, whose records are numbered in the order they are appended. A flush is
followed through `lock` (it asked for `_FLUSH_LOCK`), `loop` (between two batches)
and `write` (inside `write_batch`), for a worker, for the memory governor and for
`stop_low_priority_writer`. `rows` is the table as confirmed writes left it. A write
that times out leaves its records `uncertain`: the database may add them later
(`late`) or never (`Settle`), as the comment in `_flush_state` explains. A
cancelled flush leaves its batch uncertain too, and no counter counts it:
`abandoned` is a history variable that says so, and `LossesAreCounted` shows that
this is the only loss the code's own counter misses. Several workers appear because
an append during the stop starts a new one (`EnsureWorker` resets `_STOPPING`).

The database is unhealthy not only after the writer's own failures (`MarkFailure`): any
operation of the program that times out or meets a locked SQLite file says so, and so
does the watchdog (`OtherUnhealthy`, `db_context/utils.py`, `with_db_timeout`). While it is,
the worker's turns are skipped, and a flush that waited for the lock turns back.

### ContextPool, LeasePool

A call is followed, with the task it starts for its page, from `Call` over the
render permit (`Take`), a context (`Acquire`, `Opened`) and the render (`Rendered`,
`TargetClosed`) to the release (`Release`) and the task's end; a call for a page
with a task under way waits for that task. A render that fails is tried once more in
the pool; one whose target was closed swaps generations first (`StartSwap`, `Install`).
Page options that the pool cannot serve get a page of their own (`BeginOneOff`). The idle
loop swaps too; a swap opens `Prewarm` contexts ahead. `Close` waits for the tracker and
then for the tasks. The engine's locks are never held across an await. `LeasePool` says what all this is for: a context
is leased to one task at a time and closed only when free; the mapping hides
generations, pools and swaps.

What the code does and a reader may not expect: `_prewarm_browser_and_pool` has no
caller; the recycle at the end of a render never fires, because the render that asks
still counts as active; a generation's contexts are bounded by the contexts opened
ahead and the renders together rather than by the pool's size; a retired generation
is emptied first and its contexts are then closed one by one (`_dispose_generation`), so
that the idle loop, which `close` cancels, may be stopped between the two (`doomed` holds
what it has removed, `IdleCloses` closes one). What it had opened ahead for a new
generation, or had removed and not yet closed, is then in no list: it stays open until
the browser's shutdown, the next step of `close` (`stray`). A render or a `close` is
not cancelled there, and goes on only when all are closed; nobody can reach these
contexts meanwhile, and so its disposal is one step.
The bound `RoomForAll` (no more renders than places in the pool), which holds of the
defaults, is what keeps `queue.get()` on an empty pool from being reached; TLC finds
the starvation at once without it. Cancellation of a render task is not modelled.

### Scheduler

A schedule is a row (`on`, `off`, deleted), a job of APScheduler (`active`, `paused`
or none) and, for one-off functions, an entry of `_registered_tasks`. Its trigger
repeats, has a date or is refused by APScheduler: `scheduler_admin/dependencies.py` takes
the text of a cron expression as it is. A command is `Ask`, `Write` or `Add` (the row),
then `Reschedule`, `Apply` or `ReAdd` (the job), with everybody else in between; a run is
`Fire` or `TriggerNow`, `Read`, `Execute`, `Save`, `Delete`, `Forget`, and may fail at each.
`Restart` forgets jobs, runs and commands at any moment and makes the jobs from the rows.

The job does not always follow. `Reschedule` removes the old job before it adds the new
one, so that a trigger that is refused leaves the row enabled and without a job, and
the command ends with an exception. `ReAdd`, a task nobody awaits, reads the row again
and may fail there. A job with a date is gone when it has fired or missed it, and the
row stays enabled if it is not one-off (`--date`). At a restart the first refused trigger
ends the loading: the rows after it, and the declared defaults, get no job. (The model
takes it that the program goes on; the exception may also keep it from starting.) A
`trigger_config` that is no dict ends `add_or_reschedule_job` in the same way as a refused
trigger, but no command writes one.

The history variables name what the code does not master: `contested` (two
commands on one row overlap: a pause beside a resume, a remove beside an add that
leaves a job without a row; a disabled schedule is updated, which makes its job fire
again; a removal fails after it took the job away), `lost` (an enabled row without a
job, because its date is over, it could not be read, or it was not loaded, until a job
is made for it again; among them a one-off whose only firing met high load, a missing
bot, its grace time or the end of the program, although `schedule_once` is documented as
"持久化的", persistent, `manager.py:282`)
and `excused` (run by hand, or its run failed after the function). Two runs of one
schedule share one mark in `_running_tasks`, which the first to end takes away: the
converse of `RunningIsReal` does not hold. `run_at` and the ephemeral jobs are left
out: they are never registered and have no caller.

### CommandAuth

A run is one matcher of the plugin on one event. `Enter` to `AuthPaid` are the
stages of the pipeline (event lock, cached result, exemptions, refusals, limits,
price), `Decide` inside them stores the result; `Ignore` is another preprocessor
that refuses the matcher, or the cancellation of the matcher before it ran; then
`Commit`, `CommitStopped`, `Rollback`, `Refund`, `RefundFails` and `Bystander` are the
postprocessor. `CooldownOver`, `BlockTimesOut`, `Midnight` and `Reload` happen to the
limiters. The matchers of one priority run in one task group without a shield
(`auth_event_selector.py`), so that the matcher that blocks an event cancels its
siblings wherever they stand: `CommitStopped` and `RefundFails` include that.

What the properties allow for, by history variables, because the code does it:

* the block of a running command is lifted by its time-out after 30 seconds, by a
  refused attempt, a cached skip, an exempt run or a bystander of the same user
  (`auth_checker.py:1600`, `auth_hook.py:198`), or by a reload (`lifted`);
* the second matcher of one event takes the slot `commits[module]`, so that the first
  one's price is neither logged nor refunded and its block stays until it times out,
  although `auth_checker.py:1136` says that whatever did not run is rolled back; a
  matcher ignored after the chain leaves its reservations in the same way;
* `release_count` puts back the count it found, over uses counted since (`exact`);
* a timeout after the reservation's transaction, or a refund that fails, loses the
  price (`lost`), and the event is cached as allowed;
* `update_limits` makes the limiters anew every 6000 seconds, with the counts of
  the day (`auth_limit.py:142`; the comment at 102 says hourly; `limiters.py:30` calls
  the limit daily): `CountIsExact` counts the uses since the last reload or midnight.

Loading plugins on demand and limits that watch something else than the user are
left out.

### BanCache

Two rows of the table (a user's ban in a group, and everywhere), the entries and
negative answers of each process, messages that arrive in any order or not at all, a
refresh in two steps (`RefreshRead`, `RefreshInstall`) under the lock, the clean-up of
expired rows in steps, and the removal tasks that lookups start. A command is
`Ban`, `Store` or `Unban`, `Delete`, `Remove`: the row first, then its own
process's entry and the message. Bans are numbered, so that a renewed one differs
from the old one. `contested` remembers for each process and key that operations were
at odds (a message overtaken or lost, a clean-up or removal beside a new ban) until a
refresh that began with nothing under way has cured it. What the code does then: the
clean-up deletes the row of a ban renewed meanwhile; a removal task removes and
broadcasts the renewed entry; an unban removes the cache entry even of a row that was
replaced; and an expired ban in the group hides a ban everywhere from the first
lookup until its removal (`models/ban_console.py:111` says "0表示未被ban", 0 means not
banned). A group's own ban behaves like the ban everywhere and is left out; identical
messages and tasks count once. Left out are also a command that is cancelled between the
row and the cache entry, after which its own process answers wrongly until the next
refresh, and the `IntegrityError` branch of `update_or_create`, which returns the row
another process has just inserted, without this ban's values.

### DrawQueue

`Enter`, `Tell`, `Turn`, `Draw` and the failures `TellFails` and `Interrupt` are a
handler; `Leave`, `IntervalOver`, `WakeNext` the task it starts at the end. The queue
is the set of pending futures with their tickets, since a done one is dropped when it
comes to the front. A request whose message fails, or that is cancelled, between
`enter` and the `try` stays in the queue, is woken in its turn and never leaves: from
then on nobody is served until a restart, although the users are told a waiting
time (`drawer/__init__.py:159`). `Served` says that this is the only way to starve.
`cancel()` never finds anything to do, because the future it is given is set or
cancelled by then; the positions told to users count futures already done, and gold
is looked at before the queue and taken after the drawing: none of it is modelled.
Timers are assumed not to fire early: a clock that is coarser than the timer could
lose a wake-up in `_try_wake_next_locked`.

### RedBag

Users, groups, broadcasts and a fixed number of command handlers that may be under
way at a time. `bags` holds every bag ever made; a group's dict is the sequence of
its entries, in which a deleted one is 0, because `open` iterates over the live dict
across awaits, and what it sees, or whether it raises, depends on what is deleted and
inserted meanwhile. The iterator's two tests are those of CPython: the size is
unchanged, and there are no more entries than there were. `taken` and `refund`
record what was handed out and given back.

### Russian

The duel of one group: the entry of `_data` or none, its job, and what each command
is at. A task that comes back from an await to a duel that is no longer the entry
works on an object nobody sees (`here` is false), but still builds or removes the
group's job, by its name. `JobFires` uses the job up; when its last instance still
runs, or the loop is late, the firing is dropped. The record carries as history that
its winner was `paid`, that two settlements or acceptances met (`contested`), and that
its job was missed or failed (`untimed`). The specification is called `DuelSpec`, its
parts likewise, so that one module of proofs can take it beside `DrawQueue`; `Duels` is
the set of records that `Russian` objects are, and `JobRun` stands for the job's run
among the tasks.

The usage text says of `结算` "仅当一方未开枪超过30秒时可使用" (only when nobody has shot
for half a minute). The code does not ask: `time` is the time of the import, so that
a challenge counts as expired at once, and an accepted duel is not compared at all;
`Settle` has no such guard either. Other things it does: `refuse` also ends a duel
that was accepted; two challenges, or two acceptances, that look before either writes
overwrite each other; the end of a settlement removes whatever duel the group has by
then; a loser with too little gold is set to zero while the winner gets the full
stake.


## 3. Runs

| run | what it asks | bounds |
|---|---|---|
| `send_queue` | nobody is stranded, the join count is exact, a stop ends and leaves nothing, requests are sent once and in order, the queue implements `SendService` with its liveness | 2 messages, 1 like, 2 workers, a queue of 1, 1 permit |
| `low_priority_writer` | no row twice, losses counted, oldest first, the buffer drains, the stop returns | 3 records, a buffer of 2, batches of up to 2, 2 workers, governor, stop |
| `context_pool` | no context is shared or closed under a render, nobody starves, pools bounded, one task for a page, `close` ends and leaves nothing, retired generations go, the engine implements `LeasePool` | 3 calls for 2 pages, 2 renders, pools of 2, 1 opened ahead, 3 generations, 5 contexts |
| `scheduler` | rows and jobs agree, a one-off runs once, what is shown as running is | 1 schedule, 3 triggers, 2 commands and 2 runs at a time, restarts without limit |
| `command_auth` | gold accounted for, one run in the block, exact counts, nothing reserved is left, the event lock is given back | 2 matchers of one event and 1 of another, price 1, gold 2, 2 uses a day, 1 reload or midnight |
| `ban_cache` | negative answers are true, caches agree with the table, answers are right, caches heal | 2 processes, a ban left from before or none, 1 command in one of three places, 1 process asking, 2 bans |
| `draw_queue` | one turn at a time and in order; who waits is served | 4 requests |
| `russian` | a duel has its job, is paid once, and ends | 3 users, 2 commands at a time beside the job, 1 blank chamber, duels without limit |
| `red_bag_users` | a bag's gold is handed out or given back once; no balance is negative | 2 users, 1 group, 2 bags of two coins, 3 handlers at a time |
| `red_bag_festive` | one piece of a broadcast for a user | 1 user, 2 groups, 2 broadcasts, 3 handlers at a time |
| `red_bag_lost_update` | violated: `add_red_bag` loses gold | 2 handlers |
| `red_bag_settlement` | violated: the settlement removes a newer bag | 2 handlers |

Why the bounds are enough to be interesting. The send queue's one place is full as
soon as a second message arrives, and with one permit the lock, the semaphore and
the queue all have waiters, and a message that finds the queue full or stopping is
sent directly. Calls of other APIs (`Others`), which pass by the queue, are none in
the run and any set in the proofs. The buffer of two
overflows while a batch of two is out, so that restoring it loses some records and
keeps others; two worker tasks are what an append during the stop can make. Three
calls for two pages are a shared task beside another one; three generations are two
retirements, the second also while a render still holds a lease of the first, and five
contexts are two in the first generation, one opened ahead in each of the others, and one
more. Two runs and two commands on one schedule are a manual run beside
a firing and another command between the row and the job. Schedules meet only in the
loading at a restart, which the trigger of one row may end before another: with one
schedule the run sees the refused row only, and that the others go without a job is
in the proof, for any number of rows. Two matchers of one
event share a slot, and a third matcher contends for the block and the count. Two bans
are one left from before and one renewed. Of four requests for a drawing one has the turn, one may be
abandoned, one cancelled, and one waits behind them. Three handlers of red bags are
two openers and a promoter, or a broadcast, an automatic end and an opener.

The bounds on what a run may grow to are named constants, each used once: `MaxRecords`,
`MaxSends`, `MaxGenerations`, `MaxContexts`, `MaxRows`, `MaxTurns` (reloads and midnights), `MaxBans`,
`MaxBlanks`, beside the sets of requests, callers, runs, commands, tasks and
broadcasts. Nothing else is cut off. The proofs hold for all their values.

Symmetry is used in runs of safety properties only (`scheduler`, `command_auth`, the
red bags), never beside a temporal property. The deadlock check is off where the
system may rest: all calls, commands, bags or requests are used up, or the engine is
closed. It is on for `send_queue`, `low_priority_writer` and `ban_cache`.

Type invariants are proved, and no run repeats them but `RedBag`'s, since it is where a
balance below zero would show.

Every property of a passing run has a mutant: a plausible fault in one definition
that violates it in that same run (`AnswerAnyway`, `DrainSilently`, `CloseKept`,
`AcceptedUntimed`, ...).

### What the violated runs show

* `NoGoldLost`. `UserConsole.add_gold` is an atomic increment, and its comment says
  why: concurrent read-modify-writes lose gold. `add_red_bag` is one. It reads the
  row, subtracts in memory, awaits the statistics and saves: whatever the user won
  or paid in between is overwritten. In TLC's trace two bags of one user are paid
  for at once and the second payment is saved over the first.
* `OnlyOpenedUpSettled`. `open` notes bags that are opened up and removes them after
  its last await, by the promoter's id. If the promoter has put up another bag by
  then, that one is removed, with all of its gold.

## 4. Fairness

asyncio runs every task that is ready, and a sleep or a timeout elapses: weak
fairness for every step of a worker, a flush, a stop or a timer. Nobody has to call,
cancel, start, stop, ban, shoot or fail.

* SendQueue: each API call ends (the adapter has a timeout of its own).
* LowPriorityWriter: strong fairness of `WriteReturns`: a write that is tried again
  and again succeeds again and again. Without it a database that is down for ever
  refutes `BufferDrains`, rightly. It may fail any number of times between. Other
  operations make the database unhealthy again and again, which takes turns from
  the worker and turns flushes back, so that weak fairness of these steps would say
  nothing. `PollTick`, and `BeginFlush` that goes on, are strongly fair: the worker looks
  every second, so not only inside such spells if there are others between them, and a
  flush that waited is not met by a new spell each time. If the spells never
  left a second between them, the records would stay, and old ones be dropped and
  counted. The governor's flushes need not happen.
* ContextPool: weak fairness of `Step`, what goes on by itself: the steps of the render
  tasks (Playwright's calls have timeouts), of the idle loop once it has begun a swap, and
  of `close` once called. One formula is enough, since calls, attempts and generations are
  finitely many, so that no step can be put off by others for ever. That anybody calls or
  closes, or that the idle loop finds something to recycle, is not assumed.
* Scheduler: weak fairness of commands and runs is part of the specification, which
  has safety properties only, since a restart may end any of them.
* CommandAuth: no fairness, and no liveness property.
* BanCache: strong fairness of `Work` (what is under way on a row) and of
  `RefreshInstall`, weak of `RefreshRead`: both wait for one asyncio lock, which is
  first come, first served, so that a task that keeps asking gets it although it is
  taken again and again; refreshes are periodic. A message arrives or is lost.
* DrawQueue: weak fairness of each handler (its HTTP request has a timeout of 360
  seconds) and of the task it leaves behind. Nobody has to be cancelled or to fail.
* Russian: weak fairness of the job's firing, the steps of a settlement and the
  answer of the query for a name. Nobody has to accept or shoot.
* RedBag states no fairness and has no liveness property.

## 5. Proofs

Each `*Proofs` module proves, for all values of the constants that satisfy the named
assumptions of the module it is about, that the state's inductive invariant holds,
and from it the invariants of the run. There is one lemma for an action or for a part
of the invariant, and the last lemma puts them together.

**SendQueue** (`TypeCorrect`, `NobodyStranded`, `JoinExact`, `CleanStop`,
`SentInOrder`, `RefinesService`). `PendingIsOwned` alone is not inductive: to know
that `Finish` answers the right caller one must know that a worker's item is in flight
and in nobody else's hands (`HeldIsInFlight`); that needs each request to be in one
place, once (`OnePlaceEach`); that a request returns to no place needs what `sent` and
`reply` say about it (`SentWhenCalling`); that cancelling a caller or a worker takes
away the right requests needs the route to name the actor (`RouteHasActor`); and
`EmptyWhenStopped` says that the queue is empty from the drain on. The refinement has
one lemma for each action: the initial states and every step of the queue are initial
states and steps, or stutters, of `SendService`.

That calls start in the order of acceptance (`SentInOrder`) needs an invariant of its
own, `OrderInv`: what was sent, the semaphore's waiters, the rate limit's and the queue
are, in this order, one line in the order of `accepted` (`InLine`), in which a direct or
raw request, never accepted, may stand anywhere; and whatever was accepted is no longer
idle (`Entered`), so that a request that comes new was not accepted before. A step moves
the head of one part to the end of the next, or takes somebody out; the lemmas
`OrderAppend`, `OrderTail` and `OrderLeave` say what that does to an order, and
`OrderGrows` what another acceptance does to all of them.

**LowPriorityWriter** (`TypeCorrect`, `NoRowsTwice`, `LossesCounted`, `OldestGoFirst`).
The invariant says who may be at the flush lock (`Locking`), that rows, the
batch that is out and the buffer are each in order and follow one another (`Ordered`),
that only what was appended is anywhere (`Bounded`), that what the database may have
added behind the writer's back is nowhere else (`Apart`), and that the counts add up,
with the batch of whoever writes (`Counted`). A record is written once because a batch
that may still be written is never restored, which `Apart` follows through the
timeouts, and only the holder of the flush lock has a batch, which `Locking` says.

**ContextPool** (`TypesHold`, `LeasesHold`, `NobodyWaits`, `PoolsStayBounded`,
`OneTaskRenders`, `CloseLeavesNothing`, `EngineImplementsLeasePool`). A lease is counted
where a task is at a stage that holds one; a generation that is being disposed of has
no holder but the one that disposes of it; what has just been opened is opened for the
active generation; an empty pool is fully leased. From the last and from `RoomForAll`
follows that a render which finds no context may open one (`NobodyWaits`): the
generation's contexts and those being opened all belong to other renders, of which
there are fewer than `MaxRender`, and so than `PoolSize`. `CloseLeavesNothing` follows every
context from its opening: it is in a generation that is listed, closed, about to be closed
by the idle loop (`doomed`) or `stray`, and what `close` lists at its end it closes. `EngineImplementsLeasePool`
is the refinement in full: `LeasePool` states no fairness.

**Scheduler** (`TypesHold`, `SchedulesAgree`, `OneOffRunsOnce`, `ShownIsRunning`), for
any number of schedules, runs and commands. The invariant speaks of one schedule at a
time (`RunsOnce(i)`, `StaysRight(i)`): unless contested it has one command at a time,
and a one-off then no run beside it, so that what is still to do of that command or run
is all by which row and job disagree. The command's copy of the trigger is then the
row's, or the one it is about to write, which is why the job it makes fits
(`JobFits`), and its failure leaves no job but the right one. A one-off that nobody
triggers by hand has one run.

**CommandAuth** (`TypesHold`, `GoldIsAccounted`, `BlockExcludes`, `CountHolds`,
`RunsSettle`, `LockGivenBack`). The invariant says what a run's records may be by where
the run is (`RecordsFit`), that a run with something to settle owns the slot of its
event or has lost it (`SlotFits`), and that the uses that stand were counted by the
limiters in force (`UsesFit`). The cardinalities of sets of runs stand for the sums, which keeps
them within the library's theorems on finite sets.

**BanCache** (`TypesHold`, `NegativesHold`, `CachesAgree`, `AnswersRight`), for any
processes and commands. `NegativeIsTrue` is inductive with the types. For the rest the
invariant has, for each key, six parts, each for the processes that may rely on what is under way:
a ban under way is the one in the table (`BansStand`) and nothing is about to delete its
row (`BansAlone`), an unban deletes the row it has read and leaves none behind
(`UnbansHit`), what is removed elsewhere is in force no more (`RemovalsDue`), and an
entry and a refresh's snapshot follow the row or await a message that makes them
(`EntriesTrack`, `SnapsTrack`).

**DrawQueue** (`TypesHold`, `OneAtATime`, `FirstComeFirstServed`, `NoLostWakeUp`). Beside
the properties, the invariant says how a handler, its future and the task it leaves behind go
together (`Shapes`) and that tickets are given once (`Tickets`); one lemma says what an
attempt to wake the next does, and every step that makes one cites it. `NoLostWakeUp` (`WakeIsDue`: with
the turn free and somebody waiting, a wake-up is due) is proved and not run.

**Russian** (`DuelCorrect`, `AlwaysTimed`, `PaysOnce`), for any users and number of
commands. `DuelIsTimed` says that a duel has its job, a task about to build it, or the
job's own settlement. That a command settles would not do: it may fail and leave the
duel. It rests on `Present` (who holds a duel holds the entry). `PaysOnce` needs `Players` (an unaccepted duel has no settlement and no winner)
and `Uncontested`: one task at a time settles a duel nobody contests, that task carries
the winner of the shot, and the duel is paid only while that task is about to remove it.
The action property then follows from the state before the step.

**RedBag** (`TypeCorrect`, `Accounted`, `OncePerBroadcast`), for any users, groups,
broadcasts, contents of a bag and number of handlers. `PiecesAccounted` needs what each
handler remembers (`Handlers`: above all that a bag on its way is paid for and nobody
has seen it), that a bag is in the dict of one group at most (`Homes`) and in none once
it was given back (`Returned`): whoever opens a bag, or takes one back, finds it with no
refund. `FestiveOnce` is `OnePiece`, over all bags of a broadcast at once, with `Openers`
(whoever had a turn is marked, and a marked user gets no other). That no balance is
negative, although `SendSave` writes back an old one, is because the amount was compared
with the very balance that is saved (`HandlerOK`, "save").

Gold in a bag is a sum over a sequence of any length, and the library's induction
theorems are out of reach. `RedBagProofs` does without: `Sum` is a recursive function;
that there are totals up to every place of a sequence, and only one function of them,
is shown by the least place that would have none (`LeastNumber`, from the
well-foundedness of `<` on the numbers), and a piece taken off the end is one term less
(`SumAppend`).

Only model-checked: liveness (`StopTerminates` and the fairness of `ImplementsService`,
`BufferDrains`, `StopReturns`, `RetiredGo`, `CloseReturns`, `CachesHeal`, `Served`,
`DuelEnds`), which TLAPS here does not prove under fairness. Every other property of a
passing run is a theorem. The two properties of the runs that expect a violation,
`NoGoldLost` and `OnlyOpenedUpSettled`, are false.

## 6. Not modelled

Within the modelled components: message contents, observation records, logging,
images, statistics tables, the length of intervals and backoffs (time passes when it
likes). A fault that needs a certain number of seconds is out of reach, and so is
`2 ** failures` overflowing after a thousand failures. What a module leaves out of its
component is said in its section above and in `PROJECT.json`: cancelled renders, the
retries, targets and ephemeral jobs of the scheduler, limits on places, plugins loaded
on demand, the balances of a duel.

Of the other components:

* Bank, shop and sign-in, and what else changes gold or props by reading a row and
  saving it later, would repeat `NoGoldLost`.
* The other six caches of `runtime_cache.py` share the ban cache's refresh, upsert and
  remove, without its two-row lookups and its expiry.
* Sandboxes (`services/ai/sandbox`, `utils/lifespan.py`) keep state worth a module.
  Reading them shows four hazards that are in no run: whether a container is in use is
  asked without the id of the session that closes, so that closing an old session
  stops the container of a new one of the same id; a session that is being created is
  not among the active ones yet, so that the shared container may be deleted under it;
  the kill's `pop` may take a newer container from the registry; a registration that
  runs out during the creation leaves the session unwatched.
* The remaining AI services follow a remote model's answers. Their own state is a
  history of messages.
* Lifecycle and bootstrap run hooks once, in the order of their priorities. What
  matters of them, a stop that meets work in flight, is in the services' modules.
* Tags, help, models, utilities, administration, web console, entertainment and
  vendored plugins format, query or call in one go. They are most of the repository:
  the modules stand for a small share of its lines, but for most of the bot's own code
  that keeps state between awaits.

## 7. Plan

What is left, the most important first:

1. Sandboxes with the lifespan manager: sessions, their shared container and the
   registrations that run out, for the four hazards above.
2. Bank beside `RedBag` on one gold column.
3. `BoundedTTLCache` against a reference map, and the other runtime caches as
   instances of one module.
4. Proofs about what TLC cannot enumerate: that each counter and history variable of the
   modules says what its comment says, as lemmas on the specifications; and safety
   properties behind the liveness ones, as `NoLostWakeUp` is behind `Served`.
