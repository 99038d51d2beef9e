---------------------------- MODULE ContextPool ----------------------------
(***************************************************************************)
(* services/renderer/engine.py, PlaywrightEngine: renders share a pool of  *)
(* browser contexts.  A context belongs to a generation; swapping to a new *)
(* generation retires the old one, whose contexts are closed when no       *)
(* render leases one of them.  Callers that ask for the same page share    *)
(* one render task, named here after the caller that started it.           *)
(*                                                                         *)
(* _state_lock and the tracker's lock are never held across an await, so   *)
(* that a block under them is one step.  A render is suspended while it    *)
(* waits for its turn, opens a context, renders, builds a generation and   *)
(* closes its page: an action is what a task does between two of these.    *)
(* A render or close that disposes of contexts goes on when all are closed, *)
(* and nobody can reach them meanwhile: the closing is one step with the   *)
(* removal.  The idle loop may be cancelled on its way: it closes what it  *)
(* has removed one context at a time.  The order in a pool, page contents, *)
(* timing and the memory thresholds are left out.                          *)
(***************************************************************************)
EXTENDS Integers, FiniteSets

CONSTANTS Callers,         \* the calls of render
          KeyOf,           \* the dedupe key of each call
          MaxRender,       \* _MAX_CONCURRENT_RENDER
          PoolSize,        \* _CONTEXT_POOL_SIZE
          Prewarm,         \* _PREWARM_CONTEXT_COUNT
          MaxGenerations,  \* bound of the model: generations ever made
          MaxContexts,     \* bound of the model: contexts the browser ever opens
          IdleLoop,        \* _idle_recycle_loop
          None

ASSUME CallersFinite == IsFiniteSet(Callers) /\ None \notin Callers /\ IdleLoop \notin Callers
ASSUME SizesPositive == /\ MaxRender \in Nat \ {0} /\ PoolSize \in Nat \ {0}
                        /\ Prewarm \in Nat /\ MaxGenerations \in Nat \ {0}
                        /\ MaxContexts \in Nat
\* A render that finds no context may open one: see NobodyStarves.
ASSUME RoomForAll == MaxRender <= PoolSize

VARIABLES
  pc,        \* where each call, and the task it started, is
  shared,    \* the task each call that joined one awaits
  inflight,  \* _inflight_tasks: the task of each key
  recent,    \* _recent_results: the keys with a result
  lease,     \* the generation and the context each task holds; 0 is none
  fate,      \* what a task does once its context is released: end well, fail, or try again
  tries,     \* the attempts a task has begun
  gens,      \* _generation_counter
  active,    \* _active_generation; 0 is none
  retired,   \* the generations whose retiring flag is set
  retiring,  \* _retiring_generations
  all,       \* all_contexts of each generation
  pool,      \* context_pool of each generation
  leases,    \* active_leases of each generation
  built,     \* the new generation each task in _swap_generation is building
  made,      \* contexts opened so far: 1..made
  closed,    \* contexts closed
  doomed,    \* contexts the idle loop has removed and has yet to close
  stray,     \* open contexts close made the idle loop drop: no generation has them
  tracked,   \* _active_tasks of the tracker
  closer     \* close: not called, waiting for the tracker, for the tasks, done

vars == <<pc, shared, inflight, recent, lease, fate, tries, gens, active, retired,
          retiring, all, pool, leases, built, made, closed, doomed, stray, tracked, closer>>
taskVars == <<shared, inflight, recent, tracked, closer>>
poolVars == <<gens, active, retired, retiring, all, pool, leases, built, made, closed,
              doomed, stray>>

Keys == {KeyOf[c] : c \in Callers}
Generations == 1..MaxGenerations
Swappers == Callers \cup {IdleLoop}
NoLease == [gen |-> 0, ctx |-> 0]

Init == /\ pc = [c \in Callers |-> "idle"]
        /\ shared = [c \in Callers |-> None]
        /\ inflight = [k \in Keys |-> None]
        /\ recent = {}
        /\ lease = [c \in Callers |-> NoLease]
        /\ fate = [c \in Callers |-> "fail"]
        /\ tries = [c \in Callers |-> 0]
        /\ gens = 0 /\ active = 0 /\ retired = {} /\ retiring = {}
        /\ all = [g \in Generations |-> {}]
        /\ pool = [g \in Generations |-> {}]
        /\ leases = [g \in Generations |-> 0]
        /\ built = [s \in Swappers |-> 0]
        /\ made = 0 /\ closed = {} /\ doomed = {} /\ stray = {}
        /\ tracked = 0
        /\ closer = "open"

-----------------------------------------------------------------------------
\* State formulae

Closing == closer # "open"    \* _closing, and the tracker is draining

\* Holds a permit of _render_semaphore.
Rendering(c) == pc[c] \in {"create", "render", "swap", "leave", "again", "oneoff"}
PermitFree == Cardinality({c \in Callers : Rendering(c)}) < MaxRender

HasLease(c) == lease[c].ctx # 0
HoldersOf(g) == {c \in Callers : lease[c].gen = g /\ HasLease(c)}

Less(n) == IF n = 0 THEN 0 ELSE n - 1

\* Take all contexts of the generations in D out of them: idle, the loop has yet to
\* close them, else they are closed.
Dispose(D, all1, pool1, closed1, idle) ==
  LET removed == UNION {all1[g] : g \in D}
  IN  /\ all' = [g \in Generations |-> IF g \in D THEN {} ELSE all1[g]]
      /\ pool' = [g \in Generations |-> IF g \in D THEN {} ELSE pool1[g]]
      /\ closed' = IF idle THEN closed1 ELSE closed1 \cup removed
      /\ doomed' = IF idle THEN doomed \cup removed ELSE doomed

\* Mutant: leases are not looked at.
CleanUpAll(retiring1, all1, pool1, leases1, closed1, idle) ==
  retiring' = {} /\ Dispose(retiring1, all1, pool1, closed1, idle)

\* _cleanup_retiring_generations
CleanUp(retiring1, all1, pool1, leases1, closed1, idle) ==
  LET D == {g \in retiring1 : leases1[g] = 0}
  IN  /\ retiring' = retiring1 \ D
      /\ Dispose(D, all1, pool1, closed1, idle)

-----------------------------------------------------------------------------
\* render: a call is refused, answered from the recent results, joins the task
\* of its key or starts one.  A result counts for a few seconds only: a call may
\* find that it has expired, and forgets it.

CallJoining(c, inflightTask) ==
  /\ pc[c] = "idle"
  /\ LET k == KeyOf[c]
     IN  \/ /\ Closing \/ k \in recent
            /\ pc' = [pc EXCEPT ![c] = "done"]
            /\ UNCHANGED <<shared, inflight, recent>>
         \/ /\ ~Closing /\ recent' = recent \ {k}
            /\ IF inflightTask # None
               THEN /\ pc' = [pc EXCEPT ![c] = "join"]
                    /\ shared' = [shared EXCEPT ![c] = inflightTask]
                    /\ UNCHANGED inflight
               ELSE /\ pc' = [pc EXCEPT ![c] = "queue"]
                    /\ inflight' = [inflight EXCEPT ![k] = c]
                    /\ UNCHANGED shared
  /\ UNCHANGED <<lease, fate, tries, tracked, closer, poolVars>>

\* Mutant: the tasks in flight are not looked at.
CallAlone(c) == CallJoining(c, None)

Call(c) == CallJoining(c, inflight[KeyOf[c]])

\* A caller that joined a task gets its outcome.
Joined(c) ==
  /\ pc[c] = "join" /\ pc[shared[c]] \in {"ended", "done"}
  /\ pc' = [pc EXCEPT ![c] = "done"]
  /\ shared' = [shared EXCEPT ![c] = None]
  /\ UNCHANGED <<inflight, recent, tracked, closer, lease, fate, tries, poolVars>>

\* The caller that started the task removes it from the tasks in flight.
Returned(c) ==
  /\ pc[c] = "ended"
  /\ pc' = [pc EXCEPT ![c] = "done"]
  /\ inflight' = IF inflight[KeyOf[c]] = c THEN [inflight EXCEPT ![KeyOf[c]] = None] ELSE inflight
  /\ UNCHANGED <<shared, recent, lease, fate, tries, tracked, closer, poolVars>>

-----------------------------------------------------------------------------
\* _acquire_context: take a context of the pool, or open one if the generation
\* has room.  (Its last resort, a blocking get, is never reached: NobodyStarves.)

Take(c) ==
  /\ active # 0
  /\ \E x \in pool[active] :
       /\ pool' = [pool EXCEPT ![active] = @ \ {x}]
       /\ lease' = [lease EXCEPT ![c] = [gen |-> active, ctx |-> x]]
       /\ leases' = [leases EXCEPT ![active] = @ + 1]
  /\ pc' = [pc EXCEPT ![c] = "render"]
  /\ UNCHANGED <<gens, active, all>>

HasRoom(g) == pool[g] = {} /\ Cardinality(all[g]) < PoolSize

OpenOne(c) ==
  /\ IF active = 0 THEN gens' = gens + 1 /\ active' = gens + 1
                   ELSE HasRoom(active) /\ UNCHANGED <<gens, active>>
  /\ lease' = [lease EXCEPT ![c] = [gen |-> active', ctx |-> 0]]
  /\ pc' = [pc EXCEPT ![c] = "create"]
  /\ UNCHANGED <<pool, leases, all>>

Acquire(c) == /\ Take(c) \/ OpenOne(c)
              /\ tries' = [tries EXCEPT ![c] = @ + 1]
              /\ UNCHANGED <<retired, retiring, built, made, closed, doomed, stray>>

\* The browser opened a context, which joins generation g.
OpenIn(c, g) ==
  /\ pc[c] = "create" /\ made < MaxContexts
  /\ all' = [all EXCEPT ![g] = @ \cup {made + 1}]
  /\ leases' = [leases EXCEPT ![g] = @ + 1]
  /\ lease' = [lease EXCEPT ![c] = [gen |-> g, ctx |-> made + 1]]
  /\ made' = made + 1
  /\ pc' = [pc EXCEPT ![c] = "render"]
  /\ UNCHANGED <<taskVars, fate, tries, gens, active, retired, retiring, pool, built, closed,
                 doomed, stray>>

\* Mutant: a generation that was retired meanwhile is not looked at.
OpenedInPlace(c) == OpenIn(c, lease[c].gen)

\* The active generation, if the one the context was meant for has been retired.
Opened(c) ==
  OpenIn(c, IF lease[c].gen \in retired /\ active # 0 THEN active ELSE lease[c].gen)

\* _release_context with _discard_context: back to the pool, or closed when it is
\* broken or the engine closes or the generation is retired; then retired
\* generations without leases go.  (They go here, not after the context is closed:
\* they have no leases from this step on, and nothing but a clean-up reads them.)
ReleaseOf(c, less, discarded) ==
  LET g == lease[c].gen
      x == lease[c].ctx
      keep == fate[c] = "well" /\ ~Closing /\ g \notin retired /\ x \in all[g]
      leases1 == [leases EXCEPT ![g] = less]
      all1 == IF keep THEN all ELSE [all EXCEPT ![g] = @ \ discarded]
      pool1 == IF keep THEN [pool EXCEPT ![g] = @ \cup {x}] ELSE pool
      closed1 == IF ~keep /\ x \in all[g] THEN closed \cup {x} ELSE closed
  IN  /\ pc[c] = "leave"
      /\ leases' = leases1
      /\ CleanUp(retiring, all1, pool1, leases1, closed1, FALSE)
      /\ lease' = [lease EXCEPT ![c] = NoLease]
      /\ pc' = [pc EXCEPT ![c] = "again"]
      /\ UNCHANGED <<taskVars, fate, tries, gens, active, retired, built, made, stray>>

\* Mutant: the lease is not given up.
ReleaseKept(c) == ReleaseOf(c, leases[lease[c].gen], {lease[c].ctx})

\* Mutant: it is given up twice.
ReleaseTwice(c) == ReleaseOf(c, leases[lease[c].gen] - 2, {lease[c].ctx})

\* Mutant: a broken context is closed, but the generation keeps it.
ReleaseListed(c) == ReleaseOf(c, Less(leases[lease[c].gen]), {})

Release(c) == ReleaseOf(c, Less(leases[lease[c].gen]), {lease[c].ctx})

-----------------------------------------------------------------------------
\* _swap_generation: build a generation, then put it in the place of the active one

StartSwap(s) ==
  /\ built[s] = 0 /\ gens < (IF active = 0 THEN MaxGenerations - 1 ELSE MaxGenerations)
  /\ gens' = gens + 1
  /\ built' = [built EXCEPT ![s] = gens + 1]

\* Mutant: one more context is opened ahead.
AheadOneMore == {n \in 0..(Prewarm + 1) : made + n <= MaxContexts}

\* How many contexts could be opened ahead: the first failure ends it, as does close.
Ahead == {n \in 0..Prewarm : made + n <= MaxContexts}

InstallKeeping(s, others) ==
  LET g == built[s]
  IN  /\ g # 0
      /\ \E n \in Ahead :
           LET fresh == (made + 1)..(made + n)
           IN  /\ made' = made + n
               /\ CleanUp(others, [all EXCEPT ![g] = fresh], [pool EXCEPT ![g] = fresh],
                          leases, closed, s = IdleLoop)
      /\ active' = g
      /\ built' = [built EXCEPT ![s] = 0]

\* Mutant: the old generation is dropped, not kept until its leases end.
InstallForgetting(s) == InstallKeeping(s, retiring) /\ retired' = retired \cup ({active} \ {0})

Install(s) == /\ InstallKeeping(s, retiring \cup ({active} \ {0}))
              /\ retired' = retired \cup ({active} \ {0})

-----------------------------------------------------------------------------
\* A render task: its turn, one or two attempts, its end

\* The semaphore lets the task in, the tracker counts it; a tracker that is
\* draining refuses it.
Begin(c) ==
  /\ pc[c] = "queue" /\ PermitFree
  /\ IF Closing
     THEN /\ pc' = [pc EXCEPT ![c] = "ended"]
          /\ UNCHANGED <<lease, tries, tracked, poolVars>>
     ELSE Acquire(c) /\ tracked' = tracked + 1
  /\ UNCHANGED <<shared, inflight, recent, fate, closer>>

\* Page options the pool cannot serve: a page of its own.
BeginOneOff(c) ==
  /\ pc[c] = "queue" /\ PermitFree /\ ~Closing
  /\ pc' = [pc EXCEPT ![c] = "oneoff"]
  /\ tracked' = tracked + 1
  /\ UNCHANGED <<shared, inflight, recent, lease, fate, tries, closer, poolVars>>

\* The page is rendered, or fails; a second failure is final.
Rendered(c) ==
  /\ pc[c] = "render"
  /\ pc' = [pc EXCEPT ![c] = "leave"]
  /\ \E f \in {"well", IF tries[c] = 1 THEN "retry" ELSE "fail"} : fate' = [fate EXCEPT ![c] = f]
  /\ UNCHANGED <<taskVars, lease, tries, poolVars>>

\* The browser is gone: build a new generation, still with the lease of the old.
TargetClosed(c) ==
  /\ pc[c] = "render" /\ tries[c] = 1
  /\ pc' = [pc EXCEPT ![c] = "swap"]
  /\ fate' = [fate EXCEPT ![c] = "retry"]
  /\ StartSwap(c)
  /\ UNCHANGED <<taskVars, lease, tries, active, retired, retiring, all, pool, leases, made,
                 closed, doomed, stray>>

Swapped(c) ==
  /\ pc[c] = "swap"
  /\ Install(c)
  /\ pc' = [pc EXCEPT ![c] = "leave"]
  /\ UNCHANGED <<taskVars, lease, fate, tries, gens, leases, stray>>

Retry(c) ==
  /\ pc[c] = "again" /\ fate[c] = "retry"
  /\ Acquire(c)
  /\ UNCHANGED <<taskVars, fate>>

\* _on_render_end, the permit and the result.
EndAt(c, well, tracked1) ==
  /\ pc' = [pc EXCEPT ![c] = "ended"]
  /\ tracked' = tracked1
  /\ recent' = IF well THEN recent \cup {KeyOf[c]} ELSE recent
  /\ lease' = [lease EXCEPT ![c] = NoLease]
  /\ fate' = [fate EXCEPT ![c] = "fail"]
  /\ tries' = [tries EXCEPT ![c] = 0]
  /\ UNCHANGED <<shared, inflight, closer, poolVars>>

End(c, well) == EndAt(c, well, Less(tracked))

EndPooled(c) == pc[c] = "again" /\ fate[c] # "retry" /\ End(c, fate[c] = "well")

\* Mutant: the tracker still counts the task.
EndUnopenedCounted(c) == pc[c] = "create" /\ EndAt(c, FALSE, tracked)

\* The browser could not open the context.
EndUnopened(c) == pc[c] = "create" /\ End(c, FALSE)

EndOneOff(c) == pc[c] = "oneoff" /\ \E well \in BOOLEAN : End(c, well)

-----------------------------------------------------------------------------
\* _idle_recycle_loop, when nothing renders and memory is short; close cancels it

IdleRecycle ==
  /\ closer = "open" /\ tracked = 0 /\ doomed = {}
  /\ StartSwap(IdleLoop)
  /\ UNCHANGED <<taskVars, pc, lease, fate, tries, active, retired, retiring, all, pool,
                 leases, made, closed, doomed, stray>>

IdleRecycled ==
  /\ Install(IdleLoop)
  /\ UNCHANGED <<taskVars, pc, lease, fate, tries, gens, leases, stray>>

\* _dispose_generation in the idle loop: one more context is closed.
IdleCloses ==
  /\ \E x \in doomed : doomed' = doomed \ {x} /\ closed' = closed \cup {x}
  /\ UNCHANGED <<taskVars, pc, lease, fate, tries, gens, active, retired, retiring, all, pool,
                 leases, built, made, stray>>

-----------------------------------------------------------------------------
\* close

\* Nothing lists the contexts the idle loop had opened ahead, nor those it had removed
\* and not closed.
Close ==
  /\ closer = "open"
  /\ closer' = "draining"
  /\ recent' = {}
  /\ built' = [built EXCEPT ![IdleLoop] = 0]
  /\ doomed' = {}
  /\ \E n \in IF built[IdleLoop] = 0 THEN {0} ELSE Ahead :
       made' = made + n /\ stray' = stray \cup doomed \cup (made + 1)..(made + n)
  /\ UNCHANGED <<pc, shared, inflight, lease, fate, tries, gens, active, retired, retiring,
                 all, pool, leases, closed, tracked>>

Drained ==
  /\ closer = "draining" /\ tracked = 0
  /\ closer' = "gathering"
  /\ UNCHANGED <<pc, shared, inflight, recent, lease, fate, tries, tracked, poolVars>>

\* The tasks awaited have ended: _dispose_context_pool.
ClosedAfter(tasks) ==
  /\ closer = "gathering"
  /\ \A t \in tasks : pc[t] \in {"ended", "done"}
  /\ closer' = "closed"
  /\ inflight' = [k \in Keys |-> None]
  /\ Dispose(retiring \cup ({active} \ {0}), all, pool, closed, FALSE)
  /\ active' = 0 /\ retiring' = {}
  /\ UNCHANGED <<pc, shared, recent, lease, fate, tries, gens, retired, leases, built, made, stray, tracked>>

\* Mutant: it does not wait for the tasks in flight.
ClosedAtOnce == ClosedAfter({})

Closed == ClosedAfter({inflight[k] : k \in Keys} \ {None})

-----------------------------------------------------------------------------
TaskStep(c) ==
  \/ Joined(c) \/ Returned(c)
  \/ Begin(c) \/ BeginOneOff(c)
  \/ Opened(c) \/ EndUnopened(c)
  \/ Rendered(c) \/ TargetClosed(c) \/ Swapped(c)
  \/ Release(c) \/ Retry(c)
  \/ EndPooled(c) \/ EndOneOff(c)

\* What goes on by itself
Step == (\E c \in Callers : TaskStep(c)) \/ IdleRecycled \/ IdleCloses \/ Drained \/ Closed

Next == Step \/ (\E c \in Callers : Call(c)) \/ IdleRecycle \/ Close

\* Every await of a task ends, the browser's by its timeouts; nobody has to call,
\* to recycle or to close.
Spec == Init /\ [][Next]_vars /\ WF_vars(Step)

-----------------------------------------------------------------------------
\* Properties

Fates == {"well", "retry", "fail"}

\* Every variable has its type; the engine's counters never fall below zero, so
\* that the max(0, ...) in the code never hides a release too many.
TypeOK ==
  /\ pc \in [Callers -> {"idle", "join", "queue", "create", "render", "swap", "leave",
                         "again", "oneoff", "ended", "done"}]
  /\ shared \in [Callers -> Callers \cup {None}]
  /\ inflight \in [Keys -> Callers \cup {None}]
  /\ recent \subseteq Keys
  /\ lease \in [Callers -> [gen : 0..MaxGenerations, ctx : Nat]]
  /\ fate \in [Callers -> Fates] /\ tries \in [Callers -> Nat]
  /\ gens \in 0..MaxGenerations /\ active \in 0..MaxGenerations
  /\ retired \subseteq Generations /\ retiring \subseteq Generations
  /\ all \in [Generations -> SUBSET Nat] /\ pool \in [Generations -> SUBSET Nat]
  /\ leases \in [Generations -> Nat]
  /\ built \in [Swappers -> 0..MaxGenerations]
  /\ made \in Nat
  /\ closed \subseteq 1..made /\ doomed \subseteq 1..made /\ stray \subseteq 1..made
  /\ tracked \in Nat
  /\ closer \in {"open", "draining", "gathering", "closed"}

\* active_leases is the number of renders that hold a context of the generation,
\* through swaps, retries and failures, and a generation with leases is still known
\* to the engine: the two facts that make it safe to dispose of a retired generation.
LeasesAreCounted ==
  \A g \in Generations : /\ leases[g] = Cardinality(HoldersOf(g))
                         /\ leases[g] > 0 => g = active \/ g \in retiring

\* A render whose turn it is finds a context in the pool, or room to open one: the
\* blocking get at the end of _acquire_context, which nothing would ever wake once the
\* generation is retired, is not reached.
MayAcquire(c) == \/ pc[c] = "queue" /\ PermitFree /\ ~Closing
                 \/ pc[c] = "again" /\ fate[c] = "retry"
NobodyStarves ==
  \A c \in Callers : MayAcquire(c) /\ active # 0 => pool[active] # {} \/ HasRoom(active)

\* A generation may exceed _CONTEXT_POOL_SIZE, as contexts opened for a retired one
\* join its successor, but by no more than the renders under way.
PoolBounded == \A g \in Generations : Cardinality(all[g]) <= Prewarm + MaxRender

\* Whatever calls come while a task of their key starts, renders, fails or has just
\* ended, one task at a time renders a page.
Live(c) == pc[c] = "queue" \/ Rendering(c)
OneTaskPerKey ==
  \A c, d \in Callers : Live(c) /\ Live(d) /\ KeyOf[c] = KeyOf[d] => c = d

\* When close has disposed of the pools, no render is left to use one, no context is
\* open and none is leased, although renders were queued or under way when it began;
\* save the contexts that the idle loop had opened ahead for a generation it was
\* building, or had removed from a retired one and not yet closed, when close cancelled
\* it: no generation lists them, and only the shutdown of the browser, the next step
\* of close, ends them.
ClosedIsEmpty ==
  closer = "closed" => /\ \A c \in Callers : ~Live(c) /\ ~HasLease(c)
                       /\ closed \cup stray = 1..made
                       /\ tracked = 0

\* Contexts are leased to one render at a time and closed once.
Leases == INSTANCE LeasePool WITH Renders <- Callers, opened <- made, gone <- closed,
                                  leased <- [c \in Callers |-> lease[c].ctx]
ImplementsLeasePool == Leases!Spec

\* Retired generations are disposed of in the end, whether or not the engine closes:
\* once nothing is swapped any more, the last render to release a context sees to it.
RetiredGo == []<>(retiring = {})

\* close returns, whatever renders are queued or under way, and whatever fails.
CloseReturns == []<>(closer \in {"open", "closed"})
=============================================================================
