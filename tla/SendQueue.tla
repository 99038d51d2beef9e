----------------------------- MODULE SendQueue -----------------------------
(***************************************************************************)
(* services/send_queue.py: the OneBot adapter's _call_api is replaced by   *)
(* _queued_call_api, which puts a message on a bounded queue and awaits a  *)
(* future.  Worker tasks take items in order; each passes the rate limit   *)
(* (an asyncio.Lock held over a sleep), then a semaphore around the API    *)
(* call, and sets the future.  A full queue falls back to sending from the *)
(* caller's own task or, for send_like, drops.  stop_send_queue waits for  *)
(* the queue to drain, errors what is left when it times out, cancels the  *)
(* workers and restores the adapter.                                       *)
(*                                                                         *)
(* asyncio.Lock and asyncio.Semaphore serve their waiters in FIFO order.   *)
(* A request is one call; it is made at most once, so that a finite set of *)
(* them bounds the model.  Time is abstracted: a sleep or a timeout ends   *)
(* whenever it likes.                                                      *)
(***************************************************************************)
EXTENDS Integers, FiniteSets, SequencesExt, AsyncioLock

CONSTANTS Texts,       \* calls of send_msg, send_group_msg, send_private_msg
          Likes,       \* calls of send_like
          Others,      \* calls of APIs outside _SEND_APIS, or of another platform
          Workers,     \* the worker tasks, _WORKERS of them
          QueueMax,    \* _QUEUE_MAXSIZE
          Permits,     \* the permits of _API_SEMAPHORE
          None         \* no request

Requests == Texts \cup Likes \cup Others

ASSUME RequestsDisjoint == /\ Texts \cap Likes = {}
                           /\ (Texts \cup Likes) \cap Others = {}
                           /\ None \notin Requests
ASSUME SizesPositive == QueueMax \in Nat \ {0} /\ Permits \in Nat \ {0}
ASSUME WorkersFinite == IsFiniteSet(Workers) /\ Workers # {}

VARIABLES
  phase,       \* of the module: "off" (unpatched), "on", "join" and "gather" (stopping)
  queue,       \* _QUEUE
  unfinished,  \* the queue's count of items put and not yet marked done
  alive,       \* the workers that have not ended
  held,        \* the item each worker has taken and not finished
  lock,        \* _SEND_LOCK: its holder, then its waiters
  slot,        \* the waiters of _API_SEMAPHORE
  calling,     \* the requests inside the original _call_api
  via,         \* the way each request took: "queue", "direct" or "raw"
  reply,       \* what each caller has been told; "waiting" while it awaits
  accepted,    \* history: the requests in the order they were put on the queue
  sent         \* history: the requests in the order their API calls started

vars == <<phase, queue, unfinished, alive, held, lock, slot, calling, via, reply,
          accepted, sent>>

Phases  == {"off", "on", "join", "gather"}
Routes  == {"none", "queue", "direct", "raw"}
Replies == {"idle", "waiting", "ok", "error", "dropped", "cancelled"}

Patched  == phase # "off"
Stopping == phase \in {"join", "gather"}

-----------------------------------------------------------------------------
\* Helpers

\* The calls that hold a permit: a raw call takes none.
Permitted == {r \in calling : via[r] # "raw"}

\* The request's task has not been cancelled: stop cancels the workers, and a
\* cancelled worker does nothing more than end.
Running(r) == phase = "gather" => \A w \in Workers : held[w] # r

\* Mutant: a future is resolved without asking whether it is done.
AnswerAnyway(S, a) == [r \in Requests |-> IF r \in S THEN a ELSE reply[r]]

\* The futures of S are resolved with an answer, those already done excepted.
AnswerIfWaiting(S, a) ==
  [r \in Requests |-> IF r \in S /\ reply[r] = "waiting" THEN a ELSE reply[r]]

-----------------------------------------------------------------------------
Init == /\ phase = "off"
        /\ queue = <<>>
        /\ unfinished = 0
        /\ alive = {}
        /\ held = [w \in Workers |-> None]
        /\ lock = <<>>
        /\ slot = <<>>
        /\ calling = {}
        /\ via = [r \in Requests |-> "none"]
        /\ reply = [r \in Requests |-> "idle"]
        /\ accepted = <<>>
        /\ sent = <<>>

-----------------------------------------------------------------------------
\* The caller: _queued_call_api, or the original function when not patched.

Begin(r, route) == /\ reply[r] = "idle"
                   /\ via' = [via EXCEPT ![r] = route]
                   /\ reply' = [reply EXCEPT ![r] = "waiting"]

\* The original _call_api at once, with no queue, rate limit or permit.
CallRaw(r) == /\ ~Patched \/ r \in Others
              /\ Begin(r, "raw")
              /\ calling' = calling \cup {r}
              /\ sent' = Append(sent, r)
              /\ UNCHANGED <<accepted, phase, queue, unfinished, alive, held, lock, slot>>

\* put_nowait, then await the future.
Put(r) == /\ Patched /\ ~Stopping /\ r \notin Others
          /\ Begin(r, "queue")
          /\ queue' = Append(queue, r)
          /\ unfinished' = unfinished + 1
          /\ accepted' = Append(accepted, r)
          /\ UNCHANGED <<phase, alive, held, lock, slot, calling, sent>>

Enqueue(r) == Len(queue) < QueueMax /\ Put(r)

\* QueueFull: a send_like returns None and is not sent.
DropLike(r) == /\ Patched /\ ~Stopping /\ r \in Likes
               /\ Len(queue) >= QueueMax
               /\ reply[r] = "idle"
               /\ reply' = [reply EXCEPT ![r] = "dropped"]
               /\ UNCHANGED <<accepted, phase, queue, unfinished, alive, held, lock, slot,
                              calling, via, sent>>

\* While stopping, and for a message on QueueFull: _direct_call_api in the
\* caller's own task, which first waits for the rate limit.
CallDirect(r) == /\ r \notin Others
                 /\ \/ Stopping
                    \/ phase = "on" /\ Len(queue) >= QueueMax /\ r \notin Likes
                 /\ Begin(r, "direct")
                 /\ lock' = Append(lock, r)
                 /\ UNCHANGED <<accepted, phase, queue, unfinished, alive, held, slot, calling, sent>>

\* The caller's task is cancelled.  A queued request only loses its future and
\* is still sent; a direct or raw one is withdrawn wherever it is.
CancelCaller(r) ==
  /\ reply[r] = "waiting"
  /\ reply' = [reply EXCEPT ![r] = "cancelled"]
  /\ IF via[r] = "queue"
     THEN UNCHANGED <<lock, slot, calling>>
     ELSE /\ lock' = Leave(lock, r)
          /\ slot' = Leave(slot, r)
          /\ calling' = calling \ {r}
  /\ UNCHANGED <<accepted, phase, queue, unfinished, alive, held, via, sent>>

-----------------------------------------------------------------------------
\* The worker, and the part of _direct_call_api all paths share.

\* _QUEUE.get(), and straight on to the rate limit's lock.
Take(w) == /\ w \in alive /\ phase # "gather"
           /\ held[w] = None /\ queue # <<>>
           /\ held' = [held EXCEPT ![w] = Head(queue)]
           /\ queue' = Tail(queue)
           /\ lock' = Append(lock, Head(queue))
           /\ UNCHANGED <<accepted, phase, unfinished, alive, slot, calling, via, reply, sent>>

\* The holder of the lock has slept its interval: it releases and queues for a
\* permit.
PassRateLimit == /\ lock # <<>> /\ Running(Head(lock))
                 /\ lock' = Tail(lock)
                 /\ slot' = Append(slot, Head(lock))
                 /\ UNCHANGED <<accepted, phase, queue, unfinished, alive, held, calling, via, reply, sent>>

\* Mutant: a permit goes to any of the waiters.
AcquireAnyhow == \E r \in ToSet(slot) :
                   /\ Running(r)
                   /\ Cardinality(Permitted) < Permits
                   /\ slot' = Leave(slot, r)
                   /\ calling' = calling \cup {r}
                   /\ sent' = Append(sent, r)
                   /\ UNCHANGED <<accepted, phase, queue, unfinished, alive, held, lock,
                                  via, reply>>

\* The first waiter gets a permit and starts the API call.
Acquire == /\ slot # <<>> /\ Running(Head(slot))
           /\ Cardinality(Permitted) < Permits
           /\ slot' = Tail(slot)
           /\ calling' = calling \cup {Head(slot)}
           /\ sent' = Append(sent, Head(slot))
           /\ UNCHANGED <<accepted, phase, queue, unfinished, alive, held, lock, via, reply>>

\* The API call of a direct or raw request returns (a = "ok") or raises.
ReturnToCaller(r, a) == /\ r \in calling /\ via[r] # "queue"
                        /\ calling' = calling \ {r}
                        /\ reply' = [reply EXCEPT ![r] = a]
                        /\ UNCHANGED <<accepted, phase, queue, unfinished, alive, held, lock,
                                       slot, via, sent>>

\* The API call a worker makes returns or raises: the future is resolved unless
\* it is done, and the item is marked done.
Finish(w, a) == /\ held[w] \in calling /\ Running(held[w])
                /\ calling' = calling \ {held[w]}
                /\ reply' = AnswerIfWaiting({held[w]}, a)
                /\ held' = [held EXCEPT ![w] = None]
                /\ unfinished' = unfinished - 1
                /\ UNCHANGED <<accepted, phase, queue, alive, lock, slot, via, sent>>

-----------------------------------------------------------------------------
\* start_send_queue and stop_send_queue

Start == /\ phase = "off"
         /\ phase' = "on"
         /\ alive' = Workers
         /\ UNCHANGED <<accepted, queue, unfinished, held, lock, slot, calling, via, reply, sent>>

Stop == /\ phase = "on"
        /\ phase' = "join"
        /\ UNCHANGED <<accepted, queue, unfinished, alive, held, lock, slot, calling, via, reply, sent>>

\* join() returns, and the workers are cancelled.
Joined == /\ phase = "join" /\ unfinished = 0
          /\ phase' = "gather"
          /\ UNCHANGED <<accepted, queue, unfinished, alive, held, lock, slot, calling, via, reply, sent>>

\* Mutant: the drain discards the items and leaves their futures alone.
DrainSilently == /\ phase = "join"
                 /\ phase' = "gather"
                 /\ unfinished' = unfinished - Len(queue)
                 /\ queue' = <<>>
                 /\ UNCHANGED <<accepted, alive, held, lock, slot, calling, via, reply, sent>>

\* Mutant: the drain does not mark the items done.
DrainUncounted == /\ phase = "join"
                  /\ phase' = "gather"
                  /\ reply' = AnswerIfWaiting(ToSet(queue), "error")
                  /\ queue' = <<>>
                  /\ UNCHANGED <<accepted, unfinished, alive, held, lock, slot, calling, via, sent>>

\* The wait for join() times out: _drain_pending_futures, then the cancellation.
DrainTimeout == /\ phase = "join"
                /\ phase' = "gather"
                /\ reply' = AnswerIfWaiting(ToSet(queue), "error")
                /\ unfinished' = unfinished - Len(queue)
                /\ queue' = <<>>
                /\ UNCHANGED <<accepted, alive, held, lock, slot, calling, via, sent>>

\* Mutant: a cancelled worker ends only if it has nothing in hand.
EndIdleWorker(w) ==
  /\ phase = "gather" /\ w \in alive /\ held[w] = None
  /\ alive' = alive \ {w}
  /\ UNCHANGED <<accepted, phase, queue, unfinished, held, lock, slot, calling, via, reply, sent>>

\* A cancelled worker ends.  With an item in hand it gives up the lock, its
\* place or its permit, errors the future and marks the item done; an API call
\* it had started may or may not have had its effect.
EndWorker(w) ==
  /\ phase = "gather" /\ w \in alive
  /\ alive' = alive \ {w}
  /\ held' = [held EXCEPT ![w] = None]
  /\ lock' = Leave(lock, held[w])
  /\ slot' = Leave(slot, held[w])
  /\ calling' = calling \ {held[w]}
  /\ reply' = AnswerIfWaiting({held[w]}, "error")
  /\ unfinished' = IF held[w] = None THEN unfinished ELSE unfinished - 1
  /\ UNCHANGED <<accepted, phase, queue, via, sent>>

\* gather returns: the adapter is restored and _STOPPING reset.
Unpatch == /\ phase = "gather"
           /\ phase' = "off"
           /\ UNCHANGED <<accepted, queue, unfinished, alive, held, lock, slot, calling, via,
                          reply, sent>>

Stopped == alive = {} /\ Unpatch

-----------------------------------------------------------------------------
Caller(r) == CallRaw(r) \/ Enqueue(r) \/ DropLike(r) \/ CallDirect(r) \/ CancelCaller(r)

Return(r) == \E a \in {"ok", "error"} :
               ReturnToCaller(r, a) \/ \E w \in Workers : held[w] = r /\ Finish(w, a)

Shutdown == Joined \/ DrainTimeout \/ Stopped

Next == \/ \E r \in Requests : Caller(r) \/ Return(r)
        \/ \E w \in Workers : Take(w) \/ EndWorker(w)
        \/ PassRateLimit \/ Acquire
        \/ Start \/ Stop \/ Shutdown

\* The event loop runs every ready task, the interval and the drain timeout
\* elapse, and the adapter ends every API call (it has a timeout of its own).
\* Nobody has to call, cancel, start or stop.
Fairness == /\ \A r \in Requests : WF_vars(Return(r))
            /\ \A w \in Workers : WF_vars(Take(w)) /\ WF_vars(EndWorker(w))
            /\ WF_vars(PassRateLimit) /\ WF_vars(Acquire) /\ WF_vars(Shutdown)

Spec == Init /\ [][Next]_vars /\ Fairness

-----------------------------------------------------------------------------
\* Properties

\* Every variable has its type; the queue keeps its bound.
TypeOK ==
  /\ phase \in Phases
  /\ queue \in Seq(Requests) /\ Len(queue) <= QueueMax
  /\ unfinished \in Nat
  /\ alive \in SUBSET Workers
  /\ held \in [Workers -> Requests \cup {None}]
  /\ lock \in Seq(Requests)
  /\ slot \in Seq(Requests)
  /\ calling \in SUBSET Requests
  /\ via \in [Requests -> Routes]
  /\ reply \in [Requests -> Replies]
  /\ accepted \in Seq(Requests)
  /\ sent \in Seq(Requests)

\* The caller that awaits a future (_queued_call_api) is owed an answer by the
\* queue or by a worker that still lives: no drain, cancellation or failure
\* strands it.  After stop_send_queue there is neither, so nobody waits.
Owned(r) == r \in ToSet(queue) \/ \E w \in alive : held[w] = r

PendingIsOwned ==
  \A r \in Requests : via[r] = "queue" /\ reply[r] = "waiting" => Owned(r)

\* The count that join() waits on is exact through drains and cancellations:
\* join() returns only when every item is finished, and task_done never raises.
JoinCountIsExact ==
  unfinished = Len(queue) + Cardinality({w \in Workers : held[w] # None})

\* What stop_send_queue leaves behind: no item, no worker, and no place in the
\* lock or the semaphore, or permit, that a cancelled worker still occupies.
StopLeavesNothing ==
  ~Patched => /\ queue = <<>> /\ unfinished = 0 /\ alive = {}
              /\ \A r \in ToSet(lock) \cup ToSet(slot) \cup Permitted : via[r] = "direct"

\* Three workers, a lock and a semaphore share the queue, and callers that found
\* it full slip in between; yet no request's API call starts twice, and the calls
\* of queued requests start in the order the queue accepted them.
SentOnceInOrder ==
  /\ IsInjective(sent)
  /\ \A i, j \in DOMAIN sent, k, l \in DOMAIN accepted :
       i < j /\ accepted[k] = sent[i] /\ accepted[l] = sent[j] => k < l

\* The strengthening that makes the invariants above inductive.  A request is
\* in at most one place, once; ...
InFlight == ToSet(lock) \cup ToSet(slot) \cup calling

OnePlaceEach ==
  /\ IsInjective(queue) /\ IsInjective(lock) /\ IsInjective(slot) /\ IsInjective(sent)
  /\ ToSet(queue) \cap InFlight = {}
  /\ ToSet(lock) \cap ToSet(slot) = {}
  /\ (ToSet(lock) \cup ToSet(slot)) \cap calling = {}

\* ... it is in none before it is made, and its call has started once it is in
\* "calling" and not before; ...
SentWhenCalling ==
  /\ \A r \in ToSet(queue) \cup InFlight : reply[r] \in {"waiting", "cancelled"}
  /\ \A r \in ToSet(sent) : reply[r] \notin {"idle", "dropped"}
  /\ (ToSet(queue) \cup ToSet(lock) \cup ToSet(slot)) \cap ToSet(sent) = {}
  /\ calling \subseteq ToSet(sent)

\* ... the route says who makes the call, a live worker that holds it or the
\* caller that waits; ...
RouteHasActor ==
  /\ \A r \in ToSet(queue) : via[r] = "queue"
  /\ \A r \in ToSet(lock) \cup ToSet(slot) : via[r] \in {"queue", "direct"}
  /\ \A r \in calling : via[r] # "none"
  /\ \A r \in InFlight : IF via[r] = "queue" THEN \E w \in alive : held[w] = r
                                             ELSE reply[r] = "waiting"

\* ... a worker's item is in flight, and in no other worker's hands; ...
HeldIsInFlight ==
  \A w \in Workers : held[w] # None =>
    /\ w \in alive /\ held[w] \in InFlight /\ via[held[w]] = "queue"
    /\ \A v \in Workers : held[v] = held[w] => v = w

\* ... and the queue stays empty from the drain on.
EmptyWhenStopped == /\ phase \in {"gather", "off"} => queue = <<>>
                    /\ phase = "off" => alive = {}

IInv == /\ TypeOK /\ PendingIsOwned /\ JoinCountIsExact
        /\ OnePlaceEach /\ SentWhenCalling /\ RouteHasActor
        /\ HeldIsInFlight /\ EmptyWhenStopped

Service == INSTANCE SendService WITH issued <- ToSet(sent)

\* The queue implements the service of SendService: at most one API call per
\* request, one answer per caller, "ok" only for a call that was made, drops
\* for send_like only, and every caller is answered in the end.
ImplementsService == Service!Spec

\* stop_send_queue returns, whatever the API calls in flight do.
StopTerminates == Stopping ~> ~Patched
=============================================================================
