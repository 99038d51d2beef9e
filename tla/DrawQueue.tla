----------------------------- MODULE DrawQueue -----------------------------
(***************************************************************************)
(* plugins/drawer: drawings are made one at a time, at least an interval   *)
(* apart, in the order in which they were asked for.  A handler enters the *)
(* queue, tells its user, waits for its future, draws, and starts a task   *)
(* that leaves the queue, sleeps out the interval and wakes the next.      *)
(*                                                                         *)
(* The sections under the queue's lock do not await, so that each is a     *)
(* step.  A future that is done is dropped when it comes to the front: the *)
(* queue is the pending futures, in the order of their tickets.  A timer   *)
(* never fires early here.                                                 *)
(***************************************************************************)
EXTENDS Integers, FiniteSets

CONSTANTS Requests,   \* calls of handle_draw that get as far as the queue
          None        \* no request

ASSUME RequestsAssumption == IsFiniteSet(Requests) /\ None \notin Requests

VARIABLES pc,           \* each handler
          fut,          \* its future
          ticket,       \* its place in the order of entry; 0 before
          tickets,      \* tickets handed out
          processing,   \* _processing
          leaving,      \* the task of leave() of each request
          mark          \* whose leave() set _next_available_at

vars == <<pc, fut, ticket, tickets, processing, leaving, mark>>

Init == /\ pc = [r \in Requests |-> "idle"]
        /\ fut = [r \in Requests |-> "none"]
        /\ ticket = [r \in Requests |-> 0] /\ tickets = 0
        /\ processing = FALSE
        /\ leaving = [r \in Requests |-> "none"]
        /\ mark = None

Goto(r, to) == pc' = [pc EXCEPT ![r] = to]
LeaveAt(r, to) == leaving' = [leaving EXCEPT ![r] = to]

\* now < _next_available_at
Cooling == mark # None /\ leaving[mark] = "sleep"

Pending(f) == {r \in Requests : f[r] = "pending"}

\* Mutant: the last to come is woken.
LatestOf(W, t) == {r \in W : \A s \in W : t[s] <= t[r]}

EarliestOf(W, t) == {r \in W : \A s \in W : t[r] <= t[s]}

\* Mutant: the next is woken although one is being served.
TryWakeAnyhow(f, t) ==
  IF Cooling \/ Pending(f) = {}
    THEN fut' = f /\ processing' = processing
    ELSE /\ \E r \in EarliestOf(Pending(f), t) : fut' = [f EXCEPT ![r] = "set"]
         /\ processing' = TRUE

\* _try_wake_next_locked, with the futures f and the tickets t
TryWake(f, t) ==
  IF processing \/ Cooling \/ Pending(f) = {}
    THEN fut' = f /\ processing' = processing
    ELSE /\ \E r \in EarliestOf(Pending(f), t) : fut' = [f EXCEPT ![r] = "set"]
         /\ processing' = TRUE

-----------------------------------------------------------------------------
\* The handler

Enter(r) == /\ pc[r] = "idle" /\ Goto(r, "tell")
            /\ tickets' = tickets + 1
            /\ ticket' = [ticket EXCEPT ![r] = tickets + 1]
            /\ TryWake([fut EXCEPT ![r] = "pending"], ticket')
            /\ UNCHANGED <<leaving, mark>>

Tell(r) == /\ pc[r] = "tell" /\ Goto(r, "wait")
           /\ UNCHANGED <<fut, ticket, tickets, processing, leaving, mark>>

\* The message cannot be sent, or the handler is cancelled meanwhile.  This is
\* before the try block: the future stays in the queue.
TellFails(r) == /\ pc[r] = "tell" /\ Goto(r, "gone")
                /\ UNCHANGED <<fut, ticket, tickets, processing, leaving, mark>>

Turn(r) == /\ pc[r] = "wait" /\ fut[r] = "set" /\ Goto(r, "draw")
           /\ UNCHANGED <<fut, ticket, tickets, processing, leaving, mark>>

\* The handler is cancelled in wait_turn: awaiting the future cancels it, unless
\* it was set just before.
Interrupt(r) == /\ pc[r] = "wait" /\ Goto(r, "over")
                /\ IF fut[r] = "set"
                     THEN LeaveAt(r, "start") /\ UNCHANGED fut
                     ELSE fut' = [fut EXCEPT ![r] = "cancelled"] /\ UNCHANGED leaving
                /\ UNCHANGED <<ticket, tickets, processing, mark>>

\* The drawing is made, or fails; a failure calls cancel() first, for a future
\* that is set and out of the queue.
Draw(r) == /\ pc[r] = "draw" /\ Goto(r, "over")
           /\ LeaveAt(r, "start")
           /\ \/ TryWake(fut, ticket)
              \/ UNCHANGED <<fut, processing>>
           /\ UNCHANGED <<ticket, tickets, mark>>

-----------------------------------------------------------------------------
\* The task of leave()

Leave(r) == /\ leaving[r] = "start" /\ LeaveAt(r, "sleep")
            /\ processing' = FALSE /\ mark' = r
            /\ UNCHANGED <<pc, fut, ticket, tickets>>

IntervalOver(r) == /\ leaving[r] = "sleep" /\ LeaveAt(r, "due")
                   /\ UNCHANGED <<pc, fut, ticket, tickets, processing, mark>>

\* Mutant: leave() ends with the interval.
LeaveAsleep(r) == /\ leaving[r] = "due" /\ LeaveAt(r, "over")
                  /\ UNCHANGED <<pc, fut, ticket, tickets, processing, mark>>

WakeNext(r) == /\ leaving[r] = "due" /\ LeaveAt(r, "over")
               /\ TryWake(fut, ticket)
               /\ UNCHANGED <<pc, ticket, tickets, mark>>

Handler(r) == Tell(r) \/ TellFails(r) \/ Turn(r) \/ Draw(r)
LeaveTask(r) == Leave(r) \/ IntervalOver(r) \/ WakeNext(r)

Next == \E r \in Requests : Enter(r) \/ Handler(r) \/ Interrupt(r) \/ LeaveTask(r)

Fairness == \A r \in Requests : WF_vars(Handler(r)) /\ WF_vars(LeaveTask(r))

Spec == Init /\ [][Next]_vars /\ Fairness

-----------------------------------------------------------------------------
\* Properties

TypeOK == /\ pc \in [Requests -> {"idle", "tell", "wait", "draw", "over", "gone"}]
          /\ fut \in [Requests -> {"none", "pending", "set", "cancelled"}]
          /\ ticket \in [Requests -> Nat] /\ tickets \in Nat
          /\ processing \in BOOLEAN
          /\ leaving \in [Requests -> {"none", "start", "sleep", "due", "over"}]
          /\ mark \in Requests \cup {None}

\* The requests whose turn it is, from the wake-up to leave().
InTurn == {r \in Requests : fut[r] = "set" /\ leaving[r] \in {"none", "start"}}

\* At most one request has the turn, _processing says whether one has, and none
\* has it before the interval since the last one is over: two tasks that leave,
\* an entry and a failure may each try to wake the next (DrawerRequestQueue).
OneTurn == /\ \A r, s \in InTurn : r = s
           /\ processing <=> InTurn # {}
           /\ InTurn # {} => ~Cooling

\* Turns are given in the order of entry, cancelled requests left out (_queue).
TurnsInOrder == \A r, s \in Requests :
                  fut[r] = "set" /\ fut[s] = "pending" => ticket[r] < ticket[s]

\* When somebody waits and nobody has the turn, a task of leave() is on its way to
\* wake the first: no wake-up is lost (leave).
WakeIsDue == Pending(fut) # {} /\ ~processing =>
               \E r \in Requests : leaving[r] \in {"sleep", "due"}

\* A request that has entered the queue and is gone without leaving it.
Abandoned(r) == pc[r] = "gone"

\* Who waits gets the turn, unless a request whose message could not be sent has
\* been abandoned before it in the queue: the turn of that one never ends
\* (handle_draw).
Served == \A r \in Requests :
            pc[r] = "wait" ~> \/ pc[r] # "wait"
                             \/ \E s \in Requests : Abandoned(s) /\ ticket[s] < ticket[r]
=============================================================================
