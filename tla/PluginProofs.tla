---------------------------- MODULE PluginProofs ----------------------------
(***************************************************************************)
(* Proofs about two plugins whose state is a dict and a few tasks, the     *)
(* drawing queue (DrawQueue, for any finite number of requests) and the    *)
(* duel of a group (Russian, for any users and number of commands under    *)
(* way).  The two share nothing but this module.                           *)
(*                                                                         *)
(* QueueInv adds to the properties of the queue how the handler, the       *)
(* future and the task of leave() of a request go together, and that       *)
(* tickets tell the requests apart.  DuelInv says which tasks hold the     *)
(* duel, that a command which settles does not stand in for the job, and   *)
(* that an uncontested duel has one settlement, which pays its winner.     *)
(***************************************************************************)
EXTENDS DrawQueue, Russian, TLAPS

-----------------------------------------------------------------------------
\* The drawing queue: the inductive invariant

\* A turn ends only with the handler, and a future is done before its turn ends.
Shapes == \A r \in Requests :
            /\ pc[r] = "idle" <=> fut[r] = "none"
            /\ pc[r] = "draw" => fut[r] = "set"
            /\ leaving[r] # "none" => fut[r] = "set" /\ pc[r] = "over"

Tickets == /\ \A r \in Requests : fut[r] # "none" => ticket[r] \in 1..tickets
           /\ \A r, s \in Requests : /\ fut[r] # "none" /\ fut[s] # "none"
                                     /\ ticket[r] = ticket[s]
                                     => r = s

QueueInv == TypeOK /\ Shapes /\ Tickets /\ OneTurn /\ TurnsInOrder /\ WakeIsDue

-----------------------------------------------------------------------------
\* Lemmas on one attempt to wake the next

\* An attempt to wake the next keeps the types.
LEMMA WakeTypes ==
  ASSUME NEW f, f \in [Requests -> {"none", "pending", "set", "cancelled"}],
         NEW t, TryWake(f, t), processing \in BOOLEAN
  PROVE  /\ fut' \in [Requests -> {"none", "pending", "set", "cancelled"}]
         /\ processing' \in BOOLEAN
BY DEF TryWake, EarliestOf, Pending

\* Either nothing changes, or the first that waits gets a turn nobody had.
WakesNobody(f) == /\ fut' = f /\ processing' = processing
                  /\ processing \/ Cooling \/ Pending(f) = {}

WakesFirst(f, t) == /\ ~processing /\ ~Cooling /\ processing' = TRUE
                    /\ \E q \in Requests :
                         /\ f[q] = "pending"
                         /\ \A s \in Requests : f[s] = "pending" => t[q] <= t[s]
                         /\ fut' = [f EXCEPT ![q] = "set"]

\* An attempt to wake the next does one or the other.
LEMMA WakeEffect ==
  ASSUME NEW f, f \in [Requests -> {"none", "pending", "set", "cancelled"}],
         NEW t, TryWake(f, t)
  PROVE  WakesNobody(f) \/ WakesFirst(f, t)
BY DEF TryWake, EarliestOf, Pending, WakesNobody, WakesFirst

-----------------------------------------------------------------------------
\* Type correctness

\* Every step keeps the types.
LEMMA TypeStep == TypeOK /\ [Next]_vars => TypeOK'
<1> SUFFICES ASSUME TypeOK, [Next]_vars PROVE TypeOK'
    OBVIOUS
<1> USE DEF TypeOK, Goto, LeaveAt
<1>1. ASSUME NEW r \in Requests, Enter(r) PROVE TypeOK'
  <2> [fut EXCEPT ![r] = "pending"] \in [Requests -> {"none", "pending", "set", "cancelled"}]
    OBVIOUS
  <2>1. /\ fut' \in [Requests -> {"none", "pending", "set", "cancelled"}]
        /\ processing' \in BOOLEAN
    BY <1>1, WakeTypes DEF Enter
  <2>2. ticket' \in [Requests -> Nat] /\ tickets' \in Nat
    BY <1>1 DEF Enter
  <2> QED
    BY <1>1, <2>1, <2>2 DEF Enter
<1>2. ASSUME NEW r \in Requests, Tell(r) \/ TellFails(r) \/ Turn(r) PROVE TypeOK'
  BY <1>2 DEF Tell, TellFails, Turn
<1>3. ASSUME NEW r \in Requests, Draw(r) PROVE TypeOK'
  BY <1>3, WakeTypes DEF Draw
<1>4. ASSUME NEW r \in Requests, Interrupt(r) PROVE TypeOK'
  BY <1>4 DEF Interrupt
<1>5. ASSUME NEW r \in Requests, LeaveTask(r) PROVE TypeOK'
  <2>1. CASE Leave(r)
    BY <2>1 DEF Leave
  <2>2. CASE IntervalOver(r)
    BY <2>2 DEF IntervalOver
  <2>3. CASE WakeNext(r)
    BY <2>3, WakeTypes DEF WakeNext
  <2> QED
    BY <1>5, <2>1, <2>2, <2>3 DEF LeaveTask
<1>6. CASE UNCHANGED vars
  BY <1>6 DEF vars
<1> QED
  BY <1>1, <1>2, <1>3, <1>4, <1>5, <1>6 DEF Next, Handler

-----------------------------------------------------------------------------
\* The steps

\* What holds of the futures f and the tickets t before an attempt to wake the
\* next, and of the tasks that leave after it: the parts of the invariant in
\* that order, and that nobody took or lost a turn so far.
Shaped(f) == \A r \in Requests :
  /\ pc'[r] = "idle" <=> f[r] = "none"
  /\ pc'[r] = "draw" => f[r] = "set"
  /\ leaving'[r] # "none" => f[r] = "set" /\ pc'[r] = "over"

Ticketed(f, t) ==
  /\ \A r \in Requests : f[r] # "none" => t[r] \in 1..tickets'
  /\ \A r, s \in Requests : (f[r] # "none" /\ f[s] # "none" /\ t[r] = t[s]) => r = s

Queued(f, t) == \A r, s \in Requests : f[r] = "set" /\ f[s] = "pending" => t[r] < t[s]

SameTurn(f) == InTurn = {r \in Requests : f[r] = "set" /\ leaving'[r] \in {"none", "start"}}

\* An attempt made then leaves the invariant true.
LEMMA Woken ==
  ASSUME TypeOK, TypeOK', OneTurn, NEW f, NEW t,
         f \in [Requests -> {"none", "pending", "set", "cancelled"}],
         t \in [Requests -> Nat], ticket' = t, mark' = mark, Cooling' <=> Cooling,
         Shaped(f), Ticketed(f, t), Queued(f, t), SameTurn(f),
         WakesNobody(f) \/ WakesFirst(f, t)
  PROVE  Shapes' /\ Tickets' /\ OneTurn' /\ TurnsInOrder' /\ WakeIsDue'
<1>1. CASE WakesNobody(f)
  <2>1. fut' = f /\ processing' = processing
    BY <1>1 DEF WakesNobody
  <2>2. Shapes' /\ Tickets' /\ TurnsInOrder'
    BY <2>1 DEF Shaped, Shapes, Ticketed, Tickets, Queued, TurnsInOrder
  <2>3. OneTurn'
    BY <2>1 DEF OneTurn, SameTurn, InTurn
  <2>4. WakeIsDue'
    BY <1>1, <2>1 DEF WakesNobody, WakeIsDue, Pending, Cooling, TypeOK
  <2> QED
    BY <2>2, <2>3, <2>4
<1>2. CASE WakesFirst(f, t)
  <2>1. PICK q \in Requests : /\ f[q] = "pending"
                              /\ \A s \in Requests : f[s] = "pending" => t[q] <= t[s]
                              /\ fut' = [f EXCEPT ![q] = "set"]
    BY <1>2 DEF WakesFirst
  <2>2. ~processing /\ ~Cooling /\ processing' = TRUE
    BY <1>2 DEF WakesFirst
  <2>3. fut'[q] = "set" /\ \A r \in Requests : r # q => fut'[r] = f[r]
    BY <2>1
  <2>4. leaving'[q] = "none"
    BY <2>1, TypeOK' DEF Shaped, TypeOK
  <2>5. Shapes'
    BY <2>1, <2>3 DEF Shaped, Shapes
  <2>6. \A r \in Requests : fut'[r] # "none" <=> f[r] # "none"
    BY <2>1, <2>3
  <2>7. Tickets'
    BY <2>6 DEF Ticketed, Tickets
  <2>8. TurnsInOrder'
    <3> SUFFICES ASSUME NEW r \in Requests, NEW s \in Requests,
                        fut'[r] = "set", fut'[s] = "pending"
                 PROVE  ticket'[r] < ticket'[s]
      BY DEF TurnsInOrder
    <3>1. s # q /\ f[s] = "pending"
      BY <2>3
    <3>2. CASE r # q
      BY <2>3, <3>1, <3>2 DEF Queued
    <3>3. CASE r = q
      <4>1. t[q] <= t[s] /\ t[q] # t[s] /\ t[q] \in Nat /\ t[s] \in Nat
        BY <2>1, <3>1 DEF Ticketed
      <4> QED
        BY <3>3, <4>1
    <3> QED
      BY <3>2, <3>3
  <2>9. InTurn' = {q}
    BY <2>2, <2>3, <2>4 DEF OneTurn, SameTurn, InTurn
  <2>10. OneTurn'
    BY <2>2, <2>9 DEF OneTurn
  <2>11. WakeIsDue'
    BY <2>2 DEF WakeIsDue
  <2> QED
    BY <2>5, <2>7, <2>8, <2>10, <2>11
<1> QED
  BY <1>1, <1>2

\* Every step keeps the invariant.
LEMMA QueueStep == QueueInv /\ [Next]_vars => QueueInv'
<1> SUFFICES ASSUME QueueInv, [Next]_vars PROVE QueueInv'
    OBVIOUS
<1>0. TypeOK /\ TypeOK' /\ Shapes /\ Tickets /\ OneTurn /\ TurnsInOrder /\ WakeIsDue
  BY TypeStep DEF QueueInv
<1> DEFINE Rest == Shapes' /\ Tickets' /\ OneTurn' /\ TurnsInOrder' /\ WakeIsDue'
<1> USE RequestsAssumption DEF Goto, LeaveAt
<1>1. ASSUME NEW r \in Requests, Enter(r) PROVE Rest
  <2> DEFINE f == [fut EXCEPT ![r] = "pending"]
  <2>1. /\ fut[r] = "none" /\ leaving[r] = "none"
        /\ f[r] = "pending" /\ \A s \in Requests : s # r => f[s] = fut[s]
        /\ ticket'[r] = tickets + 1 /\ \A s \in Requests : s # r => ticket'[s] = ticket[s]
        /\ pc'[r] = "tell" /\ \A s \in Requests : s # r => pc'[s] = pc[s]
        /\ tickets' = tickets + 1 /\ leaving' = leaving /\ mark' = mark
    BY <1>0, <1>1 DEF Enter, Shapes, TypeOK
  <2>2. /\ f \in [Requests -> {"none", "pending", "set", "cancelled"}]
        /\ ticket' \in [Requests -> Nat] /\ TryWake(f, ticket')
        /\ Cooling' <=> Cooling
    BY <1>0, <1>1, <2>1 DEF Enter, TypeOK, Cooling
  <2> HIDE DEF f
  <2>3. Shaped(f)
    BY <1>0, <2>1 DEF Shapes, Shaped
  <2>4. Ticketed(f, ticket')
    BY <1>0, <2>1 DEF Tickets, Ticketed, TypeOK
  <2>5. Queued(f, ticket')
    BY <1>0, <2>1 DEF Tickets, TurnsInOrder, Queued, TypeOK
  <2>6. SameTurn(f)
    BY <2>1 DEF InTurn, SameTurn
  <2>7. WakesNobody(f) \/ WakesFirst(f, ticket')
    BY <2>2, WakeEffect
  <2> QED
    BY <1>0, <2>1, <2>2, <2>3, <2>4, <2>5, <2>6, <2>7, Woken
<1>2. ASSUME NEW r \in Requests, Tell(r) \/ TellFails(r) \/ Turn(r) PROVE Rest
  <2>1. /\ UNCHANGED <<fut, ticket, tickets, processing, leaving, mark>>
        /\ pc[r] # "idle" /\ pc'[r] # "idle" /\ (pc'[r] = "draw" => fut[r] = "set") /\ pc[r] # "over"
        /\ \A s \in Requests : s # r => pc'[s] = pc[s]
    BY <1>0, <1>2 DEF Tell, TellFails, Turn, TypeOK
  <2>2. Shapes'
    BY <1>0, <2>1 DEF Shapes
  <2> QED
    BY <1>0, <2>1, <2>2
    DEF Tickets, OneTurn, InTurn, TurnsInOrder, WakeIsDue, Pending, Cooling
<1>3. ASSUME NEW r \in Requests, Draw(r) PROVE Rest
  <2>1. /\ fut[r] = "set" /\ leaving[r] = "none"
        /\ pc'[r] = "over" /\ \A s \in Requests : s # r => pc'[s] = pc[s]
        /\ leaving'[r] = "start" /\ \A s \in Requests : s # r => leaving'[s] = leaving[s]
        /\ UNCHANGED <<ticket, tickets, mark>>
    BY <1>0, <1>3 DEF Draw, Shapes, TypeOK
  <2>2. r \in InTurn /\ processing
    BY <1>0, <2>1 DEF InTurn, OneTurn
  <2>3. fut' = fut /\ processing' = processing
    BY <1>3, <2>2 DEF Draw, TryWake
  <2>4. InTurn' = InTurn /\ (Cooling' <=> Cooling)
    BY <1>0, <2>1, <2>3 DEF InTurn, Cooling, TypeOK
  <2>5. Shapes'
    BY <1>0, <2>1, <2>3 DEF Shapes
  <2> QED
    BY <1>0, <2>1, <2>2, <2>3, <2>4, <2>5 DEF Tickets, OneTurn, TurnsInOrder, WakeIsDue
<1>4. ASSUME NEW r \in Requests, Interrupt(r) PROVE Rest
  <2>1. CASE fut[r] = "set"
    <3>1. /\ leaving[r] = "none"
          /\ pc'[r] = "over" /\ \A s \in Requests : s # r => pc'[s] = pc[s]
          /\ leaving'[r] = "start" /\ \A s \in Requests : s # r => leaving'[s] = leaving[s]
          /\ UNCHANGED <<fut, ticket, tickets, mark, processing>>
      BY <1>0, <1>4, <2>1 DEF Interrupt, Shapes, TypeOK
    <3>2. InTurn' = InTurn /\ (Cooling' <=> Cooling)
      BY <1>0, <2>1, <3>1 DEF InTurn, Cooling, TypeOK
    <3>3. Shapes'
      BY <1>0, <2>1, <3>1 DEF Shapes
    <3>4. WakeIsDue'
      BY <1>0, <3>1 DEF WakeIsDue, Pending
    <3> QED
      BY <1>0, <3>1, <3>2, <3>3, <3>4 DEF Tickets, OneTurn, TurnsInOrder
  <2>2. CASE fut[r] # "set"
    <3>1. /\ leaving[r] = "none" /\ fut'[r] = "cancelled"
          /\ pc'[r] = "over" /\ \A s \in Requests : s # r => pc'[s] = pc[s]
          /\ \A s \in Requests : s # r => fut'[s] = fut[s]
          /\ UNCHANGED <<leaving, ticket, tickets, mark, processing>>
      BY <1>0, <1>4, <2>2 DEF Interrupt, Shapes, TypeOK
    <3>2. InTurn' = InTurn /\ (Cooling' <=> Cooling)
      BY <1>0, <2>2, <3>1 DEF InTurn, Cooling, TypeOK
    <3>3. Shapes' /\ TurnsInOrder'
      BY <1>0, <3>1 DEF Shapes, TurnsInOrder
    <3>4. Pending(fut') \subseteq Pending(fut)
      BY <3>1 DEF Pending
    <3>5. fut[r] # "none"
      BY <1>0, <1>4 DEF Interrupt, Shapes
    <3>6. Tickets'
      BY <1>0, <3>1, <3>5 DEF Tickets
    <3> QED
      BY <1>0, <3>1, <3>2, <3>3, <3>4, <3>6 DEF OneTurn, WakeIsDue
  <2> QED
    BY <2>1, <2>2
<1>5. ASSUME NEW r \in Requests, Leave(r) PROVE Rest
  <2>1. /\ leaving[r] = "start" /\ leaving'[r] = "sleep" /\ fut[r] = "set"
        /\ \A s \in Requests : s # r => leaving'[s] = leaving[s]
        /\ ~processing' /\ mark' = r
        /\ UNCHANGED <<pc, fut, ticket, tickets>>
    BY <1>0, <1>5 DEF Leave, Shapes, TypeOK
  <2>2. InTurn = {r}
    BY <1>0, <2>1 DEF InTurn, OneTurn
  <2>3. InTurn' = {}
    BY <2>1, <2>2 DEF InTurn
  <2> QED
    BY <1>0, <2>1, <2>3 DEF Shapes, Tickets, OneTurn, TurnsInOrder, WakeIsDue
<1>6. ASSUME NEW r \in Requests, IntervalOver(r) PROVE Rest
  <2>1. /\ leaving[r] = "sleep" /\ leaving'[r] = "due"
        /\ \A s \in Requests : s # r => leaving'[s] = leaving[s]
        /\ UNCHANGED <<pc, fut, ticket, tickets, processing, mark>>
    BY <1>0, <1>6 DEF IntervalOver, TypeOK
  <2>2. InTurn' = InTurn /\ (Cooling' => Cooling)
    BY <1>0, <2>1 DEF InTurn, Cooling, TypeOK
  <2>3. Shapes' /\ WakeIsDue'
    BY <1>0, <2>1 DEF Shapes, WakeIsDue, Pending
  <2> QED
    BY <1>0, <2>1, <2>2, <2>3 DEF Tickets, OneTurn, TurnsInOrder
<1>7. ASSUME NEW r \in Requests, WakeNext(r) PROVE Rest
  <2>1. /\ leaving[r] = "due" /\ leaving'[r] = "over"
        /\ \A s \in Requests : s # r => leaving'[s] = leaving[s]
        /\ UNCHANGED <<pc, ticket, tickets, mark>>
        /\ TryWake(fut, ticket')
    BY <1>0, <1>7 DEF WakeNext, TypeOK
  <2>2. SameTurn(fut)
    BY <2>1 DEF InTurn, SameTurn
  <2>3. Cooling' <=> Cooling
    BY <1>0, <2>1 DEF Cooling, TypeOK
  <2>4. Shaped(fut) /\ Ticketed(fut, ticket') /\ Queued(fut, ticket')
    BY <1>0, <2>1 DEF Shapes, Shaped, Tickets, Ticketed, TurnsInOrder, Queued
  <2>5. WakesNobody(fut) \/ WakesFirst(fut, ticket')
    BY <1>0, <2>1, WakeEffect DEF TypeOK
  <2>6. /\ fut \in [Requests -> {"none", "pending", "set", "cancelled"}]
        /\ ticket' \in [Requests -> Nat]
    BY <1>0 DEF TypeOK
  <2> QED
    BY <1>0, <2>1, <2>2, <2>3, <2>4, <2>5, <2>6, Woken
<1>8. ASSUME UNCHANGED vars PROVE Rest
  BY <1>0, <1>8
  DEF vars, Shapes, Tickets, OneTurn, InTurn, TurnsInOrder, WakeIsDue, Pending, Cooling
<1> HIDE DEF Rest
<1>9. Rest
  BY <1>1, <1>2, <1>3, <1>4, <1>5, <1>6, <1>7, <1>8 DEF Next, Handler, LeaveTask
<1> QED
  BY <1>0, <1>9 DEF QueueInv, Rest

\* Nobody is in the queue at first.
LEMMA QueueStart == Init => QueueInv
<1> SUFFICES ASSUME Init PROVE QueueInv
    OBVIOUS
<1>1. TypeOK
  BY DEF Init, TypeOK
<1>2. Shapes /\ Tickets /\ TurnsInOrder
  BY DEF Init, Shapes, Tickets, TurnsInOrder
<1>3. InTurn = {} /\ Pending(fut) = {}
  BY DEF Init, InTurn, Pending
<1>4. OneTurn /\ WakeIsDue
  BY <1>3 DEF Init, OneTurn, WakeIsDue
<1> QED
  BY <1>1, <1>2, <1>4 DEF QueueInv

\* The invariant of the queue of drawings (QueueManager).
THEOREM QueueCorrect == Spec => []QueueInv
BY QueueStart, QueueStep, PTL DEF Spec

-----------------------------------------------------------------------------
\* Every reachable state of the drawing queue is well typed.
THEOREM TypesHold == Spec => []TypeOK
<1>1. QueueInv => TypeOK
  BY DEF QueueInv
<1> QED
  BY <1>1, QueueCorrect, PTL

\* One drawing at a time, an interval apart: OneTurn of the queue's turns.
THEOREM OneAtATime == Spec => []OneTurn
<1>1. QueueInv => OneTurn
  BY DEF QueueInv
<1> QED
  BY <1>1, QueueCorrect, PTL

\* First come, first served: TurnsInOrder of the futures and their tickets.
THEOREM FirstComeFirstServed == Spec => []TurnsInOrder
<1>1. QueueInv => TurnsInOrder
  BY DEF QueueInv
<1> QED
  BY <1>1, QueueCorrect, PTL

\* No wake-up of the queue is lost: WakeIsDue.
THEOREM NoLostWakeUp == Spec => []WakeIsDue
<1>1. QueueInv => WakeIsDue
  BY DEF QueueInv
<1> QED
  BY <1>1, QueueCorrect, PTL

-----------------------------------------------------------------------------
\* The duel: the inductive invariant

\* The tasks by what they are at.
TaskStates == [pc : {"idle"}]
         \cup [pc : {"challenge"}, user : Users, invited : Users \cup {Nobody}]
         \cup [pc : {"accept"}, user : Users, here : BOOLEAN]
         \cup [pc : {"name"}, here : BOOLEAN]
         \cup [pc : {"pay", "draw"}, here : BOOLEAN, win : Users \cup {Nobody}]

DuelTypes == /\ duel \in Duels \cup {Nobody} /\ job \in BOOLEAN
             /\ task \in [Tasks \cup {JobRun} -> TaskStates]

\* A task that holds a duel.
Holding(s) == s.pc \in {"accept", "name", "pay", "draw"}

\* A task holds the entry only while there is one.
Present == \A t \in Tasks \cup {JobRun} : Holding(task[t]) /\ task[t].here => duel # Nobody

\* An unaccepted duel has no winner and no settlement; in an accepted one a player
\* has the turn, and the winner is a player unless an acceptance replaced him.
Players == duel # Nobody =>
  /\ duel.p2 = Nobody => duel.win = Nobody /\ ~duel.paid /\ Settling = {}
  /\ duel.p2 # Nobody => duel.turn \in {duel.p1, duel.p2}
  /\ ~duel.contested => duel.win \in {Nobody, duel.p1, duel.p2}

\* An uncontested duel is settled by one task at a time, which pays the winner of
\* the shot, and is paid only as long as that task is about to remove it.
Uncontested == duel # Nobody /\ ~duel.contested =>
  /\ \A s, t \in Settling : s = t
  /\ duel.paid => \E t \in Settling : task[t].pc = "draw"
  /\ \A t \in Settling : task[t].pc = "pay" =>
       ~duel.paid /\ (duel.win # Nobody => task[t].win = duel.win)

DuelInv == DuelTypes /\ Present /\ DuelIsTimed /\ Players /\ Uncontested

-----------------------------------------------------------------------------
\* Lemmas on tasks and duels

\* What a task remembers, by where it is.
LEMMA StateKinds ==
  ASSUME NEW s \in TaskStates
  PROVE  /\ s.pc \in {"idle", "challenge", "accept", "name", "pay", "draw"}
         /\ Holding(s) <=> "here" \in DOMAIN s
         /\ Holding(s) => s.here \in BOOLEAN
         /\ s.pc = "challenge" => s.user \in Users /\ s.invited \in Users \cup {Nobody}
         /\ s.pc = "accept" => s.user \in Users
         /\ s.pc \in {"pay", "draw"} => s.win \in Users \cup {Nobody}
BY DEF TaskStates, Holding

\* A task that lets go of its duel goes on where it was.
LetGo(s) == IF "here" \in DOMAIN s THEN [s EXCEPT !.here = FALSE] ELSE s

Holds(s) == Holding(s) /\ s.here

\* A task that let go holds nothing.
LEMMA LetGoHolds ==
  ASSUME NEW s \in TaskStates
  PROVE  LetGo(s) \in TaskStates /\ ~Holds(LetGo(s))
<1>1. CASE "here" \notin DOMAIN s
  BY <1>1, StateKinds DEF LetGo, Holds
<1>2. CASE s \in [pc : {"accept"}, user : Users, here : BOOLEAN]
  BY <1>2 DEF LetGo, Holds, TaskStates
<1>3. CASE s \in [pc : {"name"}, here : BOOLEAN]
  BY <1>3 DEF LetGo, Holds, TaskStates
<1>4. CASE s \in [pc : {"pay", "draw"}, here : BOOLEAN, win : Users \cup {Nobody}]
  BY <1>4 DEF LetGo, Holds, TaskStates
<1> QED BY <1>1, <1>2, <1>3, <1>4 DEF TaskStates

Crew == Tasks \cup {JobRun}

\* Once the duel is gone nobody holds it.
LEMMA DetachedHolds ==
  ASSUME NEW f \in [Crew -> TaskStates]
  PROVE  /\ Detached(f) \in [Crew -> TaskStates]
         /\ \A t \in Crew : ~Holds(Detached(f)[t])
<1>1. Detached(f) = [t \in Crew |-> LetGo(f[t])]
  BY DEF Detached, LetGo
<1>2. \A t \in Crew : LetGo(f[t]) \in TaskStates /\ ~Holds(LetGo(f[t]))
  BY LetGoHolds
<1> QED BY <1>1, <1>2, Zenon

\* The tasks that settle the entry, when f is what each task is at.
Settlers(f) == {t \in Crew : Holds(f[t]) /\ f[t].pc \in {"pay", "draw"}}

\* Who settles, as a function of what the tasks are at.
LEMMA SettlingIs == /\ DuelTypes => Settling = Settlers(task)
                    /\ DuelTypes' => Settling' = Settlers(task')
BY DEF DuelTypes, Settling, Settlers, Holds, Holding, Crew

\* With no duel nobody holds one.
LEMMA GoneKeeps ==
  ASSUME duel' = Nobody, job' \in BOOLEAN, task' \in [Crew -> TaskStates],
         \A t \in Crew : ~Holds(task'[t])
  PROVE  DuelInv'
BY DEF DuelInv, DuelTypes, Present, DuelIsTimed, Players, Uncontested, Crew, Holds

\* A new task state for one task, seen from the others.
LEMMA OneMoves ==
  ASSUME DuelTypes, NEW t \in Crew, NEW s \in TaskStates, task' = [task EXCEPT ![t] = s]
  PROVE  /\ task' \in [Crew -> TaskStates]
         /\ task'[t] = s
         /\ \A u \in Crew : u # t => task'[u] = task[u]
BY DEF DuelTypes, Crew

\* A task that neither settles nor is to build the job, or whose duel is gone, moves
\* on without touching the entry.
LEMMA AsideKeeps ==
  ASSUME DuelInv, NEW t \in Crew, NEW s \in TaskStates, task' = [task EXCEPT ![t] = s],
         UNCHANGED duel, job' = TRUE \/ (job' = job /\ ~(task[t].pc = "name" /\ task[t].here)),
         t \notin Settling, Holds(s) => s.pc = "accept" /\ duel # Nobody
  PROVE  DuelInv'
<1>1. DuelTypes /\ Present /\ DuelIsTimed /\ Players /\ Uncontested
  BY DEF DuelInv
<1>2. /\ task' \in [Crew -> TaskStates] /\ task'[t] = s
      /\ \A u \in Crew : u # t => task'[u] = task[u]
  BY <1>1, OneMoves
<1>3. DuelTypes'
  BY <1>1, <1>2 DEF DuelTypes, Crew
<1>4. Settling' = Settling
  <2>1. Settling = Settlers(task) /\ Settling' = Settlers(task')
    BY <1>1, <1>3, SettlingIs
  <2>2. t \notin Settlers(task) /\ t \notin Settlers(task')
    BY <1>2, <2>1 DEF Settlers
  <2>3. ASSUME NEW u \in Crew, u # t PROVE u \in Settlers(task) <=> u \in Settlers(task')
    BY <1>2, <2>3, Zenon DEF Settlers
  <2> QED BY <2>1, <2>2, <2>3 DEF Settlers
<1>5. \A u \in Settling : task'[u] = task[u]
  BY <1>1, <1>2, SettlingIs DEF Settlers
<1>6. Present'
  BY <1>1, <1>2, StateKinds DEF Present, Crew, Holds
<1>7. DuelIsTimed'
  <2>1. CASE job' = TRUE
    BY <2>1 DEF DuelIsTimed
  <2>2. CASE job' = job /\ ~(task[t].pc = "name" /\ task[t].here)
    <3>1. ASSUME NEW u \in Tasks, task[u].pc = "name", task[u].here
          PROVE  task'[u].pc = "name" /\ task'[u].here
      BY <1>2, <2>2, <3>1 DEF Crew
    <3> QED BY <1>1, <1>4, <2>2, <3>1 DEF DuelIsTimed
  <2> QED BY <2>1, <2>2
<1>8. Players'
  BY <1>1, <1>4 DEF Players
<1>9. Uncontested'
  BY <1>1, <1>4, <1>5 DEF Uncontested
<1> QED BY <1>3, <1>6, <1>7, <1>8, <1>9 DEF DuelInv

\* A step by which t, with a task state s, makes another duel of the entry, for the
\* types and for who holds it.
LEMMA EntryTypes ==
  ASSUME DuelTypes, Present, NEW t \in Crew, NEW s \in TaskStates,
         task' = [task EXCEPT ![t] = s], duel' \in Duels, job' \in BOOLEAN
  PROVE  /\ DuelTypes' /\ Present' /\ duel' # Nobody
         /\ task'[t] = s /\ \A u \in Crew : u # t => task'[u] = task[u]
<1>1. duel' # Nobody
  BY DuelAssumption
<1>2. DuelTypes'
  BY OneMoves DEF DuelTypes, Crew
<1> QED BY <1>1, <1>2, OneMoves DEF Present

-----------------------------------------------------------------------------
\* Settlement

\* A settlement that begins.
LEMMA BeginKeeps ==
  ASSUME DuelInv, NEW t \in Crew, duel # Nobody, duel.p2 # Nobody, task[t] = Idle,
         NEW hit, hit \in {duel.p1, duel.p2} \/ hit = duel.win, Begin(t, hit),
         job' = job \/ t = JobRun, job' \in BOOLEAN
  PROVE  DuelInv'
<1> DEFINE s == [pc |-> "pay", here |-> TRUE, win |-> Winner(hit)]
<1>1. DuelTypes /\ Present /\ DuelIsTimed /\ Players /\ Uncontested
  BY DEF DuelInv
<1>2. duel \in Duels
  BY <1>1 DEF DuelTypes
<1>3. /\ duel.p1 \in Users /\ duel.p2 \in Users /\ duel.win \in Users \cup {Nobody}
      /\ duel.turn \in {duel.p1, duel.p2}
  BY <1>1, <1>2 DEF Duels, Players
<1>4. hit \in Users \cup {Nobody} /\ Winner(hit) \in Users
  BY <1>3 DEF Winner, Other
<1>5. s \in TaskStates /\ Holds(s)
  BY <1>4 DEF TaskStates, Holds, Holding
<1>6. task' = [task EXCEPT ![t] = s]
  BY DEF Begin
<1>7. /\ duel' \in Duels /\ duel'.p1 = duel.p1 /\ duel'.p2 = duel.p2 /\ duel'.turn = duel.turn
      /\ duel'.paid = duel.paid /\ duel'.untimed = duel.untimed /\ duel'.win = hit
      /\ duel'.contested = (duel.contested \/ Settling # {})
  <2> DEFINE c == duel.contested \/ Settling # {}
  <2>1. c \in BOOLEAN /\ duel' = [duel EXCEPT !.win = hit, !.contested = c]
    BY DEF Begin
  <2> HIDE DEF c
  <2>2. /\ duel' \in Duels /\ duel'.p1 = duel.p1 /\ duel'.p2 = duel.p2
        /\ duel'.turn = duel.turn /\ duel'.paid = duel.paid /\ duel'.untimed = duel.untimed
        /\ duel'.win = hit /\ duel'.contested = c
    BY <1>2, <1>4, <2>1 DEF Duels
  <2> QED BY <2>2 DEF c
<1>8. s.pc = "pay" /\ s.win = Winner(hit)
  OBVIOUS
<1> HIDE DEF s
<1>9. /\ DuelTypes' /\ Present' /\ duel' # Nobody
      /\ task'[t] = s /\ \A u \in Crew : u # t => task'[u] = task[u]
  BY <1>1, <1>5, <1>6, <1>7, EntryTypes
<1>10. Settling' = Settling \cup {t}
  <2>1. Settling = Settlers(task) /\ Settling' = Settlers(task')
    BY <1>1, <1>9, SettlingIs
  <2>2. t \in Settlers(task')
    BY <1>5, <1>8, <1>9 DEF Settlers
  <2>3. ASSUME NEW u \in Crew, u # t PROVE u \in Settlers(task) <=> u \in Settlers(task')
    BY <1>9, <2>3, Zenon DEF Settlers
  <2> QED BY <2>1, <2>2, <2>3 DEF Settlers
<1>11. DuelIsTimed'
  <2>1. CASE t = JobRun
    BY <1>10, <2>1 DEF DuelIsTimed
  <2>2. CASE job' = job
    <3>1. ASSUME NEW u \in Tasks, task[u].pc = "name", task[u].here
          PROVE  task'[u].pc = "name" /\ task'[u].here
      <4>1. u # t
        BY <3>1 DEF Idle
      <4> QED BY <1>9, <3>1, <4>1 DEF Crew
    <3> QED BY <1>1, <1>7, <1>10, <2>2, <3>1 DEF DuelIsTimed
  <2> QED BY <2>1, <2>2
<1>12. Players'
  BY <1>1, <1>3, <1>7 DEF Players
<1>13. Uncontested'
  <2> SUFFICES ASSUME ~duel'.contested
               PROVE  /\ \A u, v \in Settling' : u = v
                      /\ duel'.paid => \E u \in Settling' : task'[u].pc = "draw"
                      /\ \A u \in Settling' : task'[u].pc = "pay" =>
                           ~duel'.paid /\ (duel'.win # Nobody => task'[u].win = duel'.win)
    BY DEF Uncontested
  <2>1. ~duel.contested /\ Settling = {} /\ Settling' = {t}
    BY <1>7, <1>10
  <2>2. ~duel.paid
    BY <1>1, <2>1 DEF Uncontested
  <2>3. hit # Nobody => Winner(hit) = hit
    BY <1>1, <2>1 DEF Winner, Players
  <2> QED BY <1>7, <1>8, <1>9, <2>1, <2>2, <2>3
<1> QED BY <1>9, <1>11, <1>12, <1>13 DEF DuelInv

\* Who settles after t has moved.
LEMMA SettlersMove ==
  ASSUME DuelTypes, DuelTypes', NEW t \in Crew, \A u \in Crew : u # t => task'[u] = task[u]
  PROVE  /\ Settling \subseteq Crew /\ Settling' \subseteq Crew
         /\ t \in Settling <=> Holds(task[t]) /\ task[t].pc \in {"pay", "draw"}
         /\ t \in Settling' <=> Holds(task'[t]) /\ task'[t].pc \in {"pay", "draw"}
         /\ \A u \in Crew : u # t => (u \in Settling' <=> u \in Settling)
<1>1. Settling = Settlers(task) /\ Settling' = Settlers(task')
  BY SettlingIs
<1>2. ASSUME NEW u \in Crew, u # t PROVE u \in Settlers(task) <=> u \in Settlers(task')
  BY <1>2, Zenon DEF Settlers
<1>3. /\ t \in Settlers(task) <=> Holds(task[t]) /\ task[t].pc \in {"pay", "draw"}
      /\ t \in Settlers(task') <=> Holds(task'[t]) /\ task'[t].pc \in {"pay", "draw"}
      /\ Settlers(task) \subseteq Crew /\ Settlers(task') \subseteq Crew
  BY Zenon DEF Settlers
<1> QED BY <1>1, <1>2, <1>3, Zenon

\* A settlement pays.
LEMMA PayKeeps == ASSUME DuelInv, NEW t \in Crew, Pay(t) PROVE DuelInv'
<1> DEFINE s == [task[t] EXCEPT !.pc = "draw"]
<1>1. DuelTypes /\ Present /\ DuelIsTimed /\ Players /\ Uncontested
  BY DEF DuelInv
<1>2. /\ task[t].pc = "pay" /\ job' = job
      /\ duel' = IF task[t].here THEN [duel EXCEPT !.paid = TRUE] ELSE duel
  BY DEF Pay, Update
<1>3. task' = [task EXCEPT ![t] = s]
  BY <1>1 DEF Pay, DuelTypes
<1>4. task[t] \in TaskStates
  BY <1>1 DEF DuelTypes, Crew
<1>5. s \in TaskStates /\ s.pc = "draw" /\ s.here = task[t].here /\ task[t].here \in BOOLEAN
  <2>1. task[t] \in [pc : {"pay", "draw"}, here : BOOLEAN, win : Users \cup {Nobody}]
    BY <1>2, <1>4 DEF TaskStates
  <2> QED BY <2>1 DEF TaskStates
<1> HIDE DEF s
<1>6. CASE ~task[t].here
  <2>1. t \notin Settling /\ ~Holds(s)
    BY <1>5, <1>6 DEF Settling, Holds
  <2> QED BY <1>2, <1>3, <1>5, <1>6, <2>1, AsideKeeps
<1>7. CASE task[t].here
  <2>1. duel # Nobody /\ duel \in Duels
    BY <1>1, <1>2, <1>7 DEF Present, Holding, Crew, DuelTypes
  <2>2. /\ duel' \in Duels /\ duel'.p1 = duel.p1 /\ duel'.p2 = duel.p2 /\ duel'.turn = duel.turn
        /\ duel'.paid = TRUE /\ duel'.untimed = duel.untimed /\ duel'.win = duel.win
        /\ duel'.contested = duel.contested
    BY <1>2, <1>7, <2>1 DEF Duels
  <2>3. /\ DuelTypes' /\ Present' /\ duel' # Nobody
        /\ task'[t] = s /\ \A u \in Crew : u # t => task'[u] = task[u]
    <3>1. job' \in BOOLEAN
      BY <1>1, <1>2 DEF DuelTypes
    <3> QED BY <1>1, <1>3, <1>5, <2>2, <3>1, EntryTypes
  <2>4. Settling' = Settling /\ t \in Settling /\ Settling \subseteq Crew
    <3>1. Holds(task[t]) /\ Holds(task'[t]) /\ task'[t].pc = "draw"
      BY <1>2, <1>5, <1>7, <2>3 DEF Holds, Holding
    <3>2. /\ Settling \subseteq Crew /\ Settling' \subseteq Crew
          /\ t \in Settling /\ t \in Settling'
          /\ \A u \in Crew : u # t => (u \in Settling' <=> u \in Settling)
      BY <1>1, <1>2, <2>3, <3>1, SettlersMove
    <3> QED BY <3>2
  <2>5. DuelIsTimed'
    <3>1. ASSUME NEW u \in Tasks, task[u].pc = "name", task[u].here
          PROVE  task'[u].pc = "name" /\ task'[u].here
      BY <1>2, <2>3, <3>1 DEF Crew
    <3> QED BY <1>1, <1>2, <2>1, <2>2, <2>4, <3>1 DEF DuelIsTimed
  <2>6. Players'
    BY <1>1, <2>1, <2>2, <2>4 DEF Players
  <2>7. Uncontested'
    BY <1>1, <1>5, <2>1, <2>2, <2>3, <2>4 DEF Uncontested
  <2> QED BY <2>3, <2>5, <2>6, <2>7 DEF DuelInv
<1> QED BY <1>5, <1>6, <1>7

\* A settlement fails.
LEMMA SettleFailsKeeps == ASSUME DuelInv, NEW t \in Crew, SettleFails(t) PROVE DuelInv'
<1> DEFINE c == duel.contested \/ task[t].pc = "draw"
           m == duel.untimed \/ t = JobRun
<1>1. DuelTypes /\ Present /\ DuelIsTimed /\ Players /\ Uncontested
  BY DEF DuelInv
<1>2. task[t].pc \in {"pay", "draw"} /\ job' = job
  BY DEF SettleFails
<1>3. task' = [task EXCEPT ![t] = Idle]
  BY DEF SettleFails, Ended
<1>4. task[t] \in TaskStates /\ task[t].here \in BOOLEAN
  BY <1>1, <1>2, StateKinds DEF DuelTypes, Crew, Holding
<1>5. Idle \in TaskStates /\ ~Holds(Idle) /\ Idle.pc = "idle"
  BY DEF Idle, TaskStates, Holds, Holding
<1>6. CASE ~task[t].here
  <2>1. t \notin Settling /\ duel' = duel
    BY <1>6 DEF Settling, SettleFails, Update
  <2> QED BY <1>2, <1>3, <1>5, <1>6, <2>1, AsideKeeps
<1>7. CASE task[t].here
  <2>1. duel # Nobody /\ duel \in Duels
    BY <1>1, <1>2, <1>7 DEF Present, Holding, Crew, DuelTypes
  <2>2. /\ duel' \in Duels /\ duel'.p1 = duel.p1 /\ duel'.p2 = duel.p2 /\ duel'.turn = duel.turn
        /\ duel'.paid = duel.paid /\ duel'.untimed = m /\ duel'.win = duel.win
        /\ duel'.contested = c
    <3>1. duel' = [duel EXCEPT !.contested = c, !.untimed = m] /\ c \in BOOLEAN /\ m \in BOOLEAN
      BY <1>7 DEF SettleFails, Update
    <3> HIDE DEF c, m
    <3> QED BY <2>1, <3>1 DEF Duels
  <2>3. /\ DuelTypes' /\ Present' /\ duel' # Nobody
        /\ task'[t] = Idle /\ \A u \in Crew : u # t => task'[u] = task[u]
    <3>1. job' \in BOOLEAN
      BY <1>1, <1>2 DEF DuelTypes
    <3> QED BY <1>1, <1>3, <1>5, <2>2, <3>1, EntryTypes
  <2>4. Settling' = Settling \ {t} /\ t \in Settling /\ Settling \subseteq Crew
    <3>1. Holds(task[t]) /\ ~Holds(task'[t])
      BY <1>2, <1>5, <1>7, <2>3 DEF Holds, Holding
    <3> QED BY <1>1, <1>2, <2>3, <3>1, SettlersMove
  <2>5. DuelIsTimed'
    <3>1. ASSUME NEW u \in Tasks, task[u].pc = "name", task[u].here
          PROVE  task'[u].pc = "name" /\ task'[u].here
      BY <1>2, <2>3, <3>1 DEF Crew
    <3> QED BY <1>1, <1>2, <2>1, <2>2, <2>4, <3>1 DEF DuelIsTimed
  <2>6. Players'
    BY <1>1, <2>1, <2>2, <2>4 DEF Players
  <2>7. Uncontested'
    <3> SUFFICES ASSUME ~duel'.contested PROVE Settling' = {} /\ ~duel'.paid
      BY DEF Uncontested
    <3>1. ~duel.contested /\ task[t].pc = "pay"
      BY <1>2, <2>2
    <3> QED BY <1>1, <2>1, <2>2, <2>4, <3>1 DEF Uncontested
  <2> QED BY <2>3, <2>5, <2>6, <2>7 DEF DuelInv
<1> QED BY <1>4, <1>6, <1>7

\* A settlement is over: there is no duel left.
LEMMA CloseKeeps == ASSUME DuelInv, NEW t \in Crew, Close(t) PROVE DuelInv'
<1>1. Ended(t) \in [Crew -> TaskStates]
  BY DEF DuelInv, DuelTypes, Ended, Idle, TaskStates, Crew
<1>2. duel' = Nobody /\ job' = FALSE /\ task' = Detached(Ended(t))
  BY DEF Close
<1>3. task' \in [Crew -> TaskStates] /\ \A u \in Crew : ~Holds(task'[u])
  BY <1>1, <1>2, DetachedHolds
<1> QED BY <1>2, <1>3, GoneKeeps

\* An unaccepted duel is dropped.
LEMMA DropKeeps ==
  ASSUME DuelInv, duel' = Nobody, job' = job \/ job' = FALSE, task' = Detached(task)
  PROVE  DuelInv'
<1>1. task \in [Crew -> TaskStates] /\ job' \in BOOLEAN
  BY DEF DuelInv, DuelTypes, Crew
<1>2. task' \in [Crew -> TaskStates] /\ \A u \in Crew : ~Holds(task'[u])
  BY <1>1, DetachedHolds
<1> QED BY <1>1, <1>2, GoneKeeps

-----------------------------------------------------------------------------
\* The moves

\* A duel becomes another while no task moves.
LEMMA EntryKeeps ==
  ASSUME DuelInv, UNCHANGED task, duel # Nobody, duel' \in Duels, job' \in BOOLEAN,
         duel'.p1 = duel.p1, duel'.p2 = duel.p2, duel'.paid = duel.paid,
         duel'.win = duel.win, duel'.contested = duel.contested,
         duel'.turn = duel.turn \/ (duel.p2 # Nobody /\ duel'.turn \in {duel.p1, duel.p2}),
         job' = TRUE \/ duel'.untimed
  PROVE  DuelInv'
<1>1. DuelTypes /\ Present /\ DuelIsTimed /\ Players /\ Uncontested
  BY DEF DuelInv
<1>2. duel' # Nobody
  BY DuelAssumption
<1>3. DuelTypes' /\ Present'
  BY <1>1, <1>2 DEF DuelTypes, Present
<1>4. Settling' = Settling
  BY DEF Settling
<1>5. DuelIsTimed'
  BY DEF DuelIsTimed
<1>6. Players'
  BY <1>1, <1>4 DEF Players
<1>7. Uncontested'
  BY <1>1, <1>4 DEF Uncontested
<1> QED BY <1>3, <1>5, <1>6, <1>7 DEF DuelInv

\* The job settles nothing.
LEMMA UntimedKeeps == ASSUME DuelInv, Untimed, job' \in BOOLEAN PROVE DuelInv'
<1>1. duel \in Duels \cup {Nobody} /\ UNCHANGED task
  BY DEF DuelInv, DuelTypes, Untimed
<1>2. CASE duel = Nobody
  <2>1. duel' = Nobody /\ task \in [Crew -> TaskStates]
    BY <1>2 DEF Untimed, DuelInv, DuelTypes, Crew
  <2>2. \A t \in Crew : ~Holds(task[t])
    BY <1>2 DEF DuelInv, Present, Holds, Crew
  <2> QED BY <1>1, <2>1, <2>2, GoneKeeps
<1>3. CASE duel # Nobody
  <2>1. duel' = [duel EXCEPT !.untimed = TRUE]
    BY <1>3 DEF Untimed
  <2>2. /\ duel' \in Duels /\ duel'.p1 = duel.p1 /\ duel'.p2 = duel.p2 /\ duel'.turn = duel.turn
        /\ duel'.paid = duel.paid /\ duel'.untimed = TRUE /\ duel'.win = duel.win
        /\ duel'.contested = duel.contested
    BY <1>1, <1>3, <2>1 DEF Duels
  <2> QED BY <1>1, <1>3, <2>2, EntryKeeps
<1> QED BY <1>2, <1>3

\* The group's job fires.
LEMMA JobFiresKeeps == ASSUME DuelInv, JobFires PROVE DuelInv'
<1>1. job' = FALSE
  BY DEF JobFires
<1>2. CASE task[JobRun] = Idle /\ duel # Nobody /\ duel.p2 # Nobody /\ Begin(JobRun, duel.win)
  <2>1. JobRun \in Crew
    BY DEF Crew
  <2> QED BY <1>1, <1>2, <2>1, BeginKeeps
<1>3. CASE duel' = Nobody /\ task' = Detached(task)
  BY <1>1, <1>3, DropKeeps, Zenon
<1>4. CASE Untimed
  BY <1>1, <1>4, UntimedKeeps
<1> QED BY <1>2, <1>3, <1>4 DEF JobFires

\* The command to settle.
LEMMA SettleKeeps == ASSUME DuelInv, NEW t \in Tasks, NEW u, Settle(t, u) PROVE DuelInv'
<1>1. job' = job /\ job' \in BOOLEAN /\ t \in Crew /\ task[t] = Idle /\ duel # Nobody
  BY DEF Settle, DuelInv, DuelTypes, Crew
<1>2. CASE duel' = Nobody /\ task' = Detached(task)
  BY <1>1, <1>2, DropKeeps
<1>3. CASE duel.p2 # Nobody /\ Begin(t, duel.win)
  BY <1>1, <1>3, BeginKeeps
<1> QED BY <1>2, <1>3 DEF Settle

\* A shot.
LEMMA ShootKeeps ==
  ASSUME DuelInv, NEW t \in Tasks, NEW u, NEW self \in BOOLEAN, Shoot(t, u, self)
  PROVE  DuelInv'
<1>1. /\ t \in Crew /\ task[t] = Idle /\ duel # Nobody /\ duel.p2 # Nobody /\ u = duel.turn
      /\ duel \in Duels /\ duel.turn \in {duel.p1, duel.p2} /\ job \in BOOLEAN
  BY DEF Shoot, DuelInv, DuelTypes, Crew, Players
<1>2. Other(u) \in {duel.p1, duel.p2}
  BY DEF Other
<1>3. CASE Begin(t, IF self THEN Other(u) ELSE u) /\ UNCHANGED job
  <2> DEFINE hit == IF self THEN Other(u) ELSE u
  <2>1. hit \in {duel.p1, duel.p2}
    BY <1>1, <1>2
  <2> HIDE DEF hit
  <2>2. Begin(t, hit) /\ job' = job
    BY <1>3 DEF hit
  <2> QED BY <1>1, <2>1, <2>2, BeginKeeps
<1>4. CASE /\ duel.blanks > 0 /\ job' = TRUE /\ UNCHANGED task
           /\ duel' = [duel EXCEPT !.blanks = @ - 1, !.turn = IF self THEN u ELSE Other(u)]
  <2> DEFINE b == duel.blanks - 1
             v == IF self THEN u ELSE Other(u)
  <2>1. v \in {duel.p1, duel.p2} /\ v \in Users \cup {Nobody} /\ b \in 0..MaxBlanks
    BY <1>1, <1>2, <1>4, DuelAssumption DEF Duels
  <2>2. duel' = [duel EXCEPT !.blanks = b, !.turn = v]
    BY <1>4
  <2> HIDE DEF b, v
  <2>3. /\ duel' \in Duels /\ duel'.p1 = duel.p1 /\ duel'.p2 = duel.p2 /\ duel'.turn = v
        /\ duel'.paid = duel.paid /\ duel'.win = duel.win /\ duel'.contested = duel.contested
    BY <1>1, <2>1, <2>2 DEF Duels
  <2>4. job' \in BOOLEAN /\ job' = TRUE /\ UNCHANGED task
    BY <1>4
  <2> QED BY <1>1, <2>1, <2>3, <2>4, EntryKeeps
<1> QED BY <1>3, <1>4 DEF Shoot

\* A challenge begins, or comes to nothing for want of gold.
LEMMA AskingKeeps ==
  ASSUME DuelInv, NEW t \in Tasks,
         \/ Poor(t)
         \/ \E u \in Users, i \in Users \cup {Nobody} : Challenge(t, u, i)
         \/ \E u \in Users : Accept(t, u)
  PROVE  DuelInv'
<1>1. t \in Crew /\ Idle \in TaskStates /\ ~Holds(Idle)
  BY DEF Crew, Idle, TaskStates, Holds, Holding
<1>2. CASE Poor(t)
  <2>1. task' = [task EXCEPT ![t] = Idle] /\ UNCHANGED <<duel, job>>
    BY <1>2 DEF Poor, Ended
  <2>2. t \notin Settling /\ task[t].pc # "name"
    BY <1>2 DEF Poor, Settling
  <2> QED BY <1>1, <2>1, <2>2, AsideKeeps
<1>3. ASSUME NEW u \in Users, NEW i \in Users \cup {Nobody}, Challenge(t, u, i) PROVE DuelInv'
  <2> DEFINE s == [pc |-> "challenge", user |-> u, invited |-> i]
  <2>1. task' = [task EXCEPT ![t] = s] /\ UNCHANGED <<duel, job>>
    BY <1>3 DEF Challenge
  <2>2. t \notin Settling /\ task[t].pc # "name"
    BY <1>3 DEF Challenge, Idle, Settling
  <2>3. s \in TaskStates /\ ~Holds(s)
    BY DEF TaskStates, Holds, Holding
  <2> HIDE DEF s
  <2> QED BY <1>1, <2>1, <2>2, <2>3, AsideKeeps
<1>4. ASSUME NEW u \in Users, Accept(t, u) PROVE DuelInv'
  <2> DEFINE s == [pc |-> "accept", user |-> u, here |-> TRUE]
  <2>1. task' = [task EXCEPT ![t] = s] /\ UNCHANGED <<duel, job>> /\ duel # Nobody
    BY <1>4 DEF Accept
  <2>2. t \notin Settling /\ task[t].pc # "name"
    BY <1>4 DEF Accept, Idle, Settling
  <2>3. s \in TaskStates /\ s.pc = "accept"
    BY DEF TaskStates
  <2> HIDE DEF s
  <2> QED BY <1>1, <2>1, <2>2, <2>3, AsideKeeps
<1> QED BY <1>2, <1>3, <1>4

\* A challenge is entered, over another that may have come meanwhile.
LEMMA ChallengedKeeps == ASSUME DuelInv, NEW t \in Tasks, Challenged(t) PROVE DuelInv'
<1>1. /\ task \in [Crew -> TaskStates] /\ t \in Crew /\ task[t].pc = "challenge"
      /\ job \in BOOLEAN
  BY DEF DuelInv, DuelTypes, Challenged, Crew
<1>2. task[t].user \in Users /\ task[t].invited \in Users \cup {Nobody}
  BY <1>1, StateKinds
<1>3. PICK n \in 0..MaxBlanks : duel' = Challenger(task[t].user, task[t].invited, n)
  BY DEF Challenged
<1>4. /\ duel' \in Duels /\ duel'.p2 = Nobody /\ duel'.win = Nobody /\ duel'.paid = FALSE
  BY <1>2, <1>3 DEF Challenger, Duels
<1>5. duel' # Nobody
  BY <1>4, DuelAssumption
<1>6. ASSUME DuelTypes', Present', DuelIsTimed', Settling' = {} PROVE DuelInv'
  BY <1>4, <1>6 DEF DuelInv, Players, Uncontested
<1>7. CASE task[t].invited = Nobody /\ job' = TRUE /\ task' = Detached(Ended(t))
  <2>1. Ended(t) \in [Crew -> TaskStates]
    BY <1>1 DEF Ended, Idle, TaskStates
  <2>2. task' \in [Crew -> TaskStates] /\ \A u \in Crew : ~Holds(task'[u])
    BY <1>7, <2>1, DetachedHolds
  <2>3. DuelTypes'
    BY <1>4, <1>7, <2>2 DEF DuelTypes, Crew
  <2>4. Settling' = {}
    <3>1. Settling' = Settlers(task')
      BY <2>3, SettlingIs
    <3> QED BY <2>2, <3>1 DEF Settlers
  <2>5. Present' /\ DuelIsTimed'
    BY <1>5, <1>7 DEF Present, DuelIsTimed
  <2> QED BY <1>6, <2>3, <2>4, <2>5
<1>8. CASE UNCHANGED job /\ task' = [Detached(task) EXCEPT ![t] = [pc |-> "name", here |-> TRUE]]
  <2> DEFINE f == Detached(task)
             s == [pc |-> "name", here |-> TRUE]
  <2>1. f \in [Crew -> TaskStates] /\ \A u \in Crew : ~Holds(f[u])
    BY <1>1, DetachedHolds
  <2>2. s \in TaskStates /\ s.pc = "name" /\ s.here = TRUE
    BY DEF TaskStates
  <2>3. task' = [f EXCEPT ![t] = s]
    BY <1>8
  <2> HIDE DEF f, s
  <2>4. /\ task' \in [Crew -> TaskStates] /\ task'[t] = s
        /\ \A u \in Crew : u # t => task'[u] = f[u]
    BY <1>1, <2>1, <2>2, <2>3
  <2>5. DuelTypes'
    BY <1>1, <1>4, <1>8, <2>4 DEF DuelTypes, Crew
  <2>6. Settling' = {}
    <3>1. Settling' = Settlers(task')
      BY <2>5, SettlingIs
    <3>2. ASSUME NEW u \in Crew PROVE u \notin Settlers(task')
      <4>1. CASE u = t
        BY <2>2, <2>4, <4>1 DEF Settlers
      <4>2. CASE u # t
        BY <2>1, <2>4, <4>2, Zenon DEF Settlers
      <4> QED BY <4>1, <4>2
    <3> QED BY <3>1, <3>2 DEF Settlers
  <2>7. Present' /\ DuelIsTimed'
    BY <1>5, <2>2, <2>4 DEF Present, DuelIsTimed
  <2> QED BY <1>6, <2>5, <2>6, <2>7
<1> QED BY <1>7, <1>8 DEF Challenged

\* The job of a challenge is built, or the name of the one challenged is not found.
LEMMA NamedKeeps == ASSUME DuelInv, NEW t \in Tasks, Named(t) PROVE DuelInv'
<1>1. DuelTypes /\ Present /\ DuelIsTimed /\ Players /\ Uncontested
  BY DEF DuelInv
<1>2. /\ t \in Crew /\ task[t].pc = "name" /\ task' = [task EXCEPT ![t] = Idle]
      /\ Idle \in TaskStates /\ ~Holds(Idle) /\ t \notin Settling
  BY DEF Named, Ended, Crew, Idle, TaskStates, Holds, Holding, Settling
<1>3. task[t].here \in BOOLEAN
  BY <1>1, <1>2, StateKinds DEF DuelTypes, Crew, Holding
<1>4. CASE job' = TRUE /\ UNCHANGED duel
  BY <1>2, <1>4, AsideKeeps
<1>5. CASE UNCHANGED job /\ ~task[t].here /\ UNCHANGED duel
  BY <1>2, <1>5, AsideKeeps
<1>6. CASE UNCHANGED job /\ task[t].here /\ duel' = [duel EXCEPT !.untimed = TRUE]
  <2>1. duel # Nobody /\ duel \in Duels /\ job' \in BOOLEAN
    BY <1>1, <1>2, <1>6 DEF Present, Holding, Crew, DuelTypes
  <2>2. /\ duel' \in Duels /\ duel'.p1 = duel.p1 /\ duel'.p2 = duel.p2 /\ duel'.turn = duel.turn
        /\ duel'.paid = duel.paid /\ duel'.untimed = TRUE /\ duel'.win = duel.win
        /\ duel'.contested = duel.contested
    BY <1>6, <2>1 DEF Duels
  <2>3. /\ DuelTypes' /\ Present' /\ duel' # Nobody
        /\ task'[t] = Idle /\ \A u \in Crew : u # t => task'[u] = task[u]
    BY <1>1, <1>2, <2>1, <2>2, EntryTypes
  <2>4. /\ Settling \subseteq Crew /\ Settling' \subseteq Crew
        /\ t \notin Settling'
        /\ \A u \in Crew : u # t => (u \in Settling' <=> u \in Settling)
    BY <1>1, <1>2, <2>3, SettlersMove
  <2>5. Settling' = Settling
    BY <1>2, <2>4
  <2>6. DuelIsTimed'
    BY <2>2 DEF DuelIsTimed
  <2>7. Players' /\ Uncontested'
    BY <1>1, <1>2, <2>1, <2>2, <2>3, <2>4, <2>5 DEF Players, Uncontested
  <2> QED BY <2>3, <2>6, <2>7 DEF DuelInv
<1> QED BY <1>3, <1>4, <1>5, <1>6 DEF Named, Update

\* An acceptance enters the opponent.
LEMMA AcceptedKeeps == ASSUME DuelInv, NEW t \in Tasks, Accepted(t) PROVE DuelInv'
<1> DEFINE c == duel.contested \/ duel.p2 # Nobody
           u == task[t].user
<1>1. DuelTypes /\ Present /\ DuelIsTimed /\ Players /\ Uncontested
  BY DEF DuelInv
<1>2. /\ t \in Crew /\ task[t].pc = "accept" /\ task' = [task EXCEPT ![t] = Idle]
      /\ Idle \in TaskStates /\ ~Holds(Idle) /\ t \notin Settling /\ job' = TRUE
  BY DEF Accepted, Ended, Crew, Idle, TaskStates, Holds, Holding, Settling
<1>3. task[t].here \in BOOLEAN /\ u \in Users
  BY <1>1, <1>2, StateKinds DEF DuelTypes, Crew, Holding
<1>4. CASE ~task[t].here
  <2>1. UNCHANGED duel
    BY <1>4 DEF Accepted, Update
  <2> QED BY <1>2, <2>1, AsideKeeps
<1>5. CASE task[t].here
  <2>1. duel # Nobody /\ duel \in Duels
    BY <1>1, <1>2, <1>5 DEF Present, Holding, Crew, DuelTypes
  <2>2. /\ duel' \in Duels /\ duel'.p1 = duel.p1 /\ duel'.p2 = u /\ duel'.turn = duel.p1
        /\ duel'.paid = duel.paid /\ duel'.win = duel.win /\ duel'.contested = c
    <3>1. c \in BOOLEAN /\ duel' = [duel EXCEPT !.p2 = u, !.turn = duel.p1, !.contested = c]
      BY <1>5 DEF Accepted, Update
    <3> HIDE DEF c, u
    <3> QED BY <1>3, <2>1, <3>1 DEF Duels
  <2>3. /\ DuelTypes' /\ Present' /\ duel' # Nobody
        /\ task'[t] = Idle /\ \A v \in Crew : v # t => task'[v] = task[v]
    <3>1. job' \in BOOLEAN
      BY <1>2
    <3> QED BY <1>1, <1>2, <2>2, <3>1, EntryTypes
  <2>4. /\ Settling \subseteq Crew /\ Settling' \subseteq Crew
        /\ t \notin Settling'
        /\ \A v \in Crew : v # t => (v \in Settling' <=> v \in Settling)
    BY <1>1, <1>2, <2>3, SettlersMove
  <2>5. Settling' = Settling
    BY <1>2, <2>4
  <2>6. DuelIsTimed'
    BY <1>2 DEF DuelIsTimed
  <2>7. u # Nobody
    BY <1>3, DuelAssumption
  <2>8. ~duel'.contested => /\ ~duel.contested /\ duel.win = Nobody /\ ~duel.paid
                            /\ Settling = {}
    BY <1>1, <2>1, <2>2 DEF Players
  <2>9. Players'
    BY <2>2, <2>7, <2>8 DEF Players
  <2>10. Uncontested'
    BY <2>2, <2>5, <2>8 DEF Uncontested
  <2> QED BY <2>3, <2>6, <2>9, <2>10 DEF DuelInv
<1> QED BY <1>3, <1>4, <1>5

-----------------------------------------------------------------------------
\* Theorems

\* There is no duel at first.
LEMMA DuelStart == DuelInit => DuelInv
<1> SUFFICES ASSUME DuelInit PROVE DuelInv
  OBVIOUS
<1>1. /\ duel = Nobody /\ job = FALSE /\ task \in [Crew -> TaskStates]
      /\ \A t \in Crew : task[t].pc = "idle"
  BY DEF DuelInit, Idle, TaskStates, Crew
<1> QED BY <1>1 DEF DuelInv, DuelTypes, Present, DuelIsTimed, Players, Uncontested, Crew, Holding

\* Every step keeps the invariant.
LEMMA DuelStep == DuelInv /\ [DuelNext]_duelVars => DuelInv'
<1> SUFFICES ASSUME DuelInv, [DuelNext]_duelVars PROVE DuelInv'
  OBVIOUS
<1>1. ASSUME NEW t \in Tasks, Command(t) PROVE DuelInv'
  <2>1. ASSUME NEW u \in Users, Settle(t, u) PROVE DuelInv'
    BY <2>1, SettleKeeps
  <2>2. ASSUME NEW u \in Users, Accept(t, u) PROVE DuelInv'
    BY <2>2, AskingKeeps
  <2>3. ASSUME NEW u \in Users, NEW self \in BOOLEAN, Shoot(t, u, self) PROVE DuelInv'
    BY <2>3, ShootKeeps
  <2>4. ASSUME NEW u \in Users, NEW i \in (Users \ {u}) \cup {Nobody}, Challenge(t, u, i)
        PROVE  DuelInv'
    <3>1. i \in Users \cup {Nobody}
      OBVIOUS
    <3> QED BY <2>4, <3>1, AskingKeeps
  <2>5. CASE Challenged(t)
    BY <2>5, ChallengedKeeps
  <2>6. CASE Named(t)
    BY <2>6, NamedKeeps
  <2>7. CASE Accepted(t)
    BY <2>7, AcceptedKeeps
  <2>8. CASE Poor(t)
    BY <2>8, AskingKeeps
  <2> QED BY <1>1, <2>1, <2>2, <2>3, <2>4, <2>5, <2>6, <2>7, <2>8 DEF Command
<1>2. ASSUME NEW t \in Tasks \cup {JobRun}, Settlement(t) \/ SettleFails(t) PROVE DuelInv'
  BY <1>2, PayKeeps, CloseKeeps, SettleFailsKeeps DEF Settlement, Crew
<1>3. ASSUME NEW u \in Users, Refuse(u) PROVE DuelInv'
  <2>1. duel' = Nobody /\ job' = FALSE /\ task' = Detached(task)
    BY <1>3 DEF Refuse
  <2> QED BY <2>1, DropKeeps, Zenon
<1>4. CASE JobFires
  BY <1>4, JobFiresKeeps
<1>5. CASE JobMissed
  <2>1. Untimed /\ job' \in BOOLEAN
    BY <1>5 DEF JobMissed
  <2> QED BY <2>1, UntimedKeeps
<1>6. CASE UNCHANGED duelVars
  BY <1>6 DEF duelVars, DuelInv, DuelTypes, Present, DuelIsTimed, Players, Uncontested, Settling
<1> QED BY <1>1, <1>2, <1>3, <1>4, <1>5, <1>6 DEF DuelNext

\* The types, the players of an accepted duel, and who settles an uncontested one
\* (RussianManage).
THEOREM DuelCorrect == DuelSpec => []DuelInv
BY DuelStart, DuelStep, PTL DEF DuelSpec

\* Every duel of the group has its job, a task that is about to build it, or the job's
\* settlement, unless a job was missed or failed: no order of commands leaves it
\* without an end (__build_job, __remove_job, settlement).
THEOREM AlwaysTimed == DuelSpec => []DuelIsTimed
<1>1. DuelInv => DuelIsTimed
  BY DEF DuelInv
<1> QED BY <1>1, DuelCorrect, PTL

\* A duel pays one winner, once, and the one of the shot that hit, unless two
\* settlements of it overlapped, one failed after the payment, or two users had
\* accepted it (settlement).
THEOREM PaysOnce == DuelSpec => PaidOnce
<1> DEFINE Right == \A t \in DOMAIN task :
             task[t].pc = "pay" /\ task'[t].pc = "draw" /\ task[t].here /\ ~duel.contested =>
               ~duel.paid /\ (duel.win # Nobody => task[t].win = duel.win)
<1>1. DuelInv => Right
  <2> SUFFICES ASSUME DuelInv, NEW t \in DOMAIN task, task[t].pc = "pay", task[t].here,
                      ~duel.contested
               PROVE  ~duel.paid /\ (duel.win # Nobody => task[t].win = duel.win)
    OBVIOUS
  <2>1. t \in Settling
    BY DEF Settling
  <2>2. duel # Nobody
    BY DEF DuelInv, DuelTypes, Present, Holding
  <2> QED BY <2>1, <2>2 DEF DuelInv, Uncontested
<1>2. DuelInv => [Right]_duelVars
  BY <1>1
<1> QED BY <1>2, DuelCorrect, PTL DEF PaidOnce
=============================================================================
