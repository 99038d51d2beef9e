------------------------------ MODULE Russian ------------------------------
(***************************************************************************)
(* plugins/russian: the duel of a group.  A user challenges, another       *)
(* accepts or refuses, they shoot in turns, and the duel is settled by the *)
(* shot that hits, by the command, or by a job half a minute after the     *)
(* last move.  The settlement pays across several awaits before it removes *)
(* the duel, so that commands and the job meet duels that are being        *)
(* settled, and tasks come back from an await to a duel that is gone.      *)
(*                                                                         *)
(* Each action is what a handler does between two awaits.  Times are left  *)
(* out: the job may fire whenever there is one.  check_is_timeout is true  *)
(* from half a minute after the program's start on, because the field      *)
(* "time" has the time of the import.  How much gold a user has is left    *)
(* out as well: it may suffice or not.                                     *)
(***************************************************************************)
EXTENDS Naturals

CONSTANTS Users,      \* members of the group
          Tasks,      \* commands under way at a time
          JobRun,     \* the running instance of the group's job
          MaxBlanks,  \* bound on the empty chambers before the first bullet
          Nobody      \* no user, no duel

\* A duel has its players, the turn, the empty chambers before the next bullet and
\* the winner; and what has happened to it: its winner was paid; two settlements of
\* it overlapped, one failed after the payment, or two users accepted it; its job
\* was missed or failed.
Duels == [p1 : Users, p2 : Users \cup {Nobody}, invited : Users \cup {Nobody},
          turn : Users \cup {Nobody}, blanks : 0..MaxBlanks, win : Users \cup {Nobody},
          paid : BOOLEAN, contested : BOOLEAN, untimed : BOOLEAN]

ASSUME DuelAssumption == /\ Nobody \notin Users /\ Nobody \notin Duels
                         /\ JobRun \notin Tasks /\ MaxBlanks \in Nat

VARIABLES duel,   \* _data[group_id], or Nobody
          job,    \* the job russian_job_{group_id} exists
          task    \* what each task is at

duelVars == <<duel, job, task>>

\* A challenge of u to user i, or to anybody
Challenger(u, i, n) == [p1 |-> u, p2 |-> Nobody, invited |-> i, turn |-> Nobody, blanks |-> n,
                        win |-> Nobody, paid |-> FALSE, contested |-> FALSE, untimed |-> FALSE]

Idle == [pc |-> "idle"]

DuelInit == /\ duel = Nobody /\ job = FALSE
            /\ task = [t \in Tasks \cup {JobRun} |-> Idle]

Ended(t) == [task EXCEPT ![t] = Idle]

\* The tasks, when the entry becomes another: a task that holds the old duel works
\* on, but nobody else will see what it does to it.
Detached(f) == [t \in DOMAIN f |-> IF "here" \in DOMAIN f[t] THEN [f[t] EXCEPT !.here = FALSE]
                                                             ELSE f[t]]

\* The duel of a task, if it is still the entry, and what the task makes of it.
Update(t, d) == duel' = IF task[t].here THEN d ELSE duel

Settling == {t \in DOMAIN task : task[t].pc \in {"pay", "draw"} /\ task[t].here}

-----------------------------------------------------------------------------
\* settlement

Other(u) == IF u = duel.p1 THEN duel.p2 ELSE duel.p1

\* Mutant: who is to shoot loses, whatever was hit.
TurnWinner(hit) == Other(duel.turn)

\* The winner a shot has set, or the opponent of the one to shoot; when an
\* acceptance has replaced player2, the replacement.
Winner(hit) == IF hit = Nobody THEN Other(duel.turn)
               ELSE IF hit = duel.p1 THEN hit ELSE duel.p2

\* Up to its first await, with the winner a shot has set, or Nobody.
Begin(t, hit) ==
  /\ task' = [task EXCEPT ![t] = [pc |-> "pay", here |-> TRUE, win |-> Winner(hit)]]
  /\ duel' = [duel EXCEPT !.win = hit, !.contested = @ \/ Settling # {}]

\* The counts of won and lost duels, then the winner's gold, ...
Pay(t) == /\ task[t].pc = "pay"
          /\ task' = [task EXCEPT ![t].pc = "draw"]
          /\ Update(t, [duel EXCEPT !.paid = TRUE])
          /\ UNCHANGED job

\* Mutant: the settlement leaves the duel in the dict.
CloseKept(t) == /\ task[t].pc = "draw"
                /\ task' = Ended(t) /\ job' = FALSE /\ UNCHANGED duel

\* ... then the loser's, who may have less than the stake and is left with nothing.
\* After the image the group's job and duel go, whichever they are by then; with
\* no duel left it raises.
Close(t) == /\ task[t].pc = "draw"
            /\ duel' = Nobody /\ job' = FALSE
            /\ task' = Detached(Ended(t))

\* A database call fails.
SettleFails(t) ==
  /\ task[t].pc \in {"pay", "draw"}
  /\ task' = Ended(t)
  /\ Update(t, [duel EXCEPT !.contested = @ \/ task[t].pc = "draw",
                            !.untimed = @ \/ t = JobRun])
  /\ UNCHANGED job

\* The command: an unaccepted duel is dropped, but not its job.
Settle(t, u) ==
  /\ task[t] = Idle /\ duel # Nobody
  /\ \/ /\ duel.p2 = Nobody
        /\ duel' = Nobody /\ task' = Detached(task)
     \/ /\ duel.p2 # Nobody /\ u \in {duel.p1, duel.p2}
        /\ Begin(t, duel.win)
  /\ UNCHANGED job

\* The group's job settles nothing.
Untimed == /\ duel' = IF duel = Nobody THEN Nobody ELSE [duel EXCEPT !.untimed = TRUE]
           /\ UNCHANGED task

\* The job: a date trigger is used up by firing.
JobFires ==
  /\ job /\ job' = FALSE
  /\ \/ /\ task[JobRun] = Idle /\ duel # Nobody /\ duel.p2 # Nobody
        /\ Begin(JobRun, duel.win)
     \/ /\ task[JobRun] = Idle /\ (duel # Nobody => duel.p2 = Nobody)
        /\ duel' = Nobody /\ task' = Detached(task)
     \/ task[JobRun] # Idle /\ Untimed             \* its last instance still runs

\* The loop is late by more than the job's grace time: the job is dropped.
JobMissed == job /\ job' = FALSE /\ Untimed

-----------------------------------------------------------------------------
\* The moves

\* add_russian looks for a duel, then awaits the user's gold, ...
Challenge(t, u, invited) ==
  /\ task[t] = Idle /\ duel = Nobody
  /\ task' = [task EXCEPT ![t] = [pc |-> "challenge", user |-> u, invited |-> invited]]
  /\ UNCHANGED <<duel, job>>

\* ... which may not be enough, ...
Poor(t) == /\ task[t].pc \in {"challenge", "accept"}
           /\ task' = Ended(t)
           /\ UNCHANGED <<duel, job>>

\* ... then enters its duel, over another that may have come meanwhile.  With an
\* opponent named it awaits the name before it builds the job.
Challenged(t) ==
  /\ task[t].pc = "challenge"
  /\ \E n \in 0..MaxBlanks : duel' = Challenger(task[t].user, task[t].invited, n)
  /\ \/ /\ task[t].invited = Nobody
        /\ job' = TRUE /\ task' = Detached(Ended(t))
     \/ /\ task[t].invited # Nobody
        /\ task' = [Detached(task) EXCEPT ![t] = [pc |-> "name", here |-> TRUE]]
        /\ UNCHANGED job

Named(t) == /\ task[t].pc = "name"
            /\ task' = Ended(t)
            /\ \/ job' = TRUE /\ UNCHANGED duel
               \/ UNCHANGED job /\ Update(t, [duel EXCEPT !.untimed = TRUE])   \* fails

\* accept compares, then awaits the user's gold, ...
Accept(t, u) ==
  /\ task[t] = Idle /\ duel # Nobody
  /\ duel.invited \in {Nobody, u} /\ duel.p2 = Nobody /\ duel.p1 # u
  /\ task' = [task EXCEPT ![t] = [pc |-> "accept", user |-> u, here |-> TRUE]]
  /\ UNCHANGED <<duel, job>>

\* Mutant: accept removes the job and builds none.
AcceptedUntimed(t) ==
  /\ task[t].pc = "accept"
  /\ Update(t, [duel EXCEPT !.p2 = task[t].user, !.turn = duel.p1])
  /\ task' = Ended(t) /\ job' = FALSE

\* ... then enters the opponent, whatever the duel has become, and builds the
\* group's job anew.
Accepted(t) ==
  /\ task[t].pc = "accept"
  /\ Update(t, [duel EXCEPT !.p2 = task[t].user, !.turn = duel.p1,
                            !.contested = @ \/ duel.p2 # Nobody])
  /\ task' = Ended(t) /\ job' = TRUE

\* refuse does not ask whether the duel has been accepted.
Refuse(u) == /\ duel # Nobody /\ duel.invited = u
             /\ duel' = Nobody /\ job' = FALSE /\ task' = Detached(task)

\* shoot, at oneself or at the opponent.
Shoot(t, u, self) ==
  /\ task[t] = Idle /\ duel # Nobody /\ duel.p2 # Nobody /\ u = duel.turn
  /\ \/ /\ duel.blanks = 0
        /\ Begin(t, IF self THEN Other(u) ELSE u)
        /\ UNCHANGED job
     \/ /\ duel.blanks > 0
        /\ duel' = [duel EXCEPT !.blanks = @ - 1, !.turn = IF self THEN u ELSE Other(u)]
        /\ job' = TRUE /\ UNCHANGED task

-----------------------------------------------------------------------------
Settlement(t) == Pay(t) \/ Close(t)

Command(t) == \/ \E u \in Users : \/ Settle(t, u) \/ Accept(t, u)
                                  \/ \E self \in BOOLEAN : Shoot(t, u, self)
                                  \/ \E i \in (Users \ {u}) \cup {Nobody} : Challenge(t, u, i)
              \/ Challenged(t) \/ Named(t) \/ Accepted(t) \/ Poor(t)

DuelNext == \/ \E t \in Tasks : Command(t)
            \/ \E t \in Tasks \cup {JobRun} : Settlement(t) \/ SettleFails(t)
            \/ \E u \in Users : Refuse(u)
            \/ JobFires \/ JobMissed

\* A loop that runs carries on every task and fires a job that is due.
DuelFairness == /\ WF_duelVars(JobFires)
                /\ \A t \in Tasks \cup {JobRun} : WF_duelVars(Settlement(t))
                /\ \A t \in Tasks : WF_duelVars(Named(t))

DuelSpec == DuelInit /\ [][DuelNext]_duelVars /\ DuelFairness

-----------------------------------------------------------------------------
\* Properties

\* A duel pays one winner, once, and when a bullet has hit, the one the shot made
\* the winner, however many times it was settled before it went; unless two
\* settlements of it overlapped, one failed after the payment, or two users had
\* accepted it (settlement).
PaidOnce ==
  [][\A t \in DOMAIN task :
       task[t].pc = "pay" /\ task'[t].pc = "draw" /\ task[t].here /\ ~duel.contested =>
         ~duel.paid /\ (duel.win # Nobody => task[t].win = duel.win)]_duelVars

\* The duel of the group has its job, or a task that is about to build it, or the job
\* is settling the duel: no order of commands leaves it without an end, only a job that
\* is missed or fails.  A command that settles does not stand in for the job, which
\* must outlive the command's failure (__build_job, __remove_job).
DuelIsTimed == duel # Nobody =>
  \/ job
  \/ duel.untimed
  \/ \E t \in Tasks : task[t].pc = "name" /\ task[t].here
  \/ JobRun \in Settling

\* Again and again the group is free for a challenge, unless a job was missed or
\* failed.
DuelEnds == duel # Nobody ~> duel = Nobody \/ duel.untimed
=============================================================================
