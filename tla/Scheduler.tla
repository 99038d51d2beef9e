----------------------------- MODULE Scheduler -----------------------------
(***************************************************************************)
(* services/scheduler: schedules are rows of ScheduledJob, kept by the     *)
(* database, and jobs of APScheduler, kept in memory.  Commands of the     *)
(* administrators change both, a job that fires starts a run, a one-off    *)
(* schedule deletes itself after its run, and a restart makes the jobs     *)
(* anew from the rows.                                                     *)
(*                                                                         *)
(* The schedules of one plugin and target that are not one-off are one     *)
(* row, here called standing, so that one such key is enough; each one-off *)
(* schedule is a key of its own.                                           *)
(* A command reads the row, changes it, and then the job: between the      *)
(* change in the database and the rest of the command others may run.      *)
(* Of a trigger there is left whether it fires again and again, fires once *)
(* on a date, or is one that APScheduler refuses: the text of a cron       *)
(* expression is checked by nobody before.  Times, targets, retries and    *)
(* the columns that record the last run are left out; that a run is        *)
(* refused because of the load, or because a run of the same job is under  *)
(* way, and that a job is past its date, may happen at any time.           *)
(***************************************************************************)
EXTENDS Integers, FiniteSets

CONSTANTS Runs,       \* executions of _execute_job that may be under way at a time
          Commands,   \* commands that may be under way at a time
          MaxRows,    \* bound of the model: rows at a time
          Declared    \* whether a plugin declares the standing schedule as a default

ASSUME BoundsPositive == MaxRows \in Nat /\ Declared \in BOOLEAN

VARIABLES
  row,        \* each row's is_enabled, or that it is not there yet or deleted
  kind,       \* standing, or one-off (is_one_off)
  trigger,    \* trigger_type and trigger_config of each row
  job,        \* the job of each row in APScheduler
  dated,      \* the rows whose job was made with a date
  known,      \* _registered_tasks, of the one-off schedules
  running,    \* _running_tasks
  run, cmd,   \* the runs and the commands under way
  ran,        \* history: how often each one-off function ran, up to 2
  contested,  \* history: rows whose commands, or one-off run, overlapped, that were
              \* updated while disabled, or whose removal failed
  lost,       \* history: rows whose job had a date and has fired or missed it (of the
              \* one-off rows, those whose run led to nothing), or could not be made
              \* anew, or was not loaded; until their job is made again
  excused     \* history: one-off rows run by hand, or whose run failed after the function

table == <<row, kind, trigger>>
jobs == <<job, dated>>
vars == <<table, jobs, known, running, run, cmd, ran, contested, lost, excused>>
history == <<ran, contested, lost, excused>>

Rows == 1..MaxRows
Triggers == {"repeat", "date", "bad"}
Idle == [pc |-> "idle"]

Init == /\ row = [i \in Rows |-> "none"] /\ kind = [i \in Rows |-> "standing"]
        /\ trigger = [i \in Rows |-> "repeat"]
        /\ job = [i \in Rows |-> "none"] /\ dated = {}
        /\ known = {} /\ running = {}
        /\ run = [r \in Runs |-> Idle] /\ cmd = [c \in Commands |-> Idle]
        /\ ran = [i \in Rows |-> 0] /\ contested = {} /\ lost = {} /\ excused = {}

-----------------------------------------------------------------------------
\* State formulae

Exists(i) == row[i] \in {"on", "off"}
RunOf(r, i) == run[r] # Idle /\ run[r].id = i
Commanded(i) == \E c \in Commands : cmd[c] # Idle /\ cmd[c].id = i
Registered(i) == kind[i] = "standing" \/ i \in known

\* Somebody else is changing row i.
Busy(i) == \/ Commanded(i)
           \/ kind[i] = "once" /\ \E r \in Runs : RunOf(r, i)

Excuse(i) == IF kind[i] = "once" THEN excused \cup {i} ELSE excused
Lose(i) == IF kind[i] = "once" /\ job[i] = "none" THEN lost \cup {i} ELSE lost

NoJob(i) == job' = [job EXCEPT ![i] = "none"] /\ dated' = dated \ {i}

\* The job is the one that the row asks for.
JobFits(i) == trigger[i] = IF i \in dated THEN "date" ELSE "repeat"

\* A new row takes the first free place: one never used, or that of a deleted row
\* which no job, command or run refers to any more.
Free(i) == /\ ~Exists(i) /\ job[i] = "none" /\ ~Commanded(i)
           /\ ~\E r \in Runs : RunOf(r, i)
IsFresh(i) == Free(i) /\ \A j \in Rows : j < i => ~Free(j)
Renewed(set, i) == IF Exists(i) THEN set ELSE set \ {i}

Become(c, state) == cmd' = [cmd EXCEPT ![c] = state]

\* A command holds the row as it read or changed it.
At(pc, op, i, t) == [pc |-> pc, op |-> op, id |-> i, trigger |-> t]

-----------------------------------------------------------------------------
\* The commands: add_schedule, schedule_once, update_, pause_, resume_schedule and
\* ScheduleTargeter.remove

\* Mutant: every schedule gets a function of its own.
RegistersAll(k) == TRUE

\* schedule_once registers its function under a name made for it.
Registers(k) == k = "once"

\* update_or_create: the row of the standing schedule, or a new one; enabled.
Add(c, k, t) ==
  /\ cmd[c] = Idle
  /\ \E i \in Rows :
       /\ \/ k = "standing" /\ kind[i] = "standing" /\ Exists(i)
          \/ /\ IsFresh(i)
             /\ k = "once" \/ \A j \in Rows : kind[j] = "standing" => ~Exists(j)
       /\ row' = [row EXCEPT ![i] = "on"]
       /\ kind' = [kind EXCEPT ![i] = k]
       /\ trigger' = [trigger EXCEPT ![i] = t]
       /\ known' = IF Registers(k) THEN known \cup {i} ELSE Renewed(known, i)
       /\ Become(c, At("apply", "schedule", i, t))
       /\ contested' = IF Busy(i) THEN contested \cup {i} ELSE Renewed(contested, i)
       /\ excused' = Renewed(excused, i)
       /\ lost' = Renewed(lost, i)
       /\ ran' = IF Exists(i) THEN ran ELSE [ran EXCEPT ![i] = 0]
  /\ UNCHANGED <<jobs, running, run>>

\* The row is read; remove takes the job away at once.  An update gives the schedule
\* other arguments, or (retime) another trigger.
Ask(c, op, i, t) ==
  /\ cmd[c] = Idle
  /\ CASE op = "pause" -> row[i] = "on"
       [] op = "resume" -> row[i] = "off"
       [] OTHER -> Exists(i)
  /\ op # "retime" => t = trigger[i]
  /\ IF op = "remove" THEN NoJob(i) ELSE UNCHANGED jobs
  /\ Become(c, At("write", op, i, t))
  /\ contested' = IF Busy(i) \/ (op \in {"update", "retime"} /\ row[i] = "off")
                  THEN contested \cup {i} ELSE contested
  /\ UNCHANGED <<table, known, running, run, ran, lost, excused>>

\* The row is changed, if it is still there.
Write(c) ==
  /\ cmd[c] # Idle /\ cmd[c].pc = "write"
  /\ LET op == cmd[c].op
         i == cmd[c].id
     IN  /\ row' = IF Exists(i)
                   THEN [row EXCEPT ![i] = CASE op = "pause" -> "off"
                                             [] op = "resume" -> "on"
                                             [] op = "remove" -> "gone"
                                             [] OTHER -> @]
                   ELSE row
         /\ trigger' = IF Exists(i) /\ op = "retime"
                       THEN [trigger EXCEPT ![i] = cmd[c].trigger] ELSE trigger
         /\ Become(c, IF op = "remove" THEN Idle
                      ELSE At("apply", IF op \in {"update", "retime"} THEN "schedule" ELSE op,
                              i, cmd[c].trigger))
  /\ UNCHANGED <<kind, jobs, known, running, run, history>>

\* The database refuses: the command ends with an exception.
WriteFails(c) ==
  /\ cmd[c] # Idle /\ cmd[c].pc = "write"
  /\ Become(c, Idle)
  /\ contested' = IF cmd[c].op = "remove" THEN contested \cup {cmd[c].id} ELSE contested
  /\ UNCHANGED <<table, jobs, known, running, run, ran, lost, excused>>

\* add_or_reschedule_job: the old job is removed first, so that there is none when
\* the new one is refused, or given up because its configuration is no dict; an
\* exception ends the command.
Reschedule(c) ==
  /\ cmd[c] # Idle /\ cmd[c].pc = "apply" /\ cmd[c].op = "schedule"
  /\ LET i == cmd[c].id
         t == cmd[c].trigger
     IN  IF t = "bad"
         THEN NoJob(i) /\ UNCHANGED lost
         ELSE /\ job' = [job EXCEPT ![i] = "active"]
              /\ dated' = IF t = "date" THEN dated \cup {i} ELSE dated \ {i}
              /\ lost' = lost \ {i}
  /\ Become(c, Idle)
  /\ UNCHANGED <<table, known, running, run, ran, contested, excused>>

\* Mutant: resuming takes it that the job is there.
ApplyWithoutLook(c) ==
  /\ cmd[c] # Idle /\ cmd[c].pc = "apply" /\ cmd[c].op \in {"pause", "resume"}
  /\ job' = [job EXCEPT ![cmd[c].id] = IF @ = "none" THEN @
                                       ELSE IF cmd[c].op = "pause" THEN "paused" ELSE "active"]
  /\ Become(c, Idle)
  /\ UNCHANGED <<table, dated, known, running, run, history>>

\* The job is paused or resumed; one that is to be resumed and is not there is added
\* by a task of its own, which reads the row once more.
Apply(c) ==
  /\ cmd[c] # Idle /\ cmd[c].pc = "apply" /\ cmd[c].op \in {"pause", "resume"}
  /\ LET op == cmd[c].op
         i == cmd[c].id
         gone == op = "resume" /\ job[i] = "none"
     IN  /\ job' = [job EXCEPT ![i] = IF @ = "none" THEN @
                                      ELSE IF op = "pause" THEN "paused" ELSE "active"]
         /\ Become(c, IF gone THEN At("readd", op, i, cmd[c].trigger) ELSE Idle)
  /\ UNCHANGED <<table, dated, known, running, run, history>>

\* The row is read; a failure of the database ends the task, and nobody hears of it.
ReAdd(c) ==
  /\ cmd[c] # Idle /\ cmd[c].pc = "readd"
  /\ LET i == cmd[c].id
     IN  \/ /\ Become(c, IF Exists(i) THEN At("apply", "schedule", i, trigger[i]) ELSE Idle)
            /\ UNCHANGED lost
         \/ Become(c, Idle) /\ lost' = lost \cup {i}
  /\ UNCHANGED <<table, jobs, known, running, run, ran, contested, excused>>

-----------------------------------------------------------------------------
\* Runs

\* The job's time has come.  A job with a date is gone when it has fired.
Consume(i) == IF i \in dated THEN NoJob(i) ELSE UNCHANGED jobs

\* Mutant: a run of the same job may be under way (max_instances).
FreeToRunAlways(i) == TRUE

FreeToRun(i) == ~\E r \in Runs : RunOf(r, i) /\ ~run[r].byHand

Start(r, i, byHand) ==
  /\ run[r] = Idle
  /\ run' = [run EXCEPT ![r] = [pc |-> "read", id |-> i, byHand |-> byHand]]
  /\ running' = running \cup {i}
  /\ contested' = IF kind[i] = "once" /\ Busy(i) THEN contested \cup {i} ELSE contested
  /\ UNCHANGED <<table, known, cmd, ran>>

Fire(r, i) == /\ job[i] = "active" /\ FreeToRun(i)
              /\ Consume(i)
              /\ lost' = IF i \in dated /\ kind[i] = "standing" THEN lost \cup {i} ELSE lost
              /\ Start(r, i, FALSE)
              /\ UNCHANGED excused

\* It is too late, the load is too high, or a run of the job is under way.
Miss(i) == /\ job[i] = "active" /\ i \in dated
           /\ Consume(i)
           /\ lost' = lost \cup {i}
           /\ UNCHANGED <<table, known, running, run, cmd, ran, contested, excused>>

\* trigger_now, by hand: disabled schedules run too.
TriggerNow(r, i) ==
  /\ Exists(i) /\ Registered(i)
  /\ Start(r, i, TRUE)
  /\ excused' = Excuse(i)
  /\ UNCHANGED <<jobs, lost>>

\* Mutant: the run is over, but still shown.
EndOfShown(r) == run' = [run EXCEPT ![r] = Idle] /\ UNCHANGED running

EndOf(r) == /\ run' = [run EXCEPT ![r] = Idle]
            /\ running' = running \ {run[r].id}

\* The row is read; it may be gone or disabled, and there may be no bot.
Read(r) ==
  /\ run[r] # Idle /\ run[r].pc = "read"
  /\ LET i == run[r].id
     IN  \/ /\ row[i] = "on" \/ (row[i] = "off" /\ run[r].byHand)
            /\ run' = [run EXCEPT ![r].pc = "execute"]
            /\ UNCHANGED <<running, lost>>
         \/ EndOf(r) /\ lost' = Lose(i)
  /\ UNCHANGED <<table, jobs, known, cmd, ran, contested, excused>>

\* The function runs for its targets, if it is registered; what it raises is logged.
Execute(r) ==
  /\ run[r] # Idle /\ run[r].pc = "execute"
  /\ LET i == run[r].id
     IN  ran' = IF kind[i] = "once" /\ Registered(i) /\ ran[i] < 2
                THEN [ran EXCEPT ![i] = @ + 1] ELSE ran
  /\ run' = [run EXCEPT ![r].pc = "save"]
  /\ UNCHANGED <<table, jobs, known, running, cmd, contested, lost, excused>>

\* The run is recorded; a one-off row is then deleted, and its job.
Save(r) ==
  /\ run[r] # Idle /\ run[r].pc = "save"
  /\ IF kind[run[r].id] = "once"
     THEN run' = [run EXCEPT ![r].pc = "delete"] /\ UNCHANGED running
     ELSE EndOf(r)
  /\ UNCHANGED <<table, jobs, known, cmd, history>>

Delete(r) ==
  /\ run[r] # Idle /\ run[r].pc = "delete"
  /\ row' = [row EXCEPT ![run[r].id] = "gone"]
  /\ run' = [run EXCEPT ![r].pc = "forget"]
  /\ UNCHANGED <<kind, trigger, jobs, known, running, cmd, history>>

Forget(r) ==
  /\ run[r] # Idle /\ run[r].pc = "forget"
  /\ NoJob(run[r].id)
  /\ known' = known \ {run[r].id}
  /\ EndOf(r)
  /\ UNCHANGED <<table, cmd, history>>

\* The targets cannot be resolved, or the database fails: the failure is recorded.
FailRun(r) ==
  /\ run[r] # Idle /\ run[r].pc \in {"execute", "save", "delete"}
  /\ EndOf(r)
  /\ excused' = IF run[r].pc = "execute" THEN excused ELSE Excuse(run[r].id)
  /\ lost' = Lose(run[r].id)
  /\ UNCHANGED <<table, jobs, known, cmd, ran, contested>>

-----------------------------------------------------------------------------
\* The program ends, at any moment, and starts again: _load_schedules_from_db adds
\* the jobs of the rows that are enabled and registered; one-off functions are not
\* registered any more.  A declared default whose row is not there is added.  A job
\* that is refused ends the loading: of the other rows only those before it, in
\* whatever order the query gives them, have their jobs, and no default is added.

Loadable(i) == row[i] = "on" /\ kind[i] = "standing"
Refused == \E i \in Rows : Loadable(i) /\ trigger[i] = "bad"
Default == {i \in Rows : /\ Declared /\ ~Exists(i) /\ \A j \in 1..(i - 1) : Exists(j)
                         /\ \A j \in Rows : kind[j] = "standing" => ~Exists(j)}

Restart ==
  /\ known' = {} /\ running' = {}
  /\ run' = [r \in Runs |-> Idle] /\ cmd' = [c \in Commands |-> Idle]
  /\ LET good == {i \in Rows : Loadable(i) /\ trigger[i] # "bad"}
         add == IF Refused THEN {} ELSE Default
     IN  \E loaded \in IF Refused THEN SUBSET good ELSE {good} :
           /\ row' = [i \in Rows |-> IF i \in add THEN "on" ELSE row[i]]
           /\ kind' = [i \in Rows |-> IF i \in add THEN "standing" ELSE kind[i]]
           /\ trigger' = [i \in Rows |-> IF i \in add THEN "repeat" ELSE trigger[i]]
           /\ job' = [i \in Rows |-> IF i \in add \cup loaded THEN "active" ELSE "none"]
           /\ dated' = {i \in loaded : trigger[i] = "date"}
           /\ ran' = [i \in Rows |-> IF i \in add THEN 0 ELSE ran[i]]
           /\ excused' = excused \ add
           /\ lost' = {i \in Rows : kind'[i] = "once"} \cup (good \ loaded)
  /\ contested' = {}

-----------------------------------------------------------------------------
CommandStep(c) == Write(c) \/ WriteFails(c) \/ Reschedule(c) \/ Apply(c) \/ ReAdd(c)
RunStep(r) == Read(r) \/ Execute(r) \/ Save(r) \/ Delete(r) \/ Forget(r) \/ FailRun(r)

Next == \/ \E c \in Commands, t \in Triggers :
             \/ \E k \in {"standing", "once"} : Add(c, k, t)
             \/ \E op \in {"pause", "resume", "update", "retime", "remove"}, i \in Rows :
                  Ask(c, op, i, t)
        \/ \E c \in Commands : CommandStep(c)
        \/ \E r \in Runs : \/ \E i \in Rows : Fire(r, i) \/ TriggerNow(r, i)
                           \/ RunStep(r)
        \/ \E i \in Rows : Miss(i)
        \/ Restart

\* What is under way goes on; no command has to be given and no job has to fire.
Spec == /\ Init /\ [][Next]_vars
        /\ \A c \in Commands : WF_vars(CommandStep(c))
        /\ \A r \in Runs : WF_vars(RunStep(r))

-----------------------------------------------------------------------------
\* Properties

\* Every variable has its type.
TypeOK ==
  /\ row \in [Rows -> {"none", "on", "off", "gone"}]
  /\ kind \in [Rows -> {"standing", "once"}] /\ trigger \in [Rows -> Triggers]
  /\ job \in [Rows -> {"none", "active", "paused"}] /\ dated \subseteq Rows
  /\ known \subseteq {i \in Rows : kind[i] = "once"} /\ running \subseteq Rows
  /\ \A r \in Runs : run[r] # Idle => /\ run[r].id \in Rows /\ run[r].byHand \in BOOLEAN
  /\ \A c \in Commands : cmd[c] # Idle => cmd[c].id \in Rows
  /\ ran \in [Rows -> 0..2] /\ contested \subseteq Rows
  /\ lost \subseteq Rows /\ excused \subseteq Rows

\* An enabled schedule has a job that fires, a disabled one has none that does, and a
\* deleted one has none; and a job has the trigger its row asks for, so that there is
\* none for a trigger APScheduler refuses.  So it is whatever was paused, resumed,
\* updated, triggered or removed, in whatever order, whichever of these failed, and
\* wherever the program was stopped; unless, since the program started, two commands
\* overlapped on the row, a disabled schedule was updated (which makes its job fire
\* again), or a removal failed after it took the job away.  An enabled schedule may
\* be without a job only when, since a job was last made for it, that job had a date
\* and has fired or missed it, the row could not be read when it was resumed, or a
\* trigger that was refused ended the loading; of the one-off schedules, when the
\* firing was too late, its run found no bot or failed, or the program ended.
RowsAndJobsAgree ==
  \A i \in Rows : i \notin contested /\ ~Busy(i) =>
    /\ row[i] = "on" /\ trigger[i] # "bad" /\ i \notin lost => job[i] = "active"
    /\ row[i] = "off" => job[i] # "active"
    /\ ~Exists(i) => job[i] = "none"
    /\ job[i] # "none" => JobFits(i)

\* A one-off function runs at most once, over pauses, updates and restarts, unless
\* somebody triggers it by hand or its run fails after the function has run.
OneOffOnce == \A i \in Rows : i \notin excused => ran[i] <= 1

\* A schedule is shown as running only while a run of it is under way: no early
\* return or failure leaves it behind.
RunningIsReal == \A i \in running : \E r \in Runs : RunOf(r, i)
=============================================================================
