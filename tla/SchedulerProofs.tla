-------------------------- MODULE SchedulerProofs ---------------------------
(***************************************************************************)
(* Theorems about Scheduler, for any number of rows, runs and commands.    *)
(*                                                                         *)
(* None of its safety invariants but the last is inductive.  IInv adds     *)
(* which of the commands and runs can meet on one row: as long as a row is *)
(* not contested each of them has it to itself, so that what it found      *)
(* there still holds when it goes on; and a one-off function that has run  *)
(* is no longer registered, or its only run is about to see to that.       *)
(***************************************************************************)
EXTENDS Scheduler, TLAPS

-----------------------------------------------------------------------------
\* The inductive invariant

RunRecord == [pc : {"read", "execute", "save", "delete", "forget"}, id : Rows, byHand : BOOLEAN]

CmdRecord == [pc : {"write", "apply", "readd"},
              op : {"schedule", "pause", "resume", "update", "retime", "remove"},
              id : Rows, trigger : Triggers]

Shapes ==
  /\ run \in [Runs -> {Idle} \cup RunRecord]
  /\ cmd \in [Commands -> {Idle} \cup CmdRecord]
  /\ \A r \in Runs : run[r].pc \in {"delete", "forget"} => kind[run[r].id] = "once"
  /\ \A c \in Commands :
       /\ cmd[c].pc = "write" => cmd[c].op # "schedule"
       /\ cmd[c].pc = "apply" => cmd[c].op \in {"schedule", "pause", "resume"}

CmdOn(c, i) == cmd[c] # Idle /\ cmd[c].id = i

\* A one-off schedule that nobody triggers by hand has one run at a time, and its
\* function is forgotten once it has run.
RunsOnce(i) ==
  i \notin excused =>
    /\ ran[i] \in {0, 1}
    /\ kind[i] = "once" =>
         /\ \A r \in Runs : RunOf(r, i) => ~run[r].byHand
         /\ \A r, s \in Runs : RunOf(r, i) /\ RunOf(s, i) => r = s
    /\ ran[i] = 1 =>
         i \notin known \/ \E r \in Runs : RunOf(r, i) /\ run[r].pc \in {"save", "delete", "forget"}

\* Neither a job that fires for a disabled schedule, nor any for a deleted one; a job
\* that is there has the row's trigger, and is paused only while the schedule is.
Quiet(i) == /\ row[i] = "on" => job[i] # "paused"
            /\ row[i] = "off" => job[i] # "active"
            /\ ~Exists(i) => job[i] = "none"
            /\ job[i] # "none" => JobFits(i)

Agrees(i) ==
  Quiet(i) /\ (row[i] = "on" /\ trigger[i] # "bad" /\ i \notin lost => job[i] = "active")

\* Commands, and the run of a one-off schedule, have the row to themselves.
Alone(i) ==
  /\ \A c, d \in Commands : CmdOn(c, i) /\ CmdOn(d, i) => c = d
  /\ kind[i] = "once" =>
       /\ \A r, s \in Runs : RunOf(r, i) /\ RunOf(s, i) => r = s
       /\ \A c \in Commands, r \in Runs : ~(CmdOn(c, i) /\ RunOf(r, i))

\* What a command has found of row and job, it still finds.
CommandFits(c, i) ==
  CmdOn(c, i) =>
    /\ cmd[c].pc = "write" /\ cmd[c].op # "remove" =>
         /\ Agrees(i)
         /\ row[i] = IF cmd[c].op = "resume" THEN "off" ELSE "on"
         /\ cmd[c].op # "retime" => cmd[c].trigger = trigger[i]
    /\ cmd[c].pc = "write" /\ cmd[c].op = "remove" => job[i] = "none"
    /\ cmd[c].pc = "apply" =>
         /\ row[i] = IF cmd[c].op = "pause" THEN "off" ELSE "on"
         /\ IF cmd[c].op = "schedule" THEN cmd[c].trigger = trigger[i]
            ELSE job[i] # "none" => JobFits(i)
    /\ cmd[c].pc = "readd" => row[i] = "on" /\ job[i] = "none"

\* The run of a one-off schedule takes the job away after the row, and otherwise
\* leaves both as they were.
RunFits(r, i) ==
  kind[i] = "once" /\ RunOf(r, i) =>
    IF run[r].pc = "forget" THEN ~Exists(i) ELSE Quiet(i)

StaysRight(i) ==
  i \notin contested =>
    /\ Alone(i)
    /\ \A c \in Commands : CommandFits(c, i)
    /\ \A r \in Runs : RunFits(r, i)
    /\ ~Busy(i) => Agrees(i)

IInv == /\ TypeOK /\ Shapes /\ RunningIsReal
        /\ \A i \in Rows : RunsOnce(i) /\ StaysRight(i)

-----------------------------------------------------------------------------
\* A restart, with the rows it adds and those it loads.
LEMMA RestartFrom ==
  ASSUME Restart
  PROVE  \E add \in SUBSET Rows, loaded \in SUBSET Rows :
           /\ \A i \in add : ~Exists(i)
           /\ \A i \in loaded : Loadable(i) /\ trigger[i] # "bad"
           /\ row' = [i \in Rows |-> IF i \in add THEN "on" ELSE row[i]]
           /\ kind' = [i \in Rows |-> IF i \in add THEN "standing" ELSE kind[i]]
           /\ trigger' = [i \in Rows |-> IF i \in add THEN "repeat" ELSE trigger[i]]
           /\ job' = [i \in Rows |-> IF i \in add \cup loaded THEN "active" ELSE "none"]
           /\ dated' = {i \in loaded : trigger[i] = "date"}
           /\ dated' \subseteq Rows /\ lost' \subseteq Rows
           /\ ran' = [i \in Rows |-> IF i \in add THEN 0 ELSE ran[i]]
           /\ excused' = excused \ add
           /\ \A i \in Rows : /\ kind'[i] = "once" => i \in lost'
                              /\ Loadable(i) /\ trigger[i] # "bad" => i \in loaded \cup lost'
<1> DEFINE good == {i \in Rows : Loadable(i) /\ trigger[i] # "bad"}
           add == IF Refused THEN {} ELSE Default
<1>1. PICK loaded \in (IF Refused THEN SUBSET good ELSE {good}) :
        /\ row' = [i \in Rows |-> IF i \in add THEN "on" ELSE row[i]]
        /\ kind' = [i \in Rows |-> IF i \in add THEN "standing" ELSE kind[i]]
        /\ trigger' = [i \in Rows |-> IF i \in add THEN "repeat" ELSE trigger[i]]
        /\ job' = [i \in Rows |-> IF i \in add \cup loaded THEN "active" ELSE "none"]
        /\ dated' = {i \in loaded : trigger[i] = "date"}
        /\ ran' = [i \in Rows |-> IF i \in add THEN 0 ELSE ran[i]]
        /\ excused' = excused \ add
        /\ lost' = {i \in Rows : kind'[i] = "once"} \cup (good \ loaded)
  BY DEF Restart
<1>2. loaded \in SUBSET good /\ good \in SUBSET Rows
  OBVIOUS
<1>3. add \in SUBSET Rows /\ \A i \in add : ~Exists(i)
  BY DEF Default
<1>4. \A i \in loaded : Loadable(i) /\ trigger[i] # "bad"
  BY <1>2
<1>5. dated' \subseteq Rows /\ lost' \subseteq Rows
  BY <1>1, <1>2
<1>6. \A i \in Rows : /\ kind'[i] = "once" => i \in lost'
                     /\ Loadable(i) /\ trigger[i] # "bad" => i \in loaded \cup lost'
  BY <1>1
<1> HIDE DEF good, add
<1> QED
  BY <1>1, <1>2, <1>3, <1>4, <1>5, <1>6

\* A run that starts has the type of one.
LEMMA Started ==
  ASSUME TypeOK, Shapes, NEW r \in Runs, NEW j \in Rows, NEW b \in BOOLEAN, Start(r, j, b),
         job' \in [Rows -> {"none", "active", "paused"}], dated' \subseteq Rows,
         excused' \subseteq Rows, lost' \subseteq Rows
  PROVE  TypeOK' /\ Shapes'
<1> DEFINE new == [pc |-> "read", id |-> j, byHand |-> b]
<1>1. /\ run' = [run EXCEPT ![r] = new] /\ running' = running \cup {j}
      /\ contested' \in {contested, contested \cup {j}}
      /\ UNCHANGED <<row, kind, trigger, known, cmd, ran>>
  BY DEF Start, table
<1>2. new \in RunRecord /\ new # Idle /\ new.pc = "read" /\ new.id = j /\ new.byHand = b
  BY DEF RunRecord, Idle
<1> HIDE DEF new
<1>3. run' \in [Runs -> {Idle} \cup RunRecord]
  BY <1>1, <1>2 DEF Shapes
<1>4. run'[r] = new /\ \A s \in Runs : s # r => run'[s] = run[s]
  BY <1>1 DEF Shapes
<1>5. Shapes'
  BY <1>1, <1>2, <1>3, <1>4 DEF Shapes
<1>6. TypeOK'
  BY <1>1, <1>2, <1>4 DEF TypeOK
<1> QED
  BY <1>5, <1>6

\* Every step keeps the types.
LEMMA TypeStep ==
  ASSUME TypeOK, Shapes, [Next]_vars
  PROVE  TypeOK' /\ Shapes'
<1>1. ASSUME NEW c \in Commands, NEW k \in {"standing", "once"}, NEW t \in Triggers, Add(c, k, t)
      PROVE  TypeOK' /\ Shapes'
  <2>1. PICK i \in Rows :
           /\ (k = "standing" /\ kind[i] = "standing" /\ Exists(i)) \/ IsFresh(i)
           /\ row' = [row EXCEPT ![i] = "on"] /\ kind' = [kind EXCEPT ![i] = k]
           /\ trigger' = [trigger EXCEPT ![i] = t]
           /\ known' = (IF k = "once" THEN known \cup {i} ELSE Renewed(known, i))
           /\ cmd' = [cmd EXCEPT ![c] = At("apply", "schedule", i, t)]
           /\ contested' = (IF Busy(i) THEN contested \cup {i} ELSE Renewed(contested, i))
           /\ excused' = Renewed(excused, i) /\ lost' = Renewed(lost, i)
           /\ ran' = (IF Exists(i) THEN ran ELSE [ran EXCEPT ![i] = 0])
    BY <1>1 DEF Add, Become, Registers
  <2>2. UNCHANGED <<job, dated, running, run>>
    BY <1>1 DEF Add, jobs
  <2>3. At("apply", "schedule", i, t) \in CmdRecord
    BY DEF At, CmdRecord
  <2>4. ran' \in [Rows -> 0..2] /\ contested' \subseteq Rows /\ lost' \subseteq Rows /\ excused' \subseteq Rows
    BY <2>1 DEF TypeOK, Renewed
  <2>5. \A j \in Rows : j # i => kind'[j] = kind[j]
    BY <2>1 DEF TypeOK
  <2>6. kind'[i] = k
    BY <2>1 DEF TypeOK
  <2>7. known' \subseteq {j \in Rows : kind'[j] = "once"}
    <3>1. CASE k = "once"
      BY <3>1, <2>1, <2>5, <2>6 DEF TypeOK
    <3>2. CASE k = "standing"
      <4>1. i \notin known'
        BY <3>2, <2>1 DEF Renewed, TypeOK, IsFresh, Free
      <4>2. known' \subseteq known
        BY <3>2, <2>1 DEF Renewed
      <4> QED
        BY <4>1, <4>2, <2>5 DEF TypeOK
    <3> QED
      BY <3>1, <3>2
  <2>8. /\ row' \in [Rows -> {"none", "on", "off", "gone"}]
        /\ kind' \in [Rows -> {"standing", "once"}] /\ trigger' \in [Rows -> Triggers]
    BY <2>1 DEF TypeOK
  <2>9. \A d \in Commands : cmd'[d] = IF d = c THEN At("apply", "schedule", i, t) ELSE cmd[d]
    BY <2>1 DEF Shapes
  <2>10. cmd' \in [Commands -> {Idle} \cup CmdRecord]
    BY <2>1, <2>3 DEF Shapes
  <2>11. \A d \in Commands : cmd'[d] # Idle => cmd'[d].id \in Rows
    BY <2>9 DEF At, TypeOK
  <2>12. TypeOK'
    BY <2>2, <2>4, <2>7, <2>8, <2>11 DEF TypeOK
  <2>13. \A r \in Runs : run[r].pc \in {"delete", "forget"} => kind'[run[r].id] = "once"
    <3>1. ASSUME NEW r \in Runs, run[r].pc \in {"delete", "forget"} PROVE kind'[run[r].id] = "once"
      <4>1. run[r] # Idle /\ kind[run[r].id] = "once" /\ run[r].id \in Rows
        BY <3>1 DEF Shapes, TypeOK, Idle
      <4>2. run[r].id # i
        BY <4>1, <2>1 DEF IsFresh, Free, RunOf
      <4> QED
        BY <4>1, <4>2, <2>5
    <3> QED
      BY <3>1
  <2>14. Shapes'
    BY <2>2, <2>9, <2>10, <2>13 DEF Shapes, At
  <2> QED
    BY <2>12, <2>14
<1>2. ASSUME NEW c \in Commands, NEW j \in Rows,
        NEW op \in {"pause", "resume", "update", "retime", "remove"}, NEW t \in Triggers,
        Ask(c, op, j, t)
      PROVE  TypeOK' /\ Shapes'
  BY <1>2 DEF Ask, table, jobs, NoJob, Become, At, TypeOK, Shapes, RunRecord, CmdRecord, Idle
<1>3. ASSUME NEW c \in Commands, Write(c)
      PROVE  TypeOK' /\ Shapes'
  BY <1>3 DEF Write, table, jobs, NoJob, Become, At, history, TypeOK, Shapes, RunRecord, CmdRecord, Idle
<1>4. ASSUME NEW c \in Commands, WriteFails(c)
      PROVE  TypeOK' /\ Shapes'
  BY <1>4 DEF WriteFails, table, jobs, NoJob, Become, TypeOK, Shapes, RunRecord, CmdRecord, Idle
<1>5. ASSUME NEW c \in Commands, Apply(c)
      PROVE  TypeOK' /\ Shapes'
  BY <1>5 DEF Apply, table, jobs, NoJob, Become, At, history, TypeOK, Shapes, RunRecord, CmdRecord, Idle
<1>6. ASSUME NEW c \in Commands, ReAdd(c)
      PROVE  TypeOK' /\ Shapes'
  BY <1>6 DEF ReAdd, table, jobs, NoJob, Become, At, history, TypeOK, Shapes, RunRecord, CmdRecord, Idle
<1>7. ASSUME NEW r \in Runs, NEW j \in Rows, Fire(r, j)
      PROVE  TypeOK' /\ Shapes'
  <2>1. Start(r, j, FALSE) /\ Consume(j) /\ excused' = excused /\ lost' \subseteq Rows
    BY <1>7 DEF Fire, TypeOK
  <2>2. job' \in [Rows -> {"none", "active", "paused"}] /\ dated' \subseteq Rows
    BY <2>1 DEF Consume, NoJob, jobs, TypeOK
  <2> QED
    BY <2>1, <2>2, Started DEF TypeOK
<1>8. ASSUME NEW r \in Runs, NEW j \in Rows, TriggerNow(r, j)
      PROVE  TypeOK' /\ Shapes'
  <2>1. Start(r, j, TRUE) /\ UNCHANGED <<job, dated, lost>> /\ excused' \subseteq Rows
    BY <1>8 DEF TriggerNow, Excuse, TypeOK, jobs
  <2> QED
    BY <2>1, Started DEF TypeOK
<1>9. ASSUME NEW r \in Runs, Read(r)
      PROVE  TypeOK' /\ Shapes'
  BY <1>9 DEF Read, table, jobs, NoJob, EndOf, Lose, TypeOK, Shapes, RunRecord, CmdRecord, Idle
<1>10. ASSUME NEW r \in Runs, Execute(r)
      PROVE  TypeOK' /\ Shapes'
  BY <1>10 DEF Execute, table, jobs, NoJob, TypeOK, Shapes, RunRecord, CmdRecord, Idle
<1>11. ASSUME NEW r \in Runs, Save(r)
      PROVE  TypeOK' /\ Shapes'
  BY <1>11 DEF Save, table, jobs, NoJob, EndOf, history, TypeOK, Shapes, RunRecord, CmdRecord, Idle
<1>12. ASSUME NEW r \in Runs, Delete(r)
      PROVE  TypeOK' /\ Shapes'
  BY <1>12 DEF Delete, table, jobs, NoJob, history, TypeOK, Shapes, RunRecord, CmdRecord, Idle
<1>13. ASSUME NEW r \in Runs, Forget(r)
      PROVE  TypeOK' /\ Shapes'
  BY <1>13 DEF Forget, table, jobs, NoJob, EndOf, history, TypeOK, Shapes, RunRecord, CmdRecord, Idle
<1>14. ASSUME NEW r \in Runs, FailRun(r)
      PROVE  TypeOK' /\ Shapes'
  BY <1>14 DEF FailRun, table, jobs, NoJob, EndOf, Excuse, Lose, TypeOK, Shapes, RunRecord, CmdRecord, Idle
<1>15. ASSUME NEW j \in Rows, Miss(j)
      PROVE  TypeOK' /\ Shapes'
  BY <1>15 DEF Miss, table, jobs, NoJob, Consume, TypeOK, Shapes, RunRecord, CmdRecord, Idle
<1>16. ASSUME Restart
      PROVE  TypeOK' /\ Shapes'
  <2>1. /\ known' = {} /\ running' = {} /\ contested' = {}
        /\ run' = [s \in Runs |-> Idle] /\ cmd' = [d \in Commands |-> Idle]
    BY <1>16 DEF Restart
  <2>2. PICK add \in SUBSET Rows, loaded \in SUBSET Rows :
           /\ row' = [i \in Rows |-> IF i \in add THEN "on" ELSE row[i]]
           /\ kind' = [i \in Rows |-> IF i \in add THEN "standing" ELSE kind[i]]
           /\ trigger' = [i \in Rows |-> IF i \in add THEN "repeat" ELSE trigger[i]]
           /\ job' = [i \in Rows |-> IF i \in add \cup loaded THEN "active" ELSE "none"]
           /\ dated' \subseteq Rows /\ lost' \subseteq Rows
           /\ ran' = [i \in Rows |-> IF i \in add THEN 0 ELSE ran[i]]
           /\ excused' = excused \ add
    BY <1>16, RestartFrom
  <2>3. /\ row' \in [Rows -> {"none", "on", "off", "gone"}]
        /\ kind' \in [Rows -> {"standing", "once"}] /\ trigger' \in [Rows -> Triggers]
    BY <2>2 DEF TypeOK, Triggers
  <2>4. job' \in [Rows -> {"none", "active", "paused"}] /\ ran' \in [Rows -> 0..2]
    BY <2>2 DEF TypeOK
  <2>5. TypeOK'
    <3>1. running' \subseteq Rows /\ known' \subseteq {i \in Rows : kind'[i] = "once"}
          /\ excused' \subseteq Rows /\ contested' \subseteq Rows
      BY <2>1, <2>2 DEF TypeOK
    <3> QED
      BY <2>1, <2>2, <2>3, <2>4, <3>1 DEF TypeOK
  <2>6. Shapes'
    BY <2>1 DEF Shapes, Idle
  <2> QED
    BY <2>5, <2>6
<1>17. ASSUME UNCHANGED vars
      PROVE  TypeOK' /\ Shapes'
  BY <1>17 DEF vars, table, jobs, NoJob, TypeOK, Shapes, RunRecord, CmdRecord, Idle
<1>18. ASSUME NEW c \in Commands, Reschedule(c)
      PROVE  TypeOK' /\ Shapes'
  BY <1>18 DEF Reschedule, table, NoJob, Become, TypeOK, Shapes, RunRecord, CmdRecord, Idle
<1> QED
  <2>1. ASSUME NEW c \in Commands, CommandStep(c) PROVE TypeOK' /\ Shapes'
    BY <2>1, <1>3, <1>4, <1>5, <1>6, <1>18 DEF CommandStep
  <2>2. ASSUME NEW r \in Runs, RunStep(r) PROVE TypeOK' /\ Shapes'
    BY <2>2, <1>9, <1>10, <1>11, <1>12, <1>13, <1>14 DEF RunStep
  <2> QED
    BY <2>1, <2>2, <1>1, <1>2, <1>7, <1>8, <1>15, <1>16, <1>17 DEF Next

\* Every step keeps shown only what runs.
LEMMA RunningStep ==
  ASSUME TypeOK, Shapes, RunningIsReal, [Next]_vars
  PROVE  RunningIsReal'
<1>1. ASSUME NEW c \in Commands, NEW k \in {"standing", "once"}, NEW t \in Triggers, Add(c, k, t)
      PROVE  RunningIsReal'
  BY <1>1 DEF Add, table, jobs, NoJob, Become, At, Renewed, Registers, TypeOK, Shapes, RunRecord, Idle, RunningIsReal, RunOf
<1>2. ASSUME NEW c \in Commands, NEW j \in Rows,
        NEW op \in {"pause", "resume", "update", "retime", "remove"}, NEW t \in Triggers,
        Ask(c, op, j, t)
      PROVE  RunningIsReal'
  BY <1>2 DEF Ask, table, jobs, NoJob, Become, At, TypeOK, Shapes, RunRecord, Idle, RunningIsReal, RunOf
<1>3. ASSUME NEW c \in Commands, Write(c)
      PROVE  RunningIsReal'
  BY <1>3 DEF Write, table, jobs, NoJob, Become, At, history, TypeOK, Shapes, RunRecord, Idle, RunningIsReal, RunOf
<1>4. ASSUME NEW c \in Commands, WriteFails(c)
      PROVE  RunningIsReal'
  BY <1>4 DEF WriteFails, table, jobs, NoJob, Become, TypeOK, Shapes, RunRecord, Idle, RunningIsReal, RunOf
<1>5. ASSUME NEW c \in Commands, Apply(c)
      PROVE  RunningIsReal'
  BY <1>5 DEF Apply, table, jobs, NoJob, Become, At, history, TypeOK, Shapes, RunRecord, Idle, RunningIsReal, RunOf
<1>6. ASSUME NEW c \in Commands, ReAdd(c)
      PROVE  RunningIsReal'
  BY <1>6 DEF ReAdd, table, jobs, NoJob, Become, At, history, TypeOK, Shapes, RunRecord, Idle, RunningIsReal, RunOf
<1>7. ASSUME NEW r \in Runs, NEW j \in Rows, Fire(r, j)
      PROVE  RunningIsReal'
  BY <1>7 DEF Fire, table, jobs, NoJob, Start, Consume, TypeOK, Shapes, RunRecord, Idle, RunningIsReal, RunOf
<1>8. ASSUME NEW r \in Runs, NEW j \in Rows, TriggerNow(r, j)
      PROVE  RunningIsReal'
  BY <1>8 DEF TriggerNow, table, jobs, NoJob, Start, Excuse, TypeOK, Shapes, RunRecord, Idle, RunningIsReal, RunOf
<1>9. ASSUME NEW r \in Runs, Read(r)
      PROVE  RunningIsReal'
  BY <1>9 DEF Read, table, jobs, NoJob, EndOf, Lose, TypeOK, Shapes, RunRecord, Idle, RunningIsReal, RunOf
<1>10. ASSUME NEW r \in Runs, Execute(r)
      PROVE  RunningIsReal'
  BY <1>10 DEF Execute, table, jobs, NoJob, TypeOK, Shapes, RunRecord, Idle, RunningIsReal, RunOf
<1>11. ASSUME NEW r \in Runs, Save(r)
      PROVE  RunningIsReal'
  BY <1>11 DEF Save, table, jobs, NoJob, EndOf, history, TypeOK, Shapes, RunRecord, Idle, RunningIsReal, RunOf
<1>12. ASSUME NEW r \in Runs, Delete(r)
      PROVE  RunningIsReal'
  BY <1>12 DEF Delete, table, jobs, NoJob, history, TypeOK, Shapes, RunRecord, Idle, RunningIsReal, RunOf
<1>13. ASSUME NEW r \in Runs, Forget(r)
      PROVE  RunningIsReal'
  BY <1>13 DEF Forget, table, jobs, NoJob, EndOf, history, TypeOK, Shapes, RunRecord, Idle, RunningIsReal, RunOf
<1>14. ASSUME NEW r \in Runs, FailRun(r)
      PROVE  RunningIsReal'
  BY <1>14 DEF FailRun, table, jobs, NoJob, EndOf, Excuse, Lose, TypeOK, Shapes, RunRecord, Idle, RunningIsReal, RunOf
<1>15. ASSUME NEW j \in Rows, Miss(j)
      PROVE  RunningIsReal'
  BY <1>15 DEF Miss, table, jobs, NoJob, Consume, TypeOK, Shapes, RunRecord, Idle, RunningIsReal, RunOf
<1>16. ASSUME Restart
      PROVE  RunningIsReal'
  BY <1>16 DEF Restart, table, jobs, NoJob, Loadable, TypeOK, Shapes, RunRecord, Idle, RunningIsReal, RunOf
<1>17. ASSUME UNCHANGED vars
      PROVE  RunningIsReal'
  BY <1>17 DEF vars, table, jobs, NoJob, TypeOK, Shapes, RunRecord, Idle, RunningIsReal, RunOf
<1>18. ASSUME NEW c \in Commands, Reschedule(c)
      PROVE  RunningIsReal'
  BY <1>18 DEF Reschedule, table, NoJob, Become, TypeOK, Shapes, RunRecord, Idle, RunningIsReal, RunOf
<1> QED
  <2>1. ASSUME NEW c \in Commands, CommandStep(c) PROVE RunningIsReal'
    BY <2>1, <1>3, <1>4, <1>5, <1>6, <1>18 DEF CommandStep
  <2>2. ASSUME NEW r \in Runs, RunStep(r) PROVE RunningIsReal'
    BY <2>2, <1>9, <1>10, <1>11, <1>12, <1>13, <1>14 DEF RunStep
  <2> QED
    BY <2>1, <2>2, <1>1, <1>2, <1>7, <1>8, <1>15, <1>16, <1>17 DEF Next

\* Every step keeps what is known of a one-off schedule and its runs.
LEMMA OnceStep ==
  ASSUME TypeOK, Shapes, NEW i \in Rows, RunsOnce(i), [Next]_vars
  PROVE  RunsOnce(i)'
<1>1. ASSUME NEW c \in Commands, NEW k \in {"standing", "once"}, NEW t \in Triggers, Add(c, k, t)
      PROVE  RunsOnce(i)'
  BY <1>1 DEF Add, table, jobs, NoJob, Become, At, Renewed, Registers, IsFresh, Free, Exists, TypeOK, Shapes, RunRecord, Idle, RunsOnce, RunOf
<1>2. ASSUME NEW c \in Commands, NEW j \in Rows,
        NEW op \in {"pause", "resume", "update", "retime", "remove"}, NEW t \in Triggers,
        Ask(c, op, j, t)
      PROVE  RunsOnce(i)'
  BY <1>2 DEF Ask, table, jobs, NoJob, Become, At, TypeOK, Shapes, RunRecord, Idle, RunsOnce, RunOf
<1>3. ASSUME NEW c \in Commands, Write(c)
      PROVE  RunsOnce(i)'
  BY <1>3 DEF Write, table, jobs, NoJob, Become, At, history, TypeOK, Shapes, RunRecord, Idle, RunsOnce, RunOf
<1>4. ASSUME NEW c \in Commands, WriteFails(c)
      PROVE  RunsOnce(i)'
  BY <1>4 DEF WriteFails, table, jobs, NoJob, Become, TypeOK, Shapes, RunRecord, Idle, RunsOnce, RunOf
<1>5. ASSUME NEW c \in Commands, Apply(c)
      PROVE  RunsOnce(i)'
  BY <1>5 DEF Apply, table, jobs, NoJob, Become, At, history, TypeOK, Shapes, RunRecord, Idle, RunsOnce, RunOf
<1>6. ASSUME NEW c \in Commands, ReAdd(c)
      PROVE  RunsOnce(i)'
  BY <1>6 DEF ReAdd, table, jobs, NoJob, Become, At, history, TypeOK, Shapes, RunRecord, Idle, RunsOnce, RunOf
<1>7. ASSUME NEW r \in Runs, NEW j \in Rows, Fire(r, j)
      PROVE  RunsOnce(i)'
  BY <1>7 DEF Fire, table, jobs, NoJob, FreeToRun, Start, Consume, TypeOK, Shapes, RunRecord, Idle, RunsOnce, RunOf
<1>8. ASSUME NEW r \in Runs, NEW j \in Rows, TriggerNow(r, j)
      PROVE  RunsOnce(i)'
  BY <1>8 DEF TriggerNow, table, jobs, NoJob, Start, Excuse, TypeOK, Shapes, RunRecord, Idle, RunsOnce, RunOf
<1>9. ASSUME NEW r \in Runs, Read(r)
      PROVE  RunsOnce(i)'
  BY <1>9 DEF Read, table, jobs, NoJob, EndOf, Lose, TypeOK, Shapes, RunRecord, Idle, RunsOnce, RunOf
<1>10. ASSUME NEW r \in Runs, Execute(r)
      PROVE  RunsOnce(i)'
  <2>1. ran' \in [Rows -> 0..2] /\ \A s \in Runs : s # r => run'[s] = run[s]
    BY <1>10 DEF Execute, TypeOK
  <2> QED
    BY <1>10, <2>1 DEF Execute, Registered, table, TypeOK, Shapes, RunRecord, Idle, RunsOnce, RunOf
<1>11. ASSUME NEW r \in Runs, Save(r)
      PROVE  RunsOnce(i)'
  BY <1>11 DEF Save, table, jobs, NoJob, EndOf, history, TypeOK, Shapes, RunRecord, Idle, RunsOnce, RunOf
<1>12. ASSUME NEW r \in Runs, Delete(r)
      PROVE  RunsOnce(i)'
  BY <1>12 DEF Delete, table, jobs, NoJob, history, TypeOK, Shapes, RunRecord, Idle, RunsOnce, RunOf
<1>13. ASSUME NEW r \in Runs, Forget(r)
      PROVE  RunsOnce(i)'
  BY <1>13 DEF Forget, table, jobs, NoJob, EndOf, history, TypeOK, Shapes, RunRecord, Idle, RunsOnce, RunOf
<1>14. ASSUME NEW r \in Runs, FailRun(r)
      PROVE  RunsOnce(i)'
  BY <1>14 DEF FailRun, table, jobs, NoJob, EndOf, Excuse, Lose, TypeOK, Shapes, RunRecord, Idle, RunsOnce, RunOf
<1>15. ASSUME NEW j \in Rows, Miss(j)
      PROVE  RunsOnce(i)'
  BY <1>15 DEF Miss, table, jobs, NoJob, Consume, TypeOK, Shapes, RunRecord, Idle, RunsOnce, RunOf
<1>16. ASSUME Restart
      PROVE  RunsOnce(i)'
  <2>1. known' = {} /\ run' = [s \in Runs |-> Idle]
    BY <1>16 DEF Restart
  <2>2. PICK add \in SUBSET Rows :
           /\ ran' = [j \in Rows |-> IF j \in add THEN 0 ELSE ran[j]]
           /\ excused' = excused \ add
    BY <1>16, RestartFrom
  <2>3. \A s \in Runs : ~RunOf(s, i)'
    BY <2>1 DEF RunOf
  <2>4. i \notin excused' => ran'[i] \in {0, 1}
    BY <2>2 DEF RunsOnce
  <2> QED
    BY <2>1, <2>3, <2>4 DEF RunsOnce
<1>17. ASSUME UNCHANGED vars
      PROVE  RunsOnce(i)'
  BY <1>17 DEF vars, table, jobs, NoJob, TypeOK, Shapes, RunRecord, Idle, RunsOnce, RunOf
<1>18. ASSUME NEW c \in Commands, Reschedule(c)
      PROVE  RunsOnce(i)'
  BY <1>18 DEF Reschedule, table, NoJob, Become, TypeOK, Shapes, RunRecord, Idle, RunsOnce, RunOf
<1> QED
  <2>1. ASSUME NEW c \in Commands, CommandStep(c) PROVE RunsOnce(i)'
    BY <2>1, <1>3, <1>4, <1>5, <1>6, <1>18 DEF CommandStep
  <2>2. ASSUME NEW r \in Runs, RunStep(r) PROVE RunsOnce(i)'
    BY <2>2, <1>9, <1>10, <1>11, <1>12, <1>13, <1>14 DEF RunStep
  <2> QED
    BY <2>1, <2>2, <1>1, <1>2, <1>7, <1>8, <1>15, <1>16, <1>17 DEF Next

\* Every step keeps what is known of an uncontested row and its job.
LEMMA RightStep ==
  ASSUME TypeOK, Shapes, NEW i \in Rows, StaysRight(i), [Next]_vars
  PROVE  StaysRight(i)'
<1>1. ASSUME NEW c \in Commands, NEW k \in {"standing", "once"}, NEW t \in Triggers, Add(c, k, t)
      PROVE  StaysRight(i)'
  BY <1>1 DEF Add, table, jobs, NoJob, Become, At, Renewed, Registers, IsFresh, Free, TypeOK, Shapes, RunRecord, CmdRecord, Idle, StaysRight, Alone, CommandFits, RunFits, Busy, Commanded, Agrees, Quiet, JobFits, CmdOn, RunOf, Exists
<1>2. ASSUME NEW c \in Commands, NEW j \in Rows,
        NEW op \in {"pause", "resume", "update", "retime", "remove"}, NEW t \in Triggers,
        Ask(c, op, j, t)
      PROVE  StaysRight(i)'
  BY <1>2 DEF Ask, table, jobs, NoJob, Become, At, TypeOK, Shapes, RunRecord, CmdRecord, Idle, StaysRight, Alone, CommandFits, RunFits, Busy, Commanded, Agrees, Quiet, JobFits, CmdOn, RunOf, Exists
<1>3. ASSUME NEW c \in Commands, Write(c)
      PROVE  StaysRight(i)'
  <2> DEFINE j == cmd[c].id
             op == cmd[c].op
  <2>1. /\ cmd[c] # Idle /\ cmd[c].pc = "write" /\ j \in Rows
        /\ op \in {"pause", "resume", "update", "retime", "remove"}
        /\ UNCHANGED <<kind, job, dated, run, contested, lost>>
    BY <1>3 DEF Write, jobs, history, TypeOK, Shapes, CmdRecord, Idle
  <2>2. /\ \A d \in Commands : d # c => cmd'[d] = cmd[d]
        /\ op = "remove" => cmd'[c] = Idle
        /\ op # "remove" =>
             cmd'[c] = [pc |-> "apply", op |-> IF op \in {"update", "retime"} THEN "schedule" ELSE op,
                        id |-> j, trigger |-> cmd[c].trigger]
    BY <1>3 DEF Write, Become, At, Shapes
  <2>3. /\ \A k \in Rows : k # j => row'[k] = row[k]
        /\ ~Exists(j) => row'[j] = row[j]
        /\ Exists(j) => row'[j] = CASE op = "pause" -> "off" [] op = "resume" -> "on"
                                    [] op = "remove" -> "gone" [] OTHER -> row[j]
        /\ \A k \in Rows : k # j => trigger'[k] = trigger[k]
        /\ trigger'[j] = IF Exists(j) /\ op = "retime" THEN cmd[c].trigger ELSE trigger[j]
    BY <1>3, <2>1 DEF Write, TypeOK
  <2> HIDE DEF j, op
  <2> contested' = contested
    BY <2>1
  <2> SUFFICES ASSUME i \notin contested
               PROVE  /\ Alone(i)'
                      /\ \A d \in Commands : CommandFits(d, i)'
                      /\ \A r \in Runs : RunFits(r, i)'
                      /\ (~Busy(i)' => Agrees(i)')
    BY DEF StaysRight
  <2>4. /\ Alone(i)
        /\ \A d \in Commands : CommandFits(d, i)
        /\ \A r \in Runs : RunFits(r, i)
        /\ (~Busy(i) => Agrees(i))
    BY DEF StaysRight
  <2>5. \A d \in Commands : CmdOn(d, i)' => CmdOn(d, i)
    BY <2>1, <2>2 DEF CmdOn, j, Idle
  <2>6. Alone(i)'
    BY <2>1, <2>4, <2>5 DEF Alone, RunOf
  <2>7. CASE i # j
    <3>1. row'[i] = row[i] /\ trigger'[i] = trigger[i] /\ \A d \in Commands : CmdOn(d, i)' <=> CmdOn(d, i)
      BY <2>1, <2>2, <2>3, <2>5, <2>7 DEF CmdOn, j
    <3>2. \A d \in Commands : CmdOn(d, i) => cmd'[d] = cmd[d]
      BY <2>2, <2>7 DEF CmdOn, j
    <3>3. \A d \in Commands : CommandFits(d, i)'
      BY <2>1, <2>4, <3>1, <3>2 DEF CommandFits, Agrees, Quiet, JobFits, Exists
    <3>4. \A r \in Runs : RunFits(r, i)'
      BY <2>1, <2>4, <3>1 DEF RunFits, RunOf, Quiet, JobFits, Exists
    <3>5. Busy(i)' <=> Busy(i)
      BY <2>1, <3>1 DEF RunOf, Busy, Commanded, CmdOn
    <3>6. ~Busy(i)' => Agrees(i)'
      BY <2>1, <2>4, <3>1, <3>5 DEF Agrees, Quiet, JobFits, Exists
    <3> QED
      BY <2>6, <3>3, <3>4, <3>6
  <2>8. CASE i = j
    <3>1. CmdOn(c, i) /\ \A d \in Commands : CmdOn(d, i) => d = c
      BY <2>1, <2>4, <2>8 DEF CmdOn, Alone, j
    <3>2. kind[i] = "once" => \A r \in Runs : ~RunOf(r, i)
      BY <2>4, <3>1 DEF Alone
    <3>3. \A r \in Runs : RunFits(r, i)'
      BY <2>1, <3>2 DEF RunFits, RunOf
    <3>4. CASE op = "remove"
      <4>1. job[i] = "none" /\ row'[i] # "on"
        BY <2>1, <2>3, <2>4, <2>8, <3>1, <3>4 DEF CommandFits, Exists, op
      <4>2. \A d \in Commands : ~CmdOn(d, i)'
        BY <2>2, <2>5, <3>1, <3>4 DEF CmdOn
      <4>3. Agrees(i)'
        BY <2>1, <2>3, <2>8, <3>4, <4>1 DEF Agrees, Quiet, Exists, TypeOK
      <4> QED
        BY <2>6, <3>3, <4>2, <4>3 DEF CommandFits
    <3>5. CASE op # "remove"
      <4>1. row[i] = (IF op = "resume" THEN "off" ELSE "on")
        BY <2>1, <2>4, <3>1, <3>5 DEF CommandFits, op
      <4>2. row'[i] = IF op = "pause" THEN "off" ELSE "on"
        BY <2>1, <2>3, <2>8, <3>5, <4>1 DEF Exists
      <4>3. /\ Agrees(i) /\ Exists(i)
            /\ op # "retime" => cmd[c].trigger = trigger[i]
        BY <2>1, <2>4, <3>1, <3>5, <4>1 DEF CommandFits, Exists, op
      <4>4. IF op \in {"update", "retime"} THEN cmd[c].trigger = trigger'[i] ELSE trigger'[i] = trigger[i]
        BY <2>1, <2>3, <2>8, <4>3
      <4>5. op \in {"pause", "resume"} => (job'[i] # "none" => JobFits(i)')
        BY <2>1, <4>3, <4>4 DEF Agrees, Quiet, JobFits
      <4>6. /\ cmd'[c] # Idle /\ cmd'[c].pc = "apply" /\ cmd'[c].id = i
            /\ cmd'[c].op = IF op \in {"update", "retime"} THEN "schedule" ELSE op
            /\ cmd'[c].trigger = cmd[c].trigger
        BY <2>2, <2>8, <3>5 DEF Idle
      <4>7. CmdOn(c, i)' /\ CommandFits(c, i)'
        BY <2>1, <3>5, <4>2, <4>4, <4>5, <4>6 DEF CmdOn, CommandFits
      <4>8. \A d \in Commands : CommandFits(d, i)'
        BY <2>5, <3>1, <4>7 DEF CommandFits
      <4>9. Busy(i)'
        BY <4>7 DEF Busy, Commanded, CmdOn
      <4> QED
        BY <2>6, <3>3, <4>8, <4>9
    <3> QED
      BY <3>4, <3>5
  <2> QED
    BY <2>7, <2>8
<1>4. ASSUME NEW c \in Commands, WriteFails(c)
      PROVE  StaysRight(i)'
  BY <1>4 DEF WriteFails, table, jobs, NoJob, Become, TypeOK, Shapes, RunRecord, CmdRecord, Idle, StaysRight, Alone, CommandFits, RunFits, Busy, Commanded, Agrees, Quiet, JobFits, CmdOn, RunOf, Exists
<1>5. ASSUME NEW c \in Commands, Apply(c)
      PROVE  StaysRight(i)'
  <2> DEFINE j == cmd[c].id
  <2>1. /\ cmd[c] # Idle /\ cmd[c].pc = "apply" /\ j \in Rows
        /\ cmd[c].op \in {"pause", "resume"}
        /\ UNCHANGED <<row, kind, trigger, dated, run, contested, lost>>
    BY <1>5 DEF Apply, table, history, TypeOK
  <2>2. /\ \A d \in Commands : d # c => cmd'[d] = cmd[d]
        /\ \/ cmd'[c] = Idle
           \/ /\ cmd[c].op = "resume" /\ job[j] = "none"
              /\ cmd'[c] = [pc |-> "readd", op |-> cmd[c].op, id |-> j, trigger |-> cmd[c].trigger]
    BY <1>5 DEF Apply, Become, At, Shapes
  <2>3. /\ \A k \in Rows : k # j => job'[k] = job[k]
        /\ job'[j] = IF job[j] = "none" THEN "none"
                     ELSE IF cmd[c].op = "pause" THEN "paused" ELSE "active"
    BY <1>5, <2>1 DEF Apply, TypeOK
  <2> HIDE DEF j
  <2> contested' = contested
    BY <2>1
  <2> SUFFICES ASSUME i \notin contested
               PROVE  /\ Alone(i)'
                      /\ \A d \in Commands : CommandFits(d, i)'
                      /\ \A r \in Runs : RunFits(r, i)'
                      /\ (~Busy(i)' => Agrees(i)')
    BY DEF StaysRight
  <2>4. /\ Alone(i)
        /\ \A d \in Commands : CommandFits(d, i)
        /\ \A r \in Runs : RunFits(r, i)
        /\ (~Busy(i) => Agrees(i))
    BY DEF StaysRight
  <2>5. \A d \in Commands : CmdOn(d, i)' => CmdOn(d, i)
    BY <2>1, <2>2 DEF CmdOn, j, Idle
  <2>6. Alone(i)'
    BY <2>1, <2>4, <2>5 DEF Alone, RunOf
  <2>7. CASE i # j
    <3>1. job'[i] = job[i] /\ \A d \in Commands : CmdOn(d, i)' <=> CmdOn(d, i)
      BY <2>1, <2>2, <2>3, <2>5, <2>7 DEF CmdOn, j
    <3>2. \A d \in Commands : CmdOn(d, i) => cmd'[d] = cmd[d]
      BY <2>2, <2>7 DEF CmdOn, j
    <3>3. \A d \in Commands : CommandFits(d, i)'
      BY <2>1, <2>4, <3>1, <3>2 DEF CommandFits, Agrees, Quiet, JobFits, Exists
    <3>4. \A r \in Runs : RunFits(r, i)'
      BY <2>1, <2>4, <3>1 DEF RunFits, RunOf, Quiet, JobFits, Exists
    <3>5. Busy(i)' <=> Busy(i)
      BY <2>1, <3>1 DEF RunOf, Busy, Commanded, CmdOn
    <3>6. ~Busy(i)' => Agrees(i)'
      BY <2>1, <2>4, <3>1, <3>5 DEF Agrees, Quiet, JobFits, Exists
    <3> QED
      BY <2>6, <3>3, <3>4, <3>6
  <2>8. CASE i = j
    <3>1. CmdOn(c, i) /\ \A d \in Commands : CmdOn(d, i) => d = c
      BY <2>1, <2>4, <2>8 DEF CmdOn, Alone, j
    <3>2. /\ row[i] = IF cmd[c].op = "pause" THEN "off" ELSE "on"
          /\ job[i] # "none" => JobFits(i)
      BY <2>1, <2>4, <3>1 DEF CommandFits
    <3>3. \A d \in Commands : CommandFits(d, i)'
      BY <2>1, <2>2, <2>3, <2>5, <2>8, <3>1, <3>2 DEF CommandFits, CmdOn, Idle
    <3>4. kind[i] = "once" => \A r \in Runs : ~RunOf(r, i)
      BY <2>4, <3>1 DEF Alone
    <3>5. \A r \in Runs : RunFits(r, i)'
      BY <2>1, <3>4 DEF RunFits, RunOf
    <3>6. ~Busy(i)' => Agrees(i)'
      <4> SUFFICES ASSUME ~Busy(i)' PROVE Agrees(i)'
        OBVIOUS
      <4>1. ~(cmd[c].op = "resume" /\ job[i] = "none")
        BY <1>5, <2>1, <2>8 DEF Apply, Become, At, Shapes, Busy, Commanded, Idle, j
      <4>2. job'[i] # "none" => JobFits(i)'
        BY <2>1, <2>3, <2>8, <3>2 DEF JobFits
      <4> QED
        BY <2>1, <2>3, <2>8, <3>2, <4>1, <4>2 DEF Agrees, Quiet, Exists
    <3> QED
      BY <2>6, <3>3, <3>5, <3>6
  <2> QED
    BY <2>7, <2>8
<1>6. ASSUME NEW c \in Commands, ReAdd(c)
      PROVE  StaysRight(i)'
  BY <1>6 DEF ReAdd, table, jobs, NoJob, Become, At, history, TypeOK, Shapes, RunRecord, CmdRecord, Idle, StaysRight, Alone, CommandFits, RunFits, Busy, Commanded, Agrees, Quiet, JobFits, CmdOn, RunOf, Exists
<1>7. ASSUME NEW r \in Runs, NEW j \in Rows, Fire(r, j)
      PROVE  StaysRight(i)'
  BY <1>7 DEF Fire, table, jobs, NoJob, Start, Consume, TypeOK, Shapes, RunRecord, CmdRecord, Idle, StaysRight, Alone, CommandFits, RunFits, Busy, Commanded, Agrees, Quiet, JobFits, CmdOn, RunOf, Exists
<1>8. ASSUME NEW r \in Runs, NEW j \in Rows, TriggerNow(r, j)
      PROVE  StaysRight(i)'
  BY <1>8 DEF TriggerNow, table, jobs, NoJob, Start, Excuse, TypeOK, Shapes, RunRecord, CmdRecord, Idle, StaysRight, Alone, CommandFits, RunFits, Busy, Commanded, Agrees, Quiet, JobFits, CmdOn, RunOf, Exists
<1>9. ASSUME NEW r \in Runs, Read(r)
      PROVE  StaysRight(i)'
  BY <1>9 DEF Read, table, jobs, NoJob, EndOf, Lose, TypeOK, Shapes, RunRecord, CmdRecord, Idle, StaysRight, Alone, CommandFits, RunFits, Busy, Commanded, Agrees, Quiet, JobFits, CmdOn, RunOf, Exists
<1>10. ASSUME NEW r \in Runs, Execute(r)
      PROVE  StaysRight(i)'
  BY <1>10 DEF Execute, table, jobs, NoJob, TypeOK, Shapes, RunRecord, CmdRecord, Idle, StaysRight, Alone, CommandFits, RunFits, Busy, Commanded, Agrees, Quiet, JobFits, CmdOn, RunOf, Exists
<1>11. ASSUME NEW r \in Runs, Save(r)
      PROVE  StaysRight(i)'
  <2>1. /\ run[r] # Idle /\ run[r].pc = "save"
        /\ UNCHANGED <<row, kind, trigger, job, dated, cmd, contested, lost>>
    BY <1>11 DEF Save, table, jobs, history
  <2>2. /\ \A s \in Runs : s # r => run'[s] = run[s]
        /\ run'[r] = IF kind[run[r].id] = "once" THEN [run[r] EXCEPT !.pc = "delete"] ELSE Idle
    BY <1>11 DEF Save, EndOf, Shapes
  <2>3. run'[r] # Idle => run'[r].id = run[r].id /\ run'[r].pc = "delete"
    BY <2>1, <2>2 DEF Shapes, RunRecord, Idle
  <2>4. \A s \in Runs : RunOf(s, i)' => RunOf(s, i)
    BY <2>1, <2>2, <2>3 DEF RunOf
  <2>5. kind[i] = "once" => \A s \in Runs : RunOf(s, i) => RunOf(s, i)'
    <3>1. ASSUME kind[i] = "once", RunOf(r, i) PROVE run'[r] # Idle /\ run'[r].id = i
      BY <2>1, <2>2, <3>1 DEF RunOf, Shapes, RunRecord, Idle
    <3> QED
      BY <2>2, <3>1 DEF RunOf
  <2> contested' = contested
    BY <2>1
  <2> SUFFICES ASSUME i \notin contested
               PROVE  /\ Alone(i)'
                      /\ \A d \in Commands : CommandFits(d, i)'
                      /\ \A s \in Runs : RunFits(s, i)'
                      /\ (~Busy(i)' => Agrees(i)')
    BY DEF StaysRight
  <2>6. /\ Alone(i)
        /\ \A d \in Commands : CommandFits(d, i)
        /\ \A s \in Runs : RunFits(s, i)
        /\ (~Busy(i) => Agrees(i))
    BY DEF StaysRight
  <2>7. Alone(i)'
    BY <2>1, <2>4, <2>6 DEF Alone, CmdOn
  <2>8. \A d \in Commands : CommandFits(d, i)'
    BY <2>1, <2>6 DEF CommandFits, CmdOn, Agrees, Quiet, JobFits, Exists
  <2>9. \A s \in Runs : RunFits(s, i)'
    BY <2>1, <2>2, <2>3, <2>4, <2>6 DEF RunFits, Quiet, JobFits, Exists, RunOf
  <2>10. ~Busy(i)' => Agrees(i)'
    BY <2>1, <2>5, <2>6 DEF Busy, Commanded, Agrees, Quiet, JobFits, Exists
  <2> QED
    BY <2>7, <2>8, <2>9, <2>10
<1>12. ASSUME NEW r \in Runs, Delete(r)
      PROVE  StaysRight(i)'
  BY <1>12 DEF Delete, table, jobs, NoJob, history, TypeOK, Shapes, RunRecord, CmdRecord, Idle, StaysRight, Alone, CommandFits, RunFits, Busy, Commanded, Agrees, Quiet, JobFits, CmdOn, RunOf, Exists
<1>13. ASSUME NEW r \in Runs, Forget(r)
      PROVE  StaysRight(i)'
  BY <1>13 DEF Forget, table, jobs, NoJob, EndOf, history, TypeOK, Shapes, RunRecord, CmdRecord, Idle, StaysRight, Alone, CommandFits, RunFits, Busy, Commanded, Agrees, Quiet, JobFits, CmdOn, RunOf, Exists
<1>14. ASSUME NEW r \in Runs, FailRun(r)
      PROVE  StaysRight(i)'
  BY <1>14 DEF FailRun, table, jobs, NoJob, EndOf, Excuse, Lose, TypeOK, Shapes, RunRecord, CmdRecord, Idle, StaysRight, Alone, CommandFits, RunFits, Busy, Commanded, Agrees, Quiet, JobFits, CmdOn, RunOf, Exists
<1>15. ASSUME NEW j \in Rows, Miss(j)
      PROVE  StaysRight(i)'
  BY <1>15 DEF Miss, table, jobs, NoJob, Consume, TypeOK, Shapes, RunRecord, CmdRecord, Idle, StaysRight, Alone, CommandFits, RunFits, Busy, Commanded, Agrees, Quiet, JobFits, CmdOn, RunOf, Exists
<1>16. ASSUME Restart
      PROVE  StaysRight(i)'
  <2>1. run' = [s \in Runs |-> Idle] /\ cmd' = [d \in Commands |-> Idle]
    BY <1>16 DEF Restart
  <2>2. (\A d \in Commands : ~CmdOn(d, i)') /\ (\A s \in Runs : ~RunOf(s, i)')
    BY <2>1 DEF CmdOn, RunOf
  <2>3. PICK add \in SUBSET Rows, loaded \in SUBSET Rows :
           /\ \A j \in add : ~Exists(j)
           /\ \A j \in loaded : Loadable(j) /\ trigger[j] # "bad"
           /\ row' = [j \in Rows |-> IF j \in add THEN "on" ELSE row[j]]
           /\ kind' = [j \in Rows |-> IF j \in add THEN "standing" ELSE kind[j]]
           /\ trigger' = [j \in Rows |-> IF j \in add THEN "repeat" ELSE trigger[j]]
           /\ job' = [j \in Rows |-> IF j \in add \cup loaded THEN "active" ELSE "none"]
           /\ dated' = {j \in loaded : trigger[j] = "date"}
           /\ \A j \in Rows : /\ kind'[j] = "once" => j \in lost'
                              /\ Loadable(j) /\ trigger[j] # "bad" => j \in loaded \cup lost'
    BY <1>16, RestartFrom
  <2>4. CASE i \in add
    <3>1. row'[i] = "on" /\ job'[i] = "active" /\ trigger'[i] = "repeat" /\ i \notin dated'
      BY <2>3, <2>4 DEF Loadable, Exists
    <3>2. Agrees(i)'
      BY <3>1 DEF Agrees, Quiet, JobFits, Exists
    <3> QED
      BY <2>2, <3>2 DEF StaysRight, Alone, CommandFits, RunFits
  <2>5. CASE i \in loaded /\ i \notin add
    <3>1. /\ row'[i] = "on" /\ job'[i] = "active" /\ trigger'[i] \in {"repeat", "date"}
          /\ i \in dated' <=> trigger'[i] = "date"
      BY <2>3, <2>5 DEF Loadable, TypeOK, Triggers
    <3>2. Agrees(i)'
      BY <3>1 DEF Agrees, Quiet, JobFits, Exists
    <3> QED
      BY <2>2, <3>2 DEF StaysRight, Alone, CommandFits, RunFits
  <2>6. CASE i \notin loaded /\ i \notin add
    <3>1. row'[i] = row[i] /\ kind'[i] = kind[i] /\ trigger'[i] = trigger[i] /\ job'[i] = "none"
      BY <2>3, <2>6
    <3>2. row'[i] = "on" /\ trigger'[i] # "bad" => i \in lost'
      <4>1. /\ kind'[i] = "once" => i \in lost'
            /\ Loadable(i) /\ trigger[i] # "bad" => i \in loaded \cup lost'
        BY <2>3
      <4>2. kind[i] \in {"standing", "once"}
        BY DEF TypeOK
      <4> QED
        BY <2>6, <3>1, <4>1, <4>2 DEF Loadable
    <3>3. Agrees(i)'
      BY <3>1, <3>2 DEF Agrees, Quiet
    <3> QED
      BY <2>2, <3>3 DEF StaysRight, Alone, CommandFits, RunFits
  <2> QED
    BY <2>4, <2>5, <2>6
<1>17. ASSUME UNCHANGED vars
      PROVE  StaysRight(i)'
  BY <1>17 DEF vars, table, jobs, NoJob, TypeOK, Shapes, RunRecord, CmdRecord, Idle, StaysRight, Alone, CommandFits, RunFits, Busy, Commanded, Agrees, Quiet, JobFits, CmdOn, RunOf, Exists
<1>18. ASSUME NEW c \in Commands, Reschedule(c)
      PROVE  StaysRight(i)'
  <2> DEFINE j == cmd[c].id
             t == cmd[c].trigger
  <2>1. /\ cmd[c] # Idle /\ cmd[c].pc = "apply" /\ cmd[c].op = "schedule" /\ j \in Rows
        /\ t \in Triggers /\ UNCHANGED <<row, kind, trigger, run, contested>>
    BY <1>18 DEF Reschedule, table, TypeOK, Shapes, CmdRecord, Idle
  <2>2. /\ \A d \in Commands : d # c => cmd'[d] = cmd[d]
        /\ cmd'[c] = Idle
    BY <1>18 DEF Reschedule, Become, Shapes
  <2>3. /\ \A k \in Rows : k # j => /\ job'[k] = job[k] /\ (k \in dated' <=> k \in dated)
                                 /\ (k \in lost' <=> k \in lost)
        /\ IF t = "bad" THEN job'[j] = "none"
           ELSE job'[j] = "active" /\ (j \in dated' <=> t = "date")
    BY <1>18, <2>1 DEF Reschedule, NoJob, TypeOK
  <2> HIDE DEF j, t
  <2> contested' = contested
    BY <2>1
  <2> SUFFICES ASSUME i \notin contested
               PROVE  /\ Alone(i)'
                      /\ \A d \in Commands : CommandFits(d, i)'
                      /\ \A r \in Runs : RunFits(r, i)'
                      /\ (~Busy(i)' => Agrees(i)')
    BY DEF StaysRight
  <2>4. /\ Alone(i)
        /\ \A d \in Commands : CommandFits(d, i)
        /\ \A r \in Runs : RunFits(r, i)
        /\ (~Busy(i) => Agrees(i))
    BY DEF StaysRight
  <2>5. \A d \in Commands : CmdOn(d, i)' => CmdOn(d, i)
    BY <2>1, <2>2 DEF CmdOn, j, Idle
  <2>6. Alone(i)'
    BY <2>1, <2>4, <2>5 DEF Alone, RunOf
  <2>7. CASE i # j
    <3>1. /\ job'[i] = job[i] /\ (i \in dated' <=> i \in dated) /\ (i \in lost' <=> i \in lost)
          /\ \A d \in Commands : CmdOn(d, i)' <=> CmdOn(d, i)
      BY <2>1, <2>2, <2>3, <2>5, <2>7 DEF CmdOn, j
    <3>2. \A d \in Commands : CmdOn(d, i) => cmd'[d] = cmd[d]
      BY <2>2, <2>7 DEF CmdOn, j
    <3>3. \A d \in Commands : CommandFits(d, i)'
      BY <2>1, <2>4, <3>1, <3>2 DEF CommandFits, Agrees, Quiet, JobFits, Exists
    <3>4. \A r \in Runs : RunFits(r, i)'
      BY <2>1, <2>4, <3>1 DEF RunFits, RunOf, Quiet, JobFits, Exists
    <3>5. Busy(i)' <=> Busy(i)
      BY <2>1, <3>1 DEF RunOf, Busy, Commanded, CmdOn
    <3>6. ~Busy(i)' => Agrees(i)'
      BY <2>1, <2>4, <3>1, <3>5 DEF Agrees, Quiet, JobFits, Exists
    <3> QED
      BY <2>6, <3>3, <3>4, <3>6
  <2>8. CASE i = j
    <3>1. CmdOn(c, i) /\ \A d \in Commands : CmdOn(d, i) => d = c
      BY <2>1, <2>4, <2>8 DEF CmdOn, Alone, j
    <3>2. row[i] = "on" /\ trigger[i] = t
      BY <2>1, <2>4, <3>1 DEF CommandFits, t
    <3>3. \A d \in Commands : CommandFits(d, i)'
      BY <2>1, <2>2, <2>5, <3>1 DEF CommandFits, CmdOn, Idle
    <3>4. kind[i] = "once" => \A r \in Runs : ~RunOf(r, i)
      BY <2>4, <3>1 DEF Alone
    <3>5. \A r \in Runs : RunFits(r, i)'
      BY <2>1, <3>4 DEF RunFits, RunOf
    <3>6. Agrees(i)'
      BY <2>1, <2>3, <2>8, <3>2 DEF Agrees, Quiet, Exists, JobFits, Triggers
    <3> QED
      BY <2>6, <3>3, <3>5, <3>6
  <2> QED
    BY <2>7, <2>8
<1> QED
  <2>1. ASSUME NEW c \in Commands, CommandStep(c) PROVE StaysRight(i)'
    BY <2>1, <1>3, <1>4, <1>5, <1>6, <1>18 DEF CommandStep
  <2>2. ASSUME NEW r \in Runs, RunStep(r) PROVE StaysRight(i)'
    BY <2>2, <1>9, <1>10, <1>11, <1>12, <1>13, <1>14 DEF RunStep
  <2> QED
    BY <2>1, <2>2, <1>1, <1>2, <1>7, <1>8, <1>15, <1>16, <1>17 DEF Next

\* The initial states satisfy the invariant.
LEMMA InitIInv == Init => IInv
<1> SUFFICES ASSUME Init PROVE IInv
  OBVIOUS
<1>1. TypeOK /\ Shapes /\ RunningIsReal
  BY DEF Init, TypeOK, Triggers, Shapes, RunningIsReal, Idle
<1>2. ASSUME NEW i \in Rows PROVE RunsOnce(i) /\ StaysRight(i)
  <2>1. RunsOnce(i)
    BY DEF Init, RunsOnce, RunOf, Idle
  <2>2. StaysRight(i)
    BY DEF Init, StaysRight, Alone, CommandFits, RunFits, Agrees, Quiet, CmdOn, RunOf, Exists, Idle
  <2> QED
    BY <2>1, <2>2
<1> QED
  BY <1>1, <1>2 DEF IInv

\* Every step keeps the invariant.
LEMMA StepIInv == IInv /\ [Next]_vars => IInv'
<1> SUFFICES ASSUME IInv, [Next]_vars PROVE IInv'
  OBVIOUS
<1>1. TypeOK' /\ Shapes'
  BY TypeStep DEF IInv
<1>2. RunningIsReal'
  BY RunningStep DEF IInv
<1>3. ASSUME NEW i \in Rows PROVE RunsOnce(i)' /\ StaysRight(i)'
  BY <1>3, OnceStep, RightStep DEF IInv
<1> QED
  BY <1>1, <1>2, <1>3 DEF IInv, Rows

\* IInv is an invariant of the scheduler.
THEOREM SpecIInv == Spec => []IInv
<1>1. Init => IInv
  BY InitIInv
<1>2. IInv /\ [Next]_vars => IInv'
  BY StepIInv
<1> QED
  BY <1>1, <1>2, PTL DEF Spec

\* Every variable keeps its type, however commands, runs and restarts interleave.
THEOREM TypesHold == Spec => []TypeOK
<1>1. IInv => TypeOK
  BY DEF IInv
<1> QED
  BY <1>1, SpecIInv, PTL

\* An enabled schedule has a job that fires, a disabled or deleted one has none
\* that does, and a job has the trigger of its row, when nobody is changing it and
\* since the program started no two changes of it overlapped (add_schedule, pause_,
\* resume_, update_schedule, remove and the loading of the rows at a restart); save
\* for a trigger that is refused, a date that is over, and a job that a failed read or
\* an aborted loading did not make (trigger and lost).
THEOREM SchedulesAgree == Spec => []RowsAndJobsAgree
<1>1. IInv => RowsAndJobsAgree
  BY DEF IInv, StaysRight, Agrees, Quiet, RowsAndJobsAgree
<1> QED
  BY <1>1, SpecIInv, PTL

\* The function of a one-off schedule runs at most once (_execute_job), whatever is
\* done to the schedule short of triggering it by hand.
THEOREM OneOffRunsOnce == Spec => []OneOffOnce
<1>1. IInv => OneOffOnce
  BY DEF IInv, RunsOnce, OneOffOnce
<1> QED
  BY <1>1, SpecIInv, PTL

\* What _running_tasks shows has a run under way: every return and exception of
\* _execute_job takes it out.
THEOREM ShownIsRunning == Spec => []RunningIsReal
<1>1. IInv => RunningIsReal
  BY DEF IInv
<1> QED
  BY <1>1, SpecIInv, PTL
=============================================================================
