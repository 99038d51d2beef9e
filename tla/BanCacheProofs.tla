--------------------------- MODULE BanCacheProofs ---------------------------
(***************************************************************************)
(* Proofs about BanCache, for any processes, commands, lookups and number  *)
(* of bans.                                                                *)
(*                                                                         *)
(* CacheAgrees is not inductive: it says nothing of the time in which      *)
(* something is under way.  The invariant IInv therefore says, of a key on *)
(* which operations are not at odds, what each of them is about to find:   *)
(* that a ban under way is the one in the table, that an unban hits the    *)
(* row it has read, that what is removed elsewhere is in force no more,    *)
(* and that an entry agrees with the table or is still to be set.          *)
(***************************************************************************)
EXTENDS BanCache, FiniteSetTheorems, TLAPS

-----------------------------------------------------------------------------
\* The inductive invariant

\* Some process may rely on the operations under way on k.
Calm(k) == \E p \in Procs : contested[p][k] # "yes"

\* A ban under way is the one in the table, ...
BansStand(k) ==
  Calm(k) =>
    /\ \A c \in Commands : cmd[c].stage = "store" /\ cmd[c].key = k => cmd[c].ban = table[k].ban
    /\ \A p \in Procs : \A e \in inbox[p] : e.key = k /\ e.ban # 0 => e.ban = table[k].ban

\* ... and nothing is about to delete its row.
BansAlone(k) ==
  Calm(k) /\ BanInFlight(k) =>
    /\ \A c \in Commands : cmd[c].key = k => cmd[c].stage # "delete"
    /\ \A p \in Procs : k \notin due[p]

\* An unban deletes the row it has read or finds none, and leaves none behind.
UnbansHit(k) ==
  Calm(k) =>
    \A c \in Commands :
      /\ cmd[c].stage = "delete" /\ cmd[c].key = k => table[k].id \in {0, cmd[c].ban}
      /\ cmd[c].stage = "remove" /\ cmd[c].key = k => table[k].ban = 0

\* What is removed elsewhere is in force no more.
RemovalsDue(k) ==
  Calm(k) =>
    /\ \A p \in Procs : k \in due[p] \/ k \in doomed[p] => Active(table[k].ban) = 0
    /\ \A p \in Procs : \A e \in inbox[p] : e.key = k /\ e.ban = 0 => Active(table[k].ban) = 0

\* Something under way will still set the entry of p for k.
Awaits(p, k) ==
  \/ \E c \in Commands : cmd[c].stage \in {"store", "remove"} /\ cmd[c].key = k
  \/ \E e \in inbox[p] : e.key = k

\* An entry agrees with the table or will be set, ...
EntriesTrack(k) ==
  \A p \in Procs :
    contested[p][k] = "no" /\ (p \in loaded \/ cache[p][k] # 0) =>
      Awaits(p, k) \/ Active(cache[p][k]) = Active(table[k].ban)

\* ... and so does what a refresh has read.
SnapsTrack(k) ==
  \A p \in Procs :
    contested[p][k] # "yes" /\ p \in reading =>
      Awaits(p, k) \/ Active(snap[p][k]) = Active(table[k].ban)

KeyInv(k) == /\ BansStand(k) /\ BansAlone(k) /\ UnbansHit(k) /\ RemovalsDue(k)
             /\ EntriesTrack(k) /\ SnapsTrack(k)

IInv == TypeOK /\ NegativeIsTrue /\ \A k \in Keys : KeyInv(k)

-----------------------------------------------------------------------------
\* Effects of the operations, point by point

\* SetEntry changes one entry of one process (_by_user and _by_user_group under
\* _lock) and forgets its negative answers.
LEMMA EntrySet ==
  ASSUME TypeOK, NEW p \in Procs, NEW k \in Keys, NEW b, SetEntry(p, k, b)
  PROVE  /\ p \notin reading
         /\ cache'[p][k] = b
         /\ \A q \in Procs, j \in Keys : q # p \/ j # k => cache'[q][j] = cache[q][j]
         /\ neg'[p] = {}
         /\ \A q \in Procs : q # p => neg'[q] = neg[q]
  BY DEF SetEntry, Free, TypeOK

\* Publish adds one message to the inboxes of the others (RuntimeCacheSync).
LEMMA Published ==
  ASSUME TypeOK, NEW p \in Procs, NEW k \in Keys, NEW b, Publish(p, k, b)
  PROVE  /\ inbox'[p] = inbox[p]
         /\ \A q \in Procs : q # p => inbox'[q] = inbox[q] \cup {[key |-> k, ban |-> b]}
  BY DEF Publish, TypeOK

\* Contest marks some keys and leaves the marks of the others.
LEMMA Contested ==
  ASSUME NEW ks \in SUBSET Keys, Contest(ks)
  PROVE  /\ \A p \in Procs, k \in ks : contested'[p][k] = "yes"
         /\ \A p \in Procs, k \in Keys \ ks : contested'[p][k] = contested[p][k]
  BY DEF Contest

\* A removal that starts leaves a key calm only if no ban is under way on it and
\* no process has a mark on it.
LEMMA RemovalMarks ==
  ASSUME NEW ks \in SUBSET Keys, RemovalStarts(ks)
  PROVE  /\ \A p \in Procs, k \in Keys : contested'[p][k] \in {contested[p][k], "yes"}
         /\ \A k \in ks : (\E p \in Procs : contested'[p][k] # "yes") =>
              /\ ~BanInFlight(k)
              /\ \A p \in Procs : contested[p][k] = "no"
<1> DEFINE marked == {k \in ks : BanInFlight(k) \/ \E p \in Procs : contested[p][k] # "no"}
<1>1. Contest(marked) /\ marked \subseteq Keys
  BY DEF RemovalStarts
<1>2. /\ \A p \in Procs, k \in marked : contested'[p][k] = "yes"
      /\ \A p \in Procs, k \in Keys \ marked : contested'[p][k] = contested[p][k]
  BY <1>1, Contested
<1> QED
  BY <1>2

\* No ban is over before it is given, so 0 is never over.
LEMMA ZeroIsNotOver ==
  ASSUME TypeOK
  PROVE  0 \notin over /\ Active(0) = 0
  BY DEF TypeOK, Active

-----------------------------------------------------------------------------
\* Commands move on

\* A function whose values are of the type T.
LEMMA FunctionType ==
  ASSUME NEW S, NEW T, NEW f, DOMAIN f = S, f = [x \in S |-> f[x]], \A x \in S : f[x] \in T
  PROVE  f \in [S -> T]
  OBVIOUS

Command(n) == [stage : Stages, proc : Procs, key : Keys, ban : 0..n]

\* The command that bans goes on with the number of its ban, ...
LEMMA BanMoves ==
  ASSUME TypeOK, NEW c \in Commands, Ban(c)
  PROVE  /\ \A d \in Commands : d # c => cmd'[d] = cmd[d]
         /\ cmd'[c] = [stage |-> "store", proc |-> cmd[c].proc, key |-> cmd[c].key,
                      ban |-> NextBan]
         /\ cmd' \in [Commands -> Command(bans')]
<1>1. cmd' = [cmd EXCEPT ![c].stage = "store", ![c].ban = NextBan]
  BY DEF Ban
<1>2. cmd \in [Commands -> Command(bans)]
  BY DEF TypeOK, Command
<1>3. NextBan \in 0..bans' /\ 0..bans \subseteq 0..bans'
  BY Assumptions DEF Ban, NextBan, TypeOK, Numbers
<1>4. \A d \in Commands : d # c => cmd'[d] = cmd[d]
  BY <1>1, <1>2
<1>5. cmd[c] \in Command(bans) /\ "store" \in Stages
  BY <1>2 DEF Stages
<1>6. cmd'[c] = [cmd[c] EXCEPT !.stage = "store", !.ban = NextBan]
  BY <1>1, <1>2
<1>7. cmd'[c] = [stage |-> "store", proc |-> cmd[c].proc, key |-> cmd[c].key,
                ban |-> NextBan]
  BY <1>5, <1>6 DEF Command
<1>8. cmd'[c] \in Command(bans')
  BY <1>3, <1>5, <1>7 DEF Command
<1>9. \A d \in Commands : cmd[d] \in Command(bans')
  BY <1>2, <1>3 DEF Command
<1>10. \A d \in Commands : cmd'[d] \in Command(bans')
  BY <1>4, <1>8, <1>9
<1>11. DOMAIN cmd' = Commands /\ cmd' = [d \in Commands |-> cmd'[d]]
  BY <1>1, <1>2
<1>12. cmd' \in [Commands -> Command(bans')]
  BY <1>10, <1>11, FunctionType
<1> QED
  BY <1>4, <1>7, <1>12

\* ... one that lifts a ban with the row it has read, ...
LEMMA UnbanMoves ==
  ASSUME TypeOK, NEW c \in Commands, Unban(c)
  PROVE  /\ \A d \in Commands : d # c => cmd'[d] = cmd[d]
         /\ cmd'[c] = [stage |-> "delete", proc |-> cmd[c].proc, key |-> cmd[c].key,
                      ban |-> table[cmd[c].key].id]
         /\ cmd' \in [Commands -> Command(bans)]
<1>1. cmd' = [cmd EXCEPT ![c].stage = "delete", ![c].ban = table[cmd[c].key].id]
  BY DEF Unban
<1>2. cmd \in [Commands -> Command(bans)]
  BY DEF TypeOK, Command
<1>3. table[cmd[c].key].id \in 0..bans /\ 0..bans \subseteq 0..bans
  BY Assumptions DEF Unban, TypeOK, Numbers
<1>4. \A d \in Commands : d # c => cmd'[d] = cmd[d]
  BY <1>1, <1>2
<1>5. cmd[c] \in Command(bans) /\ "delete" \in Stages
  BY <1>2 DEF Stages
<1>6. cmd'[c] = [cmd[c] EXCEPT !.stage = "delete", !.ban = table[cmd[c].key].id]
  BY <1>1, <1>2
<1>7. cmd'[c] = [stage |-> "delete", proc |-> cmd[c].proc, key |-> cmd[c].key,
                ban |-> table[cmd[c].key].id]
  BY <1>5, <1>6 DEF Command
<1>8. cmd'[c] \in Command(bans)
  BY <1>3, <1>5, <1>7 DEF Command
<1>9. \A d \in Commands : cmd[d] \in Command(bans)
  BY <1>2, <1>3 DEF Command
<1>10. \A d \in Commands : cmd'[d] \in Command(bans)
  BY <1>4, <1>8, <1>9
<1>11. DOMAIN cmd' = Commands /\ cmd' = [d \in Commands |-> cmd'[d]]
  BY <1>1, <1>2
<1>12. cmd' \in [Commands -> Command(bans)]
  BY <1>10, <1>11, FunctionType
<1> QED
  BY <1>4, <1>7, <1>12

\* ... and any other step keeps the number.
LEMMA Moved ==
  ASSUME cmd \in [Commands -> Command(bans)], NEW c \in Commands, NEW s \in Stages,
         cmd' = [cmd EXCEPT ![c].stage = s]
  PROVE  /\ \A d \in Commands : d # c => cmd'[d] = cmd[d]
         /\ cmd'[c] = [stage |-> s, proc |-> cmd[c].proc, key |-> cmd[c].key, ban |-> cmd[c].ban]
         /\ cmd' \in [Commands -> Command(bans)]
<1>1. \A d \in Commands : d # c => cmd'[d] = cmd[d]
  OBVIOUS
<1>2. cmd[c] \in Command(bans) /\ cmd'[c] = [cmd[c] EXCEPT !.stage = s]
  OBVIOUS
<1>3. /\ cmd'[c] = [stage |-> s, proc |-> cmd[c].proc, key |-> cmd[c].key, ban |-> cmd[c].ban]
      /\ cmd'[c] \in Command(bans)
  BY <1>2 DEF Command
<1>4. \A d \in Commands : cmd'[d] \in Command(bans)
  BY <1>1, <1>3
<1>5. DOMAIN cmd' = Commands /\ cmd' = [d \in Commands |-> cmd'[d]]
  OBVIOUS
<1>6. cmd' \in [Commands -> Command(bans)]
  BY <1>4, <1>5, FunctionType
<1> QED
  BY <1>1, <1>3, <1>6

-----------------------------------------------------------------------------
\* Types

\* Every step keeps the types.
LEMMA TypeStep ==
  ASSUME TypeOK, [Next]_vars
  PROVE  TypeOK'
<1> USE DEF TypeOK
<1>1. ASSUME NEW c \in Commands, Ban(c) PROVE TypeOK'
  <2> DEFINE k == cmd[c].key
  <2>1. k \in Keys /\ bans < MaxBans /\ bans' = bans + 1 /\ NextBan \in 1..bans'
    BY <1>1 DEF Ban, NextBan, Numbers
  <2>2. bans' \in Numbers /\ 0..bans \subseteq 0..bans' /\ 1..bans \subseteq 1..bans'
    BY <2>1, Assumptions DEF Numbers
  <2>3. table' \in [Keys -> [id : 0..bans', ban : 0..bans']]
         /\ \A j \in Keys : table'[j].id = 0 <=> table'[j].ban = 0
    <3>1. table' = [table EXCEPT ![k] = [id |-> IF @.id = 0 THEN NextBan ELSE @.id, ban |-> NextBan]]
      BY <1>1 DEF Ban
    <3>2. \A j \in Keys : j # k => table'[j] = table[j]
      BY <3>1
    <3>3. table'[k] = [id |-> IF table[k].id = 0 THEN NextBan ELSE table[k].id, ban |-> NextBan]
      BY <3>1, <2>1
    <3> HIDE DEF k
    <3>4. \A j \in Keys : table[j] \in [id : 0..bans, ban : 0..bans]
      OBVIOUS
    <3>5. \A j \in Keys : table[j].id \in 0..bans' /\ table[j].ban \in 0..bans'
      BY <3>4, <2>2
    <3>6. \A j \in Keys : table[j] \in [id : 0..bans', ban : 0..bans']
      BY <3>4, <3>5
    <3>7. NextBan \in 0..bans' /\ NextBan # 0
      BY <2>1
    <3>8. table'[k] \in [id : 0..bans', ban : 0..bans'] /\ table'[k].id # 0 /\ table'[k].ban # 0
      BY <3>3, <3>5, <3>7, <2>1
    <3>9. \A j \in Keys : table'[j] \in [id : 0..bans', ban : 0..bans']
      BY <3>2, <3>6, <3>8
    <3>10. DOMAIN table' = Keys /\ table' = [j \in Keys |-> table'[j]]
      BY <3>1
    <3>11. table' \in [Keys -> [id : 0..bans', ban : 0..bans']]
      BY <3>9, <3>10, FunctionType
    <3>12. \A j \in Keys : table'[j].id = 0 <=> table'[j].ban = 0
      BY <3>2, <3>8
    <3> QED
      BY <3>11, <3>12
  <2>4. cmd' \in [Commands -> [stage : Stages, proc : Procs, key : Keys, ban : 0..bans']]
    BY <1>1, BanMoves DEF Command
  <2>5. inbox' \in [Procs -> SUBSET [key : Keys, ban : 0..bans']]
    BY <1>1, <2>2 DEF Ban
  <2>6. /\ cache' \in [Procs -> [Keys -> 0..bans']] /\ snap' \in [Procs -> [Keys -> 0..bans']]
    <3>1. [Keys -> 0..bans] \subseteq [Keys -> 0..bans']
      BY <2>2
    <3> QED
      BY <1>1, <3>1 DEF Ban
  <2>7. over' \subseteq 1..bans'
    BY <1>1, <2>2 DEF Ban
  <2>8. contested' \in [Procs -> [Keys -> {"no", "yes", "curing"}]]
    BY <1>1 DEF Ban, Contest
  <2>9. UNCHANGED <<neg, loaded, reading, due, doomed, snap>>
    BY <1>1 DEF Ban
  <2> QED
    BY <2>2, <2>3, <2>4, <2>5, <2>6, <2>7, <2>8, <2>9
<1>2. ASSUME NEW c \in Commands, Store(c) PROVE TypeOK'
  <2>1. cmd[c].proc \in Procs /\ cmd[c].key \in Keys /\ cmd[c].ban \in 0..bans
    OBVIOUS
  <2>2. cache' \in [Procs -> [Keys -> 0..bans]] /\ neg' \in [Procs -> SUBSET Keys]
    BY <1>2, <2>1 DEF Store, SetEntry
  <2>3. inbox' \in [Procs -> SUBSET [key : Keys, ban : 0..bans]]
    BY <1>2, <2>1 DEF Store, Publish
  <2>4. cmd' \in [Commands -> [stage : Stages, proc : Procs, key : Keys, ban : 0..bans]]
    <3>1. cmd' = [cmd EXCEPT ![c].stage = "done"]
      BY <1>2 DEF Store
    <3>2. cmd \in [Commands -> Command(bans)] /\ "done" \in Stages
      BY DEF Command, Stages
    <3>3. cmd' \in [Commands -> Command(bans)]
      BY <3>1, <3>2, Moved
    <3> QED
      BY <3>3 DEF Command
  <2> QED
    BY <1>2, <2>2, <2>3, <2>4 DEF Store
<1>3. ASSUME NEW c \in Commands, Unban(c) PROVE TypeOK'
  <2>1. cmd[c].key \in Keys /\ table[cmd[c].key].id \in 0..bans
    OBVIOUS
  <2>2. cmd' \in [Commands -> [stage : Stages, proc : Procs, key : Keys, ban : 0..bans]]
    BY <1>3, UnbanMoves DEF Command
  <2>3. contested' \in [Procs -> [Keys -> {"no", "yes", "curing"}]]
    BY <1>3 DEF Unban, RemovalStarts, Contest
  <2> QED
    BY <1>3, <2>2, <2>3 DEF Unban
<1>4. ASSUME NEW c \in Commands, Delete(c) PROVE TypeOK'
  <2>1. NoRow \in [id : 0..bans, ban : 0..bans] /\ NoRow.id = 0 /\ NoRow.ban = 0
    BY DEF NoRow, Row, Numbers
  <2>2. /\ table' \in [Keys -> [id : 0..bans, ban : 0..bans]]
        /\ \A j \in Keys : table'[j] = table[j] \/ table'[j] = NoRow
    BY <1>4, <2>1 DEF Delete
  <2>3. \A j \in Keys : table'[j].id = 0 <=> table'[j].ban = 0
    BY <2>1, <2>2
  <2>4. cmd' \in [Commands -> [stage : Stages, proc : Procs, key : Keys, ban : 0..bans]]
    <3>1. cmd' = [cmd EXCEPT ![c].stage = "remove"]
      BY <1>4 DEF Delete
    <3>2. cmd \in [Commands -> Command(bans)] /\ "remove" \in Stages
      BY DEF Command, Stages
    <3>3. cmd' \in [Commands -> Command(bans)]
      BY <3>1, <3>2, Moved
    <3> QED
      BY <3>3 DEF Command
  <2> QED
    BY <1>4, <2>2, <2>3, <2>4 DEF Delete
<1>5. ASSUME NEW c \in Commands, Remove(c) PROVE TypeOK'
  <2>1. cmd[c].proc \in Procs /\ cmd[c].key \in Keys /\ 0 \in 0..bans
    BY DEF Numbers
  <2>2. cache' \in [Procs -> [Keys -> 0..bans]] /\ neg' \in [Procs -> SUBSET Keys]
    BY <1>5, <2>1 DEF Remove, SetEntry
  <2>3. inbox' \in [Procs -> SUBSET [key : Keys, ban : 0..bans]]
    BY <1>5, <2>1 DEF Remove, Publish
  <2>4. cmd' \in [Commands -> [stage : Stages, proc : Procs, key : Keys, ban : 0..bans]]
    <3>1. cmd' = [cmd EXCEPT ![c].stage = "done"]
      BY <1>5 DEF Remove
    <3>2. cmd \in [Commands -> Command(bans)] /\ "done" \in Stages
      BY DEF Command, Stages
    <3>3. cmd' \in [Commands -> Command(bans)]
      BY <3>1, <3>2, Moved
    <3> QED
      BY <3>3 DEF Command
  <2> QED
    BY <1>5, <2>2, <2>3, <2>4 DEF Remove
<1>6. ASSUME NEW p \in Procs, RefreshRead(p) PROVE TypeOK'
  <2>1. [k \in Keys |-> IF table[k].ban \in over THEN 0 ELSE table[k].ban] \in [Keys -> 0..bans]
    BY DEF Numbers
  <2>2. snap' \in [Procs -> [Keys -> 0..bans]] /\ \A q \in Procs : q # p => snap'[q] = snap[q]
    BY <1>6, <2>1 DEF RefreshRead
  <2>3. contested' \in [Procs -> [Keys -> {"no", "yes", "curing"}]]
    BY <1>6 DEF RefreshRead
  <2> QED
    BY <1>6, <2>2, <2>3 DEF RefreshRead
<1>7. ASSUME NEW p \in Procs, NEW s \in {"no", "yes"}, RefreshDone(p, s)
      PROVE  /\ reading' \subseteq Procs /\ snap' \in [Procs -> [Keys -> 0..bans]]
             /\ \A q \in Procs : q \notin reading' => snap'[q] = Nothing
             /\ contested' \in [Procs -> [Keys -> {"no", "yes", "curing"}]]
  <2>1. Nothing \in [Keys -> 0..bans]
    BY DEF Nothing, Numbers
  <2>2. snap' = [snap EXCEPT ![p] = Nothing] /\ reading' = reading \ {p}
    BY <1>7 DEF RefreshDone
  <2>3. contested' \in [Procs -> [Keys -> {"no", "yes", "curing"}]]
    BY <1>7 DEF RefreshDone
  <2> QED
    BY <2>1, <2>2, <2>3
<1>8. ASSUME NEW p \in Procs, RefreshInstall(p) PROVE TypeOK'
  <2>1. RefreshDone(p, "no")
    BY <1>8 DEF RefreshInstall
  <2>2. cache' \in [Procs -> [Keys -> 0..bans]] /\ neg' \in [Procs -> SUBSET Keys] /\ loaded' \subseteq Procs
    BY <1>8 DEF RefreshInstall
  <2>3. UNCHANGED <<table, bans, over, due, doomed, inbox, cmd>>
    BY <2>1 DEF RefreshDone
  <2>4. /\ reading' \subseteq Procs /\ snap' \in [Procs -> [Keys -> 0..bans]]
        /\ \A q \in Procs : q \notin reading' => snap'[q] = Nothing
        /\ contested' \in [Procs -> [Keys -> {"no", "yes", "curing"}]]
    BY <1>7, <2>1
  <2> QED
    BY <2>2, <2>3, <2>4
<1>9. ASSUME NEW p \in Procs, RefreshFails(p) PROVE TypeOK'
  <2>1. RefreshDone(p, "yes") /\ UNCHANGED <<cache, neg, loaded>>
    BY <1>9 DEF RefreshFails
  <2>2. UNCHANGED <<table, bans, over, due, doomed, inbox, cmd>>
    BY <2>1 DEF RefreshDone
  <2>3. /\ reading' \subseteq Procs /\ snap' \in [Procs -> [Keys -> 0..bans]]
        /\ \A q \in Procs : q \notin reading' => snap'[q] = Nothing
        /\ contested' \in [Procs -> [Keys -> {"no", "yes", "curing"}]]
    BY <1>7, <2>1
  <2> QED
    BY <2>1, <2>2, <2>3
<1>10. ASSUME NEW p \in Procs, CleanStart(p) PROVE TypeOK'
  <2>1. cache' \in [Procs -> [Keys -> 0..bans]]
    <3>1. 0 \in 0..bans
      BY DEF Numbers
    <3> QED
      BY <1>10, <3>1 DEF CleanStart
  <2>2. neg' \in [Procs -> SUBSET Keys] /\ due' \in [Procs -> SUBSET Keys]
    BY <1>10 DEF CleanStart
  <2>3. contested' \in [Procs -> [Keys -> {"no", "yes", "curing"}]]
    BY <1>10 DEF CleanStart, RemovalStarts, Contest
  <2> QED
    BY <1>10, <2>1, <2>2, <2>3 DEF CleanStart
<1>11. ASSUME NEW p \in Procs, NEW k \in Keys, CleanDelete(p, k) PROVE TypeOK'
  <2>1. NoRow \in [id : 0..bans, ban : 0..bans] /\ NoRow.id = 0 /\ NoRow.ban = 0
    BY DEF NoRow, Row, Numbers
  <2>2. /\ table' \in [Keys -> [id : 0..bans, ban : 0..bans]]
        /\ \A j \in Keys : table'[j] = table[j] \/ table'[j] = NoRow
    BY <1>11, <2>1 DEF CleanDelete
  <2>3. \A j \in Keys : table'[j].id = 0 <=> table'[j].ban = 0
    BY <2>1, <2>2
  <2> QED
    BY <1>11, <2>2, <2>3 DEF CleanDelete
<1>12. ASSUME NEW p \in Procs, CleanFails(p) PROVE TypeOK'
  BY <1>12 DEF CleanFails
<1>13. ASSUME NEW p \in Procs, NEW k \in Keys, Lookup(p, k) PROVE TypeOK'
  <2>1. Place(p, k) \in Keys
    BY DEF Place, Keys
  <2>2. UNCHANGED <<table, bans, over, cache, loaded, reading, snap, due, inbox, cmd>>
    BY <1>13 DEF Lookup
  <2>3. CASE neg' = [neg EXCEPT ![p] = @ \cup {k}] /\ UNCHANGED <<doomed, contested>>
    <3>1. neg' \in [Procs -> SUBSET Keys]
      BY <2>3
    <3> QED
      BY <2>2, <2>3, <3>1
  <2>4. CASE /\ doomed' = [doomed EXCEPT ![p] = @ \cup {Place(p, k)}]
             /\ RemovalStarts({Place(p, k)}) /\ UNCHANGED neg
    <3>1. doomed' \in [Procs -> SUBSET Keys]
      BY <2>1, <2>4
    <3>2. contested' \in [Procs -> [Keys -> {"no", "yes", "curing"}]]
      BY <2>4 DEF RemovalStarts, Contest
    <3> QED
      BY <2>2, <2>4, <3>1, <3>2
  <2> QED
    BY <1>13, <2>3, <2>4 DEF Lookup
<1>14. ASSUME NEW p \in Procs, NEW k \in Keys, RemovalTask(p, k) PROVE TypeOK'
  <2>1. 0 \in 0..bans
    BY DEF Numbers
  <2>2. cache' \in [Procs -> [Keys -> 0..bans]] /\ neg' \in [Procs -> SUBSET Keys]
    BY <1>14, <2>1 DEF RemovalTask, SetEntry
  <2>3. inbox' \in [Procs -> SUBSET [key : Keys, ban : 0..bans]]
    BY <1>14, <2>1 DEF RemovalTask, Publish
  <2> QED
    BY <1>14, <2>2, <2>3 DEF RemovalTask
<1>15. ASSUME NEW p \in Procs, NEW k \in Keys, NegativeEnds(p, k) PROVE TypeOK'
  BY <1>15 DEF NegativeEnds
<1>16. ASSUME NEW p \in Procs, NEW e \in Events, Deliver(p, e) PROVE TypeOK'
  <2>1. e.key \in Keys /\ e.ban \in 0..bans
    BY <1>16 DEF Deliver
  <2>2. cache' \in [Procs -> [Keys -> 0..bans]] /\ neg' \in [Procs -> SUBSET Keys]
    BY <1>16, <2>1 DEF Deliver, SetEntry
  <2> QED
    BY <1>16, <2>2 DEF Deliver
<1>17. ASSUME NEW p \in Procs, NEW e \in Events, Lose(p, e) PROVE TypeOK'
  BY <1>17 DEF Lose
<1>18. ASSUME NEW b \in 1..MaxBans, Expire(b) PROVE TypeOK'
  BY <1>18 DEF Expire
<1>19. CASE UNCHANGED vars
  BY <1>19 DEF vars
<1> QED
  BY <1>1, <1>2, <1>3, <1>4, <1>5, <1>6, <1>8, <1>9, <1>10, <1>11, <1>12, <1>13, <1>14,
     <1>15, <1>16, <1>17, <1>18, <1>19
  DEF Next, CommandStep, CleanStep, Message

\* The first state has its types, with or without bans left from before.
LEMMA TypeInit ==
  ASSUME Init
  PROVE  TypeOK
<1>1. PICK left \in SUBSET Keys :
        /\ bans = Cardinality(left) /\ bans < MaxBans
        /\ table = [k \in Keys |-> IF k \in left THEN Row(Number(left, k)) ELSE NoRow]
  BY DEF Init
<1>2. bans \in Numbers /\ 0 \in 0..bans /\ \A k \in left : Number(left, k) \in 1..bans
  <2>1. IsFiniteSet(left) /\ bans \in Nat /\ (left # {} => bans # 0)
    <3>1. Keys = {"here", "everywhere"} /\ IsFiniteSet(Keys)
      <4>1. IsFiniteSet({}) /\ IsFiniteSet({} \cup {"here"}) /\ IsFiniteSet(({} \cup {"here"}) \cup {"everywhere"})
        BY FS_EmptySet, FS_AddElement
      <4> QED
        BY <4>1 DEF Keys
    <3> QED
      BY <3>1, <1>1, FS_Subset, FS_CardinalityType, FS_EmptySet
  <2> QED
    BY <2>1, <1>1, Assumptions DEF Number, Numbers
<1>3. /\ table \in [Keys -> [id : 0..bans, ban : 0..bans]]
      /\ \A k \in Keys : table[k].id = 0 <=> table[k].ban = 0
  <2>1. \A k \in Keys : \E b \in 0..bans : table[k] = [id |-> b, ban |-> b]
    BY <1>1, <1>2 DEF Row, NoRow
  <2>2. ASSUME NEW k \in Keys
        PROVE  table[k] \in [id : 0..bans, ban : 0..bans] /\ table[k].id = table[k].ban
    <3>1. PICK b \in 0..bans : table[k] = [id |-> b, ban |-> b]
      BY <2>1
    <3> QED
      BY <3>1
  <2>3. table = [k \in Keys |-> table[k]]
    BY <1>1
  <2>4. table \in [Keys -> [id : 0..bans, ban : 0..bans]]
    BY <1>1, <2>2, <2>3, FunctionType
  <2> QED
    BY <2>2, <2>4
<1>4. cmd \in [Commands -> [stage : Stages, proc : Procs, key : Keys, ban : 0..bans]]
  <2>1. \A g \in Given : g[1] \in Procs /\ g[2] \in Keys
    BY Assumptions
  <2>2. \A g \in Given : [stage |-> "new", proc |-> g[1], key |-> g[2], ban |-> 0]
                            \in [stage : Stages, proc : Procs, key : Keys, ban : 0..bans]
    BY <1>2, <2>1 DEF Stages
  <2>3. \A c \in Commands : cmd[c] \in {[stage |-> "new", proc |-> g[1], key |-> g[2], ban |-> 0] : g \in Given}
    BY DEF Init
  <2>4. \A c \in Commands : cmd[c] \in [stage : Stages, proc : Procs, key : Keys, ban : 0..bans]
    BY <2>2, <2>3
  <2>5. DOMAIN cmd = Commands /\ cmd = [c \in Commands |-> cmd[c]]
    BY DEF Init
  <2> QED
    BY <2>4, <2>5, FunctionType
<1>5. Nothing \in [Keys -> 0..bans]
  BY <1>2 DEF Nothing
<1>6. /\ cache \in [Procs -> [Keys -> 0..bans]] /\ snap \in [Procs -> [Keys -> 0..bans]]
      /\ \A p \in Procs : p \notin reading => snap[p] = Nothing
  BY <1>5 DEF Init
<1>7. /\ over \subseteq 1..bans /\ neg \in [Procs -> SUBSET Keys]
      /\ loaded \subseteq Procs /\ reading \subseteq Procs
      /\ due \in [Procs -> SUBSET Keys] /\ doomed \in [Procs -> SUBSET Keys]
      /\ inbox \in [Procs -> SUBSET [key : Keys, ban : 0..bans]]
      /\ contested \in [Procs -> [Keys -> {"no", "yes", "curing"}]]
  BY DEF Init
<1> QED
  BY <1>2, <1>3, <1>4, <1>6, <1>7 DEF TypeOK

-----------------------------------------------------------------------------
\* Remembered negative answers

\* A negative answer is remembered when there is no entry, and every step that
\* changes the entries of a process forgets all of its negative answers.
LEMMA NegativeStep ==
  ASSUME TypeOK, NegativeIsTrue, [Next]_vars
  PROVE  NegativeIsTrue'
<1>1. ASSUME NEW p \in Procs, NEW k \in Keys, NEW b, SetEntry(p, k, b) PROVE NegativeIsTrue'
  <2>1. /\ neg'[p] = {}
        /\ \A q \in Procs : q # p => neg'[q] = neg[q] /\ \A j \in Keys : cache'[q][j] = cache[q][j]
    BY <1>1, EntrySet
  <2>2. \A q \in Procs, j \in Keys : q # p => Entry(q, j)' = Entry(q, j)
    BY <2>1 DEF Entry, Place, Keys
  <2>3. \A q \in Procs : neg[q] \subseteq Keys
    BY DEF TypeOK
  <2> QED
    BY <2>1, <2>2, <2>3 DEF NegativeIsTrue
<1>2. ASSUME NEW p \in Procs, neg' = [neg EXCEPT ![p] = {}],
             \A q \in Procs : q # p => cache'[q] = cache[q]
      PROVE  NegativeIsTrue'
  BY <1>2 DEF NegativeIsTrue, Entry, Place, TypeOK
<1>3. ASSUME UNCHANGED cache, \A p \in Procs : neg'[p] \subseteq neg[p] PROVE NegativeIsTrue'
  BY <1>3 DEF NegativeIsTrue, Entry, Place
<1>4. ASSUME NEW p \in Procs, NEW k \in Keys, Lookup(p, k) PROVE NegativeIsTrue'
  <2>1. UNCHANGED cache
    BY <1>4 DEF Lookup
  <2>2. CASE Entry(p, k) = 0 /\ neg' = [neg EXCEPT ![p] = @ \cup {k}]
    BY <2>1, <2>2 DEF NegativeIsTrue, Entry, Place, TypeOK
  <2>3. CASE UNCHANGED neg
    BY <2>1, <2>3, <1>3
  <2> QED
    BY <1>4, <2>2, <2>3 DEF Lookup
<1>5. ASSUME NEW c \in Commands, CommandStep(c) PROVE NegativeIsTrue'
  <2>1. cmd[c].proc \in Procs /\ cmd[c].key \in Keys
    BY DEF TypeOK
  <2>2. CASE Store(c)
    BY <2>1, <2>2, <1>1 DEF Store
  <2>3. CASE Remove(c)
    BY <2>1, <2>3, <1>1 DEF Remove
  <2>4. CASE Ban(c) \/ Unban(c) \/ Delete(c)
    <3>1. UNCHANGED <<cache, neg>>
      BY <2>4 DEF Ban, Unban, Delete
    <3> QED
      BY <3>1, <1>3
  <2> QED
    BY <1>5, <2>2, <2>3, <2>4 DEF CommandStep
<1>6. ASSUME NEW p \in Procs, RefreshInstall(p) PROVE NegativeIsTrue'
  <2>1. neg' = [neg EXCEPT ![p] = {}] /\ \A q \in Procs : q # p => cache'[q] = cache[q]
    BY <1>6 DEF RefreshInstall, TypeOK
  <2> QED
    BY <2>1, <1>2
<1>7. ASSUME NEW p \in Procs, CleanStart(p) PROVE NegativeIsTrue'
  <2>1. neg' = [neg EXCEPT ![p] = {}] /\ \A q \in Procs : q # p => cache'[q] = cache[q]
    BY <1>7 DEF CleanStart, TypeOK
  <2> QED
    BY <2>1, <1>2
<1>8. ASSUME NEW p \in Procs, NEW k \in Keys, RemovalTask(p, k) PROVE NegativeIsTrue'
  BY <1>8, <1>1 DEF RemovalTask
<1>9. ASSUME NEW p \in Procs, NEW e \in Events, Deliver(p, e) PROVE NegativeIsTrue'
  BY <1>9, <1>1 DEF Deliver, Events
<1>10. ASSUME NEW p \in Procs, NEW k \in Keys, NegativeEnds(p, k) PROVE NegativeIsTrue'
  <2>1. UNCHANGED cache /\ \A q \in Procs : neg'[q] \subseteq neg[q]
    BY <1>10 DEF NegativeEnds, TypeOK
  <2> QED
    BY <2>1, <1>3
<1>11. ASSUME UNCHANGED <<cache, neg>> PROVE NegativeIsTrue'
  BY <1>11, <1>3
<1>12. ASSUME NEW p \in Procs, RefreshRead(p) \/ RefreshFails(p) \/ CleanStep(p)
                                \/ \E e \in Events : Lose(p, e)
       PROVE  NegativeIsTrue'
  BY <1>12, <1>11 DEF RefreshRead, RefreshFails, CleanStep, CleanFails, CleanDelete, Lose
<1>13. ASSUME NEW b \in 1..MaxBans, Expire(b) PROVE NegativeIsTrue'
  BY <1>13, <1>11 DEF Expire
<1>14. CASE UNCHANGED vars
  BY <1>14, <1>11 DEF vars
<1> QED
  BY <1>4, <1>5, <1>6, <1>7, <1>8, <1>9, <1>10, <1>12, <1>13, <1>14 DEF Next, Message

-----------------------------------------------------------------------------
\* What the operations leave of a key

\* A step that leaves the row, the commands, the messages and the entries of a
\* key alone, and at most marks it or ends a removal, keeps its invariant.
LEMMA Frame ==
  ASSUME NEW j \in Keys, KeyInv(j),
         table'[j] = table[j], over' = over, loaded' = loaded, reading' = reading,
         \A p \in Procs : contested'[p][j] = contested[p][j] \/ contested'[p][j] = "yes",
         \A c \in Commands : cmd[c].key = j => cmd'[c] = cmd[c],
         \A c \in Commands : cmd[c].key # j => cmd'[c].key # j,
         \A p \in Procs : \A e : e.key = j => (e \in inbox'[p] <=> e \in inbox[p]),
         \A p \in Procs : j \in due'[p] => j \in due[p],
         \A p \in Procs : j \in doomed'[p] => j \in doomed[p],
         \A p \in Procs : cache'[p][j] = cache[p][j] /\ snap'[p][j] = snap[p][j]
  PROVE  KeyInv(j)'
<1>1. Calm(j)' => Calm(j)
  BY DEF Calm
<1>2. BanInFlight(j)' => BanInFlight(j)
  BY DEF BanInFlight
<1>3. \A b : Active(b)' = Active(b)
  BY DEF Active
<1>4. \A p \in Procs : Awaits(p, j) => Awaits(p, j)'
  BY DEF Awaits
<1>5. BansStand(j)'
  BY <1>1 DEF KeyInv, BansStand
<1>6. BansAlone(j)'
  BY <1>1, <1>2 DEF KeyInv, BansAlone
<1>7. UnbansHit(j)'
  BY <1>1 DEF KeyInv, UnbansHit
<1>8. RemovalsDue(j)'
  BY <1>1, <1>3 DEF KeyInv, RemovalsDue
<1>9. EntriesTrack(j)'
  BY <1>3, <1>4 DEF KeyInv, EntriesTrack
<1>10. SnapsTrack(j)'
  BY <1>3, <1>4 DEF KeyInv, SnapsTrack
<1> QED
  BY <1>5, <1>6, <1>7, <1>8, <1>9, <1>10 DEF KeyInv

\* A key all processes have a mark on promises nothing.
LEMMA AllMarked ==
  ASSUME NEW j, \A p \in Procs : contested'[p][j] = "yes"
  PROVE  KeyInv(j)'
  BY DEF KeyInv, Calm, BansStand, BansAlone, UnbansHit, RemovalsDue, EntriesTrack, SnapsTrack

\* An entry that is over stands for no ban in force, if nothing is at odds.
LEMMA ExpiredIsOver ==
  ASSUME TypeOK, NEW q \in Procs, NEW j \in Keys, KeyInv(j), cache[q][j] \in over,
         ~BanInFlight(j), contested[q][j] = "no"
  PROVE  Active(table[j].ban) = 0
<1>1. Calm(j) /\ cache[q][j] # 0 /\ Active(cache[q][j]) = 0 /\ Active(0) = 0
  BY ZeroIsNotOver DEF Calm, Active
<1>2. CASE Awaits(q, j)
  <2>1. CASE \E c \in Commands : cmd[c].stage = "remove" /\ cmd[c].key = j
    BY <2>1, <1>1 DEF KeyInv, UnbansHit
  <2>2. CASE \E e \in inbox[q] : e.key = j /\ e.ban = 0
    BY <2>2, <1>1 DEF KeyInv, RemovalsDue
  <2> QED
    BY <1>2, <2>1, <2>2 DEF Awaits, BanInFlight
<1>3. CASE Active(cache[q][j]) = Active(table[j].ban)
  BY <1>1, <1>3
<1> QED
  BY <1>1, <1>2, <1>3 DEF KeyInv, EntriesTrack

-----------------------------------------------------------------------------
\* Each operation keeps the invariant of every key

\* BanConsole.ban, the row: at odds with anything under way on the key, else the
\* only thing under way.
LEMMA BanKeeps ==
  ASSUME TypeOK, \A j \in Keys : KeyInv(j), NEW c \in Commands, Ban(c), NEW j \in Keys
  PROVE  KeyInv(j)'
<1> DEFINE k == cmd[c].key
<1>1. k \in Keys
  BY DEF TypeOK
<1>2. /\ \A d \in Commands : d # c => cmd'[d] = cmd[d]
      /\ cmd'[c] = [stage |-> "store", proc |-> cmd[c].proc, key |-> k, ban |-> NextBan]
      /\ cmd[c].stage = "new"
  BY BanMoves DEF Ban
<1>3. /\ \A i \in Keys : i # k => table'[i] = table[i]
      /\ table'[k].ban = NextBan
      /\ UNCHANGED <<over, cache, loaded, reading, snap, due, doomed, inbox>>
  BY <1>1 DEF Ban, TypeOK
<1>4. /\ InFlight(k) => \A p \in Procs : contested'[p][k] = "yes"
      /\ \A p \in Procs, i \in Keys : i # k => contested'[p][i] = contested[p][i]
  <2>1. Contest({k} \cap {i \in Keys : InFlight(i)})
    BY DEF Ban
  <2> QED
    BY <2>1, <1>1, Contested
<1> HIDE DEF k
<1>5. CASE j # k
  <2>1. \A d \in Commands : (cmd[d].key = j => cmd'[d] = cmd[d]) /\ cmd'[d].key = cmd[d].key
    BY <1>2, <1>5 DEF k
  <2>2. \A p \in Procs : contested'[p][j] = contested[p][j]
    BY <1>4, <1>5
  <2> QED
    BY <1>3, <1>5, <2>1, <2>2, Frame
<1>6. CASE j = k /\ InFlight(k)
  BY <1>4, <1>6, AllMarked
<1>7. CASE j = k /\ ~InFlight(k)
  <2>1. /\ \A d \in Commands : d # c /\ cmd[d].key = j => cmd[d].stage \notin {"store", "delete", "remove"}
        /\ \A p \in Procs : j \notin due[p] /\ j \notin doomed[p] /\ \A e \in inbox[p] : e.key # j
    BY <1>7 DEF InFlight
  <2>2. \A p \in Procs : Awaits(p, j)'
    BY <1>2, <1>7 DEF Awaits
  <2>3. BansStand(j)'
    BY <2>1, <1>2, <1>3, <1>7 DEF BansStand
  <2>4. BansAlone(j)'
    BY <2>1, <1>2, <1>3, <1>7 DEF BansAlone
  <2>5. UnbansHit(j)'
    BY <2>1, <1>2, <1>3, <1>7 DEF UnbansHit
  <2>6. RemovalsDue(j)'
    BY <2>1, <1>3 DEF RemovalsDue
  <2>7. EntriesTrack(j)' /\ SnapsTrack(j)'
    BY <2>2 DEF EntriesTrack, SnapsTrack
  <2> QED
    BY <2>3, <2>4, <2>5, <2>6, <2>7 DEF KeyInv
<1> QED
  BY <1>5, <1>6, <1>7

\* An entry is set in one process and a message is sent to the others, with the
\* ban of the table or for a key without a ban in force (upsert_from_model, remove).
LEMMA SetAndPublish ==
  ASSUME TypeOK, NEW p \in Procs, NEW k \in Keys, KeyInv(k), NEW b,
         SetEntry(p, k, b), Publish(p, k, b),
         UNCHANGED <<table, over, loaded, reading, snap, due, contested>>,
         Calm(k) => (b = table[k].ban /\ b # 0) \/ (b = 0 /\ Active(table[k].ban) = 0),
         b # 0 => BanInFlight(k),
         \A q \in Procs : k \in doomed'[q] => k \in doomed[q],
         \A c \in Commands : cmd'[c] = cmd[c] \/ (cmd'[c].stage = "done" /\ cmd'[c].key = cmd[c].key)
  PROVE  KeyInv(k)'
<1>1. /\ p \notin reading /\ cache'[p][k] = b
      /\ \A q \in Procs : q # p => cache'[q][k] = cache[q][k]
  BY EntrySet
<1>2. /\ inbox'[p] = inbox[p]
      /\ \A q \in Procs : q # p => inbox'[q] = inbox[q] \cup {[key |-> k, ban |-> b]}
  BY Published
<1>3. \A q \in Procs : \A e \in inbox'[q] : e \in inbox[q] \/ (e.key = k /\ e.ban = b)
  BY <1>2
<1>4. Calm(k)' = Calm(k) /\ (\A x : Active(x)' = Active(x)) /\ Active(0) = 0
  BY ZeroIsNotOver DEF Calm, Active
<1>5. BanInFlight(k)' => BanInFlight(k)
  BY <1>3 DEF BanInFlight
<1>6. ASSUME NEW q \in Procs, q # p PROVE Awaits(q, k)'
  <2>1. [key |-> k, ban |-> b] \in inbox'[q] /\ [key |-> k, ban |-> b].key = k
    BY <1>2, <1>6
  <2> QED
    BY <2>1 DEF Awaits
<1>7. BansStand(k)'
  BY <1>3, <1>4 DEF KeyInv, BansStand
<1>8. BansAlone(k)'
  BY <1>4, <1>5 DEF KeyInv, BansAlone
<1>9. UnbansHit(k)'
  BY <1>4 DEF KeyInv, UnbansHit
<1>10. RemovalsDue(k)'
  BY <1>3, <1>4 DEF KeyInv, RemovalsDue
<1>11. EntriesTrack(k)'
  <2>1. contested[p][k] = "no" => Active(cache[p][k])' = Active(table[k].ban)'
    BY <1>1, <1>4 DEF Calm
  <2> QED
    BY <2>1, <1>6 DEF EntriesTrack
<1>12. SnapsTrack(k)'
  BY <1>1, <1>6 DEF SnapsTrack
<1> QED
  BY <1>7, <1>8, <1>9, <1>10, <1>11, <1>12 DEF KeyInv

\* The same step seen from another key
LEMMA SetAndPublishElsewhere ==
  ASSUME TypeOK, NEW p \in Procs, NEW k \in Keys, NEW b, NEW j \in Keys, j # k, KeyInv(j),
         SetEntry(p, k, b), Publish(p, k, b),
         UNCHANGED <<table, over, loaded, reading, snap, due, contested>>,
         \A q \in Procs : j \in doomed'[q] => j \in doomed[q],
         \A c \in Commands : cmd[c].key = j => cmd'[c] = cmd[c],
         \A c \in Commands : cmd'[c].key = cmd[c].key
  PROVE  KeyInv(j)'
<1>1. \A q \in Procs : cache'[q][j] = cache[q][j]
  BY EntrySet
<1>2. \A q \in Procs : \A e : e.key = j => (e \in inbox'[q] <=> e \in inbox[q])
  BY Published
<1> QED
  BY <1>1, <1>2, Frame

\* upsert_from_model: the ban stored is the one of the table.
LEMMA StoreKeeps ==
  ASSUME TypeOK, \A j \in Keys : KeyInv(j), NEW c \in Commands, Store(c), NEW j \in Keys
  PROVE  KeyInv(j)'
<1> DEFINE k == cmd[c].key  p == cmd[c].proc  b == cmd[c].ban
<1>1. k \in Keys /\ p \in Procs /\ cmd[c].stage = "store"
  BY DEF TypeOK, Store
<1>2. /\ \A d \in Commands : d # c => cmd'[d] = cmd[d]
      /\ cmd'[c].stage = "done" /\ cmd'[c].key = cmd[c].key
  <2>1. cmd' = [cmd EXCEPT ![c].stage = "done"]
    BY DEF Store
  <2> QED
    BY <2>1 DEF TypeOK
<1>3. /\ SetEntry(p, k, b) /\ Publish(p, k, b)
      /\ UNCHANGED <<table, over, loaded, reading, snap, due, doomed, contested>>
  BY DEF Store
<1>4. BanInFlight(k)
  BY <1>1 DEF BanInFlight
<1>5. Calm(k) => (b = table[k].ban /\ b # 0) \/ (b = 0 /\ Active(table[k].ban) = 0)
  BY <1>1, ZeroIsNotOver DEF KeyInv, BansStand
<1> HIDE DEF k, p, b
<1>6. CASE j = k
  BY <1>1, <1>2, <1>3, <1>4, <1>5, <1>6, SetAndPublish
<1>7. CASE j # k
  <2>1. \A d \in Commands : cmd'[d].key = cmd[d].key /\ (cmd[d].key = j => cmd'[d] = cmd[d])
    BY <1>2, <1>7 DEF k
  <2> QED
    BY <2>1, <1>1, <1>3, <1>7, SetAndPublishElsewhere
<1> QED
  BY <1>6, <1>7

\* remove at the end of an unban: the row has gone.
LEMMA RemoveKeeps ==
  ASSUME TypeOK, \A j \in Keys : KeyInv(j), NEW c \in Commands, Remove(c), NEW j \in Keys
  PROVE  KeyInv(j)'
<1> DEFINE k == cmd[c].key  p == cmd[c].proc
<1>1. k \in Keys /\ p \in Procs /\ cmd[c].stage = "remove"
  BY DEF TypeOK, Remove
<1>2. /\ \A d \in Commands : d # c => cmd'[d] = cmd[d]
      /\ cmd'[c].stage = "done" /\ cmd'[c].key = cmd[c].key
  <2>1. cmd' = [cmd EXCEPT ![c].stage = "done"]
    BY DEF Remove
  <2> QED
    BY <2>1 DEF TypeOK
<1>3. /\ SetEntry(p, k, 0) /\ Publish(p, k, 0)
      /\ UNCHANGED <<table, over, loaded, reading, snap, due, doomed, contested>>
  BY DEF Remove
<1>4. Calm(k) => Active(table[k].ban) = 0
  BY <1>1, ZeroIsNotOver DEF KeyInv, UnbansHit
<1> HIDE DEF k, p
<1>5. CASE j = k
  BY <1>1, <1>2, <1>3, <1>4, <1>5, SetAndPublish
<1>6. CASE j # k
  <2>1. \A d \in Commands : cmd'[d].key = cmd[d].key /\ (cmd[d].key = j => cmd'[d] = cmd[d])
    BY <1>2, <1>6 DEF k
  <2> QED
    BY <2>1, <1>1, <1>3, <1>6, SetAndPublishElsewhere
<1> QED
  BY <1>5, <1>6

\* remove, as a task: what is removed is in force no more.
LEMMA RemovalTaskKeeps ==
  ASSUME TypeOK, \A j \in Keys : KeyInv(j), NEW p \in Procs, NEW k \in Keys,
         RemovalTask(p, k), NEW j \in Keys
  PROVE  KeyInv(j)'
<1>1. /\ SetEntry(p, k, 0) /\ Publish(p, k, 0) /\ k \in doomed[p]
      /\ UNCHANGED <<table, over, loaded, reading, snap, due, contested, cmd>>
  BY DEF RemovalTask
<1>2. \A q \in Procs : doomed'[q] \subseteq doomed[q]
  BY DEF RemovalTask, TypeOK
<1>3. Calm(k) => Active(table[k].ban) = 0
  BY <1>1 DEF KeyInv, RemovalsDue
<1>4. CASE j = k
  BY <1>1, <1>2, <1>3, <1>4, SetAndPublish
<1>5. CASE j # k
  BY <1>1, <1>2, <1>5, SetAndPublishElsewhere
<1> QED
  BY <1>4, <1>5

\* apply_sync_event: the message carries what the table holds.
LEMMA DeliverKeeps ==
  ASSUME TypeOK, \A j \in Keys : KeyInv(j), NEW p \in Procs, NEW m \in Events,
         Deliver(p, m), NEW j \in Keys
  PROVE  KeyInv(j)'
<1> DEFINE k == m.key
<1>1. k \in Keys /\ m \in inbox[p]
  BY DEF Deliver, Events
<1>2. /\ inbox'[p] = inbox[p] \ {m}
      /\ \A q \in Procs : q # p => inbox'[q] = inbox[q]
      /\ UNCHANGED <<table, over, loaded, reading, snap, due, doomed, cmd, contested>>
  BY DEF Deliver, TypeOK
<1>3. /\ p \notin reading /\ cache'[p][k] = m.ban
      /\ \A q \in Procs, i \in Keys : q # p \/ i # k => cache'[q][i] = cache[q][i]
  BY <1>1, EntrySet DEF Deliver
<1> HIDE DEF k
<1>4. CASE j # k
  <2>1. \A q \in Procs : \A e : e.key = j => (e \in inbox'[q] <=> e \in inbox[q])
    BY <1>2, <1>4 DEF k
  <2> QED
    BY <2>1, <1>2, <1>3, <1>4, Frame
<1>5. CASE j = k
  <2>1. \A q \in Procs : inbox'[q] \subseteq inbox[q]
    BY <1>2
  <2>2. Calm(j)' = Calm(j) /\ (\A x : Active(x)' = Active(x)) /\ Active(0) = 0
    BY <1>2, ZeroIsNotOver DEF Calm, Active
  <2>3. BanInFlight(j)' => BanInFlight(j)
    BY <1>2, <2>1 DEF BanInFlight
  <2>4. \A q \in Procs : q # p => Awaits(q, j)' = Awaits(q, j)
    BY <1>2 DEF Awaits
  <2>5. Calm(j) => Active(m.ban) = Active(table[j].ban)
    <3>1. m \in inbox[p] /\ m.key = j
      BY <1>1, <1>5 DEF k
    <3>2. Calm(j) /\ m.ban # 0 => m.ban = table[j].ban
      BY <3>1 DEF KeyInv, BansStand
    <3>3. Calm(j) /\ m.ban = 0 => Active(table[j].ban) = 0
      BY <3>1 DEF KeyInv, RemovalsDue
    <3> QED
      BY <2>2, <3>2, <3>3
  <2>0. BansStand(j) /\ BansAlone(j) /\ UnbansHit(j) /\ RemovalsDue(j)
    BY DEF KeyInv
  <2>6. BansStand(j)'
    BY <1>2, <2>0, <2>1, <2>2 DEF BansStand
  <2>7. BansAlone(j)'
    BY <1>2, <2>0, <2>2, <2>3 DEF BansAlone
  <2>8. UnbansHit(j)'
    BY <1>2, <2>0, <2>2 DEF UnbansHit
  <2>9. RemovalsDue(j)'
    BY <1>2, <2>0, <2>1, <2>2 DEF RemovalsDue
  <2>10. EntriesTrack(j)'
    <3>1. contested[p][j] = "no" => Active(cache[p][j])' = Active(table[j].ban)'
      BY <1>2, <1>3, <1>5, <2>2, <2>5 DEF Calm
    <3>2. \A q \in Procs : q # p => cache'[q][j] = cache[q][j]
      BY <1>3
    <3> QED
      BY <1>2, <2>2, <2>4, <3>1, <3>2 DEF KeyInv, EntriesTrack
  <2>11. SnapsTrack(j)'
    BY <1>2, <1>3, <2>2, <2>4 DEF KeyInv, SnapsTrack
  <2> QED
    BY <2>6, <2>7, <2>8, <2>9, <2>10, <2>11 DEF KeyInv
<1> QED
  BY <1>4, <1>5

\* A lost message puts a mark on the key of the process that misses it.
LEMMA LoseKeeps ==
  ASSUME TypeOK, \A j \in Keys : KeyInv(j), NEW p \in Procs, NEW m \in Events,
         Lose(p, m), NEW j \in Keys
  PROVE  KeyInv(j)'
<1> DEFINE k == m.key
<1>1. /\ inbox'[p] = inbox[p] \ {m}
      /\ \A q \in Procs : q # p => inbox'[q] = inbox[q]
      /\ UNCHANGED <<table, over, cache, loaded, reading, snap, due, doomed, cmd>>
  BY DEF Lose, TypeOK
<1>2. /\ k \in Keys /\ contested'[p][k] = "yes"
      /\ \A q \in Procs, i \in Keys : q # p \/ i # k => contested'[q][i] = contested[q][i]
  BY DEF Lose, TypeOK, Events
<1> HIDE DEF k
<1>3. CASE j # k
  <2>1. \A q \in Procs : \A e : e.key = j => (e \in inbox'[q] <=> e \in inbox[q])
    BY <1>1, <1>3 DEF k
  <2> QED
    BY <2>1, <1>1, <1>2, <1>3, Frame
<1>4. CASE j = k
  <2>1. \A q \in Procs : inbox'[q] \subseteq inbox[q]
    BY <1>1
  <2>2. (Calm(j)' => Calm(j)) /\ (\A x : Active(x)' = Active(x))
    BY <1>1, <1>2, <1>4 DEF Calm, Active
  <2>3. BanInFlight(j)' => BanInFlight(j)
    BY <1>1, <2>1 DEF BanInFlight
  <2>4. \A q \in Procs : q # p => Awaits(q, j)' = Awaits(q, j)
    BY <1>1 DEF Awaits
  <2>5. BansStand(j)'
    BY <1>1, <2>1, <2>2 DEF KeyInv, BansStand
  <2>6. BansAlone(j)'
    BY <1>1, <2>2, <2>3 DEF KeyInv, BansAlone
  <2>7. UnbansHit(j)'
    BY <1>1, <2>2 DEF KeyInv, UnbansHit
  <2>8. RemovalsDue(j)'
    BY <1>1, <2>1, <2>2 DEF KeyInv, RemovalsDue
  <2>9. EntriesTrack(j)'
    BY <1>1, <1>2, <1>4, <2>2, <2>4 DEF KeyInv, EntriesTrack
  <2>10. SnapsTrack(j)'
    BY <1>1, <1>2, <1>4, <2>2, <2>4 DEF KeyInv, SnapsTrack
  <2> QED
    BY <2>5, <2>6, <2>7, <2>8, <2>9, <2>10 DEF KeyInv
<1> QED
  BY <1>3, <1>4

\* unban reads the row: it will hit it, for no ban is under way.
LEMMA UnbanKeeps ==
  ASSUME TypeOK, \A j \in Keys : KeyInv(j), NEW c \in Commands, Unban(c), NEW j \in Keys
  PROVE  KeyInv(j)'
<1> DEFINE k == cmd[c].key
<1>1. k \in Keys /\ cmd[c].stage = "new"
  BY DEF TypeOK, Unban
<1>2. /\ \A d \in Commands : d # c => cmd'[d] = cmd[d]
      /\ cmd'[c].stage = "delete" /\ cmd'[c].key = k /\ cmd'[c].ban = table[k].id
  <2>1. cmd' = [cmd EXCEPT ![c].stage = "delete", ![c].ban = table[k].id]
    BY DEF Unban
  <2> QED
    BY <2>1 DEF TypeOK
<1>3. UNCHANGED <<table, over, cache, loaded, reading, snap, due, doomed, inbox>>
  BY DEF Unban
<1>4. /\ \A p \in Procs, i \in Keys : contested'[p][i] \in {contested[p][i], "yes"}
      /\ j = k => (Calm(j)' => ~BanInFlight(j))
  <2>1. RemovalStarts({k}) /\ {k} \in SUBSET Keys
    BY <1>1 DEF Unban
  <2>2. /\ \A p \in Procs, i \in Keys : contested'[p][i] \in {contested[p][i], "yes"}
        /\ \A i \in {k} : (\E p \in Procs : contested'[p][i] # "yes") => ~BanInFlight(i)
    BY <2>1, RemovalMarks
  <2> QED
    BY <2>2 DEF Calm
<1>5. CASE j # k
  <2>1. \A d \in Commands : (cmd[d].key = j => cmd'[d] = cmd[d]) /\ cmd'[d].key = cmd[d].key
    BY <1>2, <1>5
  <2> QED
    BY <1>3, <1>4, <2>1, Frame
<1>6. CASE j = k
  <2> HIDE DEF k
  <2>1. (Calm(j)' => Calm(j)) /\ (\A x : Active(x)' = Active(x))
    BY <1>3, <1>4 DEF Calm, Active
  <2>2. BanInFlight(j)' => BanInFlight(j)
    BY <1>2, <1>3 DEF BanInFlight
  <2>3. \A p \in Procs : Awaits(p, j) => Awaits(p, j)'
    BY <1>1, <1>2, <1>3 DEF Awaits
  <2>4. BansStand(j)'
    BY <1>2, <1>3, <2>1 DEF KeyInv, BansStand
  <2>5. BansAlone(j)'
    BY <1>4, <1>6, <2>2 DEF BansAlone
  <2>6. UnbansHit(j)'
    BY <1>2, <1>3, <1>6, <2>1 DEF KeyInv, UnbansHit
  <2>7. RemovalsDue(j)'
    BY <1>3, <2>1 DEF KeyInv, RemovalsDue
  <2>8. EntriesTrack(j)'
    <3>1. \A p \in Procs : contested'[p][j] = "no" => contested[p][j] = "no"
      BY <1>4
    <3> QED
      BY <1>3, <2>1, <2>3, <3>1 DEF KeyInv, EntriesTrack
  <2>9. SnapsTrack(j)'
    <3>1. \A p \in Procs : contested'[p][j] # "yes" => contested[p][j] # "yes"
      BY <1>4
    <3> QED
      BY <1>3, <2>1, <2>3, <3>1 DEF KeyInv, SnapsTrack
  <2> QED
    BY <2>4, <2>5, <2>6, <2>7, <2>8, <2>9 DEF KeyInv
<1> QED
  BY <1>5, <1>6

\* delete by id: afterwards the key has no row, and every entry is still to be removed.
LEMMA DeleteKeeps ==
  ASSUME TypeOK, \A j \in Keys : KeyInv(j), NEW c \in Commands, Delete(c), NEW j \in Keys
  PROVE  KeyInv(j)'
<1> DEFINE k == cmd[c].key
<1>1. k \in Keys /\ cmd[c].stage = "delete"
  BY DEF TypeOK, Delete
<1>2. /\ \A d \in Commands : d # c => cmd'[d] = cmd[d]
      /\ cmd'[c].stage = "remove" /\ cmd'[c].key = k
  <2>1. cmd' = [cmd EXCEPT ![c].stage = "remove"]
    BY DEF Delete
  <2> QED
    BY <2>1 DEF TypeOK
<1>3. UNCHANGED <<over, cache, loaded, reading, snap, due, doomed, inbox, contested>>
  BY DEF Delete
<1>4. /\ \A i \in Keys : i # k => table'[i] = table[i]
      /\ table'[k] = IF table[k].id = cmd[c].ban THEN NoRow ELSE table[k]
  BY <1>1 DEF Delete, TypeOK
<1>5. CASE j # k
  <2>1. \A d \in Commands : (cmd[d].key = j => cmd'[d] = cmd[d]) /\ cmd'[d].key = cmd[d].key
    BY <1>2, <1>5
  <2> QED
    BY <1>3, <1>4, <1>5, <2>1, Frame
<1>6. CASE j = k
  <2>1. Calm(j)' = Calm(j) /\ (\A x : Active(x)' = Active(x)) /\ Active(0) = 0
    BY <1>3, ZeroIsNotOver DEF Calm, Active
  <2>2. Calm(j) => ~BanInFlight(j)
    BY <1>1, <1>6 DEF KeyInv, BansAlone
  <2>3. Calm(j) => table'[j].ban = 0 /\ table'[j].id = 0
    <3>1. Calm(j) => table[j].id \in {0, cmd[c].ban}
      BY <1>1, <1>6 DEF KeyInv, UnbansHit
    <3>2. NoRow.ban = 0 /\ NoRow.id = 0 /\ (table[j].id = 0 => table[j].ban = 0)
      BY DEF NoRow, Row, TypeOK
    <3> QED
      BY <1>4, <1>6, <3>1, <3>2
  <2> HIDE DEF k
  <2>4. BanInFlight(j)' => BanInFlight(j)
    BY <1>2, <1>3 DEF BanInFlight
  <2>5. \A p \in Procs : Awaits(p, j)'
    BY <1>2, <1>6 DEF Awaits
  <2>6. BansStand(j)'
    <3>1. Calm(j) => /\ \A d \in Commands : cmd[d].stage = "store" => cmd[d].key # j
                     /\ \A p \in Procs : \A e \in inbox[p] : e.ban # 0 => e.key # j
      BY <2>2 DEF BanInFlight
    <3> QED
      BY <1>2, <1>3, <2>1, <3>1 DEF BansStand
  <2>7. BansAlone(j)'
    BY <2>1, <2>2, <2>4 DEF BansAlone
  <2>8. UnbansHit(j)'
    BY <2>1, <2>3 DEF UnbansHit
  <2>9. RemovalsDue(j)'
    BY <2>1, <2>3 DEF RemovalsDue
  <2>10. EntriesTrack(j)' /\ SnapsTrack(j)'
    BY <2>5 DEF EntriesTrack, SnapsTrack
  <2> QED
    BY <2>6, <2>7, <2>8, <2>9, <2>10 DEF KeyInv
<1> QED
  BY <1>5, <1>6

\* The refresh reads what is in force; a mark it may cure has nothing under way.
LEMMA RefreshReadKeeps ==
  ASSUME TypeOK, \A j \in Keys : KeyInv(j), NEW q \in Procs, RefreshRead(q), NEW j \in Keys
  PROVE  KeyInv(j)'
<1>1. UNCHANGED <<table, over, cache, loaded, due, doomed, inbox, cmd>>
  BY DEF RefreshRead
<1>2. /\ \A p \in Procs : p # q => contested'[p][j] = contested[p][j] /\ snap'[p][j] = snap[p][j]
      /\ contested'[q][j] = IF contested[q][j] = "yes" /\ ~InFlight(j) THEN "curing" ELSE contested[q][j]
      /\ snap'[q][j] = Active(table[j].ban)
      /\ \A p \in Procs : p # q => (p \in reading' <=> p \in reading)
  BY DEF RefreshRead, TypeOK, Active
<1>3. (Calm(j)' => Calm(j) \/ ~InFlight(j)) /\ (\A x : Active(x)' = Active(x))
  BY <1>1, <1>2 DEF Calm, Active
<1>4. ~InFlight(j) =>
        /\ ~BanInFlight(j)
        /\ \A d \in Commands : cmd[d].key = j => cmd[d].stage \notin {"store", "delete", "remove"}
        /\ \A p \in Procs : j \notin due[p] /\ j \notin doomed[p] /\ \A e \in inbox[p] : e.key # j
  BY DEF InFlight, BanInFlight
<1>5. BanInFlight(j)' = BanInFlight(j) /\ \A p \in Procs : Awaits(p, j)' = Awaits(p, j)
  BY <1>1 DEF BanInFlight, Awaits
<1>6. BansStand(j)'
  BY <1>1, <1>3, <1>4 DEF KeyInv, BansStand
<1>7. BansAlone(j)'
  BY <1>1, <1>3, <1>4, <1>5 DEF KeyInv, BansAlone
<1>8. UnbansHit(j)'
  BY <1>1, <1>3, <1>4 DEF KeyInv, UnbansHit
<1>9. RemovalsDue(j)'
  BY <1>1, <1>3, <1>4 DEF KeyInv, RemovalsDue
<1>10. EntriesTrack(j)'
  <2>1. \A p \in Procs : contested'[p][j] = "no" => contested[p][j] = "no"
    BY <1>2
  <2> QED
    BY <1>1, <1>3, <1>5, <2>1 DEF KeyInv, EntriesTrack
<1>11. SnapsTrack(j)'
  <2>1. Active(snap[q][j])' = Active(table[j].ban)'
    BY <1>1, <1>2, <1>3, ZeroIsNotOver DEF Active
  <2> QED
    BY <1>1, <1>2, <1>3, <1>5, <2>1 DEF KeyInv, SnapsTrack
<1> QED
  BY <1>6, <1>7, <1>8, <1>9, <1>10, <1>11 DEF KeyInv

\* The end of a refresh, with what it has read as the entries or without.
LEMMA RefreshEndKeeps ==
  ASSUME TypeOK, \A j \in Keys : KeyInv(j), NEW q \in Procs,
         RefreshInstall(q) \/ RefreshFails(q), NEW j \in Keys
  PROVE  KeyInv(j)'
<1>1. PICK s \in {"no", "yes"} : /\ RefreshDone(q, s)
                                 /\ s = "no" => RefreshInstall(q)
                                 /\ s = "yes" => RefreshFails(q)
  BY DEF RefreshInstall, RefreshFails
<1>2. UNCHANGED <<table, over, due, doomed, inbox, cmd>> /\ q \in reading /\ reading' = reading \ {q}
  BY <1>1 DEF RefreshDone
<1>3. /\ \A p \in Procs : p # q => contested'[p][j] = contested[p][j] /\ snap'[p][j] = snap[p][j]
      /\ contested'[q][j] = IF contested[q][j] = "curing" THEN s ELSE contested[q][j]
  BY <1>1 DEF RefreshDone, TypeOK
<1>4. /\ \A p \in Procs : p # q => cache'[p][j] = cache[p][j] /\ (p \in loaded' <=> p \in loaded)
      /\ s = "no" => cache'[q][j] = snap[q][j]
      /\ s = "yes" => cache'[q][j] = cache[q][j] /\ loaded' = loaded
  BY <1>1 DEF RefreshInstall, RefreshFails, TypeOK
<1>5. (Calm(j)' => Calm(j)) /\ (\A x : Active(x)' = Active(x))
  BY <1>2, <1>3 DEF Calm, Active
<1>6. BanInFlight(j)' = BanInFlight(j) /\ \A p \in Procs : Awaits(p, j)' = Awaits(p, j)
  BY <1>2 DEF BanInFlight, Awaits
<1>7. BansStand(j)'
  BY <1>2, <1>5 DEF KeyInv, BansStand
<1>8. BansAlone(j)'
  BY <1>2, <1>5, <1>6 DEF KeyInv, BansAlone
<1>9. UnbansHit(j)'
  BY <1>2, <1>5 DEF KeyInv, UnbansHit
<1>10. RemovalsDue(j)'
  BY <1>2, <1>5 DEF KeyInv, RemovalsDue
<1>11. EntriesTrack(j)'
  <2>1. ASSUME NEW p \in Procs, p # q, contested'[p][j] = "no", p \in loaded' \/ cache'[p][j] # 0
        PROVE  Awaits(p, j) \/ Active(cache'[p][j]) = Active(table[j].ban)
    BY <2>1, <1>3, <1>4 DEF KeyInv, EntriesTrack
  <2>2. ASSUME s = "no", contested'[q][j] = "no"
        PROVE  Awaits(q, j) \/ Active(cache'[q][j]) = Active(table[j].ban)
    BY <2>2, <1>2, <1>3, <1>4 DEF KeyInv, SnapsTrack
  <2>3. ASSUME s = "yes", contested'[q][j] = "no", q \in loaded' \/ cache'[q][j] # 0
        PROVE  Awaits(q, j) \/ Active(cache'[q][j]) = Active(table[j].ban)
    BY <2>3, <1>3, <1>4 DEF KeyInv, EntriesTrack
  <2>4. s = "no" \/ s = "yes"
    OBVIOUS
  <2> QED
    BY <2>1, <2>2, <2>3, <2>4, <1>2, <1>5, <1>6 DEF EntriesTrack
<1>12. SnapsTrack(j)'
  BY <1>2, <1>3, <1>5, <1>6 DEF KeyInv, SnapsTrack
<1> QED
  BY <1>7, <1>8, <1>9, <1>10, <1>11, <1>12 DEF KeyInv

\* Removals that start on entries that are over: the task of a lookup, a clean-up.
LEMMA RemovalStartKeeps ==
  ASSUME TypeOK, NEW q \in Procs, NEW j \in Keys, KeyInv(j), cache[q][j] \in over,
         NEW ks \in SUBSET Keys, j \in ks, RemovalStarts(ks),
         UNCHANGED <<table, over, loaded, reading, snap, inbox, cmd>>,
         \A p \in Procs : p # q => cache'[p][j] = cache[p][j],
         cache'[q][j] \in {0, cache[q][j]}
  PROVE  KeyInv(j)'
<1>1. /\ \A p \in Procs : contested'[p][j] \in {contested[p][j], "yes"}
      /\ Calm(j)' => ~BanInFlight(j) /\ \A p \in Procs : contested[p][j] = "no"
  BY RemovalMarks DEF Calm
<1>2. Calm(j)' => Active(table[j].ban) = 0
  BY <1>1, ExpiredIsOver DEF Calm
<1>3. (Calm(j)' => Calm(j)) /\ (\A x : Active(x)' = Active(x)) /\ Active(0) = 0
  BY <1>1, ZeroIsNotOver DEF Calm, Active
<1>4. BanInFlight(j)' = BanInFlight(j) /\ \A p \in Procs : Awaits(p, j)' = Awaits(p, j)
  BY DEF BanInFlight, Awaits
<1>5. BansStand(j)'
  BY <1>3 DEF KeyInv, BansStand
<1>6. BansAlone(j)'
  BY <1>1, <1>4 DEF BansAlone
<1>7. UnbansHit(j)'
  BY <1>3 DEF KeyInv, UnbansHit
<1>8. RemovalsDue(j)'
  BY <1>2, <1>3 DEF RemovalsDue
<1>9. EntriesTrack(j)'
  <2>1. Calm(j)' => Active(cache[q][j])' = Active(table[j].ban)'
    BY <1>2, <1>3 DEF Active
  <2>2. contested'[q][j] = "no" => Calm(j)'
    BY DEF Calm
  <2>3. \A p \in Procs : contested'[p][j] = "no" => contested[p][j] = "no"
    BY <1>1
  <2> QED
    BY <1>3, <1>4, <2>1, <2>2, <2>3 DEF KeyInv, EntriesTrack
<1>10. SnapsTrack(j)'
  <2>1. \A p \in Procs : contested'[p][j] # "yes" => contested[p][j] # "yes"
    BY <1>1
  <2> QED
    BY <1>3, <1>4, <2>1 DEF KeyInv, SnapsTrack
<1> QED
  BY <1>5, <1>6, <1>7, <1>8, <1>9, <1>10 DEF KeyInv

\* cleanup_expired drops entries that are over.
LEMMA CleanStartKeeps ==
  ASSUME TypeOK, \A j \in Keys : KeyInv(j), NEW q \in Procs, CleanStart(q), NEW j \in Keys
  PROVE  KeyInv(j)'
<1> DEFINE expired == {k \in Keys : cache[q][k] \in over}
<1>1. UNCHANGED <<table, over, loaded, reading, snap, doomed, inbox, cmd>>
  BY DEF CleanStart
<1>2. /\ \A p \in Procs : p # q => cache'[p][j] = cache[p][j]
      /\ cache'[q][j] = IF j \in expired THEN 0 ELSE cache[q][j]
  BY DEF CleanStart, TypeOK
<1>3. RemovalStarts(expired) /\ expired \in SUBSET Keys
  BY DEF CleanStart
<1>4. \A p \in Procs : j \in due'[p] => j \in due[p] \/ j \in expired
  BY DEF CleanStart, TypeOK
<1>5. CASE j \in expired
  BY <1>1, <1>2, <1>3, <1>5, RemovalStartKeeps
<1>6. CASE j \notin expired
  <2> HIDE DEF expired
  <2>1. \A p \in Procs : contested'[p][j] \in {contested[p][j], "yes"}
    BY <1>3, RemovalMarks
  <2> QED
    BY <1>1, <1>2, <1>4, <1>6, <2>1, Frame
<1> QED
  BY <1>5, <1>6

\* cleanup_expired deletes a row whose ban is in force no more.
LEMMA CleanDeleteKeeps ==
  ASSUME TypeOK, \A j \in Keys : KeyInv(j), NEW q \in Procs, NEW k \in Keys,
         CleanDelete(q, k), NEW j \in Keys
  PROVE  KeyInv(j)'
<1>1. /\ k \in due[q]
      /\ UNCHANGED <<over, cache, loaded, reading, snap, doomed, inbox, cmd, contested>>
      /\ \A p \in Procs : due'[p] \subseteq due[p]
      /\ \A i \in Keys : i # k => table'[i] = table[i]
      /\ table'[k].id = 0 /\ table'[k].ban = 0
  BY DEF CleanDelete, TypeOK, NoRow, Row
<1>2. CASE j # k
  BY <1>1, <1>2, Frame
<1>3. CASE j = k
  <2>1. Calm(j)' = Calm(j) /\ (\A x : Active(x)' = Active(x)) /\ Active(0) = 0
    BY <1>1, ZeroIsNotOver DEF Calm, Active
  <2>2. BanInFlight(j)' = BanInFlight(j) /\ \A p \in Procs : Awaits(p, j)' = Awaits(p, j)
    BY <1>1 DEF BanInFlight, Awaits
  <2>3. Calm(j) => ~BanInFlight(j) /\ Active(table[j].ban) = 0
    BY <1>1, <1>3 DEF KeyInv, BansAlone, RemovalsDue
  <2>4. Active(table[j].ban)' = 0
    BY <1>1, <1>3, <2>1
  <2>5. BansStand(j)'
    <3>1. Calm(j) => /\ \A d \in Commands : cmd[d].stage = "store" => cmd[d].key # j
                     /\ \A p \in Procs : \A e \in inbox[p] : e.ban # 0 => e.key # j
      BY <2>3 DEF BanInFlight
    <3> QED
      BY <1>1, <2>1, <3>1 DEF BansStand
  <2>6. BansAlone(j)'
    BY <2>1, <2>2, <2>3 DEF BansAlone
  <2>7. UnbansHit(j)'
    BY <1>1, <1>3 DEF UnbansHit
  <2>8. RemovalsDue(j)'
    BY <2>4 DEF RemovalsDue
  <2>9. EntriesTrack(j)'
    <3>1. \A p \in Procs : contested[p][j] = "no" => Calm(j)
      BY DEF Calm
    <3> QED
      BY <1>1, <2>1, <2>2, <2>3, <2>4, <3>1 DEF KeyInv, EntriesTrack
  <2>10. SnapsTrack(j)'
    <3>1. \A p \in Procs : contested[p][j] # "yes" => Calm(j)
      BY DEF Calm
    <3> QED
      BY <1>1, <2>1, <2>2, <2>3, <2>4, <3>1 DEF KeyInv, SnapsTrack
  <2> QED
    BY <2>5, <2>6, <2>7, <2>8, <2>9, <2>10 DEF KeyInv
<1> QED
  BY <1>2, <1>3

\* A lookup notes that there is no entry or starts the removal of one that is over.
LEMMA LookupKeeps ==
  ASSUME TypeOK, \A j \in Keys : KeyInv(j), NEW q \in Procs, NEW k \in Keys,
         Lookup(q, k), NEW j \in Keys
  PROVE  KeyInv(j)'
<1>1. UNCHANGED <<table, over, cache, loaded, reading, snap, due, inbox, cmd>>
  BY DEF Lookup
<1>2. CASE UNCHANGED <<doomed, contested>>
  BY <1>1, <1>2, Frame
<1>3. CASE /\ Entry(q, k) \in over /\ RemovalStarts({Place(q, k)})
           /\ doomed' = [doomed EXCEPT ![q] = @ \cup {Place(q, k)}]
  <2> DEFINE i == Place(q, k)
  <2>1. i \in Keys /\ cache[q][i] \in over
    BY <1>3 DEF Place, Entry, Keys
  <2>2. CASE j = i
    BY <1>1, <1>3, <2>1, <2>2, RemovalStartKeeps
  <2>3. CASE j # i
    <3>1. \A p \in Procs : contested'[p][j] \in {contested[p][j], "yes"}
      BY <1>3, <2>1, RemovalMarks
    <3>2. \A p \in Procs : j \in doomed'[p] => j \in doomed[p]
      BY <1>3, <2>3 DEF TypeOK
    <3> QED
      BY <1>1, <3>1, <3>2, Frame
  <2> QED
    BY <2>2, <2>3
<1> QED
  BY <1>2, <1>3 DEF Lookup

\* A ban ends: what agreed on the ban in force still does.
LEMMA ExpireKeeps ==
  ASSUME TypeOK, \A j \in Keys : KeyInv(j), NEW b \in 1..MaxBans, Expire(b), NEW j \in Keys
  PROVE  KeyInv(j)'
<1>1. /\ over' = over \cup {b} /\ b # 0
      /\ UNCHANGED <<table, cache, loaded, reading, snap, due, doomed, inbox, cmd, contested>>
  BY DEF Expire
<1>2. \A x : Active(x)' = IF x = b THEN 0 ELSE Active(x)
  BY <1>1 DEF Active
<1>3. \A x, y : Active(x) = Active(y) => Active(x)' = Active(y)'
  BY <1>1, ZeroIsNotOver DEF Active
<1>4. \A x : Active(x) = 0 => Active(x)' = 0
  BY <1>2
<1>5. /\ Calm(j)' = Calm(j) /\ BanInFlight(j)' = BanInFlight(j)
      /\ \A p \in Procs : Awaits(p, j)' = Awaits(p, j)
  BY <1>1 DEF Calm, BanInFlight, Awaits
<1>6. BansStand(j)' /\ BansAlone(j)' /\ UnbansHit(j)'
  BY <1>1, <1>5 DEF KeyInv, BansStand, BansAlone, UnbansHit
<1>7. RemovalsDue(j)'
  BY <1>1, <1>4, <1>5 DEF KeyInv, RemovalsDue
<1>8. EntriesTrack(j)' /\ SnapsTrack(j)'
  BY <1>1, <1>3, <1>5 DEF KeyInv, EntriesTrack, SnapsTrack
<1> QED
  BY <1>6, <1>7, <1>8 DEF KeyInv

\* What changes no more than the negative answers or ends a clean-up.
LEMMA QuietKeeps ==
  ASSUME \A j \in Keys : KeyInv(j), NEW j \in Keys,
         UNCHANGED <<table, over, cache, loaded, reading, snap, doomed, inbox, cmd, contested>>,
         \A p \in Procs : due'[p] \subseteq due[p]
  PROVE  KeyInv(j)'
  BY Frame

-----------------------------------------------------------------------------
\* Theorems

\* At the start nothing is under way and no cache is loaded.
LEMMA InvInit == Init => IInv
<1> SUFFICES ASSUME Init PROVE IInv
  OBVIOUS
<1>1. TypeOK
  BY TypeInit
<1>2. NegativeIsTrue
  BY DEF Init, NegativeIsTrue
<1>3. ASSUME NEW k \in Keys PROVE KeyInv(k)
  <2>1. /\ \A c \in Commands : cmd[c].stage = "new"
        /\ \A p \in Procs : inbox[p] = {} /\ due[p] = {} /\ doomed[p] = {} /\ cache[p][k] = 0
        /\ loaded = {} /\ reading = {}
    BY DEF Init, Nothing
  <2> QED
    BY <2>1 DEF KeyInv, BansStand, BansAlone, UnbansHit, RemovalsDue, EntriesTrack, SnapsTrack,
                BanInFlight
<1> QED
  BY <1>1, <1>2, <1>3 DEF IInv

\* Every step keeps the invariant.
LEMMA InvStep == IInv /\ [Next]_vars => IInv'
<1> SUFFICES ASSUME IInv, [Next]_vars PROVE IInv'
  OBVIOUS
<1>1. TypeOK /\ NegativeIsTrue /\ (\A j \in Keys : KeyInv(j))
  BY DEF IInv
<1>2. TypeOK' /\ NegativeIsTrue'
  BY <1>1, TypeStep, NegativeStep
<1>3. ASSUME NEW j \in Keys PROVE KeyInv(j)'
  <2>1. ASSUME NEW c \in Commands, CommandStep(c) PROVE KeyInv(j)'
    BY <2>1, <1>1, BanKeeps, StoreKeeps, UnbanKeeps, DeleteKeeps, RemoveKeeps DEF CommandStep
  <2>2. ASSUME NEW p \in Procs, RefreshRead(p) PROVE KeyInv(j)'
    BY <2>2, <1>1, RefreshReadKeeps
  <2>3. ASSUME NEW p \in Procs, RefreshInstall(p) \/ RefreshFails(p) PROVE KeyInv(j)'
    BY <2>3, <1>1, RefreshEndKeeps
  <2>4. ASSUME NEW p \in Procs, CleanStart(p) PROVE KeyInv(j)'
    BY <2>4, <1>1, CleanStartKeeps
  <2>5. ASSUME NEW p \in Procs, NEW k \in Keys, CleanDelete(p, k) PROVE KeyInv(j)'
    BY <2>5, <1>1, CleanDeleteKeeps
  <2>6. ASSUME NEW p \in Procs, CleanFails(p) PROVE KeyInv(j)'
    <3>1. /\ UNCHANGED <<table, over, cache, loaded, reading, snap, doomed, inbox, cmd, contested>>
          /\ \A q \in Procs : due'[q] \subseteq due[q]
      BY <2>6, <1>1 DEF CleanFails, TypeOK
    <3> QED
      BY <3>1, <1>1, QuietKeeps
  <2>7. ASSUME NEW p \in Procs, NEW m \in Events, Deliver(p, m) \/ Lose(p, m) PROVE KeyInv(j)'
    BY <2>7, <1>1, DeliverKeeps, LoseKeeps
  <2>8. ASSUME NEW p \in Procs, NEW k \in Keys, Lookup(p, k) PROVE KeyInv(j)'
    BY <2>8, <1>1, LookupKeeps
  <2>9. ASSUME NEW p \in Procs, NEW k \in Keys, RemovalTask(p, k) PROVE KeyInv(j)'
    BY <2>9, <1>1, RemovalTaskKeeps
  <2>10. ASSUME NEW p \in Procs, NEW k \in Keys, NegativeEnds(p, k) PROVE KeyInv(j)'
    <3>1. UNCHANGED <<table, over, cache, loaded, reading, snap, due, doomed, inbox, cmd, contested>>
      BY <2>10 DEF NegativeEnds
    <3> QED
      BY <3>1, <1>1, QuietKeeps
  <2>11. ASSUME NEW b \in 1..MaxBans, Expire(b) PROVE KeyInv(j)'
    BY <2>11, <1>1, ExpireKeeps
  <2>12. CASE UNCHANGED vars
    <3>1. UNCHANGED <<table, over, cache, loaded, reading, snap, due, doomed, inbox, cmd, contested>>
      BY <2>12 DEF vars
    <3> QED
      BY <3>1, <1>1, QuietKeeps
  <2> QED
    BY <2>1, <2>2, <2>3, <2>4, <2>5, <2>6, <2>7, <2>8, <2>9, <2>10, <2>11, <2>12
    DEF Next, CleanStep, Message
<1> QED
  BY <1>2, <1>3 DEF IInv

\* The invariant holds in every reachable state, for any processes and commands.
THEOREM InvHolds == Spec => []IInv
  BY InvInit, InvStep, PTL DEF Spec

\* Every reachable state of the table, the caches and the messages is well typed.
THEOREM TypesHold == Spec => []TypeOK
<1>1. IInv => TypeOK
  BY DEF IInv
<1> QED
  BY <1>1, InvHolds, PTL

\* A remembered "not banned" never hides an entry (clear_negative_all).
THEOREM NegativesHold == Spec => []NegativeIsTrue
<1>1. IInv => NegativeIsTrue
  BY DEF IInv
<1> QED
  BY <1>1, InvHolds, PTL

\* IInv is strong enough: with nothing under way an entry is not awaited.
LEMMA AgreesFromInv == IInv => CacheAgrees
<1> SUFFICES ASSUME IInv, NEW p \in loaded, NEW k \in Keys, contested[p][k] = "no", ~InFlight(k)
             PROVE  Active(cache[p][k]) = Active(table[k].ban)
  BY DEF CacheAgrees
<1>1. p \in Procs /\ KeyInv(k)
  BY DEF IInv, TypeOK
<1>2. ~Awaits(p, k)
  BY <1>1 DEF InFlight, Awaits
<1> QED
  BY <1>1, <1>2 DEF KeyInv, EntriesTrack

\* The cache of a process has the bans of the table, for keys with nothing under
\* way and nothing at odds since the last refresh (BanMemoryCache).
THEOREM CachesAgree == Spec => []CacheAgrees
  BY AgreesFromInv, InvHolds, PTL

\* remaining_time is 0 exactly for a user without a ban in force, under the same
\* conditions and when no ban in the group that is over hides one everywhere.
THEOREM AnswersRight == Spec => []AnswerIsRight
<1>1. IInv => AnswerIsRight
  <2> SUFFICES ASSUME IInv, NEW p \in loaded, NEW k \in Keys,
                      \A j \in Keys : contested[p][j] = "no" /\ ~InFlight(j),
                      k = "here" => cache[p]["here"] \notin over
               PROVE  RemainingTime(p, k) = 0
                        <=> \A j \in {k, "everywhere"} : Active(table[j].ban) = 0
    BY DEF AnswerIsRight
  <2>1. \A j \in Keys : Active(cache[p][j]) = Active(table[j].ban)
    BY AgreesFromInv DEF CacheAgrees
  <2>2. p \in Procs /\ 0 \notin over /\ (k \in neg[p] => Entry(p, k) = 0)
    BY ZeroIsNotOver DEF IInv, TypeOK, NegativeIsTrue
  <2>3. RemainingTime(p, k) = 0 <=> Active(Entry(p, k)) = 0
    BY <2>2 DEF RemainingTime, Active
  <2>4. Active(Entry(p, k)) = 0 <=> \A j \in {k, "everywhere"} : Active(cache[p][j]) = 0
    BY <2>2 DEF Entry, Place, Active, Keys
  <2> QED
    BY <2>1, <2>3, <2>4 DEF Keys
<1> QED
  BY <1>1, InvHolds, PTL
=============================================================================
