------------------------------- MODULE RedBag -------------------------------
(***************************************************************************)
(* builtin_plugins/gold_redbag: users put gold into red bags that the      *)
(* members of a group open; a superuser hands out festive bags that all    *)
(* groups of one broadcast share.  Every command runs as a task of its own *)
(* and is suspended at each database call, so that commands interleave     *)
(* there: an action below is what a handler does between two of them.      *)
(* The plugin's cooldown of a few seconds for each user may pass while a   *)
(* handler is suspended.                                                   *)
(*                                                                         *)
(* A group's bags are a Python dict, which matters: `open` iterates over   *)
(* it across awaits, and a change of its size ends the iteration with a    *)
(* RuntimeError.  Here it is the sequence of the dict's entries, where 0   *)
(* is an entry that was deleted.  (A dict of up to five entries is never   *)
(* rehashed.)  Messages, images and the statistics table are left out.     *)
(***************************************************************************)
EXTENDS Integers, FiniteSets, SequencesExt

CONSTANTS Users, Groups,
          Festivals,    \* the uuids of the broadcasts
          Tasks,        \* command handlers that may be under way at a time
          Contents,     \* the contents of a bag: sequences of pieces of gold
          StartGold,    \* UserConsole.gold of a new user
          MaxSends,     \* bound of the model: bags put up by users
          FESTIVE,      \* FESTIVE_KEY, the promoter of festive bags
          None

ASSUME ContentsArePieces == Contents \subseteq Seq(Nat) /\ StartGold \in Nat
ASSUME NamesDistinct == FESTIVE \notin Users /\ None \notin Users \cup Festivals

VARIABLES
  gold,       \* UserConsole.gold, in the database
  bags,       \* every RedBag object made so far
  data,       \* GroupRedBag._data: the entries of each group, as indices of bags
  festival,   \* each uuid: not yet used, a key of FestiveRedBagManage._data, or removed
  marked,     \* FestiveRedBagManage._data: the users each uuid has been opened by
  jobs,       \* the groups with a scheduled _auto_end_festive_red_bag
  task        \* the handlers

vars == <<gold, bags, data, festival, marked, jobs, task>>

Idle == [pc |-> "idle"]

Init == /\ gold = [u \in Users |-> StartGold]
        /\ bags = <<>>
        /\ data = [g \in Groups |-> <<>>]
        /\ festival = [f \in Festivals |-> "new"]
        /\ marked = [f \in Festivals |-> {}]
        /\ jobs = {}
        /\ task = [t \in Tasks |-> Idle]

-----------------------------------------------------------------------------
\* Bags and dicts

Sum(s) == LET total[n \in 0..Len(s)] == IF n = 0 THEN 0 ELSE total[n - 1] + s[n]
          IN  total[Len(s)]

Ended(t) == [task EXCEPT ![t] = Idle]

\* A RedBag as add_red_bag makes it.  "taken" and "refund" are history: the
\* openings in their order, and the gold given back.
NewBag(key, uuid, content, assigner) ==
  [key |-> key, uuid |-> uuid, num |-> Len(content), amount |-> Sum(content),
   left |-> content, assigner |-> assigner, opened |-> {}, fresh |-> TRUE,
   taken |-> <<>>, refund |-> 0]

\* The entry of a group's dict with a key, 0 when there is none.
Entry(g, key) ==
  LET at == {i \in DOMAIN data[g] : data[g][i] # 0 /\ bags[data[g][i]].key = key}
  IN  IF at = {} THEN 0 ELSE CHOOSE i \in at : TRUE

BagAt(g, key) == IF Entry(g, key) = 0 THEN 0 ELSE data[g][Entry(g, key)]

Size(g) == Cardinality({i \in DOMAIN data[g] : data[g][i] # 0})

\* The dict without the keys of a set, and with a bag under its key: in the
\* place of the one it replaces, or at the end.
Without(g, keys) ==
  [i \in DOMAIN data[g] |->
     IF data[g][i] # 0 /\ bags[data[g][i]].key \in keys THEN 0 ELSE data[g][i]]

With(g, key, b) == IF Entry(g, key) = 0 THEN Append(data[g], b)
                   ELSE [data[g] EXCEPT ![Entry(g, key)] = b]

-----------------------------------------------------------------------------
\* A user puts up a bag.

Sending == {t \in Tasks : task[t].pc \in {"read", "save", "publish"}}

\* Refused while the user's last bag is fresh: younger than its timeout and than
\* DEFAULT_INTERVAL, both a minute.
SendStart(t, u, g, content, assigner) ==
  /\ task[t] = Idle
  /\ Cardinality({b \in DOMAIN bags : bags[b].key \in Users} ) + Cardinality(Sending) < MaxSends
  /\ Entry(g, u) # 0 => ~bags[BagAt(g, u)].fresh
  /\ assigner # None => Len(content) = 1
  /\ task' = [task EXCEPT ![t] = [pc |-> "read", user |-> u, group |-> g,
                                  bag |-> NewBag(u, None, content, assigner)]]
  /\ UNCHANGED <<gold, bags, data, festival, marked, jobs>>

\* Mutant: add_red_bag does not compare the balance.
SendReadUnchecked(t) ==
  /\ task[t].pc = "read"
  /\ task' = [task EXCEPT ![t] = [pc |-> "save", user |-> @.user, group |-> @.group,
                                  bag |-> @.bag, balance |-> gold[@.user]]]
  /\ UNCHANGED <<gold, bags, data, festival, marked, jobs>>

\* add_red_bag reads the user's row (check_gold, just before, refuses no more
\* than this does) ...
SendRead(t) ==
  /\ task[t].pc = "read"
  /\ LET k == task[t]
     IN  task' = IF gold[k.user] < k.bag.amount
                 THEN Ended(t)
                 ELSE [task EXCEPT ![t] = [pc |-> "save", user |-> k.user, group |-> k.group,
                                           bag |-> k.bag, balance |-> gold[k.user]]]
  /\ UNCHANGED <<gold, bags, data, festival, marked, jobs>>

\* ... and, an await later, saves the balance it read less the amount; ...
SendSave(t) ==
  /\ task[t].pc = "save"
  /\ gold' = [gold EXCEPT ![task[t].user] = task[t].balance - task[t].bag.amount]
  /\ task' = [task EXCEPT ![t] = [pc |-> "publish", user |-> @.user, group |-> @.group,
                                  bag |-> @.bag]]
  /\ UNCHANGED <<bags, data, festival, marked, jobs>>

\* ... then the bag is there to be opened; it replaces one that was not fresh.
SendPublish(t) ==
  /\ task[t].pc = "publish"
  /\ bags' = Append(bags, task[t].bag)
  /\ data' = [data EXCEPT ![task[t].group] = With(task[t].group, task[t].user, Len(bags'))]
  /\ task' = Ended(t)
  /\ UNCHANGED <<gold, festival, marked, jobs>>

\* A minute passes.
Age(b) == /\ bags[b].fresh
          /\ bags' = [bags EXCEPT ![b].fresh = FALSE]
          /\ UNCHANGED <<gold, data, festival, marked, jobs, task>>

-----------------------------------------------------------------------------
\* A user opens whatever the group has: GroupRedBag.open.

\* FestiveRedBagManage.check, and the tests for the assigner and the openers.
CanOpen(bag, u) ==
  /\ bag.num > Cardinality(bag.opened)
  /\ bag.uuid # None => festival[bag.uuid] = "running" /\ u \notin marked[bag.uuid]
  /\ IF bag.assigner # None THEN bag.assigner = u ELSE u \notin bag.opened

\* Mutant: the opening is not noted.
Unmarked(bag, u) == marked

\* FestiveRedBagManage.open
Marked(bag, u) == IF bag.uuid = None THEN marked
                  ELSE [marked EXCEPT ![bag.uuid] = @ \cup {u}]

\* The loop from entry "at" on, to its next await or its end, with the bags as
\* "book" has them.  The task k remembers the dict's size at the loop's start,
\* how many entries the iterator still owes, and the promoters whose bags it has
\* seen opened up.  The iterator raises when the size has changed, and when it
\* meets more entries than it owes.
OpenOn(t, k, at, book) ==
  LET g       == k.group
      rest    == {i \in DOMAIN data[g] : i >= at /\ data[g][i] # 0}
      next    == {i \in rest : CanOpen(book[data[g][i]], k.user)}
      i       == CHOOSE j \in next : \A m \in next : j <= m
      visited == {j \in rest : next # {} => j <= i}
      ok      == Size(g) = k.size /\ Cardinality(visited) <= k.owed
      b       == data[g][i]
  IN  \/ /\ ~ok                                           \* RuntimeError
         /\ bags' = book /\ task' = Ended(t)
         /\ UNCHANGED <<data, marked>>
      \/ /\ ok /\ next = {}                               \* the end: settle
         /\ data' = [data EXCEPT ![g] = Without(g, k.done)]
         /\ bags' = book /\ task' = Ended(t)
         /\ UNCHANGED marked
      \/ /\ ok /\ next # {}
         /\ marked' = Marked(book[b], k.user)
         /\ UNCHANGED data
         /\ IF book[b].left = <<>>                        \* IndexError
            THEN bags' = book /\ task' = Ended(t)
            ELSE /\ bags' = [book EXCEPT ![b].left  = Front(@),
                                         ![b].taken = Append(@, <<k.user, Last(book[b].left)>>)]
                 /\ task' = [task EXCEPT ![t] =
                      [k EXCEPT !.pc = "pay", !.at = i + 1, !.bag = b,
                                !.owed = @ - Cardinality(visited),
                                !.piece = Last(book[b].left)]]

OpenStart(t, u, g) ==
  /\ task[t] = Idle
  /\ OpenOn(t, [pc |-> "pay", user |-> u, group |-> g, size |-> Size(g), owed |-> Size(g),
                done |-> {}, at |-> 1, bag |-> 0, piece |-> 0], 1, bags)
  /\ UNCHANGED <<gold, festival, jobs>>

\* add_gold adds the piece in the database.
OpenPay(t) ==
  /\ task[t].pc = "pay"
  /\ gold' = [gold EXCEPT ![task[t].user] = @ + task[t].piece]
  /\ task' = [task EXCEPT ![t].pc = "paid"]
  /\ UNCHANGED <<bags, data, festival, marked, jobs>>

\* Only now is the user recorded among the openers; the loop goes on.
OpenRecord(t) ==
  /\ task[t].pc = "paid"
  /\ LET k     == task[t]
         book  == [bags EXCEPT ![k.bag].opened = @ \cup {k.user}]
         isOut == book[k.bag].num = Cardinality(book[k.bag].opened)
     IN  OpenOn(t, IF isOut THEN [k EXCEPT !.done = @ \cup {book[k.bag].key}] ELSE k,
                k.at, book)
  /\ UNCHANGED <<gold, festival, jobs>>

-----------------------------------------------------------------------------
\* The promoter takes back a bag that is no longer fresh: settlement.

\* Mutant: the bag stays in the dict.
ReturnKept(t, u, g) ==
  /\ task[t] = Idle /\ Entry(g, u) # 0 /\ ~bags[BagAt(g, u)].fresh
  /\ bags' = [bags EXCEPT ![BagAt(g, u)].refund = @ + Sum(bags[BagAt(g, u)].left)]
  /\ task' = [task EXCEPT ![t] = [pc |-> "refund", user |-> u,
                                  amount |-> Sum(bags[BagAt(g, u)].left)]]
  /\ UNCHANGED <<gold, data, festival, marked, jobs>>

ReturnStart(t, u, g) ==
  /\ task[t] = Idle
  /\ Entry(g, u) # 0 /\ ~bags[BagAt(g, u)].fresh
  /\ data' = [data EXCEPT ![g] = Without(g, {u})]
  /\ LET b      == BagAt(g, u)
         amount == Sum(bags[b].left)
     IN  /\ bags' = [bags EXCEPT ![b].refund = @ + amount]
         /\ task' = IF amount = 0 THEN task
                    ELSE [task EXCEPT ![t] = [pc |-> "refund", user |-> u, amount |-> amount]]
  /\ UNCHANGED <<gold, festival, marked, jobs>>

Refund(t) ==
  /\ task[t].pc = "refund"
  /\ gold' = [gold EXCEPT ![task[t].user] = @ + task[t].amount]
  /\ task' = Ended(t)
  /\ UNCHANGED <<bags, data, festival, marked, jobs>>

-----------------------------------------------------------------------------
\* A superuser's broadcast: one festive bag for each group.

FestiveStart(t, f, content) ==
  /\ task[t] = Idle /\ festival[f] = "new"
  /\ festival' = [festival EXCEPT ![f] = "running"]
  /\ task' = [task EXCEPT ![t] = [pc |-> "clear", todo |-> Groups, group |-> None,
                                  bag |-> NewBag(FESTIVE, f, content, None)]]
  /\ UNCHANGED <<gold, bags, data, marked, jobs>>

\* A group's earlier festive bag goes, and its uuid with it, ...
FestiveClear(t, g) ==
  /\ task[t].pc = "clear" /\ g \in task[t].todo
  /\ LET old  == BagAt(g, FESTIVE)
         next == [task[t] EXCEPT !.pc = "give", !.todo = @ \ {g}, !.group = g]
     IN  IF old = 0
         THEN /\ jobs' = jobs \ {g}
              /\ task' = [task EXCEPT ![t] = next]
              /\ UNCHANGED <<data, festival>>
         ELSE /\ data' = [data EXCEPT ![g] = Without(g, {FESTIVE})]
              /\ festival' = [festival EXCEPT ![bags[old].uuid] = "over"]
              /\ task' = [task EXCEPT ![t] = [next EXCEPT !.pc = "expire"]]
              /\ UNCHANGED jobs
  /\ UNCHANGED <<gold, bags, marked>>

\* ... an await later its job, with any festive bag that came in between; ...
FestiveExpire(t) ==
  /\ task[t].pc = "expire"
  /\ LET g == task[t].group
     IN  data' = IF g \in jobs THEN [data EXCEPT ![g] = Without(g, {FESTIVE})] ELSE data
  /\ jobs' = jobs \ {task[t].group}
  /\ task' = [task EXCEPT ![t].pc = "give"]
  /\ UNCHANGED <<gold, bags, festival, marked>>

\* ... then the new bag is there, and add_job raises if the group has a job again.
FestivePublish(t) ==
  /\ task[t].pc = "give"
  /\ LET k == task[t]
     IN  /\ bags' = Append(bags, k.bag)
         /\ data' = [data EXCEPT ![k.group] = With(k.group, FESTIVE, Len(bags'))]
         /\ jobs' = jobs \cup {k.group}
         /\ task' = IF k.todo = {} \/ k.group \in jobs THEN Ended(t)
                    ELSE [task EXCEPT ![t] = [k EXCEPT !.pc = "clear"]]
  /\ UNCHANGED <<gold, festival, marked>>

\* _auto_end_festive_red_bag, a day later: an await separates finding the group's
\* festive bag from removing its uuid.  The bag stays where it is.
AutoEnd(t, g) ==
  /\ task[t] = Idle /\ g \in jobs
  /\ jobs' = jobs \ {g}
  /\ task' = IF BagAt(g, FESTIVE) = 0 THEN task
             ELSE [task EXCEPT ![t] = [pc |-> "end", uuid |-> bags[BagAt(g, FESTIVE)].uuid]]
  /\ UNCHANGED <<gold, bags, data, festival, marked>>

RemoveFestival(t) ==
  /\ task[t].pc = "end"
  /\ festival' = [festival EXCEPT ![task[t].uuid] = "over"]
  /\ task' = Ended(t)
  /\ UNCHANGED <<gold, bags, data, marked, jobs>>

-----------------------------------------------------------------------------
Send(t) == \/ \E u \in Users, g \in Groups, c \in Contents, a \in Users \cup {None} :
                SendStart(t, u, g, c, a)
           \/ SendRead(t) \/ SendSave(t) \/ SendPublish(t)

Open(t) == \/ \E u \in Users, g \in Groups : OpenStart(t, u, g)
           \/ OpenPay(t) \/ OpenRecord(t)

Return(t) == Refund(t) \/ \E u \in Users, g \in Groups : ReturnStart(t, u, g)

Broadcast(t) == \/ \E f \in Festivals, c \in Contents : FestiveStart(t, f, c)
                \/ \E g \in Groups : FestiveClear(t, g) \/ AutoEnd(t, g)
                \/ FestiveExpire(t) \/ FestivePublish(t) \/ RemoveFestival(t)

Next == \/ \E t \in Tasks : Send(t) \/ Open(t) \/ Return(t) \/ Broadcast(t)
        \/ \E b \in DOMAIN bags : Age(b)

Spec == Init /\ [][Next]_vars

-----------------------------------------------------------------------------
\* Properties

\* Every variable has its type.  A balance is never negative, although commands
\* save balances they read an await earlier.
TypeOK ==
  /\ gold \in [Users -> Nat]
  /\ \A b \in DOMAIN bags : /\ bags[b].left \in Seq(Nat)
                            /\ bags[b].opened \subseteq Users
                            /\ bags[b].key \in Users \cup {FESTIVE}
  /\ \A g \in Groups : ToSet(data[g]) \subseteq 0..Len(bags)
  /\ festival \in [Festivals -> {"new", "running", "over"}]
  /\ marked \in [Festivals -> SUBSET Users]
  /\ jobs \in SUBSET Groups

\* Whatever several openers and the promoter take from a bag between them, in
\* whatever order they are suspended, it is the gold that was put in: no piece is
\* handed out twice, and none is both handed out and given back.
Pieces(taken) == [i \in DOMAIN taken |-> taken[i][2]]

PiecesAccounted ==
  \A b \in DOMAIN bags :
    bags[b].amount = Sum(Pieces(bags[b].taken))
                     + (IF bags[b].refund > 0 THEN bags[b].refund ELSE Sum(bags[b].left))

\* A user gets one piece of a broadcast at most, over all the groups and however
\* many open commands the user has under way.
Openings(f, u) ==
  {x \in UNION {{b} \X DOMAIN bags[b].taken : b \in DOMAIN bags} :
     bags[x[1]].uuid = f /\ bags[x[1]].taken[x[2]][1] = u}

FestiveOnce == \A f \in Festivals, u \in Users : Cardinality(Openings(f, u)) <= 1

\* "Atomic, so that concurrent read-modify-writes lose no gold" (add_gold): a
\* command that pays for a bag takes its amount from the balance as it then is.
\* It does not hold of add_red_bag, which saves a balance it read earlier.
NoGoldLost ==
  [][\A t \in Tasks :
       task[t].pc = "save" /\ task'[t].pc = "publish" =>
         gold'[task[t].user] = gold[task[t].user] - task[t].bag.amount]_vars

\* "The bag is opened up: settle it" (open): the openers only remove bags that
\* have nothing left.  It does not hold: they remove what the promoter has by
\* then, which may be a new bag.
OnlyOpenedUpSettled ==
  [][\A t \in Tasks, g \in Groups :
       task[t].pc = "paid" /\ task'[t] = Idle =>
         \A i \in DOMAIN data[g] :
           data[g][i] # 0 /\ data'[g][i] = 0 => bags[data[g][i]].left = <<>>]_vars
=============================================================================
