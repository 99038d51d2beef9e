---------------------------- MODULE RedBagProofs ----------------------------
(***************************************************************************)
(* Proofs about RedBag, for any users, groups and broadcasts, any number   *)
(* of handlers at once and any contents of the bags.                       *)
(*                                                                         *)
(* The inductive invariant adds to the properties the types of everything, *)
(* what each handler remembers, that a bag is in the dict of one group     *)
(* only and in none when it was given back, and that whoever has opened a  *)
(* bag of a broadcast is marked there.                                     *)
(***************************************************************************)
EXTENDS RedBag, FiniteSetTheorems, FunctionTheorems, SequenceTheorems, WellFoundedInduction, TLAPS

BagRecord == [key : Users \cup {FESTIVE}, uuid : Festivals \cup {None}, num : Nat,
              amount : Nat, left : Seq(Nat), assigner : Users \cup {None},
              opened : SUBSET Users, fresh : BOOLEAN, taken : Seq(Users \X Nat),
              refund : Nat]

\* A bag nobody has seen yet.
NewBags == {r \in BagRecord : r.taken = <<>> /\ r.refund = 0 /\ r.amount = Sum(r.left)}

\* What a handler remembers, by where it is, when there are n bags.
HandlerOK(k, n) ==
  /\ k.pc \in {"read", "publish"} =>
       k \in [pc : {"read", "publish"}, user : Users, group : Groups, bag : NewBags]
  /\ k.pc = "save" =>
       /\ k \in [pc : {"save"}, user : Users, group : Groups, bag : NewBags, balance : Nat]
       /\ k.bag.amount <= k.balance
  /\ k.pc \in {"pay", "paid"} =>
       k \in [pc : {"pay", "paid"}, user : Users, group : Groups, size : Nat, owed : Int,
              done : SUBSET (Users \cup {FESTIVE}), at : Nat, bag : 1..n, piece : Nat]
  /\ k.pc = "refund" => k \in [pc : {"refund"}, user : Users, amount : Nat]
  /\ k.pc \in {"clear", "give", "expire"} =>
       /\ k \in [pc : {"clear", "give", "expire"}, todo : SUBSET Groups,
                 group : Groups \cup {None}, bag : NewBags]
       /\ k.pc # "clear" => k.group \in Groups

Types == /\ bags \in Seq(BagRecord)
         /\ data \in [Groups -> Seq(0..Len(bags))]
         /\ DOMAIN task = Tasks

Handlers == \A t \in Tasks : HandlerOK(task[t], Len(bags))

\* A bag is in the dict of one group at most, and in none once it was given back.
Homes == \A g, h \in Groups : \A i \in DOMAIN data[g], j \in DOMAIN data[h] :
           data[g][i] = data[h][j] /\ data[g][i] # 0 => g = h

Returned == \A g \in Groups : \A i \in DOMAIN data[g] :
              data[g][i] # 0 => bags[data[g][i]].refund = 0

\* Whoever has opened a bag of a broadcast is marked, and has opened one of its bags
\* once.
Turns(bag) == DOMAIN bag.taken
Opener(bag, i) == bag.taken[i][1]

Openers == \A b \in DOMAIN bags : \A i \in Turns(bags[b]) :
             bags[b].uuid \in Festivals => Opener(bags[b], i) \in marked[bags[b].uuid]

\* The bags p and q, which are at b and c, have no opener twice.
Once(p, q, b, c) == \A i \in Turns(p), j \in Turns(q) :
                      p.uuid \in Festivals /\ p.uuid = q.uuid /\ Opener(p, i) = Opener(q, j)
                      => b = c /\ i = j

OnePiece == \A b, c \in DOMAIN bags : Once(bags[b], bags[c], b, c)

IInv == /\ TypeOK /\ Types /\ Handlers /\ Homes /\ Returned
        /\ PiecesAccounted /\ Openers /\ OnePiece
-----------------------------------------------------------------------------
\* Sums.  The function Sum is defined by exists because a least number without it
\* would have one.

\* A nonempty set of numbers has a least one.
LEMMA LeastNumber ==
  ASSUME NEW T \in SUBSET Nat, T # {}
  PROVE  \E n \in T : \A m \in T : n <= m
<1> DEFINE R == OpToRel(<, Nat)
<1>1. IsWellFoundedOn(R, Nat)
  BY NatLessThanWellFounded, Zenon
<1>2. \A x, y \in Nat : x < y => <<x, y>> \in R
  BY DEF OpToRel
<1> HIDE DEF R
<1>3. PICK n \in T : \A m \in T : ~(<<m, n>> \in R)
  BY <1>1, WFMin
<1>4. \A m \in T : ~(m < n)
  BY <1>2, <1>3
<1>5. \A m \in T : m \in Nat
  OBVIOUS
<1> QED BY <1>3, <1>4, <1>5

\* f has the sums of the first n pieces of s.
Totals(s, f, n) == f[0] = 0 /\ \A m \in 1..n : f[m] = f[m - 1] + s[m]

\* There are totals up to any place of a sequence of numbers.
LEMMA TotalsExist ==
  ASSUME NEW s \in Seq(Nat), NEW n \in 0..Len(s)
  PROVE  \E f : DOMAIN f = 0..n /\ Totals(s, f, n)
<1> DEFINE Has(m) == \E f : DOMAIN f = 0..m /\ Totals(s, f, m)
           T == {m \in 0..Len(s) : ~Has(m)}
<1>1. SUFFICES ASSUME T # {} PROVE FALSE
  OBVIOUS
<1>2. Len(s) \in Nat /\ T \in SUBSET Nat
  OBVIOUS
<1>3. PICK m \in T : \A k \in T : m <= k
  BY <1>1, <1>2, LeastNumber
<1>4. m \in 0..Len(s) /\ ~Has(m)
  BY <1>3
<1>5. CASE m = 0
  <2> DEFINE f == [k \in 0..0 |-> 0]
  <2>1. DOMAIN f = 0..0 /\ f[0] = 0
    OBVIOUS
  <2> HIDE DEF f
  <2>2. Totals(s, f, 0)
    BY <2>1 DEF Totals
  <2> QED BY <1>4, <1>5, <2>1, <2>2
<1>6. CASE m # 0
  <2>1. m - 1 \in 0..Len(s) /\ m - 1 \notin T /\ m \in Nat
    BY <1>2, <1>3, <1>4, <1>6
  <2>2. PICK f : DOMAIN f = 0..(m - 1) /\ Totals(s, f, m - 1)
    BY <2>1
  <2> DEFINE h == [k \in 0..m |-> IF k = m THEN f[m - 1] + s[m] ELSE f[k]]
  <2>3. /\ DOMAIN h = 0..m
        /\ h[m] = f[m - 1] + s[m]
        /\ \A k \in 0..(m - 1) : h[k] = f[k]
    BY <2>1
  <2> HIDE DEF h
  <2>4. h[0] = 0
    BY <1>6, <2>1, <2>2, <2>3 DEF Totals
  <2>5. \A k \in 1..m : h[k] = h[k - 1] + s[k]
    <3> SUFFICES ASSUME NEW k \in 1..m PROVE h[k] = h[k - 1] + s[k]
      OBVIOUS
    <3>1. CASE k = m
      BY <1>6, <2>1, <2>3, <3>1
    <3>2. CASE k # m
      <4>1. k \in 1..(m - 1) /\ k \in 0..(m - 1) /\ k - 1 \in 0..(m - 1)
        BY <2>1, <3>2
      <4> QED BY <2>2, <2>3, <4>1 DEF Totals
    <3> QED BY <3>1, <3>2
  <2> QED BY <1>4, <2>3, <2>4, <2>5 DEF Totals
<1> QED BY <1>5, <1>6

\* What a sum is: the last of the totals.
LEMMA SumTotals ==
  ASSUME NEW s \in Seq(Nat)
  PROVE  \E f : Totals(s, f, Len(s)) /\ Sum(s) = f[Len(s)]
<1> DEFINE Step(f) == [n \in 0..Len(s) |-> IF n = 0 THEN 0 ELSE f[n - 1] + s[n]]
           total == CHOOSE f : f = Step(f)
<1>1. Len(s) \in Nat /\ Len(s) \in 0..Len(s)
  OBVIOUS
<1>2. PICK f : DOMAIN f = 0..Len(s) /\ Totals(s, f, Len(s))
  BY <1>1, TotalsExist
<1> DEFINE h == [n \in 0..Len(s) |-> f[n]]
<1>3. h = Step(h)
  <2>1. \A n \in 0..Len(s) : f[n] = IF n = 0 THEN 0 ELSE h[n - 1] + s[n]
    <3> SUFFICES ASSUME NEW n \in 0..Len(s)
                 PROVE  f[n] = IF n = 0 THEN 0 ELSE h[n - 1] + s[n]
      OBVIOUS
    <3>1. CASE n = 0
      BY <1>2, <3>1 DEF Totals
    <3>2. CASE n # 0
      <4>1. n \in 1..Len(s) /\ n - 1 \in 0..Len(s)
        BY <1>1, <3>2
      <4> QED BY <1>2, <3>2, <4>1 DEF Totals
    <3> QED BY <3>1, <3>2
  <2> QED BY <2>1, Zenon
<1>4. total = Step(total)
  BY <1>3, Zenon
<1>5. Sum(s) = total[Len(s)]
  BY DEF Sum
<1> HIDE DEF total
<1>6. Totals(s, total, Len(s))
  <2>1. \A n \in 0..Len(s) : total[n] = IF n = 0 THEN 0 ELSE total[n - 1] + s[n]
    BY <1>4, Zenon
  <2>2. \A n \in 1..Len(s) : n \in 0..Len(s) /\ n # 0
    BY <1>1
  <2>3. 0 \in 0..Len(s)
    BY <1>1
  <2> QED BY <2>1, <2>2, <2>3 DEF Totals
<1> QED BY <1>5, <1>6

\* Totals are numbers, and there is one function of them.
LEMMA TotalsUnique ==
  ASSUME NEW s \in Seq(Nat), NEW f, NEW h, NEW n \in 0..Len(s),
         Totals(s, f, n), Totals(s, h, n)
  PROVE  f[n] = h[n] /\ f[n] \in Nat
<1> DEFINE T == {m \in 0..n : ~(f[m] = h[m] /\ f[m] \in Nat)}
<1>1. SUFFICES ASSUME T # {} PROVE FALSE
  OBVIOUS
<1>2. Len(s) \in Nat /\ n \in Nat /\ T \in SUBSET Nat
  OBVIOUS
<1>3. PICK m \in T : \A k \in T : m <= k
  BY <1>1, <1>2, LeastNumber
<1>4. m \in 0..n /\ ~(f[m] = h[m] /\ f[m] \in Nat)
  BY <1>3
<1>5. m # 0
  BY <1>4 DEF Totals
<1>6. m \in 1..n /\ m - 1 \in 0..n /\ m - 1 \notin T /\ s[m] \in Nat
  BY <1>2, <1>3, <1>4, <1>5
<1>7. f[m - 1] = h[m - 1] /\ f[m - 1] \in Nat
  BY <1>6
<1>8. f[m] = f[m - 1] + s[m] /\ h[m] = h[m - 1] + s[m]
  BY <1>6 DEF Totals
<1> QED BY <1>4, <1>6, <1>7, <1>8

\* The sum of numbers is a number.
LEMMA SumType ==
  ASSUME NEW s \in Seq(Nat)
  PROVE  Sum(s) \in Nat
<1>1. PICK f : Totals(s, f, Len(s)) /\ Sum(s) = f[Len(s)]
  BY SumTotals
<1>2. Len(s) \in 0..Len(s)
  OBVIOUS
<1> QED BY <1>1, <1>2, TotalsUnique

\* There is nothing in an empty bag.
LEMMA SumEmpty == Sum(<<>>) = 0
<1>1. <<>> \in Seq(Nat) /\ Len(<<>>) = 0
  OBVIOUS
<1>2. PICK f : Totals(<<>>, f, Len(<<>>)) /\ Sum(<<>>) = f[Len(<<>>)]
  BY <1>1, SumTotals
<1> QED BY <1>1, <1>2 DEF Totals

\* A piece at the end counts once.
LEMMA SumAppend ==
  ASSUME NEW s \in Seq(Nat), NEW e \in Nat, NEW t \in Seq(Nat), Len(t) = Len(s) + 1,
         \A i \in 1..Len(s) : t[i] = s[i], t[Len(t)] = e
  PROVE  Sum(t) = Sum(s) + e
<1>1. Len(s) \in Nat /\ Len(s) \in 0..Len(s) /\ Len(s) \in 0..Len(t) /\ Len(t) \in 1..Len(t)
  OBVIOUS
<1>2. PICK f : Totals(t, f, Len(t)) /\ Sum(t) = f[Len(t)]
  BY SumTotals
<1>3. PICK h : Totals(s, h, Len(s)) /\ Sum(s) = h[Len(s)]
  BY SumTotals
<1>4. \A m \in 1..Len(s) : m \in 1..Len(t)
  BY <1>1
<1>5. Totals(s, f, Len(s))
  BY <1>2, <1>4 DEF Totals
<1>6. f[Len(s)] = h[Len(s)]
  BY <1>1, <1>3, <1>5, TotalsUnique
<1>7. f[Len(t)] = f[Len(t) - 1] + t[Len(t)]
  BY <1>1, <1>2 DEF Totals
<1>8. Len(t) - 1 = Len(s)
  BY <1>1
<1> QED BY <1>2, <1>3, <1>6, <1>7, <1>8

-----------------------------------------------------------------------------
\* Lemmas on bags and dicts

\* Front and Last take a sequence apart.
LEMMA FrontLast ==
  ASSUME NEW S, NEW s \in Seq(S), s # <<>>
  PROVE  /\ Front(s) \in Seq(S) /\ Len(s) = Len(Front(s)) + 1
         /\ \A i \in 1..Len(Front(s)) : s[i] = Front(s)[i]
         /\ Last(s) = s[Len(s)] /\ Last(s) \in S
<1>1. Len(s) \in Nat /\ Len(s) > 0 /\ Len(s) \in 1..Len(s)
  OBVIOUS
<1>2. \A i \in 1..(Len(s) - 1) : s[i] \in S
  BY <1>1
<1>3. /\ SubSeq(s, 1, Len(s) - 1) \in Seq(S)
      /\ Len(SubSeq(s, 1, Len(s) - 1)) = Len(s) - 1
      /\ \A i \in 1..(Len(s) - 1) : SubSeq(s, 1, Len(s) - 1)[i] = s[i]
  <2> DEFINE k == Len(s) - 1
             u == SubSeq(s, 1, k)
  <2>1. k \in Int /\ 1 \in Int /\ \A i \in 1..k : s[i] \in S
    BY <1>1, <1>2
  <2>2. /\ u \in Seq(S) /\ Len(u) = IF 1 <= k THEN k - 1 + 1 ELSE 0
        /\ \A i \in 1..(k - 1 + 1) : u[i] = s[1 + i - 1]
    BY <2>1, SubSeqProperties
  <2> HIDE DEF u
  <2>3. u \in Seq(S) /\ Len(u) = k /\ \A i \in 1..k : u[i] = s[i]
    <3>1. k \in Nat /\ k - 1 + 1 = k
      BY <1>1
    <3> HIDE DEF k
    <3>2. Len(u) = k
      <4>1. Len(u) = IF 1 <= k THEN k ELSE 0
        BY <2>2, <3>1, Zenon
      <4> QED BY <3>1, <4>1
    <3>3. \A i \in 1..k : 1 + i - 1 = i
      BY <3>1
    <3> QED BY <2>2, <3>1, <3>2, <3>3, Zenon
  <2> QED BY <2>3 DEF u
<1> QED BY <1>1, <1>3 DEF Front, Last

\* The gold of each turn.
LEMMA PiecesType ==
  ASSUME NEW q \in Seq(Users \X Nat)
  PROVE  /\ Pieces(q) \in Seq(Nat) /\ Len(Pieces(q)) = Len(q)
         /\ \A i \in 1..Len(q) : Pieces(q)[i] = q[i][2]
<1>1. DOMAIN q = 1..Len(q) /\ Len(q) \in Nat /\ \A i \in 1..Len(q) : q[i][2] \in Nat
  OBVIOUS
<1>2. Pieces(q) = [i \in 1..Len(q) |-> q[i][2]]
  BY <1>1 DEF Pieces
<1> HIDE DEF Pieces
<1> QED BY <1>1, <1>2

\* Who takes the last piece of a bag moves it from what is left to what was given.
LEMMA PieceMoves ==
  ASSUME NEW left \in Seq(Nat), left # <<>>, NEW q \in Seq(Users \X Nat), NEW u \in Users
  PROVE  /\ Append(q, <<u, Last(left)>>) \in Seq(Users \X Nat)
         /\ Sum(Pieces(Append(q, <<u, Last(left)>>))) + Sum(Front(left))
              = Sum(Pieces(q)) + Sum(left)
         /\ Sum(Pieces(q)) \in Nat /\ Sum(left) \in Nat /\ Sum(Front(left)) \in Nat
         /\ Sum(Pieces(Append(q, <<u, Last(left)>>))) \in Nat
<1> DEFINE e == Last(left)
           r == Append(q, <<u, e>>)
<1>1. /\ Front(left) \in Seq(Nat) /\ Len(left) = Len(Front(left)) + 1
      /\ \A i \in 1..Len(Front(left)) : left[i] = Front(left)[i]
      /\ e = left[Len(left)] /\ e \in Nat
  BY FrontLast
<1> HIDE DEF e
<1>2. Sum(left) = Sum(Front(left)) + e
  BY <1>1, SumAppend
<1>3. /\ r \in Seq(Users \X Nat) /\ Len(r) = Len(q) + 1 /\ r[Len(q) + 1] = <<u, e>>
      /\ \A i \in 1..Len(q) : r[i] = q[i]
      /\ Len(q) \in Nat
  BY <1>1
<1> HIDE DEF r
<1>4. /\ Pieces(q) \in Seq(Nat) /\ Len(Pieces(q)) = Len(q)
      /\ \A i \in 1..Len(q) : Pieces(q)[i] = q[i][2]
  BY PiecesType
<1>5. /\ Pieces(r) \in Seq(Nat) /\ Len(Pieces(r)) = Len(q) + 1
      /\ \A i \in 1..(Len(q) + 1) : Pieces(r)[i] = r[i][2]
  BY <1>3, PiecesType
<1>6. \A i \in 1..Len(Pieces(q)) : Pieces(r)[i] = Pieces(q)[i]
  <2> SUFFICES ASSUME NEW i \in 1..Len(q) PROVE Pieces(r)[i] = Pieces(q)[i]
    BY <1>4
  <2>1. i \in 1..(Len(q) + 1)
    BY <1>3
  <2>2. Pieces(r)[i] = r[i][2] /\ Pieces(q)[i] = q[i][2] /\ r[i] = q[i]
    BY <1>3, <1>4, <1>5, <2>1, Zenon
  <2> QED BY <2>2, Zenon
<1>7. Pieces(r)[Len(Pieces(r))] = e
  BY <1>3, <1>5
<1>8. Sum(Pieces(r)) = Sum(Pieces(q)) + e
  <2>1. Len(Pieces(r)) = Len(Pieces(q)) + 1
    BY <1>4, <1>5
  <2> QED BY <1>1, <1>4, <1>5, <1>6, <1>7, <2>1, SumAppend, Zenon
<1>9. /\ Sum(Pieces(q)) \in Nat /\ Sum(left) \in Nat /\ Sum(Front(left)) \in Nat
      /\ Sum(Pieces(r)) \in Nat
  BY <1>1, <1>4, <1>5, SumType
<1> QED BY <1>1, <1>2, <1>3, <1>8, <1>9 DEF r, e

\* An entry that is found is a bag under the key.
LEMMA EntryIs ==
  ASSUME NEW g, NEW key, Entry(g, key) # 0
  PROVE  /\ Entry(g, key) \in DOMAIN data[g] /\ data[g][Entry(g, key)] # 0
         /\ BagAt(g, key) = data[g][Entry(g, key)]
         /\ bags[BagAt(g, key)].key = key
<1> DEFINE at == {i \in DOMAIN data[g] : data[g][i] # 0 /\ bags[data[g][i]].key = key}
<1>1. Entry(g, key) = IF at = {} THEN 0 ELSE CHOOSE i \in at : TRUE
  BY DEF Entry
<1> HIDE DEF at
<1>2. Entry(g, key) \in at
  BY <1>1
<1>3. BagAt(g, key) = data[g][Entry(g, key)]
  BY Zenon DEF BagAt
<1> QED BY <1>2, <1>3 DEF at

\* A bag that is found is in an entry.
LEMMA BagAtIs ==
  ASSUME NEW g, NEW key, BagAt(g, key) # 0
  PROVE  Entry(g, key) # 0
BY DEF BagAt

\* What Without and With leave of a dict, when there are n bags.
LEMMA WithoutIs ==
  ASSUME NEW n \in Nat, NEW g, data[g] \in Seq(0..n), NEW keys
  PROVE  /\ Without(g, keys) \in Seq(0..n)
         /\ DOMAIN Without(g, keys) = DOMAIN data[g]
         /\ \A i \in DOMAIN data[g] :
              Without(g, keys)[i] # 0 => /\ Without(g, keys)[i] = data[g][i]
                                         /\ bags[data[g][i]].key \notin keys
<1> DEFINE w == Without(g, keys)
<1>1. /\ DOMAIN w = DOMAIN data[g]
      /\ \A i \in DOMAIN data[g] :
           w[i] = IF data[g][i] # 0 /\ bags[data[g][i]].key \in keys THEN 0 ELSE data[g][i]
      /\ w = [i \in DOMAIN data[g] |-> w[i]]
  BY DEF Without
<1> HIDE DEF w
<1> DEFINE S == 0..n
<1>2. data[g] \in Seq(S) /\ 0 \in S
  OBVIOUS
<1> HIDE DEF S
<1>3. DOMAIN data[g] = 1..Len(data[g]) /\ Len(data[g]) \in Nat
      /\ \A i \in 1..Len(data[g]) : data[g][i] \in S
  BY <1>2
<1>4. \A i \in 1..Len(data[g]) : w[i] \in S
  BY <1>1, <1>2, <1>3, Zenon
<1>5. w \in [1..Len(data[g]) -> S]
  BY <1>1, <1>3, <1>4, Zenon
<1>6. w \in Seq(S)
  <2> DEFINE m == Len(data[g])
  <2>1. m \in Nat /\ w \in [1..m -> S]
    BY <1>3, <1>5
  <2> HIDE DEF m
  <2> QED BY <2>1, SeqDef
<1>7. \A i \in DOMAIN data[g] :
        w[i] # 0 => w[i] = data[g][i] /\ bags[data[g][i]].key \notin keys
  BY <1>1, Zenon
<1> QED BY <1>1, <1>6, <1>7 DEF w, S

LEMMA WithIs ==
  ASSUME NEW n \in Nat, NEW g, data[g] \in Seq(0..n), NEW key
  PROVE  /\ With(g, key, n + 1) \in Seq(0..(n + 1))
         /\ \A i \in DOMAIN With(g, key, n + 1) :
              \/ With(g, key, n + 1)[i] = n + 1
              \/ i \in DOMAIN data[g] /\ With(g, key, n + 1)[i] = data[g][i]
<1> DEFINE S == 0..(n + 1)
           d == data[g]
           w == With(g, key, n + 1)
<1>1. d \in Seq(S) /\ n + 1 \in S
  <2>1. 0..n \subseteq S /\ n + 1 \in S
    OBVIOUS
  <2> HIDE DEF S
  <2>2. Seq(0..n) \subseteq Seq(S)
    BY <2>1
  <2> QED BY <2>1, <2>2
<1> HIDE DEF S, d
<1>2. DOMAIN d = 1..Len(d) /\ Len(d) \in Nat
  BY <1>1
<1>3. CASE Entry(g, key) = 0
  <2>1. w = Append(d, n + 1)
    BY <1>3, Zenon DEF With, d
  <2> HIDE DEF w
  <2>2. /\ w \in Seq(S) /\ DOMAIN w = 1..(Len(d) + 1) /\ w[Len(d) + 1] = n + 1
        /\ \A i \in 1..Len(d) : w[i] = d[i]
    BY <1>1, <2>1
  <2>3. ASSUME NEW i \in DOMAIN w PROVE w[i] = n + 1 \/ (i \in DOMAIN d /\ w[i] = d[i])
    <3>1. CASE i = Len(d) + 1
      BY <2>2, <3>1
    <3>2. CASE i # Len(d) + 1
      <4>1. i \in 1..Len(d)
        BY <1>2, <2>2, <3>2
      <4> QED BY <1>2, <2>2, <4>1, Zenon
    <3> QED BY <3>1, <3>2
  <2> QED BY <2>2, <2>3, Zenon DEF w, d, S
<1>4. CASE Entry(g, key) # 0
  <2>1. w = [d EXCEPT ![Entry(g, key)] = n + 1]
    BY <1>4, Zenon DEF With, d
  <2>2. Entry(g, key) \in DOMAIN d
    BY <1>4, EntryIs, Zenon DEF d
  <2> HIDE DEF w
  <2>3. /\ DOMAIN w = DOMAIN d
        /\ \A i \in DOMAIN d : w[i] = n + 1 \/ w[i] = d[i]
    BY <2>1, <2>2, Zenon
  <2>4. w \in Seq(S)
    BY <1>1, <2>1, <2>2
  <2> QED BY <2>3, <2>4 DEF w, d, S
<1> QED BY <1>3, <1>4
-----------------------------------------------------------------------------
\* Lemmas on the steps: what is to be shown of a step for each part of the invariant

Rest == /\ gold \in [Users -> Nat]
        /\ festival \in [Festivals -> {"new", "running", "over"}]
        /\ marked \in [Festivals -> SUBSET Users]
        /\ jobs \in SUBSET Groups

\* The bags of C are those of B but for their openers, their age and their promoters.
Same(B, C) == /\ Len(C) = Len(B)
              /\ \A b \in 1..Len(B) :
                   /\ C[b].uuid = B[b].uuid /\ C[b].amount = B[b].amount
                   /\ C[b].left = B[b].left /\ C[b].taken = B[b].taken
                   /\ C[b].refund = B[b].refund

\* The dicts E have no bags that D does not have, but bag n in the dict of g.
Fewer(D, E) == \A h \in Groups : \A i \in DOMAIN E[h] :
                 E[h][i] # 0 => \E j \in DOMAIN D[h] : D[h][j] = E[h][i]

OneMore(D, E, g, n) == \A h \in Groups : \A i \in DOMAIN E[h] :
                         \/ E[h][i] = 0
                         \/ \E j \in DOMAIN D[h] : D[h][j] = E[h][i]
                         \/ h = g /\ E[h][i] = n

\* The invariant's types are those of TypeOK, given the rest of it.
LEMMA TypesGive ==
  ASSUME Types, Rest
  PROVE  TypeOK
<1>1. \A b \in DOMAIN bags : bags[b] \in BagRecord
  BY DEF Types
<1>2. \A b \in DOMAIN bags : /\ bags[b].left \in Seq(Nat)
                             /\ bags[b].opened \subseteq Users
                             /\ bags[b].key \in Users \cup {FESTIVE}
  BY <1>1 DEF BagRecord
<1>3. \A g \in Groups : ToSet(data[g]) \subseteq 0..Len(bags)
  <2> SUFFICES ASSUME NEW g \in Groups PROVE ToSet(data[g]) \subseteq 0..Len(bags)
    OBVIOUS
  <2> DEFINE S == 0..Len(bags)
  <2>1. data[g] \in Seq(S)
    BY DEF Types
  <2> HIDE DEF S
  <2>2. ToSet(data[g]) \subseteq S
    BY <2>1 DEF ToSet
  <2> QED BY <2>2 DEF S
<1> QED BY <1>2, <1>3, Zenon DEF TypeOK, Rest

\* What a handler remembers stays right when there are more bags.
LEMMA HandlerGrows ==
  ASSUME NEW n \in Nat, NEW m \in Nat, n <= m, NEW k, HandlerOK(k, n)
  PROVE  HandlerOK(k, m)
<1>1. 1..n \subseteq 1..m
  OBVIOUS
<1>2. ASSUME k \in [pc : {"pay", "paid"}, user : Users, group : Groups, size : Nat,
                    owed : Int, done : SUBSET (Users \cup {FESTIVE}), at : Nat,
                    bag : 1..n, piece : Nat]
      PROVE  k \in [pc : {"pay", "paid"}, user : Users, group : Groups, size : Nat,
                    owed : Int, done : SUBSET (Users \cup {FESTIVE}), at : Nat,
                    bag : 1..m, piece : Nat]
  BY <1>1, <1>2
<1> QED BY <1>2, Zenon DEF HandlerOK

\* A handler that is over remembers nothing.
LEMMA IdleOK == ASSUME NEW n PROVE HandlerOK(Idle, n)
BY DEF HandlerOK, Idle

\* One handler moves; ...
LEMMA HandlersStep ==
  ASSUME Types, Handlers, NEW t \in Tasks, NEW k, task' = [task EXCEPT ![t] = k],
         Len(bags) \in Nat, Len(bags') \in Nat, Len(bags) <= Len(bags'),
         HandlerOK(k, Len(bags'))
  PROVE  Handlers' /\ DOMAIN task' = Tasks
<1>1. DOMAIN task' = Tasks /\ \A s \in Tasks : task'[s] = IF s = t THEN k ELSE task[s]
  BY DEF Types
<1>2. ASSUME NEW s \in Tasks PROVE HandlerOK(task'[s], Len(bags'))
  <2>1. CASE s = t
    BY <1>1, <2>1
  <2>2. CASE s # t
    <3>1. HandlerOK(task[s], Len(bags'))
      BY HandlerGrows DEF Handlers
    <3> QED BY <1>1, <2>2, <3>1
  <2> QED BY <2>1, <2>2
<1> QED BY <1>1, <1>2 DEF Handlers

\* ... it ends; ...
LEMMA HandlersEnd ==
  ASSUME Types, Handlers, NEW t \in Tasks, task' = Ended(t),
         Len(bags) \in Nat, Len(bags') \in Nat, Len(bags) <= Len(bags')
  PROVE  Handlers' /\ DOMAIN task' = Tasks
BY IdleOK, HandlersStep DEF Ended

\* ... or none does.
LEMMA HandlersKept ==
  ASSUME Types, Handlers, task' = task,
         Len(bags) \in Nat, Len(bags') \in Nat, Len(bags) <= Len(bags')
  PROVE  Handlers' /\ DOMAIN task' = Tasks
<1>1. \A s \in Tasks : HandlerOK(task[s], Len(bags'))
  BY HandlerGrows DEF Handlers
<1> QED BY <1>1 DEF Handlers, Types

\* Dicts that lose bags.
LEMMA FewerHomes ==
  ASSUME Types, Homes, Returned, Fewer(data, data'),
         \A b \in 1..Len(bags) : bags[b].refund = 0 => bags'[b].refund = 0
  PROVE  Homes' /\ Returned'
<1>1. ASSUME NEW g \in Groups, NEW j \in DOMAIN data[g], data[g][j] # 0
      PROVE  data[g][j] \in 1..Len(bags)
  <2>1. data[g][j] \in 0..Len(bags) /\ Len(bags) \in Nat
    BY DEF Types
  <2> QED BY <1>1, <2>1
<1>2. ASSUME NEW g \in Groups, NEW h \in Groups, NEW i \in DOMAIN data'[g],
             NEW j \in DOMAIN data'[h], data'[g][i] = data'[h][j], data'[g][i] # 0
      PROVE  g = h
  <2>1. PICK a \in DOMAIN data[g] : data[g][a] = data'[g][i]
    BY <1>2, Zenon DEF Fewer
  <2>2. PICK b \in DOMAIN data[h] : data[h][b] = data'[h][j]
    BY <1>2, Zenon DEF Fewer
  <2> QED BY <1>2, <2>1, <2>2, Zenon DEF Homes
<1>3. ASSUME NEW g \in Groups, NEW i \in DOMAIN data'[g], data'[g][i] # 0
      PROVE  bags'[data'[g][i]].refund = 0
  <2>1. PICK a \in DOMAIN data[g] : data[g][a] = data'[g][i]
    BY <1>3, Zenon DEF Fewer
  <2>2. bags[data[g][a]].refund = 0
    BY <1>3, <2>1, Zenon DEF Returned
  <2> QED BY <1>1, <1>3, <2>1, <2>2, Zenon
<1> QED BY <1>2, <1>3, Zenon DEF Homes, Returned

\* Nothing is taken, given back or put up.
LEMMA KeptProperties ==
  ASSUME Types, Types', Same(bags, bags'), PiecesAccounted, Openers, OnePiece,
         \A f \in Festivals : marked[f] \subseteq marked'[f]
  PROVE  PiecesAccounted' /\ Openers' /\ OnePiece'
<1>1. DOMAIN bags = 1..Len(bags) /\ DOMAIN bags' = DOMAIN bags
  BY DEF Types, Same
<1>2. \A b \in DOMAIN bags :
        /\ bags'[b].uuid = bags[b].uuid /\ bags'[b].amount = bags[b].amount
        /\ bags'[b].left = bags[b].left /\ bags'[b].taken = bags[b].taken
        /\ bags'[b].refund = bags[b].refund
  BY <1>1, Zenon DEF Same
<1>3. PiecesAccounted'
  BY <1>1, <1>2 DEF PiecesAccounted
<1>4. \A b \in DOMAIN bags :
        /\ Turns(bags'[b]) = Turns(bags[b])
        /\ \A i : Opener(bags'[b], i) = Opener(bags[b], i)
  BY <1>2 DEF Turns, Opener
<1>5. Openers'
  BY <1>1, <1>2, <1>4 DEF Openers
<1>6. OnePiece'
  <2>1. ASSUME NEW b \in DOMAIN bags, NEW c \in DOMAIN bags
        PROVE  Once(bags'[b], bags'[c], b, c)
    <3>1. Once(bags[b], bags[c], b, c)
      BY DEF OnePiece
    <3> QED BY <1>2, <1>4, <3>1, Zenon DEF Once
  <2> QED BY <1>1, <2>1 DEF OnePiece
<1> QED BY <1>3, <1>5, <1>6

\* So the whole invariant is kept, when the dicts lose bags at most.
LEMMA Kept ==
  ASSUME IInv, Same(bags, bags'), bags' \in Seq(BagRecord), Fewer(data, data'),
         data' \in [Groups -> Seq(0..Len(bags))],
         Handlers', DOMAIN task' = Tasks, Rest',
         \A f \in Festivals : marked[f] \subseteq marked'[f]
  PROVE  IInv'
<1>1. Types' /\ Types /\ Homes /\ Returned /\ PiecesAccounted /\ Openers /\ OnePiece
  BY Zenon DEF IInv, Types, Same
<1>2. Homes' /\ Returned'
  BY <1>1, FewerHomes DEF Same
<1>3. PiecesAccounted' /\ Openers' /\ OnePiece'
  BY <1>1, KeptProperties
<1>4. TypeOK'
  BY <1>1, TypesGive, PTL
<1> QED BY <1>1, <1>2, <1>3, <1>4, Zenon DEF IInv
\* A bag is put up in the dict of g.
LEMMA PutUp ==
  ASSUME IInv, NEW r \in NewBags, bags' = Append(bags, r), NEW g \in Groups,
         OneMore(data, data', g, Len(bags) + 1),
         data' \in [Groups -> Seq(0..(Len(bags) + 1))],
         Handlers', DOMAIN task' = Tasks, Rest', marked' = marked
  PROVE  IInv'
<1> DEFINE n == Len(bags)
<1>1. Types /\ Homes /\ Returned /\ PiecesAccounted /\ Openers /\ OnePiece
  BY Zenon DEF IInv
<1>2. /\ r \in BagRecord /\ r.taken = <<>> /\ r.refund = 0 /\ r.amount = Sum(r.left)
      /\ r.left \in Seq(Nat)
  BY DEF NewBags, BagRecord
<1>3. /\ bags' \in Seq(BagRecord) /\ Len(bags') = n + 1 /\ n \in Nat
      /\ bags'[n + 1] = r /\ \A b \in 1..n : bags'[b] = bags[b]
      /\ DOMAIN bags = 1..n /\ DOMAIN bags' = 1..(n + 1)
  BY <1>1, <1>2 DEF Types
<1>4. Types'
  BY <1>3, Zenon DEF Types
<1> HIDE DEF n
<1>5. ASSUME NEW h \in Groups, NEW j \in DOMAIN data[h], data[h][j] # 0
      PROVE  data[h][j] \in 1..n /\ data[h][j] # n + 1
  <2>1. data[h][j] \in 0..n
    BY <1>1 DEF Types, n
  <2> QED BY <1>3, <1>5, <2>1
<1>6. Homes'
  <2> SUFFICES ASSUME NEW h \in Groups, NEW k \in Groups, NEW i \in DOMAIN data'[h],
                      NEW j \in DOMAIN data'[k], data'[h][i] = data'[k][j], data'[h][i] # 0
               PROVE  h = k
    BY Zenon DEF Homes
  <2>1. \/ \E a \in DOMAIN data[h] : data[h][a] = data'[h][i]
        \/ h = g /\ data'[h][i] = n + 1
    BY Zenon DEF OneMore, n
  <2>2. \/ \E a \in DOMAIN data[k] : data[k][a] = data'[k][j]
        \/ k = g /\ data'[k][j] = n + 1
    BY Zenon DEF OneMore, n
  <2>3. CASE (\E a \in DOMAIN data[h] : data[h][a] = data'[h][i])
             /\ (\E a \in DOMAIN data[k] : data[k][a] = data'[k][j])
    BY <1>1, <2>3, Zenon DEF Homes
  <2>4. ASSUME h = g, data'[h][i] = n + 1 PROVE k = g
    <3>1. ASSUME NEW a \in DOMAIN data[k], data[k][a] = data'[k][j] PROVE FALSE
      BY <1>5, <2>4, <3>1
    <3> QED BY <2>2, <3>1, Zenon
  <2>5. ASSUME k = g, data'[k][j] = n + 1 PROVE h = g
    <3>1. ASSUME NEW a \in DOMAIN data[h], data[h][a] = data'[h][i] PROVE FALSE
      BY <1>5, <2>5, <3>1
    <3> QED BY <2>1, <3>1, Zenon
  <2> QED BY <2>1, <2>2, <2>3, <2>4, <2>5, Zenon
<1>7. Returned'
  <2> SUFFICES ASSUME NEW h \in Groups, NEW i \in DOMAIN data'[h], data'[h][i] # 0
               PROVE  bags'[data'[h][i]].refund = 0
    BY Zenon DEF Returned
  <2>1. CASE data'[h][i] = n + 1
    BY <1>2, <1>3, <2>1
  <2>2. CASE data'[h][i] # n + 1
    <3>1. PICK a \in DOMAIN data[h] : data[h][a] = data'[h][i]
      BY <2>2, Zenon DEF OneMore, n
    <3>2. data[h][a] \in 1..n /\ bags[data[h][a]].refund = 0
      BY <1>1, <1>5, <3>1, Zenon DEF Returned
    <3> QED BY <1>3, <3>1, <3>2, Zenon
  <2> QED BY <2>1, <2>2
<1>8. PiecesAccounted'
  <2>1. Sum(Pieces(<<>>)) = 0
    <3>1. Pieces(<<>>) \in Seq(Nat) /\ Len(Pieces(<<>>)) = 0
      <4>1. <<>> \in Seq(Users \X Nat) /\ Len(<<>>) = 0
        OBVIOUS
      <4> QED BY <4>1, PiecesType
    <3>2. Pieces(<<>>) = <<>>
      BY <3>1
    <3> QED BY <3>2, SumEmpty
  <2>2. r.amount = Sum(Pieces(r.taken)) + (IF r.refund > 0 THEN r.refund ELSE Sum(r.left))
    <3>1. Sum(r.left) \in Nat
      BY <1>2, SumType
    <3> QED BY <1>2, <2>1, <3>1
  <2>3. ASSUME NEW b \in 1..(n + 1)
        PROVE  bags'[b].amount = Sum(Pieces(bags'[b].taken))
                 + (IF bags'[b].refund > 0 THEN bags'[b].refund ELSE Sum(bags'[b].left))
    <3>1. CASE b = n + 1
      BY <1>3, <2>2, <3>1
    <3>2. CASE b # n + 1
      <4>1. b \in 1..n
        BY <1>3, <3>2
      <4>2. bags'[b] = bags[b]
        BY <1>3, <4>1
      <4> QED BY <1>1, <1>3, <4>1, <4>2 DEF PiecesAccounted
    <3> QED BY <3>1, <3>2
  <2> QED BY <1>3, <2>3, Zenon DEF PiecesAccounted
<1>9. \A b \in 1..(n + 1) : \A i \in Turns(bags'[b]) :
        b \in 1..n /\ bags'[b] = bags[b]
  <2> SUFFICES ASSUME NEW b \in 1..(n + 1), NEW i \in Turns(bags'[b])
               PROVE  b \in 1..n /\ bags'[b] = bags[b]
    OBVIOUS
  <2>1. b # n + 1
    BY <1>2, <1>3 DEF Turns
  <2>2. b \in 1..n
    BY <1>3, <2>1
  <2> QED BY <1>3, <2>2
<1>10. Openers'
  BY <1>1, <1>3, <1>9, Zenon DEF Openers
<1>11. OnePiece'
  <2> SUFFICES ASSUME NEW b \in 1..(n + 1), NEW c \in 1..(n + 1)
               PROVE  Once(bags'[b], bags'[c], b, c)
    BY <1>3, Zenon DEF OnePiece
  <2>1. CASE Turns(bags'[b]) = {} \/ Turns(bags'[c]) = {}
    BY <2>1, Zenon DEF Once
  <2>2. CASE Turns(bags'[b]) # {} /\ Turns(bags'[c]) # {}
    <3>1. b \in 1..n /\ bags'[b] = bags[b] /\ c \in 1..n /\ bags'[c] = bags[c]
      BY <1>9, <2>2, Zenon
    <3>2. Once(bags[b], bags[c], b, c)
      BY <1>1, <1>3, <3>1, Zenon DEF OnePiece
    <3> QED BY <3>1, <3>2, Zenon
  <2> QED BY <2>1, <2>2, Zenon
<1>12. TypeOK'
  BY <1>4, TypesGive, PTL
<1> QED BY <1>4, <1>6, <1>7, <1>8, <1>10, <1>11, <1>12, Zenon DEF IInv

\* The bags C are B after a user's turn with bag b.
TakeFrom(B, b, u, C) == C = [B EXCEPT ![b].left  = Front(@),
                                      ![b].taken = Append(@, <<u, Last(B[b].left)>>)]

\* A turn takes a piece off one bag and leaves the others alone.
LEMMA TakeFromIs ==
  ASSUME NEW B \in Seq(BagRecord), NEW b \in 1..Len(B), NEW u \in Users, B[b].left # <<>>,
         NEW C, TakeFrom(B, b, u, C)
  PROVE  /\ C \in Seq(BagRecord) /\ Len(C) = Len(B)
         /\ \A c \in 1..Len(B) : /\ C[c].uuid = B[c].uuid /\ C[c].amount = B[c].amount
                                 /\ C[c].refund = B[c].refund
                                 /\ c # b => C[c] = B[c]
         /\ C[b].left = Front(B[b].left)
         /\ C[b].taken = Append(B[b].taken, <<u, Last(B[b].left)>>)
<1> DEFINE r == B[b]
           q == [r EXCEPT !.left = Front(@), !.taken = Append(@, <<u, Last(r.left)>>)]
<1>1. r \in BagRecord /\ DOMAIN B = 1..Len(B) /\ Len(B) \in Nat
  OBVIOUS
<1>2. C = [B EXCEPT ![b] = q]
  BY <1>1 DEF TakeFrom
<1>3. r.left \in Seq(Nat) /\ r.taken \in Seq(Users \X Nat)
  BY <1>1 DEF BagRecord
<1>4. Front(r.left) \in Seq(Nat) /\ Append(r.taken, <<u, Last(r.left)>>) \in Seq(Users \X Nat)
  BY <1>3, FrontLast, PieceMoves
<1>5. /\ q \in BagRecord /\ q.uuid = r.uuid /\ q.amount = r.amount /\ q.refund = r.refund
      /\ q.left = Front(r.left) /\ q.taken = Append(r.taken, <<u, Last(r.left)>>)
  BY <1>1, <1>4 DEF BagRecord
<1> HIDE DEF q
<1>6. C \in Seq(BagRecord) /\ Len(C) = Len(B) /\ \A c \in 1..Len(B) : C[c] = IF c = b THEN q ELSE B[c]
  BY <1>1, <1>2, <1>5
<1> QED BY <1>5, <1>6

\* What is where after an element is appended.
LEMMA AppendIs ==
  ASSUME NEW S, NEW s \in Seq(S), NEW e \in S
  PROVE  /\ Len(s) \in Nat /\ DOMAIN s = 1..Len(s)
         /\ DOMAIN Append(s, e) = 1..(Len(s) + 1) /\ Append(s, e)[Len(s) + 1] = e
         /\ \A i \in 1..Len(s) : Append(s, e)[i] = s[i]
OBVIOUS

\* What a turn of u makes of the bags A: bag b has a piece less, and the turns are the
\* earlier ones and one more.
OneTurn(A, b, u, C) ==
  /\ C \in Seq(BagRecord) /\ Len(C) = Len(A)
  /\ \A c \in 1..Len(A) :
       /\ C[c].uuid = A[c].uuid /\ C[c].amount = A[c].amount /\ C[c].refund = A[c].refund
       /\ c # b => /\ C[c].left = A[c].left /\ C[c].taken = A[c].taken
                   /\ Turns(C[c]) = Turns(A[c])
                   /\ \A i : Opener(C[c], i) = Opener(A[c], i)
  /\ Sum(Pieces(C[b].taken)) + Sum(C[b].left) = Sum(Pieces(A[b].taken)) + Sum(A[b].left)
  /\ \E n \in Nat : /\ Turns(A[b]) = 1..n /\ Turns(C[b]) = 1..(n + 1)
                   /\ Opener(C[b], n + 1) = u
                   /\ \A i \in 1..n : Opener(C[b], i) = Opener(A[b], i)

\* It is one turn more, whatever promoters and age had become of the bags.
LEMMA TakenBags ==
  ASSUME NEW A \in Seq(BagRecord), NEW B \in Seq(BagRecord), Same(A, B),
         NEW b \in 1..Len(A), NEW u \in Users, B[b].left # <<>>, NEW C, TakeFrom(B, b, u, C)
  PROVE  OneTurn(A, b, u, C)
<1> DEFINE p == Last(B[b].left)
           n == Len(A[b].taken)
           q == A[b].taken
           r == Append(q, <<u, p>>)
<1>1. /\ Len(B) = Len(A) /\ b \in 1..Len(B)
      /\ \A c \in 1..Len(A) :
           /\ B[c].uuid = A[c].uuid /\ B[c].amount = A[c].amount
           /\ B[c].left = A[c].left /\ B[c].taken = A[c].taken
           /\ B[c].refund = A[c].refund
  BY Zenon DEF Same
<1>2. /\ C \in Seq(BagRecord) /\ Len(C) = Len(B)
      /\ \A c \in 1..Len(B) :
           /\ C[c].uuid = B[c].uuid /\ C[c].amount = B[c].amount
           /\ C[c].refund = B[c].refund
           /\ c # b => C[c] = B[c]
      /\ C[b].left = Front(B[b].left)
      /\ C[b].taken = Append(B[b].taken, <<u, p>>)
  BY <1>1, TakeFromIs
<1>3. A[b].left \in Seq(Nat) /\ q \in Seq(Users \X Nat) /\ A[b].left # <<>>
  <2>1. A[b] \in BagRecord
    OBVIOUS
  <2> QED BY <1>1, <2>1 DEF BagRecord
<1>4. /\ Sum(Pieces(r)) + Sum(Front(A[b].left)) = Sum(Pieces(q)) + Sum(A[b].left)
      /\ Sum(Pieces(q)) \in Nat /\ Sum(A[b].left) \in Nat
      /\ Sum(Front(A[b].left)) \in Nat /\ Sum(Pieces(r)) \in Nat
  <2>1. p = Last(A[b].left)
    BY <1>1, Zenon
  <2> HIDE DEF p, q
  <2> QED BY <1>3, <2>1, PieceMoves DEF r
<1>5. C[b].taken = r /\ C[b].left = Front(A[b].left)
  BY <1>1, <1>2, Zenon
<1>6. \A c \in 1..Len(A) :
        /\ C[c].uuid = A[c].uuid /\ C[c].amount = A[c].amount /\ C[c].refund = A[c].refund
        /\ c # b => C[c].left = A[c].left /\ C[c].taken = A[c].taken
  <2> SUFFICES ASSUME NEW c \in 1..Len(A)
               PROVE  /\ C[c].uuid = A[c].uuid /\ C[c].amount = A[c].amount
                      /\ C[c].refund = A[c].refund
                      /\ c # b => C[c].left = A[c].left /\ C[c].taken = A[c].taken
    BY Zenon
  <2>1. c \in 1..Len(B)
    BY <1>1
  <2> QED BY <1>1, <1>2, <2>1, Zenon
<1>7. /\ n \in Nat /\ Turns(A[b]) = 1..n /\ Turns(C[b]) = 1..(n + 1)
      /\ Opener(C[b], n + 1) = u
      /\ \A i \in 1..n : Opener(C[b], i) = Opener(A[b], i)
  <2>1. p \in Nat
    BY <1>1, <1>3, FrontLast
  <2> HIDE DEF p, q
  <2>2. <<u, p>> \in Users \X Nat /\ <<u, p>>[1] = u
    BY <2>1
  <2>3. /\ Len(q) \in Nat /\ DOMAIN q = 1..Len(q) /\ DOMAIN r = 1..(Len(q) + 1)
        /\ r[Len(q) + 1] = <<u, p>>
        /\ \A i \in 1..Len(q) : r[i] = q[i]
    BY <1>3, <2>2, AppendIs
  <2>4. n = Len(q) /\ Turns(A[b]) = DOMAIN q /\ Turns(C[b]) = DOMAIN r
        /\ \A i : Opener(C[b], i) = r[i][1] /\ Opener(A[b], i) = q[i][1]
    BY <1>5, Zenon DEF Turns, Opener, q
  <2> HIDE DEF n, r
  <2>5. Opener(C[b], n + 1) = u
    BY <2>2, <2>3, <2>4, Zenon
  <2>6. \A i \in 1..n : Opener(C[b], i) = Opener(A[b], i)
    BY <2>3, <2>4, Zenon
  <2> QED BY <2>3, <2>4, <2>5, <2>6, Zenon
<1>8. \A c \in 1..Len(A) : c # b =>
        /\ Turns(C[c]) = Turns(A[c])
        /\ \A i : Opener(C[c], i) = Opener(A[c], i)
  BY <1>6, Zenon DEF Turns, Opener
<1> HIDE DEF n, q, r
<1>9. Sum(Pieces(C[b].taken)) + Sum(C[b].left) = Sum(Pieces(A[b].taken)) + Sum(A[b].left)
  BY <1>4, <1>5, Zenon DEF q
<1> QED BY <1>1, <1>2, <1>6, <1>7, <1>8, <1>9, Zenon DEF OneTurn

\* A user takes a piece, and is marked if the bag is a broadcast's.
LEMMA Took ==
  ASSUME IInv, NEW B \in Seq(BagRecord), Same(bags, B), NEW b \in 1..Len(bags),
         NEW u \in Users, CanOpen(B[b], u), B[b].left # <<>>, B[b].refund = 0,
         marked' = Marked(B[b], u), TakeFrom(B, b, u, bags'), data' = data,
         Handlers', DOMAIN task' = Tasks, Rest'
  PROVE  IInv'
<1>1. /\ Types /\ Homes /\ Returned /\ PiecesAccounted /\ Openers /\ OnePiece
      /\ marked \in [Festivals -> SUBSET Users] /\ bags \in Seq(BagRecord)
  BY Zenon DEF IInv, TypeOK, Types
<1>2. B[b].uuid = bags[b].uuid /\ bags[b].refund = 0
  BY Zenon DEF Same
<1>3. OneTurn(bags, b, u, bags')
  BY <1>1, TakenBags, Zenon
<1>4. DOMAIN bags = 1..Len(bags) /\ DOMAIN bags' = 1..Len(bags)
  <2>1. ASSUME NEW s \in Seq(BagRecord) PROVE DOMAIN s = 1..Len(s)
    OBVIOUS
  <2> QED BY <1>1, <1>3, <2>1, Zenon DEF OneTurn
<1>7. Types'
  BY <1>1, <1>3, Zenon DEF OneTurn, Types
<1>8. Homes' /\ Returned'
  <2>1. Fewer(data, data')
    BY Zenon DEF Fewer
  <2>2. \A c \in 1..Len(bags) : bags[c].refund = 0 => bags'[c].refund = 0
    BY <1>3, Zenon DEF OneTurn
  <2> QED BY <1>1, <2>1, <2>2, FewerHomes, Zenon
<1>9. PiecesAccounted'
  <2> SUFFICES ASSUME NEW c \in 1..Len(bags)
               PROVE  bags'[c].amount = Sum(Pieces(bags'[c].taken))
                 + (IF bags'[c].refund > 0 THEN bags'[c].refund ELSE Sum(bags'[c].left))
    BY <1>4, Zenon DEF PiecesAccounted
  <2>1. bags[c].amount = Sum(Pieces(bags[c].taken))
          + (IF bags[c].refund > 0 THEN bags[c].refund ELSE Sum(bags[c].left))
    BY <1>1, <1>4, Zenon DEF PiecesAccounted
  <2>2. CASE c # b
    BY <1>3, <2>1, <2>2, Zenon DEF OneTurn
  <2>3. CASE c = b
    <3>1. bags'[b].amount = bags[b].amount /\ bags'[b].refund = 0 /\ ~(0 > 0)
      BY <1>2, <1>3 DEF OneTurn
    <3>2. bags[b].amount = Sum(Pieces(bags[b].taken)) + Sum(bags[b].left)
      BY <1>2, <2>1, <2>3, <3>1, Zenon
    <3>3. bags'[b].amount = Sum(Pieces(bags'[b].taken)) + Sum(bags'[b].left)
      BY <1>3, <3>1, <3>2, Zenon DEF OneTurn
    <3> QED BY <2>3, <3>1, <3>3, Zenon
  <2> QED BY <2>2, <2>3
\* The turns are the earlier ones and one more.
<1>10. \A c \in 1..Len(bags) : c # b =>
         /\ Turns(bags'[c]) = Turns(bags[c])
         /\ \A i : Opener(bags'[c], i) = Opener(bags[c], i)
  BY <1>3, Zenon DEF OneTurn
<1>11. PICK n \in Nat : /\ Turns(bags[b]) = 1..n /\ Turns(bags'[b]) = 1..(n + 1)
                        /\ Opener(bags'[b], n + 1) = u
                        /\ \A i \in 1..n : Opener(bags'[b], i) = Opener(bags[b], i)
  BY <1>3, Zenon DEF OneTurn
<1>12. \A f \in Festivals : marked[f] \subseteq marked'[f]
  BY <1>1 DEF Marked
<1>13. bags[b].uuid \in Festivals => u \in marked'[bags[b].uuid] /\ u \notin marked[bags[b].uuid]
  <2>1. bags[b].uuid \in Festivals => bags[b].uuid # None
    BY NamesDistinct
  <2> QED BY <1>1, <1>2, <2>1 DEF Marked, CanOpen
<1>14. Openers'
  <2> SUFFICES ASSUME NEW c \in 1..Len(bags), NEW i \in Turns(bags'[c]),
                      bags'[c].uuid \in Festivals
               PROVE  Opener(bags'[c], i) \in marked'[bags'[c].uuid]
    BY <1>4, Zenon DEF Openers
  <2>0. bags'[c].uuid = bags[c].uuid
    BY <1>3, Zenon DEF OneTurn
  <2>1. CASE c # b
    <3>1. i \in Turns(bags[c]) /\ Opener(bags'[c], i) = Opener(bags[c], i)
      BY <1>10, <2>1, Zenon
    <3> QED BY <1>1, <1>4, <1>12, <2>0, <3>1, Zenon DEF Openers
  <2>2. CASE c = b /\ i = n + 1
    BY <1>11, <1>13, <2>0, <2>2, Zenon
  <2>3. CASE c = b /\ i # n + 1
    <3>1. i \in 1..n
      BY <1>11, <2>3
    <3>2. i \in Turns(bags[b]) /\ Opener(bags'[b], i) = Opener(bags[b], i)
      BY <1>11, <3>1, Zenon
    <3> QED BY <1>1, <1>4, <1>12, <2>0, <2>3, <3>2, Zenon DEF Openers
  <2> QED BY <2>1, <2>2, <2>3
\* Who is not marked has no turn yet.
<1>15. ASSUME NEW c \in 1..Len(bags), NEW i \in Turns(bags[c]),
              bags[c].uuid \in Festivals, bags[c].uuid = bags[b].uuid
       PROVE  Opener(bags[c], i) # u
  BY <1>1, <1>4, <1>13, <1>15, Zenon DEF Openers
<1>16. OnePiece'
  <2> SUFFICES ASSUME NEW c \in 1..Len(bags), NEW d \in 1..Len(bags)
               PROVE  Once(bags'[c], bags'[d], c, d)
    BY <1>4, Zenon DEF OnePiece
  <2>0. bags'[c].uuid = bags[c].uuid /\ bags'[d].uuid = bags[d].uuid
    BY <1>3, Zenon DEF OneTurn
  <2> SUFFICES ASSUME NEW i \in Turns(bags'[c]), NEW j \in Turns(bags'[d]),
                      bags[c].uuid \in Festivals, bags[c].uuid = bags[d].uuid,
                      Opener(bags'[c], i) = Opener(bags'[d], j)
               PROVE  c = d /\ i = j
    BY <2>0, Zenon DEF Once
  <2>1. \/ c = b /\ i = n + 1 /\ Opener(bags'[c], i) = u
        \/ i \in Turns(bags[c]) /\ Opener(bags'[c], i) = Opener(bags[c], i)
    <3>1. CASE c # b
      BY <1>10, <3>1, Zenon
    <3>2. CASE c = b /\ i = n + 1
      BY <1>11, <3>2
    <3>3. CASE c = b /\ i # n + 1
      <4>1. i \in 1..n
        BY <1>11, <3>3
      <4> QED BY <1>11, <3>3, <4>1, Zenon
    <3> QED BY <3>1, <3>2, <3>3
  <2>2. \/ d = b /\ j = n + 1 /\ Opener(bags'[d], j) = u
        \/ j \in Turns(bags[d]) /\ Opener(bags'[d], j) = Opener(bags[d], j)
    <3>1. CASE d # b
      BY <1>10, <3>1, Zenon
    <3>2. CASE d = b /\ j = n + 1
      BY <1>11, <3>2
    <3>3. CASE d = b /\ j # n + 1
      <4>1. j \in 1..n
        BY <1>11, <3>3
      <4> QED BY <1>11, <3>3, <4>1, Zenon
    <3> QED BY <3>1, <3>2, <3>3
  <2>3. CASE /\ i \in Turns(bags[c]) /\ Opener(bags'[c], i) = Opener(bags[c], i)
             /\ j \in Turns(bags[d]) /\ Opener(bags'[d], j) = Opener(bags[d], j)
    <3>1. Once(bags[c], bags[d], c, d)
      BY <1>1, <1>4, Zenon DEF OnePiece
    <3> QED BY <2>3, <3>1, Zenon DEF Once
  <2>4. CASE /\ c = b /\ i = n + 1 /\ Opener(bags'[c], i) = u
             /\ j \in Turns(bags[d]) /\ Opener(bags'[d], j) = Opener(bags[d], j)
    BY <1>15, <2>4, Zenon
  <2>5. CASE /\ d = b /\ j = n + 1 /\ Opener(bags'[d], j) = u
             /\ i \in Turns(bags[c]) /\ Opener(bags'[c], i) = Opener(bags[c], i)
    BY <1>15, <2>5, Zenon
  <2> QED BY <2>1, <2>2, <2>3, <2>4, <2>5, Zenon
<1>17. TypeOK'
  BY <1>7, TypesGive, PTL
<1> QED BY <1>7, <1>8, <1>9, <1>14, <1>16, <1>17, Zenon DEF IInv
\* Bag b of the bags A was given back.
GivenBack(A, b, C) ==
  /\ C \in Seq(BagRecord) /\ Len(C) = Len(A)
  /\ \A c \in 1..Len(A) :
       /\ C[c].uuid = A[c].uuid /\ C[c].amount = A[c].amount
       /\ C[c].left = A[c].left /\ C[c].taken = A[c].taken
       /\ Turns(C[c]) = Turns(A[c]) /\ \A i : Opener(C[c], i) = Opener(A[c], i)
       /\ c # b => C[c].refund = A[c].refund
  /\ C[b].refund = Sum(A[b].left) /\ Sum(A[b].left) \in Nat

\* A bag that is given back holds what was left of it as its refund.
LEMMA GivenBackBags ==
  ASSUME NEW A \in Seq(BagRecord), NEW b \in 1..Len(A), A[b].refund = 0,
         NEW C, C = [A EXCEPT ![b].refund = @ + Sum(A[b].left)]
  PROVE  GivenBack(A, b, C)
<1> DEFINE r == A[b]
           q == [r EXCEPT !.refund = @ + Sum(r.left)]
<1>1. r \in BagRecord /\ DOMAIN A = 1..Len(A) /\ Len(A) \in Nat
  OBVIOUS
<1>2. C = [A EXCEPT ![b] = q]
  BY <1>1
<1>3. Sum(r.left) \in Nat
  <2>1. r.left \in Seq(Nat)
    BY <1>1 DEF BagRecord
  <2> QED BY <2>1, SumType
<1>4. /\ q \in BagRecord /\ q.uuid = r.uuid /\ q.amount = r.amount
      /\ q.left = r.left /\ q.taken = r.taken /\ q.refund = Sum(r.left)
  <2> DEFINE x == Sum(r.left)
  <2>1. x \in Nat /\ r.refund + x = x
    BY <1>3
  <2>2. q = [r EXCEPT !.refund = r.refund + x]
    OBVIOUS
  <2> HIDE DEF q, x
  <2>3. q = [r EXCEPT !.refund = x]
    BY <2>1, <2>2
  <2>4. /\ q \in BagRecord /\ q.uuid = r.uuid /\ q.amount = r.amount
        /\ q.left = r.left /\ q.taken = r.taken /\ q.refund = x
    BY <1>1, <2>1, <2>3 DEF BagRecord
  <2> QED BY <2>4 DEF x
<1> HIDE DEF q
<1>5. C \in Seq(BagRecord) /\ Len(C) = Len(A) /\ \A c \in 1..Len(A) : C[c] = IF c = b THEN q ELSE A[c]
  BY <1>1, <1>2, <1>4
<1>6. \A c \in 1..Len(A) :
       /\ C[c].uuid = A[c].uuid /\ C[c].amount = A[c].amount
       /\ C[c].left = A[c].left /\ C[c].taken = A[c].taken
       /\ c # b => C[c].refund = A[c].refund
  BY <1>4, <1>5
<1>7. \A c \in 1..Len(A) :
        Turns(C[c]) = Turns(A[c]) /\ \A i : Opener(C[c], i) = Opener(A[c], i)
  BY <1>6, Zenon DEF Turns, Opener
<1>8. C[b].refund = Sum(A[b].left)
  BY <1>4, <1>5
<1> QED BY <1>3, <1>5, <1>6, <1>7, <1>8, Zenon DEF GivenBack

\* A promoter takes back the bag under a key: it leaves the dict.
LEMMA Gave ==
  ASSUME IInv, NEW g \in Groups, NEW key, Entry(g, key) # 0,
         bags' = [bags EXCEPT ![BagAt(g, key)].refund = @ + Sum(bags[BagAt(g, key)].left)],
         data' = [data EXCEPT ![g] = Without(g, {key})],
         marked' = marked, Handlers', DOMAIN task' = Tasks, Rest'
  PROVE  IInv'
<1> DEFINE b == BagAt(g, key)
           n == Len(bags)
<1>1. /\ Types /\ Homes /\ Returned /\ PiecesAccounted /\ Openers /\ OnePiece
      /\ bags \in Seq(BagRecord)
  BY Zenon DEF IInv, Types
<1>2. n \in Nat /\ \A h \in Groups : data[h] \in Seq(0..n)
  BY <1>1 DEF Types
<1> HIDE DEF n
<1>3. /\ Entry(g, key) \in DOMAIN data[g] /\ data[g][Entry(g, key)] # 0
      /\ b = data[g][Entry(g, key)] /\ bags[b].key = key
  BY EntryIs, Zenon
<1>4. b \in 1..n
  <2>1. data[g][Entry(g, key)] \in 0..n
    BY <1>2, <1>3
  <2> QED BY <1>2, <1>3, <2>1
<1>5. bags[b].refund = 0
  BY <1>1, <1>3, Zenon DEF Returned
<1> HIDE DEF b
<1>6. GivenBack(bags, b, bags')
  <2>1. bags' = [bags EXCEPT ![b].refund = @ + Sum(bags[b].left)]
    BY Zenon DEF b
  <2> QED BY <1>1, <1>4, <1>5, <2>1, GivenBackBags, Zenon DEF n
<1>7. DOMAIN bags = 1..n /\ DOMAIN bags' = 1..n /\ Len(bags') = n /\ bags' \in Seq(BagRecord)
  <2>1. ASSUME NEW s \in Seq(BagRecord) PROVE DOMAIN s = 1..Len(s)
    OBVIOUS
  <2> QED BY <1>1, <1>6, <2>1, Zenon DEF GivenBack, n
\* What is left of the dicts.
<1>8. /\ Without(g, {key}) \in Seq(0..n) /\ DOMAIN Without(g, {key}) = DOMAIN data[g]
      /\ \A i \in DOMAIN data[g] :
           Without(g, {key})[i] # 0 => /\ Without(g, {key})[i] = data[g][i]
                                       /\ bags[data[g][i]].key \notin {key}
  BY <1>2, WithoutIs, Zenon
<1>9. /\ data' \in [Groups -> Seq(0..n)] /\ data'[g] = Without(g, {key})
      /\ \A h \in Groups : h # g => data'[h] = data[h]
  BY <1>1, <1>8 DEF Types, n
<1>10. \A h \in Groups : \A i \in DOMAIN data'[h] :
         data'[h][i] # 0 => i \in DOMAIN data[h] /\ data'[h][i] = data[h][i] /\ data[h][i] # b
  <2> SUFFICES ASSUME NEW h \in Groups, NEW i \in DOMAIN data'[h], data'[h][i] # 0
               PROVE  i \in DOMAIN data[h] /\ data'[h][i] = data[h][i] /\ data[h][i] # b
    BY Zenon
  <2>1. CASE h = g
    BY <1>3, <1>8, <1>9, <2>1, Zenon
  <2>2. CASE h # g
    <3>1. i \in DOMAIN data[h] /\ data'[h][i] = data[h][i]
      BY <1>9, <2>2, Zenon
    <3>2. data[h][i] # b
      BY <1>1, <1>3, <2>2, <3>1, Zenon DEF Homes
    <3> QED BY <3>1, <3>2
  <2> QED BY <2>1, <2>2
<1>11. Types'
  BY <1>7, <1>9, Zenon DEF Types
<1>12. Homes'
  <2> SUFFICES ASSUME NEW h \in Groups, NEW k \in Groups, NEW i \in DOMAIN data'[h],
                      NEW j \in DOMAIN data'[k], data'[h][i] = data'[k][j], data'[h][i] # 0
               PROVE  h = k
    BY Zenon DEF Homes
  <2>1. i \in DOMAIN data[h] /\ data'[h][i] = data[h][i]
    BY <1>10, Zenon
  <2>2. j \in DOMAIN data[k] /\ data'[k][j] = data[k][j]
    BY <1>10, Zenon
  <2> QED BY <1>1, <2>1, <2>2, Zenon DEF Homes
<1>13. Returned'
  <2> SUFFICES ASSUME NEW h \in Groups, NEW i \in DOMAIN data'[h], data'[h][i] # 0
               PROVE  bags'[data'[h][i]].refund = 0
    BY Zenon DEF Returned
  <2>1. i \in DOMAIN data[h] /\ data'[h][i] = data[h][i] /\ data[h][i] # b
    BY <1>10, Zenon
  <2>2. bags[data[h][i]].refund = 0
    BY <1>1, <2>1, Zenon DEF Returned
  <2>3. data[h][i] \in 1..n
    <3>1. data[h][i] \in 0..n
      BY <1>2, <2>1
    <3> QED BY <1>2, <2>1, <3>1
  <2> QED BY <1>6, <2>1, <2>2, <2>3, Zenon DEF GivenBack, n
<1>14. PiecesAccounted'
  <2> SUFFICES ASSUME NEW c \in 1..n
               PROVE  bags'[c].amount = Sum(Pieces(bags'[c].taken))
                 + (IF bags'[c].refund > 0 THEN bags'[c].refund ELSE Sum(bags'[c].left))
    BY <1>7, Zenon DEF PiecesAccounted
  <2>1. bags[c].amount = Sum(Pieces(bags[c].taken))
          + (IF bags[c].refund > 0 THEN bags[c].refund ELSE Sum(bags[c].left))
    BY <1>1, <1>7, Zenon DEF PiecesAccounted
  <2>2. /\ bags'[c].amount = bags[c].amount
        /\ bags'[c].left = bags[c].left /\ bags'[c].taken = bags[c].taken
        /\ c # b => bags'[c].refund = bags[c].refund
    BY <1>6, Zenon DEF GivenBack, n
  <2>3. CASE c # b
    BY <2>1, <2>2, <2>3, Zenon
  <2>4. CASE c = b
    <3>1. bags'[b].refund = Sum(bags[b].left) /\ Sum(bags[b].left) \in Nat /\ ~(0 > 0)
      BY <1>6 DEF GivenBack
    <3>2. bags[b].amount = Sum(Pieces(bags[b].taken)) + Sum(bags[b].left)
      BY <1>5, <2>1, <2>4, <3>1, Zenon
    <3> QED BY <2>2, <2>4, <3>1, <3>2, Zenon
  <2> QED BY <2>3, <2>4
<1>15. Openers'
  <2> SUFFICES ASSUME NEW c \in 1..n, NEW i \in Turns(bags'[c]), bags'[c].uuid \in Festivals
               PROVE  Opener(bags'[c], i) \in marked'[bags'[c].uuid]
    BY <1>7, Zenon DEF Openers
  <2>1. /\ bags'[c].uuid = bags[c].uuid /\ Turns(bags'[c]) = Turns(bags[c])
        /\ Opener(bags'[c], i) = Opener(bags[c], i)
    BY <1>6, Zenon DEF GivenBack, n
  <2> QED BY <1>1, <1>7, <2>1, Zenon DEF Openers
<1>16. OnePiece'
  <2> SUFFICES ASSUME NEW c \in 1..n, NEW d \in 1..n
               PROVE  Once(bags'[c], bags'[d], c, d)
    BY <1>7, Zenon DEF OnePiece
  <2>1. /\ bags'[c].uuid = bags[c].uuid /\ Turns(bags'[c]) = Turns(bags[c])
        /\ bags'[d].uuid = bags[d].uuid /\ Turns(bags'[d]) = Turns(bags[d])
        /\ \A i : Opener(bags'[c], i) = Opener(bags[c], i)
        /\ \A i : Opener(bags'[d], i) = Opener(bags[d], i)
    BY <1>6, Zenon DEF GivenBack, n
  <2>2. Once(bags[c], bags[d], c, d)
    BY <1>1, <1>7, Zenon DEF OnePiece
  <2>3. \A i \in Turns(bags[c]), j \in Turns(bags[d]) :
          (bags[c].uuid \in Festivals /\ bags[c].uuid = bags[d].uuid
             /\ Opener(bags[c], i) = Opener(bags[d], j))
          => c = d /\ i = j
    BY <2>2, Zenon DEF Once
  <2> SUFFICES ASSUME NEW i \in Turns(bags'[c]), NEW j \in Turns(bags'[d]),
                      bags'[c].uuid \in Festivals, bags'[c].uuid = bags'[d].uuid,
                      Opener(bags'[c], i) = Opener(bags'[d], j)
               PROVE  c = d /\ i = j
    BY Zenon DEF Once
  <2>4. i \in Turns(bags[c]) /\ j \in Turns(bags[d])
    <3>1. Turns(bags'[c]) = Turns(bags[c]) /\ Turns(bags'[d]) = Turns(bags[d])
      BY <2>1, Zenon
    <3> QED BY <3>1, Zenon
  <2>5. Opener(bags[c], i) = Opener(bags'[c], i) /\ Opener(bags[d], j) = Opener(bags'[d], j)
    BY <2>1, Zenon
  <2>6. Opener(bags[c], i) = Opener(bags[d], j)
    BY <2>5, Zenon
  <2>7. bags[c].uuid \in Festivals /\ bags[c].uuid = bags[d].uuid
    BY <2>1, Zenon
  <2> QED BY <2>3, <2>4, <2>6, <2>7, Zenon
<1>17. TypeOK'
  BY <1>11, TypesGive, PTL
<1> QED BY <1>11, <1>12, <1>13, <1>14, <1>15, <1>16, <1>17, Zenon DEF IInv
-----------------------------------------------------------------------------
\* The loop of open

Visitors(n) == [pc : {"pay", "paid"}, user : Users, group : Groups, size : Nat, owed : Int,
                done : SUBSET (Users \cup {FESTIVE}), at : Nat, bag : n, piece : Nat]

\* A dict has finitely many entries.
LEMMA EntriesFinite ==
  ASSUME Types, NEW g \in Groups, NEW S \in SUBSET DOMAIN data[g]
  PROVE  IsFiniteSet(S) /\ Cardinality(S) \in Nat
<1>1. DOMAIN data[g] = 1..Len(data[g]) /\ Len(data[g]) \in Int
  <2> DEFINE T == 0..Len(bags)
  <2>1. data[g] \in Seq(T)
    BY DEF Types
  <2> HIDE DEF T
  <2> QED BY <2>1
<1>2. IsFiniteSet(1..Len(data[g]))
  BY <1>1, FS_Interval
<1>3. IsFiniteSet(S)
  BY <1>1, <1>2, FS_Subset
<1> QED BY <1>3, FS_CardinalityType

\* Marking a user.
LEMMA MarkedType ==
  ASSUME NEW bag, NEW u \in Users, marked \in [Festivals -> SUBSET Users],
         marked' = Marked(bag, u)
  PROVE  /\ marked' \in [Festivals -> SUBSET Users]
         /\ \A f \in Festivals : marked[f] \subseteq marked'[f]
<1>1. CASE bag.uuid = None
  BY <1>1 DEF Marked
<1>2. CASE bag.uuid # None
  <2>1. marked' = [marked EXCEPT ![bag.uuid] = @ \cup {u}]
    BY <1>2, Zenon DEF Marked
  <2> QED BY <2>1
<1> QED BY <1>1, <1>2

\* The loop goes on from an entry to its next await, fails or ends.
LEMMA OpenOnStep ==
  ASSUME IInv, NEW t \in Tasks, NEW k \in Visitors(0..Len(bags)), NEW at \in Nat,
         NEW B \in Seq(BagRecord), Same(bags, B), OpenOn(t, k, at, B),
         UNCHANGED <<gold, festival, jobs>>
  PROVE  IInv'
<1> DEFINE g       == k.group
           n       == Len(bags)
           rest    == {i \in DOMAIN data[g] : i >= at /\ data[g][i] # 0}
           next    == {i \in rest : CanOpen(B[data[g][i]], k.user)}
           i       == CHOOSE j \in next : \A m \in next : j <= m
           visited == {j \in rest : next # {} => j <= i}
           ok      == Size(g) = k.size /\ Cardinality(visited) <= k.owed
           b       == data[g][i]
           w       == [k EXCEPT !.pc = "pay", !.at = i + 1, !.bag = b,
                                !.owed = @ - Cardinality(visited), !.piece = Last(B[b].left)]
<1>1. /\ Types /\ Handlers /\ Homes /\ Returned /\ Rest
      /\ bags \in Seq(BagRecord) /\ data \in [Groups -> Seq(0..n)] /\ n \in Nat
      /\ g \in Groups /\ k.user \in Users
  <2>1. Len(bags) \in Nat
    BY DEF IInv, Types
  <2>2. k.group \in Groups /\ k.user \in Users
    BY DEF Visitors
  <2> QED BY <2>1, <2>2, Zenon DEF IInv, TypeOK, Types, Rest
<1>2. \/ /\ bags' = B /\ task' = Ended(t) /\ UNCHANGED <<data, marked>>
      \/ /\ data' = [data EXCEPT ![g] = Without(g, k.done)]
         /\ bags' = B /\ task' = Ended(t) /\ UNCHANGED marked
      \/ /\ next # {} /\ marked' = Marked(B[b], k.user) /\ UNCHANGED data
         /\ bags' = B /\ task' = Ended(t)
      \/ /\ next # {} /\ marked' = Marked(B[b], k.user) /\ UNCHANGED data
         /\ B[b].left # <<>> /\ TakeFrom(B, b, k.user, bags') /\ task' = [task EXCEPT ![t] = w]
  BY Zenon DEF OpenOn, TakeFrom
<1>3. Len(B) = n /\ Same(bags, B)
  BY Zenon DEF Same
<1>4. ASSUME bags' = B, task' = Ended(t) PROVE Handlers' /\ DOMAIN task' = Tasks
  <2>1. Len(bags) \in Nat /\ Len(bags') \in Nat /\ Len(bags) <= Len(bags')
    BY <1>1, <1>3, <1>4
  <2> QED BY <1>1, <1>4, <2>1, HandlersEnd, Zenon
<1>5. Fewer(data, data)
  BY Zenon DEF Fewer
<1>6. \A f \in Festivals : marked[f] \subseteq marked[f]
  OBVIOUS
<1>7. CASE bags' = B /\ task' = Ended(t) /\ UNCHANGED <<data, marked>>
  <2>1. Rest'
    BY <1>1, <1>7, Zenon DEF Rest
  <2> QED BY <1>1, <1>3, <1>4, <1>5, <1>6, <1>7, <2>1, Kept, Zenon
<1>8. CASE /\ data' = [data EXCEPT ![g] = Without(g, k.done)]
           /\ bags' = B /\ task' = Ended(t) /\ UNCHANGED marked
  <2>1. Rest'
    BY <1>1, <1>8, Zenon DEF Rest
  <2>2. /\ Without(g, k.done) \in Seq(0..n) /\ DOMAIN Without(g, k.done) = DOMAIN data[g]
        /\ \A j \in DOMAIN data[g] :
             Without(g, k.done)[j] # 0 => Without(g, k.done)[j] = data[g][j]
    <3>1. data[g] \in Seq(0..n)
      BY <1>1, Zenon
    <3> HIDE DEF g, n
    <3> QED BY <1>1, <3>1, WithoutIs
  <2>3. /\ data' \in [Groups -> Seq(0..n)] /\ data'[g] = Without(g, k.done)
        /\ \A h \in Groups : h # g => data'[h] = data[h]
    BY <1>1, <1>8, <2>2
  <2>4. Fewer(data, data')
    BY <2>2, <2>3, Zenon DEF Fewer
  <2> QED BY <1>1, <1>3, <1>4, <1>6, <1>8, <2>1, <2>3, <2>4, Kept, Zenon
<1>9. CASE /\ marked' = Marked(B[b], k.user) /\ UNCHANGED data
           /\ bags' = B /\ task' = Ended(t)
  <2>1. /\ marked' \in [Festivals -> SUBSET Users]
        /\ \A f \in Festivals : marked[f] \subseteq marked'[f]
    BY <1>1, <1>9, MarkedType, Zenon DEF Rest
  <2>2. Rest'
    BY <1>1, <2>1, Zenon DEF Rest
  <2> QED BY <1>1, <1>3, <1>4, <1>5, <1>9, <2>1, <2>2, Kept, Zenon
<1>10. CASE /\ next # {} /\ marked' = Marked(B[b], k.user) /\ UNCHANGED data
            /\ B[b].left # <<>> /\ TakeFrom(B, b, k.user, bags') /\ task' = [task EXCEPT ![t] = w]
  <2>1. DOMAIN data[g] \subseteq Nat /\ \A j \in DOMAIN data[g] : data[g][j] \in 0..n
    <3> DEFINE T == 0..n
    <3>1. data[g] \in Seq(T)
      BY <1>1
    <3> HIDE DEF T
    <3>2. DOMAIN data[g] \subseteq Nat /\ \A j \in DOMAIN data[g] : data[g][j] \in T
      BY <3>1
    <3> QED BY <3>2 DEF T
  <2>2. i \in next
    <3>1. next \in SUBSET Nat
      BY <2>1
    <3>2. \E j \in next : \A m \in next : j <= m
      BY <1>10, <3>1, LeastNumber, Zenon
    <3> HIDE DEF next
    <3> QED BY <3>2
  <2> HIDE DEF i
  <2>3. i \in DOMAIN data[g] /\ b # 0 /\ CanOpen(B[b], k.user)
    BY <2>2
  <2>4. Cardinality(visited) \in Nat
    <3>1. visited \in SUBSET DOMAIN data[g]
      OBVIOUS
    <3> HIDE DEF visited
    <3> QED BY <1>1, <3>1, EntriesFinite
  <2> HIDE DEF visited
  <2>5. b \in 1..n /\ i \in Nat
    BY <1>1, <2>1, <2>3
  <2>6. B[b].refund = 0
    <3>1. bags[b].refund = 0
      BY <1>1, <2>3, Zenon DEF Returned
    <3> QED BY <2>5, <3>1, Zenon DEF Same
  <2>7. /\ marked' \in [Festivals -> SUBSET Users]
        /\ \A f \in Festivals : marked[f] \subseteq marked'[f]
    BY <1>1, <1>10, MarkedType, Zenon DEF Rest
  <2>8. Rest'
    BY <1>1, <2>7, Zenon DEF Rest
  <2> HIDE DEF b
  <2>9. Len(bags') = n
    <3>1. OneTurn(bags, b, k.user, bags')
      BY <1>1, <1>3, <1>10, <2>5, TakenBags, Zenon
    <3> QED BY <3>1, Zenon DEF OneTurn
  <2>10. Last(B[b].left) \in Nat
    <3>1. B[b] \in BagRecord
      BY <1>3, <2>5
    <3>2. B[b].left \in Seq(Nat)
      BY <3>1 DEF BagRecord
    <3> QED BY <1>10, <3>2, FrontLast
  <2>11. HandlerOK(w, n)
    <3> DEFINE c == Cardinality(visited)
               l == Last(B[b].left)
               o == k.owed - c
               a == i + 1
    <3>1. c \in Nat /\ l \in Nat /\ a \in Nat /\ k.owed \in Int
      BY <2>4, <2>5, <2>10 DEF Visitors
    <3>2. o \in Int
      BY <3>1
    <3>3. w = [k EXCEPT !.pc = "pay", !.at = a, !.bag = b, !.owed = o, !.piece = l]
      BY DEF Visitors
    <3> HIDE DEF c, l, o, a, n, w
    <3>4. w \in Visitors(1..n)
      BY <2>5, <3>1, <3>2, <3>3 DEF Visitors
    <3>5. w.pc \in {"pay", "paid"}
      BY <3>4 DEF Visitors
    <3> QED BY <3>4, <3>5 DEF HandlerOK, Visitors
  <2>12. Handlers' /\ DOMAIN task' = Tasks
    <3>1. Len(bags) \in Nat /\ Len(bags') \in Nat /\ Len(bags) <= Len(bags') /\ HandlerOK(w, Len(bags'))
      BY <1>1, <2>9, <2>11
    <3> HIDE DEF w
    <3> QED BY <1>1, <1>10, <3>1, HandlersStep, Zenon
  <2> QED BY <1>1, <1>3, <1>10, <2>3, <2>5, <2>6, <2>8, <2>12, Took, Zenon
<1> HIDE DEF g, n, b, w, next
<1> QED BY <1>2, <1>7, <1>8, <1>9, <1>10, Zenon
-----------------------------------------------------------------------------
\* The actions

\* Nothing happened to the bags.
LEMMA SameReflexive == ASSUME NEW A PROVE Same(A, A)
BY Zenon DEF Same

\* A bag that changes neither its pieces nor its turns.
LEMMA SameBut ==
  ASSUME NEW A \in Seq(BagRecord), NEW b \in 1..Len(A), NEW q \in BagRecord,
         q.uuid = A[b].uuid, q.amount = A[b].amount, q.left = A[b].left,
         q.taken = A[b].taken, q.refund = A[b].refund,
         NEW C, C = [A EXCEPT ![b] = q]
  PROVE  C \in Seq(BagRecord) /\ Same(A, C)
<1>1. /\ C \in Seq(BagRecord) /\ Len(C) = Len(A)
      /\ \A c \in 1..Len(A) : C[c] = IF c = b THEN q ELSE A[c]
  OBVIOUS
<1> QED BY <1>1, Zenon DEF Same

\* Steps that only concern balances, broadcasts, jobs and one handler.
LEMMA OneHandler ==
  ASSUME IInv, NEW t \in Tasks, NEW k, task' = [task EXCEPT ![t] = k],
         HandlerOK(k, Len(bags)), UNCHANGED <<bags, data, marked>>, Rest'
  PROVE  IInv'
<1>1. /\ Types /\ Handlers /\ Len(bags) \in Nat /\ bags \in Seq(BagRecord)
      /\ data \in [Groups -> Seq(0..Len(bags))]
  BY DEF IInv, Types
<1>2. bags' = bags /\ data' = data /\ marked' = marked
  OBVIOUS
<1>3. Handlers' /\ DOMAIN task' = Tasks
  <2>1. Len(bags) <= Len(bags') /\ Len(bags') \in Nat /\ HandlerOK(k, Len(bags'))
    BY <1>1, <1>2
  <2> QED BY <1>1, <2>1, HandlersStep, Zenon
<1>4. Fewer(data, data') /\ \A f \in Festivals : marked[f] \subseteq marked'[f]
  BY <1>2, Zenon DEF Fewer
<1>5. Same(bags, bags')
  BY <1>2, SameReflexive, Zenon
<1> QED BY <1>1, <1>2, <1>3, <1>4, <1>5, Kept, Zenon

\* The part of the types that concerns neither bags nor dicts.
LEMMA RestHolds == ASSUME IInv PROVE Rest
BY Zenon DEF IInv, TypeOK, Rest

\* A bag that is put up holds what was paid for it.
LEMMA NewBagType ==
  ASSUME NEW key \in Users \cup {FESTIVE}, NEW uuid \in Festivals \cup {None},
         NEW content \in Contents, NEW assigner \in Users \cup {None}
  PROVE  NewBag(key, uuid, content, assigner) \in NewBags
<1>1. content \in Seq(Nat)
  BY ContentsArePieces
<1>2. Sum(content) \in Nat /\ Len(content) \in Nat
  BY <1>1, SumType
<1>3. <<>> \in Seq(Users \X Nat)
  OBVIOUS
<1> QED BY <1>1, <1>2, <1>3 DEF NewBag, NewBags, BagRecord

\* Every action keeps the invariant, one lemma each.
LEMMA SendStartStep ==
  ASSUME IInv, NEW t \in Tasks, NEW u \in Users, NEW g \in Groups,
         NEW content \in Contents, NEW assigner \in Users \cup {None},
         SendStart(t, u, g, content, assigner)
  PROVE  IInv'
<1> DEFINE r == NewBag(u, None, content, assigner)
           k == [pc |-> "read", user |-> u, group |-> g, bag |-> r]
<1>1. task' = [task EXCEPT ![t] = k] /\ UNCHANGED <<gold, bags, data, festival, marked, jobs>>
  BY Zenon DEF SendStart
<1>2. r \in NewBags
  BY NewBagType
<1> HIDE DEF r
<1>3. HandlerOK(k, Len(bags))
  BY <1>2 DEF HandlerOK
<1> HIDE DEF k
<1>4. Rest'
  BY <1>1, RestHolds DEF Rest
<1> QED BY <1>1, <1>3, <1>4, OneHandler

LEMMA SendReadStep ==
  ASSUME IInv, NEW t \in Tasks, SendRead(t)
  PROVE  IInv'
<1> DEFINE k == task[t]
           s == [pc |-> "save", user |-> k.user, group |-> k.group, bag |-> k.bag,
                 balance |-> gold[k.user]]
<1>1. /\ k.pc = "read" /\ UNCHANGED <<gold, bags, data, festival, marked, jobs>>
      /\ \/ task' = Ended(t)
         \/ ~(gold[k.user] < k.bag.amount) /\ task' = [task EXCEPT ![t] = s]
  BY DEF SendRead
<1>2. k \in [pc : {"read", "publish"}, user : Users, group : Groups, bag : NewBags]
  BY <1>1 DEF IInv, Handlers, HandlerOK
<1>3. Rest /\ Rest'
  BY <1>1, RestHolds DEF Rest
<1>4. CASE task' = Ended(t)
  BY <1>1, <1>3, <1>4, IdleOK, OneHandler DEF Ended
<1>5. CASE ~(gold[k.user] < k.bag.amount) /\ task' = [task EXCEPT ![t] = s]
  <2>1. /\ k.user \in Users /\ k.group \in Groups /\ k.bag \in NewBags
        /\ k.bag.amount \in Nat /\ gold[k.user] \in Nat
    BY <1>2, <1>3 DEF Rest, NewBags, BagRecord
  <2>2. k.bag.amount <= gold[k.user]
    BY <1>5, <2>1
  <2> HIDE DEF k
  <2>3. HandlerOK(s, Len(bags))
    BY <2>1, <2>2 DEF HandlerOK
  <2> HIDE DEF s
  <2> QED BY <1>1, <1>3, <1>5, <2>3, OneHandler
<1> QED BY <1>1, <1>4, <1>5

LEMMA SendSaveStep ==
  ASSUME IInv, NEW t \in Tasks, SendSave(t)
  PROVE  IInv'
<1> DEFINE k == task[t]
           s == [pc |-> "publish", user |-> k.user, group |-> k.group, bag |-> k.bag]
<1>1. /\ k.pc = "save" /\ UNCHANGED <<bags, data, festival, marked, jobs>>
      /\ gold' = [gold EXCEPT ![k.user] = k.balance - k.bag.amount]
      /\ task' = [task EXCEPT ![t] = s]
  <2>1. t \in DOMAIN task
    BY DEF IInv, Types
  <2> QED BY <2>1 DEF SendSave
<1>2. /\ k \in [pc : {"save"}, user : Users, group : Groups, bag : NewBags, balance : Nat]
      /\ k.bag.amount <= k.balance
  BY <1>1 DEF IInv, Handlers, HandlerOK
<1>3. /\ k.user \in Users /\ k.group \in Groups /\ k.bag \in NewBags
      /\ k.bag.amount \in Nat /\ k.balance \in Nat
  BY <1>2 DEF NewBags, BagRecord
<1>4. k.balance - k.bag.amount \in Nat
  BY <1>2, <1>3
<1> HIDE DEF k
<1>5. HandlerOK(s, Len(bags))
  BY <1>3 DEF HandlerOK
<1> HIDE DEF s
<1>6. Rest'
  BY <1>1, <1>4, RestHolds DEF Rest
<1> QED BY <1>1, <1>5, <1>6, OneHandler
\* A new bag under a key in the dict of g, for SendPublish and FestivePublish.
LEMMA WithOneMore ==
  ASSUME Types, NEW g \in Groups, NEW key,
         data' = [data EXCEPT ![g] = With(g, key, Len(bags) + 1)]
  PROVE  /\ data' \in [Groups -> Seq(0..(Len(bags) + 1))]
         /\ OneMore(data, data', g, Len(bags) + 1)
<1> DEFINE n == Len(bags)
           w == With(g, key, n + 1)
<1>1. n \in Nat /\ DOMAIN data = Groups /\ \A h \in Groups : data[h] \in Seq(0..n)
  BY DEF Types
<1> HIDE DEF n
<1>2. /\ w \in Seq(0..(n + 1))
      /\ \A i \in DOMAIN w : w[i] = n + 1 \/ (i \in DOMAIN data[g] /\ w[i] = data[g][i])
  <2>1. data[g] \in Seq(0..n)
    BY <1>1
  <2>2. /\ With(g, key, n + 1) \in Seq(0..(n + 1))
        /\ \A i \in DOMAIN With(g, key, n + 1) :
             \/ With(g, key, n + 1)[i] = n + 1
             \/ i \in DOMAIN data[g] /\ With(g, key, n + 1)[i] = data[g][i]
    <3>1. n \in Nat
      BY <1>1
    <3> HIDE DEF w
    <3> QED BY <2>1, <3>1, WithIs
  <2> QED BY <2>2, Zenon
<1>3. \A h \in Groups : data[h] \in Seq(0..(n + 1))
  <2> SUFFICES ASSUME NEW h \in Groups PROVE data[h] \in Seq(0..(n + 1))
    OBVIOUS
  <2> DEFINE S == 0..n
             T == 0..(n + 1)
  <2>1. S \subseteq T /\ data[h] \in Seq(S)
    BY <1>1
  <2> HIDE DEF S, T
  <2>2. data[h] \in Seq(T)
    BY <2>1
  <2> QED BY <2>2 DEF T
<1> DEFINE Q == Seq(0..(n + 1))
<1> HIDE DEF w, Q
<1>4. data' = [data EXCEPT ![g] = w]
  BY DEF n, w
<1>5. data'[g] = w /\ \A h \in Groups : h # g => data'[h] = data[h]
  BY <1>1, <1>4
<1>6. data' \in [Groups -> Q]
  <2>1. w \in Q /\ \A h \in Groups : data[h] \in Q
    BY <1>2, <1>3 DEF Q
  <2>2. data \in [Groups -> Q]
    <3>1. data = [h \in Groups |-> data[h]]
      BY DEF Types
    <3> QED BY <2>1, <3>1, Zenon
  <2> QED BY <1>4, <2>1, <2>2
<1>7. OneMore(data, data', g, n + 1)
  <2> SUFFICES ASSUME NEW h \in Groups, NEW i \in DOMAIN data'[h]
               PROVE  \/ data'[h][i] = 0
                      \/ \E j \in DOMAIN data[h] : data[h][j] = data'[h][i]
                      \/ h = g /\ data'[h][i] = n + 1
    BY Zenon DEF OneMore
  <2>1. CASE h = g
    <3>1. data'[h] = w /\ i \in DOMAIN w
      BY <1>5, <2>1, Zenon
    <3>2. w[i] = n + 1 \/ (i \in DOMAIN data[g] /\ w[i] = data[g][i])
      BY <1>2, <3>1, Zenon
    <3> QED BY <2>1, <3>1, <3>2, Zenon
  <2>2. CASE h # g
    <3>1. data'[h] = data[h] /\ i \in DOMAIN data[h]
      BY <1>5, <2>2, Zenon
    <3> QED BY <3>1, Zenon
  <2> QED BY <2>1, <2>2
<1> QED BY <1>6, <1>7 DEF n, Q

LEMMA SendPublishStep ==
  ASSUME IInv, NEW t \in Tasks, SendPublish(t)
  PROVE  IInv'
<1> DEFINE k == task[t]
           n == Len(bags)
<1>1. /\ k.pc = "publish" /\ UNCHANGED <<gold, festival, marked, jobs>>
      /\ bags' = Append(bags, k.bag) /\ task' = Ended(t)
      /\ data' = [data EXCEPT ![k.group] = With(k.group, k.user, Len(bags'))]
  BY DEF SendPublish
<1>2. k \in [pc : {"read", "publish"}, user : Users, group : Groups, bag : NewBags]
  BY <1>1 DEF IInv, Handlers, HandlerOK
<1>3. k.group \in Groups /\ k.bag \in NewBags
  BY <1>2
<1>4. Types /\ Handlers /\ n \in Nat /\ bags \in Seq(BagRecord) /\ Len(bags') = n + 1
  BY <1>1 DEF IInv, Types
<1>5. /\ data' \in [Groups -> Seq(0..(n + 1))]
      /\ OneMore(data, data', k.group, n + 1)
  BY <1>1, <1>3, <1>4, WithOneMore
<1>6. Handlers' /\ DOMAIN task' = Tasks
  <2>1. Len(bags') \in Nat /\ Len(bags) <= Len(bags')
    BY <1>4
  <2> QED BY <1>1, <1>4, <2>1, HandlersEnd, Zenon
<1>7. Rest'
  BY <1>1, RestHolds, Zenon DEF Rest
<1> QED BY <1>1, <1>3, <1>5, <1>6, <1>7, PutUp, Zenon

LEMMA AgeStep ==
  ASSUME IInv, NEW b \in DOMAIN bags, Age(b)
  PROVE  IInv'
<1> DEFINE q == [bags[b] EXCEPT !.fresh = FALSE]
<1>1. /\ bags' = [bags EXCEPT ![b] = q]
      /\ UNCHANGED <<gold, data, festival, marked, jobs, task>>
  BY DEF Age
<1>2. /\ Types /\ Handlers /\ Len(bags) \in Nat /\ bags \in Seq(BagRecord)
      /\ data \in [Groups -> Seq(0..Len(bags))] /\ b \in 1..Len(bags)
  BY DEF IInv, Types
<1>3. /\ q \in BagRecord /\ q.uuid = bags[b].uuid /\ q.amount = bags[b].amount
      /\ q.left = bags[b].left /\ q.taken = bags[b].taken /\ q.refund = bags[b].refund
  <2>1. bags[b] \in BagRecord
    BY <1>2
  <2> QED BY <2>1 DEF BagRecord
<1> HIDE DEF q
<1>4. bags' \in Seq(BagRecord) /\ Same(bags, bags')
  BY <1>1, <1>2, <1>3, SameBut
<1>5. Handlers' /\ DOMAIN task' = Tasks
  <2>1. Len(bags') \in Nat /\ Len(bags) <= Len(bags')
    BY <1>2, <1>4 DEF Same
  <2> QED BY <1>1, <1>2, <2>1, HandlersKept, Zenon
<1>6. Fewer(data, data') /\ \A f \in Festivals : marked[f] \subseteq marked'[f]
  BY <1>1, Zenon DEF Fewer
<1>7. Rest'
  BY <1>1, RestHolds, Zenon DEF Rest
<1>8. data' \in [Groups -> Seq(0..Len(bags))]
  BY <1>1, <1>2, Zenon
<1> QED BY <1>4, <1>5, <1>6, <1>7, <1>8, Kept, Zenon

LEMMA OpenStartStep ==
  ASSUME IInv, NEW t \in Tasks, NEW u \in Users, NEW g \in Groups, OpenStart(t, u, g)
  PROVE  IInv'
<1> DEFINE k == [pc |-> "pay", user |-> u, group |-> g, size |-> Size(g), owed |-> Size(g),
                 done |-> {}, at |-> 1, bag |-> 0, piece |-> 0]
<1>1. OpenOn(t, k, 1, bags) /\ UNCHANGED <<gold, festival, jobs>>
  BY DEF OpenStart
<1>2. Types /\ bags \in Seq(BagRecord) /\ Len(bags) \in Nat
  BY DEF IInv, Types
<1>3. Size(g) \in Nat
  <2>1. {i \in DOMAIN data[g] : data[g][i] # 0} \in SUBSET DOMAIN data[g]
    OBVIOUS
  <2> QED BY <1>2, <2>1, EntriesFinite DEF Size
<1>4. k \in Visitors(0..Len(bags))
  <2> DEFINE s == Size(g)
             n == Len(bags)
  <2>1. s \in Nat /\ s \in Int /\ n \in Nat /\ 0 \in 0..n
    BY <1>2, <1>3
  <2> HIDE DEF s, n
  <2>2. [pc |-> "pay", user |-> u, group |-> g, size |-> s, owed |-> s,
         done |-> {}, at |-> 1, bag |-> 0, piece |-> 0] \in Visitors(0..n)
    BY <2>1 DEF Visitors
  <2> QED BY <2>2 DEF s, n
<1> HIDE DEF k
<1> QED BY <1>1, <1>2, <1>4, OpenOnStep, SameReflexive

LEMMA OpenPayStep ==
  ASSUME IInv, NEW t \in Tasks, OpenPay(t)
  PROVE  IInv'
<1> DEFINE k == task[t]
           s == [k EXCEPT !.pc = "paid"]
<1>1. /\ k.pc = "pay" /\ UNCHANGED <<bags, data, festival, marked, jobs>>
      /\ gold' = [gold EXCEPT ![k.user] = @ + k.piece]
      /\ task' = [task EXCEPT ![t] = s]
  BY DEF OpenPay
<1>2. k \in Visitors(1..Len(bags))
  BY <1>1 DEF IInv, Handlers, HandlerOK, Visitors
<1>3. k.user \in Users /\ k.piece \in Nat
  BY <1>2 DEF Visitors
<1>4. s \in Visitors(1..Len(bags)) /\ s.pc = "paid"
  BY <1>2 DEF Visitors
<1> HIDE DEF k, s
<1>5. HandlerOK(s, Len(bags))
  BY <1>4 DEF HandlerOK, Visitors
<1>6. Rest'
  BY <1>1, <1>3, RestHolds DEF Rest
<1> QED BY <1>1, <1>5, <1>6, OneHandler

LEMMA OpenRecordStep ==
  ASSUME IInv, NEW t \in Tasks, OpenRecord(t)
  PROVE  IInv'
<1> DEFINE k == task[t]
           B == [bags EXCEPT ![k.bag].opened = @ \cup {k.user}]
           q == [bags[k.bag] EXCEPT !.opened = @ \cup {k.user}]
           w == IF B[k.bag].num = Cardinality(B[k.bag].opened)
                THEN [k EXCEPT !.done = @ \cup {B[k.bag].key}] ELSE k
<1>1. k.pc = "paid" /\ OpenOn(t, w, k.at, B) /\ UNCHANGED <<gold, festival, jobs>>
  BY DEF OpenRecord
<1>2. k \in Visitors(1..Len(bags))
  BY <1>1 DEF IInv, Handlers, HandlerOK, Visitors
<1>3. k.user \in Users /\ k.bag \in 1..Len(bags) /\ k.at \in Nat
  BY <1>2 DEF Visitors
<1>4. bags \in Seq(BagRecord) /\ Len(bags) \in Nat /\ bags[k.bag] \in BagRecord
  BY <1>3 DEF IInv, Types
<1>5. B = [bags EXCEPT ![k.bag] = q]
  BY <1>3, <1>4
<1>6. /\ q \in BagRecord /\ q.uuid = bags[k.bag].uuid /\ q.amount = bags[k.bag].amount
      /\ q.left = bags[k.bag].left /\ q.taken = bags[k.bag].taken
      /\ q.refund = bags[k.bag].refund
  BY <1>3, <1>4 DEF BagRecord
<1>7. B \in Seq(BagRecord) /\ Same(bags, B)
  <2> HIDE DEF q, B, k
  <2> QED BY <1>3, <1>4, <1>5, <1>6, SameBut
<1>8. w \in Visitors(0..Len(bags))
  <2> DEFINE n == Len(bags)
             key == B[k.bag].key
  <2>1. key \in Users \cup {FESTIVE}
    <3> HIDE DEF B
    <3>1. B[k.bag] \in BagRecord
      BY <1>3, <1>7 DEF Same
    <3> QED BY <3>1 DEF BagRecord
  <2>2. 1..n \subseteq 0..n
    BY <1>4
  <2> HIDE DEF key, n
  <2>3. k \in Visitors(0..n)
    <3>1. k \in Visitors(1..n)
      BY <1>2 DEF n
    <3> HIDE DEF k
    <3> QED BY <2>2, <3>1 DEF Visitors
  <2> HIDE DEF k
  <2>4. [k EXCEPT !.done = @ \cup {key}] \in Visitors(0..n)
    BY <2>1, <2>3 DEF Visitors
  <2> QED BY <2>3, <2>4, Zenon DEF key, n
<1> HIDE DEF k, B, w
<1> QED BY <1>1, <1>3, <1>7, <1>8, OpenOnStep
LEMMA ReturnStartStep ==
  ASSUME IInv, NEW t \in Tasks, NEW u \in Users, NEW g \in Groups, ReturnStart(t, u, g)
  PROVE  IInv'
<1> DEFINE b == BagAt(g, u)
           x == Sum(bags[b].left)
           k == [pc |-> "refund", user |-> u, amount |-> x]
<1>1. /\ Entry(g, u) # 0 /\ UNCHANGED <<gold, festival, marked, jobs>>
      /\ data' = [data EXCEPT ![g] = Without(g, {u})]
      /\ bags' = [bags EXCEPT ![BagAt(g, u)].refund = @ + Sum(bags[BagAt(g, u)].left)]
      /\ task' = task \/ task' = [task EXCEPT ![t] = k]
  BY DEF ReturnStart
<1>2. Types /\ Handlers /\ Len(bags) \in Nat /\ bags \in Seq(BagRecord)
  BY DEF IInv, Types
<1>3. Len(bags') = Len(bags) /\ Len(bags') \in Nat /\ Len(bags) <= Len(bags')
  <2> HIDE DEF b
  <2>1. bags' = [bags EXCEPT ![b].refund = @ + x]
    BY <1>1 DEF b
  <2> HIDE DEF x
  <2>2. Len(bags') = Len(bags)
    BY <1>2, <2>1
  <2> QED BY <1>2, <2>2
<1>4. x \in Nat
  <2>1. b \in 1..Len(bags)
    <3>1. /\ Entry(g, u) \in DOMAIN data[g] /\ data[g][Entry(g, u)] # 0
          /\ b = data[g][Entry(g, u)]
      BY <1>1, EntryIs, Zenon
    <3> HIDE DEF b
    <3>2. data[g] \in Seq(0..Len(bags))
      BY <1>2 DEF Types
    <3>3. b \in 0..Len(bags)
      BY <3>1, <3>2
    <3> QED BY <1>2, <3>1, <3>3
  <2> HIDE DEF b
  <2>2. bags[b].left \in Seq(Nat)
    <3>1. bags[b] \in BagRecord
      BY <1>2, <2>1
    <3> QED BY <3>1 DEF BagRecord
  <2> QED BY <2>2, SumType
<1> HIDE DEF x
<1>5. HandlerOK(k, Len(bags'))
  BY <1>4 DEF HandlerOK
<1> HIDE DEF k
<1>6. Handlers' /\ DOMAIN task' = Tasks
  <2>1. CASE task' = task
    BY <1>2, <1>3, <2>1, HandlersKept, Zenon
  <2>2. CASE task' = [task EXCEPT ![t] = k]
    BY <1>2, <1>3, <1>5, <2>2, HandlersStep, Zenon
  <2> QED BY <1>1, <2>1, <2>2
<1>7. Rest'
  BY <1>1, RestHolds, Zenon DEF Rest
<1> QED BY <1>1, <1>6, <1>7, Gave, Zenon

LEMMA RefundStep ==
  ASSUME IInv, NEW t \in Tasks, Refund(t)
  PROVE  IInv'
<1> DEFINE k == task[t]
<1>1. /\ k.pc = "refund" /\ UNCHANGED <<bags, data, festival, marked, jobs>>
      /\ gold' = [gold EXCEPT ![k.user] = @ + k.amount] /\ task' = Ended(t)
  BY DEF Refund
<1>2. k.user \in Users /\ k.amount \in Nat
  BY <1>1 DEF IInv, Handlers, HandlerOK
<1> HIDE DEF k
<1>3. Rest'
  BY <1>1, <1>2, RestHolds DEF Rest
<1> QED BY <1>1, <1>3, IdleOK, OneHandler DEF Ended

LEMMA FestiveStartStep ==
  ASSUME IInv, NEW t \in Tasks, NEW f \in Festivals, NEW content \in Contents,
         FestiveStart(t, f, content)
  PROVE  IInv'
<1> DEFINE r == NewBag(FESTIVE, f, content, None)
           k == [pc |-> "clear", todo |-> Groups, group |-> None, bag |-> r]
<1>1. /\ task' = [task EXCEPT ![t] = k] /\ UNCHANGED <<gold, bags, data, marked, jobs>>
      /\ festival' = [festival EXCEPT ![f] = "running"]
  BY Zenon DEF FestiveStart
<1>2. r \in NewBags
  BY NewBagType
<1> HIDE DEF r
<1>3. HandlerOK(k, Len(bags))
  BY <1>2 DEF HandlerOK
<1> HIDE DEF k
<1>4. Rest'
  BY <1>1, RestHolds DEF Rest
<1> QED BY <1>1, <1>3, <1>4, OneHandler

\* A broadcast's handler that removes festive bags, or none, and goes on.
LEMMA Cleared ==
  ASSUME IInv, NEW t \in Tasks, NEW g \in Groups, NEW k, HandlerOK(k, Len(bags)),
         task' = [task EXCEPT ![t] = k], UNCHANGED <<bags, marked>>, Rest',
         data' = data \/ data' = [data EXCEPT ![g] = Without(g, {FESTIVE})]
  PROVE  IInv'
<1> DEFINE n == Len(bags)
           w == Without(g, {FESTIVE})
<1>1. /\ Types /\ Handlers /\ n \in Nat /\ bags \in Seq(BagRecord)
      /\ data \in [Groups -> Seq(0..n)] /\ data[g] \in Seq(0..n)
  BY DEF IInv, Types
<1>2. CASE data' = data
  BY <1>2, OneHandler
<1>3. CASE data' = [data EXCEPT ![g] = w]
  <2> HIDE DEF n
  <2>1. /\ w \in Seq(0..n) /\ DOMAIN w = DOMAIN data[g]
        /\ \A i \in DOMAIN data[g] : w[i] # 0 => w[i] = data[g][i]
    BY <1>1, WithoutIs
  <2> HIDE DEF w
  <2>2. /\ data' \in [Groups -> Seq(0..n)] /\ data'[g] = w
        /\ \A h \in Groups : h # g => data'[h] = data[h]
    BY <1>1, <1>3, <2>1
  <2>3. Fewer(data, data')
    BY <2>1, <2>2, Zenon DEF Fewer
  <2>4. bags' = bags /\ marked' = marked
    OBVIOUS
  <2>5. Handlers' /\ DOMAIN task' = Tasks
    <3>1. Len(bags') \in Nat /\ Len(bags) \in Nat /\ Len(bags) <= Len(bags') /\ HandlerOK(k, Len(bags'))
      BY <1>1, <2>4 DEF n
    <3> QED BY <1>1, <3>1, HandlersStep, Zenon
  <2>6. Same(bags, bags') /\ \A f \in Festivals : marked[f] \subseteq marked'[f]
    BY <2>4, SameReflexive, Zenon
  <2> QED BY <1>1, <2>2, <2>3, <2>4, <2>5, <2>6, Kept, Zenon DEF n
<1> QED BY <1>2, <1>3

Broadcasting(k) == k \in [pc : {"clear", "give", "expire"}, todo : SUBSET Groups,
                          group : Groups \cup {None}, bag : NewBags]

LEMMA FestiveClearStep ==
  ASSUME IInv, NEW t \in Tasks, NEW g \in Groups, FestiveClear(t, g)
  PROVE  IInv'
<1> DEFINE k == task[t]
           old == BagAt(g, FESTIVE)
           next == [k EXCEPT !.pc = "give", !.todo = @ \ {g}, !.group = g]
           last == [next EXCEPT !.pc = "expire"]
<1>1. /\ k.pc = "clear" /\ g \in k.todo /\ UNCHANGED <<gold, bags, marked>>
      /\ \/ /\ jobs' = jobs \ {g} /\ task' = [task EXCEPT ![t] = next]
            /\ UNCHANGED <<data, festival>>
         \/ /\ data' = [data EXCEPT ![g] = Without(g, {FESTIVE})]
            /\ festival' = [festival EXCEPT ![bags[old].uuid] = "over"]
            /\ task' = [task EXCEPT ![t] = last]
            /\ UNCHANGED jobs
  BY DEF FestiveClear
<1>2. Broadcasting(k)
  BY <1>1 DEF IInv, Handlers, HandlerOK, Broadcasting
<1>3. Broadcasting(next) /\ next.pc = "give" /\ next.group = g
  BY <1>2 DEF Broadcasting
<1>4. Broadcasting(last) /\ last.pc = "expire" /\ last.group = g
  <2> HIDE DEF next
  <2> QED BY <1>3 DEF Broadcasting
<1> HIDE DEF k, next, last, old
<1>5. HandlerOK(next, Len(bags)) /\ HandlerOK(last, Len(bags))
  BY <1>3, <1>4 DEF HandlerOK, Broadcasting
<1>6. Rest'
  BY <1>1, RestHolds DEF Rest
<1> QED BY <1>1, <1>5, <1>6, Cleared, Zenon

LEMMA FestiveExpireStep ==
  ASSUME IInv, NEW t \in Tasks, FestiveExpire(t)
  PROVE  IInv'
<1> DEFINE k == task[t]
           next == [k EXCEPT !.pc = "give"]
<1>1. /\ k.pc = "expire" /\ UNCHANGED <<gold, bags, festival, marked>>
      /\ data' = data \/ data' = [data EXCEPT ![k.group] = Without(k.group, {FESTIVE})]
      /\ jobs' = jobs \ {k.group} /\ task' = [task EXCEPT ![t] = next]
  BY DEF FestiveExpire
<1>2. Broadcasting(k) /\ k.group \in Groups
  BY <1>1 DEF IInv, Handlers, HandlerOK, Broadcasting
<1>3. Broadcasting(next) /\ next.pc = "give" /\ next.group = k.group
  BY <1>2 DEF Broadcasting
<1> HIDE DEF k, next
<1>4. HandlerOK(next, Len(bags))
  BY <1>2, <1>3 DEF HandlerOK, Broadcasting
<1>5. Rest'
  BY <1>1, RestHolds DEF Rest
<1> QED BY <1>1, <1>2, <1>4, <1>5, Cleared, Zenon

LEMMA FestivePublishStep ==
  ASSUME IInv, NEW t \in Tasks, FestivePublish(t)
  PROVE  IInv'
<1> DEFINE k == task[t]
           n == Len(bags)
           next == [k EXCEPT !.pc = "clear"]
<1>1. /\ k.pc = "give" /\ UNCHANGED <<gold, festival, marked>>
      /\ bags' = Append(bags, k.bag) /\ jobs' = jobs \cup {k.group}
      /\ data' = [data EXCEPT ![k.group] = With(k.group, FESTIVE, Len(bags'))]
      /\ task' = Ended(t) \/ task' = [task EXCEPT ![t] = next]
  BY DEF FestivePublish
<1>2. Broadcasting(k) /\ k.group \in Groups
  BY <1>1 DEF IInv, Handlers, HandlerOK, Broadcasting
<1>3. k.bag \in NewBags /\ Broadcasting(next) /\ next.pc = "clear"
  BY <1>2 DEF Broadcasting
<1>4. Types /\ Handlers /\ n \in Nat /\ bags \in Seq(BagRecord) /\ Len(bags') = n + 1
  BY <1>1 DEF IInv, Types
<1> HIDE DEF k, next
<1>5. /\ data' \in [Groups -> Seq(0..(n + 1))]
      /\ OneMore(data, data', k.group, n + 1)
  BY <1>1, <1>2, <1>4, WithOneMore
<1>6. Handlers' /\ DOMAIN task' = Tasks
  <2>1. Len(bags') \in Nat /\ Len(bags) <= Len(bags')
    BY <1>4
  <2>2. HandlerOK(next, Len(bags'))
    BY <1>3 DEF HandlerOK, Broadcasting
  <2>3. CASE task' = Ended(t)
    BY <1>4, <2>1, <2>3, HandlersEnd, Zenon
  <2>4. CASE task' = [task EXCEPT ![t] = next]
    BY <1>4, <2>1, <2>2, <2>4, HandlersStep, Zenon
  <2> QED BY <1>1, <2>3, <2>4
<1>7. Rest'
  BY <1>1, <1>2, RestHolds DEF Rest
<1> QED BY <1>1, <1>2, <1>3, <1>5, <1>6, <1>7, PutUp, Zenon

LEMMA AutoEndStep ==
  ASSUME IInv, NEW t \in Tasks, NEW g \in Groups, AutoEnd(t, g)
  PROVE  IInv'
<1> DEFINE k == [pc |-> "end", uuid |-> bags[BagAt(g, FESTIVE)].uuid]
<1>1. /\ jobs' = jobs \ {g} /\ UNCHANGED <<gold, bags, data, festival, marked>>
      /\ task' = task \/ task' = [task EXCEPT ![t] = k]
  BY DEF AutoEnd
<1>2. HandlerOK(k, Len(bags))
  BY DEF HandlerOK
<1> HIDE DEF k
<1>3. Rest'
  BY <1>1, RestHolds DEF Rest
<1>4. CASE task' = [task EXCEPT ![t] = k]
  BY <1>1, <1>2, <1>3, <1>4, OneHandler
<1>5. CASE task' = task
  <2>1. /\ Types /\ Handlers /\ Len(bags) \in Nat /\ bags \in Seq(BagRecord)
        /\ data \in [Groups -> Seq(0..Len(bags))]
    BY DEF IInv, Types
  <2>2. bags' = bags /\ data' = data /\ marked' = marked /\ Len(bags) <= Len(bags')
    BY <1>1, <2>1
  <2>3. Handlers' /\ DOMAIN task' = Tasks
    BY <1>5, <2>1, <2>2, HandlersKept, Zenon
  <2>4. /\ Fewer(data, data') /\ \A f \in Festivals : marked[f] \subseteq marked'[f]
        /\ Same(bags, bags')
    BY <2>2, SameReflexive, Zenon DEF Fewer
  <2> QED BY <1>3, <2>1, <2>2, <2>3, <2>4, Kept, Zenon
<1> QED BY <1>1, <1>4, <1>5

LEMMA RemoveFestivalStep ==
  ASSUME IInv, NEW t \in Tasks, RemoveFestival(t)
  PROVE  IInv'
<1>1. /\ festival' = [festival EXCEPT ![task[t].uuid] = "over"]
      /\ UNCHANGED <<gold, bags, data, marked, jobs>> /\ task' = Ended(t)
  BY DEF RemoveFestival
<1>2. Rest'
  BY <1>1, RestHolds DEF Rest
<1> QED BY <1>1, <1>2, IdleOK, OneHandler DEF Ended
-----------------------------------------------------------------------------
\* The theorems

\* There are no bags at first.
LEMMA InitIInv == Init => IInv
<1> SUFFICES ASSUME Init PROVE IInv
  OBVIOUS
<1>1. /\ bags = <<>> /\ Len(bags) = 0 /\ DOMAIN bags = {} /\ bags \in Seq(BagRecord)
      /\ DOMAIN task = Tasks /\ \A t \in Tasks : task[t] = Idle
      /\ DOMAIN data = Groups /\ \A g \in Groups : data[g] = <<>>
  BY DEF Init
<1>2. data \in [Groups -> Seq(0..Len(bags))]
  <2>1. data = [g \in Groups |-> <<>>] /\ <<>> \in Seq(0..Len(bags))
    BY DEF Init
  <2> QED BY <2>1
<1>3. Types
  BY <1>1, <1>2, Zenon DEF Types
<1>4. Rest
  BY ContentsArePieces DEF Init, Rest
<1>5. TypeOK
  BY <1>3, <1>4, TypesGive
<1>6. Handlers
  BY <1>1, IdleOK DEF Handlers
<1>7. Homes /\ Returned
  <2>1. \A g \in Groups : DOMAIN data[g] = {}
    BY <1>1
  <2> QED BY <2>1, Zenon DEF Homes, Returned
<1>8. PiecesAccounted /\ Openers /\ OnePiece
  BY <1>1, Zenon DEF PiecesAccounted, Openers, OnePiece
<1> QED BY <1>3, <1>5, <1>6, <1>7, <1>8, Zenon DEF IInv

\* A step that changes nothing.
LEMMA StutterIInv == ASSUME IInv, UNCHANGED vars PROVE IInv'
BY Zenon DEF IInv, vars, TypeOK, Types, Handlers, Homes, Returned, PiecesAccounted, Openers, OnePiece

\* Every step.
LEMMA NextIInv == IInv /\ [Next]_vars => IInv'
<1> SUFFICES ASSUME IInv, [Next]_vars PROVE IInv'
  OBVIOUS
<1>1. CASE UNCHANGED vars
  BY <1>1, StutterIInv
<1>2. ASSUME NEW b \in DOMAIN bags, Age(b) PROVE IInv'
  BY <1>2, AgeStep
<1>3. ASSUME NEW t \in Tasks, Send(t) PROVE IInv'
  <2>1. CASE \E u \in Users, g \in Groups, c \in Contents, a \in Users \cup {None} :
               SendStart(t, u, g, c, a)
    BY <2>1, SendStartStep, Zenon
  <2>2. CASE SendRead(t)
    BY <2>2, SendReadStep
  <2>3. CASE SendSave(t)
    BY <2>3, SendSaveStep
  <2>4. CASE SendPublish(t)
    BY <2>4, SendPublishStep
  <2> QED BY <1>3, <2>1, <2>2, <2>3, <2>4, Zenon DEF Send
<1>4. ASSUME NEW t \in Tasks, Open(t) PROVE IInv'
  <2>1. CASE \E u \in Users, g \in Groups : OpenStart(t, u, g)
    BY <2>1, OpenStartStep, Zenon
  <2>2. CASE OpenPay(t)
    BY <2>2, OpenPayStep
  <2>3. CASE OpenRecord(t)
    BY <2>3, OpenRecordStep
  <2> QED BY <1>4, <2>1, <2>2, <2>3, Zenon DEF Open
<1>5. ASSUME NEW t \in Tasks, Return(t) PROVE IInv'
  BY <1>5, RefundStep, ReturnStartStep, Zenon DEF Return
<1>6. ASSUME NEW t \in Tasks, Broadcast(t) PROVE IInv'
  <2>1. CASE \E f \in Festivals, c \in Contents : FestiveStart(t, f, c)
    BY <2>1, FestiveStartStep, Zenon
  <2>2. CASE \E g \in Groups : FestiveClear(t, g) \/ AutoEnd(t, g)
    BY <2>2, FestiveClearStep, AutoEndStep, Zenon
  <2>3. CASE FestiveExpire(t)
    BY <2>3, FestiveExpireStep
  <2>4. CASE FestivePublish(t)
    BY <2>4, FestivePublishStep
  <2>5. CASE RemoveFestival(t)
    BY <2>5, RemoveFestivalStep
  <2> QED BY <1>6, <2>1, <2>2, <2>3, <2>4, <2>5, Zenon DEF Broadcast
<1> QED BY <1>1, <1>2, <1>3, <1>4, <1>5, <1>6, Zenon DEF Next

\* Types, what handlers remember, homes of bags, and the properties (GroupRedBag).
THEOREM Invariance == Spec => []IInv
BY InitIInv, NextIInv, PTL DEF Spec

\* Every variable keeps its type; no balance is ever negative, however many commands
\* save balances they read before an await.
THEOREM TypeCorrect == Spec => []TypeOK
<1>1. IInv => TypeOK
  BY Zenon DEF IInv
<1> QED BY <1>1, Invariance, PTL

\* What openers and promoter take from a bag is what was put in, for any contents of
\* the bags and any number of openers at once (open, settlement).
THEOREM Accounted == Spec => []PiecesAccounted
<1>1. IInv => PiecesAccounted
  BY Zenon DEF IInv
<1> QED BY <1>1, Invariance, PTL

\* A user gets one piece of a broadcast at most (FestiveRedBagManage.open).
THEOREM OncePerBroadcast == Spec => []FestiveOnce
<1>1. IInv => FestiveOnce
  <2> SUFFICES ASSUME IInv, NEW f \in Festivals, NEW u \in Users
               PROVE  Cardinality(Openings(f, u)) <= 1
    BY DEF FestiveOnce
  <2>1. ASSUME NEW x \in Openings(f, u), NEW y \in Openings(f, u) PROVE x = y
    <3>1. PICK b \in DOMAIN bags : x \in {b} \X Turns(bags[b])
      BY Zenon DEF Openings, Turns
    <3>2. PICK c \in DOMAIN bags : y \in {c} \X Turns(bags[c])
      BY Zenon DEF Openings, Turns
    <3>3. x[1] = b /\ x[2] \in Turns(bags[b]) /\ y[1] = c /\ y[2] \in Turns(bags[c])
          /\ x = <<x[1], x[2]>> /\ y = <<y[1], y[2]>>
      BY <3>1, <3>2
    <3>4. bags[b].uuid = f /\ Opener(bags[b], x[2]) = u
      BY <3>3, Zenon DEF Openings, Opener
    <3>5. bags[c].uuid = f /\ Opener(bags[c], y[2]) = u
      BY <3>3, Zenon DEF Openings, Opener
    <3>6. Once(bags[b], bags[c], b, c)
      BY Zenon DEF IInv, OnePiece
    <3>7. b = c /\ x[2] = y[2]
      BY <3>3, <3>4, <3>5, <3>6, Zenon DEF Once
    <3> QED BY <3>3, <3>7, Zenon
  <2>2. CASE Openings(f, u) = {}
    BY <2>2, FS_EmptySet
  <2>3. CASE Openings(f, u) # {}
    <3>1. PICK x : x \in Openings(f, u)
      BY <2>3
    <3>2. Openings(f, u) = {x}
      BY <2>1, <3>1, Zenon
    <3>3. Cardinality({x}) = 1
      BY FS_Singleton, Zenon
    <3> QED BY <3>2, <3>3
  <2> QED BY <2>2, <2>3
<1> QED BY <1>1, Invariance, PTL
=============================================================================
