-------------------------- MODULE SendQueueProofs --------------------------
(***************************************************************************)
(* Theorems about SendQueue, for every value of its constants that its     *)
(* assumptions allow.  The invariants follow from IInv, which is           *)
(* inductive: InitIInv, StepIInv and the temporal step SpecIInv.           *)
(***************************************************************************)
EXTENDS SendQueue, FiniteSetTheorems, SequenceTheorems, TLAPS

-----------------------------------------------------------------------------
\* Sequences without repetition: the waiting items and the waiters of a lock

\* Appending adds one element, and keeps a sequence without repetition one.
LEMMA ToSetAppend ==
  ASSUME NEW S, NEW s \in Seq(S), NEW e \in S
  PROVE  /\ Append(s, e) \in Seq(S)
         /\ Len(Append(s, e)) = Len(s) + 1
         /\ ToSet(Append(s, e)) = ToSet(s) \cup {e}
         /\ IsInjective(s) /\ e \notin ToSet(s) => IsInjective(Append(s, e))
<1> DEFINE t == Append(s, e)
<1>1. /\ t \in Seq(S) /\ Len(t) = Len(s) + 1
      /\ \A i \in 1..Len(s) : t[i] = s[i]
      /\ t[Len(s) + 1] = e
  OBVIOUS
<1> HIDE DEF t
<1>2. DOMAIN t = 1..(Len(s) + 1) /\ DOMAIN s = 1..Len(s) /\ Len(s) \in Nat
  BY <1>1
<1>3. ToSet(t) = ToSet(s) \cup {e}
  <2>1. ToSet(t) \subseteq ToSet(s) \cup {e}
    BY <1>1, <1>2 DEF ToSet
  <2>2. ToSet(s) \cup {e} \subseteq ToSet(t)
    BY <1>1, <1>2, Len(s) + 1 \in 1..(Len(s) + 1) DEF ToSet
  <2> QED BY <2>1, <2>2
<1>4. ASSUME IsInjective(s), e \notin ToSet(s) PROVE IsInjective(t)
  <2> SUFFICES ASSUME NEW a \in 1..(Len(s) + 1), NEW b \in 1..(Len(s) + 1), t[a] = t[b]
               PROVE  a = b
    BY <1>2 DEF IsInjective
  <2>1. CASE a \in 1..Len(s) /\ b \in 1..Len(s)
    BY <1>1, <1>2, <1>4, <2>1 DEF IsInjective
  <2>2. CASE a = Len(s) + 1 /\ b \in 1..Len(s)
    BY <1>1, <1>2, <1>4, <2>2 DEF ToSet
  <2>3. CASE b = Len(s) + 1 /\ a \in 1..Len(s)
    BY <1>1, <1>2, <1>4, <2>3 DEF ToSet
  <2> QED BY <1>2, <2>1, <2>2, <2>3
<1> QED BY <1>1, <1>3, <1>4 DEF t

\* Taking the head of a sequence without repetition removes that element.
LEMMA ToSetTail ==
  ASSUME NEW S, NEW s \in Seq(S), s # <<>>
  PROVE  /\ Head(s) \in S /\ Head(s) \in ToSet(s)
         /\ Tail(s) \in Seq(S) /\ Len(Tail(s)) = Len(s) - 1
         /\ ToSet(s) = ToSet(Tail(s)) \cup {Head(s)}
         /\ IsInjective(s) => /\ IsInjective(Tail(s))
                              /\ ToSet(Tail(s)) = ToSet(s) \ {Head(s)}
<1> DEFINE t == Tail(s)
<1>1. /\ t \in Seq(S) /\ Len(t) = Len(s) - 1 /\ Len(s) \in Nat \ {0}
      /\ \A i \in 1..Len(t) : t[i] = s[i + 1]
      /\ Head(s) = s[1] /\ s[1] \in S
  OBVIOUS
<1> HIDE DEF t
<1>2. DOMAIN t = 1..(Len(s) - 1) /\ DOMAIN s = 1..Len(s)
  BY <1>1
<1>3. Head(s) \in ToSet(s)
  BY <1>1, <1>2, 1 \in 1..Len(s) DEF ToSet
<1>4. ToSet(s) = ToSet(t) \cup {Head(s)}
  <2>1. ToSet(t) \subseteq ToSet(s)
    <3>1. ASSUME NEW i \in DOMAIN t PROVE t[i] \in ToSet(s)
      <4>1. i + 1 \in DOMAIN s /\ t[i] = s[i + 1]
        BY <1>1, <1>2
      <4> QED BY <4>1 DEF ToSet
    <3> QED BY <3>1 DEF ToSet
  <2>2. ASSUME NEW i \in 1..Len(s)
        PROVE  i = 1 \/ (i - 1 \in 1..(Len(s) - 1) /\ s[i] = t[i - 1])
    <3>1. CASE i # 1
      <4>1. i - 1 \in 1..(Len(s) - 1) /\ (i - 1) + 1 = i
        BY <1>1, <3>1
      <4> QED BY <1>1, <4>1
    <3> QED BY <3>1
  <2>3. ASSUME NEW i \in DOMAIN s PROVE s[i] \in ToSet(t) \cup {Head(s)}
    BY <1>1, <1>2, <2>2 DEF ToSet
  <2>4. ToSet(s) \subseteq ToSet(t) \cup {Head(s)}
    BY <2>3 DEF ToSet
  <2> QED BY <1>3, <2>1, <2>4
<1>5. ASSUME IsInjective(s) PROVE IsInjective(t) /\ Head(s) \notin ToSet(t)
  <2>1. IsInjective(t)
    <3> SUFFICES ASSUME NEW i \in DOMAIN t, NEW j \in DOMAIN t, t[i] = t[j] PROVE i = j
      BY DEF IsInjective
    <3>1. /\ i + 1 \in DOMAIN s /\ j + 1 \in DOMAIN s /\ s[i + 1] = s[j + 1]
          /\ i \in Int /\ j \in Int
      BY <1>1, <1>2
    <3>2. i + 1 = j + 1
      BY <1>5, <3>1 DEF IsInjective
    <3> QED BY <3>1, <3>2
  <2>2. ASSUME NEW i \in 1..(Len(s) - 1) PROVE t[i] # s[1]
    <3>1. t[i] = s[i + 1] /\ i + 1 \in DOMAIN s /\ 1 \in DOMAIN s /\ i + 1 # 1
      BY <1>1, <1>2
    <3> QED BY <1>5, <3>1 DEF IsInjective
  <2>3. Head(s) \notin ToSet(t)
    BY <1>1, <1>2, <2>2 DEF ToSet
  <2> QED BY <2>1, <2>3
<1> QED BY <1>1, <1>3, <1>4, <1>5 DEF t

\* Removing one place of a sequence moves what comes after it up.
LEMMA RemoveAtShifts ==
  ASSUME NEW S, NEW s \in Seq(S), NEW i \in 1..Len(s)
  PROVE  /\ RemoveAt(s, i) \in Seq(S) /\ Len(RemoveAt(s, i)) = Len(s) - 1
         /\ \A j \in 1..(Len(s) - 1) :
              RemoveAt(s, i)[j] = IF j < i THEN s[j] ELSE s[j+1]
<1> DEFINE t == RemoveAt(s, i)
<1> DEFINE u == SubSeq(s, 1, i-1)
           v == SubSeq(s, i+1, Len(s))
<1>1. /\ Len(s) \in Nat /\ i \in Nat /\ 1 <= i /\ i <= Len(s)
      /\ \A j \in 1..Len(s) : s[j] \in S
  OBVIOUS
<1>2. u \in Seq(S) /\ Len(u) = i-1 /\ \A j \in 1..(i-1) : u[j] = s[j]
  <2>1. \A j \in 1..(i-1) : s[j] \in S
    BY <1>1
  <2>2. /\ u \in Seq(S)
        /\ Len(u) = IF 1 <= i-1 THEN i-1-1+1 ELSE 0
        /\ \A j \in 1..(i-1-1+1) : u[j] = s[1+j-1]
    BY <1>1, <2>1, SubSeqProperties, 1 \in Int, i-1 \in Int
  <2> HIDE DEF u
  <2> QED BY <1>1, <2>2
<1>3. v \in Seq(S) /\ Len(v) = Len(s)-i /\ \A j \in 1..(Len(s)-i) : v[j] = s[i+j]
  <2>1. \A j \in (i+1)..Len(s) : s[j] \in S
    BY <1>1
  <2>2. /\ v \in Seq(S)
        /\ Len(v) = IF i+1 <= Len(s) THEN Len(s)-(i+1)+1 ELSE 0
        /\ \A j \in 1..(Len(s)-(i+1)+1) : v[j] = s[(i+1)+j-1]
    BY <1>1, <2>1, SubSeqProperties, Len(s) \in Int, i+1 \in Int
  <2> HIDE DEF v
  <2> QED BY <1>1, <2>2
<1>4. t = u \o v
  BY DEF RemoveAt
<1> HIDE DEF t, u, v
<1>5. /\ t \in Seq(S) /\ Len(t) = Len(u) + Len(v)
      /\ \A j \in 1..(Len(u) + Len(v)) : t[j] = IF j <= Len(u) THEN u[j] ELSE v[j-Len(u)]
  <2>1. u \in Seq(S) /\ v \in Seq(S)
    BY <1>2, <1>3
  <2>2. /\ u \o v \in Seq(S) /\ Len(u \o v) = Len(u) + Len(v)
        /\ \A j \in 1..(Len(u) + Len(v)) :
             (u \o v)[j] = IF j <= Len(u) THEN u[j] ELSE v[j-Len(u)]
    BY <2>1, ConcatProperties, Zenon
  <2> QED BY <1>4, <2>2, Zenon
<1>6. /\ t \in Seq(S) /\ Len(t) = (i-1) + (Len(s)-i)
      /\ \A j \in 1..((i-1) + (Len(s)-i)) : t[j] = IF j <= i-1 THEN u[j] ELSE v[j-(i-1)]
  BY <1>2, <1>3, <1>5, Zenon
<1>7. Len(t) = Len(s) - 1
  BY <1>1, <1>6
<1>8. ASSUME NEW j \in 1..(Len(s)-1) PROVE t[j] = IF j < i THEN s[j] ELSE s[j+1]
  <2>1. CASE j < i
    <3>1. j \in 1..(i-1) /\ j \in 1..((i-1) + (Len(s)-i)) /\ j <= i-1
      BY <1>1, <2>1
    <3>2. t[j] = u[j] /\ u[j] = s[j]
      BY <1>2, <1>6, <3>1
    <3> QED BY <2>1, <3>2
  <2>2. CASE ~(j < i)
    <3>1. j-(i-1) \in 1..(Len(s)-i) /\ j \in 1..((i-1) + (Len(s)-i)) /\ ~(j <= i-1)
      BY <1>1, <2>2
    <3>2. t[j] = v[j-(i-1)] /\ v[j-(i-1)] = s[i+(j-(i-1))]
      BY <1>3, <1>6, <3>1
    <3>3. i+(j-(i-1)) = j+1
      BY <1>1
    <3> QED BY <2>2, <3>2, <3>3
  <2> QED BY <2>1, <2>2
<1> QED BY <1>1, <1>6, <1>7, <1>8 DEF t

\* Removing one place of a sequence without repetition removes its element.
LEMMA RemoveAtRemoves ==
  ASSUME NEW S, NEW s \in Seq(S), NEW i \in 1..Len(s), IsInjective(s)
  PROVE  /\ RemoveAt(s, i) \in Seq(S)
         /\ ToSet(RemoveAt(s, i)) = ToSet(s) \ {s[i]}
         /\ IsInjective(RemoveAt(s, i))
<1> DEFINE t == RemoveAt(s, i)
<1> HIDE DEF t
<1>1. Len(s) \in Nat /\ i \in Nat /\ 1 <= i /\ i <= Len(s)
  OBVIOUS
<1>2. /\ t \in Seq(S) /\ Len(t) = Len(s) - 1
      /\ \A j \in 1..(Len(s) - 1) : t[j] = IF j < i THEN s[j] ELSE s[j+1]
  BY RemoveAtShifts, Zenon DEF t
<1>3. DOMAIN t = 1..(Len(s) - 1) /\ DOMAIN s = 1..Len(s)
  BY <1>2
<1>4. \A j \in 1..Len(s) : j # i => \E k \in 1..(Len(s) - 1) : t[k] = s[j]
  <2>1. TAKE j \in 1..Len(s)
  <2>2. HAVE j # i
  <2>3. CASE j < i
    BY <1>1, <1>2, <2>3, j \in 1..(Len(s) - 1)
  <2>4. CASE j > i
    <3>1. j-1 \in 1..(Len(s) - 1) /\ ~(j-1 < i) /\ (j-1)+1 = j
      BY <1>1, <2>4
    <3> QED BY <1>2, <3>1
  <2> QED BY <1>1, <2>2, <2>3, <2>4
<1>5. \A j \in 1..(Len(s) - 1) : t[j] \in ToSet(s) /\ t[j] # s[i]
  <2>1. TAKE j \in 1..(Len(s) - 1)
  <2>2. \E k \in 1..Len(s) : k # i /\ t[j] = s[k]
    <3>1. CASE j < i
      BY <1>1, <1>2, <3>1, j \in 1..Len(s)
    <3>2. CASE ~(j < i)
      BY <1>1, <1>2, <3>2, j+1 \in 1..Len(s), j+1 # i
    <3> QED BY <3>1, <3>2
  <2> QED BY <1>1, <1>3, <2>2 DEF ToSet, IsInjective
<1>6. ToSet(t) = ToSet(s) \ {s[i]}
  <2>1. ASSUME NEW x \in ToSet(s), x # s[i] PROVE x \in ToSet(t)
    <3>1. PICK j \in 1..Len(s) : x = s[j]
      BY <1>3 DEF ToSet
    <3>2. PICK k \in 1..(Len(s) - 1) : t[k] = s[j]
      BY <1>4, <2>1, <3>1
    <3> QED BY <1>3, <3>1, <3>2 DEF ToSet
  <2>2. ASSUME NEW x \in ToSet(t) PROVE x \in ToSet(s) \ {s[i]}
    BY <1>3, <1>5 DEF ToSet
  <2> QED BY <2>1, <2>2
<1>7. IsInjective(t)
  <2> SUFFICES ASSUME NEW a \in 1..(Len(s) - 1), NEW b \in 1..(Len(s) - 1), t[a] = t[b]
               PROVE  a = b
    BY <1>3 DEF IsInjective
  <2> DEFINE at(j) == IF j < i THEN j ELSE j+1
  <2>1. ASSUME NEW j \in 1..(Len(s) - 1) PROVE at(j) \in 1..Len(s) /\ t[j] = s[at(j)]
    <3>1. j \in 1..Len(s) /\ j + 1 \in 1..Len(s)
      BY <1>1
    <3>2. t[j] = IF j < i THEN s[j] ELSE s[j+1]
      BY <1>2
    <3> QED BY <3>1, <3>2
  <2>2. at(a) = at(b)
    <3>1. /\ at(a) \in DOMAIN s /\ t[a] = s[at(a)]
          /\ at(b) \in DOMAIN s /\ t[b] = s[at(b)]
      BY <1>3, <2>1
    <3> QED BY <3>1, Zenon DEF IsInjective
  <2>3. a \in Int /\ b \in Int /\ i \in Int
    BY <1>1
  <2>4. \A x, y, z \in Int :
          (IF x < z THEN x ELSE x+1) = (IF y < z THEN y ELSE y+1) => x = y
    OBVIOUS
  <2> QED BY <2>2, <2>3, <2>4, Zenon
<1> QED BY <1>2, <1>6, <1>7 DEF t

\* Leave takes one element out of a sequence without repetition.
LEMMA LeaveRemoves ==
  ASSUME NEW S, NEW s \in Seq(S), NEW e, IsInjective(s)
  PROVE  /\ Leave(s, e) \in Seq(S)
         /\ ToSet(Leave(s, e)) = ToSet(s) \ {e}
         /\ IsInjective(Leave(s, e))
<1>1. CASE e \notin ToSet(s)
  BY <1>1, Zenon DEF Leave
<1>2. CASE e \in ToSet(s)
  <2>1. PICK j \in DOMAIN s : s[j] = e
    BY <1>2 DEF ToSet
  <2> DEFINE i == CHOOSE k \in DOMAIN s : s[k] = e
  <2>2. i \in 1..Len(s) /\ s[i] = e
    BY <2>1
  <2>3. Leave(s, e) = RemoveAt(s, i)
    BY <1>2 DEF Leave
  <2> HIDE DEF i
  <2>4. /\ RemoveAt(s, i) \in Seq(S)
        /\ ToSet(RemoveAt(s, i)) = ToSet(s) \ {s[i]}
        /\ IsInjective(RemoveAt(s, i))
    BY <2>2, RemoveAtRemoves
  <2> QED BY <2>2, <2>3, <2>4
<1> QED BY <1>1, <1>2

-----------------------------------------------------------------------------
\* An empty sequence has no elements and no repetition.
LEMMA EmptyHasNone ==
  ToSet(<<>>) = {} /\ IsInjective(<<>>) /\ Len(<<>>) = 0
BY DEF ToSet, IsInjective

\* The number of workers that hold an item.
HolderCount(h) == Cardinality({v \in Workers : h[v] # None})

\* A worker that takes an item adds one to the holders, one that gives it up
\* removes one.
LEMMA HoldersCount ==
  ASSUME NEW h \in [Workers -> Requests \cup {None}],
         NEW g \in [Workers -> Requests \cup {None}], NEW w \in Workers,
         \A v \in Workers \ {w} : h[v] = g[v]
  PROVE  /\ HolderCount(h) \in Nat /\ HolderCount(g) \in Nat
         /\ h[w] = None /\ g[w] # None => HolderCount(g) = HolderCount(h) + 1
         /\ h[w] # None /\ g[w] = None => HolderCount(h) = HolderCount(g) + 1
         /\ h[w] = None /\ g[w] = None => HolderCount(h) = HolderCount(g)
<1> DEFINE A == {v \in Workers : h[v] # None}
           B == {v \in Workers : g[v] # None}
<1>1. IsFiniteSet(A) /\ IsFiniteSet(B)
  BY WorkersFinite, FS_Subset
<1>2. Cardinality(A) \in Nat /\ Cardinality(B) \in Nat
  BY <1>1, FS_CardinalityType
<1>3. ASSUME h[w] = None, g[w] # None PROVE Cardinality(B) = Cardinality(A) + 1
  <2>1. B = A \cup {w} /\ w \notin A
    BY <1>3
  <2> QED BY <1>1, <2>1, FS_AddElement
<1>4. ASSUME h[w] # None, g[w] = None PROVE Cardinality(A) = Cardinality(B) + 1
  <2>1. A = B \cup {w} /\ w \notin B
    BY <1>4
  <2> QED BY <1>1, <2>1, FS_AddElement
<1>5. ASSUME h[w] = None, g[w] = None PROVE A = B
  BY <1>5
<1> QED BY <1>2, <1>3, <1>4, <1>5 DEF HolderCount

\* The elements of a sequence over a set are in the set.
LEMMA InFlightAreRequests ==
  TypeOK => /\ InFlight \subseteq Requests
            /\ ToSet(queue) \subseteq Requests /\ ToSet(sent) \subseteq Requests
BY DEF TypeOK, InFlight, ToSet

-----------------------------------------------------------------------------
\* The initial state satisfies the inductive invariant.
LEMMA InitIInv == Init => IInv
<1> SUFFICES ASSUME Init PROVE IInv
  OBVIOUS
<1> USE EmptyHasNone
<1>1. TypeOK
  BY SizesPositive DEF Init, TypeOK, Phases, Routes, Replies
<1>2. JoinCountIsExact
  <2>1. {w \in Workers : held[w] # None} = {}
    BY DEF Init
  <2> QED BY <2>1, FS_EmptySet DEF Init, JoinCountIsExact
<1>3. PendingIsOwned /\ OnePlaceEach /\ SentWhenCalling /\ RouteHasActor
      /\ HeldIsInFlight /\ EmptyWhenStopped
  BY DEF Init, PendingIsOwned, OnePlaceEach, SentWhenCalling, RouteHasActor,
         HeldIsInFlight, EmptyWhenStopped, InFlight
<1> QED BY <1>1, <1>2, <1>3 DEF IInv
-----------------------------------------------------------------------------
\* Every step preserves the inductive invariant, one lemma to each group of
\* actions.  In each, the first facts say what the step does to the sets of
\* elements of the sequences.

Structure == OnePlaceEach /\ SentWhenCalling /\ RouteHasActor /\ HeldIsInFlight

\* A caller that makes a call starts from a request that is nowhere yet.
LEMMA FreshIsNowhere ==
  ASSUME TypeOK, Structure, NEW r \in Requests, reply[r] = "idle"
  PROVE  /\ r \notin ToSet(queue) \cup InFlight \cup ToSet(sent)
         /\ \A w \in Workers : held[w] # r
BY RequestsDisjoint DEF TypeOK, Structure, SentWhenCalling, HeldIsInFlight

\* Calls of the original function, with or without a queue.
LEMMA StepCallRaw ==
  ASSUME IInv, NEW r \in Requests, CallRaw(r) PROVE IInv'
<1> USE DEF CallRaw, Begin
<1>1. TypeOK /\ Structure
  BY DEF IInv, Structure
<1>2. /\ r \notin ToSet(queue) \cup InFlight \cup ToSet(sent)
      /\ \A w \in Workers : held[w] # r
  BY <1>1, FreshIsNowhere
<1>3. /\ sent' \in Seq(Requests) /\ ToSet(sent') = ToSet(sent) \cup {r}
      /\ IsInjective(sent')
  BY <1>1, <1>2, ToSetAppend DEF TypeOK, Structure, OnePlaceEach
<1>4. TypeOK'
  BY <1>1, <1>3 DEF TypeOK, Routes, Replies
<1>5. PendingIsOwned'
  BY <1>4, <1>1 DEF IInv, PendingIsOwned, Owned, TypeOK
<1>6. JoinCountIsExact' /\ EmptyWhenStopped'
  BY DEF IInv, JoinCountIsExact, EmptyWhenStopped
<1>7. OnePlaceEach'
  BY <1>1, <1>2, <1>3 DEF Structure, OnePlaceEach, InFlight
<1>8. SentWhenCalling'
  BY <1>1, <1>2, <1>3 DEF Structure, SentWhenCalling, InFlight, TypeOK
<1>9. RouteHasActor'
  BY <1>1, <1>2 DEF Structure, RouteHasActor, InFlight, TypeOK
<1>10. HeldIsInFlight'
  BY <1>1, <1>2 DEF Structure, HeldIsInFlight, InFlight, TypeOK
<1> QED BY <1>4, <1>5, <1>6, <1>7, <1>8, <1>9, <1>10 DEF IInv

\* The item goes on the queue.
LEMMA StepEnqueue ==
  ASSUME IInv, NEW r \in Requests, Enqueue(r) PROVE IInv'
<1> USE DEF Enqueue, Put, Begin, Patched, Stopping
<1>1. TypeOK /\ Structure
  BY DEF IInv, Structure
<1>2. /\ r \notin ToSet(queue) \cup InFlight \cup ToSet(sent)
      /\ \A w \in Workers : held[w] # r
  BY <1>1, FreshIsNowhere
<1>3. /\ queue' \in Seq(Requests) /\ ToSet(queue') = ToSet(queue) \cup {r}
      /\ IsInjective(queue') /\ Len(queue') = Len(queue) + 1
      /\ accepted' \in Seq(Requests)
  BY <1>1, <1>2, ToSetAppend DEF TypeOK, Structure, OnePlaceEach
<1>4. TypeOK'
  <2>1. Len(queue) \in Nat
    BY <1>1 DEF TypeOK
  <2> QED BY <1>1, <1>3, <2>1, SizesPositive DEF TypeOK, Routes, Replies
<1>5. PendingIsOwned'
  BY <1>1, <1>3 DEF IInv, PendingIsOwned, Owned, TypeOK
<1>6. JoinCountIsExact'
  <2>1. Cardinality({w \in Workers : held[w] # None}) \in Nat
    BY WorkersFinite, FS_Subset, FS_CardinalityType, {w \in Workers : held[w] # None} \subseteq Workers
  <2> QED BY <1>1, <1>3, <2>1 DEF IInv, JoinCountIsExact, TypeOK
<1>7. OnePlaceEach'
  BY <1>1, <1>2, <1>3 DEF Structure, OnePlaceEach, InFlight
<1>8. SentWhenCalling'
  BY <1>1, <1>2, <1>3 DEF Structure, SentWhenCalling, InFlight, TypeOK
<1>9. RouteHasActor'
  BY <1>1, <1>2, <1>3 DEF Structure, RouteHasActor, InFlight, TypeOK
<1>10. HeldIsInFlight'
  BY <1>1, <1>2 DEF Structure, HeldIsInFlight, InFlight, TypeOK
<1>11. EmptyWhenStopped'
  BY DEF IInv, EmptyWhenStopped
<1> QED BY <1>4, <1>5, <1>6, <1>7, <1>8, <1>9, <1>10, <1>11 DEF IInv

\* A dropped send_like goes nowhere.
LEMMA StepDropLike ==
  ASSUME IInv, NEW r \in Requests, DropLike(r) PROVE IInv'
<1> USE DEF DropLike
<1>1. TypeOK /\ Structure
  BY DEF IInv, Structure
<1>2. /\ r \notin ToSet(queue) \cup InFlight \cup ToSet(sent)
      /\ \A w \in Workers : held[w] # r
  BY <1>1, FreshIsNowhere
<1>3. TypeOK' /\ PendingIsOwned'
  BY <1>1 DEF IInv, TypeOK, Replies, PendingIsOwned, Owned
<1>4. JoinCountIsExact' /\ OnePlaceEach' /\ HeldIsInFlight' /\ EmptyWhenStopped'
  BY DEF IInv, JoinCountIsExact, OnePlaceEach, HeldIsInFlight, EmptyWhenStopped, InFlight
<1>5. SentWhenCalling' /\ RouteHasActor'
  BY <1>1, <1>2 DEF Structure, SentWhenCalling, RouteHasActor, InFlight, TypeOK
<1> QED BY <1>3, <1>4, <1>5 DEF IInv

\* A caller that sends by itself joins the waiters of the rate limit.
LEMMA StepCallDirect ==
  ASSUME IInv, NEW r \in Requests, CallDirect(r) PROVE IInv'
<1> USE DEF CallDirect, Begin
<1>1. TypeOK /\ Structure
  BY DEF IInv, Structure
<1>2. /\ r \notin ToSet(queue) \cup InFlight \cup ToSet(sent)
      /\ \A w \in Workers : held[w] # r
  BY <1>1, FreshIsNowhere
<1>3. /\ lock' \in Seq(Requests) /\ ToSet(lock') = ToSet(lock) \cup {r}
      /\ IsInjective(lock')
  BY <1>1, <1>2, ToSetAppend DEF TypeOK, Structure, OnePlaceEach, InFlight
<1>4. TypeOK' /\ PendingIsOwned'
  BY <1>1, <1>3 DEF IInv, TypeOK, Routes, Replies, PendingIsOwned, Owned
<1>5. JoinCountIsExact' /\ EmptyWhenStopped'
  BY DEF IInv, JoinCountIsExact, EmptyWhenStopped
<1>6. OnePlaceEach'
  BY <1>1, <1>2, <1>3 DEF Structure, OnePlaceEach, InFlight
<1>7. SentWhenCalling'
  BY <1>1, <1>2, <1>3 DEF Structure, SentWhenCalling, InFlight, TypeOK
<1>8. RouteHasActor'
  BY <1>1, <1>2, <1>3 DEF Structure, RouteHasActor, InFlight, TypeOK
<1>9. HeldIsInFlight'
  BY <1>1, <1>2, <1>3 DEF Structure, HeldIsInFlight, InFlight, TypeOK
<1> QED BY <1>4, <1>5, <1>6, <1>7, <1>8, <1>9 DEF IInv

\* A cancelled caller loses its future, or leaves the place it waits in.
LEMMA StepCancelCaller ==
  ASSUME IInv, NEW r \in Requests, CancelCaller(r) PROVE IInv'
<1> USE DEF CancelCaller
<1>1. TypeOK /\ Structure
  BY DEF IInv, Structure
<1>2. CASE via[r] = "queue"
  <2>1. TypeOK' /\ PendingIsOwned'
    BY <1>1, <1>2 DEF IInv, TypeOK, Replies, PendingIsOwned, Owned
  <2>2. JoinCountIsExact' /\ OnePlaceEach' /\ HeldIsInFlight' /\ EmptyWhenStopped'
    BY <1>2 DEF IInv, JoinCountIsExact, OnePlaceEach, HeldIsInFlight, EmptyWhenStopped,
                InFlight
  <2>3. SentWhenCalling' /\ RouteHasActor'
    BY <1>1, <1>2 DEF Structure, SentWhenCalling, RouteHasActor, InFlight, TypeOK
  <2> QED BY <2>1, <2>2, <2>3 DEF IInv
<1>3. CASE via[r] # "queue"
  <2>1. /\ lock' \in Seq(Requests) /\ ToSet(lock') = ToSet(lock) \ {r} /\ IsInjective(lock')
        /\ slot' \in Seq(Requests) /\ ToSet(slot') = ToSet(slot) \ {r} /\ IsInjective(slot')
        /\ calling' = calling \ {r}
    BY <1>1, <1>3, LeaveRemoves DEF TypeOK, Structure, OnePlaceEach
  <2>2. TypeOK' /\ PendingIsOwned'
    BY <1>1, <2>1 DEF IInv, TypeOK, Replies, PendingIsOwned, Owned
  <2>3. JoinCountIsExact' /\ EmptyWhenStopped'
    BY DEF IInv, JoinCountIsExact, EmptyWhenStopped
  <2>4. OnePlaceEach'
    BY <1>1, <2>1 DEF Structure, OnePlaceEach, InFlight
  <2>5. SentWhenCalling'
    BY <1>1, <2>1 DEF Structure, SentWhenCalling, InFlight, TypeOK
  <2>6. RouteHasActor'
    BY <1>1, <2>1 DEF Structure, RouteHasActor, InFlight, TypeOK
  <2>7. HeldIsInFlight'
    BY <1>1, <1>3, <2>1 DEF Structure, HeldIsInFlight, InFlight, TypeOK
  <2> QED BY <2>2, <2>3, <2>4, <2>5, <2>6, <2>7 DEF IInv
<1> QED BY <1>2, <1>3

\* The head of the queue passes to a worker and to the rate limit.
LEMMA StepTake ==
  ASSUME IInv, NEW w \in Workers, Take(w) PROVE IInv'
<1> USE DEF Take
<1> DEFINE r == Head(queue)
<1>1. TypeOK /\ Structure
  BY DEF IInv, Structure
<1>2. /\ r \in Requests /\ r \in ToSet(queue) /\ queue' \in Seq(Requests)
      /\ ToSet(queue') = ToSet(queue) \ {r} /\ IsInjective(queue')
      /\ Len(queue') = Len(queue) - 1
  BY <1>1, ToSetTail DEF TypeOK, Structure, OnePlaceEach
<1>3. lock' = Append(lock, r) /\ held' = [held EXCEPT ![w] = r]
  OBVIOUS
<1> HIDE DEF r
<1>4. r # None /\ via[r] = "queue" /\ r \notin InFlight /\ r \notin ToSet(sent)
  BY <1>1, <1>2, RequestsDisjoint DEF Structure, OnePlaceEach, SentWhenCalling, RouteHasActor
<1>5. \A v \in Workers : held[v] # r
  BY <1>1, <1>4 DEF Structure, HeldIsInFlight
<1>6. /\ lock' \in Seq(Requests) /\ ToSet(lock') = ToSet(lock) \cup {r}
      /\ IsInjective(lock')
  BY <1>1, <1>2, <1>3, <1>4, ToSetAppend DEF TypeOK, Structure, OnePlaceEach, InFlight
<1>7. TypeOK'
  <2>1. Len(queue) \in Nat
    BY <1>1 DEF TypeOK
  <2> QED BY <1>1, <1>2, <1>3, <1>6, <2>1, SizesPositive DEF TypeOK
<1>8. PendingIsOwned'
  <2>1. \A v \in alive : held[v] # None => held'[v] = held[v]
    BY <1>1, <1>3 DEF TypeOK
  <2>2. w \in alive' /\ held'[w] = r
    BY <1>1, <1>3 DEF TypeOK
  <2> QED BY <1>1, <1>2, <2>1, <2>2, RequestsDisjoint DEF IInv, PendingIsOwned, Owned, TypeOK
<1>9. JoinCountIsExact'
  <2>1. held \in [Workers -> Requests \cup {None}] /\ held' \in [Workers -> Requests \cup {None}]
    BY <1>1, <1>7 DEF TypeOK
  <2>2. held[w] = None /\ held'[w] # None /\ \A v \in Workers \ {w} : held[v] = held'[v]
    BY <1>3, <1>4, <2>1
  <2>4. HolderCount(held') = HolderCount(held) + 1 /\ HolderCount(held) \in Nat
    BY <2>1, <2>2, HoldersCount
  <2>3. Len(queue) \in Nat
    BY <1>1 DEF TypeOK
  <2> QED BY <1>2, <2>3, <2>4 DEF IInv, JoinCountIsExact, HolderCount
<1>10. OnePlaceEach'
  BY <1>1, <1>2, <1>4, <1>6 DEF Structure, OnePlaceEach, InFlight
<1>11. SentWhenCalling'
  BY <1>1, <1>2, <1>4, <1>6 DEF Structure, SentWhenCalling, InFlight, TypeOK
<1>12. RouteHasActor'
  <2>1. \A v \in alive : held[v] # None => held'[v] = held[v]
    BY <1>1, <1>3 DEF TypeOK
  <2>2. w \in alive' /\ held'[w] = r
    BY <1>1, <1>3 DEF TypeOK
  <2>3. InFlight' = InFlight \cup {r} /\ InFlight \subseteq Requests
    BY <1>1, <1>6, InFlightAreRequests DEF InFlight
  <2>4. \A q \in InFlight' : IF via'[q] = "queue" THEN \E v \in alive' : held'[v] = q
                                                 ELSE reply'[q] = "waiting"
    BY <1>1, <1>4, <2>1, <2>2, <2>3, RequestsDisjoint DEF Structure, RouteHasActor
  <2> QED BY <1>1, <1>2, <1>4, <1>6, <2>4 DEF Structure, RouteHasActor
<1>13. HeldIsInFlight'
  BY <1>1, <1>2, <1>3, <1>4, <1>5, <1>6 DEF Structure, HeldIsInFlight, InFlight, TypeOK
<1>14. EmptyWhenStopped'
  BY DEF IInv, EmptyWhenStopped
<1> QED BY <1>7, <1>8, <1>9, <1>10, <1>11, <1>12, <1>13, <1>14 DEF IInv

\* The head of the lock passes to the semaphore.
LEMMA StepPassRateLimit ==
  ASSUME IInv, PassRateLimit PROVE IInv'
<1> USE DEF PassRateLimit
<1> DEFINE r == Head(lock)
<1>1. TypeOK /\ Structure
  BY DEF IInv, Structure
<1>2. /\ r \in Requests /\ r \in ToSet(lock) /\ lock' \in Seq(Requests)
      /\ ToSet(lock') = ToSet(lock) \ {r} /\ IsInjective(lock')
  BY <1>1, ToSetTail DEF TypeOK, Structure, OnePlaceEach
<1>3. r \notin ToSet(slot)
  BY <1>1, <1>2 DEF Structure, OnePlaceEach
<1>4. /\ slot' \in Seq(Requests) /\ ToSet(slot') = ToSet(slot) \cup {r}
      /\ IsInjective(slot')
  BY <1>1, <1>2, <1>3, ToSetAppend DEF TypeOK, Structure, OnePlaceEach
<1> HIDE DEF r
<1>5. InFlight' = InFlight
  BY <1>2, <1>4 DEF InFlight
<1>6. TypeOK' /\ PendingIsOwned' /\ JoinCountIsExact' /\ EmptyWhenStopped'
  BY <1>1, <1>2, <1>4 DEF IInv, TypeOK, PendingIsOwned, Owned, JoinCountIsExact,
                          EmptyWhenStopped
<1>7. OnePlaceEach'
  BY <1>1, <1>2, <1>4, <1>5 DEF Structure, OnePlaceEach
<1>8. SentWhenCalling' /\ RouteHasActor' /\ HeldIsInFlight'
  BY <1>1, <1>2, <1>4, <1>5 DEF Structure, SentWhenCalling, RouteHasActor, HeldIsInFlight
<1> QED BY <1>6, <1>7, <1>8 DEF IInv

\* The head of the semaphore's waiters starts its API call.
LEMMA StepAcquire ==
  ASSUME IInv, Acquire PROVE IInv'
<1> USE DEF Acquire
<1> DEFINE r == Head(slot)
<1>1. TypeOK /\ Structure
  BY DEF IInv, Structure
<1>2. /\ r \in Requests /\ r \in ToSet(slot) /\ slot' \in Seq(Requests)
      /\ ToSet(slot') = ToSet(slot) \ {r} /\ IsInjective(slot')
  BY <1>1, ToSetTail DEF TypeOK, Structure, OnePlaceEach
<1>3. r \notin ToSet(sent)
  BY <1>1, <1>2 DEF Structure, SentWhenCalling
<1>4. /\ sent' \in Seq(Requests) /\ ToSet(sent') = ToSet(sent) \cup {r}
      /\ IsInjective(sent')
  BY <1>1, <1>2, <1>3, ToSetAppend DEF TypeOK, Structure, OnePlaceEach
<1>5. calling' = calling \cup {r}
  OBVIOUS
<1> HIDE DEF r
<1>6. InFlight' = InFlight
  BY <1>2, <1>5 DEF InFlight
<1>7. TypeOK' /\ PendingIsOwned' /\ JoinCountIsExact' /\ EmptyWhenStopped'
  BY <1>1, <1>2, <1>4, <1>5 DEF IInv, TypeOK, PendingIsOwned, Owned, JoinCountIsExact,
                                EmptyWhenStopped
<1>8. OnePlaceEach'
  BY <1>1, <1>2, <1>4, <1>5, <1>6 DEF Structure, OnePlaceEach
<1>9. SentWhenCalling'
  BY <1>1, <1>2, <1>4, <1>5, <1>6 DEF Structure, SentWhenCalling, OnePlaceEach, InFlight
<1>10. RouteHasActor' /\ HeldIsInFlight'
  BY <1>1, <1>2, <1>5, <1>6 DEF Structure, RouteHasActor, HeldIsInFlight
<1> QED BY <1>7, <1>8, <1>9, <1>10 DEF IInv

\* A direct or raw call ends.
LEMMA StepReturnToCaller ==
  ASSUME IInv, NEW r \in Requests, NEW a \in {"ok", "error"}, ReturnToCaller(r, a)
  PROVE  IInv'
<1> USE DEF ReturnToCaller
<1>1. TypeOK /\ Structure
  BY DEF IInv, Structure
<1>2. TypeOK' /\ PendingIsOwned' /\ JoinCountIsExact' /\ EmptyWhenStopped'
  BY <1>1 DEF IInv, TypeOK, Replies, PendingIsOwned, Owned, JoinCountIsExact,
              EmptyWhenStopped
<1>3. OnePlaceEach'
  BY <1>1 DEF Structure, OnePlaceEach, InFlight
<1>4. SentWhenCalling'
  BY <1>1 DEF Structure, SentWhenCalling, InFlight, TypeOK
<1>5. RouteHasActor'
  BY <1>1 DEF Structure, RouteHasActor, OnePlaceEach, InFlight, TypeOK
<1>6. HeldIsInFlight'
  BY <1>1 DEF Structure, HeldIsInFlight, InFlight, TypeOK
<1> QED BY <1>2, <1>3, <1>4, <1>5, <1>6 DEF IInv

\* A worker's API call ends, and the worker with its item.
LEMMA StepFinish ==
  ASSUME IInv, NEW w \in Workers, NEW a \in {"ok", "error"}, Finish(w, a)
  PROVE  IInv'
<1> USE DEF Finish, AnswerIfWaiting
<1> DEFINE r == held[w]
<1>1. TypeOK /\ Structure
  BY DEF IInv, Structure
<1>2. /\ r \in Requests /\ r \in calling /\ r # None /\ via[r] = "queue" /\ w \in alive
      /\ \A v \in Workers : held[v] = r => v = w
  BY <1>1, RequestsDisjoint DEF TypeOK, Structure, HeldIsInFlight
<1>3. /\ held' = [held EXCEPT ![w] = None] /\ calling' = calling \ {r}
      /\ \A q \in Requests : reply'[q] = IF q = r /\ reply[q] = "waiting" THEN a ELSE reply[q]
  OBVIOUS
<1>4. r \notin ToSet(lock) /\ r \notin ToSet(slot) /\ r \in ToSet(sent)
  BY <1>1, <1>2 DEF Structure, OnePlaceEach, SentWhenCalling
<1> HIDE DEF r
<1>5. JoinCountIsExact' /\ unfinished' \in Nat
  <2>1. held \in [Workers -> Requests \cup {None}] /\ held' \in [Workers -> Requests \cup {None}]
    BY <1>1, <1>3 DEF TypeOK
  <2>2. held[w] # None
    BY <1>2 DEF r
  <2>3. held'[w] = None /\ \A v \in Workers \ {w} : held[v] = held'[v]
    BY <1>3, <2>1
  <2>4. HolderCount(held) = HolderCount(held') + 1 /\ HolderCount(held') \in Nat
    BY <2>1, <2>2, <2>3, HoldersCount
  <2>5. Len(queue) \in Nat
    BY <1>1 DEF TypeOK
  <2>6. unfinished = Len(queue) + HolderCount(held)
    BY DEF IInv, JoinCountIsExact, HolderCount
  <2>7. unfinished' = Len(queue') + HolderCount(held') /\ unfinished' \in Nat
    BY <2>4, <2>5, <2>6
  <2> QED BY <2>7 DEF JoinCountIsExact, HolderCount
<1>6. TypeOK'
  BY <1>1, <1>3, <1>5 DEF TypeOK, Replies
<1>7. PendingIsOwned'
  <2>1. \A v \in alive : held[v] # r => held'[v] = held[v]
    BY <1>1, <1>3 DEF TypeOK, r
  <2> QED BY <1>1, <1>2, <1>3, <2>1 DEF IInv, PendingIsOwned, Owned, TypeOK
<1>8. OnePlaceEach' /\ EmptyWhenStopped'
  BY <1>1, <1>3 DEF IInv, Structure, OnePlaceEach, InFlight, EmptyWhenStopped
<1>9. SentWhenCalling'
  <2>1. r \notin ToSet(queue) /\ InFlight' = InFlight \ {r}
    BY <1>1, <1>2, <1>3, <1>4 DEF Structure, OnePlaceEach, InFlight
  <2> QED BY <1>1, <1>3, <2>1, InFlightAreRequests DEF Structure, SentWhenCalling
<1>10. RouteHasActor'
  <2>1. \A v \in alive : held[v] # r => held'[v] = held[v]
    BY <1>1, <1>3 DEF TypeOK, r
  <2>2. InFlight' = InFlight \ {r} /\ InFlight \subseteq Requests
    BY <1>1, <1>3, <1>4, InFlightAreRequests DEF InFlight
  <2>3. \A q \in InFlight' : IF via'[q] = "queue" THEN \E v \in alive' : held'[v] = q
                                                 ELSE reply'[q] = "waiting"
    BY <1>1, <1>3, <2>1, <2>2 DEF Structure, RouteHasActor
  <2> QED BY <1>1, <1>3, <2>3 DEF Structure, RouteHasActor
<1>11. HeldIsInFlight'
  <2>1. \A v \in Workers : held'[v] # None => v # w /\ held'[v] = held[v]
    BY <1>1, <1>3 DEF TypeOK
  <2>2. InFlight' = InFlight \ {r}
    BY <1>3, <1>4 DEF InFlight
  <2> QED BY <1>1, <1>2, <2>1, <2>2 DEF Structure, HeldIsInFlight
<1> QED BY <1>5, <1>6, <1>7, <1>8, <1>9, <1>10, <1>11 DEF IInv

\* Starting, stopping and joining change the phase only.
LEMMA StepPhase ==
  ASSUME IInv, Start \/ Stop \/ Joined \/ Stopped PROVE IInv'
<1>1. TypeOK /\ Structure
  BY DEF IInv, Structure
<1>2. phase' \in Phases /\ alive' \subseteq Workers /\ alive \subseteq alive'
  BY <1>1 DEF Start, Stop, Joined, Stopped, Unpatch, Phases, TypeOK
<1>3. UNCHANGED <<queue, unfinished, held, lock, slot, calling, via, reply, accepted, sent>>
  BY DEF Start, Stop, Joined, Stopped, Unpatch
<1>4. TypeOK' /\ JoinCountIsExact' /\ PendingIsOwned'
  BY <1>1, <1>2, <1>3 DEF IInv, TypeOK, JoinCountIsExact, PendingIsOwned, Owned
<1>5. OnePlaceEach' /\ SentWhenCalling' /\ RouteHasActor' /\ HeldIsInFlight'
  BY <1>1, <1>2, <1>3 DEF Structure, OnePlaceEach, SentWhenCalling, RouteHasActor,
                          HeldIsInFlight, InFlight
<1>6. EmptyWhenStopped'
  <2>1. CASE Start \/ Stop
    BY <2>1 DEF Start, Stop, EmptyWhenStopped
  <2>2. CASE Stopped
    BY <2>2 DEF IInv, Stopped, Unpatch, EmptyWhenStopped
  <2>3. CASE Joined
    <3>1. Cardinality({w \in Workers : held[w] # None}) \in Nat /\ Len(queue) \in Nat
      BY <1>1, WorkersFinite, FS_Subset, FS_CardinalityType,
         {w \in Workers : held[w] # None} \subseteq Workers DEF TypeOK
    <3>2. Len(queue) = 0
      BY <2>3, <3>1 DEF IInv, Joined, JoinCountIsExact
    <3> QED BY <1>1, <2>3, <3>2 DEF Joined, EmptyWhenStopped, TypeOK
  <2> QED BY <2>1, <2>2, <2>3
<1> QED BY <1>4, <1>5, <1>6 DEF IInv

\* The drain answers what it takes off the queue.
LEMMA StepDrainTimeout ==
  ASSUME IInv, DrainTimeout PROVE IInv'
<1> USE DEF DrainTimeout, AnswerIfWaiting
<1>1. TypeOK /\ Structure
  BY DEF IInv, Structure
<1>2. /\ queue' = <<>> /\ queue' \in Seq(Requests) /\ ToSet(queue') = {}
      /\ IsInjective(queue') /\ Len(queue') = 0
  BY EmptyHasNone
<1>3. \A q \in Requests : reply'[q] = IF q \in ToSet(queue) /\ reply[q] = "waiting"
                                     THEN "error" ELSE reply[q]
  OBVIOUS
<1>4. JoinCountIsExact' /\ unfinished' \in Nat
  <2>1. Cardinality({w \in Workers : held[w] # None}) \in Nat /\ Len(queue) \in Nat
    BY <1>1, WorkersFinite, FS_Subset, FS_CardinalityType,
       {w \in Workers : held[w] # None} \subseteq Workers DEF TypeOK
  <2> QED BY <1>2, <2>1 DEF IInv, JoinCountIsExact
<1>5. TypeOK'
  BY <1>1, <1>2, <1>3, <1>4, SizesPositive DEF TypeOK, Phases, Replies
<1>6. PendingIsOwned' /\ EmptyWhenStopped'
  BY <1>1, <1>2, <1>3 DEF IInv, PendingIsOwned, Owned, TypeOK, EmptyWhenStopped
<1>7. OnePlaceEach' /\ HeldIsInFlight'
  BY <1>1, <1>2 DEF Structure, OnePlaceEach, HeldIsInFlight, InFlight
<1>8. SentWhenCalling'
  <2>1. InFlight' = InFlight /\ ToSet(queue) \cap InFlight = {}
    BY <1>1 DEF Structure, OnePlaceEach, InFlight
  <2> QED BY <1>1, <1>2, <1>3, <2>1, InFlightAreRequests DEF Structure, SentWhenCalling
<1>9. RouteHasActor'
  <2>1. InFlight' = InFlight /\ InFlight \subseteq Requests
    BY <1>1, InFlightAreRequests DEF InFlight
  <2> QED BY <1>1, <1>2, <1>3, <2>1 DEF Structure, RouteHasActor, OnePlaceEach
<1> QED BY <1>4, <1>5, <1>6, <1>7, <1>8, <1>9 DEF IInv

\* A cancelled worker ends: with nothing, or with an item it gives up.
LEMMA StepEndWorker ==
  ASSUME IInv, NEW w \in Workers, EndWorker(w) PROVE IInv'
<1> USE DEF EndWorker, AnswerIfWaiting
<1> DEFINE r == held[w]
<1>1. TypeOK /\ Structure
  BY DEF IInv, Structure
<1>2. /\ lock' \in Seq(Requests) /\ ToSet(lock') = ToSet(lock) \ {r} /\ IsInjective(lock')
      /\ slot' \in Seq(Requests) /\ ToSet(slot') = ToSet(slot) \ {r} /\ IsInjective(slot')
      /\ calling' = calling \ {r}
  BY <1>1, LeaveRemoves DEF TypeOK, Structure, OnePlaceEach
<1>3. /\ held' = [held EXCEPT ![w] = None] /\ alive' = alive \ {w}
      /\ \A q \in Requests : reply'[q] = IF q = r /\ reply[q] = "waiting"
                                         THEN "error" ELSE reply[q]
  OBVIOUS
<1>4. r # None => /\ r \in Requests /\ via[r] = "queue" /\ r \in InFlight
                  /\ \A v \in Workers : held[v] = r => v = w
  BY <1>1 DEF TypeOK, Structure, HeldIsInFlight
<1>5. held \in [Workers -> Requests \cup {None}] /\ held' \in [Workers -> Requests \cup {None}]
  BY <1>1, <1>3 DEF TypeOK
<1>6. held'[w] = None /\ \A v \in Workers \ {w} : held[v] = held'[v]
  BY <1>3, <1>5
<1>7. InFlight' = InFlight \ {r} /\ InFlight \subseteq Requests
  BY <1>1, <1>2, InFlightAreRequests DEF InFlight
<1>8. JoinCountIsExact' /\ unfinished' \in Nat
  <2>1. /\ HolderCount(held) \in Nat /\ HolderCount(held') \in Nat
        /\ held[w] # None => HolderCount(held) = HolderCount(held') + 1
        /\ held[w] = None => HolderCount(held) = HolderCount(held')
    BY <1>5, <1>6, HoldersCount
  <2>2. Len(queue) \in Nat /\ unfinished = Len(queue) + HolderCount(held)
    BY <1>1 DEF IInv, JoinCountIsExact, TypeOK, HolderCount
  <2>3. unfinished' = Len(queue') + HolderCount(held') /\ unfinished' \in Nat
    BY <2>1, <2>2
  <2> QED BY <2>3 DEF JoinCountIsExact, HolderCount
<1> HIDE DEF r
<1>9. TypeOK'
  BY <1>1, <1>2, <1>3, <1>8 DEF TypeOK, Replies
<1>10. PendingIsOwned'
  <2>1. \A v \in alive : held[v] # r => v \in alive' /\ held'[v] = held[v]
    BY <1>1, <1>3, <1>6 DEF TypeOK, r
  <2> QED BY <1>1, <1>3, <2>1 DEF IInv, PendingIsOwned, Owned, TypeOK
<1>11. OnePlaceEach' /\ EmptyWhenStopped'
  BY <1>1, <1>2, <1>3 DEF IInv, Structure, OnePlaceEach, InFlight, EmptyWhenStopped
<1>12. SentWhenCalling'
  <2>1. r # None => r \notin ToSet(queue)
    BY <1>1, <1>4 DEF Structure, OnePlaceEach
  <2>2. /\ ToSet(queue') = ToSet(queue) /\ ToSet(sent') = ToSet(sent)
        /\ None \notin ToSet(queue) \cup ToSet(sent)
    BY <1>1, InFlightAreRequests, RequestsDisjoint DEF ToSet
  <2> QED BY <1>1, <1>2, <1>3, <1>7, <2>1, <2>2, InFlightAreRequests
          DEF Structure, SentWhenCalling
<1>13. RouteHasActor'
  <2>1. \A v \in alive : held[v] # r => v \in alive' /\ held'[v] = held[v]
    BY <1>1, <1>3, <1>6 DEF TypeOK, r
  <2>2. \A q \in InFlight' : IF via'[q] = "queue" THEN \E v \in alive' : held'[v] = q
                                                 ELSE reply'[q] = "waiting"
    BY <1>1, <1>3, <1>7, <2>1 DEF Structure, RouteHasActor
  <2> QED BY <1>1, <1>2, <2>2 DEF Structure, RouteHasActor
<1>14. HeldIsInFlight'
  <2>1. \A v \in Workers : held'[v] # None => v # w /\ held'[v] = held[v]
    BY <1>5, <1>6
  <2> QED BY <1>1, <1>3, <1>4, <1>7, <2>1 DEF Structure, HeldIsInFlight, r
<1> QED BY <1>8, <1>9, <1>10, <1>11, <1>12, <1>13, <1>14 DEF IInv

-----------------------------------------------------------------------------
\* The inductive invariant is preserved by every step, so it always holds.
LEMMA StepIInv == IInv /\ [Next]_vars => IInv'
<1> SUFFICES ASSUME IInv, [Next]_vars PROVE IInv'
  OBVIOUS
<1>1. CASE UNCHANGED vars
  BY <1>1 DEF vars, IInv, TypeOK, PendingIsOwned, Owned, JoinCountIsExact, OnePlaceEach,
              SentWhenCalling, RouteHasActor, HeldIsInFlight, EmptyWhenStopped, InFlight
<1>2. ASSUME NEW r \in Requests, Caller(r) PROVE IInv'
  BY <1>2, StepCallRaw, StepEnqueue, StepDropLike, StepCallDirect, StepCancelCaller DEF Caller
<1>3. ASSUME NEW r \in Requests, Return(r) PROVE IInv'
  BY <1>3, StepReturnToCaller, StepFinish DEF Return
<1>4. ASSUME NEW w \in Workers, Take(w) \/ EndWorker(w) PROVE IInv'
  BY <1>4, StepTake, StepEndWorker
<1>5. CASE PassRateLimit \/ Acquire
  BY <1>5, StepPassRateLimit, StepAcquire
<1>6. CASE Start \/ Stop \/ Shutdown
  BY <1>6, StepPhase, StepDrainTimeout DEF Shutdown
<1> QED BY <1>1, <1>2, <1>3, <1>4, <1>5, <1>6 DEF Next

\* The inductive invariant always holds.
LEMMA SpecIInv == Spec => []IInv
BY InitIInv, StepIInv, PTL DEF Spec

-----------------------------------------------------------------------------
\* Type correctness, with the bound of the queue (_QUEUE_MAXSIZE).
THEOREM TypeCorrect == Spec => []TypeOK
BY SpecIInv, PTL DEF IInv

\* No caller that awaits the future of a queued message is ever stranded: as
\* long as it waits, its item is in the queue or with a worker that lives,
\* whatever fails, is cancelled or is drained (_worker, _drain_pending_futures).
THEOREM NobodyStranded == Spec => []PendingIsOwned
BY SpecIInv, PTL DEF IInv

\* The count join() waits on is exact in every state (task_done is called once
\* for each item, by a worker or by the drain).
THEOREM JoinExact == Spec => []JoinCountIsExact
BY SpecIInv, PTL DEF IInv

\* Once stop_send_queue has returned, nothing of the queue is left.
THEOREM CleanStop == Spec => []StopLeavesNothing
<1>1. IInv => StopLeavesNothing
  <2> SUFFICES ASSUME IInv, ~Patched PROVE StopLeavesNothing
    BY DEF StopLeavesNothing
  <2>1. queue = <<>> /\ alive = {} /\ \A w \in Workers : held[w] = None
    BY DEF IInv, EmptyWhenStopped, HeldIsInFlight, Patched
  <2>2. unfinished = 0
    <3>1. {w \in Workers : held[w] # None} = {}
      BY <2>1
    <3> QED BY <2>1, <3>1, FS_EmptySet, EmptyHasNone DEF IInv, JoinCountIsExact
  <2>3. \A r \in ToSet(lock) \cup ToSet(slot) \cup Permitted : via[r] = "direct"
    BY <2>1, InFlightAreRequests DEF IInv, RouteHasActor, Permitted, InFlight, TypeOK, Routes
  <2> QED BY <2>1, <2>2, <2>3 DEF StopLeavesNothing
<1> QED BY <1>1, SpecIInv, PTL

-----------------------------------------------------------------------------
\* The order of the calls

\* In the sequence a, x comes before y, wherever both are in it.
Before(a, x, y) == \A k, l \in DOMAIN a : a[k] = x /\ a[l] = y => k < l

InOrder(a, s) == \A i, j \in DOMAIN s : i < j => Before(a, s[i], s[j])

Ahead(a, R, T) == \A x \in R, y \in T : Before(a, x, y)

\* The requests whose calls have started, the waiters of the semaphore, those of the
\* rate limit and the queue are, in this order, one line in the order of acceptance;
\* direct and raw requests were never accepted and stand anywhere.
InLine ==
  /\ InOrder(accepted, sent) /\ InOrder(accepted, slot)
  /\ InOrder(accepted, lock) /\ InOrder(accepted, queue)
  /\ Ahead(accepted, ToSet(sent), ToSet(slot) \cup ToSet(lock) \cup ToSet(queue))
  /\ Ahead(accepted, ToSet(slot), ToSet(lock) \cup ToSet(queue))
  /\ Ahead(accepted, ToSet(lock), ToSet(queue))

Entered == \A r \in ToSet(accepted) : reply[r] # "idle"

OrderInv == InLine /\ Entered

\* Appending to an ordered sequence what comes after all of it keeps the order.
LEMMA OrderAppend ==
  ASSUME NEW S, NEW s \in Seq(S), NEW e \in S, NEW a, InOrder(a, s), Ahead(a, ToSet(s), {e})
  PROVE  InOrder(a, Append(s, e))
<1> DEFINE t == Append(s, e)
<1>1. /\ DOMAIN t = 1..(Len(s) + 1) /\ DOMAIN s = 1..Len(s) /\ Len(s) \in Nat
      /\ \A i \in 1..Len(s) : t[i] = s[i]
      /\ t[Len(s) + 1] = e
  OBVIOUS
<1> HIDE DEF t
<1>2. ASSUME NEW i \in DOMAIN t, NEW j \in DOMAIN t, i < j PROVE Before(a, t[i], t[j])
  <2>1. i \in 1..Len(s) /\ t[i] = s[i] /\ s[i] \in ToSet(s)
    <3>1. i \in 1..Len(s)
      BY <1>1, <1>2
    <3> QED BY <1>1, <3>1 DEF ToSet
  <2>2. CASE j \in 1..Len(s)
    <3>1. t[j] = s[j] /\ j \in DOMAIN s /\ i \in DOMAIN s
      BY <1>1, <2>1, <2>2
    <3>2. Before(a, s[i], s[j])
      BY <1>2, <3>1, Zenon DEF InOrder
    <3> QED BY <2>1, <3>1, <3>2, Zenon
  <2>3. CASE j = Len(s) + 1
    <3>1. t[j] = e
      BY <1>1, <2>3
    <3>2. Before(a, s[i], e)
      BY <2>1, Zenon DEF Ahead
    <3> QED BY <2>1, <3>1, <3>2, Zenon
  <2> QED BY <1>1, <2>2, <2>3
<1>3. InOrder(a, t)
  BY <1>2, Zenon DEF InOrder
<1> QED BY <1>3 DEF t

\* The head of an ordered sequence comes before its tail, which is ordered.
LEMMA OrderTail ==
  ASSUME NEW S, NEW s \in Seq(S), s # <<>>, NEW a, InOrder(a, s)
  PROVE  InOrder(a, Tail(s)) /\ Ahead(a, {Head(s)}, ToSet(Tail(s)))
<1> DEFINE t == Tail(s)
           h == Head(s)
<1>1. /\ DOMAIN t = 1..(Len(s) - 1) /\ DOMAIN s = 1..Len(s) /\ Len(s) \in Nat \ {0}
      /\ \A i \in 1..(Len(s) - 1) : t[i] = s[i + 1]
      /\ h = s[1]
  OBVIOUS
<1> HIDE DEF t, h
<1>2. ASSUME NEW i \in DOMAIN t
      PROVE  i \in Int /\ i + 1 \in DOMAIN s /\ t[i] = s[i + 1] /\ 1 \in DOMAIN s /\ 1 < i + 1
  BY <1>1
<1>3. ASSUME NEW i \in DOMAIN t, NEW j \in DOMAIN t, i < j PROVE Before(a, t[i], t[j])
  <2>1. i + 1 < j + 1
    BY <1>2, <1>3
  <2>2. Before(a, s[i + 1], s[j + 1])
    BY <1>2, <2>1, Zenon DEF InOrder
  <2> QED BY <1>2, <2>2, Zenon
<1>4. ASSUME NEW y \in ToSet(t) PROVE Before(a, h, y)
  <2>1. PICK i \in DOMAIN t : y = t[i]
    BY DEF ToSet
  <2>2. Before(a, s[1], s[i + 1])
    BY <1>2, Zenon DEF InOrder
  <2> QED BY <1>1, <1>2, <2>1, <2>2, Zenon
<1>5. InOrder(a, t) /\ Ahead(a, {h}, ToSet(t))
  BY <1>3, <1>4, Zenon DEF InOrder, Ahead
<1> QED BY <1>5 DEF t, h

\* Who leaves an ordered sequence leaves it ordered.
LEMMA OrderLeave ==
  ASSUME NEW S, NEW s \in Seq(S), NEW e, IsInjective(s), NEW a, InOrder(a, s)
  PROVE  InOrder(a, Leave(s, e))
<1>1. CASE e \notin ToSet(s)
  BY <1>1, Zenon DEF Leave
<1>2. CASE e \in ToSet(s)
  <2>1. PICK m \in DOMAIN s : s[m] = e
    BY <1>2 DEF ToSet
  <2> DEFINE n == CHOOSE k \in DOMAIN s : s[k] = e
             t == RemoveAt(s, n)
  <2>2. n \in 1..Len(s) /\ Len(s) \in Nat
    BY <2>1
  <2>3. Leave(s, e) = t
    BY <1>2 DEF Leave
  <2> HIDE DEF n
  <2>4. t \in Seq(S) /\ Len(t) = Len(s) - 1
        /\ \A j \in 1..(Len(s) - 1) : t[j] = IF j < n THEN s[j] ELSE s[j+1]
    BY <2>2, RemoveAtShifts, Zenon
  <2> HIDE DEF t
  <2> DEFINE at(k) == IF k < n THEN k ELSE k + 1
  <2>5. DOMAIN t = 1..(Len(s) - 1) /\ DOMAIN s = 1..Len(s)
    BY <2>4
  <2>6. \A j \in DOMAIN t : at(j) \in DOMAIN s /\ t[j] = s[at(j)]
    BY <2>2, <2>4, <2>5
  <2>7. \A i, j \in DOMAIN t : i < j => at(i) < at(j)
    BY <2>2, <2>5
  <2> HIDE DEF at
  <2>8. ASSUME NEW i \in DOMAIN t, NEW j \in DOMAIN t, i < j PROVE Before(a, t[i], t[j])
    <3>1. Before(a, s[at(i)], s[at(j)])
      BY <2>6, <2>7, <2>8, Zenon DEF InOrder
    <3> QED BY <2>6, <3>1, Zenon
  <2>9. InOrder(a, t)
    BY <2>8, Zenon DEF InOrder
  <2> QED BY <2>3, <2>9, Zenon
<1> QED BY <1>1, <1>2

\* A request that is accepted comes after all the others, whose order stays.
LEMMA OrderGrows ==
  ASSUME NEW S, NEW a \in Seq(S), NEW r \in S, r \notin ToSet(a)
  PROVE  /\ \A x, y : x # r /\ y # r /\ Before(a, x, y) => Before(Append(a, r), x, y)
         /\ \A x : x # r => Before(Append(a, r), x, r)
<1> DEFINE b == Append(a, r)
<1>1. /\ DOMAIN b = 1..(Len(a) + 1) /\ DOMAIN a = 1..Len(a) /\ Len(a) \in Nat
      /\ \A i \in 1..Len(a) : b[i] = a[i]
      /\ b[Len(a) + 1] = r
  OBVIOUS
<1> HIDE DEF b
<1>2. ASSUME NEW x, x # r, NEW k \in DOMAIN b, b[k] = x PROVE k \in DOMAIN a /\ a[k] = x
  BY <1>1, <1>2
<1>3. ASSUME NEW x, NEW y, x # r, y # r, Before(a, x, y) PROVE Before(b, x, y)
  BY <1>2, <1>3, Zenon DEF Before
<1>4. ASSUME NEW x, x # r PROVE Before(b, x, r)
  <2> SUFFICES ASSUME NEW k \in DOMAIN b, NEW l \in DOMAIN b, b[k] = x, b[l] = r PROVE k < l
    BY Zenon DEF Before
  <2>1. k \in 1..Len(a)
    BY <1>1, <1>2, <1>4
  <2>2. l = Len(a) + 1
    BY <1>1 DEF ToSet
  <2> QED BY <1>1, <2>1, <2>2
<1>5. /\ \A x, y : x # r /\ y # r /\ Before(a, x, y) => Before(b, x, y)
      /\ \A x : x # r => Before(b, x, r)
  BY <1>3, <1>4, Zenon
<1> QED BY <1>5 DEF b

\* A request that was not accepted stands anywhere.
LEMMA OrderFree ==
  ASSUME NEW a, NEW r, r \notin ToSet(a)
  PROVE  \A x : Before(a, x, r) /\ Before(a, r, x)
BY DEF Before, ToSet

\* Requests that leave the line leave it in order.
LEMMA LineShrinks ==
  ASSUME IInv, InLine, UNCHANGED <<accepted, sent>>,
         ToSet(slot') \subseteq ToSet(slot), ToSet(lock') \subseteq ToSet(lock),
         ToSet(queue') \subseteq ToSet(queue),
         InOrder(accepted, slot'), InOrder(accepted, lock'), InOrder(accepted, queue')
  PROVE  InLine'
<1>1. /\ Ahead(accepted, ToSet(sent), ToSet(slot) \cup ToSet(lock) \cup ToSet(queue))
      /\ Ahead(accepted, ToSet(slot), ToSet(lock) \cup ToSet(queue))
      /\ Ahead(accepted, ToSet(lock), ToSet(queue))
      /\ InOrder(accepted, sent)
  BY DEF InLine
<1>2. /\ Ahead(accepted, ToSet(sent), ToSet(slot') \cup ToSet(lock') \cup ToSet(queue'))
      /\ Ahead(accepted, ToSet(slot'), ToSet(lock') \cup ToSet(queue'))
      /\ Ahead(accepted, ToSet(lock'), ToSet(queue'))
  BY <1>1 DEF Ahead
<1> QED BY <1>1, <1>2 DEF InLine

\* Every step keeps the line.
LEMMA StepOrder == IInv /\ OrderInv /\ [Next]_vars => OrderInv'
<1> SUFFICES ASSUME IInv, OrderInv, [Next]_vars PROVE OrderInv'
  OBVIOUS
<1>1. TypeOK /\ Structure /\ InLine /\ Entered
  BY DEF IInv, Structure, OrderInv
<1>2. /\ accepted \in Seq(Requests) /\ sent \in Seq(Requests) /\ queue \in Seq(Requests)
      /\ lock \in Seq(Requests) /\ slot \in Seq(Requests)
      /\ IsInjective(lock) /\ IsInjective(slot)
  BY <1>1 DEF TypeOK, Structure, OnePlaceEach
<1>3. /\ InOrder(accepted, sent) /\ InOrder(accepted, slot)
      /\ InOrder(accepted, lock) /\ InOrder(accepted, queue)
      /\ Ahead(accepted, ToSet(sent), ToSet(slot) \cup ToSet(lock) \cup ToSet(queue))
      /\ Ahead(accepted, ToSet(slot), ToSet(lock) \cup ToSet(queue))
      /\ Ahead(accepted, ToSet(lock), ToSet(queue))
  BY <1>1 DEF InLine
<1>4. ASSUME NEW r \in Requests, reply[r] = "idle" PROVE r \notin ToSet(accepted)
  BY <1>1, <1>4 DEF Entered
<1>5. ASSUME UNCHANGED accepted,
             \A r \in Requests : reply[r] # "idle" => reply'[r] # "idle"
      PROVE  Entered'
  <2>1. ToSet(accepted) \subseteq Requests
    BY <1>2 DEF ToSet
  <2> QED BY <1>1, <1>5, <2>1 DEF Entered
<1>6. ASSUME NEW r \in Requests, CallRaw(r) PROVE OrderInv'
  <2>1. /\ reply[r] = "idle" /\ sent' = Append(sent, r)
        /\ UNCHANGED <<accepted, queue, lock, slot>>
        /\ reply' = [reply EXCEPT ![r] = "waiting"]
    BY <1>6 DEF CallRaw, Begin
  <2>2. \A x : Before(accepted, x, r) /\ Before(accepted, r, x)
    BY <1>4, <2>1, OrderFree
  <2>3. ToSet(sent') = ToSet(sent) \cup {r}
    BY <1>2, <2>1, ToSetAppend
  <2>4. InOrder(accepted, sent')
    <3>1. Ahead(accepted, ToSet(sent), {r})
      BY <2>2, Zenon DEF Ahead
    <3> QED BY <1>2, <1>3, <2>1, <3>1, OrderAppend
  <2>5. Ahead(accepted, ToSet(sent'), ToSet(slot) \cup ToSet(lock) \cup ToSet(queue))
    BY <1>3, <2>2, <2>3 DEF Ahead
  <2>6. InLine'
    BY <1>3, <2>1, <2>4, <2>5, Zenon DEF InLine
  <2>7. Entered'
    BY <1>1, <1>5, <2>1 DEF TypeOK
  <2> QED BY <2>6, <2>7 DEF OrderInv
<1>7. ASSUME NEW r \in Requests, Put(r) PROVE OrderInv'
  <2>1. /\ reply[r] = "idle" /\ queue' = Append(queue, r) /\ accepted' = Append(accepted, r)
        /\ UNCHANGED <<sent, lock, slot>>
        /\ reply' = [reply EXCEPT ![r] = "waiting"]
    BY <1>7 DEF Put, Begin
  <2>2. /\ r \notin ToSet(queue) /\ r \notin ToSet(lock) /\ r \notin ToSet(slot)
        /\ r \notin ToSet(sent) /\ r \notin ToSet(accepted)
    <3>1. r \notin ToSet(queue) \cup InFlight \cup ToSet(sent)
      BY <1>1, <2>1, FreshIsNowhere
    <3> QED BY <1>4, <2>1, <3>1 DEF InFlight
  <2>3. /\ \A x, y : x # r /\ y # r /\ Before(accepted, x, y) => Before(accepted', x, y)
        /\ \A x : x # r => Before(accepted', x, r)
    BY <1>2, <2>1, <2>2, OrderGrows, Zenon
  <2>4. ASSUME NEW s, InOrder(accepted, s), r \notin ToSet(s) PROVE InOrder(accepted', s)
    BY <2>3, <2>4 DEF InOrder, ToSet
  <2>5. /\ InOrder(accepted', sent) /\ InOrder(accepted', slot)
        /\ InOrder(accepted', lock) /\ InOrder(accepted', queue)
    BY <1>3, <2>2, <2>4, Zenon
  <2>6. ToSet(queue') = ToSet(queue) \cup {r}
    BY <1>2, <2>1, ToSetAppend
  <2>7. ASSUME NEW R, NEW T, r \notin R, r \notin T, Ahead(accepted, R, T)
        PROVE  Ahead(accepted', R, T \cup {r})
    <3> SUFFICES ASSUME NEW x \in R, NEW y \in T \cup {r} PROVE Before(accepted', x, y)
      BY Zenon DEF Ahead
    <3>1. CASE y = r
      BY <2>3, <2>7, <3>1
    <3>2. CASE y \in T
      BY <2>3, <2>7, <3>2 DEF Ahead
    <3> QED BY <3>1, <3>2
  <2>8. Ahead(accepted', ToSet(sent), (ToSet(slot) \cup ToSet(lock) \cup ToSet(queue)) \cup {r})
    BY <1>3, <2>2, <2>7
  <2>9. Ahead(accepted', ToSet(slot), (ToSet(lock) \cup ToSet(queue)) \cup {r})
    BY <1>3, <2>2, <2>7
  <2>10. Ahead(accepted', ToSet(lock), ToSet(queue) \cup {r})
    BY <1>3, <2>2, <2>7
  <2>11. InOrder(accepted', queue')
    <3>1. /\ accepted' \in Seq(Requests) /\ Ahead(accepted', ToSet(queue), {r})
      <4>1. \A x \in ToSet(queue) : Before(accepted', x, r)
        BY <2>2, <2>3
      <4> QED BY <1>2, <2>1, <4>1 DEF Ahead
    <3> QED BY <1>2, <2>1, <2>5, <3>1, OrderAppend
  <2>12. /\ Ahead(accepted', ToSet(sent'), ToSet(slot') \cup ToSet(lock') \cup ToSet(queue'))
         /\ Ahead(accepted', ToSet(slot'), ToSet(lock') \cup ToSet(queue'))
         /\ Ahead(accepted', ToSet(lock'), ToSet(queue'))
    BY <2>1, <2>6, <2>8, <2>9, <2>10 DEF Ahead
  <2>13. InLine'
    BY <2>1, <2>5, <2>11, <2>12 DEF InLine
  <2>14. Entered'
    <3>1. ToSet(accepted') = ToSet(accepted) \cup {r}
      BY <1>2, <2>1, ToSetAppend
    <3>2. \A q \in ToSet(accepted) : q \in Requests /\ reply[q] # "idle"
      BY <1>1, <1>2 DEF Entered, ToSet
    <3> QED BY <1>1, <2>1, <3>1, <3>2 DEF Entered, TypeOK
  <2> QED BY <2>13, <2>14 DEF OrderInv
<1>8. ASSUME NEW r \in Requests, CallDirect(r) PROVE OrderInv'
  <2>1. /\ reply[r] = "idle" /\ lock' = Append(lock, r)
        /\ UNCHANGED <<accepted, queue, sent, slot>>
        /\ reply' = [reply EXCEPT ![r] = "waiting"]
    BY <1>8 DEF CallDirect, Begin
  <2>2. \A x : Before(accepted, x, r) /\ Before(accepted, r, x)
    BY <1>4, <2>1, OrderFree
  <2>3. ToSet(lock') = ToSet(lock) \cup {r}
    BY <1>2, <2>1, ToSetAppend
  <2>4. InOrder(accepted, lock')
    <3>1. Ahead(accepted, ToSet(lock), {r})
      BY <2>2, Zenon DEF Ahead
    <3> QED BY <1>2, <1>3, <2>1, <3>1, OrderAppend
  <2>5. /\ Ahead(accepted, ToSet(sent), ToSet(slot) \cup ToSet(lock') \cup ToSet(queue))
        /\ Ahead(accepted, ToSet(slot), ToSet(lock') \cup ToSet(queue))
        /\ Ahead(accepted, ToSet(lock'), ToSet(queue))
    BY <1>3, <2>2, <2>3 DEF Ahead
  <2>6. InLine'
    BY <1>3, <2>1, <2>4, <2>5, Zenon DEF InLine
  <2>7. Entered'
    BY <1>1, <1>5, <2>1 DEF TypeOK
  <2> QED BY <2>6, <2>7 DEF OrderInv
<1>9. ASSUME NEW e, lock' = Leave(lock, e), slot' = Leave(slot, e),
             UNCHANGED <<accepted, sent, queue>>
      PROVE  InLine'
  <2>1. /\ ToSet(lock') = ToSet(lock) \ {e} /\ ToSet(slot') = ToSet(slot) \ {e}
    BY <1>2, <1>9, LeaveRemoves
  <2>2. InOrder(accepted, lock') /\ InOrder(accepted, slot')
    BY <1>2, <1>3, <1>9, OrderLeave
  <2>3. /\ ToSet(slot') \subseteq ToSet(slot) /\ ToSet(lock') \subseteq ToSet(lock)
        /\ ToSet(queue') \subseteq ToSet(queue) /\ InOrder(accepted, queue')
    BY <1>3, <1>9, <2>1
  <2> QED BY <1>1, <1>9, <2>2, <2>3, LineShrinks
<1>10. ASSUME UNCHANGED <<accepted, sent, queue, lock, slot>> PROVE InLine'
  BY <1>3, <1>10 DEF InLine
<1>11. ASSUME NEW r \in Requests, CancelCaller(r) PROVE OrderInv'
  <2>1. /\ reply[r] = "waiting" /\ reply' = [reply EXCEPT ![r] = "cancelled"]
        /\ UNCHANGED <<accepted, sent, queue>>
        /\ \/ UNCHANGED <<lock, slot>>
           \/ lock' = Leave(lock, r) /\ slot' = Leave(slot, r)
    BY <1>11 DEF CancelCaller
  <2>2. InLine'
    BY <1>9, <1>10, <2>1, Zenon
  <2>3. Entered'
    BY <1>1, <1>5, <2>1 DEF TypeOK
  <2> QED BY <2>2, <2>3 DEF OrderInv
<1>12. ASSUME NEW w \in Workers, Take(w) PROVE OrderInv'
  <2> DEFINE r == Head(queue)
             Q == ToSet(Tail(queue))
  <2>1. /\ queue # <<>> /\ queue' = Tail(queue) /\ lock' = Append(lock, r)
        /\ UNCHANGED <<accepted, sent, slot, reply>>
    BY <1>12 DEF Take
  <2>2. r \in Requests /\ r \in ToSet(queue) /\ Q = ToSet(queue) \ {r}
    BY <1>1, <1>2, <2>1, ToSetTail DEF Structure, OnePlaceEach
  <2>3. InOrder(accepted, Tail(queue)) /\ Ahead(accepted, {r}, Q)
    BY <1>2, <1>3, <2>1, OrderTail
  <2> HIDE DEF r, Q
  <2>4. ToSet(lock') = ToSet(lock) \cup {r} /\ ToSet(queue') = Q
    BY <1>2, <2>1, <2>2, ToSetAppend DEF Q
  <2>5. InOrder(accepted, lock')
    <3>1. Ahead(accepted, ToSet(lock), {r})
      BY <1>3, <2>2 DEF Ahead
    <3> QED BY <1>2, <1>3, <2>1, <2>2, <3>1, OrderAppend
  <2>6. /\ Ahead(accepted, ToSet(sent), ToSet(slot) \cup ToSet(lock') \cup ToSet(queue'))
        /\ Ahead(accepted, ToSet(slot), ToSet(lock') \cup ToSet(queue'))
        /\ Ahead(accepted, ToSet(lock'), ToSet(queue'))
    BY <1>3, <2>2, <2>3, <2>4 DEF Ahead
  <2>7. InLine'
    BY <1>3, <2>1, <2>3, <2>5, <2>6, Zenon DEF InLine
  <2>8. Entered'
    BY <1>5, <2>1
  <2> QED BY <2>7, <2>8 DEF OrderInv
<1>13. ASSUME PassRateLimit PROVE OrderInv'
  <2> DEFINE r == Head(lock)
             L == ToSet(Tail(lock))
  <2>1. /\ lock # <<>> /\ lock' = Tail(lock) /\ slot' = Append(slot, r)
        /\ UNCHANGED <<accepted, sent, queue, reply>>
    BY <1>13 DEF PassRateLimit
  <2>2. r \in Requests /\ r \in ToSet(lock) /\ L = ToSet(lock) \ {r}
    BY <1>2, <2>1, ToSetTail
  <2>3. InOrder(accepted, Tail(lock)) /\ Ahead(accepted, {r}, L)
    BY <1>2, <1>3, <2>1, OrderTail
  <2> HIDE DEF r, L
  <2>4. ToSet(slot') = ToSet(slot) \cup {r} /\ ToSet(lock') = L
    BY <1>2, <2>1, <2>2, ToSetAppend DEF L
  <2>5. InOrder(accepted, slot')
    <3>1. Ahead(accepted, ToSet(slot), {r})
      BY <1>3, <2>2 DEF Ahead
    <3> QED BY <1>2, <1>3, <2>1, <2>2, <3>1, OrderAppend
  <2>6. /\ Ahead(accepted, ToSet(sent), ToSet(slot') \cup ToSet(lock') \cup ToSet(queue))
        /\ Ahead(accepted, ToSet(slot'), ToSet(lock') \cup ToSet(queue))
        /\ Ahead(accepted, ToSet(lock'), ToSet(queue))
    BY <1>3, <2>2, <2>3, <2>4 DEF Ahead
  <2>7. InLine'
    BY <1>3, <2>1, <2>3, <2>5, <2>6, Zenon DEF InLine
  <2>8. Entered'
    BY <1>5, <2>1
  <2> QED BY <2>7, <2>8 DEF OrderInv
<1>14. ASSUME Acquire PROVE OrderInv'
  <2> DEFINE r == Head(slot)
             W == ToSet(Tail(slot))
  <2>1. /\ slot # <<>> /\ slot' = Tail(slot) /\ sent' = Append(sent, r)
        /\ UNCHANGED <<accepted, lock, queue, reply>>
    BY <1>14 DEF Acquire
  <2>2. r \in Requests /\ r \in ToSet(slot) /\ W = ToSet(slot) \ {r}
    BY <1>2, <2>1, ToSetTail
  <2>3. InOrder(accepted, Tail(slot)) /\ Ahead(accepted, {r}, W)
    BY <1>2, <1>3, <2>1, OrderTail
  <2> HIDE DEF r, W
  <2>4. ToSet(sent') = ToSet(sent) \cup {r} /\ ToSet(slot') = W
    BY <1>2, <2>1, <2>2, ToSetAppend DEF W
  <2>5. InOrder(accepted, sent')
    <3>1. Ahead(accepted, ToSet(sent), {r})
      BY <1>3, <2>2 DEF Ahead
    <3> QED BY <1>2, <1>3, <2>1, <2>2, <3>1, OrderAppend
  <2>6. /\ Ahead(accepted, ToSet(sent'), ToSet(slot') \cup ToSet(lock) \cup ToSet(queue))
        /\ Ahead(accepted, ToSet(slot'), ToSet(lock) \cup ToSet(queue))
    BY <1>3, <2>2, <2>3, <2>4 DEF Ahead
  <2>7. InLine'
    BY <1>3, <2>1, <2>3, <2>5, <2>6, Zenon DEF InLine
  <2>8. Entered'
    BY <1>5, <2>1
  <2> QED BY <2>7, <2>8 DEF OrderInv
<1>15. ASSUME NEW r \in Requests, DropLike(r) \/ Return(r) PROVE OrderInv'
  <2>1. UNCHANGED <<accepted, sent, queue, lock, slot>>
    BY <1>15 DEF DropLike, Return, ReturnToCaller, Finish
  <2>2. \A q \in Requests : reply[q] # "idle" => reply'[q] # "idle"
    BY <1>1, <1>15 DEF DropLike, Return, ReturnToCaller, Finish, AnswerIfWaiting, TypeOK
  <2>3. InLine' /\ Entered'
    BY <1>5, <1>10, <2>1, <2>2
  <2> QED BY <2>3 DEF OrderInv
<1>16. ASSUME NEW w \in Workers, EndWorker(w) PROVE OrderInv'
  <2>1. /\ lock' = Leave(lock, held[w]) /\ slot' = Leave(slot, held[w])
        /\ UNCHANGED <<accepted, sent, queue>>
        /\ reply' = AnswerIfWaiting({held[w]}, "error")
    BY <1>16 DEF EndWorker
  <2>2. \A q \in Requests : reply[q] # "idle" => reply'[q] # "idle"
    BY <2>1 DEF AnswerIfWaiting
  <2>3. InLine' /\ Entered'
    BY <1>5, <1>9, <2>1, <2>2
  <2> QED BY <2>3 DEF OrderInv
<1>17. CASE Start \/ Stop \/ Joined \/ Stopped \/ UNCHANGED vars
  <2>1. UNCHANGED <<accepted, sent, queue, lock, slot, reply>>
    BY <1>17 DEF Start, Stop, Joined, Stopped, Unpatch, vars
  <2>2. InLine' /\ Entered'
    BY <1>5, <1>10, <2>1
  <2> QED BY <2>2 DEF OrderInv
<1>18. CASE DrainTimeout
  <2>1. /\ queue' = <<>> /\ UNCHANGED <<accepted, sent, lock, slot>>
        /\ reply' = AnswerIfWaiting(ToSet(queue), "error")
    BY <1>18 DEF DrainTimeout
  <2>2. \A q \in Requests : reply[q] # "idle" => reply'[q] # "idle"
    BY <2>1 DEF AnswerIfWaiting
  <2>3. ToSet(queue') = {} /\ InOrder(accepted, queue')
    BY <2>1, EmptyHasNone DEF InOrder
  <2>4. InLine'
    BY <1>1, <1>3, <2>1, <2>3, LineShrinks
  <2>5. Entered'
    BY <1>5, <2>1, <2>2
  <2> QED BY <2>4, <2>5 DEF OrderInv
<1> QED
  BY <1>6, <1>7, <1>8, <1>11, <1>12, <1>13, <1>14, <1>15, <1>16, <1>17, <1>18
     DEF Next, Caller, Enqueue, Shutdown

\* Nobody is in line at first.
LEMMA InitOrder == Init => OrderInv
BY EmptyHasNone DEF Init, OrderInv, InLine, Entered, InOrder, Ahead

\* The line is always in order.
LEMMA SpecOrder == Spec => []OrderInv
<1>1. IInv /\ IInv' /\ OrderInv /\ [Next]_vars => OrderInv'
  BY StepOrder
<1> QED BY <1>1, InitOrder, SpecIInv, PTL DEF Spec

\* No request's API call starts twice, by whatever mixture of queue, fallback,
\* cancellation and shutdown it was handled; and the calls of the requests the
\* queue accepted start in the order it accepted them (_worker takes them in that
\* order, and the rate limit's lock and the semaphore keep it).
THEOREM SentInOrder == Spec => []SentOnceInOrder
<1>1. IInv /\ OrderInv => SentOnceInOrder
  <2> SUFFICES ASSUME IInv, OrderInv PROVE SentOnceInOrder
    OBVIOUS
  <2>1. IsInjective(sent)
    BY DEF IInv, OnePlaceEach
  <2>2. \A i, j \in DOMAIN sent : i < j => Before(accepted, sent[i], sent[j])
    BY Zenon DEF OrderInv, InLine, InOrder
  <2>3. ASSUME NEW i \in DOMAIN sent, NEW j \in DOMAIN sent,
               NEW k \in DOMAIN accepted, NEW l \in DOMAIN accepted,
               i < j, accepted[k] = sent[i], accepted[l] = sent[j]
        PROVE  k < l
    BY <2>2, <2>3, Zenon DEF Before
  <2> QED BY <2>1, <2>3, Zenon DEF SentOnceInOrder
<1> QED BY <1>1, SpecIInv, SpecOrder, PTL

-----------------------------------------------------------------------------
\* The queue implements the safety part of SendService.

\* A step that answers some of the waiting callers alike answers them in the
\* service.
LEMMA AnswersRefine ==
  ASSUME TypeOK, NEW S \in SUBSET Requests, NEW a \in {"ok", "error"},
         reply' = AnswerIfWaiting(S, a), UNCHANGED sent,
         a = "ok" => S \subseteq ToSet(sent)
  PROVE  [Service!Next]_(Service!vars)
<1> DEFINE W == {r \in S : reply[r] = "waiting"}
<1>1. CASE W = {}
  <2>1. reply' = reply
    BY <1>1 DEF AnswerIfWaiting, TypeOK
  <2> QED BY <2>1 DEF Service!vars
<1>2. CASE W # {}
  <2> DEFINE f == [r \in W |-> a]
  <2>1. f \in [W -> {"ok", "error"}] /\ \A r \in W : f[r] = "ok" => r \in ToSet(sent)
    OBVIOUS
  <2>2. reply' = [r \in Service!Requests |-> IF r \in W THEN f[r] ELSE reply[r]]
    <3>1. \A r \in Requests : (IF r \in W THEN f[r] ELSE reply[r])
                              = (IF r \in S /\ reply[r] = "waiting" THEN a ELSE reply[r])
      OBVIOUS
    <3>2. reply' = [r \in Requests |-> IF r \in S /\ reply[r] = "waiting" THEN a ELSE reply[r]]
      BY DEF AnswerIfWaiting
    <3>3. Service!Requests = Requests
      BY DEF Requests, Service!Requests
    <3> HIDE DEF f, W
    <3> QED BY <3>1, <3>2, <3>3
  <2>3. ToSet(sent)' = ToSet(sent)
    BY DEF ToSet
  <2>4. W \in (SUBSET Service!Requests) \ {{}}
    <3>1. W \subseteq Requests /\ Service!Requests = Requests
      BY DEF Requests, Service!Requests
    <3> HIDE DEF f, W
    <3> QED BY <1>2, <3>1
  <2> HIDE DEF f, W
  <2>5. Service!Answer(W)
    <3>1. \A r \in W : reply[r] = "waiting"
      BY DEF W
    <3> QED BY <2>1, <2>2, <2>3, <3>1 DEF Service!Answer
  <2> QED BY <2>4, <2>5 DEF Service!Next
<1> QED BY <1>1, <1>2

\* Every step of the queue is a step of the service or leaves it unchanged.
LEMMA StepRefines == IInv /\ [Next]_vars => [Service!Next]_(Service!vars)
<1> SUFFICES ASSUME IInv, [Next]_vars PROVE [Service!Next]_(Service!vars)
  OBVIOUS
<1> USE DEF Requests, Service!Requests
<1>1. TypeOK /\ Structure
  BY DEF IInv, Structure
<1>2. ASSUME NEW r \in Requests, Caller(r) PROVE [Service!Next]_(Service!vars)
  <2>1. CASE CallRaw(r)
    <3>1. ToSet(sent') = ToSet(sent) \cup {r}
      BY <1>1, <2>1, ToSetAppend DEF TypeOK, CallRaw
    <3>2. Service!Call(r)
      BY <2>1, <3>1 DEF CallRaw, Begin, Service!Call
    <3> QED BY <3>2 DEF Service!Next
  <2>2. CASE Enqueue(r) \/ CallDirect(r)
    <3>1. Service!Call(r)
      BY <2>2 DEF Enqueue, Put, CallDirect, Begin, Service!Call
    <3> QED BY <3>1 DEF Service!Next
  <2>3. CASE DropLike(r)
    <3>1. Service!Drop(r)
      BY <2>3 DEF DropLike, Service!Drop
    <3> QED BY <3>1 DEF Service!Next
  <2>4. CASE CancelCaller(r)
    <3>1. Service!Cancel(r)
      BY <2>4 DEF CancelCaller, Service!Cancel
    <3> QED BY <3>1 DEF Service!Next
  <2> QED BY <1>2, <2>1, <2>2, <2>3, <2>4 DEF Caller
<1>3. ASSUME NEW r \in Requests, NEW a \in {"ok", "error"}, ReturnToCaller(r, a)
      PROVE  [Service!Next]_(Service!vars)
  <2>1. r \in ToSet(sent) /\ reply[r] = "waiting"
    BY <1>1, <1>3 DEF ReturnToCaller, Structure, SentWhenCalling, RouteHasActor, InFlight
  <2>2. reply' = AnswerIfWaiting({r}, a) /\ UNCHANGED sent
    BY <1>1, <1>3, <2>1 DEF ReturnToCaller, AnswerIfWaiting, TypeOK
  <2> QED BY <1>1, <2>1, <2>2, AnswersRefine
<1>4. ASSUME NEW w \in Workers, NEW a \in {"ok", "error"}, Finish(w, a)
      PROVE  [Service!Next]_(Service!vars)
  <2>1. held[w] \in ToSet(sent) /\ held[w] \in Requests
    BY <1>1, <1>4 DEF Finish, Structure, SentWhenCalling, TypeOK
  <2>2. reply' = AnswerIfWaiting({held[w]}, a) /\ UNCHANGED sent
    BY <1>4 DEF Finish
  <2> QED BY <1>1, <2>1, <2>2, AnswersRefine
<1>5. ASSUME NEW w \in Workers, EndWorker(w) PROVE [Service!Next]_(Service!vars)
  <2>1. UNCHANGED sent /\ reply' = AnswerIfWaiting({held[w]} \cap Requests, "error")
    BY <1>5 DEF EndWorker, AnswerIfWaiting
  <2> QED BY <1>1, <2>1, AnswersRefine
<1>6. CASE DrainTimeout
  <2>1. ToSet(queue) \subseteq Requests
    BY <1>1 DEF TypeOK, ToSet
  <2> QED BY <1>1, <1>6, <2>1, AnswersRefine DEF DrainTimeout
<1>7. CASE Acquire
  <2>1. /\ Head(slot) \in Requests /\ Head(slot) \in ToSet(slot)
        /\ ToSet(sent') = ToSet(sent) \cup {Head(slot)}
    BY <1>1, <1>7, ToSetTail, ToSetAppend DEF TypeOK, Acquire
  <2>2. Service!Issue(Head(slot))
    BY <1>1, <1>7, <2>1 DEF Structure, SentWhenCalling, InFlight, Acquire, Service!Issue
  <2> QED BY <2>1, <2>2 DEF Service!Next
<1>8. CASE \/ UNCHANGED vars \/ PassRateLimit \/ Start \/ Stop \/ Joined \/ Stopped
           \/ \E w \in Workers : Take(w)
  <2>1. UNCHANGED <<reply, sent>>
    BY <1>8 DEF vars, PassRateLimit, Start, Stop, Joined, Stopped, Unpatch, Take
  <2> QED BY <2>1 DEF Service!vars
<1> QED BY <1>2, <1>3, <1>4, <1>5, <1>6, <1>7, <1>8 DEF Next, Return, Shutdown

\* The send queue implements the service of SendService, its fairness left to
\* the runs: calls are answered once, "ok" only when they were made, dropped
\* only when they are send_like.
THEOREM RefinesService == Spec => Service!Init /\ [][Service!Next]_(Service!vars)
<1>1. Init => Service!Init
  BY EmptyHasNone DEF Init, Service!Init, Requests, Service!Requests
<1> QED BY <1>1, StepRefines, SpecIInv, PTL DEF Spec
=============================================================================
