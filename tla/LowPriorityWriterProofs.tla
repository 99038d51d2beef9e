---------------------- MODULE LowPriorityWriterProofs ----------------------
(***************************************************************************)
(* Theorems about LowPriorityWriter, for every value of its constants that *)
(* its assumptions allow: any number of records and workers, any buffer    *)
(* and batch size.  The safety invariants follow from IInv, which is       *)
(* inductive.  Its heart is that the table, the one batch being written    *)
(* and the buffer are one increasing sequence of records, cut in three.    *)
(***************************************************************************)
EXTENDS LowPriorityWriter, FiniteSetTheorems, FunctionTheorems, SequenceTheorems,
        TLAPS

-----------------------------------------------------------------------------
\* The inductive invariant

Sorted(s) == \A i, j \in DOMAIN s : i < j => s[i] < s[j]

\* Every record of s is older than every record of t.
Below(s, t) == \A i \in DOMAIN s, j \in DOMAIN t : s[i] < t[j]

Wants == {"lock", "loop", "write"}

\* The tasks in _flush_state and those that wait for it are in _FLUSH_LOCK, and
\* only its holder has a batch.
Locking ==
  /\ IsInjective(flushLock)
  /\ \A t \in Tasks : t \in ToSet(flushLock) <=> at[t] \in Wants
  /\ \A t \in Tasks : at[t] \in {"loop", "write"} => Holds(flushLock, t)
  /\ \A t \in Tasks : at[t] # "write" => batch[t] = <<>>
  /\ stop \in {"idle", "cancel"} => at[Stopper] = "off"
  /\ current # None => current \in Workers

\* What is written, being written and buffered, in the order of the appends
Ordered ==
  /\ Sorted(rows) /\ Sorted(buffer) /\ Below(rows, buffer)
  /\ \A t \in Tasks : Sorted(batch[t]) /\ Below(rows, batch[t]) /\ Below(batch[t], buffer)

\* Only what was appended is anywhere.
Bounded ==
  /\ \A i \in DOMAIN rows : rows[i] <= appended
  /\ \A i \in DOMAIN buffer : buffer[i] <= appended
  /\ \A t \in Tasks : \A i \in DOMAIN batch[t] : batch[t][i] <= appended
  /\ \A r \in uncertain \cup late : r <= appended

\* What the database may have added behind our back is nowhere else.
Apart ==
  /\ uncertain \cap late = {}
  /\ \A i \in DOMAIN rows : rows[i] \notin uncertain \cup late
  /\ \A i \in DOMAIN buffer : buffer[i] \notin uncertain \cup late
  /\ \A t \in Tasks : \A i \in DOMAIN batch[t] : batch[t][i] \notin uncertain \cup late

\* The books balance, with the batch of the task that writes, if there is one.
Counted ==
  /\ (\A t \in Tasks : at[t] # "write")
       => appended = Len(buffer) + Len(rows) + dropped + abandoned
  /\ \A t \in Tasks : at[t] = "write"
       => appended = Len(buffer) + Len(batch[t]) + Len(rows) + dropped + abandoned

IInv == TypeOK /\ Locking /\ Ordered /\ Bounded /\ Apart /\ Counted

-----------------------------------------------------------------------------
\* Sequences of records

\* What a stretch of a sequence is made of.
LEMMA PartOf ==
  ASSUME NEW S, NEW s \in Seq(S), NEW a \in Int, NEW b \in Int,
         1 <= a, a <= b + 1, b <= Len(s)
  PROVE  /\ SubSeq(s, a, b) \in Seq(S)
         /\ Len(SubSeq(s, a, b)) = b - a + 1
         /\ DOMAIN SubSeq(s, a, b) = 1..(b - a + 1)
         /\ \A i \in 1..(b - a + 1) :
              a + i - 1 \in DOMAIN s /\ SubSeq(s, a, b)[i] = s[a + i - 1]
<1> DEFINE t == SubSeq(s, a, b)
<1>1. \A j \in a..b : s[j] \in S
  OBVIOUS
<1>2. /\ t \in Seq(S)
      /\ Len(t) = IF a <= b THEN b - a + 1 ELSE 0
      /\ \A j \in 1..(b - a + 1) : t[j] = s[a + j - 1]
  BY <1>1, SubSeqProperties
<1> HIDE DEF t
<1>3. Len(t) = b - a + 1 /\ DOMAIN t = 1..(b - a + 1)
  BY <1>2
<1>4. \A i \in 1..(b - a + 1) : a + i - 1 \in DOMAIN s
  OBVIOUS
<1> QED BY <1>2, <1>3, <1>4 DEF t

\* A stretch of an increasing sequence is increasing.
LEMMA PartSorted ==
  ASSUME NEW s \in Seq(Nat), Sorted(s), NEW a \in Int, NEW b \in Int,
         1 <= a, a <= b + 1, b <= Len(s)
  PROVE  Sorted(SubSeq(s, a, b))
<1> DEFINE t == SubSeq(s, a, b)
<1>1. /\ DOMAIN t = 1..(b - a + 1)
      /\ \A i \in 1..(b - a + 1) : a + i - 1 \in DOMAIN s /\ t[i] = s[a + i - 1]
  BY PartOf
<1> HIDE DEF t
<1>2. ASSUME NEW i \in DOMAIN t, NEW j \in DOMAIN t, i < j PROVE t[i] < t[j]
  <2>1. a + i - 1 < a + j - 1
    BY <1>1, <1>2
  <2> QED BY <1>1, <1>2, <2>1 DEF Sorted
<1> QED BY <1>2 DEF t, Sorted

\* What two sequences in a row are made of.
LEMMA JoinOf ==
  ASSUME NEW S, NEW s \in Seq(S), NEW t \in Seq(S)
  PROVE  /\ s \o t \in Seq(S)
         /\ Len(s \o t) = Len(s) + Len(t)
         /\ DOMAIN (s \o t) = 1..(Len(s) + Len(t))
         /\ \A i \in 1..(Len(s) + Len(t)) :
              \/ i \in DOMAIN s /\ (s \o t)[i] = s[i]
              \/ i > Len(s) /\ i - Len(s) \in DOMAIN t /\ (s \o t)[i] = t[i - Len(s)]
<1> DEFINE u == s \o t
<1>1. /\ u \in Seq(S) /\ Len(u) = Len(s) + Len(t)
      /\ \A j \in 1..(Len(s) + Len(t)) : u[j] = IF j <= Len(s) THEN s[j] ELSE t[j - Len(s)]
  BY ConcatProperties, Zenon
<1> HIDE DEF u
<1>2. DOMAIN u = 1..(Len(s) + Len(t)) /\ DOMAIN s = 1..Len(s) /\ DOMAIN t = 1..Len(t)
  BY <1>1
<1>3. Len(s) \in Nat /\ Len(t) \in Nat
  OBVIOUS
<1>4. ASSUME NEW i \in 1..(Len(s) + Len(t))
      PROVE  \/ i \in DOMAIN s /\ u[i] = s[i]
             \/ i > Len(s) /\ i - Len(s) \in DOMAIN t /\ u[i] = t[i - Len(s)]
  <2>1. CASE i <= Len(s)
    BY <1>1, <1>2, <1>3, <2>1
  <2>2. CASE ~(i <= Len(s))
    BY <1>1, <1>2, <1>3, <2>2
  <2> QED BY <2>1, <2>2
<1> QED BY <1>1, <1>2, <1>4 DEF u

\* Two increasing sequences in a row, the first below the second, increase.
LEMMA JoinSorted ==
  ASSUME NEW s \in Seq(Nat), NEW t \in Seq(Nat), Sorted(s), Sorted(t), Below(s, t)
  PROVE  Sorted(s \o t)
<1> DEFINE u == s \o t
<1>1. /\ DOMAIN u = 1..(Len(s) + Len(t))
      /\ \A i \in 1..(Len(s) + Len(t)) :
           \/ i \in DOMAIN s /\ u[i] = s[i]
           \/ i > Len(s) /\ i - Len(s) \in DOMAIN t /\ u[i] = t[i - Len(s)]
  BY JoinOf
<1>0. DOMAIN s = 1..Len(s) /\ Len(s) \in Nat /\ Len(t) \in Nat
  OBVIOUS
<1> HIDE DEF u
<1>2. ASSUME NEW i \in DOMAIN u, NEW j \in DOMAIN u, i < j PROVE u[i] < u[j]
  <2>1. CASE j \in DOMAIN s /\ u[j] = s[j]
    <3>1. i \in DOMAIN s /\ u[i] = s[i]
      <4>1. i \in 1..(Len(s) + Len(t)) /\ i \in Int /\ j \in Int
        BY <1>0, <1>1, <1>2
      <4>2. ~(i > Len(s))
        BY <1>0, <1>2, <2>1, <4>1
      <4> QED BY <1>1, <4>1, <4>2
    <3> QED BY <1>2, <2>1, <3>1 DEF Sorted
  <2>2. CASE j - Len(s) \in DOMAIN t /\ u[j] = t[j - Len(s)]
    <3>1. CASE i \in DOMAIN s /\ u[i] = s[i]
      BY <2>2, <3>1 DEF Below
    <3>2. CASE i - Len(s) \in DOMAIN t /\ u[i] = t[i - Len(s)]
      <4>1. i - Len(s) < j - Len(s)
        BY <1>1, <1>2
      <4> QED BY <2>2, <3>2, <4>1 DEF Sorted
    <3> QED BY <1>1, <3>1, <3>2
  <2> QED BY <1>1, <2>1, <2>2
<1> QED BY <1>2 DEF u, Sorted

-----------------------------------------------------------------------------
\* The waiters of the lock: sequences without repetition

\* Appending adds one element, and keeps a sequence without repetition one.
LEMMA ToSetAppend ==
  ASSUME NEW S, NEW s \in Seq(S), NEW e \in S
  PROVE  /\ Append(s, e) \in Seq(S)
         /\ Len(Append(s, e)) = Len(s) + 1
         /\ ToSet(Append(s, e)) = ToSet(s) \cup {e}
         /\ IsInjective(s) /\ e \notin ToSet(s) => IsInjective(Append(s, e))
<1> DEFINE t == Append(s, e)
<1>1. /\ t \in Seq(S) /\ Len(t) = Len(s) + 1
      /\ \A i \in 1..Len(s) : t[i] = s[i]
      /\ t[Len(s) + 1] = e
  OBVIOUS
<1> HIDE DEF t
<1>2. DOMAIN t = 1..(Len(s) + 1) /\ DOMAIN s = 1..Len(s) /\ Len(s) \in Nat
  BY <1>1
<1>3. ToSet(t) = ToSet(s) \cup {e}
  <2>1. ToSet(t) \subseteq ToSet(s) \cup {e}
    BY <1>1, <1>2 DEF ToSet
  <2>2. ToSet(s) \cup {e} \subseteq ToSet(t)
    BY <1>1, <1>2, Len(s) + 1 \in 1..(Len(s) + 1) DEF ToSet
  <2> QED BY <2>1, <2>2
<1>4. ASSUME IsInjective(s), e \notin ToSet(s) PROVE IsInjective(t)
  <2> SUFFICES ASSUME NEW a \in 1..(Len(s) + 1), NEW b \in 1..(Len(s) + 1), t[a] = t[b]
               PROVE  a = b
    BY <1>2 DEF IsInjective
  <2>1. CASE a \in 1..Len(s) /\ b \in 1..Len(s)
    BY <1>1, <1>2, <1>4, <2>1 DEF IsInjective
  <2>2. CASE a = Len(s) + 1 /\ b \in 1..Len(s)
    BY <1>1, <1>2, <1>4, <2>2 DEF ToSet
  <2>3. CASE b = Len(s) + 1 /\ a \in 1..Len(s)
    BY <1>1, <1>2, <1>4, <2>3 DEF ToSet
  <2> QED BY <1>2, <2>1, <2>2, <2>3
<1> QED BY <1>1, <1>3, <1>4 DEF t

\* Taking the head of a sequence without repetition removes that element.
LEMMA ToSetTail ==
  ASSUME NEW S, NEW s \in Seq(S), s # <<>>
  PROVE  /\ Head(s) \in S /\ Head(s) \in ToSet(s)
         /\ Tail(s) \in Seq(S) /\ Len(Tail(s)) = Len(s) - 1
         /\ ToSet(s) = ToSet(Tail(s)) \cup {Head(s)}
         /\ IsInjective(s) => /\ IsInjective(Tail(s))
                              /\ ToSet(Tail(s)) = ToSet(s) \ {Head(s)}
<1> DEFINE t == Tail(s)
<1>1. /\ t \in Seq(S) /\ Len(t) = Len(s) - 1 /\ Len(s) \in Nat \ {0}
      /\ \A i \in 1..Len(t) : t[i] = s[i + 1]
      /\ Head(s) = s[1] /\ s[1] \in S
  OBVIOUS
<1> HIDE DEF t
<1>2. DOMAIN t = 1..(Len(s) - 1) /\ DOMAIN s = 1..Len(s)
  BY <1>1
<1>3. Head(s) \in ToSet(s)
  BY <1>1, <1>2, 1 \in 1..Len(s) DEF ToSet
<1>4. ToSet(s) = ToSet(t) \cup {Head(s)}
  <2>1. ToSet(t) \subseteq ToSet(s)
    <3>1. ASSUME NEW i \in DOMAIN t PROVE t[i] \in ToSet(s)
      <4>1. i + 1 \in DOMAIN s /\ t[i] = s[i + 1]
        BY <1>1, <1>2
      <4> QED BY <4>1 DEF ToSet
    <3> QED BY <3>1 DEF ToSet
  <2>2. ASSUME NEW i \in 1..Len(s)
        PROVE  i = 1 \/ (i - 1 \in 1..(Len(s) - 1) /\ s[i] = t[i - 1])
    <3>1. CASE i # 1
      <4>1. i - 1 \in 1..(Len(s) - 1) /\ (i - 1) + 1 = i
        BY <1>1, <3>1
      <4> QED BY <1>1, <4>1
    <3> QED BY <3>1
  <2>3. ASSUME NEW i \in DOMAIN s PROVE s[i] \in ToSet(t) \cup {Head(s)}
    BY <1>1, <1>2, <2>2 DEF ToSet
  <2>4. ToSet(s) \subseteq ToSet(t) \cup {Head(s)}
    BY <2>3 DEF ToSet
  <2> QED BY <1>3, <2>1, <2>4
<1>5. ASSUME IsInjective(s) PROVE IsInjective(t) /\ Head(s) \notin ToSet(t)
  <2>1. IsInjective(t)
    <3> SUFFICES ASSUME NEW i \in DOMAIN t, NEW j \in DOMAIN t, t[i] = t[j] PROVE i = j
      BY DEF IsInjective
    <3>1. /\ i + 1 \in DOMAIN s /\ j + 1 \in DOMAIN s /\ s[i + 1] = s[j + 1]
          /\ i \in Int /\ j \in Int
      BY <1>1, <1>2
    <3>2. i + 1 = j + 1
      BY <1>5, <3>1 DEF IsInjective
    <3> QED BY <3>1, <3>2
  <2>2. ASSUME NEW i \in 1..(Len(s) - 1) PROVE t[i] # s[1]
    <3>1. t[i] = s[i + 1] /\ i + 1 \in DOMAIN s /\ 1 \in DOMAIN s /\ i + 1 # 1
      BY <1>1, <1>2
    <3> QED BY <1>5, <3>1 DEF IsInjective
  <2>3. Head(s) \notin ToSet(t)
    BY <1>1, <1>2, <2>2 DEF ToSet
  <2> QED BY <2>1, <2>3
<1> QED BY <1>1, <1>3, <1>4, <1>5 DEF t

\* Removing one place of a sequence without repetition removes its element.
LEMMA RemoveAtRemoves ==
  ASSUME NEW S, NEW s \in Seq(S), NEW i \in 1..Len(s), IsInjective(s)
  PROVE  /\ RemoveAt(s, i) \in Seq(S)
         /\ ToSet(RemoveAt(s, i)) = ToSet(s) \ {s[i]}
         /\ IsInjective(RemoveAt(s, i))
<1> DEFINE t == RemoveAt(s, i)
           u == SubSeq(s, 1, i - 1)
           v == SubSeq(s, i + 1, Len(s))
<1>1. Len(s) \in Nat /\ i \in Nat /\ 1 <= i /\ i <= Len(s)
  OBVIOUS
<1>2. /\ u \in Seq(S) /\ Len(u) = i - 1 /\ DOMAIN u = 1..(i - 1)
      /\ \A j \in 1..(i - 1) : u[j] = s[j]
  <2>1. /\ u \in Seq(S) /\ Len(u) = (i - 1) - 1 + 1 /\ DOMAIN u = 1..((i - 1) - 1 + 1)
        /\ \A j \in 1..((i - 1) - 1 + 1) : u[j] = s[1 + j - 1]
    BY <1>1, PartOf
  <2> HIDE DEF u
  <2> QED BY <1>1, <2>1
<1>3. /\ v \in Seq(S) /\ Len(v) = Len(s) - i /\ DOMAIN v = 1..(Len(s) - i)
      /\ \A j \in 1..(Len(s) - i) : v[j] = s[i + j]
  <2>1. /\ v \in Seq(S) /\ Len(v) = Len(s) - (i + 1) + 1
        /\ DOMAIN v = 1..(Len(s) - (i + 1) + 1)
        /\ \A j \in 1..(Len(s) - (i + 1) + 1) : v[j] = s[(i + 1) + j - 1]
    BY <1>1, PartOf
  <2> HIDE DEF v
  <2> QED BY <1>1, <2>1
<1>4. /\ t \in Seq(S) /\ Len(t) = Len(s) - 1 /\ Len(s) \in Nat
      /\ \A j \in 1..Len(t) : t[j] = IF j < i THEN s[j] ELSE s[j+1]
  <2>1. t = u \o v
    BY DEF RemoveAt
  <2> HIDE DEF t, u, v
  <2>2. /\ t \in Seq(S) /\ Len(t) = Len(u) + Len(v)
        /\ \A j \in 1..(Len(u) + Len(v)) :
             \/ j \in DOMAIN u /\ t[j] = u[j]
             \/ j > Len(u) /\ j - Len(u) \in DOMAIN v /\ t[j] = v[j - Len(u)]
    <3>1. u \in Seq(S) /\ v \in Seq(S)
      BY <1>2, <1>3
    <3>2. /\ u \o v \in Seq(S) /\ Len(u \o v) = Len(u) + Len(v)
          /\ \A j \in 1..(Len(u) + Len(v)) :
               \/ j \in DOMAIN u /\ (u \o v)[j] = u[j]
               \/ j > Len(u) /\ j - Len(u) \in DOMAIN v /\ (u \o v)[j] = v[j - Len(u)]
      BY <3>1, JoinOf, Zenon
    <3> QED BY <2>1, <3>2, Zenon
  <2>3. Len(t) = Len(s) - 1 /\ Len(u) + Len(v) = Len(s) - 1
    BY <1>1, <1>2, <1>3, <2>2
  <2>4. ASSUME NEW j \in 1..(Len(s) - 1) PROVE t[j] = IF j < i THEN s[j] ELSE s[j+1]
    <3>1. CASE j \in DOMAIN u /\ t[j] = u[j]
      BY <1>1, <1>2, <3>1
    <3>2. CASE j > Len(u) /\ j - Len(u) \in DOMAIN v /\ t[j] = v[j - Len(u)]
      <4>1. ~(j < i) /\ j - (i - 1) \in 1..(Len(s) - i) /\ i + (j - (i - 1)) = j + 1
        BY <1>1, <1>2, <1>3, <3>2
      <4>2. t[j] = v[j - (i - 1)] /\ v[j - (i - 1)] = s[i + (j - (i - 1))]
        BY <1>2, <1>3, <3>2, <4>1
      <4> QED BY <4>1, <4>2
    <3> QED BY <2>2, <2>3, <3>1, <3>2
  <2> QED BY <1>1, <2>2, <2>3, <2>4
<1> HIDE DEF t
<1>5. DOMAIN t = 1..(Len(s) - 1) /\ DOMAIN s = 1..Len(s)
  BY <1>4
<1>6. \A j \in 1..Len(s) : j # i => \E k \in 1..(Len(s) - 1) : t[k] = s[j]
  <2>1. TAKE j \in 1..Len(s)
  <2>2. HAVE j # i
  <2>3. CASE j < i
    BY <1>1, <1>4, <2>3, j \in 1..(Len(s) - 1)
  <2>4. CASE j > i
    <3>1. j-1 \in 1..(Len(s) - 1) /\ ~(j-1 < i) /\ (j-1)+1 = j
      BY <1>1, <2>4
    <3> QED BY <1>4, <3>1
  <2> QED BY <1>1, <2>2, <2>3, <2>4
<1>7. \A j \in 1..(Len(s) - 1) : t[j] \in ToSet(s) /\ t[j] # s[i]
  <2>1. TAKE j \in 1..(Len(s) - 1)
  <2>2. \E k \in 1..Len(s) : k # i /\ t[j] = s[k]
    <3>1. CASE j < i
      BY <1>1, <1>4, <3>1, j \in 1..Len(s)
    <3>2. CASE ~(j < i)
      BY <1>1, <1>4, <3>2, j+1 \in 1..Len(s), j+1 # i
    <3> QED BY <3>1, <3>2
  <2> QED BY <1>1, <1>5, <2>2 DEF ToSet, IsInjective
<1>8. ToSet(t) = ToSet(s) \ {s[i]}
  <2>1. ASSUME NEW x \in ToSet(s), x # s[i] PROVE x \in ToSet(t)
    <3>1. PICK j \in 1..Len(s) : x = s[j]
      BY <1>5 DEF ToSet
    <3>2. PICK k \in 1..(Len(s) - 1) : t[k] = s[j]
      BY <1>6, <2>1, <3>1
    <3> QED BY <1>5, <3>1, <3>2 DEF ToSet
  <2>2. ASSUME NEW x \in ToSet(t) PROVE x \in ToSet(s) \ {s[i]}
    BY <1>5, <1>7 DEF ToSet
  <2> QED BY <2>1, <2>2
<1>9. IsInjective(t)
  <2> SUFFICES ASSUME NEW a \in 1..(Len(s) - 1), NEW b \in 1..(Len(s) - 1), t[a] = t[b]
               PROVE  a = b
    BY <1>5 DEF IsInjective
  <2> DEFINE up(j) == IF j < i THEN j ELSE j+1
  <2>1. ASSUME NEW j \in 1..(Len(s) - 1) PROVE up(j) \in 1..Len(s) /\ t[j] = s[up(j)]
    <3>1. j \in 1..Len(s) /\ j + 1 \in 1..Len(s)
      BY <1>1
    <3>2. t[j] = IF j < i THEN s[j] ELSE s[j+1]
      BY <1>4
    <3> QED BY <3>1, <3>2
  <2>2. up(a) = up(b)
    <3>1. /\ up(a) \in DOMAIN s /\ t[a] = s[up(a)]
          /\ up(b) \in DOMAIN s /\ t[b] = s[up(b)]
      BY <1>5, <2>1
    <3> QED BY <3>1, Zenon DEF IsInjective
  <2>3. a \in Int /\ b \in Int /\ i \in Int
    BY <1>1
  <2>4. \A x, y, z \in Int :
          (IF x < z THEN x ELSE x+1) = (IF y < z THEN y ELSE y+1) => x = y
    OBVIOUS
  <2> QED BY <2>2, <2>3, <2>4, Zenon
<1> QED BY <1>4, <1>8, <1>9 DEF t

\* Leave takes one element out of a sequence without repetition.
LEMMA LeaveRemoves ==
  ASSUME NEW S, NEW s \in Seq(S), NEW e, IsInjective(s)
  PROVE  /\ Leave(s, e) \in Seq(S)
         /\ ToSet(Leave(s, e)) = ToSet(s) \ {e}
         /\ IsInjective(Leave(s, e))
<1>1. CASE e \notin ToSet(s)
  BY <1>1, Zenon DEF Leave
<1>2. CASE e \in ToSet(s)
  <2>1. PICK j \in DOMAIN s : s[j] = e
    BY <1>2 DEF ToSet
  <2> DEFINE i == CHOOSE k \in DOMAIN s : s[k] = e
  <2>2. i \in 1..Len(s) /\ s[i] = e
    BY <2>1
  <2>3. Leave(s, e) = RemoveAt(s, i)
    BY <1>2 DEF Leave
  <2> HIDE DEF i
  <2>4. /\ RemoveAt(s, i) \in Seq(S)
        /\ ToSet(RemoveAt(s, i)) = ToSet(s) \ {s[i]}
        /\ IsInjective(RemoveAt(s, i))
    BY <2>2, RemoveAtRemoves
  <2> QED BY <2>2, <2>3, <2>4
<1> QED BY <1>1, <1>2

\* A task that leaves a lock it does not hold leaves the holder its place.
LEMMA LeaveKeepsHolder ==
  ASSUME NEW S, NEW s \in Seq(S), NEW e, NEW h, Holds(s, h), h # e
  PROVE  Holds(Leave(s, e), h)
<1>1. CASE e \notin ToSet(s)
  BY <1>1, Zenon DEF Leave
<1>2. CASE e \in ToSet(s)
  <2> DEFINE i == CHOOSE k \in DOMAIN s : s[k] = e
             u == SubSeq(s, 1, i - 1)
             v == SubSeq(s, i + 1, Len(s))
  <2>1. PICK j \in DOMAIN s : s[j] = e
    BY <1>2 DEF ToSet
  <2>2. i \in 1..Len(s) /\ s[i] = e
    BY <2>1
  <2>3. Leave(s, e) = u \o v
    BY <1>2, Zenon DEF Leave, RemoveAt
  <2>4. s # <<>> /\ Head(s) = s[1] /\ s[1] = h
    BY DEF Holds
  <2> HIDE DEF i
  <2>5. i \in Nat /\ i > 1 /\ i - 1 \in Int /\ i + 1 \in Int /\ Len(s) \in Int
    BY <2>2, <2>4
  <2>6. u \in Seq(S) /\ Len(u) = i - 1 /\ u[1] = s[1]
    <3>1. /\ u \in Seq(S) /\ Len(u) = (i - 1) - 1 + 1
          /\ \A k \in 1..((i - 1) - 1 + 1) : u[k] = s[1 + k - 1]
      BY <2>2, <2>5, PartOf
    <3> HIDE DEF u
    <3>2. (i - 1) - 1 + 1 = i - 1 /\ 1 \in 1..((i - 1) - 1 + 1) /\ 1 + 1 - 1 = 1
      BY <2>5
    <3>3. u[1] = s[1 + 1 - 1]
      BY <3>1, <3>2, Zenon
    <3> QED BY <3>1, <3>2, <3>3, Zenon
  <2>7. v \in Seq(S)
    BY <2>2, <2>5, PartOf
  <2> HIDE DEF u, v
  <2>8. Len(u \o v) = Len(u) + Len(v) /\ (u \o v)[1] = u[1] /\ u \o v \in Seq(S)
    <3>1. /\ DOMAIN (u \o v) = 1..(Len(u) + Len(v)) /\ u \o v \in Seq(S)
          /\ Len(u \o v) = Len(u) + Len(v)
          /\ \A k \in 1..(Len(u) + Len(v)) :
               \/ k \in DOMAIN u /\ (u \o v)[k] = u[k]
               \/ k > Len(u) /\ k - Len(u) \in DOMAIN v /\ (u \o v)[k] = v[k - Len(u)]
      BY <2>6, <2>7, JoinOf, Zenon
    <3>2. Len(v) \in Nat
      BY <2>7
    <3>3. 1 \in 1..(Len(u) + Len(v)) /\ ~(1 > Len(u))
      BY <2>5, <2>6, <3>2
    <3> QED BY <3>1, <3>3, Zenon
  <2>9. u \o v # <<>> /\ Head(u \o v) = (u \o v)[1]
    <3>1. Len(v) \in Nat
      BY <2>7
    <3>2. Len(u \o v) > 0
      BY <2>5, <2>6, <2>8, <3>1
    <3> DEFINE w == u \o v
    <3> HIDE DEF w
    <3>3. w \in Seq(S) /\ Len(w) > 0
      BY <2>8, <3>2 DEF w
    <3>4. w # <<>> /\ Head(w) = w[1]
      BY <3>3
    <3> QED BY <3>4 DEF w
  <2> QED BY <2>3, <2>4, <2>6, <2>8, <2>9 DEF Holds
<1> QED BY <1>1, <1>2

-----------------------------------------------------------------------------
\* The initial states

\* The invariant holds at the start.
LEMMA InitIInv == Init => IInv
<1> SUFFICES ASSUME Init PROVE IInv
  OBVIOUS
<1>1. TypeOK
  <2>1. /\ appended \in 0..MaxRecords /\ dropped \in Nat /\ abandoned \in Nat
        /\ buffer = <<>> /\ Len(buffer) = 0 /\ Len(buffer) <= MaxRetain
    BY SizesPositive DEF Init
  <2>2. \A t \in Tasks : batch[t] = <<>> /\ Len(batch[t]) <= BatchSize
    BY SizesPositive DEF Init
  <2>3. /\ batch \in [Tasks -> Seq(Records)] /\ written \in [Tasks -> Nat]
        /\ at \in [Tasks -> {"off", "poll", "lock", "loop", "write"}]
    BY DEF Init
  <2>4. /\ rows \in Seq(Records) /\ buffer \in Seq(Records) /\ flushLock \in Seq(Tasks)
    BY DEF Init
  <2> QED BY <2>1, <2>2, <2>3, <2>4 DEF Init, TypeOK
<1>2. Locking
  <2>1. ToSet(<<>>) = {} /\ IsInjective(<<>>)
    BY DEF ToSet, IsInjective
  <2> QED BY <2>1, TasksDistinct DEF Init, Locking, Wants, Tasks, Forced
<1>3. Ordered /\ Bounded /\ Apart
  BY DEF Init, Ordered, Bounded, Apart, Sorted, Below
<1>4. Counted
  BY DEF Init, Counted
<1> QED BY <1>1, <1>2, <1>3, <1>4 DEF IInv

-----------------------------------------------------------------------------
\* What several actions have in common

\* At most one task is in the loop of _flush_state or writes.
LEMMA OneHolder ==
  ASSUME Locking, NEW t \in Tasks, NEW u \in Tasks,
         at[t] \in {"loop", "write"}, at[u] \in {"loop", "write"}
  PROVE  t = u
BY DEF Locking, Holds

\* A step that moves no record keeps the records' order and the books.
LEMMA NoRecordMoves ==
  ASSUME IInv, UNCHANGED <<appended, buffer, dropped, batch, rows, uncertain, late, abandoned>>,
         \A t \in Tasks : at'[t] = "write" <=> at[t] = "write"
  PROVE  Ordered' /\ Bounded' /\ Apart' /\ Counted'
<1>1. Ordered' /\ Bounded' /\ Apart'
  BY DEF IInv, Ordered, Bounded, Apart, Sorted, Below
<1>2. Counted'
  BY DEF IInv, Counted
<1> QED BY <1>1, <1>2

\* A task that is not in a flush asks for the lock.
LEMMA AskKeeps ==
  ASSUME IInv, NEW t \in Tasks, at[t] \in {"off", "poll"}, Ask(t),
         UNCHANGED current, (t # Stopper /\ UNCHANGED stop) \/ stop' = "flush"
  PROVE  /\ Locking'
         /\ flushLock' \in Seq(Tasks) /\ batch' = batch
         /\ at' \in [Tasks -> {"off", "poll", "lock", "loop", "write"}]
         /\ written' \in [Tasks -> Nat]
         /\ \A u \in Tasks : at'[u] = "write" <=> at[u] = "write"
<1>1. /\ at' = [at EXCEPT ![t] = IF flushLock = <<>> THEN "loop" ELSE "lock"]
      /\ flushLock' = Append(flushLock, t)
      /\ written' = [written EXCEPT ![t] = 0] /\ batch' = batch
  BY DEF Ask
<1>2. /\ at \in [Tasks -> {"off", "poll", "lock", "loop", "write"}]
      /\ flushLock \in Seq(Tasks) /\ written \in [Tasks -> Nat]
  BY DEF IInv, TypeOK
<1>3. /\ at'[t] \in {"lock", "loop"} /\ (at'[t] = "loop" => flushLock = <<>>)
      /\ \A u \in Tasks : u # t => at'[u] = at[u]
  BY <1>1, <1>2
<1>4. t \notin ToSet(flushLock)
  BY DEF IInv, Locking, Wants
<1>5. /\ flushLock' \in Seq(Tasks) /\ ToSet(flushLock') = ToSet(flushLock) \cup {t}
      /\ IsInjective(flushLock')
  BY <1>1, <1>2, <1>4, ToSetAppend DEF IInv, Locking
<1>6. ASSUME NEW u \in Tasks, at'[u] \in {"loop", "write"} PROVE Holds(flushLock', u)
  <2>1. CASE u = t
    <3>1. flushLock = <<>>
      BY <1>3, <1>6, <2>1
    <3>2. Append(flushLock, t) # <<>> /\ Head(Append(flushLock, t)) = t
      BY <3>1
    <3> QED BY <1>1, <2>1, <3>2 DEF Holds
  <2>2. CASE u # t
    <3>1. Holds(flushLock, u)
      BY <1>3, <1>6, <2>2 DEF IInv, Locking
    <3>2. flushLock \in Seq(Tasks) /\ flushLock # <<>>
      BY <1>2, <3>1 DEF Holds
    <3>3. Append(flushLock, t) # <<>> /\ Head(Append(flushLock, t)) = Head(flushLock)
      BY <3>2
    <3> QED BY <1>1, <3>1, <3>3 DEF Holds
  <2> QED BY <2>1, <2>2
<1>7. \A u \in Tasks : u \in ToSet(flushLock') <=> at'[u] \in Wants
  BY <1>3, <1>5 DEF IInv, Locking, Wants
<1>8. \A u \in Tasks : at'[u] # "write" => batch'[u] = <<>>
  BY <1>1, <1>3 DEF IInv, Locking
<1>9. stop' \in {"idle", "cancel"} => at'[Stopper] = "off"
  <2>1. Stopper \in Tasks
    BY DEF Tasks, Forced
  <2>3. CASE stop' = stop /\ t # Stopper
    BY <1>3, <2>1, <2>3 DEF IInv, Locking
  <2>4. CASE stop' = "flush"
    BY <2>4
  <2> QED BY <2>3, <2>4
<1>10. (current # None => current \in Workers)'
  BY DEF IInv, Locking
<1>11. Locking'
  BY <1>5, <1>6, <1>7, <1>8, <1>9, <1>10 DEF Locking
<1>12. /\ at' \in [Tasks -> {"off", "poll", "lock", "loop", "write"}]
       /\ written' \in [Tasks -> Nat]
  BY <1>1, <1>2
<1> QED BY <1>1, <1>3, <1>5, <1>11, <1>12

\* A task that ends its flush gives the lock to the next and has no batch left.
LEMMA LettingGoKeeps ==
  ASSUME IInv, NEW t \in Tasks, Holds(flushLock, t) \/ at[t] \in {"loop", "write"},
         Release(t), batch' \in [Tasks -> Seq(Records)], batch'[t] = <<>>,
         \A u \in Tasks : u # t => batch'[u] = batch[u]
  PROVE  /\ Locking'
         /\ flushLock' \in Seq(Tasks)
         /\ at' \in [Tasks -> {"off", "poll", "lock", "loop", "write"}]
         /\ stop' \in {"idle", "cancel", "flush", "done"}
         /\ \A u \in Tasks : at'[u] # "write"
         /\ \A u \in Tasks : u # t => at[u] # "write"
<1>1. /\ flushLock' = Tail(flushLock)
      /\ at' = [at EXCEPT ![t] = IF t \in Workers THEN "poll" ELSE "off"]
      /\ stop' = IF t = Stopper THEN "done" ELSE stop
      /\ current' = current
  BY DEF Release
<1>2. /\ at \in [Tasks -> {"off", "poll", "lock", "loop", "write"}]
      /\ flushLock \in Seq(Tasks) /\ stop \in {"idle", "cancel", "flush", "done"}
  BY DEF IInv, TypeOK
<1>3. at'[t] \in {"poll", "off"} /\ \A u \in Tasks : u # t => at'[u] = at[u]
  BY <1>1, <1>2
<1>4. Holds(flushLock, t)
  BY DEF IInv, Locking
<1>5. /\ flushLock' \in Seq(Tasks) /\ ToSet(flushLock') = ToSet(flushLock) \ {t}
      /\ IsInjective(flushLock')
  BY <1>1, <1>2, <1>4, ToSetTail DEF IInv, Locking, Holds
<1>6. \A u \in Tasks : u # t => at[u] \notin {"loop", "write"}
  BY <1>4 DEF IInv, Locking, Holds
<1>7. \A u \in Tasks : at'[u] \notin {"loop", "write"}
  BY <1>3, <1>6
<1>8. \A u \in Tasks : u \in ToSet(flushLock') <=> at'[u] \in Wants
  BY <1>3, <1>5 DEF IInv, Locking, Wants
<1>9. \A u \in Tasks : at'[u] # "write" => batch'[u] = <<>>
  BY <1>6 DEF IInv, Locking
<1>10. stop' \in {"idle", "cancel"} => at'[Stopper] = "off"
  <2>1. Stopper \in Tasks
    BY DEF Tasks, Forced
  <2>2. CASE t = Stopper
    BY <1>1, <2>2
  <2>3. CASE t # Stopper
    BY <1>1, <1>3, <2>1, <2>3 DEF IInv, Locking
  <2> QED BY <2>2, <2>3
<1>11. Locking'
  <2>1. (current # None => current \in Workers)'
    BY <1>1 DEF IInv, Locking
  <2> QED BY <1>5, <1>7, <1>8, <1>9, <1>10, <2>1 DEF Locking
<1>12. /\ at' \in [Tasks -> {"off", "poll", "lock", "loop", "write"}]
       /\ stop' \in {"idle", "cancel", "flush", "done"}
  BY <1>1, <1>2
<1> QED BY <1>5, <1>6, <1>7, <1>11, <1>12

\* A cancelled task is off, out of the lock and has no batch left.
LEMMA CancelledKeeps ==
  ASSUME IInv, NEW t \in Tasks, EndCancelled(t), t # Stopper, UNCHANGED <<stop, current>>
  PROVE  /\ Locking'
         /\ flushLock' \in Seq(Tasks)
         /\ at' \in [Tasks -> {"off", "poll", "lock", "loop", "write"}]
         /\ batch' \in [Tasks -> Seq(Records)]
         /\ at'[t] = "off" /\ batch'[t] = <<>>
         /\ \A u \in Tasks : u # t => at'[u] = at[u] /\ batch'[u] = batch[u]
<1>1. /\ at' = [at EXCEPT ![t] = "off"] /\ flushLock' = Leave(flushLock, t)
      /\ batch' = [batch EXCEPT ![t] = <<>>]
  BY DEF EndCancelled
<1>2. /\ at \in [Tasks -> {"off", "poll", "lock", "loop", "write"}]
      /\ flushLock \in Seq(Tasks) /\ batch \in [Tasks -> Seq(Records)]
  BY DEF IInv, TypeOK
<1>3. /\ at'[t] = "off" /\ batch'[t] = <<>>
      /\ \A u \in Tasks : u # t => at'[u] = at[u] /\ batch'[u] = batch[u]
  BY <1>1, <1>2
<1>4. /\ flushLock' \in Seq(Tasks) /\ ToSet(flushLock') = ToSet(flushLock) \ {t}
      /\ IsInjective(flushLock')
  BY <1>1, <1>2, LeaveRemoves DEF IInv, Locking
<1>5. ASSUME NEW u \in Tasks, at'[u] \in {"loop", "write"} PROVE Holds(flushLock', u)
  <2>1. u # t /\ Holds(flushLock, u)
    BY <1>3, <1>5 DEF IInv, Locking
  <2> QED BY <1>1, <1>2, <2>1, LeaveKeepsHolder
<1>6. \A u \in Tasks : u \in ToSet(flushLock') <=> at'[u] \in Wants
  BY <1>3, <1>4 DEF IInv, Locking, Wants
<1>7. \A u \in Tasks : at'[u] # "write" => batch'[u] = <<>>
  BY <1>3 DEF IInv, Locking
<1>8. stop' \in {"idle", "cancel"} => at'[Stopper] = "off"
  <2>1. Stopper \in Tasks
    BY DEF Tasks, Forced
  <2> QED BY <1>3, <2>1 DEF IInv, Locking
<1>9. Locking'
  <2>1. (current # None => current \in Workers)'
    BY DEF IInv, Locking
  <2> QED BY <1>4, <1>5, <1>6, <1>7, <1>8, <2>1 DEF Locking
<1>10. /\ at' \in [Tasks -> {"off", "poll", "lock", "loop", "write"}]
       /\ batch' \in [Tasks -> Seq(Records)]
  BY <1>1, <1>2
<1> QED BY <1>3, <1>4, <1>9, <1>10

-----------------------------------------------------------------------------
\* The actions

\* Records are natural numbers.
LEMMA RecordsAreNumbers ==
  ASSUME NEW s \in Seq(Records)
  PROVE  s \in Seq(Nat) /\ \A i \in DOMAIN s : s[i] \in Nat /\ s[i] \in Records
<1>1. \A i \in 1..Len(s) : s[i] \in Records
  OBVIOUS
<1>2. Records \subseteq Nat
  BY SizesPositive DEF Records
<1>3. s \in Seq(Nat)
  BY <1>2, SeqMonotonic, Zenon
<1>4. DOMAIN s = 1..Len(s)
  OBVIOUS
<1> QED BY <1>1, <1>2, <1>3, <1>4

\* The rest of a sequence, in order as before.
LEMMA TailSorted ==
  ASSUME NEW S, NEW s \in Seq(S), s # <<>>
  PROVE  /\ Tail(s) \in Seq(S) /\ Len(Tail(s)) = Len(s) - 1
         /\ DOMAIN Tail(s) = 1..(Len(s) - 1)
         /\ \A i \in 1..(Len(s) - 1) : i + 1 \in DOMAIN s /\ Tail(s)[i] = s[i + 1]
         /\ Sorted(s) => Sorted(Tail(s))
<1> DEFINE t == Tail(s)
<1>1. /\ t \in Seq(S) /\ Len(t) = Len(s) - 1
      /\ \A i \in 1..(Len(s) - 1) : i + 1 \in DOMAIN s /\ t[i] = s[i + 1]
  OBVIOUS
<1> HIDE DEF t
<1>2. DOMAIN t = 1..(Len(s) - 1)
  BY <1>1
<1>3. Len(s) \in Nat
  OBVIOUS
<1>4. ASSUME Sorted(s), NEW i \in DOMAIN t, NEW j \in DOMAIN t, i < j PROVE t[i] < t[j]
  <2>1. i + 1 < j + 1
    BY <1>2, <1>3, <1>4
  <2> QED BY <1>1, <1>2, <1>4, <2>1 DEF Sorted
<1> QED BY <1>1, <1>2, <1>4 DEF t, Sorted

\* A sequence with a greater record after it.
LEMMA AppendSorted ==
  ASSUME NEW S, NEW s \in Seq(S), NEW e \in S
  PROVE  /\ Append(s, e) \in Seq(S) /\ Len(Append(s, e)) = Len(s) + 1
         /\ DOMAIN Append(s, e) = 1..(Len(s) + 1)
         /\ \A i \in 1..(Len(s) + 1) :
              \/ i \in DOMAIN s /\ Append(s, e)[i] = s[i]
              \/ i = Len(s) + 1 /\ Append(s, e)[i] = e
         /\ Sorted(s) /\ (\A i \in DOMAIN s : s[i] < e) => Sorted(Append(s, e))
<1> DEFINE t == Append(s, e)
<1>1. /\ t \in Seq(S) /\ Len(t) = Len(s) + 1
      /\ \A i \in 1..Len(s) : i \in DOMAIN s /\ t[i] = s[i]
      /\ t[Len(s) + 1] = e
  OBVIOUS
<1> HIDE DEF t
<1>2. DOMAIN t = 1..(Len(s) + 1) /\ Len(s) \in Nat /\ DOMAIN s = 1..Len(s)
  BY <1>1
<1>3. \A i \in 1..(Len(s) + 1) : \/ i \in DOMAIN s /\ t[i] = s[i]
                                 \/ i = Len(s) + 1 /\ t[i] = e
  BY <1>1, <1>2
<1>4. ASSUME Sorted(s), \A i \in DOMAIN s : s[i] < e,
             NEW i \in DOMAIN t, NEW j \in DOMAIN t, i < j
      PROVE  t[i] < t[j]
  <2>1. i \in DOMAIN s /\ t[i] = s[i]
    BY <1>2, <1>3, <1>4
  <2>2. CASE j \in DOMAIN s /\ t[j] = s[j]
    BY <1>4, <2>1, <2>2 DEF Sorted
  <2>3. CASE t[j] = e
    BY <1>4, <2>1, <2>3
  <2> QED BY <1>2, <1>3, <2>2, <2>3
<1> QED BY <1>1, <1>2, <1>3, <1>4 DEF t, Sorted

\* _ensure_worker: a worker that was off polls, or nothing changes.
LEMMA EnsureWorkerKeeps ==
  ASSUME IInv, EnsureWorker, UNCHANGED <<flushLock, batch, stop>>
  PROVE  /\ Locking'
         /\ at' \in [Tasks -> {"off", "poll", "lock", "loop", "write"}]
         /\ stopping' \in BOOLEAN /\ current' \in Workers \cup {None}
         /\ \A u \in Tasks : at'[u] = "write" <=> at[u] = "write"
<1>1. /\ at \in [Tasks -> {"off", "poll", "lock", "loop", "write"}]
      /\ current \in Workers \cup {None} /\ Workers \subseteq Tasks
  BY DEF IInv, TypeOK, Tasks
<1>2. CASE UNCHANGED <<current, at>>
  <2>1. Locking'
    BY <1>2 DEF IInv, Locking
  <2> QED BY <1>1, <1>2, <2>1 DEF EnsureWorker
<1>3. CASE \E w \in Workers : at[w] = "off" /\ current' = w /\ at' = [at EXCEPT ![w] = "poll"]
  <2>1. PICK w \in Workers : at[w] = "off" /\ current' = w /\ at' = [at EXCEPT ![w] = "poll"]
    BY <1>3
  <2>2. w \in Tasks /\ at'[w] = "poll" /\ \A u \in Tasks : u # w => at'[u] = at[u]
    BY <1>1, <2>1
  <2>3. Stopper # w /\ Stopper \in Tasks
    BY TasksDistinct DEF Tasks, Forced
  <2>4. Locking'
    <3>1. \A u \in Tasks : u \in ToSet(flushLock) <=> at'[u] \in Wants
      BY <2>1, <2>2 DEF IInv, Locking, Wants
    <3>2. \A u \in Tasks : at'[u] \in {"loop", "write"} => Holds(flushLock, u)
      BY <2>2 DEF IInv, Locking
    <3>3. \A u \in Tasks : at'[u] # "write" => batch[u] = <<>>
      BY <2>1, <2>2 DEF IInv, Locking
    <3>4. stop \in {"idle", "cancel"} => at'[Stopper] = "off"
      BY <2>2, <2>3 DEF IInv, Locking
    <3> QED BY <2>1, <3>1, <3>2, <3>3, <3>4 DEF IInv, Locking
  <2>5. at' \in [Tasks -> {"off", "poll", "lock", "loop", "write"}]
    BY <1>1, <2>1, <2>2
  <2> QED BY <2>1, <2>2, <2>4, <2>5 DEF EnsureWorker
<1> QED BY <1>2, <1>3 DEF EnsureWorker

\* Arithmetic: one record more, and what came into the buffer or was dropped.
LEMMA BooksAppend ==
  ASSUME appended \in Nat, Len(buffer) \in Nat, Len(buffer') \in Nat, dropped \in Nat,
         dropped' \in Nat, Len(rows) \in Nat, abandoned \in Nat,
         Len(buffer') + dropped' = Len(buffer) + dropped + 1
  PROVE  \A b \in Nat : appended = Len(buffer) + b + Len(rows) + dropped + abandoned
           => appended + 1 = Len(buffer') + b + Len(rows) + dropped' + abandoned
<1> SUFFICES ASSUME NEW b \in Nat, appended = Len(buffer) + b + Len(rows) + dropped + abandoned
             PROVE  appended + 1 = Len(buffer') + b + Len(rows) + dropped' + abandoned
  OBVIOUS
<1> DEFINE c == b + Len(rows) + abandoned
<1>1. c \in Nat /\ appended = (Len(buffer) + dropped) + c
  OBVIOUS
<1>2. Len(buffer') + b + Len(rows) + dropped' + abandoned = (Len(buffer') + dropped') + c
  OBVIOUS
<1> HIDE DEF c
<1>3. appended + 1 = (Len(buffer') + dropped') + c
  BY <1>1
<1> QED BY <1>2, <1>3

\* append_low_priority_record: the new record comes last, the oldest may go.
LEMMA AppendRecordStep == IInv /\ AppendRecord => IInv'
<1> SUFFICES ASSUME IInv, AppendRecord PROVE IInv'
  OBVIOUS
<1>1. /\ appended < MaxRecords /\ appended' = appended + 1 /\ EnsureWorker
      /\ UNCHANGED <<backoff, unhealthy, cancelled, flushLock, batch, written, stop, rows,
                     uncertain, late, abandoned>>
  BY DEF AppendRecord, health, table
<1>2. /\ appended \in 0..MaxRecords /\ buffer \in Seq(Records) /\ Len(buffer) <= MaxRetain
      /\ dropped \in Nat /\ rows \in Seq(Records) /\ batch \in [Tasks -> Seq(Records)]
      /\ abandoned \in Nat
  BY DEF IInv, TypeOK
<1>3. appended' \in 0..MaxRecords /\ appended' \in Records /\ appended \in Nat
  BY <1>1, <1>2, SizesPositive DEF Records
<1>4. /\ Locking'
      /\ at' \in [Tasks -> {"off", "poll", "lock", "loop", "write"}]
      /\ stopping' \in BOOLEAN /\ current' \in Workers \cup {None}
      /\ \A u \in Tasks : at'[u] = "write" <=> at[u] = "write"
  BY <1>1, EnsureWorkerKeeps
<1>5. PICK kept \in Seq(Records) :
        /\ Sorted(kept) /\ Len(kept) < MaxRetain
        /\ \A i \in DOMAIN kept : \E j \in DOMAIN buffer : kept[i] = buffer[j]
        /\ buffer' = Append(kept, appended')
        /\ dropped' \in Nat /\ Len(buffer) + dropped = Len(kept) + dropped'
  <2>1. CASE Len(buffer) >= MaxRetain
    <3>1. buffer # <<>>
      BY <1>2, <2>1, SizesPositive
    <3>2. /\ buffer' = Append(Tail(buffer), appended') /\ dropped' = dropped + 1
      BY <2>1 DEF AppendRecord
    <3>3. /\ Tail(buffer) \in Seq(Records) /\ Len(Tail(buffer)) = Len(buffer) - 1
          /\ DOMAIN Tail(buffer) = 1..(Len(buffer) - 1)
          /\ \A i \in 1..(Len(buffer) - 1) : i + 1 \in DOMAIN buffer /\ Tail(buffer)[i] = buffer[i + 1]
          /\ Sorted(Tail(buffer))
      BY <1>2, <3>1, TailSorted DEF IInv, Ordered
    <3>4. Len(buffer) \in Nat /\ MaxRetain \in Nat
      BY <1>2, SizesPositive
    <3>5. /\ Len(Tail(buffer)) < MaxRetain /\ dropped + 1 \in Nat
          /\ Len(buffer) + dropped = Len(Tail(buffer)) + (dropped + 1)
      BY <1>2, <3>3, <3>4
    <3> QED BY <3>2, <3>3, <3>5
  <2>2. CASE ~(Len(buffer) >= MaxRetain)
    <3>1. Len(buffer) < MaxRetain
      BY <1>2, <2>2, SizesPositive
    <3>2. buffer' = Append(buffer, appended') /\ dropped' = dropped
      BY <2>2 DEF AppendRecord
    <3> QED BY <1>2, <3>1, <3>2 DEF IInv, Ordered
  <2> QED BY <2>1, <2>2
<1>6. \A i \in DOMAIN kept : kept[i] \in Nat /\ kept[i] <= appended
  BY <1>5, RecordsAreNumbers DEF IInv, Bounded
<1>7. /\ buffer' \in Seq(Records) /\ Len(buffer') = Len(kept) + 1
      /\ DOMAIN buffer' = 1..(Len(kept) + 1)
      /\ \A i \in 1..(Len(kept) + 1) :
           \/ i \in DOMAIN kept /\ buffer'[i] = kept[i]
           \/ i = Len(kept) + 1 /\ buffer'[i] = appended'
      /\ Sorted(buffer')
  <2>1. \A i \in DOMAIN kept : kept[i] < appended'
    BY <1>1, <1>3, <1>6
  <2> QED BY <1>3, <1>5, <2>1, AppendSorted
<1>8. \A i \in DOMAIN buffer' : \/ \E j \in DOMAIN buffer : buffer'[i] = buffer[j]
                                \/ buffer'[i] = appended + 1
  BY <1>1, <1>5, <1>7
<1>9. Len(buffer') <= MaxRetain /\ dropped' \in Nat
  <2>1. Len(kept) \in Nat /\ MaxRetain \in Nat
    BY SizesPositive
  <2> QED BY <1>5, <1>7, <2>1
<1>10. TypeOK'
  BY <1>1, <1>3, <1>4, <1>7, <1>9 DEF IInv, TypeOK
<1>11. Bounded'
  <2>1. \A i \in DOMAIN rows : rows[i] \in Nat /\ rows[i] <= appended'
    BY <1>1, <1>2, <1>3, RecordsAreNumbers DEF IInv, Bounded
  <2>2. ASSUME NEW i \in DOMAIN buffer' PROVE buffer'[i] <= appended'
    <3>1. CASE buffer'[i] = appended + 1
      BY <1>1, <1>3, <3>1
    <3>2. CASE \E j \in DOMAIN buffer : buffer'[i] = buffer[j]
      <4>1. PICK j \in DOMAIN buffer : buffer'[i] = buffer[j]
        BY <3>2
      <4>2. buffer[j] \in Nat
        BY <1>2, RecordsAreNumbers
      <4>3. buffer[j] <= appended
        BY DEF IInv, Bounded
      <4> QED BY <1>1, <1>3, <4>1, <4>2, <4>3
    <3> QED BY <1>8, <3>1, <3>2
  <2>3. ASSUME NEW t \in Tasks, NEW i \in DOMAIN batch[t] PROVE batch[t][i] <= appended'
    <3>1. batch[t] \in Seq(Records)
      BY <1>2
    <3>2. batch[t][i] \in Nat /\ batch[t][i] <= appended
      BY <3>1, RecordsAreNumbers DEF IInv, Bounded
    <3> QED BY <1>1, <1>3, <3>2
  <2>4. \A r \in uncertain \cup late : r <= appended'
    <3>1. \A r \in uncertain \cup late : r \in Nat /\ r <= appended
      BY SizesPositive DEF IInv, Bounded, TypeOK, Records
    <3> QED BY <1>1, <1>3, <3>1
  <2> QED BY <1>1, <2>1, <2>2, <2>3, <2>4 DEF Bounded
<1>12. Ordered'
  <2>1. Below(rows, buffer')
    <3> SUFFICES ASSUME NEW i \in DOMAIN rows, NEW j \in DOMAIN buffer'
                 PROVE  rows[i] < buffer'[j]
      BY DEF Below
    <3>1. rows[i] \in Nat /\ rows[i] <= appended
      BY <1>2, RecordsAreNumbers DEF IInv, Bounded
    <3>2. CASE buffer'[j] = appended + 1
      BY <1>3, <3>1, <3>2
    <3>3. CASE \E k \in DOMAIN buffer : buffer'[j] = buffer[k]
      BY <3>3 DEF IInv, Ordered, Below
    <3> QED BY <1>8, <3>2, <3>3
  <2>2. ASSUME NEW t \in Tasks PROVE Below(batch[t], buffer')
    <3> SUFFICES ASSUME NEW i \in DOMAIN batch[t], NEW j \in DOMAIN buffer'
                 PROVE  batch[t][i] < buffer'[j]
      BY DEF Below
    <3>1. batch[t] \in Seq(Records)
      BY <1>2
    <3>2. batch[t][i] \in Nat /\ batch[t][i] <= appended
      BY <3>1, RecordsAreNumbers DEF IInv, Bounded
    <3>3. CASE buffer'[j] = appended + 1
      BY <1>3, <3>2, <3>3
    <3>4. CASE \E k \in DOMAIN buffer : buffer'[j] = buffer[k]
      BY <3>4 DEF IInv, Ordered, Below
    <3> QED BY <1>8, <3>3, <3>4
  <2>3. Sorted(rows) /\ \A t \in Tasks : Sorted(batch[t]) /\ Below(rows, batch[t])
    BY DEF IInv, Ordered
  <2>4. /\ Sorted(buffer') /\ rows' = rows /\ batch' = batch
    BY <1>1, <1>7
  <2> HIDE DEF Sorted, Below
  <2> QED BY <2>1, <2>2, <2>3, <2>4 DEF Ordered
<1>13. Apart'
  <2>1. \A r \in uncertain \cup late : r \in Nat /\ r <= appended
    BY SizesPositive DEF IInv, Bounded, TypeOK, Records
  <2>2. appended + 1 \notin uncertain \cup late
    BY <1>3, <2>1
  <2>3. \A j \in DOMAIN buffer : buffer[j] \notin uncertain \cup late
    BY DEF IInv, Apart
  <2>4. \A i \in DOMAIN buffer' : buffer'[i] \notin uncertain \cup late
    BY <1>8, <2>2, <2>3
  <2> QED BY <1>1, <2>4 DEF IInv, Apart
<1>14. Counted'
  <2>1. Len(buffer') = Len(kept) + 1 /\ Len(kept) \in Nat /\ Len(buffer) \in Nat /\ Len(rows) \in Nat
    BY <1>2, <1>7
  <2>2. \A t \in Tasks : Len(batch[t]) \in Nat
    BY <1>2
  <2>3. Len(buffer') + dropped' = Len(buffer) + dropped + 1
    <3> DEFINE k == Len(kept)
               b == Len(buffer)
               c == Len(buffer')
               d == dropped'
    <3>1. k \in Nat /\ b \in Nat /\ d \in Nat /\ dropped \in Nat
      BY <1>2, <1>5, <2>1, Zenon
    <3>2. c = k + 1 /\ b + dropped = k + d
      BY <1>5, <2>1, Zenon
    <3> HIDE DEF k, b, c, d
    <3>3. c + d = b + dropped + 1
      BY <3>1, <3>2
    <3> QED BY <3>3, Zenon DEF b, c, d
  <2>6. /\ dropped \in Nat /\ dropped' \in Nat /\ abandoned \in Nat /\ appended \in Nat
        /\ appended' = appended + 1
    BY <1>1, <1>2, <1>3, <1>9, Zenon
  <2>4. ASSUME \A t \in Tasks : at[t] # "write"
        PROVE  appended' = Len(buffer') + Len(rows) + dropped' + abandoned
    <3> DEFINE b == Len(buffer)
               c == Len(buffer')
               d == dropped'
               n == Len(rows)
    <3>1. b \in Nat /\ c \in Nat /\ d \in Nat /\ n \in Nat /\ dropped \in Nat /\ abandoned \in Nat
      BY <2>1, <2>6
    <3>2. appended = b + n + dropped + abandoned
      BY <2>4 DEF IInv, Counted
    <3>3. c + d = b + dropped + 1
      BY <2>3, Zenon
    <3> HIDE DEF b, c, d, n
    <3>4. appended + 1 = c + n + d + abandoned
      BY <3>1, <3>2, <3>3
    <3> QED BY <2>6, <3>4, Zenon DEF c, d, n
  <2>5. ASSUME NEW t \in Tasks, at[t] = "write"
        PROVE  appended' = Len(buffer') + Len(batch[t]) + Len(rows) + dropped' + abandoned
    <3>1. appended = Len(buffer) + Len(batch[t]) + Len(rows) + dropped + abandoned
      BY <2>5 DEF IInv, Counted
    <3>2. Len(batch[t]) \in Nat
      BY <2>2
    <3>3. /\ appended \in Nat /\ Len(buffer) \in Nat /\ Len(buffer') \in Nat
          /\ dropped \in Nat /\ dropped' \in Nat /\ Len(rows) \in Nat /\ abandoned \in Nat
      <4>1. Len(buffer') \in Nat
        BY <2>1
      <4> QED BY <2>1, <2>6, <4>1, Zenon
    <3>4. appended + 1 = Len(buffer') + Len(batch[t]) + Len(rows) + dropped' + abandoned
      <4>1. \A b \in Nat : appended = Len(buffer) + b + Len(rows) + dropped + abandoned
              => appended + 1 = Len(buffer') + b + Len(rows) + dropped' + abandoned
        BY <2>3, <3>3, BooksAppend, Zenon
      <4> QED BY <3>1, <3>2, <4>1, Zenon
    <3> QED BY <2>6, <3>4, Zenon
  <2> QED BY <1>1, <1>4, <2>4, <2>5 DEF Counted
<1> QED BY <1>4, <1>10, <1>11, <1>12, <1>13, <1>14 DEF IInv

\* Everybody who asks for the lock
LEMMA AskStep ==
  ASSUME IInv, NEW t \in Tasks, at[t] \in {"off", "poll"}, Ask(t),
         UNCHANGED <<appended, buffer, dropped, backoff, unhealthy, stopping, current, cancelled,
                     rows, uncertain, late, abandoned>>,
         (t # Stopper /\ UNCHANGED stop) \/ stop' = "flush"
  PROVE  IInv'
<1>1. /\ Locking'
      /\ flushLock' \in Seq(Tasks) /\ batch' = batch
      /\ at' \in [Tasks -> {"off", "poll", "lock", "loop", "write"}]
      /\ written' \in [Tasks -> Nat]
      /\ \A u \in Tasks : at'[u] = "write" <=> at[u] = "write"
  BY AskKeeps
<1>2. Ordered' /\ Bounded' /\ Apart' /\ Counted'
  BY <1>1, NoRecordMoves
<1>3. TypeOK'
  BY <1>1 DEF IInv, TypeOK
<1> QED BY <1>1, <1>2, <1>3 DEF IInv

\* The worker's turn
LEMMA PollTickStep == ASSUME IInv, NEW w \in Workers, PollTick(w) PROVE IInv'
<1>1. w \in Tasks /\ w # Stopper
  BY TasksDistinct DEF Tasks
<1>2. at[w] \in {"off", "poll"} /\ Ask(w)
  BY DEF PollTick
<1>3. UNCHANGED <<appended, buffer, dropped, backoff, unhealthy, stopping, current, cancelled,
                  rows, uncertain, late, abandoned, stop>>
  BY DEF PollTick, health, tasks, table
<1> QED BY <1>1, <1>2, <1>3, AskStep

\* The memory governor's flush
LEMMA GovernorFlushStep == IInv /\ GovernorFlush => IInv'
<1> SUFFICES ASSUME IInv, GovernorFlush PROVE IInv'
  OBVIOUS
<1>1. Governor \in Tasks /\ Governor # Stopper
  BY TasksDistinct DEF Tasks, Forced
<1>2. at[Governor] \in {"off", "poll"} /\ Ask(Governor)
  BY DEF GovernorFlush
<1>3. UNCHANGED <<appended, buffer, dropped, backoff, unhealthy, stopping, current, cancelled,
                  rows, uncertain, late, abandoned, stop>>
  BY DEF GovernorFlush, health, tasks, table
<1> QED BY <1>1, <1>2, <1>3, AskStep

\* The flush of the shutdown
LEMMA StopFlushStep == IInv /\ StopFlush => IInv'
<1> SUFFICES ASSUME IInv, StopFlush PROVE IInv'
  OBVIOUS
<1>1. Stopper \in Tasks
  BY DEF Tasks, Forced
<1>2. at[Stopper] \in {"off", "poll"} /\ Ask(Stopper) /\ stop' = "flush"
  BY DEF StopFlush, IInv, Locking
<1>3. UNCHANGED <<appended, buffer, dropped, backoff, unhealthy, stopping, current, cancelled,
                  rows, uncertain, late, abandoned>>
  BY DEF StopFlush, health, table
<1> QED BY <1>1, <1>2, <1>3, AskStep

\* Steps that touch neither the lock nor a record
LEMMA IdleStep ==
  ASSUME IInv, UNCHANGED <<appended, buffer, dropped, at, flushLock, batch, written, rows,
                           uncertain, late, abandoned>>,
         TypeOK', stop' \in {"idle", "cancel"} => stop \in {"idle", "cancel"},
         current' # None => current' \in Workers
  PROVE  IInv'
<1>1. Locking'
  BY DEF IInv, Locking
<1>2. Ordered' /\ Bounded' /\ Apart' /\ Counted'
  BY NoRecordMoves
<1> QED BY <1>1, <1>2 DEF IInv

\* stop_low_priority_writer cancels the worker.
LEMMA StopBeginStep == IInv /\ StopBegin => IInv'
<1> SUFFICES ASSUME IInv, StopBegin PROVE IInv'
  OBVIOUS
<1>1. TypeOK'
  BY DEF IInv, TypeOK, StopBegin, health, flush, table
<1> QED BY <1>1, IdleStep DEF StopBegin, flush, table

\* A backoff ends.
LEMMA BackoffOverStep == IInv /\ BackoffOver => IInv'
<1> SUFFICES ASSUME IInv, BackoffOver PROVE IInv'
  OBVIOUS
<1>1. TypeOK' /\ current' \in Workers \cup {None}
  BY DEF IInv, TypeOK, BackoffOver, tasks, flush, table
<1> QED BY <1>1, IdleStep DEF BackoffOver, tasks, flush, table

\* Someone else's operation makes the database unhealthy.
LEMMA OtherUnhealthyStep == IInv /\ OtherUnhealthy => IInv'
<1> SUFFICES ASSUME IInv, OtherUnhealthy PROVE IInv'
  OBVIOUS
<1>1. TypeOK' /\ current' \in Workers \cup {None}
  BY DEF IInv, TypeOK, OtherUnhealthy, tasks, flush, table
<1> QED BY <1>1, IdleStep DEF OtherUnhealthy, tasks, flush, table

\* The database is healthy again.
LEMMA HealthBackStep == IInv /\ HealthBack => IInv'
<1> SUFFICES ASSUME IInv, HealthBack PROVE IInv'
  OBVIOUS
<1>1. TypeOK' /\ current' \in Workers \cup {None}
  BY DEF IInv, TypeOK, HealthBack, tasks, flush, table
<1> QED BY <1>1, IdleStep DEF HealthBack, tasks, flush, table

\* Nothing changes.
LEMMA StutterStep == IInv /\ UNCHANGED vars => IInv'
<1> SUFFICES ASSUME IInv, UNCHANGED vars PROVE IInv'
  OBVIOUS
<1>1. TypeOK' /\ current' \in Workers \cup {None}
  BY DEF IInv, TypeOK, vars
<1> QED BY <1>1, IdleStep DEF vars

\* The database makes up its mind about a record of a write that timed out.
LEMMA SettleStep == ASSUME IInv, NEW r \in Records, Settle(r) PROVE IInv'
<1>1. /\ r \in uncertain /\ uncertain' = uncertain \ {r} /\ late' \in {late, late \cup {r}}
      /\ UNCHANGED <<appended, buffer, dropped, backoff, unhealthy, stopping, current, cancelled,
                     stop, at, flushLock, batch, written, rows, abandoned>>
  BY DEF Settle, health, tasks, flush
<1>2. uncertain' \cup late' \subseteq uncertain \cup late
  BY <1>1
<1>3. TypeOK'
  BY <1>1 DEF IInv, TypeOK
<1>4. Locking' /\ Ordered' /\ Counted'
  BY <1>1 DEF IInv, Locking, Ordered, Counted, Sorted, Below
<1>5. Bounded'
  BY <1>1, <1>2 DEF IInv, Bounded
<1>6. Apart'
  <2>1. uncertain' \cap late' = {}
    BY <1>1 DEF IInv, Apart
  <2> QED BY <1>1, <1>2, <2>1 DEF IInv, Apart
<1> QED BY <1>3, <1>4, <1>5, <1>6 DEF IInv

\* The lock is given back without a record having moved.
LEMMA LetGoStep ==
  ASSUME IInv, NEW t \in Tasks, at[t] \in {"lock", "loop"}, Holds(flushLock, t), Release(t),
         UNCHANGED <<appended, buffer, dropped, backoff, unhealthy, batch, written, rows,
                     uncertain, late, abandoned>>
  PROVE  IInv'
<1>1. batch[t] = <<>> /\ batch \in [Tasks -> Seq(Records)]
  BY DEF IInv, Locking, TypeOK
<1>2. /\ Locking'
      /\ flushLock' \in Seq(Tasks)
      /\ at' \in [Tasks -> {"off", "poll", "lock", "loop", "write"}]
      /\ stop' \in {"idle", "cancel", "flush", "done"}
      /\ \A u \in Tasks : at'[u] # "write"
      /\ \A u \in Tasks : u # t => at[u] # "write"
  BY <1>1, LettingGoKeeps
<1>3. \A u \in Tasks : at'[u] = "write" <=> at[u] = "write"
  BY <1>2
<1>4. Ordered' /\ Bounded' /\ Apart' /\ Counted'
  BY <1>3, NoRecordMoves
<1>5. TypeOK'
  BY <1>2 DEF IInv, TypeOK, Release
<1> QED BY <1>2, <1>4, <1>5 DEF IInv

\* The holder of the lock starts or lets go.
LEMMA BeginFlushStep == ASSUME IInv, NEW t \in Tasks, BeginFlush(t) PROVE IInv'
<1>1. /\ at[t] = "lock" /\ Holds(flushLock, t)
      /\ UNCHANGED <<appended, buffer, dropped, backoff, unhealthy, batch, written, rows,
                     uncertain, late, abandoned>>
  BY DEF BeginFlush, health, table
<1>2. CASE Release(t)
  BY <1>1, <1>2, LetGoStep
<1>3. CASE at' = [at EXCEPT ![t] = "loop"] /\ UNCHANGED <<flushLock, stopping, current, cancelled, stop>>
  <2>1. at \in [Tasks -> {"off", "poll", "lock", "loop", "write"}]
    BY DEF IInv, TypeOK
  <2>2. at'[t] = "loop" /\ \A u \in Tasks : u # t => at'[u] = at[u]
    BY <1>3, <2>1
  <2>3. at' \in [Tasks -> {"off", "poll", "lock", "loop", "write"}]
    BY <1>3, <2>1
  <2>4. Locking'
    <3>1. \A u \in Tasks : u \in ToSet(flushLock) <=> at'[u] \in Wants
      BY <1>1, <2>2 DEF IInv, Locking, Wants
    <3>2. \A u \in Tasks : at'[u] \in {"loop", "write"} => Holds(flushLock, u)
      BY <1>1, <2>2 DEF IInv, Locking
    <3>3. \A u \in Tasks : at'[u] # "write" => batch[u] = <<>>
      BY <1>1, <2>2 DEF IInv, Locking
    <3>4. stop \in {"idle", "cancel"} => at'[Stopper] = "off"
      <4>1. Stopper \in Tasks
        BY DEF Tasks, Forced
      <4> QED BY <1>1, <2>2, <4>1 DEF IInv, Locking
    <3>5. IsInjective(flushLock) /\ (current # None => current \in Workers)
      BY DEF IInv, Locking
    <3> QED BY <1>1, <1>3, <3>1, <3>2, <3>3, <3>4, <3>5 DEF Locking
  <2>5. \A u \in Tasks : at'[u] = "write" <=> at[u] = "write"
    BY <1>1, <2>2
  <2>6. Ordered' /\ Bounded' /\ Apart' /\ Counted'
    BY <1>1, <2>5, NoRecordMoves
  <2>7. TypeOK'
    BY <1>1, <1>3, <2>3 DEF IInv, TypeOK
  <2> QED BY <2>4, <2>6, <2>7 DEF IInv
<1> QED BY <1>2, <1>3 DEF BeginFlush, tasks

\* The batch a task takes is the oldest part of the buffer.
LEMMA TakeBatchStep == ASSUME IInv, NEW t \in Tasks, TakeBatch(t) PROVE IInv'
<1>1. /\ at[t] = "loop" /\ Holds(flushLock, t)
      /\ UNCHANGED <<appended, dropped, backoff, unhealthy, written, rows, uncertain, late,
                     abandoned>>
  BY DEF TakeBatch, health, table, IInv, Locking
<1>2. CASE Release(t) /\ UNCHANGED <<buffer, batch>>
  BY <1>1, <1>2, LetGoStep
<1>3. CASE ~(Release(t) /\ UNCHANGED <<buffer, batch>>)
  <2> DEFINE n == IF Len(buffer) < BatchSize THEN Len(buffer) ELSE BatchSize
             mine == SubSeq(buffer, 1, n)
             left == SubSeq(buffer, n + 1, Len(buffer))
  <2>1. /\ buffer # <<>> /\ batch' = [batch EXCEPT ![t] = mine] /\ buffer' = left
        /\ at' = [at EXCEPT ![t] = "write"]
        /\ UNCHANGED <<flushLock, stopping, current, cancelled, stop>>
    BY <1>3 DEF TakeBatch, tasks
  <2>2. /\ at \in [Tasks -> {"off", "poll", "lock", "loop", "write"}]
        /\ batch \in [Tasks -> Seq(Records)] /\ buffer \in Seq(Records)
        /\ Len(buffer) <= MaxRetain /\ rows \in Seq(Records)
        /\ dropped \in Nat /\ abandoned \in Nat /\ appended \in Nat
    BY DEF IInv, TypeOK
  <2>3. n \in Nat /\ 1 <= n /\ n <= Len(buffer) /\ n <= BatchSize /\ Len(buffer) \in Nat
    BY <2>1, <2>2, SizesPositive
  <2> HIDE DEF n
  <2>4. /\ mine \in Seq(Records) /\ Len(mine) = n /\ DOMAIN mine = 1..n
        /\ \A i \in 1..n : i \in DOMAIN buffer /\ mine[i] = buffer[i]
        /\ Sorted(mine)
    <3>1. /\ mine \in Seq(Records) /\ Len(mine) = n - 1 + 1 /\ DOMAIN mine = 1..(n - 1 + 1)
          /\ \A i \in 1..(n - 1 + 1) : 1 + i - 1 \in DOMAIN buffer /\ mine[i] = buffer[1 + i - 1]
      BY <2>2, <2>3, PartOf
    <3>2. Sorted(mine)
      BY <2>2, <2>3, PartSorted, RecordsAreNumbers DEF IInv, Ordered
    <3> HIDE DEF mine
    <3>3. n - 1 + 1 = n /\ \A i \in 1..n : 1 + i - 1 = i
      BY <2>3
    <3> QED BY <3>1, <3>2, <3>3
  <2>5. /\ left \in Seq(Records) /\ Len(left) = Len(buffer) - n
        /\ DOMAIN left = 1..(Len(buffer) - n)
        /\ \A i \in 1..(Len(buffer) - n) : n + i \in DOMAIN buffer /\ left[i] = buffer[n + i]
        /\ Sorted(left)
    <3> DEFINE m == Len(buffer) - (n + 1) + 1
    <3>1. /\ left \in Seq(Records) /\ Len(left) = m /\ DOMAIN left = 1..m
          /\ \A i \in 1..m : (n + 1) + i - 1 \in DOMAIN buffer /\ left[i] = buffer[(n + 1) + i - 1]
      BY <2>2, <2>3, PartOf
    <3>2. Sorted(left)
      BY <2>2, <2>3, PartSorted, RecordsAreNumbers DEF IInv, Ordered
    <3> HIDE DEF left
    <3>3. m = Len(buffer) - n /\ \A i \in 1..m : (n + 1) + i - 1 = n + i
      BY <2>3
    <3> HIDE DEF m
    <3> QED BY <3>1, <3>2, <3>3
  <2> HIDE DEF mine, left
  <2>6. /\ at'[t] = "write" /\ batch'[t] = mine
        /\ \A u \in Tasks : u # t => at'[u] = at[u] /\ batch'[u] = batch[u]
    BY <2>1, <2>2
  <2>7. \A u \in Tasks : u # t => at[u] # "write" /\ at[u] # "loop" /\ batch[u] = <<>>
    BY <1>1, OneHolder DEF IInv, Locking
  <2>8. Locking'
    <3>1. \A u \in Tasks : u \in ToSet(flushLock) <=> at'[u] \in Wants
      BY <1>1, <2>6 DEF IInv, Locking, Wants
    <3>2. \A u \in Tasks : at'[u] \in {"loop", "write"} => Holds(flushLock, u)
      BY <1>1, <2>6 DEF IInv, Locking
    <3>3. \A u \in Tasks : at'[u] # "write" => batch'[u] = <<>>
      BY <2>6, <2>7
    <3>4. stop \in {"idle", "cancel"} => at'[Stopper] = "off"
      <4>1. Stopper \in Tasks
        BY DEF Tasks, Forced
      <4> QED BY <1>1, <2>6, <4>1 DEF IInv, Locking
    <3>5. IsInjective(flushLock) /\ (current # None => current \in Workers)
      BY DEF IInv, Locking
    <3> QED BY <2>1, <3>1, <3>2, <3>3, <3>4, <3>5 DEF Locking
  <2>9. TypeOK'
    <3>1. /\ at' \in [Tasks -> {"off", "poll", "lock", "loop", "write"}]
          /\ batch' \in [Tasks -> Seq(Records)]
      BY <2>1, <2>2, <2>4
    <3>2. Len(buffer') <= MaxRetain /\ buffer' \in Seq(Records)
      BY <2>1, <2>2, <2>3, <2>5, SizesPositive
    <3>3. \A u \in Tasks : Len(batch'[u]) <= BatchSize
      BY <2>3, <2>4, <2>6 DEF IInv, TypeOK
    <3> QED BY <1>1, <2>1, <3>1, <3>2, <3>3 DEF IInv, TypeOK
  <2>10. Ordered'
    <3>1. Sorted(rows) /\ Below(rows, buffer) /\ Sorted(buffer)
      BY DEF IInv, Ordered
    <3>2. Below(rows, left) /\ Below(rows, mine)
      BY <2>4, <2>5, <3>1 DEF Below
    <3>3. Below(mine, left)
      <4> SUFFICES ASSUME NEW i \in DOMAIN mine, NEW j \in DOMAIN left PROVE mine[i] < left[j]
        BY DEF Below
      <4>1. i < n + j
        BY <2>3, <2>4, <2>5
      <4> QED BY <2>4, <2>5, <3>1, <4>1 DEF Sorted
    <3>4. ASSUME NEW u \in Tasks
          PROVE  Sorted(batch'[u]) /\ Below(rows, batch'[u]) /\ Below(batch'[u], left)
      <4>1. CASE u = t
        BY <2>4, <2>6, <3>2, <3>3, <4>1
      <4>2. CASE u # t
        BY <2>6, <2>7, <4>2 DEF Sorted, Below
      <4> QED BY <4>1, <4>2
    <3> HIDE DEF Sorted, Below
    <3>5. rows' = rows /\ buffer' = left
      BY <1>1, <2>1
    <3> QED BY <2>5, <3>1, <3>2, <3>4, <3>5 DEF Ordered
  <2>11. \A i \in DOMAIN left : \E j \in DOMAIN buffer : left[i] = buffer[j]
    BY <2>5
  <2>12. \A u \in Tasks : \A i \in DOMAIN batch'[u] : \E j \in DOMAIN buffer : batch'[u][i] = buffer[j]
    BY <2>4, <2>6, <2>7
  <2>13. Bounded'
    BY <1>1, <2>1, <2>11, <2>12 DEF IInv, Bounded
  <2>14. Apart'
    BY <1>1, <2>1, <2>11, <2>12 DEF IInv, Apart
  <2>15. Counted'
    <3>1. appended = Len(buffer) + Len(rows) + dropped + abandoned
      BY <1>1, <2>7 DEF IInv, Counted
    <3>2. Len(buffer) = Len(buffer') + Len(batch'[t]) /\ Len(batch'[t]) \in Nat /\ Len(buffer') \in Nat
      <4>1. Len(batch'[t]) = n /\ Len(buffer') = Len(buffer) - n
        BY <2>1, <2>4, <2>5, <2>6, Zenon
      <4> QED BY <2>3, <4>1
    <3>3. Len(rows) \in Nat
      BY <2>2
    <3>4. appended = Len(buffer') + Len(batch'[t]) + Len(rows) + dropped + abandoned
      BY <2>2, <3>1, <3>2, <3>3
    <3>5. \A u \in Tasks : at'[u] = "write" => u = t
      BY <2>6, <2>7
    <3> QED BY <1>1, <2>6, <3>4, <3>5 DEF Counted
  <2> QED BY <2>8, <2>9, <2>10, <2>13, <2>14, <2>15 DEF IInv
<1> QED BY <1>2, <1>3

\* When the one who writes is done, no task has a batch.
LEMMA NobodyWrites ==
  ASSUME IInv, NEW t \in Tasks, at[t] = "write", batch'[t] = <<>>, at'[t] # "write",
         \A u \in Tasks : u # t => at'[u] = at[u] /\ batch'[u] = batch[u]
  PROVE  /\ \A u \in Tasks : at'[u] # "write" /\ batch'[u] = <<>>
         /\ appended = Len(buffer) + Len(batch[t]) + Len(rows) + dropped + abandoned
<1>1. \A u \in Tasks : u # t => at[u] # "write" /\ batch[u] = <<>>
  BY OneHolder DEF IInv, Locking
<1> QED BY <1>1 DEF IInv, Counted

\* With no batch under way, the order is that of the table and the buffer.
LEMMA NoBatchOrdered ==
  ASSUME \A u \in Tasks : batch'[u] = <<>>,
         Sorted(rows'), Sorted(buffer'), Below(rows', buffer')
  PROVE  Ordered'
<1>1. \A u \in Tasks : Sorted(batch'[u]) /\ Below(rows', batch'[u]) /\ Below(batch'[u], buffer')
  BY DEF Sorted, Below
<1> HIDE DEF Sorted, Below
<1> QED BY <1>1 DEF Ordered

\* The batch follows the older rows in the table.
LEMMA WriteReturnsStep == ASSUME IInv, NEW t \in Tasks, WriteReturns(t) PROVE IInv'
<1>1. /\ at[t] = "write" /\ rows' = rows \o batch[t]
      /\ batch' = [batch EXCEPT ![t] = <<>>] /\ at' = [at EXCEPT ![t] = "loop"]
      /\ written' = [written EXCEPT ![t] = @ + Len(batch[t])] /\ backoff' = FALSE
      /\ UNCHANGED <<appended, buffer, dropped, unhealthy, stopping, current, cancelled, stop,
                     flushLock, uncertain, late, abandoned>>
  BY DEF WriteReturns, tasks
<1>2. /\ at \in [Tasks -> {"off", "poll", "lock", "loop", "write"}]
      /\ batch \in [Tasks -> Seq(Records)] /\ buffer \in Seq(Records) /\ rows \in Seq(Records)
      /\ dropped \in Nat /\ abandoned \in Nat /\ appended \in Nat /\ written \in [Tasks -> Nat]
      /\ batch[t] \in Seq(Records)
  BY DEF IInv, TypeOK
<1>3. /\ at'[t] = "loop" /\ batch'[t] = <<>>
      /\ \A u \in Tasks : u # t => at'[u] = at[u] /\ batch'[u] = batch[u]
  BY <1>1, <1>2
<1>4. /\ \A u \in Tasks : at'[u] # "write" /\ batch'[u] = <<>>
      /\ appended = Len(buffer) + Len(batch[t]) + Len(rows) + dropped + abandoned
  BY <1>1, <1>3, NobodyWrites
<1>5. /\ rows' \in Seq(Records) /\ Len(rows') = Len(rows) + Len(batch[t])
      /\ \A i \in DOMAIN rows' : \/ \E j \in DOMAIN rows : rows'[i] = rows[j]
                                 \/ \E j \in DOMAIN batch[t] : rows'[i] = batch[t][j]
  <2> DEFINE b == batch[t]
  <2>1. b \in Seq(Records)
    BY <1>2
  <2> HIDE DEF b
  <2>2. /\ rows \o b \in Seq(Records) /\ Len(rows \o b) = Len(rows) + Len(b)
        /\ DOMAIN (rows \o b) = 1..(Len(rows) + Len(b))
        /\ \A i \in 1..(Len(rows) + Len(b)) :
             \/ i \in DOMAIN rows /\ (rows \o b)[i] = rows[i]
             \/ i > Len(rows) /\ i - Len(rows) \in DOMAIN b /\ (rows \o b)[i] = b[i - Len(rows)]
    BY <1>2, <2>1, JoinOf
  <2>3. rows' = rows \o b
    BY <1>1 DEF b
  <2>4. /\ rows' \in Seq(Records) /\ Len(rows') = Len(rows) + Len(b)
        /\ \A i \in DOMAIN rows' : \/ \E j \in DOMAIN rows : rows'[i] = rows[j]
                                   \/ \E j \in DOMAIN b : rows'[i] = b[j]
    BY <2>2, <2>3, Zenon
  <2> QED BY <2>4 DEF b
<1>6. Locking'
  <2>1. \A u \in Tasks : u \in ToSet(flushLock) <=> at'[u] \in Wants
    BY <1>1, <1>3 DEF IInv, Locking, Wants
  <2>2. \A u \in Tasks : at'[u] \in {"loop", "write"} => Holds(flushLock, u)
    BY <1>1, <1>3 DEF IInv, Locking
  <2>3. stop \in {"idle", "cancel"} => at'[Stopper] = "off"
    <3>1. Stopper \in Tasks
      BY DEF Tasks, Forced
    <3> QED BY <1>1, <1>3, <3>1 DEF IInv, Locking
  <2>4. IsInjective(flushLock) /\ (current # None => current \in Workers)
    BY DEF IInv, Locking
  <2> QED BY <1>1, <1>4, <2>1, <2>2, <2>3, <2>4 DEF Locking
<1>7. TypeOK'
  <2>1. /\ at' \in [Tasks -> {"off", "poll", "lock", "loop", "write"}]
        /\ batch' \in [Tasks -> Seq(Records)] /\ written' \in [Tasks -> Nat]
    BY <1>1, <1>2
  <2>2. \A u \in Tasks : Len(batch'[u]) <= BatchSize
    BY <1>4, SizesPositive
  <2> QED BY <1>1, <1>5, <2>1, <2>2 DEF IInv, TypeOK
<1>8. Ordered'
  <2>1. Sorted(rows) /\ Sorted(batch[t]) /\ Below(rows, batch[t])
    BY DEF IInv, Ordered
  <2>2. Sorted(rows')
    BY <1>1, <1>2, <2>1, JoinSorted, RecordsAreNumbers
  <2>3. Below(rows', buffer)
    BY <1>5 DEF IInv, Ordered, Below
  <2> QED BY <1>1, <1>4, <2>2, <2>3, NoBatchOrdered DEF IInv, Ordered
<1>9. Bounded'
  BY <1>1, <1>4, <1>5 DEF IInv, Bounded
<1>10. Apart'
  BY <1>1, <1>4, <1>5 DEF IInv, Apart
<1>11. Counted'
  <2>1. appended = Len(buffer) + Len(rows') + dropped + abandoned
    <3>1. Len(buffer) \in Nat /\ Len(batch[t]) \in Nat /\ Len(rows) \in Nat
      BY <1>2
    <3> QED BY <1>2, <1>4, <1>5, <3>1
  <2> QED BY <1>1, <1>4, <2>1 DEF Counted
<1> QED BY <1>6, <1>7, <1>8, <1>9, <1>10, <1>11 DEF IInv

\* What both kinds of failed write leave: the lock goes to the next, the table is
\* as it was, and the buffer may have something of the batch before it.
LEMMA WriteGivenUp ==
  ASSUME IInv, NEW t \in Tasks, at[t] = "write", Release(t), batch' = [batch EXCEPT ![t] = <<>>],
         MarkFailure, UNCHANGED <<appended, written, rows, late, abandoned>>,
         buffer' \in Seq(Records), Len(buffer') <= MaxRetain, Sorted(buffer'),
         \A i \in DOMAIN buffer' : \/ \E j \in DOMAIN buffer : buffer'[i] = buffer[j]
                                   \/ \E j \in DOMAIN batch[t] : buffer'[i] = batch[t][j],
         uncertain' \subseteq Records,
         \A r \in uncertain' \ uncertain : /\ \E j \in DOMAIN batch[t] : r = batch[t][j]
                                           /\ \A i \in DOMAIN buffer' : buffer'[i] # r,
         dropped' \in Nat,
         Len(buffer') + dropped' = Len(buffer) + Len(batch[t]) + dropped
  PROVE  IInv'
<1>1. /\ at \in [Tasks -> {"off", "poll", "lock", "loop", "write"}]
      /\ batch \in [Tasks -> Seq(Records)] /\ buffer \in Seq(Records) /\ rows \in Seq(Records)
      /\ dropped \in Nat /\ abandoned \in Nat /\ appended \in Nat
      /\ batch[t] \in Seq(Records)
  BY DEF IInv, TypeOK
<1>2. /\ batch' \in [Tasks -> Seq(Records)] /\ batch'[t] = <<>>
      /\ \A u \in Tasks : u # t => batch'[u] = batch[u]
  BY <1>1
<1>3. /\ Locking'
      /\ flushLock' \in Seq(Tasks)
      /\ at' \in [Tasks -> {"off", "poll", "lock", "loop", "write"}]
      /\ stop' \in {"idle", "cancel", "flush", "done"}
      /\ \A u \in Tasks : at'[u] # "write"
  BY <1>2, LettingGoKeeps
<1>4. \A u \in Tasks : batch'[u] = <<>>
  BY <1>3 DEF Locking
<1>5. appended = Len(buffer) + Len(batch[t]) + Len(rows) + dropped + abandoned
  BY DEF IInv, Counted
<1>6. TypeOK'
  <2>1. \A u \in Tasks : Len(batch'[u]) <= BatchSize
    BY <1>4, SizesPositive
  <2>2. /\ stopping' \in BOOLEAN /\ current' \in Workers \cup {None}
        /\ cancelled' \in SUBSET Workers /\ written' \in [Tasks -> Nat]
        /\ late' \in SUBSET Records /\ rows' \in Seq(Records) /\ appended' \in 0..MaxRecords
        /\ backoff' \in BOOLEAN /\ unhealthy' \in BOOLEAN /\ abandoned' \in Nat
    BY DEF IInv, TypeOK, Release, MarkFailure
  <2> QED BY <1>2, <1>3, <2>1, <2>2 DEF TypeOK
<1>7. Ordered'
  <2>1. Below(rows, buffer')
    BY DEF IInv, Ordered, Below
  <2> QED BY <1>4, <2>1, NoBatchOrdered DEF IInv, Ordered
<1>8. Bounded'
  <2>1. \A i \in DOMAIN buffer' : buffer'[i] <= appended
    BY DEF IInv, Bounded
  <2>2. \A r \in uncertain' \cup late : r <= appended
    BY DEF IInv, Bounded
  <2> QED BY <1>4, <2>1, <2>2 DEF IInv, Bounded
<1>9. Apart'
  <2>1. uncertain' \cap late = {}
    BY DEF IInv, Apart
  <2>2. ASSUME NEW i \in DOMAIN rows PROVE rows[i] \notin uncertain' \cup late
    <3>1. \A j \in DOMAIN batch[t] : rows[i] < batch[t][j]
      BY DEF IInv, Ordered, Below
    <3>2. rows[i] \in Nat
      BY <1>1, RecordsAreNumbers
    <3>3. \A j \in DOMAIN batch[t] : rows[i] # batch[t][j]
      BY <3>1, <3>2
    <3> QED BY <3>3 DEF IInv, Apart
  <2>3. \A i \in DOMAIN buffer' : buffer'[i] \notin uncertain' \cup late
    BY DEF IInv, Apart
  <2> QED BY <1>4, <2>1, <2>2, <2>3 DEF Apart
<1>10. Counted'
  <2>1. appended = Len(buffer') + Len(rows) + dropped' + abandoned
    <3>1. Len(buffer) \in Nat /\ Len(batch[t]) \in Nat /\ Len(rows) \in Nat /\ Len(buffer') \in Nat
      BY <1>1
    <3> DEFINE c == Len(rows) + abandoned
               d == Len(buffer) + Len(batch[t]) + dropped
    <3>2. c \in Nat /\ appended = d + c
      BY <1>1, <1>5, <3>1
    <3>3. Len(buffer') + Len(rows) + dropped' + abandoned = (Len(buffer') + dropped') + c
      BY <1>1, <3>1
    <3>4. Len(buffer') + dropped' = d
      OBVIOUS
    <3> HIDE DEF c, d
    <3> QED BY <3>2, <3>3, <3>4
  <2> QED BY <1>3, <2>1 DEF Counted
<1> QED BY <1>3, <1>6, <1>7, <1>8, <1>9, <1>10 DEF IInv

\* What goes back fits, and is the newest part of the batch.
LEMMA RestorableFits ==
  ASSUME NEW b \in Seq(Records), buffer \in Seq(Records), Len(buffer) <= MaxRetain, Sorted(b)
  PROVE  /\ Restorable(b) \in Seq(Records) /\ Sorted(Restorable(b))
         /\ Len(Restorable(b)) <= Len(b) /\ Len(Restorable(b)) + Len(buffer) <= MaxRetain
         /\ \A i \in DOMAIN Restorable(b) : \E j \in DOMAIN b : Restorable(b)[i] = b[j]
<1> DEFINE room == IF MaxRetain > Len(buffer) THEN MaxRetain - Len(buffer) ELSE 0
           back == SubSeq(b, Len(b) - room + 1, Len(b))
<1>1. /\ MaxRetain \in Nat /\ Len(buffer) \in Nat /\ Len(b) \in Nat
      /\ room \in Nat /\ room + Len(buffer) = MaxRetain
  BY SizesPositive
<1>2. Restorable(b) = IF Len(b) <= room THEN b ELSE back
  BY DEF Restorable
<1> HIDE DEF room
<1>3. CASE Len(b) <= room
  BY <1>1, <1>2, <1>3
<1>4. CASE ~(Len(b) <= room)
  <2> DEFINE a == Len(b) - room + 1
  <2>1. a \in Int /\ 1 <= a /\ a <= Len(b) + 1 /\ Len(b) \in Int /\ Len(b) - a + 1 = room
    BY <1>1, <1>4
  <2> HIDE DEF a
  <2>2. /\ SubSeq(b, a, Len(b)) \in Seq(Records) /\ Len(SubSeq(b, a, Len(b))) = Len(b) - a + 1
        /\ DOMAIN SubSeq(b, a, Len(b)) = 1..(Len(b) - a + 1)
        /\ \A i \in 1..(Len(b) - a + 1) :
             a + i - 1 \in DOMAIN b /\ SubSeq(b, a, Len(b))[i] = b[a + i - 1]
    BY <2>1, PartOf
  <2>3. Sorted(SubSeq(b, a, Len(b)))
    BY <2>1, PartSorted, RecordsAreNumbers
  <2>4. Restorable(b) = SubSeq(b, a, Len(b))
    BY <1>2, <1>4 DEF a
  <2>5. Len(Restorable(b)) = room
    BY <2>1, <2>2, <2>4, Zenon
  <2>6. room <= Len(b) /\ room + Len(buffer) <= MaxRetain
    BY <1>1, <1>4
  <2> QED BY <2>2, <2>3, <2>4, <2>5, <2>6
<1> QED BY <1>3, <1>4

\* A failed batch goes back before the buffer, as far as it fits.
LEMMA WriteFailsStep == ASSUME IInv, NEW t \in Tasks, WriteFails(t) PROVE IInv'
<1> DEFINE b == batch[t]
           back == Restorable(batch[t])
<1>1. /\ at[t] = "write" /\ Release(t) /\ batch' = [batch EXCEPT ![t] = <<>>] /\ MarkFailure
      /\ UNCHANGED <<appended, written, rows, uncertain, late, abandoned>>
  BY DEF WriteFails, table
<1>2. buffer' = back \o buffer /\ dropped' = dropped + Len(b) - Len(back)
  BY DEF WriteFails
<1>3. /\ b \in Seq(Records) /\ buffer \in Seq(Records) /\ Len(buffer) <= MaxRetain
      /\ dropped \in Nat /\ Sorted(b) /\ Sorted(buffer) /\ Below(b, buffer)
      /\ uncertain \subseteq Records
  BY DEF IInv, TypeOK, Ordered
<1>4. /\ back \in Seq(Records) /\ Sorted(back)
      /\ Len(back) <= Len(b) /\ Len(back) + Len(buffer) <= MaxRetain
      /\ \A i \in DOMAIN back : \E j \in DOMAIN b : back[i] = b[j]
  BY <1>3, RestorableFits
<1> HIDE DEF b, back
<1>5. /\ back \o buffer \in Seq(Records) /\ Len(back \o buffer) = Len(back) + Len(buffer)
      /\ DOMAIN (back \o buffer) = 1..(Len(back) + Len(buffer))
      /\ \A i \in 1..(Len(back) + Len(buffer)) :
           \/ i \in DOMAIN back /\ (back \o buffer)[i] = back[i]
           \/ i > Len(back) /\ i - Len(back) \in DOMAIN buffer
              /\ (back \o buffer)[i] = buffer[i - Len(back)]
  BY <1>3, <1>4, JoinOf
<1>6. buffer' \in Seq(Records) /\ Len(buffer') = Len(back) + Len(buffer)
  BY <1>2, <1>5, Zenon
<1>7. \A i \in DOMAIN buffer' : \/ \E j \in DOMAIN buffer : buffer'[i] = buffer[j]
                                \/ \E j \in DOMAIN b : buffer'[i] = b[j]
  <2> SUFFICES ASSUME NEW i \in 1..(Len(back) + Len(buffer))
               PROVE  \/ \E j \in DOMAIN buffer : (back \o buffer)[i] = buffer[j]
                      \/ \E j \in DOMAIN b : (back \o buffer)[i] = b[j]
    BY <1>2, <1>5, Zenon
  <2>1. CASE i \in DOMAIN back /\ (back \o buffer)[i] = back[i]
    BY <1>4, <2>1, Zenon
  <2>2. CASE /\ i > Len(back) /\ i - Len(back) \in DOMAIN buffer
             /\ (back \o buffer)[i] = buffer[i - Len(back)]
    BY <2>2, Zenon
  <2> QED BY <1>5, <2>1, <2>2, Zenon
<1>8. Sorted(buffer')
  <2>1. Below(back, buffer)
    BY <1>3, <1>4 DEF Below
  <2> QED BY <1>2, <1>3, <1>4, <2>1, JoinSorted, RecordsAreNumbers
<1>9. /\ Len(buffer') <= MaxRetain /\ dropped' \in Nat
      /\ Len(buffer') + dropped' = Len(buffer) + Len(b) + dropped
  <2>1. Len(b) \in Nat /\ Len(back) \in Nat /\ Len(buffer) \in Nat
    BY <1>3, <1>4
  <2> DEFINE lb == Len(b)
             lk == Len(back)
             lf == Len(buffer)
  <2>2. lb \in Nat /\ lk \in Nat /\ lf \in Nat /\ lk <= lb /\ lk + lf <= MaxRetain
    BY <1>4, <2>1
  <2>3. Len(buffer') = lk + lf /\ dropped' = dropped + lb - lk /\ dropped \in Nat
    BY <1>2, <1>3, <1>6, Zenon
  <2> HIDE DEF lb, lk, lf
  <2>4. /\ Len(buffer') <= MaxRetain /\ dropped' \in Nat
        /\ Len(buffer') + dropped' = lf + lb + dropped
    BY <2>2, <2>3
  <2> QED BY <2>4 DEF lf, lb
<1>10. /\ Len(buffer') <= MaxRetain /\ dropped' \in Nat
       /\ Len(buffer') + dropped' = Len(buffer) + Len(batch[t]) + dropped
       /\ \A i \in DOMAIN buffer' : \/ \E j \in DOMAIN buffer : buffer'[i] = buffer[j]
                                    \/ \E j \in DOMAIN batch[t] : buffer'[i] = batch[t][j]
  BY <1>7, <1>9 DEF b
<1>11. uncertain' \subseteq Records /\ uncertain' \ uncertain = {}
  BY <1>1, <1>3
<1>12. \A r \in uncertain' \ uncertain : /\ \E j \in DOMAIN batch[t] : r = batch[t][j]
                                         /\ \A i \in DOMAIN buffer' : buffer'[i] # r
  BY <1>11
<1> QED BY <1>1, <1>6, <1>8, <1>10, <1>11, <1>12, WriteGivenUp

\* A batch whose write timed out is given up.
LEMMA WriteTimesOutStep == ASSUME IInv, NEW t \in Tasks, WriteTimesOut(t) PROVE IInv'
<1>1. /\ at[t] = "write" /\ Release(t) /\ batch' = [batch EXCEPT ![t] = <<>>] /\ MarkFailure
      /\ UNCHANGED <<appended, written, rows, late, abandoned>>
      /\ buffer' = buffer /\ dropped' = dropped + Len(batch[t])
      /\ uncertain' = uncertain \cup ToSet(batch[t])
  BY DEF WriteTimesOut
<1>2. /\ batch[t] \in Seq(Records) /\ buffer \in Seq(Records) /\ Len(buffer) <= MaxRetain
      /\ dropped \in Nat /\ Sorted(buffer) /\ Below(batch[t], buffer)
      /\ uncertain \subseteq Records
  BY DEF IInv, TypeOK, Ordered
<1>3. ToSet(batch[t]) \subseteq Records
  BY <1>2, RecordsAreNumbers DEF ToSet
<1>4. /\ Len(batch[t]) \in Nat /\ Len(buffer) \in Nat /\ dropped' \in Nat
      /\ Len(buffer') + dropped' = Len(buffer) + Len(batch[t]) + dropped
  BY <1>1, <1>2
<1>5. \A i \in DOMAIN buffer' : \E j \in DOMAIN buffer : buffer'[i] = buffer[j]
  BY <1>1
<1>6. ASSUME NEW r \in uncertain' \ uncertain
      PROVE  /\ \E j \in DOMAIN batch[t] : r = batch[t][j]
             /\ \A i \in DOMAIN buffer' : buffer'[i] # r
  <2>1. PICK j \in DOMAIN batch[t] : r = batch[t][j]
    BY <1>1, <1>6 DEF ToSet
  <2>2. \A i \in DOMAIN buffer : r < buffer[i]
    BY <1>2, <2>1 DEF Below
  <2>3. r \in Nat
    BY <1>2, <2>1, RecordsAreNumbers
  <2>4. \A i \in DOMAIN buffer : buffer[i] # r
    BY <2>2, <2>3
  <2> QED BY <1>1, <2>1, <2>4
<1>7. uncertain' \subseteq Records /\ buffer' \in Seq(Records) /\ Len(buffer') <= MaxRetain /\ Sorted(buffer')
  BY <1>1, <1>2, <1>3
<1> QED BY <1>1, <1>4, <1>5, <1>6, <1>7, WriteGivenUp

\* A cancelled task takes its batch with it.
LEMMA CancelledStep ==
  ASSUME IInv, NEW t \in Tasks, EndCancelled(t), t # Stopper,
         UNCHANGED <<stop, current, stopping>>, cancelled' \subseteq cancelled
  PROVE  IInv'
<1>1. /\ uncertain' = uncertain \cup ToSet(batch[t])
      /\ abandoned' = abandoned + Len(batch[t])
      /\ UNCHANGED <<appended, buffer, dropped, backoff, unhealthy, written, rows, late>>
  BY DEF EndCancelled, health
<1>2. /\ Locking'
      /\ flushLock' \in Seq(Tasks)
      /\ at' \in [Tasks -> {"off", "poll", "lock", "loop", "write"}]
      /\ batch' \in [Tasks -> Seq(Records)]
      /\ at'[t] = "off" /\ batch'[t] = <<>>
      /\ \A u \in Tasks : u # t => at'[u] = at[u] /\ batch'[u] = batch[u]
  BY CancelledKeeps
<1>3. /\ batch[t] \in Seq(Records) /\ batch \in [Tasks -> Seq(Records)] /\ buffer \in Seq(Records)
      /\ rows \in Seq(Records) /\ uncertain \subseteq Records /\ abandoned \in Nat
      /\ dropped \in Nat /\ appended \in Nat
  BY DEF IInv, TypeOK
<1>4. Len(batch[t]) \in Nat /\ ToSet(batch[t]) \subseteq Records
  BY <1>3, RecordsAreNumbers DEF ToSet
<1>5. TypeOK'
  <2>1. \A u \in Tasks : Len(batch'[u]) <= BatchSize
    <3>1. Len(batch'[t]) <= BatchSize
      BY <1>2, SizesPositive
    <3>2. \A u \in Tasks : Len(batch[u]) <= BatchSize
      BY DEF IInv, TypeOK
    <3> QED BY <1>2, <3>1, <3>2
  <2>2. abandoned' \in Nat /\ uncertain' \in SUBSET Records /\ cancelled' \in SUBSET Workers
    BY <1>1, <1>3, <1>4 DEF IInv, TypeOK
  <2> QED BY <1>1, <1>2, <2>1, <2>2 DEF IInv, TypeOK
<1>6. Ordered'
  <2>1. \A u \in Tasks : Sorted(batch'[u]) /\ Below(rows, batch'[u]) /\ Below(batch'[u], buffer)
    <3> SUFFICES ASSUME NEW u \in Tasks
                 PROVE  Sorted(batch'[u]) /\ Below(rows, batch'[u]) /\ Below(batch'[u], buffer)
      OBVIOUS
    <3>1. CASE u = t
      BY <1>2, <3>1 DEF Sorted, Below
    <3>2. CASE u # t
      BY <1>2, <3>2 DEF IInv, Ordered
    <3> QED BY <3>1, <3>2
  <2> HIDE DEF Sorted, Below
  <2> QED BY <1>1, <2>1 DEF IInv, Ordered
<1>7. \A u \in Tasks : \A i \in DOMAIN batch'[u] : u # t /\ batch'[u][i] = batch[u][i] /\ i \in DOMAIN batch[u]
  BY <1>2
<1>8. \A r \in uncertain' \ uncertain : \E j \in DOMAIN batch[t] : r = batch[t][j]
  BY <1>1 DEF ToSet
<1>9. Bounded'
  <2>1. \A u \in Tasks : \A i \in DOMAIN batch'[u] : batch'[u][i] <= appended
    BY <1>7 DEF IInv, Bounded
  <2>2. \A r \in uncertain' \cup late : r <= appended
    BY <1>8 DEF IInv, Bounded
  <2> QED BY <1>1, <2>1, <2>2 DEF IInv, Bounded
<1>10. Apart'
  <2>1. uncertain' \cap late = {}
    BY <1>8 DEF IInv, Apart
  <2>2. ASSUME NEW i \in DOMAIN rows PROVE rows[i] \notin uncertain' \cup late
    <3>1. \A j \in DOMAIN batch[t] : rows[i] < batch[t][j]
      BY DEF IInv, Ordered, Below
    <3>2. rows[i] \in Nat
      BY <1>3, RecordsAreNumbers
    <3>3. \A j \in DOMAIN batch[t] : rows[i] # batch[t][j]
      BY <3>1, <3>2
    <3> QED BY <1>8, <3>3 DEF IInv, Apart
  <2>3. ASSUME NEW i \in DOMAIN buffer PROVE buffer[i] \notin uncertain' \cup late
    <3>1. \A j \in DOMAIN batch[t] : batch[t][j] < buffer[i]
      BY DEF IInv, Ordered, Below
    <3>2. buffer[i] \in Nat
      BY <1>3, RecordsAreNumbers
    <3>3. \A j \in DOMAIN batch[t] : batch[t][j] \in Nat
      BY <1>3, RecordsAreNumbers
    <3>4. \A j \in DOMAIN batch[t] : buffer[i] # batch[t][j]
      BY <3>1, <3>2, <3>3
    <3> QED BY <1>8, <3>4 DEF IInv, Apart
  <2>4. ASSUME NEW u \in Tasks, NEW i \in DOMAIN batch'[u] PROVE batch'[u][i] \notin uncertain' \cup late
    <3>1. u # t /\ batch'[u][i] = batch[u][i] /\ i \in DOMAIN batch[u]
      BY <1>7
    <3>2. batch[u] # <<>>
      BY <3>1
    <3>3. at[u] = "write"
      BY <3>2 DEF IInv, Locking
    <3>4. at[t] # "write"
      BY <3>1, <3>3, OneHolder DEF IInv
    <3>5. batch[t] = <<>>
      BY <3>4 DEF IInv, Locking
    <3>6. uncertain' = uncertain
      BY <1>1, <3>5 DEF ToSet
    <3> QED BY <3>1, <3>6 DEF IInv, Apart
  <2> QED BY <1>1, <2>1, <2>2, <2>3, <2>4 DEF Apart
<1>11. Counted'
  <2>1. Len(buffer) \in Nat /\ Len(rows) \in Nat
    BY <1>3
  <2>2. CASE at[t] = "write"
    <3>1. /\ \A u \in Tasks : at'[u] # "write" /\ batch'[u] = <<>>
          /\ appended = Len(buffer) + Len(batch[t]) + Len(rows) + dropped + abandoned
      BY <1>2, <2>2, NobodyWrites
    <3>2. appended = Len(buffer) + Len(rows) + dropped + abandoned'
      BY <1>1, <1>3, <1>4, <2>1, <3>1
    <3> QED BY <1>1, <3>1, <3>2 DEF Counted
  <2>3. CASE at[t] # "write"
    <3>1. batch[t] = <<>>
      BY <2>3 DEF IInv, Locking
    <3>2. abandoned' = abandoned
      BY <1>1, <1>3, <3>1
    <3>3. \A u \in Tasks : (at'[u] = "write" <=> at[u] = "write") /\ (at[u] = "write" => batch'[u] = batch[u])
      BY <1>2, <2>3
    <3> QED BY <1>1, <3>2, <3>3 DEF IInv, Counted
  <2> QED BY <2>2, <2>3
<1> QED BY <1>2, <1>5, <1>6, <1>9, <1>10, <1>11 DEF IInv

\* The governor's time is up.
LEMMA GovernorTimeoutStep == IInv /\ GovernorTimeout => IInv'
<1> SUFFICES ASSUME IInv, GovernorTimeout PROVE IInv'
  OBVIOUS
<1>1. Governor \in Tasks /\ Governor # Stopper
  BY TasksDistinct DEF Tasks, Forced
<1> QED BY <1>1, CancelledStep DEF GovernorTimeout, tasks

\* The worker is cancelled.
LEMMA WorkerCancelledStep == ASSUME IInv, NEW w \in Workers, WorkerCancelled(w) PROVE IInv'
<1>1. w \in Tasks /\ w # Stopper
  BY TasksDistinct DEF Tasks
<1> QED BY <1>1, CancelledStep DEF WorkerCancelled

-----------------------------------------------------------------------------
\* The invariant is inductive.

\* Every step keeps the invariant.
LEMMA StepIInv == IInv /\ [Next]_vars => IInv'
<1> SUFFICES ASSUME IInv, [Next]_vars PROVE IInv'
  OBVIOUS
<1>1. CASE AppendRecord
  BY <1>1, AppendRecordStep
<1>2. ASSUME NEW w \in Workers, PollTick(w) \/ WorkerCancelled(w) PROVE IInv'
  BY <1>2, PollTickStep, WorkerCancelledStep
<1>3. CASE GovernorFlush \/ GovernorTimeout
  BY <1>3, GovernorFlushStep, GovernorTimeoutStep
<1>4. ASSUME NEW t \in Tasks, FlushStep(t) PROVE IInv'
  BY <1>4, BeginFlushStep, TakeBatchStep, WriteReturnsStep, WriteFailsStep, WriteTimesOutStep
     DEF FlushStep
<1>5. ASSUME NEW r \in Records, Settle(r) PROVE IInv'
  BY <1>5, SettleStep
<1>6. CASE StopBegin \/ StopFlush \/ BackoffOver \/ OtherUnhealthy \/ HealthBack
  BY <1>6, StopBeginStep, StopFlushStep, BackoffOverStep, OtherUnhealthyStep, HealthBackStep
<1>7. CASE UNCHANGED vars
  BY <1>7, StutterStep
<1> QED BY <1>1, <1>2, <1>3, <1>4, <1>5, <1>6, <1>7 DEF Next

\* The inductive invariant holds.
THEOREM SpecIInv == Spec => []IInv
BY InitIInv, StepIInv, PTL DEF Spec

-----------------------------------------------------------------------------
\* The theorems

\* Every reachable state is well typed, and buffer and batches keep their bounds
\* (services/low_priority_writer.py, append_low_priority_record, _restore_batch).
THEOREM TypeCorrect == Spec => []TypeOK
BY SpecIInv, PTL DEF IInv

\* An increasing sequence has no element twice.
LEMMA SortedIsInjective ==
  ASSUME NEW s \in Seq(Records), Sorted(s)
  PROVE  IsInjective(s)
<1> SUFFICES ASSUME NEW i \in DOMAIN s, NEW j \in DOMAIN s, s[i] = s[j] PROVE i = j
  BY DEF IsInjective
<1>1. s[i] \in Nat /\ s[j] \in Nat /\ i \in Nat /\ j \in Nat
  BY RecordsAreNumbers
<1>2. ~(i < j) /\ ~(j < i)
  BY <1>1 DEF Sorted
<1> QED BY <1>1, <1>2

\* Sequences one below the other have no record in common.
LEMMA BelowIsApart ==
  ASSUME NEW s \in Seq(Records), NEW u \in Seq(Records), Below(s, u)
  PROVE  ToSet(s) \cap ToSet(u) = {}
<1>1. ASSUME NEW x \in ToSet(s), x \in ToSet(u) PROVE FALSE
  <2>1. PICK i \in DOMAIN s : x = s[i]
    BY DEF ToSet
  <2>2. PICK j \in DOMAIN u : x = u[j]
    BY <1>1 DEF ToSet
  <2>3. s[i] < u[j] /\ s[i] \in Nat
    BY RecordsAreNumbers DEF Below
  <2> QED BY <2>1, <2>2, <2>3
<1> QED BY <1>1

\* No record can reach the table twice, whatever fails, times out or is cancelled
\* (the reason _flush_state gives for not putting a timed out batch back).
THEOREM NoRowsTwice == Spec => []NoRowTwice
<1>1. IInv => NoRowTwice
  <2> SUFFICES ASSUME IInv PROVE NoRowTwice
    OBVIOUS
  <2>1. rows \in Seq(Records) /\ buffer \in Seq(Records) /\ \A t \in Tasks : batch[t] \in Seq(Records)
    BY DEF IInv, TypeOK
  <2>2. IsInjective(rows) /\ IsInjective(buffer)
    BY <2>1, SortedIsInjective DEF IInv, Ordered
  <2>3. ToSet(rows) \cap (uncertain \cup late) = {} /\ ToSet(buffer) \cap (uncertain \cup late) = {}
    BY DEF IInv, Apart, ToSet
  <2>4. \A t \in Tasks : ToSet(batch[t]) \cap (uncertain \cup late) = {}
    BY DEF IInv, Apart, ToSet
  <2>5. ToSet(rows) \cap ToSet(buffer) = {} /\ \A t \in Tasks : ToSet(rows) \cap ToSet(batch[t]) = {}
    BY <2>1, BelowIsApart DEF IInv, Ordered
  <2>6. Writing \cap (uncertain \cup late) = {} /\ ToSet(rows) \cap Writing = {}
    BY <2>4, <2>5 DEF Writing
  <2>7. uncertain \cap late = {}
    BY DEF IInv, Apart
  <2> QED BY <2>2, <2>3, <2>5, <2>6, <2>7 DEF NoRowTwice
<1> QED BY <1>1, SpecIInv, PTL

\* An increasing sequence has as many elements as places.
LEMMA SortedCounts ==
  ASSUME NEW s \in Seq(Records), Sorted(s)
  PROVE  Cardinality(ToSet(s)) = Len(s)
<1>1. IsInjective(s) /\ Len(s) \in Nat /\ DOMAIN s = 1..Len(s)
  BY SortedIsInjective
<1>2. s \in [1..Len(s) -> ToSet(s)]
  BY <1>1 DEF ToSet
<1>3. \A x \in ToSet(s) : \E i \in 1..Len(s) : s[i] = x
  BY <1>1 DEF ToSet
<1>4. \A i, j \in 1..Len(s) : i # j => s[i] # s[j]
  BY <1>1 DEF IsInjective
<1>5. ExistsBijection(1..Len(s), ToSet(s))
  <2>1. s \in Bijection(1..Len(s), ToSet(s))
    BY <1>2, <1>3, <1>4, Fun_IsBij
  <2> QED BY <2>1 DEF ExistsBijection
<1>6. IsFiniteSet(1..Len(s)) /\ Cardinality(1..Len(s)) = Len(s)
  <2>1. /\ IsFiniteSet(1..Len(s))
        /\ Cardinality(1..Len(s)) = IF 1 > Len(s) THEN 0 ELSE Len(s) - 1 + 1
    BY <1>1, FS_Interval, 1 \in Int, Len(s) \in Int
  <2> QED BY <1>1, <2>1
<1> QED BY <1>5, <1>6, FS_Bijection, Zenon

\* Every record appended is buffered, being written, written, counted as dropped
\* or was taken along by a cancelled flush (state.dropped, _restore_batch).
THEOREM LossesCounted == Spec => []LossesAreCounted
<1>1. IInv => LossesAreCounted
  <2> SUFFICES ASSUME IInv PROVE LossesAreCounted
    OBVIOUS
  <2>1. CASE \A t \in Tasks : at[t] # "write"
    <3>1. \A t \in Tasks : ToSet(batch[t]) = {}
      BY <2>1 DEF IInv, Locking, ToSet
    <3>2. Cardinality(Writing) = 0
      <4>1. Writing = {}
        BY <3>1 DEF Writing
      <4> QED BY <4>1, FS_EmptySet
    <3>3. appended = Len(buffer) + Len(rows) + dropped + abandoned
      BY <2>1 DEF IInv, Counted
    <3>4. Len(buffer) \in Nat /\ Len(rows) \in Nat /\ dropped \in Nat /\ abandoned \in Nat
      BY DEF IInv, TypeOK
    <3> QED BY <3>2, <3>3, <3>4 DEF LossesAreCounted
  <2>2. ASSUME NEW t \in Tasks, at[t] = "write" PROVE LossesAreCounted
    <3>1. \A u \in Tasks : u # t => ToSet(batch[u]) = {}
      <4> SUFFICES ASSUME NEW u \in Tasks, u # t PROVE ToSet(batch[u]) = {}
        OBVIOUS
      <4>1. at[u] # "write"
        BY <2>2, OneHolder DEF IInv
      <4>2. batch[u] = <<>>
        BY <4>1 DEF IInv, Locking
      <4> QED BY <4>2 DEF ToSet
    <3>2. Writing = ToSet(batch[t])
      BY <3>1 DEF Writing
    <3>3. Cardinality(Writing) = Len(batch[t])
      BY <3>2, SortedCounts DEF IInv, TypeOK, Ordered
    <3>4. appended = Len(buffer) + Len(batch[t]) + Len(rows) + dropped + abandoned
      BY <2>2 DEF IInv, Counted
    <3> QED BY <3>3, <3>4 DEF LossesAreCounted
  <2> QED BY <2>1, <2>2
<1> QED BY <1>1, SpecIInv, PTL

\* Rows are written in the order of the appends, and a batch under way is older
\* than the buffer (_take_batch, _restore_batch).
THEOREM OldestGoFirst == Spec => []OldestFirst
<1>1. IInv => OldestFirst
  <2> SUFFICES ASSUME IInv PROVE OldestFirst
    OBVIOUS
  <2>1. ASSUME NEW b \in ToSet(buffer), NEW w \in Writing, NEW r \in ToSet(rows) PROVE r < w /\ w < b
    <3>1. PICK t \in Tasks : w \in ToSet(batch[t])
      BY DEF Writing
    <3>2. Below(rows, batch[t]) /\ Below(batch[t], buffer)
      BY DEF IInv, Ordered
    <3> QED BY <3>1, <3>2 DEF Below, ToSet
  <2>2. Sorted(buffer) /\ Sorted(rows)
    BY DEF IInv, Ordered
  <2> QED BY <2>1, <2>2 DEF OldestFirst, Sorted
<1> QED BY <1>1, SpecIInv, PTL
=============================================================================
