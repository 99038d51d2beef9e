-------------------------- MODULE ContextPoolProofs --------------------------
(***************************************************************************)
(* Proofs about ContextPool, for any calls, keys, number of renders, pool  *)
(* size, contexts opened ahead and generations.                            *)
(***************************************************************************)
EXTENDS ContextPool, FiniteSetTheorems, TLAPS

Holds(c) == pc[c] \in {"render", "swap", "leave"}
Pooled(c) == pc[c] \in {"create", "render", "swap", "leave", "again"}
Creating == {c \in Callers : pc[c] = "create"}
AllRendering == {c \in Callers : Rendering(c)}

\* The contexts no generation has any more, for the idle loop or a render took them out
\* to close them.
Removed == closed \cup doomed

Places == {"idle", "join", "queue", "create", "render", "swap", "leave", "again", "oneoff",
           "ended", "done"}

\* A task that is not over is the one in flight for its key, and close lets it end.
TasksKnown ==
  /\ \A c \in Callers : Live(c) => inflight[KeyOf[c]] = c
  /\ closer \in {"gathering", "closed"} => \A c \in Callers : ~Rendering(c)
  /\ closer = "closed" => \A c \in Callers : ~Live(c)

\* A generation is new, being built, active or retired, in this order.
GenerationsKnown ==
  /\ active <= gens
  /\ retired \subseteq 1..gens /\ retiring \subseteq retired /\ active \notin retired
  /\ \A s \in Swappers : /\ built[s] <= gens
                         /\ built[s] # 0 => built[s] # active /\ built[s] \notin retired
  /\ \A s, t \in Swappers : s # t /\ built[s] # 0 => built[s] # built[t]
  /\ built[IdleLoop] # 0 \/ doomed # {} => closer = "open"
  /\ active = 0 /\ closer # "closed" => gens < MaxGenerations
  /\ closer = "closed" => active = 0 /\ retiring = {}
  /\ \A c \in Callers : Pooled(c) => active # 0
  /\ \A c \in Callers : pc[c] = "create" => lease[c].gen = active \/ lease[c].gen \in retired

\* A leased context belongs to its generation and to one render.
LeasesFit ==
  /\ \A c \in Callers : HasLease(c) <=> Holds(c)
  /\ \A c \in Callers : Holds(c) => /\ lease[c].gen \in Generations
                                    /\ lease[c].ctx \in all[lease[c].gen]
                                    /\ lease[c].ctx \notin pool[lease[c].gen]
  /\ \A c, d \in Callers : Holds(c) /\ Holds(d) /\ lease[c].ctx = lease[d].ctx => c = d

\* An open context belongs to one generation, which is active or retiring, and is in
\* its pool or leased.
ContextsKept ==
  /\ \A g \in Generations : pool[g] \subseteq all[g] /\ all[g] \subseteq 1..made
  /\ \A g, h \in Generations : \A x \in all[g] : x \in all[h] => g = h
  /\ \A g \in Generations : all[g] \cap (Removed \cup stray) = {}
  /\ \A g \in Generations : all[g] # {} => g = active \/ g \in retiring
  /\ \A g \in Generations : \A x \in all[g] \ pool[g] :
       \E c \in Callers : Holds(c) /\ lease[c].gen = g /\ lease[c].ctx = x
  /\ \A x \in 1..made : x \in Removed \/ x \in stray \/ \E g \in Generations : x \in all[g]

\* The counters of the code are sizes of sets.
Counted ==
  /\ \A g \in Generations : leases[g] = Cardinality(HoldersOf(g))
  /\ tracked = Cardinality(AllRendering)

\* A generation gets no more contexts than were opened ahead and renders are under way.
Bounded ==
  /\ Cardinality(AllRendering) <= MaxRender
  /\ active # 0 => Cardinality(all[active]) + Cardinality(Creating) <= Prewarm + MaxRender
  /\ \A g \in Generations : Cardinality(all[g]) <= Prewarm + MaxRender

IInv == /\ TypeOK /\ TasksKnown /\ GenerationsKnown
        /\ LeasesFit /\ ContextsKept /\ Counted /\ Bounded

\* The assumptions on the constants, in one place.
LEMMA Assumptions ==
  /\ IsFiniteSet(Callers) /\ None \notin Callers /\ IdleLoop \notin Callers
  /\ MaxRender \in Nat \ {0} /\ PoolSize \in Nat \ {0}
  /\ Prewarm \in Nat /\ MaxGenerations \in Nat \ {0}
  /\ MaxRender <= PoolSize
BY CallersFinite, SizesPositive, RoomForAll

\* Nothing is removed or closed.
LEMMA RemovedSame == ASSUME UNCHANGED <<closed, doomed>> PROVE Removed' = Removed
BY DEF Removed

-----------------------------------------------------------------------------
\* Initially no task, generation or context exists.
LEMMA InitIInv == Init => IInv
<1> SUFFICES ASSUME Init PROVE IInv
    OBVIOUS
<1> USE Assumptions DEF Init
<1>1. TypeOK
  BY DEF TypeOK, Fates, Keys, NoLease, Generations, Swappers
<1>2. TasksKnown
  BY DEF TasksKnown, Live, Rendering
<1>3. GenerationsKnown
  BY DEF GenerationsKnown, Swappers, Pooled
<1>4. LeasesFit
  BY DEF LeasesFit, HasLease, Holds, NoLease
<1>5. ContextsKept
  BY DEF ContextsKept, Removed
<1>6. AllRendering = {} /\ Creating = {} /\ \A g \in Generations : HoldersOf(g) = {}
  BY DEF AllRendering, Creating, Rendering, HoldersOf, HasLease, NoLease
<1>7. Counted
  BY <1>6, FS_EmptySet DEF Counted
<1>8. Bounded
  BY <1>6, FS_EmptySet DEF Bounded
<1> QED
  BY <1>1, <1>2, <1>3, <1>4, <1>5, <1>7, <1>8 DEF IInv

-----------------------------------------------------------------------------
\* Types

\* A task that takes a context or opens one keeps the types.
LEMMA AcquireTypes ==
  ASSUME IInv, NEW c \in Callers, Acquire(c), active = 0 => gens < MaxGenerations
  PROVE  /\ gens' \in 0..MaxGenerations /\ active' \in 0..MaxGenerations
         /\ pool' \in [Generations -> SUBSET Nat] /\ all' \in [Generations -> SUBSET Nat]
         /\ leases' \in [Generations -> Nat] /\ tries' \in [Callers -> Nat]
         /\ lease' \in [Callers -> [gen : 0..MaxGenerations, ctx : Nat]]
         /\ pc' \in [Callers -> {"idle", "join", "queue", "create", "render", "swap", "leave",
                                 "again", "oneoff", "ended", "done"}]
         /\ UNCHANGED <<retired, retiring, built, made, closed, doomed, stray>>
<1> USE Assumptions DEF IInv, TypeOK, Generations
<1>1. /\ tries' \in [Callers -> Nat]
      /\ UNCHANGED <<retired, retiring, built, made, closed, doomed, stray>>
  BY DEF Acquire
<1>2. CASE Take(c)
  <2>1. PICK x \in pool[active] :
          /\ pool' = [pool EXCEPT ![active] = @ \ {x}]
          /\ lease' = [lease EXCEPT ![c] = [gen |-> active, ctx |-> x]]
          /\ leases' = [leases EXCEPT ![active] = @ + 1]
    BY <1>2 DEF Take
  <2>2. active \in Generations /\ x \in Nat
    BY <1>2 DEF Take
  <2>3. /\ pool \in [Generations -> SUBSET Nat] /\ leases \in [Generations -> Nat]
        /\ lease \in [Callers -> [gen : 0..MaxGenerations, ctx : Nat]]
        /\ active \in 0..MaxGenerations
    OBVIOUS
  <2>4. pool' \in [Generations -> SUBSET Nat] /\ leases' \in [Generations -> Nat]
    BY ONLY <2>1, <2>2, <2>3
  <2>5. lease' \in [Callers -> [gen : 0..MaxGenerations, ctx : Nat]]
    BY ONLY <2>1, <2>2, <2>3
  <2> QED
    BY <1>1, <1>2, <2>4, <2>5 DEF Take
<1>3. CASE OpenOne(c)
  <2>1. gens \in Nat /\ active \in 0..MaxGenerations /\ gens <= MaxGenerations
    OBVIOUS
  <2>2. gens' \in 0..MaxGenerations /\ active' \in 0..MaxGenerations
    <3>1. CASE active = 0
      <4>1. gens' = gens + 1 /\ active' = gens + 1
        BY <1>3, <3>1 DEF OpenOne
      <4> QED
        BY ONLY <3>1, <4>1, <2>1, active = 0 => gens < MaxGenerations, Assumptions
    <3>2. CASE active # 0
      BY <1>3, <3>2 DEF OpenOne
    <3> QED
      BY <3>1, <3>2
  <2>3. pool' = pool /\ leases' = leases /\ all' = all
    BY <1>3 DEF OpenOne
  <2>4. lease' = [lease EXCEPT ![c] = [gen |-> active', ctx |-> 0]]
    BY <1>3 DEF OpenOne
  <2>5. pc' = [pc EXCEPT ![c] = "create"]
    BY <1>3 DEF OpenOne
  <2>6. lease' \in [Callers -> [gen : 0..MaxGenerations, ctx : Nat]]
    BY <2>2, <2>4
  <2>7. pc' \in [Callers -> {"idle", "join", "queue", "create", "render", "swap", "leave",
                             "again", "oneoff", "ended", "done"}]
    BY <2>5
  <2> QED
    BY <1>1, <2>2, <2>3, <2>6, <2>7
<1> QED
  BY <1>2, <1>3 DEF Acquire

\* What Install does, spelled out: n contexts are opened ahead, the active generation
\* is retired, and retired generations without leases go.
LEMMA InstallEffect ==
  ASSUME TypeOK, NEW s \in Swappers, Install(s), all[built[s]] = {}
  PROVE  \E n \in Ahead :
           LET fresh == (made + 1)..(made + n)
               others == retiring \cup ({active} \ {0})
               D == {g \in others : leases[g] = 0}
           IN  /\ built[s] \in Generations /\ made' = made + n
               /\ retired' = retired \cup ({active} \ {0}) /\ retiring' = others \ D
               /\ active' = built[s] /\ built' = [built EXCEPT ![s] = 0]
               /\ D \subseteq Generations
               /\ all' \in [Generations -> SUBSET Nat] /\ pool' \in [Generations -> SUBSET Nat]
               /\ \A g \in Generations :
                    /\ all'[g] = IF g \in D THEN {} ELSE IF g = built[s] THEN fresh ELSE all[g]
                    /\ pool'[g] = IF g \in D THEN {} ELSE IF g = built[s] THEN fresh ELSE pool[g]
               /\ \A x : x \in Removed' <=> \/ x \in Removed
                                            \/ (built[s] \in D /\ x \in fresh)
                                            \/ \E g \in D : x \in all[g]
               /\ closed \subseteq closed' /\ (s # IdleLoop => doomed' = doomed)
<1>1. PICK n \in Ahead :
        /\ made' = made + n
        /\ CleanUp(retiring \cup ({active} \ {0}),
                   [all EXCEPT ![built[s]] = (made + 1)..(made + n)],
                   [pool EXCEPT ![built[s]] = (made + 1)..(made + n)], leases, closed,
                   s = IdleLoop)
  BY DEF Install, InstallKeeping
<1>2. /\ built[s] # 0 /\ active' = built[s] /\ built' = [built EXCEPT ![s] = 0]
      /\ retired' = retired \cup ({active} \ {0})
  BY DEF Install, InstallKeeping
<1>3. /\ built[s] \in Generations /\ made \in Nat /\ n \in Nat
      /\ all \in [Generations -> SUBSET Nat] /\ pool \in [Generations -> SUBSET Nat]
  BY <1>2, Assumptions DEF TypeOK, Ahead, Generations
<1> DEFINE fresh == (made + 1)..(made + n)
           others == retiring \cup ({active} \ {0})
           D == {g \in others : leases[g] = 0}
           all1 == [all EXCEPT ![built[s]] = fresh]
           pool1 == [pool EXCEPT ![built[s]] = fresh]
<1>4. retiring' = others \ D /\ Dispose(D, all1, pool1, closed, s = IdleLoop)
  BY <1>1 DEF CleanUp
<1>5. D \subseteq Generations
  <2>1. active \in 0..MaxGenerations /\ retiring \subseteq Generations
    BY DEF TypeOK
  <2>2. \A h \in 0..MaxGenerations : h # 0 => h \in 1..MaxGenerations
    BY Assumptions
  <2> QED
    BY <2>1, <2>2 DEF Generations
<1>6. fresh \subseteq Nat
  BY <1>3
<1>7. /\ all1 \in [Generations -> SUBSET Nat] /\ pool1 \in [Generations -> SUBSET Nat]
      /\ \A g \in Generations : /\ all1[g] = IF g = built[s] THEN fresh ELSE all[g]
                                /\ pool1[g] = IF g = built[s] THEN fresh ELSE pool[g]
  <2> HIDE DEF fresh
  <2> QED
    BY <1>3, <1>6
<1> HIDE DEF all1, pool1, fresh, D, others
<1>8. /\ all' = [g \in Generations |-> IF g \in D THEN {} ELSE all1[g]]
      /\ pool' = [g \in Generations |-> IF g \in D THEN {} ELSE pool1[g]]
      /\ Removed' = Removed \cup UNION {all1[g] : g \in D}
      /\ closed \subseteq closed' /\ (s # IdleLoop => doomed' = doomed)
  BY <1>4 DEF Dispose, Removed
<1>9. /\ all' \in [Generations -> SUBSET Nat] /\ pool' \in [Generations -> SUBSET Nat]
      /\ \A g \in Generations :
           /\ all'[g] = IF g \in D THEN {} ELSE IF g = built[s] THEN fresh ELSE all[g]
           /\ pool'[g] = IF g \in D THEN {} ELSE IF g = built[s] THEN fresh ELSE pool[g]
  BY <1>7, <1>8
<1>10. \A x : x \in Removed' <=> \/ x \in Removed
                                 \/ (built[s] \in D /\ x \in fresh)
                                 \/ \E g \in D : x \in all[g]
  <2>1. \A x : x \in Removed' <=> x \in Removed \/ \E g \in D : x \in all1[g]
    BY <1>8
  <2>2. \A x : (\E g \in D : x \in all1[g])
                 <=> (built[s] \in D /\ x \in fresh) \/ \E g \in D : x \in all[g]
    <3>1. \A g \in D : all1[g] = IF g = built[s] THEN fresh ELSE all[g]
      BY <1>5, <1>7
    <3> QED
      BY <3>1
  <2> QED
    BY <2>1, <2>2
<1> QED
  BY <1>1, <1>2, <1>3, <1>4, <1>5, <1>8, <1>9, <1>10 DEF fresh, D, others

-----------------------------------------------------------------------------
\* Sets of tasks and their sizes

\* Sets of calls are finite.
LEMMA CallSetsFinite ==
  /\ IsFiniteSet(AllRendering) /\ Cardinality(AllRendering) \in Nat
  /\ IsFiniteSet(Creating) /\ Cardinality(Creating) \in Nat
  /\ \A g : IsFiniteSet(HoldersOf(g)) /\ Cardinality(HoldersOf(g)) \in Nat
<1>1. \A S \in SUBSET Callers : IsFiniteSet(S) /\ Cardinality(S) \in Nat
  BY Assumptions, FS_Subset, FS_CardinalityType
<1>2. AllRendering \in SUBSET Callers /\ Creating \in SUBSET Callers
  BY DEF AllRendering, Creating
<1>3. \A g : HoldersOf(g) \in SUBSET Callers
  BY DEF HoldersOf
<1> QED
  BY <1>1, <1>2, <1>3

\* A generation without leases has no holder.
LEMMA NoLeaseNoHolder ==
  ASSUME Counted, NEW g \in Generations, leases[g] = 0
  PROVE  HoldersOf(g) = {}
BY CallSetsFinite, FS_EmptySet DEF Counted

\* A generation with one lease has one holder.
LEMMA OneLeaseOneHolder ==
  ASSUME Counted, NEW g \in Generations, leases[g] = 1, NEW c \in HoldersOf(g)
  PROVE  HoldersOf(g) = {c}
<1>1. Cardinality(HoldersOf(g)) = 1 /\ IsFiniteSet(HoldersOf(g))
  BY CallSetsFinite DEF Counted
<1>2. PICK x : HoldersOf(g) = {x}
  BY <1>1, FS_Singleton
<1> QED
  BY <1>2

\* What a render holds belongs to a generation the engine knows and is counted.
LEMMA HeldIsLeased ==
  ASSUME IInv, NEW c \in Callers, Holds(c)
  PROVE  LET g == lease[c].gen  x == lease[c].ctx
         IN  /\ g \in Generations /\ x \in Nat /\ x # 0 /\ x \in all[g] /\ x \notin pool[g]
             /\ c \in HoldersOf(g) /\ leases[g] \in Nat /\ leases[g] > 0
             /\ g = active \/ g \in retiring
<1> DEFINE g == lease[c].gen
           x == lease[c].ctx
<1>1. g \in Generations /\ x \in all[g] /\ x \notin pool[g] /\ HasLease(c)
  BY DEF IInv, LeasesFit
<1>2. c \in HoldersOf(g) /\ x # 0
  BY <1>1 DEF HoldersOf, HasLease
<1>3. x \in Nat /\ leases[g] \in Nat
  BY <1>1 DEF IInv, TypeOK
<1>4. leases[g] > 0
  BY <1>1, <1>2, <1>3, NoLeaseNoHolder DEF IInv
<1>5. g = active \/ g \in retiring
  BY <1>1 DEF IInv, ContextsKept
<1> QED
  BY <1>1, <1>2, <1>3, <1>4, <1>5

\* A generation being built is not active or retired yet: nothing belongs to it.
LEMMA BuiltIsNew ==
  ASSUME IInv, NEW s \in Swappers, built[s] # 0
  PROVE  /\ built[s] \in Generations /\ built[s] # active /\ built[s] \notin retired
         /\ built[s] \notin retiring /\ all[built[s]] = {} /\ pool[built[s]] = {}
         /\ leases[built[s]] = 0
         /\ \A c \in Callers : Holds(c) => lease[c].gen # built[s]
<1>1. built[s] \in Generations
  BY Assumptions DEF IInv, TypeOK, Generations
<1>2. built[s] # active /\ built[s] \notin retired /\ built[s] \notin retiring
  BY DEF IInv, GenerationsKnown
<1>3. all[built[s]] = {} /\ pool[built[s]] = {}
  BY <1>1, <1>2 DEF IInv, ContextsKept
<1>4. \A c \in Callers : Holds(c) => lease[c].gen # built[s]
  BY <1>3, HeldIsLeased
<1>5. HoldersOf(built[s]) = {}
  BY <1>4 DEF HoldersOf, IInv, LeasesFit
<1>6. leases[built[s]] = 0
  BY <1>1, <1>5, FS_EmptySet DEF IInv, Counted
<1> QED
  BY <1>1, <1>2, <1>3, <1>4, <1>6

\* A render gets a lease, which is counted.
LEMMA LeaseGained ==
  ASSUME IInv, NEW c \in Callers, ~HasLease(c), NEW g \in Generations, NEW x, x # 0,
         lease' = [lease EXCEPT ![c] = [gen |-> g, ctx |-> x]],
         leases' = [leases EXCEPT ![g] = @ + 1]
  PROVE  \A h \in Generations : leases'[h] = Cardinality(HoldersOf(h)')
<1> SUFFICES ASSUME NEW h \in Generations PROVE leases'[h] = Cardinality(HoldersOf(h)')
    OBVIOUS
<1>1. /\ lease \in [Callers -> [gen : 0..MaxGenerations, ctx : Nat]]
      /\ leases \in [Generations -> Nat] /\ leases[h] = Cardinality(HoldersOf(h))
  BY DEF IInv, TypeOK, Counted
<1>2. c \notin HoldersOf(h)
  BY DEF HoldersOf
<1>3. CASE h = g
  <2>1. HoldersOf(h)' = HoldersOf(h) \cup {c}
    BY <1>1, <1>3 DEF HoldersOf, HasLease
  <2>2. Cardinality(HoldersOf(h) \cup {c}) = Cardinality(HoldersOf(h)) + 1
    BY <1>2, CallSetsFinite, FS_AddElement
  <2> QED
    BY <1>1, <1>3, <2>1, <2>2
<1>4. CASE h # g
  <2>1. HoldersOf(h)' = HoldersOf(h)
    BY <1>1, <1>2, <1>4 DEF HoldersOf, HasLease
  <2> QED
    BY <1>1, <1>4, <2>1
<1> QED
  BY <1>3, <1>4

\* A render gives its lease up.
LEMMA LeaseLost ==
  ASSUME IInv, NEW c \in Callers, Holds(c),
         lease' = [lease EXCEPT ![c] = NoLease],
         leases' = [leases EXCEPT ![lease[c].gen] = @ - 1]
  PROVE  \A h \in Generations : leases'[h] = Cardinality(HoldersOf(h)')
<1> SUFFICES ASSUME NEW h \in Generations PROVE leases'[h] = Cardinality(HoldersOf(h)')
    OBVIOUS
<1> DEFINE g == lease[c].gen
<1>1. /\ lease \in [Callers -> [gen : 0..MaxGenerations, ctx : Nat]]
      /\ leases \in [Generations -> Nat] /\ leases[h] = Cardinality(HoldersOf(h))
  BY DEF IInv, TypeOK, Counted
<1>2. g \in Generations /\ c \in HoldersOf(g)
  BY HeldIsLeased
<1>3. CASE h = g
  <2>1. HoldersOf(h)' = HoldersOf(h) \ {c}
    BY <1>1, <1>3 DEF HoldersOf, HasLease, NoLease
  <2>2. Cardinality(HoldersOf(h) \ {c}) = Cardinality(HoldersOf(h)) - 1
    BY <1>2, <1>3, CallSetsFinite, FS_RemoveElement
  <2> QED
    BY <1>1, <1>3, <2>1, <2>2
<1>4. CASE h # g
  <2>1. HoldersOf(h)' = HoldersOf(h)
    BY <1>1, <1>4 DEF HoldersOf, HasLease, NoLease
  <2> QED
    BY <1>1, <1>4, <2>1
<1> QED
  BY <1>3, <1>4

\* A task starts to render: it is one more.
LEMMA RenderingStarts ==
  ASSUME IInv, NEW c \in Callers, ~Rendering(c), NEW p,
         p \in {"create", "render", "oneoff"}, pc' = [pc EXCEPT ![c] = p]
  PROVE  /\ AllRendering' = AllRendering \cup {c}
         /\ Cardinality(AllRendering') = Cardinality(AllRendering) + 1
<1>1. AllRendering' = AllRendering \cup {c}
  BY DEF AllRendering, Rendering, IInv, TypeOK
<1>2. c \notin AllRendering
  BY DEF AllRendering
<1> QED
  BY <1>1, <1>2, CallSetsFinite, FS_AddElement

\* A task ends: it is one less.
LEMMA RenderingEnds ==
  ASSUME IInv, NEW c \in Callers, Rendering(c), pc' = [pc EXCEPT ![c] = "ended"]
  PROVE  /\ AllRendering' = AllRendering \ {c}
         /\ Cardinality(AllRendering') = Cardinality(AllRendering) - 1
         /\ Cardinality(AllRendering) > 0
<1>1. AllRendering' = AllRendering \ {c}
  BY DEF AllRendering, Rendering, IInv, TypeOK
<1>2. c \in AllRendering
  BY DEF AllRendering
<1>3. Cardinality(AllRendering \ {c}) = Cardinality(AllRendering) - 1
  BY <1>2, CallSetsFinite, FS_RemoveElement
<1>4. Cardinality(AllRendering \ {c}) \in Nat
  BY CallSetsFinite, FS_RemoveElement, FS_CardinalityType
<1> QED
  BY <1>1, <1>3, <1>4, CallSetsFinite

-----------------------------------------------------------------------------
\* Effects of the other steps on the pools

\* What Release does, spelled out: the context goes back to its pool unless something
\* speaks against it, and retired generations without leases go.
LEMMA ReleaseEffect ==
  ASSUME IInv, NEW c \in Callers, Release(c)
  PROVE  LET g == lease[c].gen
             x == lease[c].ctx
             keep == fate[c] = "well" /\ ~Closing /\ g \notin retired /\ x \in all[g]
             D == {h \in retiring : leases'[h] = 0}
         IN  /\ Holds(c) /\ pc' = [pc EXCEPT ![c] = "again"]
             /\ lease' = [lease EXCEPT ![c] = NoLease]
             /\ leases' = [leases EXCEPT ![g] = @ - 1] /\ leases' \in [Generations -> Nat]
             /\ retiring' = retiring \ D /\ D \subseteq Generations
             /\ all' \in [Generations -> SUBSET Nat] /\ pool' \in [Generations -> SUBSET Nat]
             /\ \A h \in Generations :
                  /\ all'[h] = IF h \in D THEN {}
                               ELSE IF h = g /\ ~keep THEN all[h] \ {x} ELSE all[h]
                  /\ pool'[h] = IF h \in D THEN {}
                                ELSE IF h = g /\ keep THEN pool[h] \cup {x} ELSE pool[h]
             /\ \A y : y \in Removed' <=> \/ y \in Removed
                                          \/ (~keep /\ y = x)
                                          \/ \E h \in D : y \in all[h]
             /\ closed \subseteq closed' /\ doomed' = doomed
<1> DEFINE g == lease[c].gen
           x == lease[c].ctx
           keep == fate[c] = "well" /\ ~Closing /\ g \notin retired /\ x \in all[g]
           leases1 == [leases EXCEPT ![g] = Less(leases[g])]
           all1 == IF keep THEN all ELSE [all EXCEPT ![g] = @ \ {x}]
           pool1 == IF keep THEN [pool EXCEPT ![g] = @ \cup {x}] ELSE pool
           closed1 == IF ~keep /\ x \in all[g] THEN closed \cup {x} ELSE closed
           D == {h \in retiring : leases1[h] = 0}
<1>1. Holds(c) /\ g \in Generations /\ x \in Nat /\ x \in all[g] /\ leases[g] \in Nat /\ leases[g] > 0
  <2>1. Holds(c)
    BY DEF Release, ReleaseOf, Holds
  <2> QED
    BY <2>1, HeldIsLeased
<1>2. /\ retiring' = retiring \ D /\ Dispose(D, all1, pool1, closed1, FALSE)
      /\ leases' = leases1 /\ lease' = [lease EXCEPT ![c] = NoLease]
      /\ pc' = [pc EXCEPT ![c] = "again"]
  BY DEF Release, ReleaseOf, CleanUp
<1>3. /\ all \in [Generations -> SUBSET Nat] /\ pool \in [Generations -> SUBSET Nat]
      /\ leases \in [Generations -> Nat] /\ D \subseteq Generations
  BY DEF IInv, TypeOK
<1>4. leases1 = [leases EXCEPT ![g] = @ - 1] /\ leases1 \in [Generations -> Nat]
  <2>1. Less(leases[g]) = leases[g] - 1 /\ Less(leases[g]) \in Nat
    BY <1>1 DEF Less
  <2> QED
    BY <1>1, <1>3, <2>1
<1>5. /\ all1 \in [Generations -> SUBSET Nat] /\ pool1 \in [Generations -> SUBSET Nat]
      /\ \A h \in Generations :
           /\ all1[h] = IF h = g /\ ~keep THEN all[h] \ {x} ELSE all[h]
           /\ pool1[h] = IF h = g /\ keep THEN pool[h] \cup {x} ELSE pool[h]
  <2>1. CASE keep
    BY <1>1, <1>3, <2>1
  <2>2. CASE ~keep
    BY <1>1, <1>3, <2>2
  <2> QED
    BY <2>1, <2>2
<1>6. closed1 = IF keep THEN closed ELSE closed \cup {x}
  BY <1>1
<1>7. keep => g \notin D
  BY DEF IInv, GenerationsKnown
<1> HIDE DEF all1, pool1, closed1, D, leases1, keep
<1>8. /\ all' = [h \in Generations |-> IF h \in D THEN {} ELSE all1[h]]
      /\ pool' = [h \in Generations |-> IF h \in D THEN {} ELSE pool1[h]]
      /\ closed' = closed1 \cup UNION {all1[h] : h \in D} /\ doomed' = doomed
  BY <1>2 DEF Dispose
<1>9. \A h \in Generations :
        /\ all'[h] = IF h \in D THEN {} ELSE IF h = g /\ ~keep THEN all[h] \ {x} ELSE all[h]
        /\ pool'[h] = IF h \in D THEN {} ELSE IF h = g /\ keep THEN pool[h] \cup {x} ELSE pool[h]
  BY <1>5, <1>8
<1>10. all' \in [Generations -> SUBSET Nat] /\ pool' \in [Generations -> SUBSET Nat]
  BY <1>5, <1>8
<1>11. \A y : y \in Removed' <=> y \in Removed \/ (~keep /\ y = x) \/ \E h \in D : y \in all[h]
  <2>1. \A y : y \in Removed' <=> y \in Removed \/ (~keep /\ y = x) \/ \E h \in D : y \in all1[h]
    BY <1>6, <1>8 DEF Removed
  <2>2. \A y : (~keep /\ y = x) \/ (\E h \in D : y \in all1[h])
                 <=> (~keep /\ y = x) \/ \E h \in D : y \in all[h]
    <3>1. \A h \in D : all1[h] = IF h = g /\ ~keep THEN all[h] \ {x} ELSE all[h]
      BY <1>3, <1>5
    <3> QED
      BY <3>1
  <2> QED
    BY <2>1, <2>2
<1>12. D = {h \in retiring : leases'[h] = 0}
  BY <1>2 DEF D
<1>13. closed \subseteq closed' /\ doomed' = doomed
  BY <1>6, <1>8
<1> QED
  BY <1>1, <1>2, <1>3, <1>4, <1>9, <1>10, <1>11, <1>12, <1>13 DEF keep

\* What the end of close does, spelled out: no task is left, and no generation.
LEMMA ClosedEffect ==
  ASSUME IInv, Closed
  PROVE  LET D == retiring \cup ({active} \ {0})
         IN  /\ closer = "gathering" /\ closer' = "closed" /\ active' = 0 /\ retiring' = {}
             /\ inflight' = [k \in Keys |-> None] /\ \A c \in Callers : ~Live(c)
             /\ all' \in [Generations -> SUBSET Nat] /\ pool' \in [Generations -> SUBSET Nat]
             /\ \A g \in Generations : all'[g] = {} /\ pool'[g] = {}
             /\ \A x : x \in Removed' <=> x \in Removed \/ \E g \in Generations : x \in all[g]
             /\ closed \subseteq closed'
             /\ UNCHANGED <<pc, shared, recent, lease, fate, tries, gens, retired, leases, built,
                            made, doomed, stray, tracked>>
<1> DEFINE D == retiring \cup ({active} \ {0})
<1>1. /\ closer = "gathering" /\ closer' = "closed" /\ active' = 0 /\ retiring' = {}
      /\ inflight' = [k \in Keys |-> None]
      /\ \A t \in {inflight[k] : k \in Keys} \ {None} : pc[t] \in {"ended", "done"}
      /\ Dispose(D, all, pool, closed, FALSE)
      /\ UNCHANGED <<pc, shared, recent, lease, fate, tries, gens, retired, leases, built,
                     made, stray, tracked>>
  BY DEF Closed, ClosedAfter
<1>2. ASSUME NEW c \in Callers, Live(c) PROVE FALSE
  <2>1. inflight[KeyOf[c]] = c /\ KeyOf[c] \in Keys /\ c # None
    BY <1>2, Assumptions DEF IInv, TasksKnown, Keys
  <2>2. pc[c] \in {"ended", "done"}
    BY <1>1, <2>1
  <2> QED
    BY <1>2, <2>2 DEF Live, Rendering
<1>3. /\ all \in [Generations -> SUBSET Nat] /\ pool \in [Generations -> SUBSET Nat]
      /\ \A g \in Generations : g \notin D => all[g] = {} /\ pool[g] = {}
  <2>1. \A g \in Generations : g # 0
    BY Assumptions DEF Generations
  <2> QED
    BY <2>1 DEF IInv, TypeOK, ContextsKept
<1>4. D \subseteq Generations
  <2>1. active \in 0..MaxGenerations /\ retiring \subseteq Generations
    BY DEF IInv, TypeOK
  <2>2. \A h \in 0..MaxGenerations : h # 0 => h \in 1..MaxGenerations
    BY Assumptions
  <2> QED
    BY <2>1, <2>2 DEF Generations
<1> HIDE DEF D
<1>5. /\ all' = [g \in Generations |-> IF g \in D THEN {} ELSE all[g]]
      /\ pool' = [g \in Generations |-> IF g \in D THEN {} ELSE pool[g]]
      /\ closed' = closed \cup UNION {all[g] : g \in D} /\ doomed' = doomed
  BY <1>1 DEF Dispose
<1>6. /\ all' \in [Generations -> SUBSET Nat] /\ pool' \in [Generations -> SUBSET Nat]
      /\ \A g \in Generations : all'[g] = {} /\ pool'[g] = {}
  BY <1>3, <1>5
<1>7. \A x : x \in Removed' <=> x \in Removed \/ \E g \in Generations : x \in all[g]
  BY <1>3, <1>4, <1>5 DEF Removed
<1>8. closed \subseteq closed' /\ doomed' = doomed
  BY <1>5
<1> QED
  BY <1>1, <1>2, <1>6, <1>7, <1>8

\* What Take does, spelled out.
LEMMA TakeEffect ==
  ASSUME IInv, NEW c \in Callers, Take(c)
  PROVE  /\ active \in Generations /\ pc' = [pc EXCEPT ![c] = "render"]
         /\ UNCHANGED <<gens, active, all>>
         /\ \E x \in pool[active] :
              /\ x \in Nat /\ x # 0 /\ x \in all[active]
              /\ pool' = [pool EXCEPT ![active] = @ \ {x}]
              /\ lease' = [lease EXCEPT ![c] = [gen |-> active, ctx |-> x]]
              /\ leases' = [leases EXCEPT ![active] = @ + 1]
<1>1. PICK x \in pool[active] :
        /\ pool' = [pool EXCEPT ![active] = @ \ {x}]
        /\ lease' = [lease EXCEPT ![c] = [gen |-> active, ctx |-> x]]
        /\ leases' = [leases EXCEPT ![active] = @ + 1]
  BY DEF Take
<1>2. active \in Generations
  <2>1. active # 0 /\ active \in 0..MaxGenerations
    BY DEF Take, IInv, TypeOK
  <2> QED
    BY <2>1, Assumptions DEF Generations
<1>3. x \in all[active] /\ x \in 1..made /\ made \in Nat
  BY <1>2 DEF IInv, ContextsKept, TypeOK
<1>4. x \in Nat /\ x # 0
  BY <1>3
<1> QED
  BY <1>1, <1>2, <1>3, <1>4 DEF Take

\* What Opened does, spelled out: the context joins the active generation.
LEMMA OpenedEffect ==
  ASSUME IInv, NEW c \in Callers, Opened(c)
  PROVE  /\ active \in Generations /\ pc[c] = "create" /\ ~HasLease(c) /\ made' = made + 1
         /\ \A g \in Generations : made + 1 \notin all[g]
         /\ all' = [all EXCEPT ![active] = @ \cup {made + 1}]
         /\ leases' = [leases EXCEPT ![active] = @ + 1]
         /\ lease' = [lease EXCEPT ![c] = [gen |-> active, ctx |-> made + 1]]
         /\ pc' = [pc EXCEPT ![c] = "render"]
         /\ UNCHANGED <<taskVars, fate, tries, gens, active, retired, retiring, pool, built,
                        closed, doomed, stray>>
<1>1. pc[c] = "create"
  BY DEF Opened, OpenIn
<1>2. active # 0 /\ (lease[c].gen = active \/ lease[c].gen \in retired) /\ active \notin retired
  BY <1>1 DEF IInv, GenerationsKnown, Pooled
<1>3. OpenIn(c, active)
  BY <1>2 DEF Opened
<1>4. active \in Generations
  <2>1. active \in 0..MaxGenerations
    BY DEF IInv, TypeOK
  <2> QED
    BY <1>2, <2>1, Assumptions DEF Generations
<1>5. ~HasLease(c)
  BY <1>1 DEF IInv, LeasesFit, Holds
<1>6. ASSUME NEW g \in Generations PROVE made + 1 \notin all[g]
  <2>1. all[g] \subseteq 1..made /\ made \in Nat
    BY DEF IInv, ContextsKept, TypeOK
  <2> QED
    BY <2>1
<1> QED
  BY <1>1, <1>3, <1>4, <1>5, <1>6 DEF OpenIn

-----------------------------------------------------------------------------
\* Steps keep the types

\* The swap that puts a new generation in place (engine.py, _swap_pool) leaves
\* every variable of the generations in its type.
LEMMA InstallTypes ==
  ASSUME IInv, NEW s \in Swappers, Install(s)
  PROVE  /\ active' \in 0..MaxGenerations
         /\ retired' \subseteq Generations /\ retiring' \subseteq Generations
         /\ all' \in [Generations -> SUBSET Nat] /\ pool' \in [Generations -> SUBSET Nat]
         /\ built' \in [Swappers -> 0..MaxGenerations]
         /\ made' \in Nat /\ made <= made' /\ closed' \subseteq 1..made' /\ doomed' \subseteq 1..made'
<1>1. built[s] # 0 /\ TypeOK
  BY DEF Install, InstallKeeping, IInv
<1>2. built[s] \in Generations /\ all[built[s]] = {}
  BY <1>1, BuiltIsNew
<1> DEFINE others == retiring \cup ({active} \ {0})
           D == {g \in others : leases[g] = 0}
<1>3. PICK n \in Ahead :
        /\ made' = made + n
        /\ retired' = retired \cup ({active} \ {0}) /\ retiring' = others \ D
        /\ active' = built[s] /\ built' = [built EXCEPT ![s] = 0]
        /\ D \subseteq Generations
        /\ all' \in [Generations -> SUBSET Nat] /\ pool' \in [Generations -> SUBSET Nat]
        /\ \A x : x \in Removed' <=> \/ x \in Removed
                                     \/ (built[s] \in D /\ x \in (made + 1)..(made + n))
                                     \/ \E g \in D : x \in all[g]
  BY <1>1, <1>2, InstallEffect
<1>4. /\ made \in Nat /\ n \in Nat /\ active \in 0..MaxGenerations
      /\ retired \subseteq Generations /\ retiring \subseteq Generations
      /\ Removed \subseteq 1..made /\ built \in [Swappers -> 0..MaxGenerations]
  BY <1>1, Assumptions DEF TypeOK, Ahead, Removed
<1>5. {active} \ {0} \subseteq Generations /\ built[s] \in 0..MaxGenerations
      /\ 0 \in 0..MaxGenerations
  <2>1. \A h \in 0..MaxGenerations : h # 0 => h \in 1..MaxGenerations
    BY Assumptions
  <2> QED
    BY <1>4, <2>1, Assumptions DEF Generations
<1>6. Removed' \subseteq 1..made'
  <2>1. \A g \in D : all[g] \subseteq 1..made
    BY <1>3 DEF IInv, ContextsKept
  <2>2. (made + 1)..(made + n) \subseteq 1..made' /\ 1..made \subseteq 1..made'
    BY <1>3, <1>4
  <2> HIDE DEF D
  <2> QED
    BY <1>3, <1>4, <2>1, <2>2
<1>7. made' \in Nat /\ made <= made'
  BY <1>3, <1>4
<1>8. retired' \subseteq Generations /\ retiring' \subseteq Generations
  BY <1>3, <1>4, <1>5
<1>9. active' \in 0..MaxGenerations /\ built' \in [Swappers -> 0..MaxGenerations]
  BY <1>3, <1>4, <1>5
<1>10. closed' \subseteq 1..made' /\ doomed' \subseteq 1..made'
  BY <1>6 DEF Removed
<1> QED
  BY <1>3, <1>7, <1>8, <1>9, <1>10

\* A swap that begins takes the next generation number, which is within bounds.
LEMMA StartSwapTypes ==
  ASSUME IInv, NEW s \in Swappers, StartSwap(s)
  PROVE  gens' \in 0..MaxGenerations /\ built' \in [Swappers -> 0..MaxGenerations]
<1>1. /\ gens \in 0..MaxGenerations /\ built \in [Swappers -> 0..MaxGenerations]
      /\ gens < MaxGenerations /\ gens' = gens + 1 /\ built' = [built EXCEPT ![s] = gens + 1]
  BY Assumptions DEF StartSwap, IInv, TypeOK
<1>2. gens + 1 \in 0..MaxGenerations
  BY <1>1, Assumptions
<1> QED
  BY <1>1, <1>2

\* The end of a task.
LEMMA EndTypes ==
  ASSUME IInv, NEW c \in Callers, NEW well, End(c, well)
  PROVE  TypeOK'
<1>1. /\ pc \in [Callers -> Places] /\ tracked \in Nat /\ recent \subseteq Keys
      /\ lease \in [Callers -> [gen : 0..MaxGenerations, ctx : Nat]]
      /\ fate \in [Callers -> Fates] /\ tries \in [Callers -> Nat]
  BY DEF IInv, TypeOK, Places
<1>2. /\ pc' = [pc EXCEPT ![c] = "ended"]
      /\ tracked' = Less(tracked)
      /\ recent' = IF well THEN recent \cup {KeyOf[c]} ELSE recent
      /\ lease' = [lease EXCEPT ![c] = NoLease]
      /\ fate' = [fate EXCEPT ![c] = "fail"]
      /\ tries' = [tries EXCEPT ![c] = 0]
      /\ UNCHANGED <<shared, inflight, closer, poolVars>>
  BY DEF End, EndAt
<1>3. pc' \in [Callers -> Places] /\ fate' \in [Callers -> Fates]
  BY <1>1, <1>2 DEF Places, Fates
<1>4. tries' \in [Callers -> Nat]
  BY <1>1, <1>2
<1>5. tracked' \in Nat
  BY <1>1, <1>2 DEF Less
<1>6. lease' \in [Callers -> [gen : 0..MaxGenerations, ctx : Nat]]
  BY <1>1, <1>2, Assumptions DEF NoLease
<1>7. recent' \subseteq Keys
  BY <1>1, <1>2 DEF Keys
<1> QED
  BY <1>2, <1>3, <1>4, <1>5, <1>6, <1>7 DEF IInv, TypeOK, Places, poolVars

\* A task takes a context or opens one.
LEMMA AcquireStepTypes ==
  ASSUME IInv, NEW c \in Callers, Acquire(c), active = 0 => gens < MaxGenerations,
         tracked' \in Nat, UNCHANGED <<shared, inflight, recent, fate, closer>>
  PROVE  TypeOK'
<1>1. /\ gens' \in 0..MaxGenerations /\ active' \in 0..MaxGenerations
      /\ pool' \in [Generations -> SUBSET Nat] /\ all' \in [Generations -> SUBSET Nat]
      /\ leases' \in [Generations -> Nat] /\ tries' \in [Callers -> Nat]
      /\ lease' \in [Callers -> [gen : 0..MaxGenerations, ctx : Nat]]
      /\ pc' \in [Callers -> {"idle", "join", "queue", "create", "render", "swap", "leave",
                              "again", "oneoff", "ended", "done"}]
      /\ UNCHANGED <<retired, retiring, built, made, closed, doomed, stray>>
  BY AcquireTypes
<1>2. TypeOK
  BY DEF IInv
<1> QED
  BY <1>1, <1>2 DEF TypeOK

\* Every step keeps the types.
LEMMA TypeStep == IInv /\ [Next]_vars => TypeOK'
<1> SUFFICES ASSUME IInv, [Next]_vars PROVE TypeOK'
    OBVIOUS
<1>0. TypeOK
  BY DEF IInv
<1>1. ASSUME NEW c \in Callers, Call(c) PROVE TypeOK'
  <2>1. KeyOf[c] \in Keys /\ inflight[KeyOf[c]] \in Callers \cup {None}
    BY <1>0 DEF TypeOK, Keys
  <2>2. /\ pc' \in [Callers -> Places] /\ shared' \in [Callers -> Callers \cup {None}]
        /\ inflight' \in [Keys -> Callers \cup {None}]
    <3>1. /\ pc \in [Callers -> Places] /\ shared \in [Callers -> Callers \cup {None}]
          /\ inflight \in [Keys -> Callers \cup {None}]
          /\ {"done", "join", "queue"} \subseteq Places
      BY <1>0 DEF TypeOK, Places
    <3>2. \E place \in {"done", "join", "queue"} : pc' = [pc EXCEPT ![c] = place]
      BY <1>1 DEF Call, CallJoining
    <3>3. shared' = shared \/ shared' = [shared EXCEPT ![c] = inflight[KeyOf[c]]]
      BY <1>1 DEF Call, CallJoining
    <3>4. inflight' = inflight \/ inflight' = [inflight EXCEPT ![KeyOf[c]] = c]
      BY <1>1 DEF Call, CallJoining
    <3> QED
      BY <2>1, <3>1, <3>2, <3>3, <3>4
  <2>3. recent' \subseteq recent /\ UNCHANGED <<lease, fate, tries, tracked, closer, poolVars>>
    BY <1>1 DEF Call, CallJoining
  <2> QED
    BY <1>0, <2>2, <2>3 DEF TypeOK, Places, poolVars
<1>2. ASSUME NEW c \in Callers, Joined(c) PROVE TypeOK'
  BY <1>0, <1>2 DEF Joined, TypeOK, poolVars
<1>3. ASSUME NEW c \in Callers, Returned(c) PROVE TypeOK'
  BY <1>0, <1>3 DEF Returned, TypeOK, poolVars
<1>4. ASSUME NEW c \in Callers, Begin(c) PROVE TypeOK'
  <2>1. CASE Closing
    BY <1>0, <1>4, <2>1 DEF Begin, TypeOK, poolVars
  <2>2. CASE ~Closing
    <3>1. Acquire(c) /\ tracked' = tracked + 1 /\ UNCHANGED <<shared, inflight, recent, fate, closer>>
      BY <1>4, <2>2 DEF Begin
    <3>2. active = 0 => gens < MaxGenerations
      BY <2>2 DEF IInv, GenerationsKnown, Closing
    <3>3. tracked' \in Nat
      BY <1>0, <3>1 DEF TypeOK
    <3> QED
      BY <3>1, <3>2, <3>3, AcquireStepTypes
  <2> QED
    BY <2>1, <2>2
<1>5. ASSUME NEW c \in Callers, BeginOneOff(c) PROVE TypeOK'
  BY <1>0, <1>5 DEF BeginOneOff, TypeOK, poolVars
<1>6. ASSUME NEW c \in Callers, Opened(c) PROVE TypeOK'
  <2>1. /\ active \in Generations /\ made \in Nat /\ made' = made + 1
        /\ all' = [all EXCEPT ![active] = @ \cup {made + 1}]
        /\ leases' = [leases EXCEPT ![active] = @ + 1]
        /\ lease' = [lease EXCEPT ![c] = [gen |-> active, ctx |-> made + 1]]
        /\ pc' = [pc EXCEPT ![c] = "render"]
        /\ UNCHANGED <<taskVars, fate, tries, gens, active, retired, retiring, pool, built,
                       closed, doomed, stray>>
    BY <1>0, <1>6, OpenedEffect DEF TypeOK
  <2>2. /\ made' \in Nat /\ made + 1 \in Nat /\ 1..made \subseteq 1..made'
        /\ active \in 0..MaxGenerations
    BY <2>1, Assumptions DEF Generations
  <2>3. all' \in [Generations -> SUBSET Nat] /\ leases' \in [Generations -> Nat]
    BY <1>0, <2>1, <2>2 DEF TypeOK
  <2>4. lease' \in [Callers -> [gen : 0..MaxGenerations, ctx : Nat]]
    BY <1>0, <2>1, <2>2 DEF TypeOK
  <2>5. closed' \subseteq 1..made' /\ doomed' \subseteq 1..made' /\ stray' \subseteq 1..made'
    BY <1>0, <2>1, <2>2 DEF TypeOK
  <2> QED
    BY <1>0, <2>1, <2>2, <2>3, <2>4, <2>5 DEF TypeOK, taskVars
<1>7. ASSUME NEW c \in Callers, EndUnopened(c) \/ EndPooled(c) \/ EndOneOff(c) PROVE TypeOK'
  BY <1>7, EndTypes DEF EndUnopened, EndPooled, EndOneOff
<1>8. ASSUME NEW c \in Callers, Rendered(c) PROVE TypeOK'
  <2>1. fate' \in [Callers -> Fates]
    BY <1>0, <1>8 DEF Rendered, TypeOK, Fates
  <2> QED
    BY <1>0, <1>8, <2>1 DEF Rendered, TypeOK, taskVars, poolVars
<1>9. ASSUME NEW c \in Callers, TargetClosed(c) PROVE TypeOK'
  <2>1. fate' \in [Callers -> Fates]
    BY <1>0, <1>9 DEF TargetClosed, TypeOK, Fates
  <2>2. gens' \in 0..MaxGenerations /\ built' \in [Swappers -> 0..MaxGenerations]
    BY <1>9, StartSwapTypes DEF TargetClosed, Swappers
  <2> QED
    BY <1>0, <1>9, <2>1, <2>2 DEF TargetClosed, TypeOK, taskVars
<1>10. ASSUME NEW c \in Callers, Swapped(c) PROVE TypeOK'
  <2>1. Install(c) /\ c \in Swappers
    BY <1>10 DEF Swapped, Swappers
  <2>2. stray' \subseteq 1..made'
    <3>1. made' \in Nat /\ made <= made' /\ made \in Nat
      BY <1>0, <2>1, InstallTypes DEF TypeOK
    <3>2. stray' \subseteq 1..made
      BY <1>0, <1>10 DEF TypeOK, Swapped
    <3> QED
      BY <3>1, <3>2
  <2>3. pc' \in [Callers -> Places]
    BY <1>0, <1>10 DEF Swapped, TypeOK, Places
  <2> QED
    BY <1>0, <1>10, <2>1, <2>2, <2>3, InstallTypes DEF Swapped, TypeOK, taskVars, Places
<1>11. ASSUME NEW c \in Callers, Release(c) PROVE TypeOK'
  <2>1. /\ retiring' \subseteq Generations
        /\ all' \in [Generations -> SUBSET Nat] /\ pool' \in [Generations -> SUBSET Nat]
        /\ leases' \in [Generations -> Nat]
        /\ lease' = [lease EXCEPT ![c] = NoLease]
        /\ pc' = [pc EXCEPT ![c] = "again"]
    BY <1>0, <1>11, ReleaseEffect DEF TypeOK
  <2>2. Removed' \subseteq 1..made
    <3>1. \A y \in Removed' : y \in Removed \/ y = lease[c].ctx \/ \E h \in retiring : y \in all[h]
      BY <1>11, ReleaseEffect
    <3>2. Holds(c)
      BY <1>11, ReleaseEffect
    <3>3. lease[c].ctx \in 1..made
      BY <3>2, HeldIsLeased DEF IInv, ContextsKept
    <3>4. \A h \in retiring : all[h] \subseteq 1..made
      BY <1>0 DEF TypeOK, IInv, ContextsKept
    <3>5. Removed \subseteq 1..made
      BY <1>0 DEF TypeOK, Removed
    <3> QED
      BY <3>1, <3>3, <3>4, <3>5
  <2>3. lease' \in [Callers -> [gen : 0..MaxGenerations, ctx : Nat]]
    BY <1>0, <2>1, Assumptions DEF NoLease, TypeOK
  <2>4. pc' \in [Callers -> Places]
    BY <1>0, <2>1 DEF TypeOK, Places
  <2>5. UNCHANGED <<taskVars, fate, tries, gens, active, retired, built, made, stray>>
    BY <1>11 DEF Release, ReleaseOf
  <2>6. closed' \subseteq 1..made /\ doomed' \subseteq 1..made
    BY <2>2 DEF Removed
  <2> QED
    BY <1>0, <2>1, <2>3, <2>4, <2>5, <2>6 DEF TypeOK, taskVars, Places
<1>12. ASSUME NEW c \in Callers, Retry(c) PROVE TypeOK'
  <2>1. active # 0
    BY <1>12 DEF Retry, IInv, GenerationsKnown, Pooled
  <2>2. /\ Acquire(c) /\ tracked' \in Nat
        /\ UNCHANGED <<shared, inflight, recent, fate, closer>>
    BY <1>0, <1>12 DEF Retry, TypeOK, taskVars
  <2> QED
    BY <2>1, <2>2, AcquireStepTypes
<1>13. ASSUME IdleCloses PROVE TypeOK'
  BY <1>0, <1>13 DEF IdleCloses, TypeOK, taskVars
<1>14. ASSUME IdleRecycle PROVE TypeOK'
  <2>1. gens' \in 0..MaxGenerations /\ built' \in [Swappers -> 0..MaxGenerations]
    BY <1>14, StartSwapTypes DEF IdleRecycle, Swappers
  <2> QED
    BY <1>0, <1>14, <2>1 DEF IdleRecycle, TypeOK, taskVars
<1>15. ASSUME IdleRecycled PROVE TypeOK'
  <2>1. Install(IdleLoop) /\ IdleLoop \in Swappers
    BY <1>15 DEF IdleRecycled, Swappers
  <2>2. stray' \subseteq 1..made'
    <3>1. made' \in Nat /\ made <= made' /\ made \in Nat
      BY <1>0, <2>1, InstallTypes DEF TypeOK
    <3>2. stray' \subseteq 1..made
      BY <1>0, <1>15 DEF TypeOK, IdleRecycled
    <3> QED
      BY <3>1, <3>2
  <2> QED
    BY <1>0, <1>15, <2>1, <2>2, InstallTypes DEF IdleRecycled, TypeOK, taskVars
<1>16. ASSUME Close PROVE TypeOK'
  <2>1. PICK n \in Ahead \cup {0} :
          made' = made + n /\ stray' = stray \cup doomed \cup (made + 1)..(made + n)
    BY <1>16 DEF Close
  <2>2. n \in Nat /\ made \in Nat
    BY <1>0, Assumptions DEF Ahead, TypeOK
  <2>3. made' \in Nat /\ 1..made \subseteq 1..made' /\ (made + 1)..(made + n) \subseteq 1..made'
    BY <2>1, <2>2
  <2>4. closed' \subseteq 1..made' /\ doomed' \subseteq 1..made' /\ stray' \subseteq 1..made'
    BY <1>0, <1>16, <2>1, <2>3 DEF TypeOK, Close
  <2>5. built' \in [Swappers -> 0..MaxGenerations]
    <3>1. built' = [built EXCEPT ![IdleLoop] = 0] /\ built \in [Swappers -> 0..MaxGenerations]
      BY <1>0, <1>16 DEF Close, TypeOK
    <3>2. 0 \in 0..MaxGenerations
      BY Assumptions
    <3> QED
      BY <3>1, <3>2
  <2> QED
    BY <1>0, <1>16, <2>3, <2>4, <2>5 DEF Close, TypeOK
<1>17. ASSUME Drained PROVE TypeOK'
  BY <1>0, <1>17 DEF Drained, TypeOK, poolVars
<1>18. ASSUME Closed PROVE TypeOK'
  <2>1. /\ closer' = "closed" /\ active' = 0 /\ retiring' = {}
        /\ inflight' = [k \in Keys |-> None]
        /\ all' \in [Generations -> SUBSET Nat] /\ pool' \in [Generations -> SUBSET Nat]
        /\ \A x \in Removed' : x \in Removed \/ \E g \in Generations : x \in all[g]
        /\ UNCHANGED <<pc, shared, recent, lease, fate, tries, gens, retired, leases, built,
                       made, doomed, stray, tracked>>
    BY <1>18, ClosedEffect
  <2>2. closed' \subseteq 1..made
    <3>1. Removed \subseteq 1..made /\ \A g \in Generations : all[g] \subseteq 1..made
      BY <1>0 DEF TypeOK, Removed, IInv, ContextsKept
    <3>2. closed' \subseteq Removed'
      BY DEF Removed
    <3> QED
      BY <2>1, <3>1, <3>2
  <2>3. inflight' \in [Keys -> Callers \cup {None}] /\ 0 \in 0..MaxGenerations
    BY <2>1, Assumptions
  <2> QED
    BY <1>0, <2>1, <2>2, <2>3 DEF TypeOK
<1>19. CASE UNCHANGED vars
  BY <1>0, <1>19 DEF vars, TypeOK
<1> QED
  BY <1>1, <1>2, <1>3, <1>4, <1>5, <1>6, <1>7, <1>8, <1>9, <1>10, <1>11, <1>12, <1>13, <1>14,
     <1>15, <1>16, <1>17, <1>18, <1>19 DEF Next, Step, TaskStep

-----------------------------------------------------------------------------
\* Steps keep what is known of the tasks

\* Every step keeps TasksKnown: one task per key, and none of them once close is done.
LEMMA TasksStep == IInv /\ [Next]_vars => TasksKnown'
<1> SUFFICES ASSUME IInv, [Next]_vars PROVE TasksKnown'
    OBVIOUS
<1>0. /\ TasksKnown /\ pc \in [Callers -> Places] /\ inflight \in [Keys -> Callers \cup {None}]
      /\ tracked = Cardinality(AllRendering) /\ None \notin Callers
      /\ \A c \in Callers : KeyOf[c] \in Keys
  BY Assumptions DEF IInv, TypeOK, Places, Counted, Keys
\* A task moves on, without starting.
<1>a. ASSUME NEW c \in Callers, NEW p, pc' = [pc EXCEPT ![c] = p], Live(c),
             p \in {"create", "render", "swap", "leave", "again", "oneoff", "ended"},
             p \in {"create", "render", "oneoff"} => Rendering(c) \/ ~Closing,
             p \in {"swap", "leave", "again"} => Rendering(c),
             inflight' = inflight, closer' = closer
      PROVE  TasksKnown'
  <2>1. \A d \in Callers : Live(d)' => Live(d)
    BY <1>0, <1>a DEF Live, Rendering
  <2>2. closer \in {"gathering", "closed"} => \A d \in Callers : Rendering(d)' => Rendering(d)
    BY <1>0, <1>a DEF Rendering, Closing
  <2> QED
    BY <1>0, <1>a, <2>1, <2>2 DEF TasksKnown
<1>1. ASSUME NEW c \in Callers, Call(c) PROVE TasksKnown'
  <2>0. closer' = closer /\ pc[c] = "idle"
    BY <1>1 DEF Call, CallJoining
  <2>1. \/ /\ inflight' = inflight
           /\ pc' = [pc EXCEPT ![c] = "done"] \/ pc' = [pc EXCEPT ![c] = "join"]
        \/ /\ ~Closing /\ inflight[KeyOf[c]] = None /\ pc' = [pc EXCEPT ![c] = "queue"]
           /\ inflight' = [inflight EXCEPT ![KeyOf[c]] = c]
    BY <1>1 DEF Call, CallJoining
  <2>2. CASE /\ inflight' = inflight
             /\ pc' = [pc EXCEPT ![c] = "done"] \/ pc' = [pc EXCEPT ![c] = "join"]
    BY <1>0, <2>0, <2>2 DEF TasksKnown, Live, Rendering
  <2>3. CASE /\ ~Closing /\ inflight[KeyOf[c]] = None /\ pc' = [pc EXCEPT ![c] = "queue"]
             /\ inflight' = [inflight EXCEPT ![KeyOf[c]] = c]
    <3>1. pc' = [pc EXCEPT ![c] = "queue"] /\ inflight' = [inflight EXCEPT ![KeyOf[c]] = c]
      BY <2>3
    <3>2. closer = "open"
      BY <2>3 DEF Closing
    <3>3. \A d \in Callers : KeyOf[d] = KeyOf[c] => ~Live(d)
      BY <1>0, <2>3 DEF TasksKnown
    <3> QED
      BY <1>0, <2>0, <3>1, <3>2, <3>3 DEF TasksKnown, Live, Rendering
  <2> QED
    BY <2>1, <2>2, <2>3
<1>2. ASSUME NEW c \in Callers, Joined(c) PROVE TasksKnown'
  BY <1>0, <1>2 DEF Joined, TasksKnown, Live, Rendering
<1>3. ASSUME NEW c \in Callers, Returned(c) PROVE TasksKnown'
  <2>1. pc[c] = "ended" /\ pc' = [pc EXCEPT ![c] = "done"] /\ closer' = closer
    BY <1>3 DEF Returned
  <2>2. \A d \in Callers : (Live(d)' <=> Live(d)) /\ (Rendering(d)' <=> Rendering(d))
    BY <1>0, <2>1 DEF Live, Rendering
  <2>3. CASE inflight[KeyOf[c]] = c
    <3>1. inflight' = [inflight EXCEPT ![KeyOf[c]] = None]
      BY <1>3, <2>3 DEF Returned
    <3>2. \A d \in Callers : Live(d) => KeyOf[d] # KeyOf[c]
      BY <1>0, <2>1, <2>3 DEF TasksKnown, Live, Rendering
    <3> QED
      BY <1>0, <2>1, <2>2, <3>1, <3>2 DEF TasksKnown
  <2>4. CASE inflight[KeyOf[c]] # c
    BY <1>0, <1>3, <2>1, <2>2, <2>4 DEF Returned, TasksKnown
  <2> QED
    BY <2>3, <2>4
<1>4. ASSUME NEW c \in Callers, Begin(c) PROVE TasksKnown'
  <2>1. Live(c) /\ inflight' = inflight /\ closer' = closer
    BY <1>4 DEF Begin, Live
  <2>2. CASE Closing
    <3>1. pc' = [pc EXCEPT ![c] = "ended"]
      BY <1>4, <2>2 DEF Begin
    <3> QED
      BY <2>1, <3>1, <1>a
  <2>3. CASE ~Closing
    <3>1. pc' = [pc EXCEPT ![c] = "render"] \/ pc' = [pc EXCEPT ![c] = "create"]
      BY <1>4, <2>3 DEF Begin, Acquire, Take, OpenOne
    <3> QED
      BY <2>1, <2>3, <3>1, <1>a
  <2> QED
    BY <2>2, <2>3
<1>5. ASSUME NEW c \in Callers, BeginOneOff(c) PROVE TasksKnown'
  <2>1. /\ Live(c) /\ inflight' = inflight /\ closer' = closer /\ ~Closing
        /\ pc' = [pc EXCEPT ![c] = "oneoff"]
    BY <1>5 DEF BeginOneOff, Live
  <2> QED
    BY <2>1, <1>a
<1>6. ASSUME NEW c \in Callers, Opened(c) PROVE TasksKnown'
  <2>1. /\ Live(c) /\ Rendering(c) /\ inflight' = inflight /\ closer' = closer
        /\ pc' = [pc EXCEPT ![c] = "render"]
    BY <1>6 DEF Opened, OpenIn, Live, Rendering, taskVars
  <2> QED
    BY <2>1, <1>a
<1>7. ASSUME NEW c \in Callers, EndUnopened(c) \/ EndPooled(c) \/ EndOneOff(c) PROVE TasksKnown'
  <2>1. /\ Live(c) /\ inflight' = inflight /\ closer' = closer
        /\ pc' = [pc EXCEPT ![c] = "ended"]
    BY <1>7 DEF EndUnopened, EndPooled, EndOneOff, End, EndAt, Live, Rendering
  <2> QED
    BY <2>1, <1>a
<1>8. ASSUME NEW c \in Callers, Rendered(c) PROVE TasksKnown'
  <2>1. /\ Live(c) /\ Rendering(c) /\ inflight' = inflight /\ closer' = closer
        /\ pc' = [pc EXCEPT ![c] = "leave"]
    BY <1>8 DEF Rendered, Live, Rendering, taskVars
  <2> QED
    BY <2>1, <1>a
<1>9. ASSUME NEW c \in Callers, TargetClosed(c) PROVE TasksKnown'
  <2>1. /\ Live(c) /\ Rendering(c) /\ inflight' = inflight /\ closer' = closer
        /\ pc' = [pc EXCEPT ![c] = "swap"]
    BY <1>9 DEF TargetClosed, Live, Rendering, taskVars
  <2> QED
    BY <2>1, <1>a
<1>10. ASSUME NEW c \in Callers, Swapped(c) PROVE TasksKnown'
  <2>1. /\ Live(c) /\ Rendering(c) /\ inflight' = inflight /\ closer' = closer
        /\ pc' = [pc EXCEPT ![c] = "leave"]
    BY <1>10 DEF Swapped, Live, Rendering, taskVars
  <2> QED
    BY <2>1, <1>a
<1>11. ASSUME NEW c \in Callers, Release(c) PROVE TasksKnown'
  <2>1. /\ Live(c) /\ Rendering(c) /\ inflight' = inflight /\ closer' = closer
        /\ pc' = [pc EXCEPT ![c] = "again"]
    BY <1>11 DEF Release, ReleaseOf, Live, Rendering, taskVars
  <2> QED
    BY <2>1, <1>a
<1>12. ASSUME NEW c \in Callers, Retry(c) PROVE TasksKnown'
  <2>1. /\ Live(c) /\ Rendering(c) /\ inflight' = inflight /\ closer' = closer
        /\ (pc' = [pc EXCEPT ![c] = "render"] \/ pc' = [pc EXCEPT ![c] = "create"])
    BY <1>12 DEF Retry, Acquire, Take, OpenOne, Live, Rendering, taskVars
  <2> QED
    BY <2>1, <1>a
<1>13. ASSUME IdleCloses PROVE TasksKnown'
  BY <1>0, <1>13 DEF IdleCloses, TasksKnown, Live, Rendering, taskVars
<1>14. ASSUME IdleRecycle \/ IdleRecycled PROVE TasksKnown'
  BY <1>0, <1>14 DEF IdleRecycle, IdleRecycled, TasksKnown, Live, Rendering, taskVars
<1>15. ASSUME Close PROVE TasksKnown'
  BY <1>0, <1>15 DEF Close, TasksKnown, Live, Rendering
<1>16. ASSUME Drained PROVE TasksKnown'
  <2>1. pc' = pc /\ inflight' = inflight /\ closer' = "gathering" /\ tracked = 0
    BY <1>16 DEF Drained
  <2>2. AllRendering = {}
    BY <1>0, <2>1, CallSetsFinite, FS_EmptySet
  <2> QED
    BY <1>0, <2>1, <2>2 DEF TasksKnown, Live, Rendering, AllRendering
<1>17. ASSUME Closed PROVE TasksKnown'
  <2>1. pc' = pc /\ \A c \in Callers : ~Live(c)
    BY <1>17, ClosedEffect
  <2> QED
    BY <2>1 DEF TasksKnown, Live, Rendering
<1>18. CASE UNCHANGED vars
  BY <1>0, <1>18 DEF vars, TasksKnown, Live, Rendering
<1> QED
  BY <1>1, <1>2, <1>3, <1>4, <1>5, <1>6, <1>7, <1>8, <1>9, <1>10, <1>11, <1>12, <1>13, <1>14,
     <1>15, <1>16, <1>17, <1>18 DEF Next, Step, TaskStep

-----------------------------------------------------------------------------
\* Steps keep what is known of the generations

\* Nothing happens to the generations, and no task starts to open a context.
LEMMA GenerationsQuiet ==
  ASSUME IInv, UNCHANGED <<gens, active, retired, built>>, retiring' \subseteq retiring,
         doomed' \subseteq doomed,
         closer' = closer \/ (closer = "draining" /\ closer' = "gathering"),
         \A c \in Callers : Pooled(c)' => active # 0,
         \A c \in Callers : pc'[c] = "create" => pc[c] = "create" /\ lease'[c] = lease[c]
  PROVE  GenerationsKnown'
BY DEF IInv, GenerationsKnown

\* A task takes a context or opens one.
LEMMA GenerationsAcquired ==
  ASSUME IInv, NEW c \in Callers, Acquire(c), active = 0 => closer # "closed",
         closer' = closer
  PROVE  GenerationsKnown'
<1>0. /\ GenerationsKnown /\ pc \in [Callers -> Places] /\ gens \in Nat /\ active \in Nat
      /\ lease \in [Callers -> [gen : 0..MaxGenerations, ctx : Nat]]
  BY Assumptions DEF IInv, TypeOK, Places
<1>1. UNCHANGED <<retired, retiring, built, doomed>>
  BY DEF Acquire
<1>2. CASE Take(c)
  <2>1. active # 0 /\ UNCHANGED <<gens, active>> /\ pc' = [pc EXCEPT ![c] = "render"]
    BY <1>2 DEF Take
  <2>2. \A d \in Callers : d # c => lease'[d] = lease[d]
    BY <1>0, <1>2 DEF Take
  <2>3. \A d \in Callers : pc'[d] = "create" => pc[d] = "create" /\ lease'[d] = lease[d]
    BY <1>0, <2>1, <2>2
  <2> QED
    BY <1>1, <2>1, <2>3, GenerationsQuiet
<1>3. CASE OpenOne(c)
  <2>1. /\ pc' = [pc EXCEPT ![c] = "create"]
        /\ lease' = [lease EXCEPT ![c] = [gen |-> active', ctx |-> 0]]
    BY <1>3 DEF OpenOne
  <2>2. \A d \in Callers : pc'[d] = "create" => \/ (d = c /\ lease'[d].gen = active')
                                                \/ (pc[d] = "create" /\ lease'[d] = lease[d])
    BY <1>0, <2>1
  <2>3. CASE active # 0
    <3>1. UNCHANGED <<gens, active>>
      BY <1>3, <2>3 DEF OpenOne
    <3> QED
      BY <1>0, <1>1, <2>2, <2>3, <3>1 DEF GenerationsKnown
  <2>4. CASE active = 0
    <3>1. gens' = gens + 1 /\ active' = gens + 1
      BY <1>3, <2>4 DEF OpenOne
    <3>2. \A d \in Callers : ~Pooled(d)
      BY <1>0, <2>4 DEF GenerationsKnown
    <3>3. \A d \in Callers : pc'[d] = "create" => lease'[d].gen = active'
      BY <2>2, <3>2 DEF Pooled
    <3>4. \A h \in retired : h # gens + 1 /\ h \in 1..gens'
      BY <1>0, <3>1 DEF GenerationsKnown
    <3>5. \A s \in Swappers : built[s] <= gens /\ built[s] # gens + 1 /\ built[s] <= gens'
      BY <1>0, <3>1, Assumptions DEF IInv, TypeOK, GenerationsKnown
    <3> QED
      BY <1>0, <1>1, <2>4, <3>1, <3>3, <3>4, <3>5 DEF GenerationsKnown
  <2> QED
    BY <2>3, <2>4
<1> QED
  BY <1>2, <1>3 DEF Acquire

\* A new generation is being built.
LEMMA GenerationsStarted ==
  ASSUME IInv, NEW s \in Swappers, StartSwap(s), s = IdleLoop => closer = "open",
         UNCHANGED <<active, retired, retiring, doomed, closer>>,
         \A c \in Callers : Pooled(c)' => Pooled(c),
         \A c \in Callers : pc'[c] = "create" => pc[c] = "create" /\ lease'[c] = lease[c]
  PROVE  GenerationsKnown'
<1>1. /\ GenerationsKnown /\ gens \in Nat /\ active \in Nat /\ MaxGenerations \in Nat
      /\ built \in [Swappers -> 0..MaxGenerations]
  BY Assumptions DEF IInv, TypeOK
<1>2. /\ gens' = gens + 1 /\ built' = [built EXCEPT ![s] = gens + 1]
      /\ active = 0 => gens + 1 < MaxGenerations
  BY <1>1 DEF StartSwap
<1>3. \A t \in Swappers : t # s => built'[t] = built[t]
  BY <1>1, <1>2
<1>4. built'[s] = gens + 1
  BY <1>1, <1>2
<1>5. active # gens + 1 /\ active <= gens' /\ (active = 0 => gens' < MaxGenerations)
  BY <1>1, <1>2 DEF GenerationsKnown
<1>6. \A h \in retired : h # gens + 1 /\ h \in 1..gens'
  BY <1>1, <1>2 DEF GenerationsKnown
<1>7. \A t \in Swappers : built[t] # gens + 1 /\ built[t] <= gens'
  BY <1>1, <1>2 DEF GenerationsKnown
<1>8. \A t \in Swappers : /\ built'[t] <= gens'
                          /\ built'[t] # 0 => built'[t] # active /\ built'[t] \notin retired
  BY <1>1, <1>2, <1>3, <1>4, <1>5, <1>6, <1>7 DEF GenerationsKnown
<1>9. \A t, u \in Swappers : t # u /\ built'[t] # 0 => built'[t] # built'[u]
  BY <1>1, <1>3, <1>4, <1>7 DEF GenerationsKnown
<1>10. built'[IdleLoop] # 0 \/ doomed # {} => closer = "open"
  BY <1>1, <1>3 DEF GenerationsKnown, Swappers
<1> QED
  BY <1>1, <1>5, <1>6, <1>8, <1>9, <1>10 DEF GenerationsKnown

\* The new generation takes the place of the active one.
LEMMA GenerationsInstalled ==
  ASSUME IInv, NEW s \in Swappers, Install(s), closer # "closed", UNCHANGED <<gens, closer>>,
         \A c \in Callers : pc'[c] = "create" => pc[c] = "create" /\ lease'[c] = lease[c]
  PROVE  GenerationsKnown'
<1>1. /\ GenerationsKnown /\ gens \in Nat /\ active \in Nat /\ MaxGenerations \in Nat
      /\ built \in [Swappers -> 0..MaxGenerations]
  BY Assumptions DEF IInv, TypeOK
<1>2. built[s] # 0 /\ TypeOK
  BY DEF Install, InstallKeeping, IInv
<1>3. /\ built[s] # active /\ built[s] \notin retired /\ all[built[s]] = {}
  BY <1>2, BuiltIsNew
<1> DEFINE others == retiring \cup ({active} \ {0})
<1>4. /\ retired' = retired \cup ({active} \ {0}) /\ retiring' \subseteq others
      /\ active' = built[s] /\ built' = [built EXCEPT ![s] = 0]
      /\ s # IdleLoop => doomed' = doomed
  BY <1>2, <1>3, InstallEffect
<1>5. active' <= gens' /\ active' # 0 /\ active' \notin retired'
  BY <1>1, <1>2, <1>3, <1>4 DEF GenerationsKnown
<1>6. retired' \subseteq 1..gens' /\ retiring' \subseteq retired'
  <2>1. active # 0 => active \in 1..gens
    BY <1>1 DEF GenerationsKnown
  <2>2. retired \subseteq 1..gens /\ retiring \subseteq retired
    BY <1>1 DEF GenerationsKnown
  <2> QED
    BY <1>4, <2>1, <2>2
<1>7. \A t \in Swappers : /\ built'[t] <= gens'
                          /\ built'[t] # 0 => t # s /\ built'[t] = built[t]
  BY <1>1, <1>4 DEF GenerationsKnown
<1>8. \A t \in Swappers : built'[t] # 0 => built'[t] # active' /\ built'[t] \notin retired'
  BY <1>1, <1>4, <1>7 DEF GenerationsKnown
<1>9. \A t, u \in Swappers : t # u /\ built'[t] # 0 => built'[t] # built'[u]
  BY <1>1, <1>7 DEF GenerationsKnown
<1>10. \A c \in Callers : pc'[c] = "create" => lease'[c].gen \in retired'
  BY <1>1, <1>4 DEF GenerationsKnown, Pooled
<1>11. built'[IdleLoop] # 0 \/ doomed' # {} => closer = "open"
  BY <1>1, <1>2, <1>4, <1>7 DEF GenerationsKnown, Swappers
<1> QED
  BY <1>5, <1>6, <1>7, <1>8, <1>9, <1>10, <1>11 DEF GenerationsKnown

\* Every step keeps GenerationsKnown.
LEMMA GenerationsStep == IInv /\ [Next]_vars => GenerationsKnown'
<1> SUFFICES ASSUME IInv, [Next]_vars PROVE GenerationsKnown'
    OBVIOUS
<1>0. /\ GenerationsKnown /\ pc \in [Callers -> Places]
      /\ lease \in [Callers -> [gen : 0..MaxGenerations, ctx : Nat]]
  BY DEF IInv, TypeOK, Places
\* A task moves on: only a task that had a context or was opening one has one.
<1>a. ASSUME NEW c \in Callers, NEW p, p # "create", pc' = [pc EXCEPT ![c] = p],
             p \in {"render", "swap", "leave", "again"} => Pooled(c),
             \A d \in Callers : d # c => lease'[d] = lease[d]
      PROVE  /\ \A d \in Callers : Pooled(d)' => Pooled(d)
             /\ \A d \in Callers : pc'[d] = "create" => pc[d] = "create" /\ lease'[d] = lease[d]
  BY <1>0, <1>a DEF Pooled
<1>b. \A c \in Callers : Pooled(c) => active # 0
  BY <1>0 DEF GenerationsKnown
<1>1. ASSUME NEW c \in Callers, Call(c) PROVE GenerationsKnown'
  <2>1. \E p \in {"done", "join", "queue"} : pc' = [pc EXCEPT ![c] = p]
    BY <1>1 DEF Call, CallJoining
  <2>2. /\ UNCHANGED <<gens, active, retired, built>> /\ retiring' = retiring
        /\ lease' = lease /\ closer' = closer /\ doomed' = doomed
    BY <1>1 DEF Call, CallJoining, poolVars
  <2> QED
    BY <2>1, <2>2, <1>a, <1>b, GenerationsQuiet
<1>2. ASSUME NEW c \in Callers, Joined(c) \/ Returned(c) \/ BeginOneOff(c) PROVE GenerationsKnown'
  <2>1. \E p \in {"done", "oneoff"} : pc' = [pc EXCEPT ![c] = p]
    BY <1>2 DEF Joined, Returned, BeginOneOff
  <2>2. /\ UNCHANGED <<gens, active, retired, built>> /\ retiring' = retiring
        /\ lease' = lease /\ closer' = closer /\ doomed' = doomed
    BY <1>2 DEF Joined, Returned, BeginOneOff, poolVars
  <2> QED
    BY <2>1, <2>2, <1>a, <1>b, GenerationsQuiet
<1>3. ASSUME NEW c \in Callers, Begin(c) PROVE GenerationsKnown'
  <2>1. CASE Closing
    <3>1. /\ UNCHANGED <<gens, active, retired, built>> /\ retiring' = retiring
          /\ lease' = lease /\ closer' = closer /\ doomed' = doomed /\ pc' = [pc EXCEPT ![c] = "ended"]
      BY <1>3, <2>1 DEF Begin, poolVars
    <3> QED
      BY <3>1, <1>a, <1>b, GenerationsQuiet
  <2>2. CASE ~Closing
    <3>1. Acquire(c) /\ closer' = closer /\ closer # "closed"
      BY <1>3, <2>2 DEF Begin, Closing
    <3> QED
      BY <3>1, GenerationsAcquired
  <2> QED
    BY <2>1, <2>2
<1>4. ASSUME NEW c \in Callers, Opened(c) PROVE GenerationsKnown'
  <2>1. /\ pc[c] = "create" /\ pc' = [pc EXCEPT ![c] = "render"]
        /\ lease' = [lease EXCEPT ![c] = [gen |-> active, ctx |-> made + 1]]
        /\ UNCHANGED <<gens, active, retired, built, retiring, doomed, closer>>
    BY <1>4, OpenedEffect DEF taskVars
  <2>2. Pooled(c) /\ \A d \in Callers : d # c => lease'[d] = lease[d]
    BY <1>0, <2>1 DEF Pooled
  <2> QED
    BY <2>1, <2>2, <1>a, <1>b, GenerationsQuiet
<1>5. ASSUME NEW c \in Callers, EndUnopened(c) \/ EndPooled(c) \/ EndOneOff(c)
      PROVE  GenerationsKnown'
  <2>1. /\ pc' = [pc EXCEPT ![c] = "ended"] /\ lease' = [lease EXCEPT ![c] = NoLease]
        /\ UNCHANGED <<gens, active, retired, built, retiring, doomed, closer>>
    BY <1>5 DEF EndUnopened, EndPooled, EndOneOff, End, EndAt, poolVars
  <2>2. \A d \in Callers : d # c => lease'[d] = lease[d]
    BY <1>0, <2>1
  <2> QED
    BY <2>1, <2>2, <1>a, <1>b, GenerationsQuiet
<1>6. ASSUME NEW c \in Callers, Rendered(c) PROVE GenerationsKnown'
  <2>1. /\ pc' = [pc EXCEPT ![c] = "leave"] /\ Pooled(c) /\ lease' = lease
        /\ UNCHANGED <<gens, active, retired, built, retiring, doomed, closer>>
    BY <1>6 DEF Rendered, poolVars, taskVars, Pooled
  <2> QED
    BY <2>1, <1>a, <1>b, GenerationsQuiet
<1>7. ASSUME NEW c \in Callers, TargetClosed(c) PROVE GenerationsKnown'
  <2>1. /\ pc' = [pc EXCEPT ![c] = "swap"] /\ Pooled(c) /\ lease' = lease
        /\ UNCHANGED <<active, retired, retiring, doomed, closer>> /\ StartSwap(c)
    BY <1>7 DEF TargetClosed, taskVars, Pooled
  <2>2. c \in Swappers /\ c # IdleLoop
    BY Assumptions DEF Swappers
  <2> QED
    BY <2>1, <2>2, <1>a, GenerationsStarted
<1>8. ASSUME NEW c \in Callers, Swapped(c) PROVE GenerationsKnown'
  <2>1. /\ pc' = [pc EXCEPT ![c] = "leave"] /\ Pooled(c) /\ lease' = lease
        /\ UNCHANGED <<gens, closer>> /\ Install(c) /\ Rendering(c)
    BY <1>8 DEF Swapped, taskVars, Pooled, Rendering
  <2>2. c \in Swappers /\ closer # "closed"
    BY <2>1 DEF Swappers, IInv, TasksKnown
  <2> QED
    BY <2>1, <2>2, <1>a, GenerationsInstalled
<1>9. ASSUME NEW c \in Callers, Release(c) PROVE GenerationsKnown'
  <2>1. /\ pc' = [pc EXCEPT ![c] = "again"] /\ lease' = [lease EXCEPT ![c] = NoLease]
        /\ retiring' \subseteq retiring /\ doomed' = doomed
    BY <1>9, ReleaseEffect
  <2>2. UNCHANGED <<gens, active, retired, built>> /\ closer' = closer /\ Pooled(c)
    BY <1>9 DEF Release, ReleaseOf, taskVars, Pooled
  <2>3. \A d \in Callers : d # c => lease'[d] = lease[d]
    BY <1>0, <2>1
  <2> QED
    BY <2>1, <2>2, <2>3, <1>a, <1>b, GenerationsQuiet
<1>10. ASSUME NEW c \in Callers, Retry(c) PROVE GenerationsKnown'
  <2>1. Acquire(c) /\ closer' = closer /\ active # 0
    BY <1>10, <1>b DEF Retry, taskVars, Pooled
  <2> QED
    BY <2>1, GenerationsAcquired
<1>11. ASSUME IdleCloses PROVE GenerationsKnown'
  <2>1. /\ UNCHANGED <<gens, active, retired, built, pc, lease, retiring, closer>>
        /\ doomed' \subseteq doomed
    BY <1>11 DEF IdleCloses, taskVars
  <2> QED
    BY <1>b, <2>1, GenerationsQuiet DEF Pooled
<1>12. ASSUME IdleRecycle PROVE GenerationsKnown'
  <2>1. StartSwap(IdleLoop) /\ closer = "open" /\ UNCHANGED <<active, retired, retiring, doomed, closer>>
    BY <1>12 DEF IdleRecycle, taskVars
  <2>2. IdleLoop \in Swappers /\ pc' = pc /\ lease' = lease
    BY <1>12 DEF IdleRecycle, Swappers
  <2> QED
    BY <2>1, <2>2, GenerationsStarted DEF Pooled
<1>13. ASSUME IdleRecycled PROVE GenerationsKnown'
  <2>1. /\ Install(IdleLoop) /\ UNCHANGED <<gens, closer>> /\ pc' = pc /\ lease' = lease
        /\ IdleLoop \in Swappers
    BY <1>13 DEF IdleRecycled, taskVars, Swappers
  <2>2. closer # "closed"
    BY <1>0, <2>1 DEF GenerationsKnown, Install, InstallKeeping
  <2> QED
    BY <2>1, <2>2, GenerationsInstalled
<1>14. ASSUME Close PROVE GenerationsKnown'
  <2>1. /\ closer = "open" /\ closer' = "draining" /\ built' = [built EXCEPT ![IdleLoop] = 0]
        /\ UNCHANGED <<pc, lease, gens, active, retired, retiring>> /\ doomed' = {}
    BY <1>14 DEF Close
  <2>2. \A t \in Swappers : built'[t] = IF t = IdleLoop THEN 0 ELSE built[t]
    BY <2>1 DEF IInv, TypeOK
  <2>3. \A t \in Swappers : built'[t] <= gens
    BY <1>0, <2>2 DEF GenerationsKnown, IInv, TypeOK
  <2>4. built'[IdleLoop] = 0
    BY <2>2 DEF Swappers
  <2> QED
    BY <1>0, <2>1, <2>2, <2>3, <2>4 DEF GenerationsKnown, Pooled
<1>15. ASSUME Drained PROVE GenerationsKnown'
  <2>1. /\ UNCHANGED <<gens, active, retired, built, pc, lease, retiring, doomed>>
        /\ closer = "draining" /\ closer' = "gathering"
    BY <1>15 DEF Drained, poolVars
  <2> QED
    BY <1>b, <2>1, GenerationsQuiet DEF Pooled
<1>16. ASSUME Closed PROVE GenerationsKnown'
  <2>1. /\ closer = "gathering" /\ closer' = "closed" /\ active' = 0 /\ retiring' = {}
        /\ \A c \in Callers : ~Live(c)
        /\ UNCHANGED <<pc, lease, gens, retired, built, doomed>>
    BY <1>16, ClosedEffect
  <2>2. UNCHANGED <<pc, lease, gens, retired, built>> /\ doomed' = {}
    BY <1>0, <2>1 DEF GenerationsKnown
  <2>3. \A c \in Callers : ~Pooled(c)
    BY <2>1 DEF Live, Rendering, Pooled
  <2>4. built[IdleLoop] = 0 /\ 0 \notin retired
    <3>1. retired \subseteq Generations /\ 0 \notin Generations
      BY Assumptions DEF IInv, TypeOK, Generations
    <3> QED
      BY <1>0, <2>1, <3>1 DEF GenerationsKnown
  <2>5. 0 <= gens
    BY DEF IInv, TypeOK
  <2> QED
    BY <1>0, <2>1, <2>2, <2>3, <2>4, <2>5 DEF GenerationsKnown, Pooled
<1>17. CASE UNCHANGED vars
  BY <1>0, <1>17 DEF vars, GenerationsKnown, Pooled
<1> QED
  BY <1>1, <1>2, <1>3, <1>4, <1>5, <1>6, <1>7, <1>8, <1>9, <1>10, <1>11, <1>12, <1>13, <1>14,
     <1>15, <1>16, <1>17 DEF Next, Step, TaskStep

-----------------------------------------------------------------------------
\* Steps keep what is known of the contexts

\* Leases fit, contexts are kept and leases are counted.
PoolsFit == /\ LeasesFit /\ ContextsKept
            /\ \A g \in Generations : leases[g] = Cardinality(HoldersOf(g))

\* Nothing happens to the pools and to the leases of the renders that hold one.
LEMMA PoolsQuiet ==
  ASSUME IInv, UNCHANGED <<retiring, all, pool, leases, made, Removed, stray>>,
         active' = active \/ active = 0,
         \A c \in Callers : /\ Holds(c)' <=> Holds(c)
                            /\ lease'[c] = lease[c] \/ (~HasLease(c) /\ lease'[c].ctx = 0)
  PROVE  PoolsFit'
<1>1. \A c \in Callers : /\ HasLease(c)' <=> HasLease(c)
                         /\ Holds(c) => lease'[c] = lease[c]
  BY DEF HasLease, IInv, LeasesFit
<1>2. LeasesFit'
  <2>1. LeasesFit
    BY DEF IInv
  <2> QED
    BY <1>1, <2>1 DEF LeasesFit
<1>3. ContextsKept'
  <2>1. ContextsKept /\ \A g \in Generations : g # 0
    BY Assumptions DEF IInv, Generations
  <2>2. \A g \in Generations : g = active => g = active'
    BY <2>1
  <2>3. \A g \in Generations : \A x \in all[g] \ pool[g] :
          \E c \in Callers : Holds(c)' /\ lease'[c].gen = g /\ lease'[c].ctx = x
    BY <1>1, <2>1 DEF ContextsKept
  <2> QED
    BY <2>1, <2>2, <2>3 DEF ContextsKept
<1>4. \A g : HoldersOf(g)' = HoldersOf(g)
  BY <1>1 DEF HoldersOf, IInv, LeasesFit
<1>5. \A g \in Generations : leases'[g] = Cardinality(HoldersOf(g)')
  BY <1>4 DEF IInv, Counted
<1> QED
  BY <1>2, <1>3, <1>5 DEF PoolsFit

\* A task takes a context of the pool.
LEMMA PoolsTaken ==
  ASSUME IInv, NEW c \in Callers, pc[c] \in {"queue", "again"}, Take(c),
         UNCHANGED <<retiring, made, Removed, stray>>
  PROVE  PoolsFit'
<1>0. /\ LeasesFit /\ ContextsKept /\ pc \in [Callers -> Places]
      /\ lease \in [Callers -> [gen : 0..MaxGenerations, ctx : Nat]]
      /\ pool \in [Generations -> SUBSET Nat]
  BY DEF IInv, TypeOK, Places
<1>1. /\ active \in Generations /\ pc' = [pc EXCEPT ![c] = "render"]
      /\ UNCHANGED <<active, all>>
  BY TakeEffect
<1>2. PICK x \in pool[active] :
        /\ x \in Nat /\ x # 0 /\ x \in all[active]
        /\ pool' = [pool EXCEPT ![active] = @ \ {x}]
        /\ lease' = [lease EXCEPT ![c] = [gen |-> active, ctx |-> x]]
        /\ leases' = [leases EXCEPT ![active] = @ + 1]
  BY TakeEffect
<1>3. ~Holds(c) /\ ~HasLease(c)
  BY <1>0 DEF Holds, LeasesFit
<1>4. /\ \A d \in Callers : d # c => (Holds(d)' <=> Holds(d)) /\ lease'[d] = lease[d]
      /\ Holds(c)' /\ lease'[c] = [gen |-> active, ctx |-> x]
  BY <1>0, <1>1, <1>2 DEF Holds
<1>5. \A g \in Generations : pool'[g] = IF g = active THEN pool[g] \ {x} ELSE pool[g]
  BY <1>0, <1>2
<1>6. \A d \in Callers : Holds(d) => lease[d].ctx # x
  BY <1>0, <1>1, <1>2 DEF LeasesFit, ContextsKept
<1>7. LeasesFit'
  <2>1. \A d \in Callers : HasLease(d)' <=> Holds(d)'
    BY <1>0, <1>2, <1>4 DEF LeasesFit, HasLease
  <2>2. \A d \in Callers : Holds(d)' => /\ lease'[d].gen \in Generations
                                        /\ lease'[d].ctx \in all[lease'[d].gen]
                                        /\ lease'[d].ctx \notin pool'[lease'[d].gen]
    BY <1>0, <1>1, <1>2, <1>4, <1>5 DEF LeasesFit
  <2>3. \A d, e \in Callers : Holds(d)' /\ Holds(e)' /\ lease'[d].ctx = lease'[e].ctx => d = e
    BY <1>0, <1>4, <1>6 DEF LeasesFit
  <2> QED
    BY <1>1, <2>1, <2>2, <2>3 DEF LeasesFit
<1>8. ContextsKept'
  <2>0. \A g \in Generations : pool[g] \subseteq all[g]
    BY <1>0 DEF ContextsKept
  <2>1. \A g \in Generations : pool'[g] \subseteq all[g]
    BY <2>0, <1>5
  <2>2. \A g \in Generations : \A y \in all[g] \ pool'[g] :
          \E d \in Callers : Holds(d)' /\ lease'[d].gen = g /\ lease'[d].ctx = y
    <3> SUFFICES ASSUME NEW g \in Generations, NEW y \in all[g] \ pool'[g]
                 PROVE  \E d \in Callers : Holds(d)' /\ lease'[d].gen = g /\ lease'[d].ctx = y
      OBVIOUS
    <3>1. CASE y \in pool[g]
      <4>1. g = active /\ y = x
        BY <1>5, <3>1
      <4> QED
        BY <1>4, <4>1
    <3>2. CASE y \notin pool[g]
      <4>1. PICK d \in Callers : Holds(d) /\ lease[d].gen = g /\ lease[d].ctx = y
        BY <1>0, <3>2 DEF ContextsKept
      <4> QED
        BY <1>3, <1>4, <4>1
    <3> QED
      BY <3>1, <3>2
  <2> QED
    BY <1>0, <1>1, <2>1, <2>2 DEF ContextsKept
<1>9. \A h \in Generations : leases'[h] = Cardinality(HoldersOf(h)')
  BY <1>1, <1>2, <1>3, LeaseGained
<1> QED
  BY <1>7, <1>8, <1>9 DEF PoolsFit

\* A task opened a context.
LEMMA PoolsOpened ==
  ASSUME IInv, NEW c \in Callers, Opened(c)
  PROVE  PoolsFit'
<1>0. /\ LeasesFit /\ ContextsKept /\ pc \in [Callers -> Places] /\ made \in Nat
      /\ lease \in [Callers -> [gen : 0..MaxGenerations, ctx : Nat]]
      /\ all \in [Generations -> SUBSET Nat]
      /\ Removed \subseteq 1..made /\ stray \subseteq 1..made
  BY DEF IInv, TypeOK, Places, Removed
<1> DEFINE x == made + 1
<1>1. /\ active \in Generations /\ pc[c] = "create" /\ ~HasLease(c) /\ made' = x
      /\ \A g \in Generations : x \notin all[g]
      /\ all' = [all EXCEPT ![active] = @ \cup {x}]
      /\ leases' = [leases EXCEPT ![active] = @ + 1]
      /\ lease' = [lease EXCEPT ![c] = [gen |-> active, ctx |-> x]]
      /\ pc' = [pc EXCEPT ![c] = "render"]
      /\ UNCHANGED <<active, retiring, pool, Removed, stray>>
  BY OpenedEffect, RemovedSame
<1>2. x # 0 /\ x \notin 1..made /\ 1..x = 1..made \cup {x}
  BY <1>0
<1> HIDE DEF x
<1>3. ~Holds(c)
  BY <1>1 DEF Holds
<1>4. /\ \A d \in Callers : d # c => (Holds(d)' <=> Holds(d)) /\ lease'[d] = lease[d]
      /\ Holds(c)' /\ lease'[c] = [gen |-> active, ctx |-> x]
  BY <1>0, <1>1 DEF Holds
<1>5. \A g \in Generations : all'[g] = IF g = active THEN all[g] \cup {x} ELSE all[g]
  BY <1>0, <1>1
<1>6. \A d \in Callers : Holds(d) => lease[d].ctx # x
  BY <1>0, <1>1 DEF LeasesFit
<1>7. \A g \in Generations : x \notin pool[g]
  BY <1>0, <1>1 DEF ContextsKept
<1>8. LeasesFit'
  <2>1. \A d \in Callers : HasLease(d)' <=> Holds(d)'
    BY <1>0, <1>2, <1>4 DEF LeasesFit, HasLease
  <2>2. \A d \in Callers : Holds(d)' => /\ lease'[d].gen \in Generations
                                        /\ lease'[d].ctx \in all'[lease'[d].gen]
                                        /\ lease'[d].ctx \notin pool[lease'[d].gen]
    BY <1>0, <1>1, <1>4, <1>5, <1>7 DEF LeasesFit
  <2>3. \A d, e \in Callers : Holds(d)' /\ Holds(e)' /\ lease'[d].ctx = lease'[e].ctx => d = e
    BY <1>0, <1>4, <1>6 DEF LeasesFit
  <2> QED
    BY <1>1, <2>1, <2>2, <2>3 DEF LeasesFit
<1>9. ContextsKept'
  <2>1. \A g \in Generations : pool[g] \subseteq all'[g] /\ all'[g] \subseteq 1..made'
    BY <1>0, <1>1, <1>2, <1>5 DEF ContextsKept
  <2>2. \A g, h \in Generations : \A y \in all'[g] : y \in all'[h] => g = h
    BY <1>0, <1>1, <1>5 DEF ContextsKept
  <2>3. \A g \in Generations : all'[g] \cap (Removed \cup stray) = {}
    <3>1. \A g \in Generations : all[g] \cap (Removed \cup stray) = {}
      BY <1>0 DEF ContextsKept
    <3>2. x \notin Removed \cup stray
      BY <1>0, <1>2
    <3> QED
      BY <1>5, <3>1, <3>2
  <2>4. \A g \in Generations : all'[g] # {} => g = active \/ g \in retiring
    BY <1>0, <1>5 DEF ContextsKept
  <2>5. \A g \in Generations : \A y \in all'[g] \ pool[g] :
          \E d \in Callers : Holds(d)' /\ lease'[d].gen = g /\ lease'[d].ctx = y
    <3> SUFFICES ASSUME NEW g \in Generations, NEW y \in all'[g] \ pool[g]
                 PROVE  \E d \in Callers : Holds(d)' /\ lease'[d].gen = g /\ lease'[d].ctx = y
      OBVIOUS
    <3>1. CASE y \notin all[g]
      <4>1. g = active /\ y = x
        BY <1>5, <3>1
      <4> QED
        BY <1>4, <4>1
    <3>2. CASE y \in all[g]
      <4>1. PICK d \in Callers : Holds(d) /\ lease[d].gen = g /\ lease[d].ctx = y
        BY <1>0, <3>2 DEF ContextsKept
      <4> QED
        BY <1>3, <1>4, <4>1
    <3> QED
      BY <3>1, <3>2
  <2>6. \A y \in 1..made' : y \in Removed \/ y \in stray \/ \E g \in Generations : y \in all'[g]
    BY <1>0, <1>1, <1>2, <1>5 DEF ContextsKept
  <2> QED
    BY <1>1, <2>1, <2>2, <2>3, <2>4, <2>5, <2>6 DEF ContextsKept
<1>10. \A h \in Generations : leases'[h] = Cardinality(HoldersOf(h)')
  BY <1>1, <1>2, LeaseGained
<1> QED
  BY <1>8, <1>9, <1>10 DEF PoolsFit

\* A task releases its context.
LEMMA PoolsReleased ==
  ASSUME IInv, NEW c \in Callers, Release(c)
  PROVE  PoolsFit'
<1>0. /\ LeasesFit /\ ContextsKept /\ pc \in [Callers -> Places]
      /\ leases \in [Generations -> Nat]
      /\ lease \in [Callers -> [gen : 0..MaxGenerations, ctx : Nat]]
  BY DEF IInv, TypeOK, Places
<1> DEFINE g == lease[c].gen
           x == lease[c].ctx
           keep == fate[c] = "well" /\ ~Closing /\ g \notin retired /\ x \in all[g]
           D == {h \in retiring : leases'[h] = 0}
<1>1. /\ Holds(c) /\ pc' = [pc EXCEPT ![c] = "again"]
      /\ lease' = [lease EXCEPT ![c] = NoLease]
      /\ leases' = [leases EXCEPT ![g] = @ - 1]
      /\ retiring' = retiring \ D /\ D \subseteq Generations
  BY ReleaseEffect
<1>a. \A h \in Generations :
        all'[h] = IF h \in D THEN {} ELSE IF h = g /\ ~keep THEN all[h] \ {x} ELSE all[h]
  BY ReleaseEffect
<1>p. \A h \in Generations :
        pool'[h] = IF h \in D THEN {} ELSE IF h = g /\ keep THEN pool[h] \cup {x} ELSE pool[h]
  BY ReleaseEffect
<1>q. \A h \in Generations : \A y : y \in pool'[h] => y \in pool[h] \/ (h = g /\ keep /\ y = x)
  <2> SUFFICES ASSUME NEW h \in Generations, NEW y, y \in pool'[h]
               PROVE  y \in pool[h] \/ (h = g /\ keep /\ y = x)
    OBVIOUS
  <2> HIDE DEF keep, D, g, x
  <2>1. CASE h \in D
    BY <1>p, <2>1
  <2>2. CASE h \notin D /\ h = g /\ keep
    <3>1. pool'[h] = pool[h] \cup {x}
      BY <1>p, <2>2
    <3> QED
      BY <2>2, <3>1
  <2>3. CASE h \notin D /\ ~(h = g /\ keep)
    BY <1>p, <2>3
  <2> QED
    BY <2>1, <2>2, <2>3
<1>r. \A h \in Generations : \A y : y \in pool'[h] => h \notin D
  BY <1>p
<1>c. \A y : y \in Removed' <=> y \in Removed \/ (~keep /\ y = x) \/ \E h \in D : y \in all[h]
  BY ReleaseEffect
<1>2. UNCHANGED <<active, made, stray>>
  BY DEF Release, ReleaseOf
<1>3. g \in Generations /\ x \in all[g] /\ x \notin pool[g] /\ c \in HoldersOf(g)
  BY <1>1, HeldIsLeased
\* A generation that goes has no other holder.
<1>4. ASSUME NEW d \in Callers, d # c, Holds(d) PROVE lease[d].gen \notin D
  <2>1. lease[d].gen \in Generations /\ d \in HoldersOf(lease[d].gen)
    BY <1>4, HeldIsLeased
  <2>2. CASE lease[d].gen = g
    <3>1. leases[g] # 1
      BY <1>3, <1>4, <2>1, <2>2, OneLeaseOneHolder DEF IInv
    <3>2. leases'[g] # 0
      BY <1>0, <1>1, <1>3, <3>1
    <3> QED
      BY <2>2, <3>2
  <2>3. CASE lease[d].gen # g
    <3>1. leases[lease[d].gen] # 0
      BY <2>1, NoLeaseNoHolder DEF IInv
    <3>2. leases'[lease[d].gen] = leases[lease[d].gen]
      BY <1>0, <1>1, <2>1, <2>3
    <3> QED
      BY <3>1, <3>2
  <2> QED
    BY <2>2, <2>3
<1>5. /\ \A d \in Callers : d # c => (Holds(d)' <=> Holds(d)) /\ lease'[d] = lease[d]
      /\ ~Holds(c)' /\ lease'[c] = NoLease
  BY <1>0, <1>1 DEF Holds
<1> HIDE DEF D, keep
<1>6. LeasesFit'
  <2>1. \A d \in Callers : HasLease(d)' <=> Holds(d)'
    BY <1>0, <1>5 DEF LeasesFit, HasLease, NoLease
  <2>2. ASSUME NEW d \in Callers, Holds(d)'
        PROVE  /\ lease'[d].gen \in Generations
               /\ lease'[d].ctx \in all'[lease'[d].gen]
               /\ lease'[d].ctx \notin pool'[lease'[d].gen]
    <3>1. d # c /\ Holds(d) /\ lease'[d] = lease[d]
      BY <1>5, <2>2
    <3>2. /\ lease[d].gen \in Generations /\ lease[d].gen \notin D /\ lease[d].ctx # x
          /\ lease[d].ctx \in all[lease[d].gen] /\ lease[d].ctx \notin pool[lease[d].gen]
      BY <1>0, <1>1, <1>4, <3>1 DEF LeasesFit
    <3>3. lease[d].ctx \in all'[lease[d].gen]
      BY <1>a, <3>2
    <3>4. lease[d].ctx \notin pool'[lease[d].gen]
      BY <1>q, <3>2
    <3> QED
      BY <3>1, <3>2, <3>3, <3>4
  <2>3. \A d, e \in Callers : Holds(d)' /\ Holds(e)' /\ lease'[d].ctx = lease'[e].ctx => d = e
    BY <1>0, <1>5 DEF LeasesFit
  <2> QED
    BY <2>1, <2>2, <2>3 DEF LeasesFit
<1>7. ContextsKept'
  <2>0. \A h \in Generations : all'[h] \subseteq all[h]
    BY <1>a
  <2>1. \A h \in Generations : pool'[h] \subseteq all'[h] /\ all'[h] \subseteq 1..made
    <3>1. \A h \in Generations : pool[h] \subseteq all[h] /\ all[h] \subseteq 1..made
      BY <1>0 DEF ContextsKept
    <3>2. \A h \in Generations : pool'[h] \subseteq all'[h]
      <4> SUFFICES ASSUME NEW h \in Generations, NEW y, y \in pool'[h] PROVE y \in all'[h]
        OBVIOUS
      <4>1. h \notin D /\ (y \in pool[h] \/ (h = g /\ keep /\ y = x))
        BY <1>q, <1>r
      <4>2. y \in all[h] /\ (h = g /\ ~keep => y # x)
        BY <1>3, <3>1, <4>1
      <4> QED
        BY <1>a, <4>1, <4>2
    <3> QED
      BY <2>0, <3>1, <3>2
  <2>2. \A h, k \in Generations : \A y \in all'[h] : y \in all'[k] => h = k
    BY <1>0, <2>0 DEF ContextsKept
  <2>3. \A h \in Generations : all'[h] \cap (Removed' \cup stray) = {}
    <3> SUFFICES ASSUME NEW h \in Generations, NEW y \in all'[h], y \in Removed' \cup stray
                 PROVE  FALSE
      OBVIOUS
    <3>1. y \in all[h] /\ h \notin D /\ y \notin Removed /\ y \notin stray
      <4>1. y \in all[h] /\ h \notin D
        BY <1>a
      <4> QED
        BY <1>0, <4>1 DEF ContextsKept
    <3>2. CASE ~keep /\ y = x
      <4>1. h = g
        BY <1>0, <1>3, <3>1, <3>2 DEF ContextsKept
      <4> QED
        BY <1>a, <3>1, <3>2, <4>1
    <3>3. CASE \E k \in D : y \in all[k]
      BY <1>0, <1>1, <3>1, <3>3 DEF ContextsKept
    <3> QED
      BY <1>c, <3>1, <3>2, <3>3
  <2>4. \A h \in Generations : all'[h] # {} => h = active \/ h \in retiring'
    BY <1>0, <1>1, <1>a DEF ContextsKept
  <2>5. ASSUME NEW h \in Generations, NEW y \in all'[h] \ pool'[h]
        PROVE  \E d \in Callers : Holds(d)' /\ lease'[d].gen = h /\ lease'[d].ctx = y
    <3>1. y \in all[h] \ pool[h] /\ ~(h = g /\ y = x)
      BY <1>a, <1>p
    <3>2. PICK d \in Callers : Holds(d) /\ lease[d].gen = h /\ lease[d].ctx = y
      BY <1>0, <3>1 DEF ContextsKept
    <3> QED
      BY <1>5, <3>1, <3>2
  <2>6. \A y \in 1..made : y \in Removed' \/ y \in stray \/ \E h \in Generations : y \in all'[h]
    <3> SUFFICES ASSUME NEW h \in Generations, NEW y \in all[h], y \notin Removed'
                 PROVE  y \in all'[h]
      BY <1>0, <1>c DEF ContextsKept
    <3>1. h \notin D /\ ~(~keep /\ y = x)
      BY <1>c
    <3> QED
      BY <1>a, <3>1
  <2> QED
    BY <1>2, <2>1, <2>2, <2>3, <2>4, <2>5, <2>6 DEF ContextsKept
<1>8. \A h \in Generations : leases'[h] = Cardinality(HoldersOf(h)')
  BY <1>1, LeaseLost
<1> QED
  BY <1>6, <1>7, <1>8 DEF PoolsFit

\* A new generation takes the place of the active one.
LEMMA PoolsInstalled ==
  ASSUME IInv, NEW s \in Swappers, Install(s), UNCHANGED <<lease, leases, stray>>,
         \A c \in Callers : Holds(c)' <=> Holds(c)
  PROVE  PoolsFit'
<1>0. /\ LeasesFit /\ ContextsKept /\ TypeOK
      /\ made \in Nat /\ Removed \subseteq 1..made /\ stray \subseteq 1..made
      /\ all \in [Generations -> SUBSET Nat]
  BY DEF IInv, TypeOK, Removed
<1>1. built[s] # 0
  BY DEF Install, InstallKeeping
<1> DEFINE b == built[s]
           others == retiring \cup ({active} \ {0})
           D == {g \in others : leases[g] = 0}
<1>2. /\ b \in Generations /\ b # active /\ b \notin retiring /\ all[b] = {}
      /\ \A c \in Callers : Holds(c) => lease[c].gen # b
  BY <1>1, BuiltIsNew
<1>3. PICK n \in Ahead :
        LET fresh == (made + 1)..(made + n)
        IN  /\ made' = made + n /\ retiring' = others \ D /\ active' = b /\ D \subseteq Generations
            /\ \A g \in Generations :
                 /\ all'[g] = IF g \in D THEN {} ELSE IF g = b THEN fresh ELSE all[g]
                 /\ pool'[g] = IF g \in D THEN {} ELSE IF g = b THEN fresh ELSE pool[g]
            /\ \A x : x \in Removed' <=> \/ x \in Removed
                                         \/ (b \in D /\ x \in fresh)
                                         \/ \E g \in D : x \in all[g]
  BY <1>0, <1>2, InstallEffect
<1> DEFINE fresh == (made + 1)..(made + n)
<1>4. /\ \A x \in fresh : x \notin 1..made
      /\ 1..made' = 1..made \cup fresh
  BY <1>0, <1>3, Assumptions DEF Ahead
<1>5. b \notin D
  BY <1>2
<1>6. \A c \in Callers : Holds(c) => lease[c].gen \in Generations /\ lease[c].gen \notin D
  <2> SUFFICES ASSUME NEW c \in Callers, Holds(c)
               PROVE  lease[c].gen \in Generations /\ leases[lease[c].gen] # 0
    OBVIOUS
  <2> QED
    BY HeldIsLeased
<1>a. \A g \in Generations : all'[g] = IF g \in D THEN {} ELSE IF g = b THEN fresh ELSE all[g]
  BY <1>3
<1>p. \A g \in Generations : pool'[g] = IF g \in D THEN {} ELSE IF g = b THEN fresh ELSE pool[g]
  BY <1>3
<1>c. \A x \in Removed' : x \in Removed \/ \E g \in D : x \in all[g]
  BY <1>3, <1>5
<1>d. \A x : x \in Removed \/ (\E g \in D : x \in all[g]) => x \in Removed'
  BY <1>3
<1>7. /\ active' = b /\ D \subseteq Generations /\ retiring' = others \ D
  BY <1>3
<1> HIDE DEF fresh, D, b
<1>8. LeasesFit'
  <2>1. \A c \in Callers : HasLease(c)' <=> Holds(c)'
    BY <1>0 DEF LeasesFit, HasLease
  <2>2. ASSUME NEW c \in Callers, Holds(c)
        PROVE  /\ lease[c].gen \in Generations /\ lease[c].ctx \in all'[lease[c].gen]
               /\ lease[c].ctx \notin pool'[lease[c].gen]
    <3>1. /\ lease[c].gen \in Generations /\ lease[c].gen \notin D /\ lease[c].gen # b
          /\ lease[c].ctx \in all[lease[c].gen] /\ lease[c].ctx \notin pool[lease[c].gen]
      BY <1>0, <1>2, <1>6, <2>2 DEF LeasesFit
    <3> QED
      BY <1>a, <1>p, <3>1
  <2> QED
    BY <1>0, <2>1, <2>2 DEF LeasesFit
<1>9. ContextsKept'
  <2>1. \A g \in Generations : pool'[g] \subseteq all'[g] /\ all'[g] \subseteq 1..made'
    <3> SUFFICES ASSUME NEW g \in Generations
                 PROVE  pool'[g] \subseteq all'[g] /\ all'[g] \subseteq 1..made'
      OBVIOUS
    <3>1. pool[g] \subseteq all[g] /\ all[g] \subseteq 1..made
      BY <1>0 DEF ContextsKept
    <3>2. CASE g \in D
      BY <1>a, <1>p, <3>2
    <3>3. CASE g \notin D /\ g = b
      BY <1>4, <1>a, <1>p, <3>3
    <3>4. CASE g \notin D /\ g # b
      BY <1>4, <1>a, <1>p, <3>1, <3>4
    <3> QED
      BY <3>2, <3>3, <3>4
  <2>2. \A g \in Generations : \A x \in all'[g] :
          (g = b /\ x \in fresh) \/ (g # b /\ g \notin D /\ x \in all[g])
    BY <1>a
  <2>3. \A g \in Generations : \A x \in all[g] : x \in 1..made /\ x \notin fresh
    BY <1>0, <1>4 DEF ContextsKept
  <2>4. \A g, h \in Generations : \A x \in all'[g] : x \in all'[h] => g = h
    BY <1>0, <2>2, <2>3 DEF ContextsKept
  <2>5. \A g \in Generations : all'[g] \cap (Removed' \cup stray) = {}
    <3> SUFFICES ASSUME NEW g \in Generations, NEW x \in all'[g], x \in Removed' \cup stray
                 PROVE  FALSE
      OBVIOUS
    <3>1. CASE x \in fresh
      <4>1. x \notin Removed /\ x \notin stray
        BY <1>0, <1>4, <3>1
      <4>2. \A h \in D : x \notin all[h]
        BY <1>7, <2>3, <3>1
      <4> QED
        BY <1>c, <4>1, <4>2
    <3>2. CASE x \notin fresh
      <4>1. g \notin D /\ x \in all[g]
        BY <2>2, <3>2
      <4>2. x \notin Removed /\ x \notin stray
        BY <1>0, <4>1 DEF ContextsKept
      <4>3. \A h \in D : x \notin all[h]
        BY <1>0, <1>7, <4>1 DEF ContextsKept
      <4> QED
        BY <1>c, <4>2, <4>3
    <3> QED
      BY <3>1, <3>2
  <2>6. \A g \in Generations : all'[g] # {} => g = active' \/ g \in retiring'
    <3> SUFFICES ASSUME NEW g \in Generations, all'[g] # {}, g # b PROVE g \in retiring'
      BY <1>7
    <3>1. g \notin D /\ all[g] # {}
      BY <1>a
    <3>2. g = active \/ g \in retiring
      BY <1>0, <3>1 DEF ContextsKept
    <3>3. g # 0
      BY Assumptions DEF Generations
    <3> QED
      BY <1>7, <3>1, <3>2, <3>3
  <2>7. ASSUME NEW g \in Generations, NEW x \in all'[g] \ pool'[g]
        PROVE  \E c \in Callers : Holds(c)' /\ lease'[c].gen = g /\ lease'[c].ctx = x
    <3>1. x \in all[g] \ pool[g]
      BY <1>a, <1>p
    <3> QED
      BY <1>0, <3>1 DEF ContextsKept
  <2>8. \A x \in 1..made' : x \in Removed' \/ x \in stray \/ \E g \in Generations : x \in all'[g]
    <3> SUFFICES ASSUME NEW x \in 1..made', x \notin Removed', x \notin stray
                 PROVE  \E g \in Generations : x \in all'[g]
      OBVIOUS
    <3>1. CASE x \in fresh
      BY <1>2, <1>5, <1>a, <3>1 DEF b
    <3>2. CASE x \notin fresh
      <4>1. x \in 1..made /\ x \notin Removed
        BY <1>4, <1>d, <3>2
      <4>2. PICK g \in Generations : x \in all[g]
        BY <1>0, <4>1 DEF ContextsKept
      <4>3. g \notin D /\ g # b
        BY <1>2, <1>d, <4>2 DEF b
      <4> QED
        BY <1>a, <4>2, <4>3
    <3> QED
      BY <3>1, <3>2
  <2> QED
    BY <2>1, <2>4, <2>5, <2>6, <2>7, <2>8 DEF ContextsKept
<1>10. \A g \in Generations : leases'[g] = Cardinality(HoldersOf(g)')
  <2>1. \A g : HoldersOf(g)' = HoldersOf(g)
    BY DEF HoldersOf, HasLease
  <2> QED
    BY <2>1 DEF IInv, Counted
<1> QED
  BY <1>8, <1>9, <1>10 DEF PoolsFit

\* close begins: the contexts the idle loop had opened ahead, and those it had removed,
\* are nobody's.
LEMMA PoolsClosing == IInv /\ Close => PoolsFit'
<1> SUFFICES ASSUME IInv, Close PROVE PoolsFit'
    OBVIOUS
<1>0. LeasesFit /\ ContextsKept /\ made \in Nat
  BY DEF IInv, TypeOK
<1>1. UNCHANGED <<pc, lease, active, retiring, all, pool, leases>>
  BY DEF Close
<1>2. PICK n \in Ahead \cup {0} :
        made' = made + n /\ stray' = stray \cup doomed \cup (made + 1)..(made + n)
  BY DEF Close
<1> DEFINE fresh == (made + 1)..(made + n)
<1>3. /\ \A x \in fresh : x \notin 1..made
      /\ 1..made' = 1..made \cup fresh
  BY <1>0, <1>2, Assumptions DEF Ahead
<1>4. Removed' \cup stray' = Removed \cup stray \cup fresh
  BY <1>2 DEF Close, Removed
<1> HIDE DEF fresh
<1>5. LeasesFit'
  BY <1>0, <1>1 DEF LeasesFit, HasLease, Holds
<1>6. ContextsKept'
  <2>1. \A g \in Generations : all[g] \subseteq 1..made
    BY <1>0 DEF ContextsKept
  <2>2. \A g \in Generations : all[g] \cap (Removed' \cup stray') = {}
    <3>1. \A g \in Generations : all[g] \cap (Removed \cup stray) = {}
      BY <1>0 DEF ContextsKept
    <3> QED
      BY <1>3, <1>4, <2>1, <3>1
  <2>3. \A x \in 1..made' : x \in Removed' \cup stray' \/ \E g \in Generations : x \in all[g]
    BY <1>0, <1>3, <1>4 DEF ContextsKept
  <2>4. \A g \in Generations : all[g] \subseteq 1..made'
    BY <1>3, <2>1
  <2> QED
    BY <1>0, <1>1, <2>2, <2>3, <2>4 DEF ContextsKept, Holds
<1>7. \A g : HoldersOf(g)' = HoldersOf(g)
  BY <1>1 DEF HoldersOf, HasLease
<1> QED
  BY <1>1, <1>5, <1>6, <1>7 DEF PoolsFit, IInv, Counted

\* close ends: every context of a generation is closed.
LEMMA PoolsClosed == IInv /\ Closed => PoolsFit'
<1> SUFFICES ASSUME IInv, Closed PROVE PoolsFit'
    OBVIOUS
<1>0. LeasesFit /\ ContextsKept
  BY DEF IInv
<1>1. /\ \A c \in Callers : ~Live(c)
      /\ \A g \in Generations : all'[g] = {} /\ pool'[g] = {}
      /\ \A x : x \in Removed' <=> x \in Removed \/ \E g \in Generations : x \in all[g]
      /\ UNCHANGED <<pc, lease, leases, made, stray>>
  BY ClosedEffect
<1>2. \A c \in Callers : ~Holds(c) /\ ~Holds(c)'
  BY <1>1 DEF Live, Rendering, Holds
<1>3. LeasesFit'
  BY <1>0, <1>1, <1>2 DEF LeasesFit, HasLease
<1>4. ContextsKept'
  BY <1>0, <1>1 DEF ContextsKept
<1>5. \A g : HoldersOf(g)' = HoldersOf(g)
  BY <1>1 DEF HoldersOf, HasLease
<1> QED
  BY <1>1, <1>3, <1>4, <1>5 DEF PoolsFit, IInv, Counted

\* A task that takes a context or opens one.
LEMMA PoolsAcquired ==
  ASSUME IInv, NEW c \in Callers, pc[c] \in {"queue", "again"}, Acquire(c)
  PROVE  PoolsFit'
<1>0. /\ LeasesFit /\ pc \in [Callers -> Places]
      /\ lease \in [Callers -> [gen : 0..MaxGenerations, ctx : Nat]]
  BY DEF IInv, TypeOK, Places
<1>1. UNCHANGED <<retiring, made, Removed, stray>>
  BY RemovedSame DEF Acquire
<1>2. CASE Take(c)
  BY <1>1, <1>2, PoolsTaken
<1>3. CASE OpenOne(c)
  <2>1. /\ pc' = [pc EXCEPT ![c] = "create"] /\ UNCHANGED <<pool, leases, all>>
        /\ lease' = [lease EXCEPT ![c] = [gen |-> active', ctx |-> 0]]
    BY <1>3 DEF OpenOne
  <2>2. active' = active \/ active = 0
    BY <1>3 DEF OpenOne
  <2>3. ~Holds(c) /\ ~HasLease(c)
    BY <1>0 DEF Holds, LeasesFit
  <2>4. \A d \in Callers : /\ Holds(d)' <=> Holds(d)
                           /\ lease'[d] = lease[d] \/ (~HasLease(d) /\ lease'[d].ctx = 0)
    BY <1>0, <2>1, <2>3 DEF Holds
  <2> QED
    BY <1>1, <2>1, <2>2, <2>4, PoolsQuiet
<1> QED
  BY <1>2, <1>3 DEF Acquire

\* Every step keeps PoolsFit.
LEMMA PoolsStep == IInv /\ [Next]_vars => PoolsFit'
<1> SUFFICES ASSUME IInv, [Next]_vars PROVE PoolsFit'
    OBVIOUS
<1>0. /\ LeasesFit /\ pc \in [Callers -> Places]
      /\ lease \in [Callers -> [gen : 0..MaxGenerations, ctx : Nat]]
  BY DEF IInv, TypeOK, Places
\* A task moves on with what it holds.
<1>a. ASSUME NEW c \in Callers, NEW p, pc' = [pc EXCEPT ![c] = p], lease' = lease,
             p \in {"render", "swap", "leave"} <=> Holds(c),
             UNCHANGED <<active, retiring, all, pool, leases, made, closed, doomed, stray>>
      PROVE  PoolsFit'
  <2>1. \A d \in Callers : Holds(d)' <=> Holds(d)
    BY <1>0, <1>a DEF Holds
  <2> QED
    BY <1>a, <2>1, PoolsQuiet, RemovedSame
<1>1. ASSUME NEW c \in Callers, Call(c) PROVE PoolsFit'
  <2>1. /\ \E p \in {"done", "join", "queue"} : pc' = [pc EXCEPT ![c] = p]
        /\ ~Holds(c) /\ lease' = lease
        /\ UNCHANGED <<active, retiring, all, pool, leases, made, closed, doomed, stray>>
    BY <1>1 DEF Call, CallJoining, poolVars, Holds
  <2> QED
    BY <2>1, <1>a
<1>2. ASSUME NEW c \in Callers, Joined(c) \/ Returned(c) \/ BeginOneOff(c) PROVE PoolsFit'
  <2>1. /\ \E p \in {"done", "oneoff"} : pc' = [pc EXCEPT ![c] = p]
        /\ ~Holds(c) /\ lease' = lease
        /\ UNCHANGED <<active, retiring, all, pool, leases, made, closed, doomed, stray>>
    BY <1>2 DEF Joined, Returned, BeginOneOff, poolVars, Holds
  <2> QED
    BY <2>1, <1>a
<1>3. ASSUME NEW c \in Callers, Begin(c) PROVE PoolsFit'
  <2>1. CASE Closing
    <3>1. /\ pc' = [pc EXCEPT ![c] = "ended"] /\ ~Holds(c) /\ lease' = lease
          /\ UNCHANGED <<active, retiring, all, pool, leases, made, closed, doomed, stray>>
      BY <1>3, <2>1 DEF Begin, poolVars, Holds
    <3> QED
      BY <3>1, <1>a
  <2>2. CASE ~Closing
    BY <1>3, <2>2, PoolsAcquired DEF Begin
  <2> QED
    BY <2>1, <2>2
<1>4. ASSUME NEW c \in Callers, Opened(c) PROVE PoolsFit'
  BY <1>4, PoolsOpened
<1>5. ASSUME NEW c \in Callers, EndUnopened(c) \/ EndPooled(c) \/ EndOneOff(c) PROVE PoolsFit'
  <2>1. /\ pc' = [pc EXCEPT ![c] = "ended"] /\ lease' = [lease EXCEPT ![c] = NoLease]
        /\ UNCHANGED <<active, retiring, all, pool, leases, made, closed, doomed, stray>>
        /\ ~Holds(c)
    BY <1>5 DEF EndUnopened, EndPooled, EndOneOff, End, EndAt, poolVars, Holds
  <2>2. ~HasLease(c)
    BY <1>0, <2>1 DEF LeasesFit
  <2>3. \A d \in Callers : /\ Holds(d)' <=> Holds(d)
                           /\ lease'[d] = lease[d] \/ (~HasLease(d) /\ lease'[d].ctx = 0)
    BY <1>0, <2>1, <2>2 DEF Holds, NoLease
  <2> QED
    BY <2>1, <2>3, PoolsQuiet, RemovedSame
<1>6. ASSUME NEW c \in Callers, Rendered(c) \/ TargetClosed(c) PROVE PoolsFit'
  <2>1. /\ \E p \in {"leave", "swap"} : pc' = [pc EXCEPT ![c] = p]
        /\ Holds(c) /\ lease' = lease
        /\ UNCHANGED <<active, retiring, all, pool, leases, made, closed, doomed, stray>>
    BY <1>6 DEF Rendered, TargetClosed, poolVars, Holds
  <2> QED
    BY <2>1, <1>a
<1>7. ASSUME NEW c \in Callers, Swapped(c) PROVE PoolsFit'
  <2>1. /\ pc[c] = "swap" /\ pc' = [pc EXCEPT ![c] = "leave"]
        /\ UNCHANGED <<lease, leases, stray>> /\ Install(c) /\ c \in Swappers
    BY <1>7 DEF Swapped, Swappers
  <2>2. \A d \in Callers : Holds(d)' <=> Holds(d)
    BY <1>0, <2>1 DEF Holds
  <2> QED
    BY <2>1, <2>2, PoolsInstalled
<1>8. ASSUME NEW c \in Callers, Release(c) PROVE PoolsFit'
  BY <1>8, PoolsReleased
<1>9. ASSUME NEW c \in Callers, Retry(c) PROVE PoolsFit'
  BY <1>9, PoolsAcquired DEF Retry
<1>10. ASSUME IdleCloses PROVE PoolsFit'
  <2>1. UNCHANGED <<pc, lease, active, retiring, all, pool, leases, made, stray>>
    BY <1>10 DEF IdleCloses
  <2>2. Removed' = Removed
    BY <1>10 DEF IdleCloses, Removed
  <2> QED
    BY <2>1, <2>2, PoolsQuiet DEF Holds
<1>11. ASSUME IdleRecycle PROVE PoolsFit'
  <2>1. UNCHANGED <<pc, lease, active, retiring, all, pool, leases, made, closed, doomed, stray>>
    BY <1>11 DEF IdleRecycle
  <2> QED
    BY <2>1, PoolsQuiet, RemovedSame DEF Holds
<1>12. ASSUME IdleRecycled PROVE PoolsFit'
  <2>1. UNCHANGED <<pc, lease, leases, stray>> /\ Install(IdleLoop) /\ IdleLoop \in Swappers
    BY <1>12 DEF IdleRecycled, Swappers
  <2> QED
    BY <2>1, PoolsInstalled DEF Holds
<1>13. ASSUME Close PROVE PoolsFit'
  BY <1>13, PoolsClosing
<1>14. ASSUME Drained PROVE PoolsFit'
  <2>1. UNCHANGED <<pc, lease, active, retiring, all, pool, leases, made, closed, doomed, stray>>
    BY <1>14 DEF Drained, poolVars
  <2> QED
    BY <2>1, PoolsQuiet, RemovedSame DEF Holds
<1>15. ASSUME Closed PROVE PoolsFit'
  BY <1>15, PoolsClosed
<1>16. CASE UNCHANGED vars
  <2>1. UNCHANGED <<pc, lease, active, retiring, all, pool, leases, made, closed, doomed, stray>>
    BY <1>16 DEF vars
  <2> QED
    BY <2>1, PoolsQuiet, RemovedSame DEF Holds
<1> QED
  BY <1>1, <1>2, <1>3, <1>4, <1>5, <1>6, <1>7, <1>8, <1>9, <1>10, <1>11, <1>12, <1>13, <1>14,
     <1>15, <1>16 DEF Next, Step, TaskStep

-----------------------------------------------------------------------------
\* Steps keep the counts

\* The tracker counts the tasks that render.
TrackedFit == tracked = Cardinality(AllRendering)

\* Every step keeps TrackedFit.
LEMMA TrackedStep == IInv /\ [Next]_vars => TrackedFit'
<1> SUFFICES ASSUME IInv, [Next]_vars PROVE TrackedFit'
    OBVIOUS
<1>0. /\ tracked = Cardinality(AllRendering) /\ pc \in [Callers -> Places] /\ tracked \in Nat
  BY DEF IInv, TypeOK, Places, Counted
\* A task moves on, rendering or not as before.
<1>a. ASSUME NEW c \in Callers, NEW p, pc' = [pc EXCEPT ![c] = p], tracked' = tracked,
             Rendering(c) <=> p \in {"create", "render", "swap", "leave", "again", "oneoff"}
      PROVE  TrackedFit'
  <2>1. AllRendering' = AllRendering
    BY <1>0, <1>a DEF AllRendering, Rendering
  <2> QED
    BY <1>0, <1>a, <2>1 DEF TrackedFit
<1>b. ASSUME pc' = pc, tracked' = tracked PROVE TrackedFit'
  <2>1. AllRendering' = AllRendering
    BY <1>b DEF AllRendering, Rendering
  <2> QED
    BY <1>0, <1>b, <2>1 DEF TrackedFit
<1>1. ASSUME NEW c \in Callers, Call(c) PROVE TrackedFit'
  <2>1. /\ \E p \in {"done", "join", "queue"} : pc' = [pc EXCEPT ![c] = p]
        /\ ~Rendering(c) /\ tracked' = tracked
    BY <1>1 DEF Call, CallJoining, Rendering
  <2> QED
    BY <2>1, <1>a
<1>2. ASSUME NEW c \in Callers, Joined(c) \/ Returned(c) PROVE TrackedFit'
  <2>1. pc' = [pc EXCEPT ![c] = "done"] /\ ~Rendering(c) /\ tracked' = tracked
    BY <1>2 DEF Joined, Returned, Rendering
  <2> QED
    BY <2>1, <1>a
<1>3. ASSUME NEW c \in Callers, Begin(c) \/ BeginOneOff(c) PROVE TrackedFit'
  <2>0. ~Rendering(c)
    BY <1>3 DEF Begin, BeginOneOff, Rendering
  <2>1. CASE Closing
    <3>1. pc' = [pc EXCEPT ![c] = "ended"] /\ tracked' = tracked
      BY <1>3, <2>1 DEF Begin, BeginOneOff
    <3> QED
      BY <2>0, <3>1, <1>a
  <2>2. CASE ~Closing
    <3>1. /\ tracked' = tracked + 1
          /\ \E p \in {"create", "render", "oneoff"} : pc' = [pc EXCEPT ![c] = p]
      BY <1>3, <2>2 DEF Begin, BeginOneOff, Acquire, Take, OpenOne
    <3>2. Cardinality(AllRendering') = Cardinality(AllRendering) + 1
      BY <2>0, <3>1, RenderingStarts
    <3> QED
      BY <1>0, <3>1, <3>2 DEF TrackedFit
  <2> QED
    BY <2>1, <2>2
<1>4. ASSUME NEW c \in Callers, Opened(c) \/ Rendered(c) \/ TargetClosed(c) \/ Swapped(c)
                                \/ Release(c) \/ Retry(c)
      PROVE  TrackedFit'
  <2>1. /\ \E p \in {"create", "render", "swap", "leave", "again"} : pc' = [pc EXCEPT ![c] = p]
        /\ Rendering(c) /\ tracked' = tracked
    BY <1>4 DEF Opened, OpenIn, Rendered, TargetClosed, Swapped, Release, ReleaseOf, Retry,
                Acquire, Take, OpenOne, Rendering, taskVars
  <2> QED
    BY <2>1, <1>a
<1>5. ASSUME NEW c \in Callers, EndUnopened(c) \/ EndPooled(c) \/ EndOneOff(c) PROVE TrackedFit'
  <2>1. pc' = [pc EXCEPT ![c] = "ended"] /\ Rendering(c) /\ tracked' = Less(tracked)
    BY <1>5 DEF EndUnopened, EndPooled, EndOneOff, End, EndAt, Rendering
  <2>2. Cardinality(AllRendering') = Cardinality(AllRendering) - 1 /\ Cardinality(AllRendering) > 0
    BY <2>1, RenderingEnds
  <2>3. Less(tracked) = tracked - 1
    BY <1>0, <2>2 DEF Less
  <2> QED
    BY <1>0, <2>1, <2>2, <2>3 DEF TrackedFit
<1>6. ASSUME \/ IdleRecycle \/ IdleRecycled \/ IdleCloses
             \/ Close \/ Drained \/ UNCHANGED vars
      PROVE  TrackedFit'
  <2>1. pc' = pc /\ tracked' = tracked
    BY <1>6 DEF IdleRecycle, IdleRecycled, IdleCloses, Close, Drained, vars, taskVars
  <2> QED
    BY <2>1, <1>b
<1>7. ASSUME Closed PROVE TrackedFit'
  <2>1. pc' = pc /\ tracked' = tracked
    BY <1>7 DEF Closed, ClosedAfter
  <2> QED
    BY <2>1, <1>b
<1> QED
  BY <1>1, <1>2, <1>3, <1>4, <1>5, <1>6, <1>7 DEF Next, Step, TaskStep

\* The contexts of a generation are finitely many.
LEMMA ContextSetsFinite ==
  ASSUME IInv, NEW g \in Generations
  PROVE  IsFiniteSet(all[g]) /\ Cardinality(all[g]) \in Nat
<1>1. all[g] \in SUBSET (1..made) /\ made \in Nat
  BY DEF IInv, ContextsKept, TypeOK
<1>2. IsFiniteSet(1..made)
  BY <1>1, FS_Interval
<1> QED
  BY <1>1, <1>2, FS_Subset, FS_CardinalityType

\* A generation whose pool is empty has a holder for each of its contexts.
LEMMA EmptyPoolIsLeased ==
  ASSUME IInv, NEW g \in Generations, pool[g] = {}
  PROVE  Cardinality(all[g]) <= Cardinality(HoldersOf(g))
<1> DEFINE f == [c \in HoldersOf(g) |-> lease[c].ctx]
<1>1. \A c \in HoldersOf(g) : lease[c].ctx \in all[g]
  BY DEF HoldersOf, IInv, LeasesFit
<1>2. \A x \in all[g] : \E c \in HoldersOf(g) : lease[c].ctx = x
  BY DEF HoldersOf, IInv, LeasesFit, ContextsKept
<1>3. f \in Surjection(HoldersOf(g), all[g])
  BY <1>1, <1>2 DEF Surjection
<1> HIDE DEF f
<1> QED
  BY <1>3, CallSetsFinite, FS_Surjection

\* Holders and tasks that open a context are different tasks.
LEMMA HoldersAndCreating ==
  ASSUME IInv, NEW g, NEW S \in SUBSET Callers, HoldersOf(g) \subseteq S, Creating \subseteq S
  PROVE  Cardinality(HoldersOf(g)) + Cardinality(Creating) <= Cardinality(S)
<1>1. HoldersOf(g) \cap Creating = {}
  BY DEF HoldersOf, Creating, IInv, LeasesFit, Holds
<1>2. IsFiniteSet(S)
  BY Assumptions, FS_Subset
<1>3. HoldersOf(g) \cup Creating \in SUBSET S
  OBVIOUS
<1>4. Cardinality(HoldersOf(g) \cup Creating) <= Cardinality(S)
  BY <1>2, <1>3, FS_Subset
<1>5. Cardinality(HoldersOf(g) \cup Creating) =
        Cardinality(HoldersOf(g)) + Cardinality(Creating) - Cardinality(HoldersOf(g) \cap Creating)
  BY CallSetsFinite, FS_Union
<1>6. Cardinality(HoldersOf(g) \cap Creating) = 0
  BY <1>1, FS_EmptySet
<1> QED
  BY <1>4, <1>5, <1>6, CallSetsFinite

\* When a task looks for a context and the pool is empty, the generation has fewer
\* contexts, those being opened included, than renders may be under way.
LEMMA AlmostFull ==
  ASSUME IInv, NEW c \in Callers, (pc[c] = "queue" /\ PermitFree) \/ pc[c] = "again",
         active # 0, pool[active] = {}
  PROVE  Cardinality(all[active]) + Cardinality(Creating) < MaxRender
<1>0. active \in Generations
  <2>1. active \in 0..MaxGenerations
    BY DEF IInv, TypeOK
  <2> QED
    BY <2>1, Assumptions DEF Generations
<1> DEFINE S == AllRendering \ {c}
<1>1. Cardinality(S) < MaxRender
  <2>1. CASE pc[c] = "queue" /\ PermitFree
    <3>1. S = AllRendering /\ Cardinality(AllRendering) < MaxRender
      BY <2>1 DEF AllRendering, PermitFree, Rendering
    <3> QED
      BY <3>1
  <2>2. CASE pc[c] = "again"
    <3>1. c \in AllRendering /\ Cardinality(AllRendering) <= MaxRender
      BY <2>2 DEF AllRendering, Rendering, IInv, Bounded
    <3>2. Cardinality(AllRendering \ {c}) = Cardinality(AllRendering) - 1
      BY <3>1, CallSetsFinite, FS_RemoveElement
    <3> QED
      BY <3>1, <3>2, CallSetsFinite, Assumptions
  <2> QED
    BY <2>1, <2>2
<1>2. HoldersOf(active) \subseteq S /\ Creating \subseteq S /\ S \in SUBSET Callers
  BY DEF HoldersOf, Creating, AllRendering, Rendering, IInv, LeasesFit, Holds
<1> HIDE DEF S
<1>3. Cardinality(HoldersOf(active)) + Cardinality(Creating) <= Cardinality(S)
  BY <1>2, HoldersAndCreating
<1>4. Cardinality(all[active]) <= Cardinality(HoldersOf(active))
  BY <1>0, EmptyPoolIsLeased
<1>5. Cardinality(S) \in Nat
  BY <1>2, Assumptions, FS_Subset, FS_CardinalityType
<1> QED
  BY <1>0, <1>1, <1>3, <1>4, <1>5, CallSetsFinite, ContextSetsFinite, Assumptions

\* No generation gets a context, and no task starts to open one.
LEMMA BoundedQuiet ==
  ASSUME IInv, Cardinality(AllRendering') <= MaxRender,
         \A g \in Generations : all'[g] \subseteq all[g],
         active' = active \/ active' = 0, Creating' \subseteq Creating
  PROVE  Bounded'
<1>1. \A g \in Generations : Cardinality(all'[g]) <= Cardinality(all[g])
                             /\ Cardinality(all'[g]) \in Nat
  <2> SUFFICES ASSUME NEW g \in Generations
               PROVE  Cardinality(all'[g]) <= Cardinality(all[g]) /\ Cardinality(all'[g]) \in Nat
    OBVIOUS
  <2>1. IsFiniteSet(all[g]) /\ all'[g] \in SUBSET all[g]
    BY ContextSetsFinite
  <2> QED
    BY <2>1, FS_Subset, FS_CardinalityType
<1>2. Cardinality(Creating') <= Cardinality(Creating) /\ Cardinality(Creating') \in Nat
  BY CallSetsFinite, FS_Subset, FS_CardinalityType
<1>3. active # 0 => active \in Generations
  <2>1. active \in 0..MaxGenerations
    BY DEF IInv, TypeOK
  <2> QED
    BY <2>1, Assumptions DEF Generations
<1>4. \A g \in Generations : Cardinality(all[g]) \in Nat /\ Cardinality(all[g]) <= Prewarm + MaxRender
  BY ContextSetsFinite DEF IInv, Bounded
<1>5. active # 0 => Cardinality(all[active]) + Cardinality(Creating) <= Prewarm + MaxRender
  BY DEF IInv, Bounded
<1>6. \A g \in Generations : Cardinality(all'[g]) <= Prewarm + MaxRender
  BY <1>1, <1>4, Assumptions
<1>7. active' # 0 => Cardinality(all'[active']) + Cardinality(Creating') <= Prewarm + MaxRender
  BY <1>1, <1>2, <1>3, <1>4, <1>5, CallSetsFinite, Assumptions
<1> QED
  BY <1>6, <1>7 DEF Bounded

\* A task takes a context, or opens one.
LEMMA BoundedAcquired ==
  ASSUME IInv, NEW c \in Callers, (pc[c] = "queue" /\ PermitFree) \/ pc[c] = "again",
         Acquire(c), active = 0 => gens < MaxGenerations
  PROVE  Bounded'
<1>0. /\ pc \in [Callers -> Places] /\ all \in [Generations -> SUBSET Nat]
      /\ Cardinality(AllRendering) <= MaxRender
  BY DEF IInv, TypeOK, Places, Bounded
<1>1. Cardinality(AllRendering') <= MaxRender
  <2>1. \E p \in {"create", "render", "oneoff"} : pc' = [pc EXCEPT ![c] = p]
    BY DEF Acquire, Take, OpenOne
  <2>2. CASE pc[c] = "queue" /\ PermitFree
    <3>1. ~Rendering(c) /\ Cardinality(AllRendering) < MaxRender
      BY <2>2 DEF Rendering, PermitFree, AllRendering
    <3>2. Cardinality(AllRendering') = Cardinality(AllRendering) + 1
      BY <2>1, <3>1, RenderingStarts
    <3> QED
      BY <3>1, <3>2, CallSetsFinite, Assumptions
  <2>3. CASE pc[c] = "again"
    <3>1. AllRendering' = AllRendering
      BY <1>0, <2>1, <2>3 DEF AllRendering, Rendering
    <3> QED
      BY <1>0, <3>1
  <2> QED
    BY <2>2, <2>3
<1>2. all' = all
  BY DEF Acquire, Take, OpenOne
<1>3. CASE Take(c)
  <2>1. active' = active /\ pc' = [pc EXCEPT ![c] = "render"]
    BY <1>3 DEF Take
  <2>2. Creating' \subseteq Creating
    BY <1>0, <2>1 DEF Creating
  <2> QED
    BY <1>1, <1>2, <2>1, <2>2, BoundedQuiet
<1>4. CASE OpenOne(c)
  <2>1. pc' = [pc EXCEPT ![c] = "create"]
    BY <1>4 DEF OpenOne
  <2>2. Creating' = Creating \cup {c} /\ c \notin Creating
    BY <1>0, <2>1 DEF Creating
  <2>3. Cardinality(Creating') = Cardinality(Creating) + 1
    BY <2>2, CallSetsFinite, FS_AddElement
  <2>4. \A g \in Generations : Cardinality(all'[g]) <= Prewarm + MaxRender
    BY <1>2 DEF IInv, Bounded
  <2>5. CASE active # 0
    <3>1. active' = active /\ pool[active] = {}
      BY <1>4, <2>5 DEF OpenOne, HasRoom
    <3>2. Cardinality(all[active]) + Cardinality(Creating) < MaxRender
      BY <2>5, <3>1, AlmostFull
    <3>3. active \in Generations
      <4>1. active \in 0..MaxGenerations
        BY DEF IInv, TypeOK
      <4> QED
        BY <2>5, <4>1, Assumptions DEF Generations
    <3>4. Cardinality(all'[active']) + Cardinality(Creating') <= Prewarm + MaxRender
      BY <1>2, <2>3, <3>1, <3>2, <3>3, CallSetsFinite, ContextSetsFinite, Assumptions
    <3> QED
      BY <1>1, <2>4, <3>4 DEF Bounded
  <2>6. CASE active = 0
    <3>1. active' = gens + 1
      BY <1>4, <2>6 DEF OpenOne
    <3>2. Creating = {}
      BY <2>6 DEF Creating, IInv, GenerationsKnown, Pooled
    <3>3. Cardinality(Creating') = 1
      BY <2>3, <3>2, FS_EmptySet
    <3>4. CASE active' \in Generations
      <4>1. active' # active /\ active' \notin retiring
        <5>1. gens \in Nat /\ retiring \subseteq 1..gens
          BY DEF IInv, TypeOK, GenerationsKnown
        <5> QED
          BY <2>6, <3>1, <5>1
      <4>2. all[active'] = {}
        BY <3>4, <4>1 DEF IInv, ContextsKept
      <4>3. Cardinality(all'[active']) = 0
        BY <1>2, <4>2, FS_EmptySet
      <4>4. Cardinality(all'[active']) + Cardinality(Creating') <= Prewarm + MaxRender
        BY <3>3, <4>3, Assumptions
      <4> QED
        BY <1>1, <2>4, <4>4 DEF Bounded
    <3>5. active' \in Generations
      <4>1. gens \in 0..MaxGenerations /\ gens < MaxGenerations
        BY <2>6 DEF IInv, TypeOK
      <4> QED
        BY <3>1, <4>1, Assumptions DEF Generations
    <3> QED
      BY <3>4, <3>5
  <2> QED
    BY <2>5, <2>6
<1> QED
  BY <1>3, <1>4 DEF Acquire

\* The context a task opened joins the active generation, which had room for it.
LEMMA BoundedOpened ==
  ASSUME IInv, NEW c \in Callers, Opened(c)
  PROVE  Bounded'
<1>0. /\ pc \in [Callers -> Places] /\ all \in [Generations -> SUBSET Nat]
      /\ Cardinality(AllRendering) <= MaxRender
  BY DEF IInv, TypeOK, Places, Bounded
<1>1. /\ active \in Generations /\ pc[c] = "create" /\ pc' = [pc EXCEPT ![c] = "render"]
      /\ made + 1 \notin all[active] /\ all' = [all EXCEPT ![active] = @ \cup {made + 1}]
      /\ active' = active
  BY OpenedEffect
<1>2. AllRendering' = AllRendering
  BY <1>0, <1>1 DEF AllRendering, Rendering
<1>3. Creating' = Creating \ {c} /\ c \in Creating
  BY <1>0, <1>1 DEF Creating
<1>4. Cardinality(Creating') = Cardinality(Creating) - 1 /\ Cardinality(Creating') \in Nat
  BY <1>3, CallSetsFinite, FS_RemoveElement, FS_CardinalityType
<1>5. all'[active] = all[active] \cup {made + 1}
  BY <1>0, <1>1
<1>6. Cardinality(all'[active]) = Cardinality(all[active]) + 1
  <2>1. IsFiniteSet(all[active])
    BY <1>1, ContextSetsFinite
  <2>2. Cardinality(all[active] \cup {made + 1}) = Cardinality(all[active]) + 1
    <3>1. made + 1 \notin all[active]
      BY <1>1
    <3> QED
      BY ONLY <2>1, <3>1, FS_AddElement
  <2> QED
    BY ONLY <2>2, <1>5
<1>7. Cardinality(all[active]) + Cardinality(Creating) <= Prewarm + MaxRender
  <2>1. active # 0
    BY <1>1, Assumptions DEF Generations
  <2> QED
    BY <2>1 DEF IInv, Bounded
<1>8. Cardinality(all'[active]) + Cardinality(Creating') <= Prewarm + MaxRender
  BY <1>1, <1>4, <1>6, <1>7, CallSetsFinite, ContextSetsFinite
<1>9. Cardinality(all'[active]) <= Prewarm + MaxRender
  BY <1>1, <1>4, <1>6, <1>8, ContextSetsFinite, Assumptions
<1>10. \A g \in Generations : Cardinality(all'[g]) <= Prewarm + MaxRender
  <2>1. \A g \in Generations : g # active => all'[g] = all[g]
    BY <1>0, <1>1
  <2> QED
    BY <1>9, <2>1 DEF IInv, Bounded
<1> QED
  BY <1>0, <1>1, <1>2, <1>8, <1>10 DEF Bounded

\* A new generation has the contexts opened ahead.
LEMMA BoundedInstalled ==
  ASSUME IInv, NEW s \in Swappers, Install(s), AllRendering' = AllRendering, Creating' = Creating
  PROVE  Bounded'
<1>0. /\ TypeOK /\ made \in Nat /\ Cardinality(AllRendering) <= MaxRender
      /\ \A g \in Generations : Cardinality(all[g]) <= Prewarm + MaxRender
  BY DEF IInv, TypeOK, Bounded
<1>1. built[s] # 0
  BY DEF Install, InstallKeeping
<1> DEFINE b == built[s]
           D == {g \in retiring \cup ({active} \ {0}) : leases[g] = 0}
<1>2. b \in Generations /\ b # active /\ b \notin retiring /\ all[b] = {}
  BY <1>1, BuiltIsNew
<1>3. PICK n \in Ahead :
        /\ active' = b
        /\ \A g \in Generations :
             all'[g] = IF g \in D THEN {} ELSE IF g = b THEN (made + 1)..(made + n) ELSE all[g]
  BY <1>0, <1>2, InstallEffect
<1>4. b \notin D
  BY <1>2
<1> HIDE DEF D, b
<1>5. all'[b] = (made + 1)..(made + n)
  BY <1>2, <1>3, <1>4 DEF b
<1>6. n \in Nat /\ n <= Prewarm
  BY Assumptions DEF Ahead
<1>7. Cardinality((made + 1)..(made + n)) = n
  <2>1. made + 1 \in Int /\ made + n \in Int
    BY <1>0, <1>6
  <2>2. Cardinality((made + 1)..(made + n)) =
          IF made + 1 > made + n THEN 0 ELSE (made + n) - (made + 1) + 1
    BY <2>1, FS_Interval
  <2> QED
    BY <1>0, <1>6, <2>2
<1>8. Cardinality(Creating) <= MaxRender
  <2>1. Creating \in SUBSET AllRendering
    BY DEF Creating, AllRendering, Rendering
  <2>2. Cardinality(Creating) <= Cardinality(AllRendering)
    BY <2>1, CallSetsFinite, FS_Subset
  <2> QED
    BY <1>0, <2>2, CallSetsFinite, Assumptions
<1>9. Cardinality(all'[active']) + Cardinality(Creating') <= Prewarm + MaxRender
  BY <1>3, <1>5, <1>6, <1>7, <1>8, CallSetsFinite, Assumptions
<1>10. \A g \in Generations : Cardinality(all'[g]) <= Prewarm + MaxRender
  <2> SUFFICES ASSUME NEW g \in Generations PROVE Cardinality(all'[g]) <= Prewarm + MaxRender
    OBVIOUS
  <2>1. CASE g \in D
    <3>1. Cardinality(all'[g]) = 0
      BY <1>3, <2>1, FS_EmptySet
    <3> QED
      BY <3>1, Assumptions
  <2>2. CASE g = b
    BY <1>5, <1>6, <1>7, <2>2, Assumptions
  <2>3. CASE g \notin D /\ g # b
    BY <1>0, <1>3, <2>3
  <2> QED
    BY <2>1, <2>2, <2>3
<1> QED
  BY <1>0, <1>9, <1>10 DEF Bounded

\* Every step keeps Bounded.
LEMMA BoundedStep == IInv /\ [Next]_vars => Bounded'
<1> SUFFICES ASSUME IInv, [Next]_vars PROVE Bounded'
    OBVIOUS
<1>0. /\ pc \in [Callers -> Places] /\ Cardinality(AllRendering) <= MaxRender
  BY DEF IInv, TypeOK, Places, Bounded
\* A task moves on, rendering or not as before, and opens no context.
<1>a. ASSUME NEW c \in Callers, NEW p, pc' = [pc EXCEPT ![c] = p], p # "create",
             Rendering(c) <=> p \in {"render", "swap", "leave", "again", "oneoff"}
      PROVE  AllRendering' = AllRendering /\ Creating' \subseteq Creating
  BY <1>0, <1>a DEF AllRendering, Rendering, Creating
<1>b. ASSUME NEW c \in Callers, NEW p, pc' = [pc EXCEPT ![c] = p], p # "create",
             Rendering(c) <=> p \in {"render", "swap", "leave", "again", "oneoff"},
             all' = all, active' = active
      PROVE  Bounded'
  BY <1>0, <1>a, <1>b, BoundedQuiet
<1>1. ASSUME NEW c \in Callers, Call(c) \/ Joined(c) \/ Returned(c) PROVE Bounded'
  <2>1. /\ \E p \in {"done", "join", "queue"} : pc' = [pc EXCEPT ![c] = p]
        /\ ~Rendering(c) /\ all' = all /\ active' = active
    BY <1>1 DEF Call, CallJoining, Joined, Returned, Rendering, poolVars
  <2> QED
    BY <2>1, <1>b
<1>2. ASSUME NEW c \in Callers, Begin(c) PROVE Bounded'
  <2>1. CASE Closing
    <3>1. pc' = [pc EXCEPT ![c] = "ended"] /\ ~Rendering(c) /\ all' = all /\ active' = active
      BY <1>2, <2>1 DEF Begin, Rendering, poolVars
    <3> QED
      BY <3>1, <1>b
  <2>2. CASE ~Closing
    <3>1. Acquire(c) /\ pc[c] = "queue" /\ PermitFree
      BY <1>2, <2>2 DEF Begin
    <3>2. active = 0 => gens < MaxGenerations
      BY <2>2 DEF IInv, GenerationsKnown, Closing
    <3> QED
      BY <3>1, <3>2, BoundedAcquired
  <2> QED
    BY <2>1, <2>2
<1>3. ASSUME NEW c \in Callers, BeginOneOff(c) PROVE Bounded'
  <2>1. /\ pc[c] = "queue" /\ PermitFree /\ pc' = [pc EXCEPT ![c] = "oneoff"]
        /\ all' = all /\ active' = active
    BY <1>3 DEF BeginOneOff, poolVars
  <2>2. ~Rendering(c) /\ Cardinality(AllRendering) < MaxRender
    BY <2>1 DEF Rendering, PermitFree, AllRendering
  <2>3. Cardinality(AllRendering') = Cardinality(AllRendering) + 1
    BY <2>1, <2>2, RenderingStarts
  <2>4. Cardinality(AllRendering') <= MaxRender
    BY <2>2, <2>3, CallSetsFinite, Assumptions
  <2>5. Creating' \subseteq Creating
    BY <1>0, <2>1 DEF Creating
  <2> QED
    BY <2>1, <2>4, <2>5, BoundedQuiet
<1>4. ASSUME NEW c \in Callers, Opened(c) PROVE Bounded'
  BY <1>4, BoundedOpened
<1>5. ASSUME NEW c \in Callers, EndUnopened(c) \/ EndPooled(c) \/ EndOneOff(c) PROVE Bounded'
  <2>1. /\ pc' = [pc EXCEPT ![c] = "ended"] /\ Rendering(c) /\ all' = all /\ active' = active
    BY <1>5 DEF EndUnopened, EndPooled, EndOneOff, End, EndAt, Rendering, poolVars
  <2>2. Cardinality(AllRendering') <= MaxRender
    <3>1. Cardinality(AllRendering') = Cardinality(AllRendering) - 1
      BY <2>1, RenderingEnds
    <3> QED
      BY <1>0, <3>1, CallSetsFinite, Assumptions
  <2>3. Creating' \subseteq Creating
    BY <1>0, <2>1 DEF Creating
  <2> QED
    BY <2>1, <2>2, <2>3, BoundedQuiet
<1>6. ASSUME NEW c \in Callers, Rendered(c) \/ TargetClosed(c) PROVE Bounded'
  <2>1. /\ \E p \in {"leave", "swap"} : pc' = [pc EXCEPT ![c] = p]
        /\ Rendering(c) /\ all' = all /\ active' = active
    BY <1>6 DEF Rendered, TargetClosed, Rendering, poolVars
  <2> QED
    BY <2>1, <1>b
<1>7. ASSUME NEW c \in Callers, Swapped(c) PROVE Bounded'
  <2>1. /\ pc[c] = "swap" /\ pc' = [pc EXCEPT ![c] = "leave"] /\ Install(c) /\ c \in Swappers
    BY <1>7 DEF Swapped, Swappers
  <2>2. AllRendering' = AllRendering /\ Creating' = Creating
    BY <1>0, <2>1 DEF AllRendering, Rendering, Creating
  <2> QED
    BY <2>1, <2>2, BoundedInstalled
<1>8. ASSUME NEW c \in Callers, Release(c) PROVE Bounded'
  <2>1. /\ pc' = [pc EXCEPT ![c] = "again"]
        /\ \A g \in Generations : all'[g] \subseteq all[g]
    BY <1>8, ReleaseEffect
  <2>2. Rendering(c) /\ active' = active
    BY <1>8 DEF Release, ReleaseOf, Rendering
  <2> QED
    BY <1>0, <1>a, <2>1, <2>2, BoundedQuiet
<1>9. ASSUME NEW c \in Callers, Retry(c) PROVE Bounded'
  <2>1. Acquire(c) /\ pc[c] = "again" /\ active # 0
    BY <1>9 DEF Retry, IInv, GenerationsKnown, Pooled
  <2> QED
    BY <2>1, BoundedAcquired
<1>10. ASSUME IdleRecycle \/ IdleCloses \/ Close \/ Drained \/ UNCHANGED vars
       PROVE  Bounded'
  <2>1. pc' = pc /\ all' = all /\ active' = active
    BY <1>10 DEF IdleRecycle, IdleCloses, Close, Drained, vars, poolVars
  <2>2. AllRendering' = AllRendering /\ Creating' = Creating
    BY <2>1 DEF AllRendering, Rendering, Creating
  <2> QED
    BY <1>0, <2>1, <2>2, BoundedQuiet
<1>11. ASSUME IdleRecycled PROVE Bounded'
  <2>1. Install(IdleLoop) /\ IdleLoop \in Swappers /\ pc' = pc
    BY <1>11 DEF IdleRecycled, Swappers
  <2>2. AllRendering' = AllRendering /\ Creating' = Creating
    BY <2>1 DEF AllRendering, Rendering, Creating
  <2> QED
    BY <2>1, <2>2, BoundedInstalled
<1>12. ASSUME Closed PROVE Bounded'
  <2>1. active' = 0 /\ \A g \in Generations : all'[g] \subseteq all[g]
    BY <1>12, ClosedEffect
  <2>2. pc' = pc
    BY <1>12 DEF Closed, ClosedAfter
  <2>3. AllRendering' = AllRendering /\ Creating' = Creating
    BY <2>2 DEF AllRendering, Rendering, Creating
  <2> QED
    BY <1>0, <2>1, <2>3, BoundedQuiet
<1> QED
  BY <1>1, <1>2, <1>3, <1>4, <1>5, <1>6, <1>7, <1>8, <1>9, <1>10, <1>11, <1>12
     DEF Next, Step, TaskStep

-----------------------------------------------------------------------------
\* The theorems

\* The inductive invariant holds in every state the engine reaches: the seven parts
\* together, as each step that keeps one of them needs others.
THEOREM IInvHolds == Spec => []IInv
<1>1. IInv /\ [Next]_vars => IInv'
  BY TypeStep, TasksStep, GenerationsStep, PoolsStep, TrackedStep, BoundedStep
     DEF IInv, PoolsFit, TrackedFit, Counted
<1> QED
  BY InitIInv, <1>1, PTL DEF Spec

\* The types, among them that no counter falls below zero, so that the max(0, ...) of
\* the engine never hides a release too many.
THEOREM TypesHold == Spec => []TypeOK
<1>1. IInv => TypeOK
  BY DEF IInv
<1> QED
  BY <1>1, IInvHolds, PTL

\* active_leases is the number of renders that hold a context of the generation, and
\* a generation with leases is active or retiring.
THEOREM LeasesHold == Spec => []LeasesAreCounted
<1>1. IInv => LeasesAreCounted
  <2> SUFFICES ASSUME IInv, NEW g \in Generations
               PROVE  /\ leases[g] = Cardinality(HoldersOf(g))
                      /\ leases[g] > 0 => g = active \/ g \in retiring
    BY DEF LeasesAreCounted
  <2>1. leases[g] = Cardinality(HoldersOf(g))
    BY DEF IInv, Counted
  <2>2. ASSUME leases[g] > 0 PROVE g = active \/ g \in retiring
    <3>1. HoldersOf(g) # {}
      BY <2>1, <2>2, FS_EmptySet
    <3>2. PICK c \in Callers : lease[c].gen = g /\ HasLease(c)
      BY <3>1 DEF HoldersOf
    <3>3. Holds(c)
      BY <3>2 DEF IInv, LeasesFit
    <3> QED
      BY <3>2, <3>3, HeldIsLeased
  <2> QED
    BY <2>1, <2>2
<1> QED
  BY <1>1, IInvHolds, PTL

\* A render whose turn it is never comes to the blocking get of _acquire_context: as
\* no more renders are under way than a pool has places, an empty pool has room.
THEOREM NobodyWaits == Spec => []NobodyStarves
<1>1. IInv => NobodyStarves
  <2> SUFFICES ASSUME IInv, NEW c \in Callers, MayAcquire(c), active # 0, pool[active] = {}
               PROVE  HasRoom(active)
    BY DEF NobodyStarves
  <2>1. (pc[c] = "queue" /\ PermitFree) \/ pc[c] = "again"
    BY DEF MayAcquire
  <2>2. Cardinality(all[active]) + Cardinality(Creating) < MaxRender
    BY <2>1, AlmostFull
  <2>3. active \in Generations
    <3>1. active \in 0..MaxGenerations
      BY DEF IInv, TypeOK
    <3> QED
      BY <3>1, Assumptions DEF Generations
  <2>4. Cardinality(all[active]) < PoolSize
    BY <2>2, <2>3, CallSetsFinite, ContextSetsFinite, Assumptions
  <2> QED
    BY <2>4 DEF HasRoom
<1> QED
  BY <1>1, IInvHolds, PTL

\* No generation ever has more contexts than are opened ahead and renders are under way.
THEOREM PoolsStayBounded == Spec => []PoolBounded
<1>1. IInv => PoolBounded
  BY DEF IInv, Bounded, PoolBounded
<1> QED
  BY <1>1, IInvHolds, PTL

\* However calls for the same page come, one task at a time renders it.
THEOREM OneTaskRenders == Spec => []OneTaskPerKey
<1>1. IInv => OneTaskPerKey
  BY DEF IInv, TasksKnown, OneTaskPerKey
<1> QED
  BY <1>1, IInvHolds, PTL

\* After close no render is left, no context is leased, and none is open but those the
\* cancelled idle loop leaves to the shutdown of the browser: wherever close finds it,
\* building a generation or closing the contexts of retired ones.
THEOREM CloseLeavesNothing == Spec => []ClosedIsEmpty
<1>1. IInv => ClosedIsEmpty
  <2> SUFFICES ASSUME IInv, closer = "closed"
               PROVE  /\ \A c \in Callers : ~Live(c) /\ ~HasLease(c)
                      /\ closed \cup stray = 1..made /\ tracked = 0
    BY DEF ClosedIsEmpty
  <2>1. \A c \in Callers : ~Live(c)
    BY DEF IInv, TasksKnown
  <2>2. \A c \in Callers : ~HasLease(c)
    BY <2>1 DEF IInv, LeasesFit, Live, Rendering, Holds
  <2>3. closed \cup stray = 1..made
    <3>1. active = 0 /\ retiring = {}
      BY DEF IInv, GenerationsKnown
    <3>2. \A g \in Generations : all[g] = {}
      BY <3>1, Assumptions DEF IInv, ContextsKept, Generations
    <3>3. Removed = closed
      BY DEF IInv, GenerationsKnown, Removed
    <3>4. \A x \in 1..made : x \in closed \/ x \in stray
      BY <3>2, <3>3 DEF IInv, ContextsKept
    <3> QED
      BY <3>4 DEF IInv, TypeOK
  <2>4. AllRendering = {}
    BY <2>1 DEF AllRendering, Live
  <2>5. tracked = 0
    BY <2>4, FS_EmptySet DEF IInv, Counted
  <2> QED
    BY <2>1, <2>2, <2>3, <2>5
<1> QED
  BY <1>1, IInvHolds, PTL

-----------------------------------------------------------------------------
\* The refinement

\* The context of each render, as LeasePool sees it.
leased == [c \in Callers |-> lease[c].ctx]

\* Contexts are opened and closed for good.
LEMMA Lasting == IInv /\ Next => made' >= made /\ closed \subseteq closed'
<1> SUFFICES ASSUME IInv, Next PROVE made' >= made /\ closed \subseteq closed'
    OBVIOUS
<1>0. made \in Nat
  BY DEF IInv, TypeOK
<1>a. CASE made' = made /\ closed' = closed
  BY <1>0, <1>a
<1>b. ASSUME NEW s \in Swappers, Install(s) PROVE made' >= made /\ closed \subseteq closed'
  <2>1. TypeOK /\ all[built[s]] = {}
    BY <1>b, BuiltIsNew DEF IInv, Install, InstallKeeping
  <2>2. closed \subseteq closed'
    BY <1>b, <2>1, InstallEffect
  <2>3. made' >= made
    BY <1>b, InstallTypes
  <2> QED
    BY <2>2, <2>3
<1>1. CASE \E c \in Callers : Opened(c)
  BY <1>0, <1>1, OpenedEffect
<1>2. CASE \E c \in Callers : Swapped(c)
  BY <1>2, <1>b DEF Swapped, Swappers
<1>3. CASE \E c \in Callers : Release(c)
  <2>1. made' = made
    BY <1>3 DEF Release, ReleaseOf
  <2>2. closed \subseteq closed'
    BY <1>3, ReleaseEffect
  <2> QED
    BY <1>0, <2>1, <2>2
<1>4. CASE IdleRecycled
  BY <1>4, <1>b DEF IdleRecycled, Swappers
<1>5. CASE Close
  <2>1. PICK n \in Ahead \cup {0} : made' = made + n
    BY <1>5 DEF Close
  <2>2. n \in Nat
    BY Assumptions DEF Ahead
  <2> QED
    BY <1>0, <1>5, <2>1, <2>2 DEF Close
<1>6. CASE Closed
  BY <1>0, <1>6, ClosedEffect
<1>7. CASE \E c \in Callers : \/ Call(c) \/ Joined(c) \/ Returned(c) \/ Begin(c) \/ BeginOneOff(c)
                              \/ EndUnopened(c) \/ Rendered(c) \/ TargetClosed(c) \/ Retry(c)
                              \/ EndPooled(c) \/ EndOneOff(c)
  <2>1. made' = made /\ closed' = closed
    BY <1>7 DEF Call, CallJoining, Joined, Returned, Begin, BeginOneOff, EndUnopened, Rendered,
                TargetClosed, Retry, EndPooled, EndOneOff, End, EndAt, Acquire, poolVars
  <2> QED
    BY <2>1, <1>a
<1>8. CASE IdleRecycle \/ Drained
  <2>1. made' = made /\ closed' = closed
    BY <1>8 DEF IdleRecycle, Drained, poolVars
  <2> QED
    BY <2>1, <1>a
<1>9. CASE IdleCloses
  BY <1>0, <1>9 DEF IdleCloses
<1> QED
  BY <1>1, <1>2, <1>3, <1>4, <1>5, <1>6, <1>7, <1>8, <1>9 DEF Next, Step, TaskStep

\* No render leases a closed context after a step.
LEMMA TurnoverStep ==
  ASSUME IInv, IInv', made' >= made, closed \subseteq closed'
  PROVE  /\ made' >= made /\ closed \subseteq closed' /\ closed' \subseteq 1..made'
         /\ \A c \in Callers : leased'[c] \notin closed'
<1>1. closed' \subseteq 1..made' /\ made' \in Nat
  BY DEF IInv, TypeOK
<1>2. 0 \notin closed'
  BY <1>1
<1>3. ASSUME NEW c \in Callers PROVE lease'[c].ctx \notin closed'
  <2>1. CASE lease'[c].ctx = 0
    BY <1>2, <2>1
  <2>2. CASE lease'[c].ctx # 0
    <3>1. HasLease(c)'
      BY <2>2 DEF HasLease
    <3>2. lease'[c].gen \in Generations /\ lease'[c].ctx \in all'[lease'[c].gen]
      BY <3>1 DEF IInv, LeasesFit
    <3> QED
      BY <3>2 DEF IInv, ContextsKept, Removed
  <2> QED
    BY <2>1, <2>2
<1> QED
  BY <1>1, <1>3 DEF leased

\* A task that takes a context leases one nobody has.
LEMMA TakenIsFree ==
  ASSUME IInv, IInv', NEW c \in Callers, pc[c] \in {"queue", "again"}, Acquire(c),
         made' >= made, closed \subseteq closed'
  PROVE  Leases!Next
<1>0. /\ LeasesFit /\ ContextsKept /\ pc \in [Callers -> Places]
      /\ lease \in [Callers -> [gen : 0..MaxGenerations, ctx : Nat]]
  BY DEF IInv, TypeOK, Places
<1>1. Leases!Turnover
  BY TurnoverStep DEF Leases!Turnover, leased
<1>2. lease[c].ctx = 0
  BY <1>0 DEF LeasesFit, HasLease, Holds
<1>3. CASE Take(c)
  <2>1. active \in Generations
    BY <1>3, TakeEffect
  <2>2. PICK x \in pool[active] :
          x \in all[active] /\ x # 0 /\ lease' = [lease EXCEPT ![c] = [gen |-> active, ctx |-> x]]
    BY <1>3, TakeEffect
  <2>3. made' = made /\ x \in (1..made) \ closed
    BY <1>0, <2>1, <2>2 DEF ContextsKept, Acquire, Removed
  <2>4. \A d \in Callers : leased[d] # x
    <3> SUFFICES ASSUME NEW d \in Callers, lease[d].ctx = x PROVE FALSE
      BY DEF leased
    <3>1. Holds(d)
      BY <1>0, <2>2 DEF LeasesFit, HasLease
    <3> QED
      BY <1>0, <2>1, <2>2, <3>1 DEF LeasesFit, ContextsKept
  <2>5. leased' = [leased EXCEPT ![c] = x]
    BY <1>0, <2>2 DEF leased
  <2> QED
    BY <1>1, <1>2, <2>3, <2>4, <2>5 DEF Leases!Next, Leases!Lease, leased
<1>4. CASE OpenOne(c)
  <2>1. lease' = [lease EXCEPT ![c] = [gen |-> active', ctx |-> 0]]
    BY <1>4 DEF OpenOne
  <2>2. leased' = leased
    BY <1>0, <1>2, <2>1 DEF leased
  <2> QED
    BY <1>1, <2>2 DEF Leases!Next, Leases!Serve, leased
<1> QED
  BY <1>3, <1>4 DEF Acquire

\* A step of the engine is a step of LeasePool, or one it does not see.
LEMMA LeasePoolStep == IInv /\ IInv' /\ [Next]_vars => [Leases!Next]_(Leases!vars)
<1> SUFFICES ASSUME IInv, IInv', [Next]_vars PROVE [Leases!Next]_(Leases!vars)
    OBVIOUS
<1>1. CASE UNCHANGED vars
  BY <1>1 DEF vars, Leases!vars
<1>2. CASE Next
  <2>0. /\ LeasesFit /\ ContextsKept /\ pc \in [Callers -> Places]
        /\ lease \in [Callers -> [gen : 0..MaxGenerations, ctx : Nat]]
        /\ made' >= made /\ closed \subseteq closed'
    BY <1>2, Lasting DEF IInv, TypeOK, Places
  <2>1. Leases!Turnover
    BY <2>0, TurnoverStep DEF Leases!Turnover, leased
  <2>a. ASSUME leased' = leased PROVE Leases!Next
    BY <2>1, <2>a DEF Leases!Next, Leases!Serve, leased
  <2>b. ASSUME lease' = lease PROVE Leases!Next
    BY <2>a, <2>b DEF leased
  <2>2. ASSUME NEW c \in Callers, Opened(c) PROVE Leases!Next
    <3>1. /\ ~HasLease(c) /\ made' = made + 1 /\ closed' = closed
          /\ lease' = [lease EXCEPT ![c] = [gen |-> active, ctx |-> made + 1]]
      BY <2>2, OpenedEffect
    <3>2. made \in Nat /\ closed \subseteq 1..made /\ made + 1 \in (1..made') \ closed
      BY <3>1 DEF IInv, TypeOK
    <3>3. \A d \in Callers : leased[d] # made + 1
      <4> SUFFICES ASSUME NEW d \in Callers, lease[d].ctx = made + 1 PROVE FALSE
        BY DEF leased
      <4>1. Holds(d)
        BY <2>0, <3>2 DEF LeasesFit, HasLease
      <4>2. lease[d].ctx \in 1..made
        BY <2>0, <4>1 DEF LeasesFit, ContextsKept
      <4> QED
        BY <3>2, <4>2
    <3>4. leased' = [leased EXCEPT ![c] = made + 1]
      BY <2>0, <3>1 DEF leased
    <3>5. leased[c] = 0
      BY <3>1 DEF leased, HasLease
    <3> QED
      BY <2>1, <3>1, <3>2, <3>3, <3>4, <3>5 DEF Leases!Next, Leases!Lease, leased
  <2>3. ASSUME NEW c \in Callers, Release(c) PROVE Leases!Next
    <3>1. Holds(c) /\ lease' = [lease EXCEPT ![c] = NoLease]
      BY <2>3, ReleaseEffect
    <3>2. leased[c] # 0
      BY <2>0, <3>1 DEF leased, LeasesFit, HasLease
    <3>3. leased' = [leased EXCEPT ![c] = 0]
      BY <2>0, <3>1 DEF leased, NoLease
    <3> QED
      BY <2>1, <3>2, <3>3 DEF Leases!Next, Leases!GiveBack, leased
  <2>4. ASSUME NEW c \in Callers, Begin(c) PROVE Leases!Next
    <3>1. CASE Closing
      BY <2>4, <2>b, <3>1 DEF Begin
    <3>2. CASE ~Closing
      BY <2>0, <2>4, <3>2, TakenIsFree DEF Begin
    <3> QED
      BY <3>1, <3>2
  <2>5. ASSUME NEW c \in Callers, Retry(c) PROVE Leases!Next
    BY <2>0, <2>5, TakenIsFree DEF Retry
  <2>6. ASSUME NEW c \in Callers, EndUnopened(c) \/ EndPooled(c) \/ EndOneOff(c)
        PROVE  Leases!Next
    <3>1. lease' = [lease EXCEPT ![c] = NoLease] /\ ~Holds(c)
      BY <2>6 DEF EndUnopened, EndPooled, EndOneOff, End, EndAt, Holds
    <3>2. lease[c].ctx = 0
      BY <2>0, <3>1 DEF LeasesFit, HasLease
    <3>3. leased' = leased
      BY <2>0, <3>1, <3>2 DEF leased, NoLease
    <3> QED
      BY <2>a, <3>3
  <2>7. ASSUME NEW c \in Callers, \/ Call(c) \/ Joined(c) \/ Returned(c) \/ BeginOneOff(c)
                                  \/ Rendered(c) \/ TargetClosed(c) \/ Swapped(c)
        PROVE  Leases!Next
    <3>1. lease' = lease
      BY <2>7 DEF Call, CallJoining, Joined, Returned, BeginOneOff, Rendered, TargetClosed, Swapped
    <3> QED
      BY <2>b, <3>1
  <2>8. ASSUME \/ IdleRecycle \/ IdleRecycled \/ IdleCloses
               \/ Close \/ Drained \/ Closed
        PROVE  Leases!Next
    <3>1. lease' = lease
      BY <2>8 DEF IdleRecycle, IdleRecycled, IdleCloses, Close, Drained, Closed, ClosedAfter
    <3> QED
      BY <2>b, <3>1
  <2> QED
    BY <1>2, <2>2, <2>3, <2>4, <2>5, <2>6, <2>7, <2>8 DEF Next, Step, TaskStep
<1> QED
  BY <1>1, <1>2

\* The engine implements LeasePool: a context is leased to one render at a time,
\* closed once, and never while a render leases it.
THEOREM EngineImplementsLeasePool == Spec => ImplementsLeasePool
<1>1. Init => Leases!Init
  BY DEF Init, Leases!Init, NoLease
<1>2. IInv /\ IInv' /\ [Next]_vars => [Leases!Next]_(Leases!vars)
  BY LeasePoolStep
<1> QED
  BY <1>1, <1>2, IInvHolds, PTL DEF Spec, ImplementsLeasePool, Leases!Spec
=============================================================================
