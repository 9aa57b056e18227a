--------------------------- MODULE QuotaProofs ---------------------------
(***************************************************************************)
(* That the quota is never oversubscribed.                                 *)
(*                                                                         *)
(* Reserved and HoldingFitsQuota add up over a set with MapThenSumSet.  The*)
(* first part shows what such a sum is, by minimal counterexample among the*)
(* subsets of a finite set, and that it does not depend on the order of    *)
(* the elements.  Then: a line of jobs has a head; every copy of the Used  *)
(* list stays within the quota; hence the jobs past admission do.          *)
(***************************************************************************)
EXTENDS AdmissionProofs, FiniteSetTheorems, WellFoundedInduction

-----------------------------------------------------------------------------
(* Sums over finite sets *)

Pick(s) == CHOOSE x \in s : TRUE

\* g gives, for every subset of U, the sum of f over it.
SumsUp(g, f, U) ==
  g = [s \in SUBSET U |-> IF s = {} THEN 0 ELSE f[Pick(s)] + g[s \ {Pick(s)}]]

LEMMA PickIn == \A s : s # {} => Pick(s) \in s
BY DEF Pick

\* Among sets of subsets of a finite set there are smallest ones.
LEMMA SmallestSubset ==
  ASSUME NEW U, IsFiniteSet(U), NEW T, T \subseteq SUBSET U, T # {}
  PROVE  \E s \in T : \A t \in T : t \subseteq s => t = s
<1>1. IsWellFoundedOn(StrictSubsetOrdering(U), FiniteSubsetsOf(U))
  BY FS_StrictSubsetOrderingWellFounded
<1>2. FiniteSubsetsOf(U) = SUBSET U
  BY FS_FiniteSubsetsOfFinite
<1>3. PICK s \in T : \A t \in T : ~(<<t, s>> \in StrictSubsetOrdering(U))
  BY <1>1, <1>2, WFMin
<1>4. ASSUME NEW t \in T, t \subseteq s, t # s PROVE FALSE
  <2>1. <<t, s>> \in StrictSubsetOrdering(U)
    BY <1>4 DEF StrictSubsetOrdering
  <2> QED
    BY <1>3, <2>1
<1> QED
  BY <1>3, <1>4

\* The recursion, as far as s is concerned.
LEMMA SumValue ==
  ASSUME NEW U, NEW f, NEW g, SumsUp(g, f, U), NEW s \in SUBSET U
  PROVE  g[s] = IF s = {} THEN 0 ELSE f[Pick(s)] + g[s \ {Pick(s)}]
BY DEF SumsUp

\* Two such functions agree wherever both are defined.
LEMMA SumUnique ==
  ASSUME NEW U, IsFiniteSet(U), NEW f, NEW V, NEW W, V \subseteq U, W \subseteq U,
         NEW g, SumsUp(g, f, V), NEW h, SumsUp(h, f, W)
  PROVE  \A s \in SUBSET (V \cap W) : g[s] = h[s]
<1> DEFINE T == {s \in SUBSET (V \cap W) : g[s] # h[s]}
<1> SUFFICES ASSUME T # {} PROVE FALSE
  OBVIOUS
<1>1. PICK s \in T : \A t \in T : t \subseteq s => t = s
  <2>1. T \subseteq SUBSET U
    OBVIOUS
  <2> HIDE DEF T
  <2> QED
    BY <2>1, SmallestSubset
<1>2. s \in SUBSET V /\ s \in SUBSET W /\ g[s] # h[s]
  OBVIOUS
<1>3. s # {}
  BY <1>2, SumValue
<1>4. Pick(s) \in s
  BY <1>3, PickIn
<1>5. g[s \ {Pick(s)}] = h[s \ {Pick(s)}]
  BY <1>1, <1>4
<1> QED
  BY <1>2, <1>3, <1>5, SumValue

\* Over a finite set the recursion defines a function.
LEMMA SumExists ==
  ASSUME NEW U, IsFiniteSet(U), NEW f
  PROVE  \E g : SumsUp(g, f, U)
<1> DEFINE T == {s \in SUBSET U : ~ \E g : SumsUp(g, f, s)}
<1> SUFFICES ASSUME T # {} PROVE FALSE
  OBVIOUS
<1>1. PICK u \in T : \A t \in T : t \subseteq u => t = u
  <2>1. T \subseteq SUBSET U
    OBVIOUS
  <2> HIDE DEF T
  <2> QED
    BY <2>1, SmallestSubset
<1>2. u \subseteq U /\ ~ \E g : SumsUp(g, f, u)
  OBVIOUS
<1>3. \A t \in SUBSET u : t # u => \E g : SumsUp(g, f, t)
  BY <1>1
<1> HIDE DEF T
<1> DEFINE sum(t) == CHOOSE g : SumsUp(g, f, t)
           rest(t) == t \ {Pick(t)}
           k == [t \in SUBSET u |-> IF t = {} THEN 0
                                    ELSE f[Pick(t)] + sum(rest(t))[rest(t)]]
<1>4. \A t \in SUBSET u : t # u => SumsUp(sum(t), f, t)
  BY <1>3
<1> HIDE DEF sum
<1>5. ASSUME NEW t \in SUBSET u, t # {}
      PROVE  k[rest(t)] = sum(rest(t))[rest(t)]
  <2>1. rest(t) \in SUBSET u /\ rest(t) # u
    BY <1>5, PickIn
  <2>2. SumsUp(sum(rest(t)), f, rest(t))
    BY <1>4, <2>1
  <2>3. CASE rest(t) = {}
    BY <2>1, <2>2, <2>3, SumValue
  <2>4. CASE rest(t) # {}
    <3> DEFINE v == rest(t)
    <3>1. v \in SUBSET u /\ v # u /\ v # {} /\ SumsUp(sum(v), f, v)
      BY <2>1, <2>2, <2>4
    <3> HIDE DEF v
    <3>2. rest(v) \in SUBSET v /\ rest(v) # u /\ rest(v) \in SUBSET u
      BY <3>1, PickIn
    <3>3. SumsUp(sum(rest(v)), f, rest(v))
      BY <1>4, <3>2
    <3>4. v \subseteq U /\ rest(v) \subseteq U
      BY <1>2, <3>1, <3>2
    <3>5. sum(rest(v))[rest(v)] = sum(v)[rest(v)]
      <4>1. rest(v) \in SUBSET (rest(v) \cap v)
        BY <3>2
      <4> HIDE DEF rest
      <4> QED
        BY <3>1, <3>3, <3>4, <4>1, SumUnique
    <3>6. k[v] = f[Pick(v)] + sum(rest(v))[rest(v)]
      BY <3>1
    <3>7. sum(v)[v] = f[Pick(v)] + sum(v)[rest(v)]
      BY <3>1, SumValue
    <3>8. k[v] = sum(v)[v]
      BY <3>5, <3>6, <3>7
    <3> QED
      BY <3>8 DEF v
  <2> QED
    BY <2>3, <2>4
<1>6. SumsUp(k, f, u)
  <2>1. \A t \in SUBSET u : k[t] = IF t = {} THEN 0 ELSE f[Pick(t)] + k[t \ {Pick(t)}]
    BY <1>5
  <2> QED
    BY <2>1 DEF SumsUp
<1> QED
  BY <1>2, <1>6

\* A sum of naturals is one.
LEMMA SumType ==
  ASSUME NEW U, IsFiniteSet(U), NEW f \in [U -> Nat], NEW g, SumsUp(g, f, U)
  PROVE  g \in [SUBSET U -> Nat]
<1> DEFINE T == {s \in SUBSET U : g[s] \notin Nat}
<1>1. T = {}
  <2> SUFFICES ASSUME T # {} PROVE FALSE
    OBVIOUS
  <2>1. PICK s \in T : \A t \in T : t \subseteq s => t = s
    <3>1. T \subseteq SUBSET U
      OBVIOUS
    <3> HIDE DEF T
    <3> QED
      BY <3>1, SmallestSubset
  <2>2. s \in SUBSET U /\ g[s] \notin Nat
    OBVIOUS
  <2>3. s # {}
    BY <2>2, SumValue
  <2>4. Pick(s) \in s
    BY <2>3, PickIn
  <2>5. g[s \ {Pick(s)}] \in Nat
    BY <2>1, <2>4
  <2>6. f[Pick(s)] \in Nat
    BY <2>2, <2>4
  <2>7. g[s] = f[Pick(s)] + g[s \ {Pick(s)}]
    <3> HIDE DEF T
    <3> QED
      BY <2>2, <2>3, SumValue
  <2> QED
    BY <2>2, <2>5, <2>6, <2>7
<1>2. \A s \in SUBSET U : g[s] \in Nat
  BY <1>1
<1> QED
  BY <1>2 DEF SumsUp

\* Any element may be taken first.
LEMMA SumAny ==
  ASSUME NEW U, IsFiniteSet(U), NEW f \in [U -> Nat], NEW g, SumsUp(g, f, U),
         NEW r \in SUBSET U, NEW z \in r
  PROVE  g[r] = f[z] + g[r \ {z}]
<1> DEFINE T == {s \in SUBSET U : \E x \in s : g[s] # f[x] + g[s \ {x}]}
<1> SUFFICES ASSUME T # {} PROVE FALSE
  OBVIOUS
<1>1. PICK s \in T : \A t \in T : t \subseteq s => t = s
  <2>1. T \subseteq SUBSET U
    OBVIOUS
  <2> HIDE DEF T
  <2> QED
    BY <2>1, SmallestSubset
<1>2. PICK x \in s : s \in SUBSET U /\ g[s] # f[x] + g[s \ {x}]
  OBVIOUS
<1> DEFINE y == Pick(s)
<1>3. y \in s /\ g[s] = f[y] + g[s \ {y}]
  BY <1>2, PickIn, SumValue
<1>4. x # y
  BY <1>2, <1>3
<1>5. g[s \ {y}] = f[x] + g[(s \ {y}) \ {x}]
  <2>1. s \ {y} \in SUBSET U /\ s \ {y} \notin T /\ x \in s \ {y}
    BY <1>1, <1>2, <1>3, <1>4
  <2> QED
    BY <2>1
<1>6. g[s \ {x}] = f[y] + g[(s \ {x}) \ {y}]
  <2>1. s \ {x} \in SUBSET U /\ s \ {x} \notin T /\ y \in s \ {x}
    BY <1>1, <1>2, <1>3, <1>4
  <2> QED
    BY <2>1
<1>7. (s \ {x}) \ {y} = (s \ {y}) \ {x}
  OBVIOUS
<1>8. f[x] \in Nat /\ f[y] \in Nat /\ g[(s \ {y}) \ {x}] \in Nat
  <2>1. g \in [SUBSET U -> Nat]
    BY SumType
  <2>2. x \in U /\ y \in U /\ (s \ {y}) \ {x} \in SUBSET U
    BY <1>2, <1>3
  <2> HIDE DEF y
  <2> QED
    BY <2>1, <2>2
<1> DEFINE rest == g[(s \ {y}) \ {x}]
<1>9. /\ g[s] = f[y] + (f[x] + rest)
      /\ g[s \ {x}] = f[y] + rest
  BY <1>3, <1>5, <1>6, <1>7
<1> HIDE DEF y, rest, T
<1>10. f[y] + (f[x] + rest) = f[x] + (f[y] + rest)
  BY <1>8 DEF rest
<1> QED
  BY <1>2, <1>9, <1>10

\* Where two functions agree so do their sums.
LEMMA SumSame ==
  ASSUME NEW U, IsFiniteSet(U), NEW f, NEW g, SumsUp(g, f, U),
         NEW h, NEW k, SumsUp(k, h, U),
         NEW s \in SUBSET U, \A x \in s : h[x] = f[x]
  PROVE  k[s] = g[s]
<1> DEFINE T == {t \in SUBSET U : t \subseteq s /\ k[t] # g[t]}
<1> SUFFICES ASSUME T # {} PROVE FALSE
  OBVIOUS
<1>1. PICK t \in T : \A r \in T : r \subseteq t => r = t
  <2>1. T \subseteq SUBSET U
    OBVIOUS
  <2> HIDE DEF T
  <2> QED
    BY <2>1, SmallestSubset
<1>2. t \in SUBSET U /\ t \subseteq s /\ k[t] # g[t]
  OBVIOUS
<1>3. t # {}
  <2>1. g[{}] = 0 /\ k[{}] = 0
    BY SumValue
  <2> QED
    BY <1>2, <2>1
<1>4. Pick(t) \in t
  BY <1>3, PickIn
<1>5. k[t \ {Pick(t)}] = g[t \ {Pick(t)}]
  BY <1>1, <1>2, <1>4
<1>6. h[Pick(t)] = f[Pick(t)]
  BY <1>2, <1>4
<1> HIDE DEF T
<1> QED
  BY <1>2, <1>3, <1>5, <1>6, SumValue

\* What is mapped one to one to something no smaller adds up to no more.
LEMMA SumBound ==
  ASSUME NEW U, IsFiniteSet(U), NEW f \in [U -> Nat], NEW g, SumsUp(g, f, U),
         NEW V, IsFiniteSet(V), NEW h \in [V -> Nat], NEW k, SumsUp(k, h, V),
         NEW m \in [U -> V],
         \A x, y \in U : m[x] = m[y] => x = y,
         \A x \in U : f[x] <= h[m[x]]
  PROVE  g[U] <= k[V]
<1>a. ASSUME NEW r \in SUBSET U, NEW y \in r
      PROVE  g[r] = f[y] + g[r \ {y}]
  BY SumAny
<1>b. ASSUME NEW r \in SUBSET V, NEW y \in r
      PROVE  k[r] = h[y] + k[r \ {y}]
  BY SumAny
<1> DEFINE Maps(s, t) == \A x \in s : m[x] \in t
           T == {s \in SUBSET U : \E t \in SUBSET V : Maps(s, t) /\ ~(g[s] <= k[t])}
<1>1. T = {}
  <2> SUFFICES ASSUME T # {} PROVE FALSE
    OBVIOUS
  <2>1. PICK s \in T : \A r \in T : r \subseteq s => r = s
    <3>1. T \subseteq SUBSET U
      OBVIOUS
    <3> HIDE DEF T
    <3> QED
      BY <3>1, SmallestSubset
  <2>2. PICK t \in SUBSET V : s \in SUBSET U /\ Maps(s, t) /\ ~(g[s] <= k[t])
    OBVIOUS
  <2>3. g \in [SUBSET U -> Nat] /\ k \in [SUBSET V -> Nat]
    BY SumType
  <2>4. s # {}
    <3>1. g[{}] = 0
      BY SumValue
    <3>2. k[t] \in Nat
      BY <2>3
    <3> QED
      BY <2>2, <3>1, <3>2
  <2>5. PICK x \in s : TRUE
    BY <2>4
  <2>6. x \in U /\ m[x] \in t /\ m[x] \in V
    BY <2>2, <2>5
  <2>7. g[s] = f[x] + g[s \ {x}] /\ k[t] = h[m[x]] + k[t \ {m[x]}]
    BY <1>a, <1>b, <2>2, <2>5, <2>6
  <2>8. Maps(s \ {x}, t \ {m[x]})
    BY <2>2, <2>5, <2>6
  <2>9. g[s \ {x}] <= k[t \ {m[x]}]
    <3>1. s \ {x} \in SUBSET U /\ s \ {x} \notin T /\ t \ {m[x]} \in SUBSET V
      BY <2>1, <2>2, <2>5
    <3> HIDE DEF Maps
    <3> QED
      BY <2>8, <3>1
  <2>10. /\ f[x] \in Nat /\ h[m[x]] \in Nat /\ f[x] <= h[m[x]]
         /\ g[s \ {x}] \in Nat /\ k[t \ {m[x]}] \in Nat
    BY <2>2, <2>3, <2>6
  <2> QED
    BY <2>2, <2>7, <2>9, <2>10
<1>2. U \notin T
  BY <1>1
<1> QED
  BY <1>2

-----------------------------------------------------------------------------
(* The sums of this specification *)

LEMMA FiniteJobs ==
  /\ IsFiniteSet(Jobs)
  /\ IsFiniteSet(Entry)
<1>1. IsFiniteSet(Jobs)
  BY FiniteAssumption, FS_Union DEF Jobs
<1>2. IsFiniteSet(Entry)
  <2> DEFINE pairs == Jobs \X Rounds
             entry == [p \in pairs |-> [job |-> p[1], rc |-> p[2]]]
  <2>1. IsFiniteSet(Rounds)
    <3>1. 0 \in Int /\ MaxRequeues \in Int
      BY RequeueAssumption
    <3>2. IsFiniteSet(0 .. MaxRequeues)
      BY <3>1, FS_Interval
    <3> QED
      BY <3>2 DEF Rounds
  <2>2. IsFiniteSet(pairs)
    BY <1>1, <2>1, FS_Product
  <2>3. entry \in Surjection(pairs, Entry)
    <3>1. entry \in [pairs -> Entry]
      BY DEF Entry
    <3>2. ASSUME NEW e \in Entry PROVE \E p \in pairs : entry[p] = e
      <4>1. <<e.job, e.rc>> \in pairs
        BY DEF Entry
      <4>2. entry[<<e.job, e.rc>>] = e
        BY <4>1 DEF Entry
      <4> QED
        BY <4>1, <4>2
    <3> QED
      BY <3>1, <3>2 DEF Surjection
  <2> QED
    BY <2>2, <2>3, FS_Surjection
<1> QED
  BY <1>1, <1>2

\* Every worker's share is a natural number.
LEMMA NeededType ==
  ASSUME NEW j \in Jobs, NEW r \in Resources
  PROVE  Needed(j)[r] \in Nat
<1>1. Requests[j][r] \in Nat
  BY ResourceAssumption
<1>2. CASE j \in TrainJobs
  <2>1. WorldSize[j] \in Nat
    BY <1>2, ResourceAssumption
  <2>2. Requests[j][r] * WorldSize[j] \in Nat
    BY <1>1, <2>1
  <2> QED
    BY <1>2, <2>2 DEF Needed
<1> QED
  BY <1>1, <1>2 DEF Needed

Charge(used, r) == [e \in Entry |-> used[e] * Needed(e.job)[r]]

LEMMA ChargeType ==
  ASSUME NEW used \in UsedList, NEW r \in Resources
  PROVE  Charge(used, r) \in [Entry -> Nat]
<1> SUFFICES ASSUME NEW e \in Entry PROVE used[e] * Needed(e.job)[r] \in Nat
  BY DEF Charge
<1>1. used[e] \in Nat /\ e.job \in Jobs
  BY DEF UsedList, Entry
<1>2. Needed(e.job)[r] \in Nat
  BY <1>1, NeededType
<1> QED
  BY <1>1, <1>2

\* What is reserved is the sum of what the entries are charged.
LEMMA ReservedIsSum ==
  ASSUME NEW used \in UsedList, NEW r \in Resources
  PROVE  \E g : SumsUp(g, Charge(used, r), Entry) /\ Reserved(used, r) = g[Entry]
<1> DEFINE Literal(g) ==
             g = [s \in SUBSET Entry |->
                    IF s = {} THEN 0
                    ELSE used[Pick(s)] * Needed(Pick(s).job)[r] + g[s \ {Pick(s)}]]
           h == CHOOSE g : Literal(g)
<1>1. \A g : SumsUp(g, Charge(used, r), Entry) <=> Literal(g)
  <2>1. \A s \in SUBSET Entry : s # {} =>
          Charge(used, r)[Pick(s)] = used[Pick(s)] * Needed(Pick(s).job)[r]
    BY PickIn DEF Charge
  <2> QED
    BY <2>1 DEF SumsUp
<1>2. \E g : SumsUp(g, Charge(used, r), Entry)
  BY FiniteJobs, SumExists
<1>3. Reserved(used, r) = h[Entry]
  BY DEF Reserved, MapThenSumSet, MapThenFoldSet, Pick
<1>4. Literal(h)
  <2> HIDE DEF Literal
  <2> QED
    BY <1>1, <1>2
<1> HIDE DEF Literal, h
<1> QED
  BY <1>1, <1>3, <1>4

\* So is what a set of jobs needs.
LEMMA NeededIsSum ==
  ASSUME NEW H \in SUBSET Jobs, NEW r \in Resources
  PROVE  \E g : /\ SumsUp(g, [j \in H |-> Needed(j)[r]], H)
                /\ MapThenSumSet(LAMBDA j : Needed(j)[r], H) = g[H]
<1> DEFINE Literal(g) ==
             g = [s \in SUBSET H |->
                    IF s = {} THEN 0 ELSE Needed(Pick(s))[r] + g[s \ {Pick(s)}]]
           h == CHOOSE g : Literal(g)
           f == [j \in H |-> Needed(j)[r]]
<1>1. \A g : SumsUp(g, f, H) <=> Literal(g)
  <2>1. \A s \in SUBSET H : s # {} => f[Pick(s)] = Needed(Pick(s))[r]
    BY PickIn
  <2> QED
    BY <2>1 DEF SumsUp
<1>2. \E g : SumsUp(g, f, H)
  BY FiniteJobs, FS_Subset, SumExists
<1>3. MapThenSumSet(LAMBDA j : Needed(j)[r], H) = h[H]
  BY DEF MapThenSumSet, MapThenFoldSet, Pick
<1>4. Literal(h)
  <2> HIDE DEF Literal
  <2> QED
    BY <1>1, <1>2
<1> HIDE DEF Literal, h
<1> QED
  BY <1>1, <1>3, <1>4

-----------------------------------------------------------------------------
(* The head of the line *)

\* The comparison given to sort.Slice is a strict order, as sort.Slice demands.
LEMMA BeforeIsStrict ==
  ASSUME NEW i \in Jobs, NEW j \in Jobs, NEW k \in Jobs
  PROVE  /\ ~Before(i, i)
         /\ Before(i, j) /\ Before(j, k) => Before(i, k)
         /\ ~Before(i, j) /\ ~Before(j, k) => ~Before(i, k)
<1>1. /\ Priority[i] \in Int /\ Priority[j] \in Int /\ Priority[k] \in Int
      /\ Created[i] \in Nat /\ Created[j] \in Nat /\ Created[k] \in Nat
  BY ResourceAssumption
<1> QED
  BY <1>1 DEF Before

\* Whatever the lists a pass has read, some job is at the head of the line as
\* soon as one is Queued, and the pass comes to a result.
THEOREM SomebodyIsFirst ==
  ASSUME NEW used, NEW list
  PROVE  /\ Candidates(list) # {} => Heads(list) # {}
         /\ PassResults(used, list) # {}
<1> DEFINE First(s) == {j \in s : \A i \in s : ~Before(i, j)}
           T == {s \in SUBSET Jobs : s # {} /\ First(s) = {}}
<1>1. T = {}
  <2> SUFFICES ASSUME T # {} PROVE FALSE
    OBVIOUS
  <2>1. PICK s \in T : \A t \in T : t \subseteq s => t = s
    <3>1. T \subseteq SUBSET Jobs
      OBVIOUS
    <3> HIDE DEF T
    <3> QED
      BY <3>1, FiniteJobs, SmallestSubset
  <2>2. s \in SUBSET Jobs /\ s # {} /\ First(s) = {}
    OBVIOUS
  <2>3. PICK x \in s : x \in Jobs
    BY <2>2
  <2>4. ~Before(x, x)
    BY <2>3, BeforeIsStrict
  <2>5. CASE s \ {x} = {}
    BY <2>2, <2>3, <2>4, <2>5
  <2>6. CASE s \ {x} # {}
    <3>1. s \ {x} \notin T /\ s \ {x} \in SUBSET Jobs
      BY <2>1, <2>2, <2>3
    <3>2. PICK y \in s \ {x} : \A i \in s \ {x} : ~Before(i, y)
      BY <2>6, <3>1
    <3>3. Before(x, y)
      BY <2>2, <3>2
    <3>4. \A i \in s : ~Before(i, x)
      BY <2>2, <2>3, <2>4, <3>2, <3>3, BeforeIsStrict
    <3> QED
      BY <2>2, <2>3, <3>4
  <2> QED
    BY <2>5, <2>6
<1>2. Candidates(list) \in SUBSET Jobs
  BY DEF Candidates
<1>3. Candidates(list) # {} => Heads(list) # {}
  BY <1>1, <1>2 DEF Heads
<1> QED
  BY <1>3 DEF PassResults

-----------------------------------------------------------------------------
(* No copy of the Used list promises more than there is *)

LEMMA ReservedType ==
  ASSUME NEW used \in UsedList, NEW r \in Resources
  PROVE  Reserved(used, r) \in Nat
<1>1. PICK g : SumsUp(g, Charge(used, r), Entry) /\ Reserved(used, r) = g[Entry]
  BY ReservedIsSum
<1>2. g \in [SUBSET Entry -> Nat]
  BY <1>1, FiniteJobs, ChargeType, SumType
<1> QED
  BY <1>1, <1>2

\* Fewer entries reserve no more.
LEMMA ReservedBound ==
  ASSUME NEW used \in UsedList, NEW more \in UsedList, NEW r \in Resources,
         \A e \in Entry : used[e] <= more[e]
  PROVE  Reserved(used, r) <= Reserved(more, r)
<1> DEFINE f == Charge(used, r)
           h == Charge(more, r)
           m == [e \in Entry |-> e]
<1>1. PICK g : SumsUp(g, f, Entry) /\ Reserved(used, r) = g[Entry]
  BY ReservedIsSum
<1>2. PICK k : SumsUp(k, h, Entry) /\ Reserved(more, r) = k[Entry]
  BY ReservedIsSum
<1>3. f \in [Entry -> Nat] /\ h \in [Entry -> Nat]
  BY ChargeType
<1>4. ASSUME NEW e \in Entry PROVE f[e] <= h[m[e]]
  <2>1. used[e] \in Nat /\ more[e] \in Nat /\ used[e] <= more[e] /\ e.job \in Jobs
    BY DEF UsedList, Entry
  <2>2. Needed(e.job)[r] \in Nat
    BY <2>1, NeededType
  <2>3. used[e] * Needed(e.job)[r] <= more[e] * Needed(e.job)[r]
    BY <2>1, <2>2
  <2> QED
    BY <2>3 DEF Charge
<1>5. /\ m \in [Entry -> Entry]
      /\ \A x, y \in Entry : m[x] = m[y] => x = y
  OBVIOUS
<1> HIDE DEF f, h, m
<1>6. g[Entry] <= k[Entry]
  BY <1>1, <1>2, <1>3, <1>4, <1>5, FiniteJobs, SumBound
<1> QED
  BY <1>1, <1>2, <1>6

\* One more entry reserves what its job needs.
LEMMA ReservedMore ==
  ASSUME NEW used \in UsedList, NEW e \in Entry, NEW r \in Resources
  PROVE  Reserved([used EXCEPT ![e] = @ + 1], r)
           <= Reserved(used, r) + Needed(e.job)[r]
<1> DEFINE more == [used EXCEPT ![e] = @ + 1]
           f == Charge(used, r)
           h == Charge(more, r)
           rest == Entry \ {e}
<1>1. more \in UsedList
  BY DEF UsedList
<1>2. PICK g : SumsUp(g, f, Entry) /\ Reserved(used, r) = g[Entry]
  BY ReservedIsSum
<1>3. PICK k : SumsUp(k, h, Entry) /\ Reserved(more, r) = k[Entry]
  BY <1>1, ReservedIsSum
<1>4. f \in [Entry -> Nat] /\ h \in [Entry -> Nat]
  BY <1>1, ChargeType
<1>5. h[e] = f[e] + Needed(e.job)[r]
  <2>1. used[e] \in Nat /\ more[e] = used[e] + 1 /\ e.job \in Jobs
    BY DEF UsedList, Entry
  <2>2. Needed(e.job)[r] \in Nat
    BY <2>1, NeededType
  <2>3. (used[e] + 1) * Needed(e.job)[r] = used[e] * Needed(e.job)[r] + Needed(e.job)[r]
    BY <2>1, <2>2
  <2> QED
    BY <2>1, <2>3 DEF Charge
<1>6. \A x \in rest : h[x] = f[x]
  BY DEF Charge, UsedList
<1> HIDE DEF more, f, h
<1>7. k[rest] <= g[rest]
  <2>1. k[rest] = g[rest]
    BY <1>2, <1>3, <1>6, FiniteJobs, SumSame
  <2>2. g \in [SUBSET Entry -> Nat]
    BY <1>2, <1>4, FiniteJobs, SumType
  <2> QED
    BY <2>1, <2>2
<1>8. g[Entry] = f[e] + g[rest] /\ k[Entry] = h[e] + k[rest]
  <2>1. g[Entry] = f[e] + g[rest]
    BY <1>2, <1>4, FiniteJobs, SumAny
  <2>2. k[Entry] = h[e] + k[rest]
    BY <1>3, <1>4, FiniteJobs, SumAny
  <2> QED
    BY <2>1, <2>2
<1>9. /\ f[e] \in Nat /\ Needed(e.job)[r] \in Nat
      /\ g[rest] \in Nat /\ k[rest] \in Nat
  <2>1. g \in [SUBSET Entry -> Nat] /\ k \in [SUBSET Entry -> Nat]
    BY <1>2, <1>3, <1>4, FiniteJobs, SumType
  <2>2. e.job \in Jobs
    BY DEF Entry
  <2> QED
    BY <1>4, <2>1, <2>2, NeededType
<1> QED
  BY <1>2, <1>3, <1>5, <1>7, <1>8, <1>9 DEF more

\* A pass keeps a Used list within the quota: what it keeps it only takes from
\* the list, and what it adds fits beside that.
LEMMA PassWithin ==
  ASSUME NEW used \in UsedList, Within(used), NEW list \in [Jobs -> Version],
         NEW result \in PassResults(used, list)
  PROVE  Within(result)
<1> DEFINE kept == Pruned(used, list)
<1> SUFFICES ASSUME NEW r \in Resources PROVE Reserved(result, r) <= Quota[r]
  BY DEF Within
<1>1. kept \in UsedList /\ \A e \in Entry : kept[e] <= used[e]
  BY DEF Pruned, UsedList
<1>2. /\ Reserved(kept, r) <= Reserved(used, r) /\ Reserved(used, r) <= Quota[r]
      /\ Reserved(kept, r) \in Nat /\ Reserved(used, r) \in Nat /\ Quota[r] \in Nat
  <2> HIDE DEF kept
  <2>1. Reserved(kept, r) <= Reserved(used, r)
    BY <1>1, ReservedBound
  <2>2. Reserved(used, r) <= Quota[r] /\ Quota[r] \in Nat
    BY ResourceAssumption DEF Within
  <2> QED
    BY <1>1, <2>1, <2>2, ReservedType
<1>3. Reserved(kept, r) <= Quota[r]
  <2> HIDE DEF kept
  <2> QED
    BY <1>2
<1>4. ASSUME NEW j \in Jobs, Fits(j, Remaining(kept)),
             result = [kept EXCEPT ![EntryOf(j, list)] = @ + 1]
      PROVE  Reserved(result, r) <= Quota[r]
  <2> DEFINE new == EntryOf(j, list)
  <2>1. new \in Entry /\ new.job = j
    BY EntryOfType DEF EntryOf
  <2>2. Remaining(kept)[r] = Quota[r] - Reserved(kept, r)
    BY DEF Remaining
  <2> HIDE DEF kept, new
  <2>3. Reserved(result, r) <= Reserved(kept, r) + Needed(j)[r]
    BY <1>1, <1>4, <2>1, ReservedMore DEF new
  <2>4. Needed(j)[r] > 0 => Needed(j)[r] <= Quota[r] - Reserved(kept, r)
    BY <1>4, <2>2 DEF Fits
  <2>5. Needed(j)[r] \in Nat /\ Reserved(result, r) \in Nat
    <3>1. result \in UsedList
      BY PassResultsFacts
    <3> QED
      BY <3>1, NeededType, ReservedType
  <2> QED
    BY <1>2, <1>3, <2>3, <2>4, <2>5
<1> QED
  BY <1>3, <1>4, PassResultsFacts

LEMMA NothingWithin == Within(NothingUsed)
<1> SUFFICES ASSUME NEW r \in Resources PROVE Reserved(NothingUsed, r) <= Quota[r]
  BY DEF Within
<1> DEFINE f == Charge(NothingUsed, r)
           zero == [s \in SUBSET Entry |-> 0]
<1>1. NothingUsed \in UsedList
  BY DEF NothingUsed, UsedList
<1>2. PICK g : SumsUp(g, f, Entry) /\ Reserved(NothingUsed, r) = g[Entry]
  BY <1>1, ReservedIsSum
<1>3. \A e \in Entry : f[e] = 0
  <2> SUFFICES ASSUME NEW e \in Entry PROVE f[e] = 0
    OBVIOUS
  <2>1. e.job \in Jobs
    BY DEF Entry
  <2>2. Needed(e.job)[r] \in Nat
    BY <2>1, NeededType
  <2>3. 0 * Needed(e.job)[r] = 0
    BY <2>2
  <2> QED
    BY <2>3 DEF Charge, NothingUsed
<1>4. SumsUp(zero, f, Entry)
  <2>1. \A s \in SUBSET Entry : s # {} => f[Pick(s)] = 0 /\ s \ {Pick(s)} \in SUBSET Entry
    BY <1>3, PickIn
  <2> HIDE DEF f
  <2>2. \A s \in SUBSET Entry :
          zero[s] = IF s = {} THEN 0 ELSE f[Pick(s)] + zero[s \ {Pick(s)}]
    BY <2>1
  <2> QED
    BY <2>2 DEF SumsUp
<1> HIDE DEF f
<1>5. g[Entry] = zero[Entry]
  BY <1>2, <1>4, FiniteJobs, SumUnique
<1> QED
  BY <1>2, <1>5, ResourceAssumption

LEMMA QuotaStep == TypeOK /\ QuotaInv /\ [Next]_vars => QuotaInv'
<1> DEFINE G == {used \in UsedList : Within(used)}
<1> SUFFICES ASSUME TypeOK, QuotaInv, [Next]_vars PROVE QuotaInv'
  OBVIOUS
<1>1. NothingUsed \in G
  BY NothingWithin DEF NothingUsed, UsedList
<1>2. \A used \in UsedList \cap G, list \in [Jobs -> Version] :
        PassResults(used, list) \subseteq G
  BY PassWithin, PassResultsFacts
<1>3. Copies(G)
  <2>1. /\ queue.used \in UsedList /\ qcache.used \in UsedList /\ qw.used \in UsedList
        /\ \A n \in DOMAIN qwatch : qwatch[n].used \in UsedList
    BY CopiesType DEF Copies, EveryCopy
  <2> QED
    BY <2>1 DEF Copies, QuotaInv, EveryCopy
<1>4. Copies(G)'
  <2> HIDE DEF G
  <2> QED
    BY <1>1, <1>2, <1>3, CopiesStep
<1> QED
  BY <1>4 DEF Copies, QuotaInv, EveryCopy

\* The Queue reconciler never promises more than the quota, in no copy of the
\* Used list it may yet write, whatever the order of its passes, the lag of its
\* caches and its restarts, and also when names are reused.
THEOREM NeverOverbooked == Spec => []QuotaInv
<1>1. Init => QuotaInv
  BY NothingWithin DEF Init, QuotaInv, EveryCopy, NoQueue, NoPass
<1> QED
  BY <1>1, QuotaStep, TypeCorrect, PTL DEF Spec

-----------------------------------------------------------------------------
(* The jobs past admission fit the quota *)

\* What jobs with a reservation need is at most what is reserved.
LEMMA HoldingReserved ==
  ASSUME TypeOK, AdmittedIsReserved, NEW r \in Resources, NEW H,
         H = {j \in Jobs : store[j].phase \in TrainHolding \cup InferenceHolding}
  PROVE  /\ MapThenSumSet(LAMBDA j : Needed(j)[r], H) <= Reserved(queue.used, r)
         /\ MapThenSumSet(LAMBDA j : Needed(j)[r], H) \in Nat
<1> DEFINE f == [j \in H |-> Needed(j)[r]]
           h == Charge(queue.used, r)
           m == [j \in H |-> EntryOf(j, store)]
<1>1. H \in SUBSET Jobs /\ IsFiniteSet(H) /\ queue.used \in UsedList
  BY FiniteJobs, FS_Subset DEF TypeOK, QueueVersion
<1>2. PICK g : SumsUp(g, f, H) /\ MapThenSumSet(LAMBDA j : Needed(j)[r], H) = g[H]
  BY <1>1, NeededIsSum
<1>3. PICK k : SumsUp(k, h, Entry) /\ Reserved(queue.used, r) = k[Entry]
  BY <1>1, ReservedIsSum
<1>4. f \in [H -> Nat] /\ h \in [Entry -> Nat]
  BY <1>1, NeededType, ChargeType
<1>5. ASSUME NEW j \in H
      PROVE  m[j] \in Entry /\ m[j].job = j /\ f[j] <= h[m[j]]
  <2>1. j \in Jobs /\ m[j] \in Entry /\ m[j].job = j
    BY <1>1, EntryOfType DEF EntryOf, TypeOK
  <2>2. queue.used[m[j]] > 0
    BY <2>1 DEF AdmittedIsReserved
  <2>3. queue.used[m[j]] \in Nat
    BY <1>1, <2>1 DEF UsedList
  <2>4. Needed(j)[r] \in Nat
    BY <2>1, NeededType
  <2>5. h[m[j]] = queue.used[m[j]] * Needed(j)[r] /\ f[j] = Needed(j)[r]
    BY <2>1 DEF Charge
  <2> HIDE DEF m, f, h
  <2> DEFINE n == queue.used[m[j]]
             d == Needed(j)[r]
  <2>6. n \in Nat /\ n > 0 /\ d \in Nat
    BY <2>2, <2>3, <2>4
  <2> HIDE DEF n, d
  <2>7. d <= n * d
    BY <2>6
  <2> QED
    BY <2>1, <2>5, <2>7 DEF n, d
<1>6. /\ m \in [H -> Entry]
      /\ \A x, y \in H : m[x] = m[y] => x = y
  <2>1. \A x \in H : m[x] \in Entry /\ m[x].job = x
    BY <1>5
  <2>2. m \in [H -> Entry]
    BY <2>1
  <2> HIDE DEF m
  <2> QED
    BY <2>1, <2>2
<1> HIDE DEF f, h, m
<1>7. g[H] <= k[Entry]
  BY <1>1, <1>2, <1>3, <1>4, <1>5, <1>6, FiniteJobs, SumBound
<1>8. g \in [SUBSET H -> Nat]
  BY <1>1, <1>2, <1>4, SumType
<1> QED
  BY <1>2, <1>3, <1>7, <1>8

\* The quota is never oversubscribed: the jobs past admission together need no
\* more than it, whatever the interleaving of the three controllers, as long as
\* no job name is used twice.
THEOREM QuotaHolds == MaxLives <= 1 => (Spec => []HoldingFitsQuota)
<1> SUFFICES ASSUME MaxLives <= 1 PROVE Spec => []HoldingFitsQuota
  OBVIOUS
<1>1. TypeOK /\ QuotaInv /\ AdmittedIsReserved => HoldingFitsQuota
  <2> SUFFICES ASSUME TypeOK, QuotaInv, AdmittedIsReserved, NEW r \in Resources
               PROVE  MapThenSumSet(LAMBDA j : Needed(j)[r],
                        {j \in Jobs : store[j].phase \in TrainHolding \cup InferenceHolding})
                        <= Quota[r]
    BY DEF HoldingFitsQuota
  <2> DEFINE H == {j \in Jobs : store[j].phase \in TrainHolding \cup InferenceHolding}
  <2>1. Reserved(queue.used, r) <= Quota[r] /\ Quota[r] \in Nat
    BY ResourceAssumption DEF QuotaInv, EveryCopy, Within
  <2>2. Reserved(queue.used, r) \in Nat
    BY ReservedType DEF TypeOK, QueueVersion
  <2>3. /\ MapThenSumSet(LAMBDA j : Needed(j)[r], H) <= Reserved(queue.used, r)
        /\ MapThenSumSet(LAMBDA j : Needed(j)[r], H) \in Nat
    BY HoldingReserved
  <2> DEFINE sum == MapThenSumSet(LAMBDA j : Needed(j)[r], H)
  <2>4. sum <= Reserved(queue.used, r) /\ sum \in Nat
    BY <2>3
  <2> HIDE DEF sum
  <2>5. sum <= Quota[r]
    BY <2>1, <2>2, <2>4
  <2> QED
    BY <2>5 DEF sum
<1>2. Spec => []AdmittedIsReserved
  BY ReservationKept
<1> QED
  BY <1>1, <1>2, TypeCorrect, NeverOverbooked, PTL

==========================================================================
