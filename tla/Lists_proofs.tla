----------------------------- MODULE Lists_proofs -----------------------------
(***************************************************************************)
(* Proofs about three parts of the readings, for every value of their      *)
(* constants: BoundedMap, its invariants and that it implements            *)
(* ParallelMap; NewestJobs, the lists of the newest jobs; MetricsQueries,  *)
(* what is said of a workload's metrics.                                   *)
(***************************************************************************)
EXTENDS BoundedMap, NewestJobs, MetricsQueries, Functions, FiniteSetTheorems,
        WellFoundedInduction, TLAPS

-----------------------------------------------------------------------------
(***************************************************************************)
(* The pool.                                                               *)
(***************************************************************************)
LEMMA WidthFacts ==
    /\ Width \in Nat
    /\ Length > 0 <=> Width > 0
    /\ IsFiniteSet(Workers) /\ Cardinality(Workers) = Width
<1>1. Width \in Nat /\ (Length > 0 <=> Width > 0)
  BY LengthAssumption DEF Width
<1>2. QED
  BY <1>1, FS_Interval DEF Workers

(***************************************************************************)
(* The inductive invariant: an index below the one offered next is either  *)
(* being called or has its result, one that is not was never touched, and  *)
(* a worker leaves empty-handed once the channel is closed.                *)
(***************************************************************************)
IndexInv(i) ==
    /\ i < index => calls[i] = 1 /\ (Called(i) <=> results[i] = "unset")
    /\ i >= index => calls[i] = 0 /\ results[i] = "unset"

WorkerInv(w) ==
    /\ holding[w] < index
    /\ w \in gone => closed /\ holding[w] = 0

MapInv ==
    /\ TypeOK
    /\ OneWorkerPerInput
    /\ \A i \in Inputs : IndexInv(i)
    /\ \A w \in Workers : WorkerInv(w)
    /\ closed => index > Length
    /\ returned => (closed /\ gone = Workers) \/ Length = 0

LEMMA InitMap == Init => MapInv
<1> SUFFICES ASSUME Init
             PROVE  MapInv
  OBVIOUS
<1> USE LengthAssumption DEF Init
<1>1. TypeOK
  <2>1. index \in 1 .. Length + 1 /\ holding \in [Workers -> 0 .. Length]
    OBVIOUS
  <2>2. results \in [Inputs -> Outcomes \cup {"unset"}] /\ calls \in [Inputs -> 0 .. 1]
    OBVIOUS
  <2>3. QED
    BY <2>1, <2>2 DEF TypeOK
<1>2. \A i \in Inputs : IndexInv(i)
  BY DEF IndexInv, Inputs
<1>3. OneWorkerPerInput /\ \A w \in Workers : WorkerInv(w)
  BY DEF OneWorkerPerInput, WorkerInv
<1>4. QED
  BY <1>1, <1>2, <1>3 DEF MapInv

LEMMA NextMap == MapInv /\ [Next]_vars => MapInv'
<1> SUFFICES ASSUME MapInv, [Next]_vars
             PROVE  MapInv'
  OBVIOUS
<1> USE LengthAssumption, WidthFacts
    DEF MapInv, TypeOK, OneWorkerPerInput, IndexInv, Called, WorkerInv, Inputs, Outcomes
<1>1. ASSUME NEW w \in Workers, Hand(w)
      PROVE  MapInv'
  BY <1>1 DEF Hand
<1>2. ASSUME NEW w \in Workers, Finish(w)
      PROVE  MapInv'
  BY <1>2 DEF Finish
<1>3. ASSUME NEW w \in Workers, Leave(w)
      PROVE  MapInv'
  BY <1>3 DEF Leave
<1>4. CASE Close
  BY <1>4 DEF Close
<1>5. CASE Return
  BY <1>5 DEF Return
<1>6. CASE Cancel
  BY <1>6 DEF Cancel
<1>7. CASE UNCHANGED vars
  BY <1>7 DEF vars
<1>8. QED
  BY <1>1, <1>2, <1>3, <1>4, <1>5, <1>6, <1>7 DEF Next, Worker

THEOREM MapInvariance == Spec => []MapInv
BY InitMap, NextMap, PTL DEF Spec

\* Every variable keeps its type; no input is ever called twice.
THEOREM MapTypeCorrect == Spec => []TypeOK
<1>1. MapInv => TypeOK
  BY DEF MapInv
<1>2. QED
  BY <1>1, MapInvariance, PTL

LEMMA MapReturns == MapInv => EveryPositionHasItsResult
<1>1. ASSUME MapInv, returned
      PROVE  EveryPositionHasItsResult
  <2>1. CASE Length = 0
    BY <2>1, <1>1, WidthFacts DEF EveryPositionHasItsResult, Inputs, Workers
  <2>2. CASE closed /\ gone = Workers
    <3>1. index > Length /\ \A w \in Workers : holding[w] = 0
      BY <1>1, <2>2 DEF MapInv, WorkerInv
    <3>2. \A i \in Inputs : i < index /\ i # 0
      BY <1>1, <3>1, LengthAssumption DEF MapInv, TypeOK, Inputs
    <3>3. QED
      BY <1>1, <3>1, <3>2 DEF MapInv, IndexInv, Called, EveryPositionHasItsResult
  <2>3. QED
    BY <1>1, <2>1, <2>2 DEF MapInv
<1>2. QED
  BY <1>1 DEF EveryPositionHasItsResult

(***************************************************************************)
(* map.go: callers receive a result for every position, also after a       *)
(* cancellation.                                                           *)
(***************************************************************************)
THEOREM EveryPosition == Spec => []EveryPositionHasItsResult
BY MapReturns, MapInvariance, PTL

(***************************************************************************)
(* An idle worker leaves room for one more call: the busy workers are at   *)
(* most Width - 1, and map onto the inputs being called.                   *)
(***************************************************************************)
Busy == {w \in Workers : holding[w] # 0}
Calling == {i \in Inputs : Called(i)}

LEMMA RoomForOneMore ==
    ASSUME MapInv, NEW w \in Workers, holding[w] = 0
    PROVE  IsFiniteSet(Calling) /\ Cardinality(Calling) < Width
<1> DEFINE f == [v \in Busy |-> holding[v]]
<1>1. Busy \subseteq Workers \ {w}
  BY DEF Busy
<1>2. /\ IsFiniteSet(Workers \ {w})
      /\ Cardinality(Workers \ {w}) = Width - 1
  BY WidthFacts, FS_RemoveElement
<1>3. IsFiniteSet(Busy) /\ Cardinality(Busy) <= Width - 1 /\ Cardinality(Busy) \in Nat
  BY <1>1, <1>2, FS_Subset, FS_CardinalityType
<1>4. f \in Surjection(Busy, Calling)
  <2>1. f \in [Busy -> Calling]
    BY LengthAssumption DEF Busy, Calling, Called, MapInv, TypeOK, Inputs
  <2>2. \A i \in Calling : \E v \in Busy : f[v] = i
    BY DEF Busy, Calling, Called, Inputs
  <2>3. QED
    BY <2>1, <2>2 DEF Surjection
<1>5. /\ IsFiniteSet(Calling)
      /\ Cardinality(Calling) <= Cardinality(Busy)
  BY <1>3, <1>4, FS_Surjection
<1>6. Cardinality(Calling) \in Nat
  BY <1>5, FS_CardinalityType
<1>7. QED
  BY <1>3, <1>5, <1>6, WidthFacts

(***************************************************************************)
(* The worker pool implements ParallelMap.                                 *)
(***************************************************************************)
MappedPhase == [i \in Inputs |-> Phase(i)]

LEMMA PhaseMeaning ==
    ASSUME NEW i \in Inputs
    PROVE  /\ Phase(i) = "running" <=> Called(i)
           /\ Phase(i) = "todo" <=> ~Called(i) /\ results[i] = "unset"
           /\ Phase(i) \in {"running", "todo", "done"}
BY DEF Phase

\* INSTANCE gives ParallelMap a Cardinality of its own: it is the same one.
LEMMA SameCardinality == \A S : Abstract!Cardinality(S) = Cardinality(S)
BY DEF Abstract!Cardinality, Cardinality, Abstract!IsFiniteSet, IsFiniteSet

LEMMA RunningIsCalling == Abstract!Running = Calling
BY PhaseMeaning DEF Abstract!Running, Calling

THEOREM MapImplements == Spec => RefinesParallelMap
<1>1. Init => Abstract!Init
  BY DEF Init, Abstract!Init, Phase, Called, Inputs
<1>2. ASSUME MapInv, [Next]_vars
      PROVE  [Abstract!Next]_<<MappedPhase, returned>>
  <2> USE DEF MappedPhase
  <2>1. ASSUME NEW w \in Workers, Hand(w)
        PROVE  Abstract!Start(index)
    <3>1. index \in Inputs /\ Phase(index) = "todo"
      <4>1. index \in Inputs /\ results[index] = "unset"
        BY <1>2, <2>1 DEF Hand, MapInv, IndexInv, TypeOK, Inputs
      <4>2. ~Called(index)
        BY <1>2, <4>1 DEF Called, MapInv, WorkerInv, TypeOK
      <4>3. QED
        BY <4>1, <4>2 DEF Phase
    <3>2. Abstract!Cardinality(Abstract!Running) < Width
      BY <1>2, <2>1, RoomForOneMore, RunningIsCalling, SameCardinality DEF Hand
    <3>3. \A i \in Inputs : Phase(i)' = IF i = index THEN "running" ELSE Phase(i)
      <4>1. \A i \in Inputs : Called(i)' <=> i = index \/ Called(i)
        <5>1. /\ holding' = [holding EXCEPT ![w] = index] /\ holding[w] = 0
              /\ holding \in [Workers -> 0 .. Length]
          BY <1>2, <2>1 DEF Hand, MapInv, TypeOK
        <5>2. \A v \in Workers : holding'[v] = IF v = w THEN index ELSE holding[v]
          BY <5>1
        <5>3. QED
          BY <5>1, <5>2 DEF Called, Inputs
      <4>2. QED
        BY <2>1, <4>1 DEF Hand, Phase
    <3>4. MappedPhase' = [MappedPhase EXCEPT ![index] = "running"]
      BY <3>1, <3>3
    <3>5. UNCHANGED returned
      BY <2>1 DEF Hand
    <3>6. QED
      BY <3>1, <3>2, <3>4, <3>5 DEF Abstract!Start, Abstract!Becomes
  <2>2. ASSUME NEW w \in Workers, Finish(w)
        PROVE  Abstract!Finish(holding[w])
    <3>1. holding[w] \in Inputs /\ Phase(holding[w]) = "running"
      BY <1>2, <2>2, LengthAssumption DEF Finish, MapInv, TypeOK, Inputs, Phase, Called
    <3>2. \A i \in Inputs : Called(i)' <=> i # holding[w] /\ Called(i)
      <4>1. /\ holding' = [holding EXCEPT ![w] = 0]
            /\ holding \in [Workers -> 0 .. Length]
            /\ OneWorkerPerInput
        BY <1>2, <2>2 DEF Finish, MapInv, TypeOK
      <4>2. \A v \in Workers : holding'[v] = IF v = w THEN 0 ELSE holding[v]
        BY <4>1
      <4>3. QED
        BY <3>1, <4>1, <4>2 DEF Called, Inputs, OneWorkerPerInput
    <3>3. /\ results'[holding[w]] # "unset"
          /\ \A i \in Inputs : i # holding[w] => results'[i] = results[i]
      BY <1>2, <2>2, <3>1 DEF Finish, MapInv, TypeOK, Outcomes
    <3>4. \A i \in Inputs : Phase(i)' = IF i = holding[w] THEN "done" ELSE Phase(i)
      BY <3>2, <3>3 DEF Phase
    <3>5. QED
      BY <2>2, <3>1, <3>4 DEF Abstract!Finish, Abstract!Becomes, Finish
  <2>3. CASE Return
    <3>1. \A i \in Inputs : Phase(i) = "done" /\ Phase(i)' = Phase(i)
      <4>1. returned' /\ UNCHANGED <<results, holding>>
        BY <2>3 DEF Return
      <4>2. (closed /\ gone = Workers) \/ Length = 0
        BY <2>3 DEF Return
      <4>3. CASE Length = 0
        BY <4>3 DEF Inputs
      <4>4. CASE closed /\ gone = Workers
        <5>1. index > Length /\ \A w \in Workers : holding[w] = 0
          BY <1>2, <4>4 DEF MapInv, WorkerInv
        <5>2. \A i \in Inputs : i < index /\ ~Called(i)
          BY <1>2, <5>1, LengthAssumption DEF MapInv, TypeOK, Inputs, Called
        <5>3. QED
          BY <1>2, <4>1, <5>2 DEF MapInv, IndexInv, Phase, Called
      <4>5. QED
        BY <4>2, <4>3, <4>4
    <3>2. QED
      BY <2>3, <3>1 DEF Return, Abstract!Return, Abstract!Next
  <2>4. ASSUME UNCHANGED <<results, holding, returned>>
        PROVE  UNCHANGED <<MappedPhase, returned>>
    BY <2>4 DEF Phase, Called
  <2>5. QED
    BY <1>2, <2>1, <2>2, <2>3, <2>4
    DEF Next, Worker, Leave, Close, Cancel, vars, Abstract!Next, Hand, Finish, MapInv, TypeOK, Inputs
<1>3. QED
  BY <1>1, <1>2, MapInvariance, PTL DEF Spec, RefinesParallelMap, Abstract!Spec, MappedPhase
-----------------------------------------------------------------------------
(***************************************************************************)
(* The lists of the newest jobs: the places of the jobs are an order, a    *)
(* page is the jobs of its places, and a job is before the place that has  *)
(* been reached only if it has been received, or as many were deleted.     *)
(***************************************************************************)
\* Of numbers there is a smallest.
LEMMA SmallestOf ==
  ASSUME NEW S \in SUBSET Nat, S # {}
  PROVE  \E n \in S : \A m \in S : n <= m
<1> DEFINE R == OpToRel(<, Nat)
<1>1. \E n \in S : \A m \in S : ~ (<<m, n>> \in R)
  BY WFMin, NatLessThanWellFounded
<1>2. \A m, n \in Nat : <<m, n>> \in R <=> m < n
  BY DEF OpToRel
<1> HIDE DEF R
<1>3. \A m, n \in Nat : ~ (<<m, n>> \in R) => n <= m
  BY <1>2
<1> QED
  BY <1>1, <1>3

\* In a finite set with a strict order, where R[x] are those before x, the numbers
\* of those before are the order, and leave no gap.
LEMMA RanksFill ==
  ASSUME NEW S, IsFiniteSet(S), NEW R \in [S -> SUBSET S],
         \A x \in S : x \notin R[x],
         \A x, y \in S : x \in R[y] => R[x] \subseteq R[y],
         \A x, y \in S : x = y \/ x \in R[y] \/ y \in R[x]
  PROVE  /\ \A x \in S : Cardinality(R[x]) \in Nat /\ Cardinality(R[x]) < Cardinality(S)
         /\ \A x, y \in S : x \in R[y] <=> Cardinality(R[x]) < Cardinality(R[y])
         /\ \A n \in 0 .. Cardinality(S) : Cardinality({x \in S : Cardinality(R[x]) < n}) = n
<1> DEFINE Degree(x) == Cardinality(R[x])
           Under(n) == {x \in S : Degree(x) < n}
<1>0. Cardinality(S) \in Nat /\ \A T \in SUBSET S : IsFiniteSet(T) /\ Cardinality(T) \in Nat
  BY FS_Subset, FS_CardinalityType
<1>1. ASSUME NEW T \in SUBSET S, NEW U \in SUBSET T, NEW x \in T, x \notin U
      PROVE  Cardinality(U) < Cardinality(T)
  <2>1. IsFiniteSet(T) /\ Cardinality(T) \in Nat /\ Cardinality(U) \in Nat
    BY <1>0
  <2>2. Cardinality(U) <= Cardinality(T) /\ (Cardinality(T) = Cardinality(U) => T = U)
    BY <2>1, FS_Subset
  <2> QED
    BY <1>1, <2>1, <2>2
<1>2. \A x \in S : Degree(x) \in Nat /\ Degree(x) < Cardinality(S)
  BY <1>0, <1>1
<1>3. \A x, y \in S : x \in R[y] => Degree(x) < Degree(y)
  BY <1>1
<1>4. \A x, y \in S : x \in R[y] <=> Degree(x) < Degree(y)
  <2> SUFFICES ASSUME NEW x \in S, NEW y \in S, Degree(x) < Degree(y) PROVE x \in R[y]
    BY <1>3
  <2>1. Degree(x) \in Nat /\ Degree(y) \in Nat
    BY <1>2
  <2> QED
    BY <1>3, <2>1
<1> HIDE DEF Degree
<1>5. ASSUME NEW n \in 0 .. Cardinality(S)
      PROVE  Cardinality(Under(n)) = n
  <2> DEFINE Gaps == {k \in 0 .. Cardinality(S) : Cardinality(Under(k)) # k}
  <2>1. ASSUME Gaps # {}  PROVE FALSE
    <3>1. PICK k \in Gaps : \A m \in Gaps : k <= m
      <4>1. Gaps \in SUBSET Nat
        BY <1>0
      <4> HIDE DEF Gaps
      <4> QED
        BY <2>1, <4>1, SmallestOf
    <3>2. k \in Nat /\ k <= Cardinality(S) /\ Cardinality(Under(k)) # k
      BY <1>0, <3>1
    <3>3. k # 0
      <4>1. Under(0) = {}
        BY <1>2
      <4> QED
        BY <3>2, <4>1, FS_EmptySet
    <3>4. PICK j \in Nat : k = j + 1 /\ j < Cardinality(S)
      <4>1. k - 1 \in Nat /\ k = (k - 1) + 1 /\ k - 1 < Cardinality(S)
        BY <1>0, <3>2, <3>3
      <4> QED
        BY <4>1
    <3>5. Cardinality(Under(j)) = j
      BY <1>0, <3>1, <3>4
    <3>6. S \ Under(j) # {}
      BY <1>0, <3>4, <3>5
    <3>7. PICK v \in S \ Under(j) : \A w \in S \ Under(j) : Degree(v) <= Degree(w)
      <4> DEFINE Ranks == {Degree(x) : x \in S \ Under(j)}
      <4>1. Ranks \in SUBSET Nat /\ Ranks # {}
        BY <1>2, <3>6
      <4>2. PICK r \in Ranks : \A m \in Ranks : r <= m
        <5> HIDE DEF Ranks
        <5> QED
          BY <4>1, SmallestOf
      <4> QED
        BY <4>2
    <3>8. v \in S /\ Degree(v) \in Nat /\ Degree(v) >= j
      BY <1>2, <3>4, <3>7
    <3>9. Degree(v) <= j
      <4>1. R[v] \in SUBSET Under(j)
        <5>1. ASSUME NEW w \in R[v], w \notin Under(j)  PROVE FALSE
          <6>1. w \in S /\ Degree(w) < Degree(v) /\ Degree(w) \in Nat
            BY <1>2, <1>3, <3>8
          <6> QED
            BY <3>7, <3>8, <5>1, <6>1
        <5> QED
          BY <3>8, <5>1
      <4>2. IsFiniteSet(Under(j))
        BY <1>0
      <4>3. Cardinality(R[v]) <= Cardinality(Under(j))
        BY <4>1, <4>2, FS_Subset
      <4> QED
        BY <3>5, <4>3 DEF Degree
    <3>10. Degree(v) = j
      BY <3>4, <3>8, <3>9
    <3>11. \A u \in S : Degree(u) = j => u = v
      BY <1>3, <3>4, <3>8, <3>10
    <3>12. Under(k) = Under(j) \cup {v}
      <4>1. \A u \in S : Degree(u) < k <=> Degree(u) < j \/ u = v
        BY <1>2, <3>4, <3>10, <3>11
      <4> QED
        BY <3>8, <4>1
    <3>13. Cardinality(Under(k)) = Cardinality(Under(j)) + 1
      <4>1. v \notin Under(j) /\ IsFiniteSet(Under(j))
        BY <1>0, <3>7
      <4> QED
        BY <3>12, <4>1, FS_AddElement
    <3> QED
      BY <3>2, <3>4, <3>5, <3>13
  <2> QED
    BY <2>1
<1> QED
  BY <1>2, <1>4, <1>5 DEF Degree
LEMMA CountApart ==
  ASSUME NEW S, NEW T, IsFiniteSet(S), IsFiniteSet(T), S \cap T = {}
  PROVE  /\ IsFiniteSet(S \cup T)
         /\ Cardinality(S \cup T) = Cardinality(S) + Cardinality(T)
         /\ Cardinality(S) \in Nat /\ Cardinality(T) \in Nat
<1>1. IsFiniteSet(S \cup T)
  BY FS_Union
<1>2. Cardinality(S \cup T) = Cardinality(S) + Cardinality(T) - Cardinality(S \cap T)
  BY FS_Union, Zenon
<1>3. Cardinality(S \cap T) = 0
  BY FS_EmptySet
<1>4. Cardinality(S) \in Nat /\ Cardinality(T) \in Nat
  BY FS_CardinalityType
<1> QED
  BY <1>1, <1>2, <1>3, <1>4

Excused ==
  \/ ByUpdate /\ (limit > 0 \/ since > 0)
  \/ lister = "ListAIR" /\ ~counted

AllItems == {1, 2} \X Nat \X Jobs

NewestTypes ==
  /\ lister \in Listers /\ limit \in Nat /\ since \in Nat
  /\ lister \in Unlimited => limit = 0 /\ since = 0
  /\ lister \in AtOnce => counted
  /\ late \in {{}, {1}}
  /\ lister \in {"ListAID"} \cup Unlimited => late = {}
  /\ newest \in Nat /\ newest <= NJobs /\ alive \subseteq 1 .. newest
  /\ steady0 \subseteq alive /\ removed \in Nat
  /\ owner \in [Jobs -> {1, 2}]
  /\ offset \in [{1, 2} -> Nat]
  /\ got \in [{1, 2} -> SUBSET AllItems] /\ \A p \in {1, 2} : IsFiniteSet(got[p])
  /\ part \in [{1, 2} -> {"reading", "read", "failed"}]
  /\ shown \in [state : {"reading", "listed", "error"}, items : SUBSET AllItems, warned : BOOLEAN]

LEMMA RanksDiffer ==
  ASSUME late \in {{}, {1}}
  PROVE  /\ \A j \in Jobs : Rank0(j) \in Nat
         /\ \A j, k \in Jobs : Rank0(j) = Rank0(k) => j = k
         /\ late = {} => \A j \in Jobs : Rank0(j) = j
BY NewestAssumption DEF Rank0, Jobs

\* The places of the jobs are those of their order, without a gap.
LEMMA PlaceIs ==
  ASSUME NewestTypes, NEW p
  PROVE  /\ InPart(p) \subseteq Jobs /\ IsFiniteSet(InPart(p)) /\ Cardinality(InPart(p)) \in Nat
         /\ \A j \in InPart(p) : Place(p, j) \in Nat /\ Place(p, j) < Cardinality(InPart(p))
         /\ \A j, k \in InPart(p) : Rank0(k) > Rank0(j) <=> Place(p, k) < Place(p, j)
         /\ \A n \in 0 .. Cardinality(InPart(p)) :
              Cardinality({j \in InPart(p) : Place(p, j) < n}) = n
<1>1. InPart(p) \subseteq Jobs /\ late \in {{}, {1}}
  <2>1. newest \in Nat /\ newest <= NJobs /\ alive \subseteq 1 .. newest /\ late \in {{}, {1}}
    BY DEF NewestTypes
  <2>2. alive \subseteq Jobs
    BY <2>1, NewestAssumption DEF Jobs
  <2> QED
    BY <2>1, <2>2 DEF InPart
<1>2. IsFiniteSet(Jobs)
  <2>1. 1 \in Int /\ NJobs \in Int
    BY NewestAssumption
  <2> QED
    BY <2>1, FS_Interval, Zenon DEF Jobs
<1>3. IsFiniteSet(InPart(p)) /\ Cardinality(InPart(p)) \in Nat
  BY <1>1, <1>2, FS_Subset, FS_CardinalityType
<1> DEFINE S == InPart(p)
           R == [j \in S |-> {k \in S : Rank0(k) > Rank0(j)}]
<1>4. \A j \in S : Place(p, j) = Cardinality(R[j])
  BY DEF Place
<1>5. \A j, k \in S : k \in R[j] <=> Rank0(k) > Rank0(j)
  OBVIOUS
<1>6. R \in [S -> SUBSET S]
  OBVIOUS
<1>7. \A j, k \in S : /\ Rank0(j) \in Nat /\ Rank0(k) \in Nat
                      /\ Rank0(j) = Rank0(k) => j = k
  BY <1>1, RanksDiffer
<1>8. /\ \A x \in S : x \notin R[x]
      /\ \A x, y \in S : x = y \/ x \in R[y] \/ y \in R[x]
  BY <1>5, <1>7
<1>9. \A x, y \in S : x \in R[y] => R[x] \subseteq R[y]
  <2> SUFFICES ASSUME NEW x \in S, NEW y \in S, x \in R[y], NEW z \in R[x]
               PROVE  z \in R[y]
    OBVIOUS
  <2>1. z \in S
    BY <1>6
  <2>2. Rank0(z) > Rank0(x) /\ Rank0(x) > Rank0(y)
    BY <1>5, <2>1
  <2> QED
    BY <1>5, <1>7, <2>1, <2>2
<1> HIDE DEF S, R
<1>10. /\ \A x \in S : Cardinality(R[x]) \in Nat /\ Cardinality(R[x]) < Cardinality(S)
       /\ \A x, y \in S : x \in R[y] <=> Cardinality(R[x]) < Cardinality(R[y])
       /\ \A n \in 0 .. Cardinality(S) : Cardinality({x \in S : Cardinality(R[x]) < n}) = n
  <2>1. IsFiniteSet(S)
    BY <1>3 DEF S
  <2> QED
    BY <1>6, <1>8, <1>9, <2>1, RanksFill
<1>11. \A n \in 0 .. Cardinality(S) : Cardinality({j \in S : Place(p, j) < n}) = n
  <2> TAKE n \in 0 .. Cardinality(S)
  <2>1. {j \in S : Place(p, j) < n} = {x \in S : Cardinality(R[x]) < n}
    BY <1>4
  <2> QED
    BY <1>10, <2>1
<1> QED
  <2>1. \A j, k \in S : Rank0(k) > Rank0(j) <=> Place(p, k) < Place(p, j)
    BY <1>4, <1>5, <1>10
  <2>2. \A j \in S : Place(p, j) \in Nat /\ Place(p, j) < Cardinality(S)
    BY <1>4, <1>10
  <2> QED
    BY <1>1, <1>3, <1>11, <2>1, <2>2 DEF S

LEMMA CutIs ==
  ASSUME limit \in Nat, NEW items \in SUBSET AllItems, IsFiniteSet(items)
  PROVE  /\ CutTo(items) \subseteq items
         /\ limit = 0 => CutTo(items) = items
         /\ limit > 0 /\ Cardinality(items) >= limit => Cardinality(CutTo(items)) = limit
         /\ \A i \in items \ CutTo(items) :
              /\ limit > 0 /\ Cardinality(CutTo(items)) = limit
              /\ \A k \in CutTo(items) : k[3] >= i[3]
         /\ \A T \in SUBSET items, j \in Jobs :
              limit > 0 /\ Cardinality(T) >= limit /\ (\A i \in T : i[3] > j) =>
                \A k \in CutTo(items) : k[3] > j
<1> DEFINE R == [i \in items |-> Ahead(i, items)]
<1>1. \A i \in items : i[1] \in {1, 2} /\ i[2] \in Nat /\ i[3] \in Nat /\ i = <<i[1], i[2], i[3]>>
  BY NewestAssumption DEF AllItems, Jobs
<1>2. R \in [items -> SUBSET items] /\ \A i \in items : R[i] = Ahead(i, items)
  BY DEF Ahead
<1>3. \A i, k \in items :
        k \in R[i] <=> \/ k[3] > i[3]
                       \/ k[3] = i[3] /\ (k[1] < i[1] \/ (k[1] = i[1] /\ k[2] < i[2]))
  BY <1>2 DEF Ahead
<1> HIDE DEF R
<1>4. \A x \in items : x \notin R[x]
  BY <1>1, <1>3
<1>5. \A x, y \in items : x = y \/ x \in R[y] \/ y \in R[x]
  <2> TAKE x, y \in items
  <2>1. x[1] = y[1] /\ x[2] = y[2] /\ x[3] = y[3] => x = y
    BY <1>1
  <2> QED
    BY <1>1, <1>3, <2>1
<1>6. \A x, y \in items : x \in R[y] => R[x] \subseteq R[y]
  <2> SUFFICES ASSUME NEW x \in items, NEW y \in items, x \in R[y], NEW z \in R[x]
               PROVE  z \in R[y]
    OBVIOUS
  <2>1. z \in items
    BY <1>2
  <2> QED
    BY <1>1, <1>3, <2>1
<1>7. /\ \A x \in items : Cardinality(R[x]) \in Nat /\ Cardinality(R[x]) < Cardinality(items)
      /\ \A x, y \in items : x \in R[y] <=> Cardinality(R[x]) < Cardinality(R[y])
      /\ \A n \in 0 .. Cardinality(items) : Cardinality({x \in items : Cardinality(R[x]) < n}) = n
  BY <1>2, <1>4, <1>5, <1>6, RanksFill
<1>8. CutTo(items) = IF limit > 0 THEN {i \in items : Cardinality(R[i]) < limit} ELSE items
  BY <1>2 DEF CutTo
<1>9. Cardinality(items) \in Nat /\ \A T \in SUBSET items : IsFiniteSet(T) /\ Cardinality(T) \in Nat
  BY FS_Subset, FS_CardinalityType
<1>10. limit > 0 /\ Cardinality(items) >= limit => Cardinality(CutTo(items)) = limit
  BY <1>7, <1>8, <1>9
<1>11. ASSUME NEW i \in items \ CutTo(items)
       PROVE  /\ limit > 0 /\ Cardinality(CutTo(items)) = limit
              /\ \A k \in CutTo(items) : k[3] >= i[3]
  <2>1. limit > 0 /\ Cardinality(R[i]) >= limit /\ Cardinality(items) >= limit
    BY <1>7, <1>8, <1>9, <1>11
  <2>2. ASSUME NEW k \in CutTo(items)  PROVE k[3] >= i[3]
    <3>1. k \in items /\ Cardinality(R[k]) < limit
      BY <1>8, <2>1, <2>2
    <3>2. Cardinality(R[k]) < Cardinality(R[i])
      BY <1>7, <2>1, <3>1
    <3> QED
      BY <1>1, <1>3, <1>7, <3>1, <3>2
  <2> QED
    BY <1>10, <2>1, <2>2
<1>12. ASSUME NEW T \in SUBSET items, NEW j \in Jobs, limit > 0, Cardinality(T) >= limit,
              \A i \in T : i[3] > j, NEW k \in CutTo(items)
       PROVE  k[3] > j
  <2>1. k \in items /\ Cardinality(R[k]) < limit /\ k[3] \in Nat /\ j \in Nat
    BY <1>1, <1>8, <1>12 DEF Jobs
  <2>2. ASSUME k[3] <= j  PROVE FALSE
    <3>1. T \in SUBSET R[k]
      BY <1>1, <1>3, <1>12, <2>1, <2>2
    <3>2. R[k] \in SUBSET items /\ IsFiniteSet(R[k])
      BY <1>2, <1>9, <2>1
    <3>3. Cardinality(T) <= Cardinality(R[k])
      BY <3>1, <3>2, FS_Subset
    <3> QED
      BY <1>7, <1>9, <1>12, <2>1, <3>3
  <2> QED
    BY <2>1, <2>2
<1>13. CutTo(items) \subseteq items /\ (limit = 0 => CutTo(items) = items)
  BY <1>8
<1>14. \A T \in SUBSET items, j \in Jobs :
         limit > 0 /\ Cardinality(T) >= limit /\ (\A i \in T : i[3] > j) =>
           \A k \in CutTo(items) : k[3] > j
  BY <1>12
<1> QED
  BY <1>10, <1>11, <1>13, <1>14

\* A page has no more than was asked for, and less only if it is the last.
LEMMA PageIs ==
  ASSUME NewestTypes, NEW p \in {1, 2}, SizeOf(p) \in Nat
  PROVE  /\ PageOf(p) \subseteq AllItems /\ IsFiniteSet(PageOf(p))
         /\ Cardinality(PageOf(p)) \in Nat /\ Cardinality(PageOf(p)) <= SizeOf(p)
         /\ \A j \in InPart(p) :
              Place(p, j) >= offset[p] + SizeOf(p) => Cardinality(PageOf(p)) = SizeOf(p)
         /\ \A i \in PageOf(p) :
              /\ i[3] \in InPart(p) /\ i[2] = Place(p, i[3]) /\ i = Item(p, i[3])
              /\ offset[p] <= i[2] /\ i[2] < offset[p] + SizeOf(p)
         /\ \A j \in InPart(p) :
              offset[p] <= Place(p, j) /\ Place(p, j) < offset[p] + SizeOf(p) =>
                Item(p, j) \in PageOf(p)
<1> DEFINE S == InPart(p)
           B(n) == {j \in S : Place(p, j) < n}
           o == offset[p]
           m == SizeOf(p)
           Q == {k \in S : o <= Place(p, k) /\ Place(p, k) < o + m}
<1>1. /\ S \subseteq Jobs /\ IsFiniteSet(S) /\ Cardinality(S) \in Nat
      /\ \A j \in S : Place(p, j) \in Nat /\ Place(p, j) < Cardinality(S)
      /\ \A n \in 0 .. Cardinality(S) : Cardinality(B(n)) = n
  BY PlaceIs
<1>2. o \in Nat /\ m \in Nat
  BY DEF NewestTypes
<1>3. PageOf(p) = {Item(p, j) : j \in Q}
  BY DEF PageOf
<1>4. Q \in SUBSET S /\ \A n : B(n) \in SUBSET S
  OBVIOUS
<1>5. \A j \in S : j \in Q <=> o <= Place(p, j) /\ Place(p, j) < o + m
  OBVIOUS
<1>6. \A n, j : j \in B(n) <=> j \in S /\ Place(p, j) < n
  OBVIOUS
<1> HIDE DEF S, B, o, m, Q
<1>7. \A T \in SUBSET S : IsFiniteSet(T) /\ Cardinality(T) \in Nat /\ Cardinality(T) <= Cardinality(S)
  BY <1>1, FS_Subset, FS_CardinalityType
<1>8. o + m \in Nat
  BY <1>2
<1>9. Cardinality(Q) + Cardinality(B(o)) = Cardinality(B(o + m))
  <2>1. Q \cup B(o) = B(o + m) /\ Q \cap B(o) = {}
    BY <1>1, <1>2, <1>4, <1>5, <1>6
  <2>2. IsFiniteSet(Q) /\ IsFiniteSet(B(o))
    BY <1>4, <1>7
  <2>3. Cardinality(Q \cup B(o)) = Cardinality(Q) + Cardinality(B(o))
    BY <2>1, <2>2, CountApart
  <2> QED
    BY <2>1, <2>3, Zenon
<1>10. Cardinality(Q) <= m
  <2>1. CASE o <= Cardinality(S)
    <3>1. Cardinality(B(o)) = o
      BY <1>1, <1>2, <2>1
    <3>2. Cardinality(B(o + m)) <= o + m
      <4>1. CASE o + m <= Cardinality(S)
        BY <1>1, <1>8, <4>1
      <4>2. CASE o + m > Cardinality(S)
        BY <1>1, <1>4, <1>7, <1>8, <4>2
      <4> QED
        BY <1>1, <1>8, <4>1, <4>2
    <3> QED
      BY <1>2, <1>4, <1>7, <1>9, <3>1, <3>2
  <2>2. CASE o > Cardinality(S)
    <3>1. Q = {}
      BY <1>1, <1>2, <1>4, <1>5, <2>2
    <3> QED
      BY <1>2, <3>1, FS_EmptySet
  <2> QED
    BY <1>1, <1>2, <2>1, <2>2
<1>11. ASSUME NEW j \in S, Place(p, j) >= o + m
       PROVE  Cardinality(Q) = m
  <2>1. o \in 0 .. Cardinality(S) /\ o + m \in 0 .. Cardinality(S)
    BY <1>1, <1>2, <1>11
  <2>2. Cardinality(B(o)) = o /\ Cardinality(B(o + m)) = o + m
    BY <1>1, <2>1
  <2> QED
    BY <1>2, <1>4, <1>7, <1>9, <2>2
<1>12. IsFiniteSet(PageOf(p)) /\ Cardinality(PageOf(p)) = Cardinality(Q)
  <2> DEFINE f == [j \in Q |-> Item(p, j)]
  <2>1. f \in Bijection(Q, PageOf(p))
    <3>1. f \in Surjection(Q, PageOf(p))
      BY <1>3 DEF Surjection
    <3>2. \A j, k \in Q : Item(p, j) = Item(p, k) => j = k
      BY DEF Item
    <3> QED
      BY <3>1, <3>2 DEF Bijection, Injection, Surjection, IsInjective
  <2>2. ExistsBijection(Q, PageOf(p)) /\ IsFiniteSet(Q)
    BY <1>4, <1>7, <2>1 DEF ExistsBijection
  <2> QED
    BY <2>2, FS_Bijection
<1>13. ASSUME NEW i \in PageOf(p)
       PROVE  /\ i \in AllItems /\ i[3] \in S /\ i[2] = Place(p, i[3]) /\ i = Item(p, i[3])
              /\ o <= i[2] /\ i[2] < o + m
  <2>1. PICK j \in Q : i = Item(p, j)
    BY <1>3, <1>13
  <2>2. j \in S /\ j \in Jobs /\ Place(p, j) \in Nat
    BY <1>1, <1>4
  <2>3. i[1] = p /\ i[2] = Place(p, j) /\ i[3] = j
    BY <2>1 DEF Item
  <2>4. i \in AllItems
    BY <2>1, <2>2 DEF Item, AllItems
  <2> QED
    BY <1>5, <2>1, <2>2, <2>3, <2>4
<1>14. \A j \in S : j \in Q => Item(p, j) \in PageOf(p)
  BY <1>3
<1> QED
  BY <1>4, <1>5, <1>7, <1>10, <1>11, <1>12, <1>13, <1>14 DEF S, o, m

\* While a part is read.
PartsInv ==
  \A p \in Parts : part[p] = "reading" =>
    /\ \A i \in got[p] : i[2] < offset[p]
    /\ limit > 0 => Cardinality(got[p]) < limit
    /\ lister = "ListAIR" => Cardinality(got[p]) = offset[p]

\* A job of the part that will not be received any more, and is not left out for
\* newer ones.
Slips(p, j) ==
  /\ Fresh(j) /\ \A i \in got[p] : i[3] # j
  /\ \/ /\ part[p] = "reading"
        /\ Place(p, j) < offset[p] \/ (limit > 0 /\ \E i \in got[p] : i[3] < j)
     \/ /\ part[p] = "read"
        /\ ~(limit > 0 /\ Cardinality(got[p]) >= limit /\ \A i \in got[p] : i[3] > j)

Slipped == {j \in steady0 : \E p \in Parts : j \in InPart(p) /\ Slips(p, j)}

NewestInv ==
  /\ NewestTypes /\ PartsInv
  /\ ~Excused => Cardinality(Slipped) <= removed
  /\ shown.state = "listed" => AllParts
  /\ NewestAreListed

LEMMA JobsAre == Jobs \subseteq Nat \ {0} /\ IsFiniteSet(Jobs) /\ {} \subseteq Jobs
<1>1. 1 \in Int /\ NJobs \in Int
  BY NewestAssumption
<1>2. IsFiniteSet(Jobs)
  BY <1>1, FS_Interval, Zenon DEF Jobs
<1> QED
  BY <1>2, NewestAssumption DEF Jobs

LEMMA SlippedAre ==
  ASSUME NewestTypes
  PROVE  /\ steady0 \subseteq Jobs /\ Slipped \subseteq Jobs /\ IsFiniteSet(Slipped)
         /\ Cardinality(Slipped) \in Nat
<1>1. steady0 \subseteq Jobs
  BY NewestAssumption DEF NewestTypes, Jobs
<1>2. Slipped \subseteq Jobs
  BY <1>1 DEF Slipped
<1> QED
  BY <1>1, <1>2, JobsAre, FS_Subset, FS_CardinalityType

LEMMA SlippedNext ==
  ASSUME NewestTypes'
  PROVE  Slipped' \subseteq Jobs /\ Cardinality(Slipped') \in Nat
<1>1. steady0' \subseteq Jobs
  BY NewestAssumption DEF NewestTypes, Jobs
<1>2. Slipped' \subseteq Jobs
  BY <1>1 DEF Slipped
<1> QED
  BY <1>2, JobsAre, FS_Subset, FS_CardinalityType

LEMMA NewestInitInv == NewestInit => NewestInv
<1> SUFFICES ASSUME NewestInit PROVE NewestInv
  OBVIOUS
<1>1. NewestTypes
  <2>1. newest \in Nat /\ newest <= NJobs
    BY NewestAssumption DEF NewestInit
  <2>2. limit \in Nat /\ since \in Nat
    BY NewestAssumption DEF NewestInit
  <2>3. offset \in [{1, 2} -> Nat] /\ got \in [{1, 2} -> SUBSET AllItems]
        /\ \A p \in {1, 2} : IsFiniteSet(got[p])
    BY FS_EmptySet DEF NewestInit
  <2>4. /\ part \in [{1, 2} -> {"reading", "read", "failed"}]
        /\ shown \in [state : {"reading", "listed", "error"}, items : SUBSET AllItems,
                      warned : BOOLEAN]
    BY DEF NewestInit
  <2> QED
    BY <2>1, <2>2, <2>3, <2>4 DEF NewestInit, NewestTypes
<1>2. Parts \subseteq {1, 2}
  BY DEF Parts
<1>3. \A p \in Parts : got[p] = {} /\ offset[p] = 0
  BY <1>2 DEF NewestInit
<1>4. PartsInv
  BY <1>3, FS_EmptySet DEF PartsInv
<1>5. Slipped = {}
  <2> SUFFICES ASSUME NEW j \in steady0, NEW p \in Parts, j \in InPart(p), Slips(p, j)
               PROVE  FALSE
    BY DEF Slipped
  <2>1. part[p] = "reading"
    BY <1>2 DEF NewestInit
  <2>2. Place(p, j) \in Nat
    BY <1>1, PlaceIs
  <2> QED
    BY <1>3, <2>1, <2>2 DEF Slips
<1>6. Cardinality(Slipped) <= removed
  BY <1>5, FS_EmptySet DEF NewestInit
<1>7. shown.state = "reading"
  BY DEF NewestInit
<1> QED
  BY <1>1, <1>4, <1>6, <1>7 DEF NewestInv, NewestAreListed

\* A page that is received leaves out nothing of what is before its end, and if it
\* is taken for the last nothing at all, but jobs that are too old or too many.
LEMMA PageSlips ==
  ASSUME NewestInv, ~Excused, NEW p \in Parts, ReadPage(p), NEW j \in steady0 \cap InPart(p),
         Slips(p, j)'
  PROVE  Slips(p, j)
<1> DEFINE page == PageOf(p)
           kept == Recent(page)
<1>1. NewestTypes /\ p \in {1, 2} /\ part[p] = "reading" /\ PartsInv
  BY DEF NewestInv, ReadPage, Parts
<1>2. SizeOf(p) \in Nat /\ SizeOf(p) > 0 /\ Cardinality(got[p]) \in Nat
      /\ (limit = 0 => SizeOf(p) = PageSize)
  <2>1. PageSize \in Nat \ {0} /\ limit \in Nat /\ IsFiniteSet(got[p])
    BY <1>1, NewestAssumption DEF NewestTypes
  <2>2. Cardinality(got[p]) \in Nat /\ (limit > 0 => Cardinality(got[p]) < limit)
    BY <1>1, <2>1, FS_CardinalityType DEF PartsInv
  <2> QED
    BY <2>1, <2>2 DEF SizeOf
<1>3. /\ IsFiniteSet(page) /\ Cardinality(page) \in Nat /\ Cardinality(page) <= SizeOf(p)
      /\ Place(p, j) >= offset[p] + SizeOf(p) => Cardinality(page) = SizeOf(p)
      /\ \A i \in page : /\ i[3] \in InPart(p) /\ i[2] = Place(p, i[3])
                         /\ offset[p] <= i[2] /\ i[2] < offset[p] + SizeOf(p)
      /\ offset[p] <= Place(p, j) /\ Place(p, j) < offset[p] + SizeOf(p) => Item(p, j) \in page
  BY <1>1, <1>2, PageIs
<1>4. /\ InPart(p) \subseteq Jobs /\ Cardinality(InPart(p)) \in Nat
      /\ \A k \in InPart(p) : Place(p, k) \in Nat /\ Place(p, k) < Cardinality(InPart(p))
      /\ \A k \in InPart(p) : Rank0(k) > Rank0(j) <=> Place(p, k) < Place(p, j)
  BY <1>1, PlaceIs
<1>5. got' = [got EXCEPT ![p] = @ \cup kept] /\ got'[p] = got[p] \cup kept
  BY <1>1 DEF ReadPage, NewestTypes
<1>6. Fresh(j) /\ \A i \in got[p] \cup kept : i[3] # j
  BY <1>5 DEF Slips, Fresh, ReadPage
<1>7. offset[p] \in Nat /\ j \in Nat /\ limit \in Nat /\ since \in Nat
      /\ \A i \in got[p] : i[3] \in Nat
  <2>1. offset[p] \in Nat /\ limit \in Nat /\ since \in Nat /\ got[p] \subseteq AllItems
    BY <1>1 DEF NewestTypes
  <2>2. \A i \in AllItems : i[3] \in Nat
    BY JobsAre DEF AllItems
  <2> QED
    BY <1>4, <2>1, <2>2, JobsAre
<1> SUFFICES ASSUME ~Slips(p, j) PROVE FALSE
  OBVIOUS
<1>8. Place(p, j) >= offset[p] /\ (limit > 0 => \A i \in got[p] : i[3] > j)
  BY <1>1, <1>4, <1>6, <1>7 DEF Slips
<1>9. Place(p, j) >= offset[p] + SizeOf(p) /\ Cardinality(page) = SizeOf(p)
  <2>1. Item(p, j) \notin page
    <3>1. Item(p, j)[3] = j
      BY DEF Item
    <3> QED
      BY <1>6, <3>1 DEF Recent
  <2> QED
    BY <1>2, <1>3, <1>4, <1>7, <1>8, <2>1
<1>10. limit > 0 \/ since > 0 => \A i \in page : i[3] \in Nat /\ i[3] > j
  <2> SUFFICES ASSUME limit > 0 \/ since > 0, NEW i \in page PROVE i[3] \in Nat /\ i[3] > j
    OBVIOUS
  <2>1. late = {}
    BY <1>1 DEF Excused, ByUpdate, NewestTypes
  <2>2. i[3] \in InPart(p) /\ i[3] \in Jobs /\ j \in Jobs /\ Place(p, i[3]) < Place(p, j)
    BY <1>2, <1>3, <1>4, <1>7, <1>9
  <2>3. Rank0(i[3]) > Rank0(j)
    BY <1>4, <2>2
  <2> QED
    BY <1>1, <2>1, <2>2, <2>3, RanksDiffer, JobsAre DEF NewestTypes
<1>11. kept \subseteq page /\ (limit > 0 => \A i \in got[p] \cup kept : i[3] > j)
  BY <1>8, <1>10 DEF Recent
<1>12. kept = page
  <2> SUFFICES ASSUME NEW i \in page PROVE i[3] >= since
    BY DEF Recent, Fresh
  <2>1. CASE since > 0
    BY <1>6, <1>7, <1>10, <2>1 DEF Fresh
  <2>2. CASE since = 0
    BY <1>3, <1>4, <2>2, JobsAre
  <2> QED
    BY <1>7, <2>1, <2>2
<1> HIDE DEF kept, page
<1>13. ~(offset[p] + Cardinality(page) >= Cardinality(InPart(p)))
  BY <1>2, <1>4, <1>7, <1>9
<1>14. CASE part'[p] = "reading"
  <2>1. offset'[p] = offset[p] + Cardinality(page)
    BY <1>1, <1>14 DEF ReadPage, NewestTypes, page, kept
  <2>2. Place(p, j)' = Place(p, j) /\ limit' = limit
    BY DEF ReadPage, Place, InPart, Rank0
  <2>3. Place(p, j)' < offset'[p] \/ (limit' > 0 /\ \E i \in got'[p] : i[3] < j)
    BY <1>14 DEF Slips
  <2>4. Place(p, j) >= offset[p] + Cardinality(page) /\ Place(p, j) \in Nat
    BY <1>4, <1>9
  <2>5. ~(Place(p, j) < offset[p] + Cardinality(page))
    BY <1>3, <1>7, <2>4
  <2>6. PICK i \in got'[p] : i[3] < j /\ limit > 0
    BY <2>1, <2>2, <2>3, <2>5
  <2>7. i[3] > j /\ i[3] \in Nat
    BY <1>5, <1>7, <1>10, <1>11, <2>6
  <2> QED
    BY <1>7, <2>6, <2>7
<1>15. CASE part'[p] = "read"
  <2>1. IF lister = "ListAIR" THEN LastAIRPage(p, page) ELSE LastPage(p, page, kept)
    BY <1>1, <1>15 DEF ReadPage, NewestTypes, page, kept
  <2>2. ~(limit' > 0 /\ Cardinality(got'[p]) >= limit' /\ \A i \in got'[p] : i[3] > j)
    BY <1>15 DEF Slips
  <2>3. limit' = limit /\ limit > 0 => ~(Cardinality(got[p]) + Cardinality(kept) >= limit)
    <3> SUFFICES ASSUME limit > 0 PROVE ~(Cardinality(got[p]) + Cardinality(kept) >= limit)
      BY DEF ReadPage
    <3>1. limit' = limit
      BY DEF ReadPage
    <3>2. got[p] \cap kept = {}
      <4> SUFFICES ASSUME NEW i \in got[p], i \in page PROVE FALSE
        BY <1>12
      <4>1. i[2] < offset[p] /\ i[2] \in Nat
        BY <1>1 DEF PartsInv, NewestTypes, AllItems
      <4>2. offset[p] <= i[2]
        BY <1>3 DEF page
      <4> QED
        BY <1>7, <4>1, <4>2
    <3>3. IsFiniteSet(got[p]) /\ IsFiniteSet(kept)
      BY <1>1, <1>3, <1>12 DEF NewestTypes, page
    <3>4. Cardinality(got'[p]) = Cardinality(got[p]) + Cardinality(kept)
      BY <1>5, <3>2, <3>3, CountApart
    <3> QED
      BY <1>5, <1>11, <2>2, <3>1, <3>4
  <2>4. CASE lister = "ListAIR"
    <3>1. limit = 0 /\ counted /\ Cardinality(got[p]) = offset[p]
      BY <1>1, <2>4 DEF NewestTypes, Unlimited, Excused, PartsInv
    <3>2. ~(Cardinality(page) < PageSize)
      BY <1>2, <1>9, <3>1
    <3> QED
      BY <1>13, <2>1, <2>4, <3>1, <3>2 DEF LastAIRPage
  <2>5. CASE lister # "ListAIR"
    <3>1. ~(Cardinality(kept) < Cardinality(page)) /\ ~(Cardinality(page) < SizeOf(p))
      BY <1>2, <1>9, <1>12
    <3>2. limit' = limit
      BY DEF ReadPage
    <3> QED
      BY <1>13, <2>1, <2>3, <2>5, <3>1, <3>2 DEF LastPage
  <2> QED
    BY <2>4, <2>5
<1>16. part'[p] \in {"reading", "read"}
  BY DEF Slips
<1> QED
  BY <1>14, <1>15, <1>16

\* A step of a reading that leaves out no more.
LEMMA NoMoreSlips ==
  ASSUME NewestInv, NewestTypes', ~Excused, Slipped' \subseteq Slipped, removed' = removed
  PROVE  Cardinality(Slipped') <= removed'
<1>1. IsFiniteSet(Slipped) /\ Cardinality(Slipped) \in Nat /\ Cardinality(Slipped) <= removed
      /\ removed \in Nat
  BY SlippedAre DEF NewestInv, NewestTypes
<1>2. Slipped' \in SUBSET Slipped
  OBVIOUS
<1>3. Cardinality(Slipped') <= Cardinality(Slipped) /\ Cardinality(Slipped') \in Nat
  BY <1>1, <1>2, FS_Subset, FS_CardinalityType
<1> QED
  BY <1>1, <1>3

\* Nothing but the parts changes.
Settled ==
  UNCHANGED <<lister, limit, since, counted, owner, late, newest, alive, steady0, removed, shown>>

LEMMA SettledIs ==
  ASSUME Settled
  PROVE  /\ Parts' = Parts /\ Excused' = Excused
         /\ \A p : InPart(p)' = InPart(p)
         /\ \A p, j : Place(p, j)' = Place(p, j)
         /\ \A j : Fresh(j)' = Fresh(j)
<1>1. Parts' = Parts
  BY DEF Settled, Parts
<1>2. Excused' = Excused
  BY DEF Settled, Excused, ByUpdate
<1>3. \A p : InPart(p)' = InPart(p)
  BY DEF Settled, InPart
<1>4. \A p, j : Place(p, j)' = Place(p, j)
  BY <1>3 DEF Settled, Place, Rank0, InPart
<1>5. \A j : Fresh(j)' = Fresh(j)
  BY DEF Settled, Fresh
<1> QED
  BY <1>1, <1>2, <1>3, <1>4, <1>5

\* What the steps of one part come to.
LEMMA PartNext ==
  ASSUME NewestInv, Settled, NEW p \in Parts, part[p] = "reading", NewestTypes', PartsInv',
         \A q \in Parts \ {p} :
           got'[q] = got[q] /\ offset'[q] = offset[q] /\ part'[q] = part[q],
         ~Excused => \A j \in steady0 \cap InPart(p) : Slips(p, j)' => Slips(p, j)
  PROVE  NewestInv'
<1>1. shown.state # "listed" /\ shown' = shown
  BY DEF NewestInv, AllParts, Settled
<1>2. ASSUME ~Excused, NEW j \in Slipped'
      PROVE  j \in Slipped
  <2>1. PICK q \in Parts : j \in steady0 /\ j \in InPart(q) /\ Slips(q, j)'
    BY <1>2, SettledIs DEF Slipped, Settled
  <2>2. CASE q = p
    BY <1>2, <2>1, <2>2 DEF Slipped
  <2>3. CASE q # p
    <3>1. Slips(q, j)' => Slips(q, j)
      <4>1. got'[q] = got[q] /\ offset'[q] = offset[q] /\ part'[q] = part[q]
        BY <2>3
      <4>2. Place(q, j)' = Place(q, j) /\ Fresh(j)' = Fresh(j) /\ limit' = limit
        BY SettledIs DEF Settled
      <4> QED
        BY <4>1, <4>2 DEF Slips
    <3> QED
      BY <2>1, <3>1 DEF Slipped
  <2> QED
    BY <2>2, <2>3
<1>3. ~Excused' => Cardinality(Slipped') <= removed'
  <2>1. removed' = removed /\ Excused' = Excused
    BY SettledIs DEF Settled
  <2> QED
    BY <1>2, <2>1, NoMoreSlips
<1> QED
  BY <1>1, <1>3 DEF NewestInv, NewestAreListed

LEMMA ReadPageNext ==
  ASSUME NewestInv, NEW p \in Parts, ReadPage(p)
  PROVE  NewestInv'
<1> DEFINE page == PageOf(p)
           kept == Recent(page)
<1>1. NewestTypes /\ p \in {1, 2} /\ part[p] = "reading" /\ PartsInv /\ Settled
  BY DEF NewestInv, ReadPage, Parts, Settled
<1>2. SizeOf(p) \in Nat
  <2>1. PageSize \in Nat \ {0} /\ limit \in Nat /\ IsFiniteSet(got[p])
    BY <1>1, NewestAssumption DEF NewestTypes
  <2>2. Cardinality(got[p]) \in Nat /\ (limit > 0 => Cardinality(got[p]) < limit)
    BY <1>1, <2>1, FS_CardinalityType DEF PartsInv
  <2> QED
    BY <2>1, <2>2 DEF SizeOf
<1>3. /\ page \subseteq AllItems /\ IsFiniteSet(page) /\ Cardinality(page) \in Nat
      /\ Cardinality(page) <= SizeOf(p)
      /\ \A i \in page : i[2] \in Nat /\ offset[p] <= i[2]
      /\ \A j \in InPart(p) :
           Place(p, j) >= offset[p] + SizeOf(p) => Cardinality(page) = SizeOf(p)
      /\ \A i \in page : /\ i[3] \in InPart(p) /\ i[2] = Place(p, i[3])
                         /\ i[2] < offset[p] + SizeOf(p)
  BY <1>1, <1>2, PageIs, PlaceIs
<1>4. kept \subseteq page /\ IsFiniteSet(kept) /\ Cardinality(kept) \in Nat
      /\ Cardinality(kept) <= Cardinality(page)
      /\ (Cardinality(kept) = Cardinality(page) => kept = page)
  <2>1. kept \in SUBSET page
    BY DEF Recent
  <2> QED
    BY <1>3, <2>1, FS_Subset, FS_CardinalityType
<1> HIDE DEF kept
<1>5. got' = [got EXCEPT ![p] = got[p] \cup kept]
  BY DEF ReadPage, kept
<1>6. \/ /\ part' = [part EXCEPT ![p] = "read"] /\ offset' = offset
      \/ /\ offset' = [offset EXCEPT ![p] = offset[p] + Cardinality(page)] /\ part' = part
         /\ ~(IF lister = "ListAIR" THEN LastAIRPage(p, page) ELSE LastPage(p, page, kept))
  BY DEF ReadPage, kept
<1> HIDE DEF page
<1>7. offset[p] \in Nat /\ got[p] \subseteq AllItems /\ IsFiniteSet(got[p])
      /\ Cardinality(got[p]) \in Nat
  BY <1>1, FS_CardinalityType DEF NewestTypes
<1>8. got'[p] = got[p] \cup kept /\ got'[p] \subseteq AllItems /\ IsFiniteSet(got'[p])
  <2>1. got'[p] = got[p] \cup kept
    BY <1>1, <1>5 DEF NewestTypes
  <2>2. IsFiniteSet(got[p] \cup kept)
    BY <1>4, <1>7, FS_Union
  <2> QED
    BY <1>3, <1>4, <1>7, <2>1, <2>2
<1>9. \A q \in {1, 2} \ {p} : got'[q] = got[q] /\ offset'[q] = offset[q] /\ part'[q] = part[q]
  BY <1>1, <1>5, <1>6 DEF NewestTypes
<1>10. offset' \in [{1, 2} -> Nat] /\ part' \in [{1, 2} -> {"reading", "read", "failed"}]
       /\ got' \in [{1, 2} -> SUBSET AllItems] /\ \A q \in {1, 2} : IsFiniteSet(got'[q])
  <2>1. got' \in [{1, 2} -> SUBSET AllItems]
    BY <1>1, <1>5, <1>8 DEF NewestTypes
  <2>2. \A q \in {1, 2} : IsFiniteSet(got'[q])
    BY <1>1, <1>8, <1>9 DEF NewestTypes
  <2>3. offset' \in [{1, 2} -> Nat] /\ part' \in [{1, 2} -> {"reading", "read", "failed"}]
    <3>1. offset[p] + Cardinality(page) \in Nat
      BY <1>3, <1>7
    <3> QED
      BY <1>1, <1>6, <3>1 DEF NewestTypes
  <2> QED
    BY <2>1, <2>2, <2>3
<1>11. NewestTypes'
  BY <1>1, <1>10 DEF NewestTypes, Settled
<1>12. ASSUME part'[p] = "reading"
       PROVE  PartsInv'
  <2>1. offset' = [offset EXCEPT ![p] = offset[p] + Cardinality(page)] /\ part' = part
        /\ ~(IF lister = "ListAIR" THEN LastAIRPage(p, page) ELSE LastPage(p, page, kept))
    BY <1>1, <1>6, <1>12 DEF NewestTypes
  <2>2. offset'[p] = offset[p] + Cardinality(page)
    BY <1>1, <2>1 DEF NewestTypes
  <2>3. got[p] \cap kept = {}
    <3> SUFFICES ASSUME NEW i \in got[p], i \in page PROVE FALSE
      BY <1>4
    <3>1. i[2] < offset[p] /\ i[2] \in Nat
      BY <1>1 DEF PartsInv, NewestTypes, AllItems
    <3> QED
      BY <1>3, <1>7, <3>1
  <2>4. Cardinality(got'[p]) = Cardinality(got[p]) + Cardinality(kept)
    BY <1>4, <1>7, <1>8, <2>3, CountApart
  <2>5. Cardinality(page) = SizeOf(p) /\ kept = page
    <3>1. CASE lister = "ListAIR"
      <4>1. limit = 0 /\ since = 0
        BY <1>1, <3>1 DEF NewestTypes, Unlimited
      <4>2. ~(Cardinality(page) < PageSize) /\ SizeOf(p) = PageSize
        BY <2>1, <3>1, <4>1 DEF LastAIRPage, SizeOf
      <4>3. kept = page
        <5>1. \A i \in page : i[3] \in Nat
          BY <1>1, <1>3, PlaceIs, JobsAre
        <5> QED
          BY <4>1, <5>1 DEF kept, Recent, Fresh, page
      <4> QED
        BY <1>2, <1>3, <4>2, <4>3
    <3>2. CASE lister # "ListAIR"
      <4>1. ~(Cardinality(page) < SizeOf(p)) /\ ~(Cardinality(kept) < Cardinality(page))
        BY <2>1, <3>2 DEF LastPage
      <4> QED
        BY <1>2, <1>3, <1>4, <4>1
    <3> QED
      BY <3>1, <3>2
  <2>6. \A i \in got'[p] : i[2] < offset'[p]
    <3> SUFFICES ASSUME NEW i \in got'[p] PROVE i[2] < offset[p] + Cardinality(page)
      BY <2>2
    <3>1. CASE i \in got[p]
      <4>1. i[2] < offset[p] /\ i[2] \in Nat
        BY <1>1, <3>1 DEF PartsInv, NewestTypes, AllItems
      <4> QED
        BY <1>3, <1>7, <4>1
    <3>2. CASE i \in kept
      BY <1>3, <1>4, <2>5, <3>2
    <3> QED
      BY <1>8, <3>1, <3>2
  <2>7. limit > 0 => Cardinality(got'[p]) < limit
    <3> SUFFICES ASSUME limit > 0 PROVE ~(Cardinality(got[p]) + Cardinality(kept) >= limit)
      BY <1>1, <1>4, <1>7, <2>4 DEF NewestTypes
    <3>1. lister # "ListAIR"
      BY <1>1 DEF NewestTypes, Unlimited
    <3> QED
      BY <2>1, <3>1 DEF LastPage
  <2>8. lister = "ListAIR" => Cardinality(got'[p]) = offset'[p]
    BY <1>1, <1>12, <2>2, <2>4, <2>5 DEF PartsInv
  <2>9. PartsInv'
    <3> SUFFICES ASSUME NEW q \in Parts, part'[q] = "reading"
                 PROVE  /\ \A i \in got'[q] : i[2] < offset'[q]
                        /\ limit > 0 => Cardinality(got'[q]) < limit
                        /\ lister = "ListAIR" => Cardinality(got'[q]) = offset'[q]
      BY <1>1, SettledIs DEF PartsInv, Settled
    <3>1. CASE q = p
      BY <2>6, <2>7, <2>8, <3>1
    <3>2. CASE q # p
      <4>1. got'[q] = got[q] /\ offset'[q] = offset[q] /\ part'[q] = part[q]
        BY <1>9, <3>2 DEF Parts
      <4> QED
        BY <1>1, <4>1 DEF PartsInv
    <3> QED
      BY <3>1, <3>2
  <2> QED
    BY <2>9
<1>13. ASSUME part'[p] # "reading"
       PROVE  PartsInv'
  <2> SUFFICES ASSUME NEW q \in Parts, part'[q] = "reading"
               PROVE  /\ \A i \in got'[q] : i[2] < offset'[q]
                      /\ limit > 0 => Cardinality(got'[q]) < limit
                      /\ lister = "ListAIR" => Cardinality(got'[q]) = offset'[q]
    BY <1>1, SettledIs DEF PartsInv, Settled
  <2>1. got'[q] = got[q] /\ offset'[q] = offset[q] /\ part'[q] = part[q]
    BY <1>9, <1>13 DEF Parts
  <2> QED
    BY <1>1, <2>1 DEF PartsInv
<1>14. ~Excused => \A j \in steady0 \cap InPart(p) : Slips(p, j)' => Slips(p, j)
  BY PageSlips
<1>15. \A q \in Parts \ {p} : got'[q] = got[q] /\ offset'[q] = offset[q] /\ part'[q] = part[q]
  BY <1>9 DEF Parts
<1> QED
  BY <1>1, <1>11, <1>12, <1>13, <1>14, <1>15, PartNext

LEMMA ReadAllNext ==
  ASSUME NewestInv, NEW p \in Parts, ReadAll(p)
  PROVE  NewestInv'
<1> DEFINE items == Recent({Item(p, j) : j \in InPart(p)})
<1>1. NewestTypes /\ p \in {1, 2} /\ part[p] = "reading" /\ PartsInv /\ Settled
  BY DEF NewestInv, ReadAll, Parts, Settled
<1>2. InPart(p) \subseteq Jobs /\ IsFiniteSet(InPart(p)) /\ \A j \in InPart(p) : Place(p, j) \in Nat
  BY <1>1, PlaceIs
<1>3. items \in SUBSET AllItems /\ IsFiniteSet(items)
  <2> DEFINE all == {Item(p, j) : j \in InPart(p)}
             f == [j \in InPart(p) |-> Item(p, j)]
  <2>1. f \in Surjection(InPart(p), all)
    BY DEF Surjection
  <2>2. IsFiniteSet(all)
    BY <1>2, <2>1, FS_Surjection
  <2>3. items \in SUBSET all
    BY DEF Recent
  <2>4. all \subseteq AllItems
    BY <1>1, <1>2 DEF Item, AllItems
  <2>5. items \in SUBSET AllItems
    BY <2>4 DEF Recent
  <2> HIDE DEF all, items
  <2>6. IsFiniteSet(items)
    BY <2>2, <2>3, FS_Subset
  <2> QED
    BY <2>5, <2>6
<1>4. \A j \in InPart(p) : Fresh(j) => \E i \in items : i[3] = j
  <2> SUFFICES ASSUME NEW j \in InPart(p), Fresh(j) PROVE Item(p, j) \in items /\ Item(p, j)[3] = j
    OBVIOUS
  <2>1. Item(p, j)[3] = j
    BY DEF Item
  <2>2. Item(p, j) \in {Item(p, k) : k \in InPart(p)}
    OBVIOUS
  <2> QED
    BY <2>1, <2>2 DEF Recent
<1>5. got' = [got EXCEPT ![p] = CutTo(items)] /\ part' = [part EXCEPT ![p] = "read"]
      /\ offset' = offset
  BY DEF ReadAll
<1> HIDE DEF items
<1>6. limit \in Nat /\ CutTo(items) \subseteq items /\ (limit = 0 => CutTo(items) = items)
      /\ \A i \in items \ CutTo(items) :
           /\ limit > 0 /\ Cardinality(CutTo(items)) = limit
           /\ \A k \in CutTo(items) : k[3] >= i[3]
  <2>1. limit \in Nat
    BY <1>1 DEF NewestTypes
  <2> QED
    BY <1>3, <2>1, CutIs
<1>7. got'[p] = CutTo(items) /\ got'[p] \subseteq AllItems /\ IsFiniteSet(got'[p]) /\ part'[p] = "read"
  <2>1. got'[p] = CutTo(items) /\ part'[p] = "read"
    BY <1>1, <1>5 DEF NewestTypes
  <2> QED
    BY <1>3, <1>6, <2>1, FS_Subset
<1>8. \A q \in {1, 2} \ {p} : got'[q] = got[q] /\ offset'[q] = offset[q] /\ part'[q] = part[q]
  BY <1>1, <1>5 DEF NewestTypes
<1>9. NewestTypes'
  <2>1. got' \in [{1, 2} -> SUBSET AllItems]
    BY <1>1, <1>5, <1>7 DEF NewestTypes
  <2>2. \A q \in {1, 2} : IsFiniteSet(got'[q])
    BY <1>1, <1>7, <1>8 DEF NewestTypes
  <2>3. offset' \in [{1, 2} -> Nat] /\ part' \in [{1, 2} -> {"reading", "read", "failed"}]
    BY <1>1, <1>5 DEF NewestTypes
  <2> QED
    BY <1>1, <2>1, <2>2, <2>3 DEF NewestTypes, Settled
<1>10. PartsInv'
  <2> SUFFICES ASSUME NEW q \in Parts, part'[q] = "reading"
               PROVE  /\ \A i \in got'[q] : i[2] < offset'[q]
                      /\ limit > 0 => Cardinality(got'[q]) < limit
                      /\ lister = "ListAIR" => Cardinality(got'[q]) = offset'[q]
    BY <1>1, SettledIs DEF PartsInv, Settled
  <2>1. got'[q] = got[q] /\ offset'[q] = offset[q] /\ part'[q] = part[q]
    BY <1>7, <1>8 DEF Parts
  <2> QED
    BY <1>1, <2>1 DEF PartsInv
<1>11. ASSUME NEW j \in steady0 \cap InPart(p), Slips(p, j)'
       PROVE  FALSE
  <2>1. Fresh(j)' /\ (\A i \in got'[p] : i[3] # j) /\ limit' = limit
        /\ ~(limit' > 0 /\ Cardinality(got'[p]) >= limit' /\ \A i \in got'[p] : i[3] > j)
    BY <1>1, <1>7, <1>11 DEF Slips, Settled
  <2>2. PICK i \in items : i[3] = j
    BY <1>1, <1>4, <2>1, SettledIs
  <2>3. i \notin CutTo(items)
    BY <1>7, <2>1, <2>2
  <2>4. limit > 0 /\ Cardinality(CutTo(items)) = limit /\ \A k \in CutTo(items) : k[3] >= j
    BY <1>6, <2>2, <2>3
  <2>5. \A k \in CutTo(items) : k[3] \in Nat /\ j \in Nat /\ k[3] # j
    <3>1. j \in Nat
      BY <1>2, JobsAre
    <3>2. \A k \in AllItems : k[3] \in Nat
      BY JobsAre DEF AllItems
    <3> QED
      BY <1>7, <2>1, <3>1, <3>2
  <2>6. \A k \in CutTo(items) : k[3] > j
    BY <2>4, <2>5
  <2>7. Cardinality(CutTo(items)) >= limit
    BY <1>6, <2>4
  <2> QED
    BY <1>7, <2>1, <2>4, <2>6, <2>7
<1>12. \A q \in Parts \ {p} : got'[q] = got[q] /\ offset'[q] = offset[q] /\ part'[q] = part[q]
  BY <1>8 DEF Parts
<1> QED
  BY <1>1, <1>9, <1>10, <1>11, <1>12, PartNext

LEMMA FailPartNext ==
  ASSUME NewestInv, NEW p \in Parts, FailPart(p)
  PROVE  NewestInv'
<1>1. NewestTypes /\ p \in {1, 2} /\ part[p] = "reading" /\ PartsInv /\ Settled
  BY DEF NewestInv, FailPart, Parts, Settled
<1>2. got' = [got EXCEPT ![p] = {}] /\ part' = [part EXCEPT ![p] = "failed"] /\ offset' = offset
  BY DEF FailPart
<1>3. got'[p] = {} /\ part'[p] = "failed"
  BY <1>1, <1>2 DEF NewestTypes
<1>4. \A q \in {1, 2} \ {p} : got'[q] = got[q] /\ offset'[q] = offset[q] /\ part'[q] = part[q]
  BY <1>1, <1>2 DEF NewestTypes
<1>5. NewestTypes'
  <2>1. got' \in [{1, 2} -> SUBSET AllItems]
    BY <1>1, <1>2 DEF NewestTypes
  <2>2. \A q \in {1, 2} : IsFiniteSet(got'[q])
    <3>1. \A q \in {1, 2} : IsFiniteSet(got[q])
      BY <1>1 DEF NewestTypes
    <3> QED
      BY <1>1, <1>3, <1>4, <3>1, FS_EmptySet
  <2>3. offset' \in [{1, 2} -> Nat] /\ part' \in [{1, 2} -> {"reading", "read", "failed"}]
    BY <1>1, <1>2 DEF NewestTypes
  <2> QED
    BY <1>1, <2>1, <2>2, <2>3 DEF NewestTypes, Settled
<1>6. PartsInv'
  <2> SUFFICES ASSUME NEW q \in Parts, part'[q] = "reading"
               PROVE  /\ \A i \in got'[q] : i[2] < offset'[q]
                      /\ limit > 0 => Cardinality(got'[q]) < limit
                      /\ lister = "ListAIR" => Cardinality(got'[q]) = offset'[q]
    BY <1>1, SettledIs DEF PartsInv, Settled
  <2>1. got'[q] = got[q] /\ offset'[q] = offset[q] /\ part'[q] = part[q]
    BY <1>3, <1>4 DEF Parts
  <2> QED
    BY <1>1, <2>1 DEF PartsInv
<1>7. \A j \in steady0 \cap InPart(p) : Slips(p, j)' => Slips(p, j)
  BY <1>3 DEF Slips
<1>8. \A q \in Parts \ {p} : got'[q] = got[q] /\ offset'[q] = offset[q] /\ part'[q] = part[q]
  BY <1>4 DEF Parts
<1> QED
  BY <1>1, <1>5, <1>6, <1>7, <1>8, PartNext

LEMMA JobCreatedNext ==
  ASSUME NewestInv, JobCreated
  PROVE  NewestInv'
<1>1. /\ NewestTypes /\ PartsInv /\ shown.state # "listed" /\ shown' = shown
      /\ newest < NJobs /\ newest' = newest + 1 /\ alive' = alive \cup {newest'}
      /\ steady0' = steady0 /\ removed' = removed /\ got' = got /\ offset' = offset /\ part' = part
      /\ lister' = lister /\ limit' = limit /\ since' = since /\ counted' = counted
      /\ owner' = owner /\ late' = late
  BY DEF NewestInv, JobCreated, Changing
<1>2. NewestTypes'
  <2>1. newest' \in Nat /\ newest' <= NJobs /\ alive' \subseteq 1 .. newest'
    BY <1>1, NewestAssumption DEF NewestTypes
  <2>2. steady0' \subseteq alive'
    BY <1>1 DEF NewestTypes
  <2> QED
    BY <1>1, <2>1, <2>2 DEF NewestTypes
<1>3. Parts' = Parts /\ Excused' = Excused
  <2>1. Parts' = Parts
    BY <1>1 DEF Parts
  <2> QED
    BY <1>1, <2>1 DEF Excused, ByUpdate
<1>4. PartsInv'
  BY <1>1, <1>3 DEF PartsInv
<1>5. ASSUME NEW j \in Slipped'
      PROVE  j \in Slipped
  <2>1. PICK q \in Parts : j \in steady0 /\ j \in InPart(q)' /\ Slips(q, j)'
    BY <1>1, <1>3, <1>5 DEF Slipped
  <2>2. j \in InPart(q) /\ InPart(q) \subseteq InPart(q)'
    BY <1>1, <2>1 DEF InPart, NewestTypes
  <2>3. Place(q, j) \in Nat /\ Place(q, j)' \in Nat /\ Place(q, j) <= Place(q, j)'
    <3> DEFINE K == {k \in InPart(q) : Rank0(k) > Rank0(j)}
               L == {k \in InPart(q)' : Rank0(k) > Rank0(j)}
    <3>1. \A k : Rank0(k)' = Rank0(k)
      BY <1>1 DEF Rank0
    <3>2. Place(q, j) = Cardinality(K) /\ Place(q, j)' = Cardinality(L)
      BY <3>1 DEF Place
    <3>3. IsFiniteSet(InPart(q)')
      <4>1. newest' \in Nat /\ newest' <= NJobs /\ alive' \subseteq 1 .. newest'
        BY <1>2 DEF NewestTypes
      <4>2. alive' \subseteq Jobs
        BY <4>1, NewestAssumption DEF Jobs
      <4>3. InPart(q)' \subseteq Jobs
        BY <4>2 DEF InPart
      <4> QED
        BY <4>3, JobsAre, FS_Subset
    <3>4. L \in SUBSET (InPart(q)') /\ K \in SUBSET L
      BY <2>2
    <3>5. IsFiniteSet(L)
      BY <3>3, <3>4, FS_Subset
    <3> HIDE DEF K, L
    <3>6. Cardinality(K) <= Cardinality(L) /\ Cardinality(K) \in Nat /\ Cardinality(L) \in Nat
      BY <3>4, <3>5, FS_Subset, FS_CardinalityType
    <3> QED
      BY <3>2, <3>6
  <2>4. Slips(q, j)
    <3>1. Fresh(j)' = Fresh(j) /\ offset[q] \in Nat
      BY <1>1 DEF Fresh, NewestTypes, Parts
    <3>2. Place(q, j)' < offset[q] => Place(q, j) < offset[q]
      BY <2>3, <3>1
    <3> QED
      BY <1>1, <2>1, <3>1, <3>2 DEF Slips
  <2> QED
    BY <2>1, <2>2, <2>4 DEF Slipped
<1>6. ~Excused' => Cardinality(Slipped') <= removed'
  BY <1>1, <1>2, <1>3, <1>5, NoMoreSlips
<1> QED
  BY <1>1, <1>2, <1>4, <1>6 DEF NewestInv, NewestAreListed

LEMMA JobDeletedNext ==
  ASSUME NewestInv, NEW d \in Jobs, JobDeleted(d)
  PROVE  NewestInv'
<1>1. /\ NewestTypes /\ PartsInv /\ shown.state # "listed" /\ shown' = shown
      /\ newest' = newest /\ alive' = alive \ {d} /\ steady0' = steady0 \ {d}
      /\ removed' = removed + 1 /\ got' = got /\ offset' = offset /\ part' = part
      /\ lister' = lister /\ limit' = limit /\ since' = since /\ counted' = counted
      /\ owner' = owner /\ late' = late
  BY DEF NewestInv, JobDeleted, Changing
<1>2. NewestTypes'
  <2>1. alive \subseteq 1 .. newest /\ steady0 \subseteq alive /\ removed \in Nat
    BY <1>1 DEF NewestTypes
  <2>2. alive' \subseteq 1 .. newest' /\ steady0' \subseteq alive'
    BY <1>1, <2>1
  <2>4. removed' \in Nat
    BY <1>1, <2>1
  <2>3. newest' \in Nat /\ newest' <= NJobs
    BY <1>1 DEF NewestTypes
  <2> QED
    BY <1>1, <2>2, <2>3, <2>4 DEF NewestTypes
<1>3. Parts' = Parts /\ Excused' = Excused /\ Parts \subseteq {1, 2}
  <2>1. Parts' = Parts /\ Parts \subseteq {1, 2}
    BY <1>1 DEF Parts
  <2> QED
    BY <1>1, <2>1 DEF Excused, ByUpdate
<1>4. PartsInv'
  BY <1>1, <1>3 DEF PartsInv
<1>5. ASSUME NEW q \in Parts, NEW j \in steady0', j \in InPart(q)', Slips(q, j)', ~Slips(q, j)
      PROVE  j \in InPart(q) /\ d \in InPart(q) /\ Place(q, j) = offset[q]
  <2>1. j \in InPart(q) /\ InPart(q)' = InPart(q) \ {d}
    BY <1>1, <1>5 DEF InPart
  <2>2. Fresh(j)' = Fresh(j)
    BY <1>1 DEF Fresh
  <2>3. Place(q, j)' < offset[q] /\ ~(Place(q, j) < offset[q])
    BY <1>1, <1>5, <2>2 DEF Slips
  <2> DEFINE K == {k \in InPart(q) : Rank0(k) > Rank0(j)}
  <2>4. Place(q, j) = Cardinality(K) /\ Place(q, j)' = Cardinality(K \ {d})
    <3>1. \A k : Rank0(k)' = Rank0(k)
      BY <1>1 DEF Rank0
    <3>2. {k \in InPart(q)' : Rank0(k)' > Rank0(j)'} = K \ {d}
      BY <2>1, <3>1
    <3> QED
      BY <3>2 DEF Place
  <2>5. IsFiniteSet(K) /\ K \subseteq InPart(q) /\ Cardinality(K) \in Nat
    <3>1. IsFiniteSet(InPart(q))
      BY <1>1, PlaceIs
    <3> QED
      BY <3>1, FS_Subset, FS_CardinalityType
  <2> HIDE DEF K
  <2>6. Cardinality(K \ {d}) = IF d \in K THEN Cardinality(K) - 1 ELSE Cardinality(K)
    BY <2>5, FS_RemoveElement
  <2>7. offset[q] \in Nat
    BY <1>1, <1>3 DEF NewestTypes
  <2> QED
    BY <2>1, <2>3, <2>4, <2>5, <2>6, <2>7
<1>6. \E v \in Jobs : Slipped' \subseteq Slipped \cup {v}
  <2>1. \A q, r \in Parts : d \in InPart(q) /\ d \in InPart(r) => q = r
    BY DEF Parts, InPart
  <2>2. \A j \in Slipped' \ Slipped : \E q \in Parts :
          j \in InPart(q) /\ d \in InPart(q) /\ Place(q, j) = offset[q]
    <3> SUFFICES ASSUME NEW j \in Slipped' \ Slipped
                 PROVE  \E q \in Parts :
                          j \in InPart(q) /\ d \in InPart(q) /\ Place(q, j) = offset[q]
      OBVIOUS
    <3>1. PICK q \in Parts : j \in steady0' /\ j \in InPart(q)' /\ Slips(q, j)'
      BY <1>3 DEF Slipped
    <3>2. j \in steady0 /\ j \in InPart(q)
      BY <1>1, <3>1 DEF InPart
    <3>3. ~Slips(q, j)
      BY <3>1, <3>2 DEF Slipped
    <3> QED
      BY <1>5, <3>1, <3>3
  <2>3. \A j, k \in Slipped' \ Slipped : j = k
    <3> SUFFICES ASSUME NEW j \in Slipped' \ Slipped, NEW k \in Slipped' \ Slipped
                 PROVE  j = k
      OBVIOUS
    <3>1. PICK q \in Parts : j \in InPart(q) /\ d \in InPart(q) /\ Place(q, j) = offset[q]
      BY <2>2
    <3>2. k \in InPart(q) /\ Place(q, k) = offset[q]
      BY <2>1, <2>2, <3>1
    <3>3. ~(Place(q, j) < Place(q, k)) /\ ~(Place(q, k) < Place(q, j))
      BY <1>1, <1>3, <3>1, <3>2 DEF NewestTypes
    <3>4. ~(Rank0(j) > Rank0(k)) /\ ~(Rank0(k) > Rank0(j)) /\ j \in Jobs /\ k \in Jobs
      BY <1>1, <3>1, <3>2, <3>3, PlaceIs
    <3>5. late \in {{}, {1}}
      BY <1>1 DEF NewestTypes
    <3> QED
      BY <3>4, <3>5, RanksDiffer
  <2>4. Slipped' \subseteq Jobs
    BY <1>2, SlippedNext
  <2>5. CASE Slipped' \subseteq Slipped
    BY <2>5
  <2>6. CASE ~(Slipped' \subseteq Slipped)
    BY <2>3, <2>4, <2>6
  <2> QED
    BY <2>5, <2>6
<1>7. ~Excused' => Cardinality(Slipped') <= removed'
  <2> SUFFICES ASSUME ~Excused PROVE Cardinality(Slipped') <= removed + 1
    BY <1>1, <1>3
  <2>1. PICK v \in Jobs : Slipped' \subseteq Slipped \cup {v}
    BY <1>6
  <2>2. IsFiniteSet(Slipped) /\ Cardinality(Slipped) \in Nat /\ Cardinality(Slipped) <= removed
        /\ removed \in Nat /\ Cardinality(Slipped') \in Nat
    <3>1. removed \in Nat /\ Cardinality(Slipped) <= removed
      BY DEF NewestInv, NewestTypes
    <3> QED
      BY <1>1, <1>2, <3>1, SlippedAre, SlippedNext
  <2>3. IsFiniteSet(Slipped \cup {v}) /\ Cardinality(Slipped \cup {v}) <= Cardinality(Slipped) + 1
    <3>1. IsFiniteSet(Slipped \cup {v})
      BY <2>2, FS_AddElement
    <3>2. Cardinality(Slipped \cup {v})
            = IF v \in Slipped THEN Cardinality(Slipped) ELSE Cardinality(Slipped) + 1
      BY <2>2, FS_AddElement, Zenon
    <3> QED
      BY <2>2, <3>1, <3>2
  <2>4. Cardinality(Slipped') <= Cardinality(Slipped \cup {v})
    BY <2>1, <2>3, FS_Subset
  <2>5. Cardinality(Slipped \cup {v}) \in Nat
    BY <2>3, FS_CardinalityType
  <2> QED
    BY <2>2, <2>3, <2>4, <2>5
<1> QED
  BY <1>1, <1>2, <1>4, <1>7 DEF NewestInv, NewestAreListed

\* What is shown is what was received, cut to the limit, and it is shown without a
\* warning only if no part has failed, or as the catalog does.
LEMMA ShownIs ==
  ASSUME NewestInv, Merge, shown'.state = "listed", ~shown'.warned,
         ~(FailedParts # {} /\ lister \in {"ListAIT", "ListAID"}),
         ~(lister = "ListQueueWorkloads" /\ limit > 0)
  PROVE  /\ FailedParts = {} /\ AllParts
         /\ \E U \in SUBSET Merged :
              /\ shown'.items = CutTo(U)
              /\ limit > 0 => U = Merged
              /\ \A i \in Merged : i[3] \in Wanted => \E k \in U : k[3] = i[3]
<1>1. Parts # {} /\ NewestTypes /\ limit \in Nat
  BY DEF NewestInv, NewestTypes, Parts
<1>2. ~ShowError
  BY <1>1 DEF ShowError, NewestTypes
<1>3. ASSUME NEW items, NEW warned, Show(items, warned)
      PROVE  shown'.items = CutTo(items) /\ shown'.warned = warned
  BY <1>3 DEF Show
<1>4. CASE lister \in {"ListVolcanoJobs", "ListLocalVolcanoJobs"}
  <2>1. MergeVCs /\ AllParts
    BY <1>4 DEF Merge
  <2>2. Show(Merged, FailedParts # {})
    BY <1>2, <2>1 DEF MergeVCs
  <2> QED
    BY <1>3, <2>1, <2>2
<1>5. CASE lister \in {"ListAIT", "ListAID"}
  <2>1. MergeWorkspaces /\ AllParts
    BY <1>5 DEF Merge
  <2>2. Show(Merged, FALSE)
    BY <1>2, <2>1 DEF MergeWorkspaces
  <2> QED
    BY <1>3, <1>5, <2>1, <2>2
<1>6. CASE lister = "ListQueueWorkloads"
  <2>1. MergeQueue /\ AllParts
    BY <1>6 DEF Merge
  <2> DEFINE U == {i \in Merged : i[3] \in Wanted}
  <2>2. FailedParts = {} /\ Show(U, FALSE)
    BY <1>2, <2>1 DEF MergeQueue
  <2>3. shown'.items = CutTo(U) /\ U \in SUBSET Merged /\ ~(limit > 0)
    BY <1>3, <1>6, <2>2
  <2>4. \A i \in Merged : i[3] \in Wanted => i \in U
    OBVIOUS
  <2> HIDE DEF U
  <2> QED
    BY <2>1, <2>2, <2>3, <2>4
<1>7. CASE lister = "ListAIR"
  <2>1. MergeAIR /\ AllParts /\ limit = 0
    BY <1>1, <1>7 DEF Merge, NewestTypes, Unlimited
  <2> DEFINE U == {i \in Merged : \A k \in Ahead(i, Merged) : k[3] # i[3]}
  <2>2. Show(U, FailedParts # {})
    BY <1>2, <2>1 DEF MergeAIR
  <2>3. shown'.items = CutTo(U) /\ U \in SUBSET Merged /\ FailedParts = {}
    BY <1>3, <2>2
  <2>4. ASSUME NEW i \in Merged  PROVE \E k \in U : k[3] = i[3]
    <3>1. \A k \in Merged : k[1] \in Nat /\ k[2] \in Nat /\ k[3] \in Nat
      <4>1. Merged \subseteq AllItems
        BY <1>1 DEF Merged, NewestTypes, Parts
      <4>2. \A k \in AllItems : k[1] \in {1, 2} /\ k[2] \in Nat /\ k[3] \in Nat
        BY JobsAre DEF AllItems
      <4> QED
        BY <4>1, <4>2
    <3> DEFINE Alikes == {k \in Merged : k[3] = i[3]}
               Firsts == {k[1] : k \in Alikes}
    <3>2. Firsts \in SUBSET Nat /\ Firsts # {}
      BY <2>4, <3>1
    <3>3. PICK a \in Alikes : \A k \in Alikes : a[1] <= k[1]
      <4>1. PICK n \in Firsts : \A m \in Firsts : n <= m
        <5> HIDE DEF Firsts
        <5> QED
          BY <3>2, SmallestOf
      <4> QED
        BY <4>1
    <3> DEFINE Seconds == {k[2] : k \in {k \in Alikes : k[1] = a[1]}}
    <3>4. Seconds \in SUBSET Nat /\ Seconds # {}
      BY <3>1, <3>3
    <3>5. PICK b \in Alikes : b[1] = a[1] /\ \A k \in Alikes : k[1] = a[1] => b[2] <= k[2]
      <4>1. PICK n \in Seconds : \A m \in Seconds : n <= m
        <5> HIDE DEF Seconds
        <5> QED
          BY <3>4, SmallestOf
      <4> QED
        BY <4>1
    <3>6. b \in Merged /\ b[3] = i[3]
      BY <3>5
    <3>7. ASSUME NEW k \in Ahead(b, Merged), k[3] = b[3]
          PROVE  FALSE
      <4>1. k \in Merged /\ (k[3] > b[3] \/ k[1] < b[1] \/ (k[1] = b[1] /\ k[2] < b[2]))
        BY <3>7 DEF Ahead
      <4>2. k \in Alikes
        BY <3>6, <3>7, <4>1
      <4>3. a[1] <= k[1] /\ (k[1] = a[1] => b[2] <= k[2]) /\ b[1] = a[1]
        BY <3>3, <3>5, <4>2
      <4>4. /\ k[1] \in Nat /\ k[2] \in Nat /\ k[3] \in Nat
            /\ b[1] \in Nat /\ b[2] \in Nat /\ b[3] \in Nat
        BY <3>1, <3>6, <4>1
      <4> QED
        BY <3>7, <4>1, <4>3, <4>4
    <3>8. b \in U
      BY <3>6, <3>7
    <3> QED
      BY <3>6, <3>8
  <2> HIDE DEF U
  <2> QED
    BY <2>1, <2>3, <2>4
<1>8. CASE lister \in {"ListClusterJobs", "ListUserJobs"}
  <2>1. MergeStrict
    BY <1>8 DEF Merge
  <2>2. FailedParts = {} /\ Show(Merged, FALSE)
    BY <1>2, <2>1 DEF MergeStrict
  <2>3. AllParts
    BY <2>2 DEF Merge
  <2> QED
    BY <1>3, <2>2, <2>3
<1> QED
  BY <1>1, <1>4, <1>5, <1>6, <1>7, <1>8 DEF NewestTypes, Listers, Paged, AtOnce

LEMMA MergeNext ==
  ASSUME NewestInv, Merge
  PROVE  NewestInv'
<1>1. /\ NewestTypes /\ PartsInv /\ shown.state = "reading"
      /\ steady0' = steady0 /\ removed' = removed /\ got' = got /\ offset' = offset
      /\ part' = part /\ lister' = lister /\ limit' = limit /\ since' = since
      /\ counted' = counted /\ owner' = owner /\ late' = late /\ alive' = alive /\ newest' = newest
  BY DEF NewestInv, Merge
<1>2. Parts' = Parts /\ Excused' = Excused /\ Slipped' = Slipped /\ FailedParts' = FailedParts
      /\ AllParts' = AllParts /\ ByUpdate' = ByUpdate /\ Wanted' = Wanted
  <2>1. Parts' = Parts
    BY <1>1 DEF Parts
  <2>2. \A p, j : Place(p, j)' = Place(p, j) /\ InPart(p)' = InPart(p) /\ Fresh(j)' = Fresh(j)
    BY <1>1 DEF Place, InPart, Rank0, Fresh
  <2>3. \A p, j : Slips(p, j)' = Slips(p, j)
    BY <1>1, <2>2 DEF Slips
  <2>4. Slipped' = Slipped
    BY <1>1, <2>1, <2>2, <2>3 DEF Slipped
  <2> QED
    BY <1>1, <2>1, <2>4 DEF Excused, ByUpdate, FailedParts, AllParts, Wanted
<1>3. shown' \in [state : {"listed", "error"}, items : SUBSET AllItems, warned : BOOLEAN]
  <2>1. ShowError => shown' \in [state : {"error"}, items : SUBSET AllItems, warned : BOOLEAN]
    BY <1>1 DEF ShowError, NewestTypes
  <2>2. ASSUME NEW items \in SUBSET AllItems, NEW warned \in BOOLEAN, Show(items, warned)
        PROVE  shown' \in [state : {"listed"}, items : SUBSET AllItems, warned : BOOLEAN]
    BY <2>2 DEF Show, CutTo
  <2>3. ShowError \/ \E items \in SUBSET Merged, warned \in BOOLEAN : Show(items, warned)
    BY <1>1 DEF Merge, NewestTypes, Listers, Paged, AtOnce, MergeVCs, MergeWorkspaces, MergeQueue,
                MergeAIR, MergeStrict
  <2>4. Merged \subseteq AllItems
    BY <1>1 DEF Merged, NewestTypes, Parts
  <2> QED
    BY <2>1, <2>2, <2>3, <2>4
<1>4. NewestTypes'
  BY <1>1, <1>3 DEF NewestTypes
<1>5. PartsInv'
  BY <1>1, <1>2 DEF PartsInv
<1>6. shown'.state = "listed" => AllParts
  <2> SUFFICES ASSUME shown'.state = "listed", ~AllParts PROVE FALSE
    OBVIOUS
  <2>1. MergeStrict /\ FailedParts # {}
    BY DEF Merge
  <2>2. ShowError
    BY <2>1 DEF MergeStrict
  <2> QED
    BY <1>1, <2>2 DEF ShowError
<1>7. NewestAreListed'
  <2> SUFFICES ASSUME shown'.state = "listed", ~shown'.warned,
                      ~(FailedParts # {} /\ lister \in {"ListAIT", "ListAID"}),
                      ~(lister = "ListQueueWorkloads" /\ limit > 0), ~Excused
               PROVE  \E slipped \in SUBSET Unlisted' :
                        /\ Cardinality(slipped) <= removed
                        /\ \A j \in Unlisted' \ slipped :
                             /\ limit > 0 /\ Cardinality(shown'.items) = limit
                             /\ \A i \in shown'.items : i[3] > j
    BY <1>1, <1>2 DEF NewestAreListed, Excused
  <2>1. FailedParts = {} /\ AllParts
    BY ShownIs
  <2>2. PICK U \in SUBSET Merged :
          /\ shown'.items = CutTo(U)
          /\ limit > 0 => U = Merged
          /\ \A i \in Merged : i[3] \in Wanted => \E k \in U : k[3] = i[3]
    BY ShownIs
  <2>3. limit \in Nat /\ Merged \in SUBSET AllItems /\ IsFiniteSet(Merged)
        /\ \A p \in Parts : got[p] \in SUBSET Merged /\ IsFiniteSet(got[p])
    <3>1. Merged \in SUBSET AllItems /\ limit \in Nat
      BY <1>1 DEF Merged, NewestTypes, Parts
    <3>2. \A p \in Parts : got[p] \in SUBSET Merged /\ IsFiniteSet(got[p])
      BY <1>1 DEF Merged, NewestTypes, Parts
    <3>3. Merged \subseteq got[1] \cup got[2]
      BY DEF Merged, Parts
    <3>4. IsFiniteSet(got[1] \cup got[2])
      BY <1>1, FS_Union DEF NewestTypes
    <3> QED
      BY <3>1, <3>2, <3>3, <3>4, FS_Subset
  <2>4. U \in SUBSET AllItems /\ IsFiniteSet(U) /\ Cardinality(U) \in Nat
    BY <2>3, FS_Subset, FS_CardinalityType
  <2>5. /\ CutTo(U) \subseteq U
        /\ limit > 0 /\ Cardinality(U) >= limit => Cardinality(CutTo(U)) = limit
        /\ \A i \in U \ CutTo(U) :
             /\ limit > 0 /\ Cardinality(CutTo(U)) = limit
             /\ \A k \in CutTo(U) : k[3] >= i[3]
        /\ \A T \in SUBSET U, j \in Jobs :
             limit > 0 /\ Cardinality(T) >= limit /\ (\A i \in T : i[3] > j) =>
               \A k \in CutTo(U) : k[3] > j
    BY <2>3, <2>4, CutIs
  <2>6. Unlisted' = {j \in steady0 \cap Wanted : Fresh(j) /\ \A i \in CutTo(U) : i[3] # j}
    BY <1>1, <1>2, <2>2 DEF Unlisted, Fresh
  <2>7. ASSUME NEW j \in Unlisted' \ Slipped
        PROVE  /\ limit > 0 /\ Cardinality(CutTo(U)) = limit
               /\ \A i \in CutTo(U) : i[3] > j
    <3>1. j \in steady0 /\ j \in Wanted /\ Fresh(j) /\ (\A i \in CutTo(U) : i[3] # j)
          /\ j \in alive /\ j \in Jobs
      BY <1>1, <2>6, <2>7 DEF NewestTypes, Wanted
    <3>2. PICK p \in Parts : j \in InPart(p)
      <4>1. owner[j] \in {1, 2}
        BY <1>1, <3>1 DEF NewestTypes
      <4> QED
        BY <3>1, <4>1 DEF Parts, InPart
    <3>3. part[p] = "read"
      <4>1. part[p] \in {"reading", "read", "failed"}
        BY <1>1 DEF NewestTypes, Parts
      <4> QED
        BY <2>1, <4>1 DEF FailedParts, AllParts
    <3>4. ~Slips(p, j)
      BY <2>7, <3>1, <3>2 DEF Slipped
    <3>5. CASE \E i \in got[p] : i[3] = j
      <4>1. PICK k \in U : k[3] = j
        BY <2>2, <2>3, <3>1, <3>5
      <4>2. k \notin CutTo(U)
        BY <3>1, <4>1
      <4>3. limit > 0 /\ Cardinality(CutTo(U)) = limit /\ \A i \in CutTo(U) : i[3] >= j
        BY <2>5, <4>1, <4>2
      <4>4. j \in Nat /\ \A i \in CutTo(U) : i[3] \in Nat
        BY <2>4, <2>5, <3>1, JobsAre DEF AllItems
      <4> QED
        BY <3>1, <4>3, <4>4
    <3>6. CASE limit > 0 /\ Cardinality(got[p]) >= limit /\ \A i \in got[p] : i[3] > j
      <4>1. U = Merged
        BY <2>2, <3>6
      <4>2. got[p] \in SUBSET U
        BY <2>3, <4>1
      <4>3. Cardinality(got[p]) <= Cardinality(U) /\ Cardinality(got[p]) \in Nat
        BY <2>3, <2>4, <4>2, FS_Subset, FS_CardinalityType
      <4>4. Cardinality(U) >= limit
        BY <2>3, <2>4, <3>6, <4>3
      <4> QED
        BY <2>5, <3>1, <3>6, <4>2, <4>4
    <3> QED
      BY <3>1, <3>3, <3>4, <3>5, <3>6 DEF Slips
  <2>8. Cardinality(Unlisted' \cap Slipped) <= removed
    <3>1. IsFiniteSet(Slipped) /\ Cardinality(Slipped) \in Nat /\ Cardinality(Slipped) <= removed
          /\ removed \in Nat
      BY <1>1, SlippedAre DEF NewestInv, NewestTypes
    <3>2. Unlisted' \cap Slipped \in SUBSET Slipped
      OBVIOUS
    <3>3. Cardinality(Unlisted' \cap Slipped) <= Cardinality(Slipped)
          /\ Cardinality(Unlisted' \cap Slipped) \in Nat
      BY <3>1, <3>2, FS_Subset, FS_CardinalityType
    <3> QED
      BY <3>1, <3>3
  <2> WITNESS Unlisted' \cap Slipped \in SUBSET Unlisted'
  <2> QED
    BY <2>2, <2>7, <2>8
<1>8. ~Excused' => Cardinality(Slipped') <= removed'
  BY <1>1, <1>2 DEF NewestInv
<1> QED
  BY <1>2, <1>4, <1>5, <1>6, <1>7, <1>8 DEF NewestInv

LEMMA NewestPreserved == NewestInv /\ [NewestNext]_listVars => NewestInv'
<1> SUFFICES ASSUME NewestInv, [NewestNext]_listVars PROVE NewestInv'
  OBVIOUS
<1>1. ASSUME NEW p \in Parts, ReadPage(p)  PROVE NewestInv'
  BY <1>1, ReadPageNext
<1>2. ASSUME NEW p \in Parts, ReadAll(p)  PROVE NewestInv'
  BY <1>2, ReadAllNext
<1>3. ASSUME NEW p \in Parts, FailPart(p)  PROVE NewestInv'
  BY <1>3, FailPartNext
<1>4. CASE Merge
  BY <1>4, MergeNext
<1>5. CASE JobCreated
  BY <1>5, JobCreatedNext
<1>6. ASSUME NEW j \in Jobs, JobDeleted(j)  PROVE NewestInv'
  BY <1>6, JobDeletedNext
<1>7. CASE UNCHANGED listVars
  BY <1>7 DEF listVars, NewestInv, NewestTypes, PartsInv, Excused, ByUpdate, Slipped, Slips, Parts,
              InPart, Place, Rank0, Fresh, AllParts, NewestAreListed, FailedParts, Unlisted, Wanted
<1> QED
  BY <1>1, <1>2, <1>3, <1>4, <1>5, <1>6, <1>7 DEF NewestNext
-----------------------------------------------------------------------------
(***************************************************************************)
(* Metrics: which workload it is, its cards, and the kubectl beside.       *)
(***************************************************************************)
\* What is known of a workspace is part of what is there, and all of it when it has
\* answered completely; it is asked only when it is named.
Readable == [is : {"open", "listed", "not asked for", "region failed", "asked", "partly", "whole"},
             kinds : SUBSET Kinds]

WorkspaceIs(w) ==
  /\ read[w].kinds \subseteq truth.owned[w]
  /\ read[w].is = "whole" => read[w].kinds = truth.owned[w]
  /\ read[w].is \notin {"whole", "partly"} => read[w].kinds = {}
  /\ read[w].is \in {"listed", "asked", "partly", "whole"} => Named(w)
  /\ read[w].is = "not asked for" => ~ Named(w)
  /\ step \in {"series", "regions"} =>
       read[w].is \in {"open", "listed", "not asked for", "region failed"}
  /\ step \in {"workspaces", "cancelled"} => read[w].is # "open"
  /\ step = "not found" =>
       /\ read[w].is \in {"region failed", "not asked for", "whole"}
       /\ read[w].kinds \subseteq {"pending"}
  /\ step = "no such workspace" => read[w].is = "not asked for"

ResolveTypes ==
  /\ truth \in [owned : [Workspaces -> SUBSET Kinds], measured : SUBSET Workspaces, named : 0 .. 3]
  /\ read \in [Workspaces -> Readable]

ResolveInv ==
  asking = "workload" =>
    /\ ResolveTypes
    /\ \A w \in Workspaces : WorkspaceIs(w)
    /\ step = "resolved" => Cardinality(PodCandidates) = 1

\* A reading is available only if the series tells whose card it is of.
HealthInv ==
  asking = "health" =>
    /\ truth \in [bad : [Dimensions -> SUBSET Cards], uuid : BOOLEAN, pods : BOOLEAN,
                  uuids : BOOLEAN, severe : BOOLEAN]
    /\ read \in [Dimensions -> {"open", "query_failed", "available", "by node", "no_data"}]
    /\ \A d \in Dimensions : read[d] = "available" => truth.uuid /\ truth.uuids
    /\ HealthIsItsOwn

ForwardInv ==
  asking = "forward" =>
    /\ truth \in [kubectl : {"runs", "gone"}, cancelled : BOOLEAN]
    /\ NoForwardIsLeft

Asking == asking \in {"workload", "restarts", "health", "memory", "forward"}

MetricsInv == Asking /\ ResolveInv /\ HealthInv /\ ForwardInv

LEMMA MetricsInitInv == MetricsInit => MetricsInv
<1> SUFFICES ASSUME MetricsInit PROVE MetricsInv
  OBVIOUS
<1>1. CASE asking = "workload" /\ ResolveInit
  <2>1. ResolveInv
    BY <1>1 DEF ResolveInv, ResolveTypes, Readable, WorkspaceIs, ResolveInit, Unasked
  <2> QED
    BY <1>1, <2>1 DEF MetricsInv, Asking, HealthInv, ForwardInv
<1>2. CASE asking = "health" /\ HealthInit
  <2>1. HealthInv
    BY <1>2 DEF HealthInv, HealthInit, HealthIsItsOwn
  <2> QED
    BY <1>2, <2>1 DEF MetricsInv, Asking, ResolveInv, ForwardInv
<1>3. CASE asking = "forward" /\ ForwardInit
  <2>1. ForwardInv
    BY <1>3 DEF ForwardInv, ForwardInit, NoForwardIsLeft
  <2> QED
    BY <1>3, <2>1 DEF MetricsInv, Asking, ResolveInv, HealthInv
<1>4. CASE asking \in {"restarts", "memory"}
  BY <1>4 DEF MetricsInv, Asking, ResolveInv, HealthInv, ForwardInv
<1> QED
  BY <1>1, <1>2, <1>3, <1>4 DEF MetricsInit

LEMMA MetricsStepIs ==
  ASSUME MetricsNext
  PROVE  /\ asking' = asking
         /\ asking = "workload" => ResolveStep \/ CancelResolve
         /\ asking = "restarts" => RestartsStep
         /\ asking = "health" => HealthStep
         /\ asking = "memory" => Aggregate
         /\ asking = "forward" => ForwardStep
<1>1. CASE ResolveStep \/ CancelResolve
  BY <1>1 DEF ResolveStep, CancelResolve, ReadSeries, ReadRegion, RegionsRead, TakeSlot, LeaveSlot,
     PodsOfWorkspace, MergeCandidates, Resolving, Told, Go
<1>2. CASE RestartsStep
  BY <1>2 DEF RestartsStep, Scrape, Restarted, ResetCounter, Report, Go
<1>3. CASE HealthStep
  BY <1>3 DEF HealthStep, ReadCards, ReadByPod, ReadByNode, DimensionsTurn, Classify, ReadTo, Go
<1>4. CASE Aggregate
  BY <1>4 DEF Aggregate
<1>5. CASE ForwardStep
  BY <1>5 DEF ForwardStep, KubectlRuns, InterruptForward, Await, CloseForward, Closed, CancelForward, Go
<1> QED
  BY <1>1, <1>2, <1>3, <1>4, <1>5 DEF MetricsNext

LEMMA CandidatesAreFinite ==
  ASSUME ResolveTypes
  PROVE  /\ IsFiniteSet(PodCandidates)
         /\ PodCandidates = {p \in Workspaces \X Kinds : p[2] \in read[p[1]].kinds /\ p[2] # "pending"}
<1> DEFINE C == {p \in Workspaces \X Kinds : p[2] \in read[p[1]].kinds /\ p[2] # "pending"}
<1>k. \A w \in Workspaces : read[w].kinds \subseteq Kinds
  BY DEF ResolveTypes, Readable
<1>1. ASSUME NEW p \in PodCandidates  PROVE p \in C
  <2>1. PICK w \in Workspaces : p \in {w} \X (read[w].kinds \ {"pending"})
    BY <1>1 DEF PodCandidates
  <2> QED
    BY <1>k, <2>1
<1>2. ASSUME NEW p \in C  PROVE p \in PodCandidates
  <2>1. p[1] \in Workspaces /\ p \in {p[1]} \X (read[p[1]].kinds \ {"pending"})
    OBVIOUS
  <2> QED
    BY <2>1 DEF PodCandidates
<1>3. IsFiniteSet(Workspaces \X Kinds)
  <2>1. IsFiniteSet(Workspaces)
    <3>1. 1 \in Int /\ 2 \in Int
      OBVIOUS
    <3> QED
      BY <3>1, FS_Interval, Zenon DEF Workspaces
  <2>2. IsFiniteSet(Kinds)
    <3>1. IsFiniteSet({"ait"})
      BY FS_Singleton
    <3>2. IsFiniteSet({"ait"} \cup {"aid"})
      BY <3>1, FS_AddElement
    <3>3. IsFiniteSet(({"ait"} \cup {"aid"}) \cup {"pending"})
      BY <3>2, FS_AddElement
    <3>4. Kinds = ({"ait"} \cup {"aid"}) \cup {"pending"}
      BY DEF Kinds
    <3> QED
      BY <3>3, <3>4
  <2> QED
    BY <2>1, <2>2, FS_Product
<1>4. IsFiniteSet(C)
  BY <1>3, FS_Subset
<1> QED
  BY <1>1, <1>2, <1>4

LEMMA NoneLeft == \A c \in Nat : c # 1 /\ ~ (c > 1) => c = 0
OBVIOUS

LEMMA ToldNext ==
  ASSUME ResolveInv, asking = "workload", NEW w \in Workspaces, asking' = asking,
         NEW is \in {"listed", "not asked for", "region failed", "asked", "partly", "whole"},
         NEW kinds \in SUBSET Kinds, Told(w, is, kinds),
         step \in {"regions", "workspaces", "cancelled"},
         step = "regions" => is \in {"listed", "not asked for", "region failed"},
         kinds \subseteq truth.owned[w],
         is = "whole" => kinds = truth.owned[w],
         is \notin {"whole", "partly"} => kinds = {},
         is \in {"listed", "asked", "partly", "whole"} => Named(w),
         is = "not asked for" => ~ Named(w)
  PROVE  ResolveInv'
<1>1. /\ UNCHANGED <<truth, step>> /\ \A v : Named(v)' = Named(v)
      /\ read' = [read EXCEPT ![w] = [is |-> is, kinds |-> kinds]]
  BY DEF Told, Named
<1>2. [is |-> is, kinds |-> kinds] \in Readable
  BY DEF Readable
<1>3. ResolveTypes' /\ read'[w].is = is /\ read'[w].kinds = kinds
      /\ \A v \in Workspaces \ {w} : read'[v] = read[v]
  BY <1>1, <1>2 DEF ResolveInv, ResolveTypes
<1>4. WorkspaceIs(w)'
  BY <1>1, <1>3 DEF WorkspaceIs
<1>5. ASSUME NEW v \in Workspaces \ {w}  PROVE WorkspaceIs(v)'
  BY <1>1, <1>3, <1>5 DEF ResolveInv, WorkspaceIs
<1> QED
  BY <1>1, <1>3, <1>4, <1>5 DEF ResolveInv

\* A step that reads nothing has only to say what its answer means.
LEMMA GoNext ==
  ASSUME ResolveInv, asking = "workload", asking' = asking,
         NEW s \in {"failed", "measured", "ambiguous", "regions", "workspaces", "cancelled",
                   "no such workspace", "resolved", "not found"},
         Go(s),
         s = "regions" => step = "series",
         s \in {"workspaces", "cancelled", "no such workspace"} =>
           \A w \in Workspaces : read[w].is # "open",
         s = "no such workspace" => \A w \in Workspaces : read[w].is = "not asked for",
         s = "resolved" => Cardinality(PodCandidates) = 1,
         s = "not found" =>
           \A w \in Workspaces : /\ read[w].is \in {"region failed", "not asked for", "whole"}
                                 /\ read[w].kinds \subseteq {"pending"}
  PROVE  ResolveInv'
<1>1. /\ UNCHANGED <<truth, read, PodCandidates>> /\ \A v : Named(v)' = Named(v)
      /\ step' = s
  BY DEF Go, Named, PodCandidates
<1>2. ASSUME NEW w \in Workspaces  PROVE WorkspaceIs(w)'
  BY <1>1, <1>2 DEF ResolveInv, WorkspaceIs
<1> QED
  BY <1>1, <1>2 DEF ResolveInv, ResolveTypes

LEMMA ResolveNextInv ==
  ASSUME ResolveInv, asking = "workload", ResolveStep \/ CancelResolve, asking' = asking
  PROVE  ResolveInv'
<1>w. ResolveTypes /\ \A w \in Workspaces : WorkspaceIs(w)
  BY DEF ResolveInv
<1>2. CASE ReadSeries
  <2>1. PICK s \in {"failed", "measured", "ambiguous", "regions"} : Go(s) /\ step = "series"
    BY <1>2 DEF ReadSeries
  <2> QED
    BY <2>1, GoNext
<1>3. ASSUME NEW w \in Workspaces, ReadRegion(w)
      PROVE  ResolveInv'
  <2>1. PICK is \in {"listed", "not asked for", "region failed"} :
          /\ Told(w, is, {})
          /\ is = "listed" => Named(w)
          /\ is = "not asked for" => ~ Named(w)
    BY <1>3 DEF ReadRegion
  <2>2. PICK none \in SUBSET Kinds : none = {}
    OBVIOUS
  <2>3. step = "regions"
    BY <1>3 DEF ReadRegion
  <2> QED
    BY <1>3, <2>1, <2>2, <2>3, ToldNext
<1>4. CASE RegionsRead
  <2>1. PICK s \in {"workspaces", "failed", "no such workspace"} :
          /\ Go(s) /\ step = "regions"
          /\ s = "no such workspace" =>
               \A w \in Workspaces : read[w].is \notin {"open", "listed", "region failed"}
    BY <1>4 DEF RegionsRead
  <2>2. \A w \in Workspaces : read[w].is # "open"
    BY <1>4 DEF RegionsRead
  <2>3. s = "no such workspace" => \A w \in Workspaces : read[w].is = "not asked for"
    BY <1>w, <2>1 DEF WorkspaceIs
  <2> QED
    BY <2>1, <2>2, <2>3, GoNext
<1>5. ASSUME NEW w \in Workspaces, TakeSlot(w) \/ LeaveSlot(w)
      PROVE  ResolveInv'
  <2>1. read[w].is = "listed" /\ step \in {"workspaces", "cancelled"}
    BY <1>5 DEF TakeSlot, LeaveSlot, Resolving
  <2>2. Named(w)
    BY <1>5, <1>w, <2>1 DEF WorkspaceIs
  <2>3. PICK is \in {"asked", "partly"}, none \in SUBSET Kinds : none = {} /\ Told(w, is, none)
    BY <1>5 DEF TakeSlot, LeaveSlot
  <2> QED
    BY <1>5, <2>1, <2>2, <2>3, ToldNext
<1>6. ASSUME NEW w \in Workspaces, PodsOfWorkspace(w)
      PROVE  ResolveInv'
  <2>1. read[w].is = "asked" /\ step \in {"workspaces", "cancelled"}
    BY <1>6 DEF PodsOfWorkspace, Resolving
  <2>2. Named(w) /\ truth.owned[w] \subseteq Kinds
    BY <1>6, <1>w, <2>1 DEF WorkspaceIs, ResolveTypes
  <2>3. PICK failing \in SUBSET Kinds :
          Told(w, IF failing = {} THEN "whole" ELSE "partly", truth.owned[w] \ failing)
    BY <1>6 DEF PodsOfWorkspace
  <2>4. PICK is \in {"whole", "partly"} : is = IF failing = {} THEN "whole" ELSE "partly"
    OBVIOUS
  <2>5. PICK kinds \in SUBSET Kinds : kinds = truth.owned[w] \ failing
    BY <2>2
  <2>6. is = "whole" => kinds = truth.owned[w]
    BY <2>4, <2>5
  <2> QED
    BY <1>6, <2>1, <2>2, <2>3, <2>4, <2>5, <2>6, ToldNext
<1>7. CASE MergeCandidates
  <2>1. PICK s \in {"resolved", "ambiguous", "failed", "not found"} :
          /\ Go(s) /\ step \in {"workspaces", "cancelled"}
          /\ s = "resolved" => Cardinality(PodCandidates) = 1
          /\ s = "not found" => /\ Cardinality(PodCandidates) # 1 /\ ~ (Cardinality(PodCandidates) > 1)
                                /\ \A w \in Workspaces : read[w].is # "partly"
    BY <1>7 DEF MergeCandidates, Resolving
  <2>2. \A w \in Workspaces : read[w].is \notin {"listed", "asked"}
    BY <1>7 DEF MergeCandidates
  <2>3. ASSUME s = "not found", NEW w \in Workspaces
        PROVE  /\ read[w].is \in {"region failed", "not asked for", "whole"}
               /\ read[w].kinds \subseteq {"pending"}
    <3>1. /\ IsFiniteSet(PodCandidates)
          /\ PodCandidates = {p \in Workspaces \X Kinds : p[2] \in read[p[1]].kinds /\ p[2] # "pending"}
      BY <1>w, CandidatesAreFinite
    <3>2. Cardinality(PodCandidates) \in Nat /\ (Cardinality(PodCandidates) = 0 <=> PodCandidates = {})
      BY <3>1, FS_CardinalityType, FS_EmptySet
    <3>3. PodCandidates = {}
      BY <2>1, <2>3, <3>2, NoneLeft, Zenon
    <3>4. read[w].kinds \subseteq Kinds /\ read[w].is \notin {"open", "partly"}
          /\ read[w] \in Readable
      BY <1>w, <2>1, <2>3 DEF ResolveTypes, Readable, WorkspaceIs
    <3>5. ASSUME NEW k \in read[w].kinds, k # "pending"  PROVE FALSE
      <4>1. <<w, k>> \in PodCandidates
        BY <2>3, <3>1, <3>4, <3>5
      <4> QED
        BY <3>3, <4>1
    <3> QED
      BY <2>2, <2>3, <3>4, <3>5 DEF Readable
  <2> QED
    BY <2>1, <2>3, GoNext
<1>8. CASE CancelResolve
  <2>1. PICK s \in {"cancelled"} : Go(s) /\ step = "workspaces"
    BY <1>8 DEF CancelResolve
  <2>2. \A w \in Workspaces : read[w].is # "open"
    BY <1>w, <2>1 DEF WorkspaceIs
  <2> QED
    BY <2>1, <2>2, GoNext
<1> QED
  BY <1>2, <1>3, <1>4, <1>5, <1>6, <1>7, <1>8 DEF ResolveStep

LEMMA HealthNextInv ==
  ASSUME HealthInv, asking = "health", HealthStep, asking' = asking
  PROVE  HealthInv'
<1>1. CASE ReadCards
  BY <1>1 DEF ReadCards, Go, HealthInv, HealthIsItsOwn
<1>2. ASSUME NEW d \in Dimensions, ReadByPod(d) \/ ReadByNode(d)
      PROVE  HealthInv'
  <2>1. PICK is \in {"query_failed", "available", "by node", "no_data"} :
          /\ ReadTo(d, is)
          /\ is = "available" => truth.uuid /\ truth.uuids
    BY <1>2 DEF ReadByPod, ReadByNode, Attached, SameGPU
  <2>2. step = "dimensions"
    BY <1>2 DEF ReadByPod, ReadByNode, DimensionsTurn
  <2> QED
    BY <2>1, <2>2 DEF ReadTo, HealthInv, HealthIsItsOwn
<1>3. CASE Classify
  <2>1. UNCHANGED <<truth, read>>
    BY <1>3 DEF Classify, Go
  <2>2. ASSUME step' = "anomaly"
        PROVE  \E d \in Dimensions : "own" \in truth.bad[d] /\ (d = "ecc" => truth.severe)
    <3>1. PICK d \in Dimensions : Errors(d) /\ Attached(truth.bad[d]) # {}
      BY <1>3, <2>2 DEF Classify, Go
    <3> QED
      BY <3>1 DEF Errors, Attached, SameGPU
  <2>3. ASSUME step' = "healthy"
        PROVE  /\ read["ecc"] = "available" /\ truth.uuid /\ truth.uuids
               /\ \A d \in Dimensions : read[d] = "available" => "own" \notin truth.bad[d]
    <3>1. Errors("ecc") /\ \A d \in Dimensions : ~ (Errors(d) /\ Attached(truth.bad[d]) # {})
      BY <1>3, <2>3 DEF Classify, Go
    <3>2. read["ecc"] = "available" /\ truth.severe /\ truth.uuid /\ truth.uuids
      BY <3>1 DEF Errors, HealthInv, Dimensions
    <3> QED
      BY <3>1, <3>2 DEF Errors, Attached, SameGPU
  <2> QED
    BY <2>1, <2>2, <2>3 DEF HealthInv, HealthIsItsOwn
<1> QED
  BY <1>1, <1>2, <1>3 DEF HealthStep

LEMMA ForwardNextInv ==
  ASSUME ForwardInv, asking = "forward", ForwardStep, asking' = asking
  PROVE  ForwardInv'
BY DEF ForwardStep, KubectlRuns, InterruptForward, Await, CloseForward, Closed, CancelForward, Go,
   ForwardInv, NoForwardIsLeft

LEMMA MetricsPreserved == MetricsInv /\ [MetricsNext]_metricsVars => MetricsInv'
<1> SUFFICES ASSUME MetricsInv, [MetricsNext]_metricsVars PROVE MetricsInv'
  OBVIOUS
<1>1. CASE MetricsNext
  BY <1>1, MetricsStepIs, ResolveNextInv, HealthNextInv, ForwardNextInv
     DEF MetricsInv, Asking, ResolveInv, HealthInv, ForwardInv
<1>2. CASE UNCHANGED metricsVars
  <2>1. UNCHANGED <<asking, truth, read, step>>
    BY <1>2 DEF metricsVars
  <2>2. UNCHANGED PodCandidates /\ \A w : Named(w)' = Named(w)
    BY <2>1 DEF PodCandidates, Named
  <2>3. ResolveInv'
    BY <2>1, <2>2 DEF MetricsInv, ResolveInv, ResolveTypes, WorkspaceIs
  <2> QED
    BY <2>1, <2>3 DEF MetricsInv, Asking, HealthInv, ForwardInv, HealthIsItsOwn, NoForwardIsLeft
<1> QED
  BY <1>1, <1>2

LEMMA MetricsHold == MetricsInv => MetricsAreTrue
<1> SUFFICES ASSUME MetricsInv, asking = "workload" PROVE WorkloadIsTrue
  BY DEF MetricsInv, MetricsAreTrue, WorkloadIsTrue, HealthInv, ForwardInv, HealthIsItsOwn, NoForwardIsLeft
<1>w. ResolveTypes /\ (\A w \in Workspaces : WorkspaceIs(w))
      /\ (step = "resolved" => Cardinality(PodCandidates) = 1)
  BY DEF MetricsInv, ResolveInv
<1>1. ASSUME step = "resolved"
      PROVE  \E w \in Workspaces, k \in {"ait", "aid"} :
               /\ k \in truth.owned[w] /\ Named(w)
               /\ \A v \in Workspaces : read[v].is = "whole" =>
                    truth.owned[v] \ {"pending"} \subseteq (IF v = w THEN {k} ELSE {})
  <2>1. /\ IsFiniteSet(PodCandidates)
        /\ PodCandidates = {p \in Workspaces \X Kinds : p[2] \in read[p[1]].kinds /\ p[2] # "pending"}
    BY <1>w, CandidatesAreFinite
  <2>2. PICK p : PodCandidates = {p}
    BY <1>1, <1>w, <2>1, FS_Singleton
  <2>3. /\ p[1] \in Workspaces /\ p[2] \in {"ait", "aid"} /\ p[2] \in read[p[1]].kinds
    BY <2>1, <2>2 DEF Kinds
  <2>4. p[2] \in truth.owned[p[1]] /\ Named(p[1])
    BY <1>w, <2>3 DEF WorkspaceIs
  <2>5. ASSUME NEW v \in Workspaces, read[v].is = "whole", NEW k \in truth.owned[v] \ {"pending"}
        PROVE  v = p[1] /\ k = p[2]
    <3>1. k \in Kinds /\ k \in read[v].kinds
      BY <1>w, <2>5 DEF ResolveTypes, Readable, WorkspaceIs
    <3>2. <<v, k>> \in PodCandidates
      BY <2>1, <2>5, <3>1
    <3>3. <<v, k>> = p
      BY <2>2, <3>2
    <3> QED
      BY <3>3
  <2> QED
    BY <2>3, <2>4, <2>5
<1>2. ASSUME step = "not found", NEW w \in Workspaces
      PROVE  \/ read[w].is \in {"region failed", "not asked for"}
             \/ truth.owned[w] \subseteq {"pending"}
  BY <1>2, <1>w DEF WorkspaceIs
<1>3. ASSUME step = "no such workspace"  PROVE truth.named \notin {0} \cup Workspaces
  <2>1. \A w \in Workspaces : truth.named \notin {0, w}
    BY <1>3, <1>w DEF WorkspaceIs, Named
  <2>2. 1 \in Workspaces
    BY DEF Workspaces
  <2> QED
    BY <2>1, <2>2
<1> QED
  BY <1>1, <1>2, <1>3 DEF WorkloadIsTrue
-----------------------------------------------------------------------------
(***************************************************************************)
(* The samples of a metric: each restart that is counted has its own       *)
(* number among all there were; each point is near one time of its sum.    *)
(***************************************************************************)
\* Of two samples, or of a sample and what there is now, r comes first.
Leads(r, s) ==
  /\ r.total <= s.total /\ r.life <= s.life /\ r.pod <= s.pod
  /\ r.life = s.life => r.pod = s.pod /\ r.total + s.value = s.total + r.value
  /\ r.life < s.life => r.total + s.value <= s.total

Counter == [pod |-> truth.pod, value |-> truth.count, total |-> truth.total, life |-> truth.life]

Samples == [at : Nat, pod : Nat, value : Nat, view : {"workspace", "other", "another", "any"},
            total : Nat, life : Nat]

RestartsInv ==
  asking = "restarts" =>
    /\ truth \in [views : SUBSET {"workspace", "other", "another"}, pod : Nat, count : Nat,
                  total : Nat, life : Nat, clock : Nat]
    /\ read \subseteq Samples
    /\ \A s \in read : s.at < truth.clock /\ Leads(s, Counter)
    /\ \A r, s \in read : r.at < s.at => Leads(r, s)
    /\ \A r, s \in read : r.at = s.at =>
         r.pod = s.pod /\ r.value = s.value /\ r.total = s.total /\ r.life = s.life

LEMMA RestartsInitInv == asking = "restarts" /\ RestartsInit => RestartsInv
BY MetricsAssumption DEF RestartsInit, RestartsInv

LEMMA RestartsNextInv ==
  ASSUME RestartsInv, asking = "restarts", asking' = asking, RestartsStep
  PROVE  RestartsInv'
<1>1. /\ truth \in [views : SUBSET {"workspace", "other", "another"}, pod : Nat, count : Nat,
                    total : Nat, life : Nat, clock : Nat]
      /\ read \subseteq Samples
      /\ \A s \in read : s.at < truth.clock /\ Leads(s, Counter)
      /\ \A r, s \in read : r.at < s.at => Leads(r, s)
      /\ \A r, s \in read : r.at = s.at =>
           r.pod = s.pod /\ r.value = s.value /\ r.total = s.total /\ r.life = s.life
  BY DEF RestartsInv
<1>2. \A s \in read : s.at \in Nat /\ s.pod \in Nat /\ s.value \in Nat /\ s.total \in Nat /\ s.life \in Nat
  BY <1>1 DEF Samples
<1>3. /\ truth.pod \in Nat /\ truth.count \in Nat /\ truth.total \in Nat /\ truth.life \in Nat
      /\ truth.clock \in Nat
  BY <1>1
<1>4. CASE Scrape
  <2>1. PICK views \in SUBSET truth.views :
          read' = read \cup {[at |-> truth.clock, pod |-> truth.pod, value |-> truth.count,
                              view |-> v, total |-> truth.total, life |-> truth.life] : v \in views}
    BY <1>4 DEF Scrape
  <2>2. truth' = [truth EXCEPT !.clock = truth.clock + 1]
    BY <1>4 DEF Scrape
  <2>3. /\ truth'.pod = truth.pod /\ truth'.count = truth.count /\ truth'.total = truth.total
        /\ truth'.life = truth.life /\ truth'.clock = truth.clock + 1
        /\ truth' \in [views : SUBSET {"workspace", "other", "another"}, pod : Nat, count : Nat,
                       total : Nat, life : Nat, clock : Nat]
    BY <1>1, <1>3, <2>2
  <2>4. \A s \in read' :
          \/ s \in read
          \/ /\ s.at = truth.clock /\ s.pod = truth.pod /\ s.value = truth.count
             /\ s.total = truth.total /\ s.life = truth.life /\ s \in Samples
    BY <1>1, <1>3, <2>1 DEF Samples
  <2>5. Counter' = Counter
    BY <2>3 DEF Counter
  <2>6. /\ Counter.pod = truth.pod /\ Counter.value = truth.count
        /\ Counter.total = truth.total /\ Counter.life = truth.life
    BY DEF Counter
  <2>7. \A s \in read' : s.at < truth'.clock /\ Leads(s, Counter)
    <3> SUFFICES ASSUME NEW s \in read' PROVE s.at < truth.clock + 1 /\ Leads(s, Counter)
      BY <2>3
    <3>1. CASE s \in read
      BY <1>1, <1>2, <1>3, <3>1
    <3>2. CASE s \notin read
      BY <1>3, <2>4, <2>6, <3>2 DEF Leads
    <3> QED
      BY <3>1, <3>2
  <2>8. \A r, s \in read' : r.at < s.at => Leads(r, s)
    <3> SUFFICES ASSUME NEW r \in read', NEW s \in read', r.at < s.at PROVE Leads(r, s)
      OBVIOUS
    <3>1. CASE r \in read /\ s \in read
      BY <1>1, <3>1
    <3>2. CASE r \in read /\ s \notin read
      <4>1. Leads(r, Counter)
        BY <1>1, <3>2
      <4> QED
        BY <2>4, <2>6, <3>2, <4>1 DEF Leads
    <3>3. CASE r \notin read
      <4>1. s.at < truth.clock + 1 /\ r.at = truth.clock /\ s.at \in Nat
        BY <1>2, <1>3, <2>3, <2>4, <2>7, <3>3
      <4> QED
        BY <1>3, <4>1
    <3> QED
      BY <3>1, <3>2, <3>3
  <2>9. \A r, s \in read' : r.at = s.at =>
          r.pod = s.pod /\ r.value = s.value /\ r.total = s.total /\ r.life = s.life
    <3> SUFFICES ASSUME NEW r \in read', NEW s \in read', r.at = s.at
                 PROVE  r.pod = s.pod /\ r.value = s.value /\ r.total = s.total /\ r.life = s.life
      OBVIOUS
    <3>1. CASE r \in read /\ s \in read
      BY <1>1, <3>1
    <3>2. CASE ~(r \in read /\ s \in read)
      <4>1. r \notin read /\ s \notin read
        BY <1>1, <1>2, <1>3, <2>4, <3>2
      <4> QED
        BY <2>4, <4>1
    <3> QED
      BY <3>1, <3>2
  <2> QED
    BY <1>1, <2>3, <2>4, <2>5, <2>7, <2>8, <2>9 DEF RestartsInv
<1>5. ASSUME read' = read, truth'.clock = truth.clock,
             truth' \in [views : SUBSET {"workspace", "other", "another"}, pod : Nat, count : Nat,
                         total : Nat, life : Nat, clock : Nat],
             \A s \in read : Leads(s, Counter')
      PROVE  RestartsInv'
  BY <1>1, <1>5 DEF RestartsInv
<1>6. CASE Restarted
  <2>1. /\ read' = read
        /\ truth' = [views |-> truth.views, pod |-> truth.pod, count |-> truth.count + 1,
                     total |-> truth.total + 1, life |-> truth.life, clock |-> truth.clock]
    BY <1>6 DEF Restarted
  <2>2. /\ truth'.pod = truth.pod /\ truth'.count = truth.count + 1
        /\ truth'.total = truth.total + 1 /\ truth'.life = truth.life /\ truth'.clock = truth.clock
        /\ truth' \in [views : SUBSET {"workspace", "other", "another"}, pod : Nat, count : Nat,
                       total : Nat, life : Nat, clock : Nat]
    BY <1>1, <1>3, <2>1
  <2>3. \A s \in read : Leads(s, Counter')
    <3> SUFFICES ASSUME NEW s \in read PROVE Leads(s, Counter')
      OBVIOUS
    <3>1. Leads(s, Counter)
      BY <1>1
    <3> QED
      BY <1>2, <1>3, <2>2, <3>1 DEF Leads, Counter
  <2> QED
    BY <1>5, <2>1, <2>2, <2>3
<1>7. CASE ResetCounter
  <2>1. PICK pod \in truth.pod .. truth.pod + 1 :
          truth' = [views |-> truth.views, pod |-> pod, count |-> 0, total |-> truth.total,
                    life |-> truth.life + 1, clock |-> truth.clock]
    BY <1>7 DEF ResetCounter
  <2>2. /\ truth'.pod = pod /\ truth'.count = 0 /\ pod \in Nat /\ truth.pod <= pod
        /\ truth'.total = truth.total /\ truth'.life = truth.life + 1 /\ truth'.clock = truth.clock
        /\ truth' \in [views : SUBSET {"workspace", "other", "another"}, pod : Nat, count : Nat,
                       total : Nat, life : Nat, clock : Nat]
    BY <1>1, <1>3, <2>1
  <2>3. \A s \in read : Leads(s, Counter')
    <3> SUFFICES ASSUME NEW s \in read PROVE Leads(s, Counter')
      OBVIOUS
    <3>1. Leads(s, Counter)
      BY <1>1
    <3> QED
      BY <1>2, <1>3, <2>2, <3>1 DEF Leads, Counter
  <2>4. read' = read
    BY <1>7 DEF ResetCounter
  <2> QED
    BY <1>5, <2>2, <2>3, <2>4
<1>8. CASE Report
  <2>1. UNCHANGED <<asking, truth, read>>
    BY <1>8 DEF Report, Go
  <2> QED
    BY <2>1 DEF RestartsInv, Counter
<1> QED
  BY <1>4, <1>6, <1>7, <1>8 DEF RestartsStep

\* The samples of one view are in one order, by when they were taken.
LEMMA ViewIs ==
  ASSUME RestartsInv, asking = "restarts"
  PROVE  /\ OneView \subseteq Samples
         /\ truth.clock \in Nat
         /\ \A s \in OneView : s.at < truth.clock
         /\ \A r, s \in OneView : r.at < s.at => Leads(r, s)
         /\ \A r, s \in OneView : r.at = s.at => r = s
<1>1. /\ read \subseteq Samples /\ truth.clock \in Nat
      /\ \A s \in read : s.at < truth.clock
      /\ \A r, s \in read : r.at < s.at => Leads(r, s)
      /\ \A r, s \in read : r.at = s.at =>
           r.pod = s.pod /\ r.value = s.value /\ r.total = s.total /\ r.life = s.life
  BY DEF RestartsInv
<1>2. Preferred \subseteq read
  BY DEF Preferred
<1> DEFINE Plain(s) == [at |-> s.at, pod |-> s.pod, value |-> s.value, view |-> "any",
                        total |-> s.total, life |-> s.life]
<1>3. \A s \in Samples : [s EXCEPT !.view = "any"] = Plain(s)
  BY DEF Samples
<1>4. \A v \in OneView : \E s \in read : v = Plain(s)
  <2> SUFFICES ASSUME NEW v \in OneView PROVE \E s \in read : v = Plain(s)
    OBVIOUS
  <2>1. PICK s \in Preferred : v = [s EXCEPT !.view = "any"]
    BY Zenon DEF OneView
  <2>2. s \in read /\ s \in Samples
    BY <1>1, <1>2
  <2> HIDE DEF Plain
  <2>3. v = Plain(s)
    BY <1>3, <2>1, <2>2, Zenon
  <2> QED
    BY <2>2, <2>3
<1>5. \A s \in Samples : /\ Plain(s) \in Samples /\ Plain(s).at = s.at /\ Plain(s).pod = s.pod
                         /\ Plain(s).value = s.value /\ Plain(s).total = s.total
                         /\ Plain(s).life = s.life
  BY DEF Samples
<1>6. \A r, s \in read : r.at = s.at => Plain(r) = Plain(s)
  BY <1>1
<1> HIDE DEF Plain
<1>7. \A r, s \in Samples : Leads(r, s) => Leads(Plain(r), Plain(s))
  BY <1>5 DEF Leads
<1>8. OneView \subseteq Samples /\ \A s \in OneView : s.at < truth.clock
  BY <1>1, <1>4, <1>5
<1>9. ASSUME NEW r \in OneView, NEW s \in OneView
      PROVE  /\ r.at < s.at => Leads(r, s)
             /\ r.at = s.at => r = s
  <2>1. PICK p \in read : r = Plain(p)
    BY <1>4
  <2>2. PICK q \in read : s = Plain(q)
    BY <1>4
  <2>3. r.at = p.at /\ s.at = q.at /\ p \in Samples /\ q \in Samples
    BY <1>1, <1>5, <2>1, <2>2
  <2>4. p.at < q.at => Leads(p, q)
    BY <1>1
  <2>5. p.at = q.at => Plain(p) = Plain(q)
    BY <1>6
  <2> QED
    BY <1>7, <2>1, <2>2, <2>3, <2>4, <2>5
<1> QED
  BY <1>1, <1>8, <1>9

\* Of samples there is a first one and a last one.
LEMMA FirstAndLast ==
  ASSUME NEW S \in SUBSET Samples, S # {}, NEW bound \in Nat, \A s \in S : s.at < bound
  PROVE  /\ \E s \in S : \A r \in S : s.at <= r.at
         /\ \E s \in S : \A r \in S : r.at <= s.at
<1>1. \A s \in S : s.at \in Nat /\ bound - s.at \in Nat
  BY DEF Samples
<1> DEFINE Ats == {s.at : s \in S}
           Ages == {bound - s.at : s \in S}
<1>2. Ats \in SUBSET Nat /\ Ats # {} /\ Ages \in SUBSET Nat /\ Ages # {}
  BY <1>1
<1>3. PICK n \in Ats : \A m \in Ats : n <= m
  BY <1>2, SmallestOf
<1>4. PICK k \in Ages : \A m \in Ages : k <= m
  BY <1>2, SmallestOf
<1>5. PICK s \in S : k = bound - s.at
  BY <1>4
<1>6. \A r \in S : bound - s.at <= bound - r.at
  BY <1>4, <1>5
<1>7. \A r \in S : r.at <= s.at
  BY <1>1, <1>6
<1> QED
  BY <1>3, <1>7

\* What a rise is: the difference from the sample before, and never more restarts
\* than there were meanwhile; all of them if the counter was not begun anew.
LEMMA RiseIs ==
  ASSUME RestartsInv, asking = "restarts", NEW s \in OneView
  PROVE  /\ Rise(s) \in Nat
         /\ Before(s) = {} => Rise(s) = 0
         /\ Before(s) # {} =>
              \E r \in Before(s) :
                /\ \A q \in Before(s) : q.at <= r.at
                /\ r.total + Rise(s) <= s.total
                /\ r.life = s.life => r.total + Rise(s) = s.total
<1>1. /\ OneView \subseteq Samples /\ truth.clock \in Nat
      /\ \A q \in OneView : q.at < truth.clock
      /\ \A q \in OneView : q.at < s.at => Leads(q, s)
  BY ViewIs
<1>2. Before(s) \subseteq OneView /\ \A q \in Before(s) : q.at < s.at
  BY DEF Before
<1>3. CASE Before(s) = {}
  BY <1>3 DEF Rise
<1>4. CASE Before(s) # {}
  <2> DEFINE r == CHOOSE r \in Before(s) : \A q \in Before(s) : q.at <= r.at
  <2>1. \E q \in Before(s) : \A p \in Before(s) : p.at <= q.at
    <3>1. Before(s) \in SUBSET Samples /\ \A q \in Before(s) : q.at < truth.clock
      BY <1>1, <1>2
    <3> QED
      BY <1>1, <1>4, <3>1, FirstAndLast
  <2>2. r \in Before(s) /\ \A q \in Before(s) : q.at <= r.at
    BY <2>1
  <2>3. Rise(s) = IF s.value > r.value THEN s.value - r.value ELSE 0
    BY <1>4 DEF Rise
  <2> HIDE DEF r
  <2>4. Leads(r, s) /\ r \in Samples /\ s \in Samples
    BY <1>1, <1>2, <2>2
  <2>5. /\ r.total \in Nat /\ r.life \in Nat /\ r.value \in Nat
        /\ s.total \in Nat /\ s.life \in Nat /\ s.value \in Nat
    BY <2>4 DEF Samples
  <2>6. /\ r.total <= s.total /\ r.life <= s.life
        /\ r.life = s.life => r.total + s.value = s.total + r.value
        /\ r.life < s.life => r.total + s.value <= s.total
    BY <2>4 DEF Leads
  <2>7. Rise(s) \in Nat
    BY <2>3, <2>5
  <2>8. r.total + Rise(s) <= s.total
    BY <2>3, <2>5, <2>6
  <2>9. r.life = s.life => r.total + Rise(s) = s.total
    BY <2>3, <2>5, <2>6
  <2> QED
    BY <1>4, <2>2, <2>7, <2>8, <2>9
<1> QED
  BY <1>3, <1>4

\* A rise is after every sample that came before: nothing is counted twice.
LEMMA RisesApart ==
  ASSUME RestartsInv, asking = "restarts", NEW r \in OneView, NEW s \in OneView,
         r.at < s.at, Rise(s) # 0
  PROVE  r.total + Rise(s) <= s.total
<1>1. /\ r \in Samples /\ OneView \subseteq Samples
      /\ \A p, q \in OneView : p.at < q.at => Leads(p, q)
      /\ \A p, q \in OneView : p.at = q.at => p = q
  BY ViewIs
<1>2. Rise(s) \in Nat
  BY RiseIs
<1>3. Before(s) # {}
  BY RiseIs
<1>4. PICK q \in Before(s) : /\ \A p \in Before(s) : p.at <= q.at
                             /\ q.total + Rise(s) <= s.total
  BY <1>3, RiseIs
<1>5. q \in OneView /\ q.pod = s.pod /\ q.at < s.at
  BY DEF Before
<1>6. r.pod = s.pod => r \in Before(s)
  BY DEF Before
<1>7. /\ r.at \in Nat /\ q.at \in Nat /\ s.at \in Nat /\ r.pod \in Nat /\ s.pod \in Nat
      /\ r.total \in Nat /\ q.total \in Nat /\ s.total \in Nat
  BY <1>1, <1>5 DEF Samples
<1>8. r.at <= q.at
  <2> SUFFICES ASSUME q.at < r.at PROVE FALSE
    BY <1>7
  <2>1. Leads(q, r) /\ Leads(r, s)
    BY <1>1, <1>5
  <2>2. q.pod <= r.pod /\ r.pod <= s.pod
    BY <2>1 DEF Leads
  <2>3. r.pod = s.pod
    BY <1>5, <1>7, <2>2
  <2> QED
    BY <1>4, <1>6, <1>7, <2>3
<1>9. r.total <= q.total
  <2>1. CASE r.at = q.at
    BY <1>1, <1>5, <1>7, <2>1
  <2>2. CASE r.at < q.at
    BY <1>1, <1>5, <2>2 DEF Leads
  <2> QED
    BY <1>7, <1>8, <2>1, <2>2
<1> QED
  BY <1>2, <1>4, <1>7, <1>9

\* Where the counting begins: the last sample before the window, or the first of all.
Begins(first) ==
  \/ /\ \A s \in OneView : InWindow(s)
     /\ \A s \in OneView : first.at <= s.at
  \/ /\ ~InWindow(first)
     /\ \A s \in OneView : ~InWindow(s) => s.at <= first.at

\* The restart that a counted one is, of all there were.
Number(p) == p[1].total - Rise(p[1]) + p[2]

LEMMA CountedIs ==
  \A p \in CountedRestarts : /\ p[1] \in OneView /\ InWindow(p[1]) /\ p[2] \in 1 .. Rise(p[1])
                             /\ p = <<p[1], p[2]>>
<1> SUFFICES ASSUME NEW p \in CountedRestarts
             PROVE  /\ p[1] \in OneView /\ InWindow(p[1]) /\ p[2] \in 1 .. Rise(p[1])
                    /\ p = <<p[1], p[2]>>
  OBVIOUS
<1>1. PICK s \in OneView : InWindow(s) /\ p \in {s} \X (1 .. Rise(s))
  BY DEF CountedRestarts
<1> QED
  BY <1>1

LEMMA CountsAre ==
  ASSUME NEW s \in OneView, InWindow(s), NEW k \in 1 .. Rise(s)
  PROVE  <<s, k>> \in CountedRestarts
BY DEF CountedRestarts

\* A counted restart is one of those after the first sample, up to the last.
LEMMA NumberIs ==
  ASSUME RestartsInv, asking = "restarts", NEW first \in OneView, NEW last \in OneView,
         Begins(first), \A s \in OneView : s.at <= last.at,
         NEW p \in CountedRestarts
  PROVE  Number(p) \in (first.total + 1) .. last.total
<1> DEFINE s == p[1]
<1>1. s \in OneView /\ InWindow(s) /\ p[2] \in 1 .. Rise(s)
  BY CountedIs
<1> HIDE DEF s
<1>2. Rise(s) \in Nat
  BY <1>1, RiseIs
<1>3. Rise(s) # 0 /\ p[2] \in Nat /\ p[2] >= 1 /\ p[2] <= Rise(s)
  BY <1>1, <1>2
<1>4. Before(s) # {}
  BY <1>1, <1>3, RiseIs
<1>5. PICK r \in Before(s) : (\A q \in Before(s) : q.at <= r.at) /\ r.total + Rise(s) <= s.total
  BY <1>1, <1>4, RiseIs
<1>6. r \in OneView /\ r.pod = s.pod /\ r.at < s.at
  BY DEF Before
<1>7. /\ OneView \subseteq Samples
      /\ \A q, o \in OneView : q.at < o.at => Leads(q, o)
      /\ \A q, o \in OneView : q.at = o.at => q = o
  BY ViewIs
<1>8. /\ r.at \in Nat /\ s.at \in Nat /\ first.at \in Nat /\ last.at \in Nat
      /\ r.pod \in Nat /\ s.pod \in Nat /\ first.pod \in Nat
      /\ r.total \in Nat /\ s.total \in Nat /\ first.total \in Nat /\ last.total \in Nat
  BY <1>1, <1>6, <1>7 DEF Samples
<1>9. first.at <= r.at
  <2> SUFFICES ASSUME r.at < first.at PROVE FALSE
    BY <1>8
  <2>1. ~InWindow(first)
    BY <1>6, <1>8 DEF Begins
  <2>2. first.at < s.at
    BY <1>1, <1>8, <2>1, MetricsAssumption DEF InWindow
  <2>3. Leads(r, first) /\ Leads(first, s)
    BY <1>1, <1>6, <1>7, <2>2
  <2>4. first.pod = s.pod
    BY <1>6, <1>8, <2>3 DEF Leads
  <2>5. first \in Before(s)
    BY <2>2, <2>4 DEF Before
  <2> QED
    BY <1>5, <1>8, <2>5
<1>10. first.total <= r.total
  <2>1. CASE first.at = r.at
    BY <1>6, <1>7, <1>8, <2>1
  <2>2. CASE first.at < r.at
    BY <1>6, <1>7, <2>2 DEF Leads
  <2> QED
    BY <1>8, <1>9, <2>1, <2>2
<1>11. s.total <= last.total
  <2>1. CASE s.at = last.at
    BY <1>1, <1>7, <1>8, <2>1
  <2>2. CASE s.at < last.at
    BY <1>1, <1>7, <2>2 DEF Leads
  <2> QED
    BY <1>1, <1>8, <2>1, <2>2
<1>12. Number(p) = s.total - Rise(s) + p[2]
  BY DEF Number, s
<1> QED
  BY <1>2, <1>3, <1>5, <1>8, <1>10, <1>11, <1>12

\* No restart is counted twice.
LEMMA NumbersDiffer ==
  ASSUME RestartsInv, asking = "restarts", NEW p \in CountedRestarts, NEW q \in CountedRestarts,
         Number(p) = Number(q)
  PROVE  p = q
<1>1. /\ p[1] \in OneView /\ p[2] \in 1 .. Rise(p[1]) /\ p = <<p[1], p[2]>>
      /\ q[1] \in OneView /\ q[2] \in 1 .. Rise(q[1]) /\ q = <<q[1], q[2]>>
  BY CountedIs
<1>2. Rise(p[1]) \in Nat /\ Rise(q[1]) \in Nat
  BY <1>1, RiseIs
<1>3. OneView \subseteq Samples /\ \A r, s \in OneView : r.at = s.at => r = s
  BY ViewIs
<1>4. /\ p[1].at \in Nat /\ q[1].at \in Nat /\ p[1].total \in Nat /\ q[1].total \in Nat
  BY <1>1, <1>3 DEF Samples
<1>5. p[1].total - Rise(p[1]) + p[2] = q[1].total - Rise(q[1]) + q[2]
  BY DEF Number
<1>6. /\ p[2] \in Nat /\ p[2] >= 1 /\ p[2] <= Rise(p[1])
      /\ q[2] \in Nat /\ q[2] >= 1 /\ q[2] <= Rise(q[1])
  BY <1>1, <1>2
<1>7. ~(p[1].at < q[1].at)
  <2> SUFFICES ASSUME p[1].at < q[1].at PROVE FALSE
    OBVIOUS
  <2>1. Rise(q[1]) # 0
    BY <1>2, <1>6
  <2>2. p[1].total + Rise(q[1]) <= q[1].total
    BY <1>1, <2>1, RisesApart
  <2> QED
    BY <1>2, <1>4, <1>5, <1>6, <2>2
<1>8. ~(q[1].at < p[1].at)
  <2> SUFFICES ASSUME q[1].at < p[1].at PROVE FALSE
    OBVIOUS
  <2>1. Rise(p[1]) # 0
    BY <1>2, <1>6
  <2>2. q[1].total + Rise(p[1]) <= p[1].total
    BY <1>1, <2>1, RisesApart
  <2> QED
    BY <1>2, <1>4, <1>5, <1>6, <2>2
<1>9. p[1] = q[1]
  BY <1>1, <1>3, <1>4, <1>7, <1>8
<1>10. p[2] = q[2]
  BY <1>2, <1>4, <1>5, <1>6, <1>9
<1> QED
  BY <1>1, <1>9, <1>10

\* While the counter is not begun anew, none is lost.
LEMMA EachIsCounted ==
  ASSUME RestartsInv, asking = "restarts", NEW first \in OneView, NEW last \in OneView,
         Begins(first), \A s \in OneView : s.at <= last.at, first.life = last.life,
         NEW n \in (first.total + 1) .. last.total
  PROVE  \E p \in CountedRestarts : Number(p) = n
<1>1. /\ OneView \subseteq Samples /\ truth.clock \in Nat
      /\ \A s \in OneView : s.at < truth.clock
      /\ \A q, o \in OneView : q.at < o.at => Leads(q, o)
      /\ \A q, o \in OneView : q.at = o.at => q = o
  BY ViewIs
<1>2. \A s \in OneView : s.at \in Nat /\ s.total \in Nat /\ s.life \in Nat /\ s.pod \in Nat
  BY <1>1 DEF Samples
<1>3. n \in Nat /\ first.total < n /\ n <= last.total
  BY <1>2
<1>4. \A s \in OneView : InWindow(s) <=> Since <= s.at
  BY <1>2, MetricsAssumption DEF InWindow
<1>5. Since \in Nat
  BY MetricsAssumption
\* A sample of the window that has more than the first one is after it.
<1>6. \A s \in OneView : InWindow(s) /\ n <= s.total => first.at < s.at
  <2> SUFFICES ASSUME NEW s \in OneView, InWindow(s), n <= s.total PROVE first.at < s.at
    OBVIOUS
  <2>1. CASE ~InWindow(first)
    BY <1>2, <1>4, <1>5, <2>1
  <2>2. CASE InWindow(first)
    <3>1. first.at <= s.at
      BY <2>2 DEF Begins
    <3>2. first.at # s.at
      BY <1>1, <1>2, <1>3
    <3> QED
      BY <1>2, <3>1, <3>2
  <2> QED
    BY <2>1, <2>2
<1>7. InWindow(last)
  <2> SUFFICES ASSUME ~InWindow(last) PROVE FALSE
    OBVIOUS
  <2>1. last.at <= first.at
    BY DEF Begins
  <2>2. last.at = first.at
    BY <1>2, <2>1
  <2>3. last = first
    BY <1>1, <2>2
  <2> QED
    BY <1>2, <1>3, <2>3
<1> DEFINE Reached == {s \in OneView : InWindow(s) /\ n <= s.total}
<1>8. Reached \in SUBSET Samples /\ Reached # {} /\ \A s \in Reached : s.at < truth.clock
  BY <1>1, <1>3, <1>7
<1>9. PICK s \in Reached : \A q \in Reached : s.at <= q.at
  <2> HIDE DEF Reached
  <2> QED
    BY <1>1, <1>8, FirstAndLast
<1>10. /\ s \in OneView /\ InWindow(s) /\ n <= s.total
       /\ \A q \in OneView : InWindow(q) /\ n <= q.total => s.at <= q.at
  BY <1>9
<1> HIDE DEF Reached
<1>11. first.at < s.at /\ Leads(first, s)
  BY <1>1, <1>6, <1>10
<1>12. s.life <= last.life
  <2>1. CASE s.at = last.at
    BY <1>1, <1>2, <1>10, <2>1
  <2>2. CASE s.at < last.at
    BY <1>1, <1>10, <2>2 DEF Leads
  <2> QED
    BY <1>2, <1>10, <2>1, <2>2
<1>13. s.life = first.life /\ s.pod = first.pod
  BY <1>2, <1>10, <1>11, <1>12 DEF Leads
<1>14. first \in Before(s)
  BY <1>11, <1>13 DEF Before
<1>15. PICK r \in Before(s) :
         /\ \A q \in Before(s) : q.at <= r.at
         /\ r.total + Rise(s) <= s.total
         /\ r.life = s.life => r.total + Rise(s) = s.total
  BY <1>10, <1>14, RiseIs
<1>16. r \in OneView /\ r.at < s.at /\ first.at <= r.at
  BY <1>14, <1>15 DEF Before
<1>17. first.life <= r.life /\ r.life <= s.life
  <2>1. Leads(r, s)
    BY <1>1, <1>10, <1>16
  <2>2. CASE first.at = r.at
    BY <1>1, <1>2, <1>16, <2>1, <2>2 DEF Leads
  <2>3. CASE first.at < r.at
    BY <1>1, <1>16, <2>1, <2>3 DEF Leads
  <2> QED
    BY <1>2, <1>16, <2>2, <2>3
<1>18. r.total + Rise(s) = s.total
  BY <1>2, <1>10, <1>13, <1>15, <1>16, <1>17
<1>19. r.total < n
  <2>1. CASE InWindow(r)
    BY <1>2, <1>3, <1>10, <1>16, <2>1
  <2>2. CASE ~InWindow(r)
    <3>1. r.at <= first.at
      BY <1>16, <2>2 DEF Begins
    <3>2. r = first
      BY <1>1, <1>2, <1>16, <3>1
    <3> QED
      BY <1>3, <3>2
  <2> QED
    BY <2>1, <2>2
<1>20. Rise(s) \in Nat
  BY <1>10, RiseIs
<1>21. n - r.total \in 1 .. Rise(s)
  BY <1>2, <1>3, <1>10, <1>16, <1>18, <1>19, <1>20
<1>22. <<s, n - r.total>> \in CountedRestarts
  BY <1>10, <1>21, CountsAre
<1>23. Number(<<s, n - r.total>>) = n
  <2>1. Number(<<s, n - r.total>>) = s.total - Rise(s) + (n - r.total)
    BY DEF Number
  <2> QED
    BY <1>2, <1>3, <1>10, <1>16, <1>18, <1>20, <2>1
<1> QED
  BY <1>22, <1>23

LEMMA EventsAre ==
  ASSUME RestartsInv, asking = "restarts", NEW first \in OneView, NEW last \in OneView,
         Begins(first), \A s \in OneView : s.at <= last.at
  PROVE  /\ EventCount <= last.total - first.total
         /\ first.life = last.life => EventCount = last.total - first.total
<1>1. /\ OneView \subseteq Samples
      /\ \A q, o \in OneView : q.at < o.at => Leads(q, o)
      /\ \A q, o \in OneView : q.at = o.at => q = o
  BY ViewIs
<1>2. /\ first.total \in Nat /\ last.total \in Nat /\ first.at \in Nat /\ last.at \in Nat
      /\ first.at <= last.at
  BY <1>1 DEF Samples
<1>3. first.total <= last.total
  <2>1. CASE first.at = last.at
    BY <1>1, <1>2, <2>1
  <2>2. CASE first.at < last.at
    BY <1>1, <2>2 DEF Leads
  <2> QED
    BY <1>2, <2>1, <2>2
<1> DEFINE T == (first.total + 1) .. last.total
           f == [p \in CountedRestarts |-> Number(p)]
<1>4. IsFiniteSet(T) /\ Cardinality(T) = last.total - first.total
  <2>1. first.total + 1 \in Int /\ last.total \in Int
    BY <1>2
  <2>2. /\ IsFiniteSet(T)
        /\ Cardinality(T) = IF first.total + 1 > last.total THEN 0
                            ELSE last.total - (first.total + 1) + 1
    BY <2>1, FS_Interval, Zenon
  <2> HIDE DEF T
  <2> QED
    BY <1>2, <1>3, <2>2
<1>5. \A p \in CountedRestarts : Number(p) \in T
  BY NumberIs
<1>6. \A p, q \in CountedRestarts : Number(p) = Number(q) => p = q
  BY NumbersDiffer
<1>7. first.life = last.life => \A n \in T : \E p \in CountedRestarts : Number(p) = n
  BY EachIsCounted
<1> HIDE DEF T
<1>8. f \in Injection(CountedRestarts, T)
  BY <1>5, <1>6, Zenon DEF Injection, IsInjective
<1>9. first.life = last.life => f \in Surjection(CountedRestarts, T)
  BY <1>5, <1>7 DEF Surjection
<1> HIDE DEF f
<1>10. /\ Cardinality(CountedRestarts) <= Cardinality(T)
       /\ Cardinality(CountedRestarts) = Cardinality(T) <=> f \in Surjection(CountedRestarts, T)
  BY <1>4, <1>8, FS_Injection
<1> QED
  BY <1>4, <1>9, <1>10 DEF EventCount

LEMMA RestartsAreCounted ==
  ASSUME RestartsInv
  PROVE  RestartsHappened
<1> SUFFICES ASSUME asking = "restarts", OneView # {}
    PROVE  LET earlier == {s \in OneView : ~InWindow(s)}
               first ==
                 IF earlier # {} THEN CHOOSE s \in earlier : \A r \in earlier : s.at >= r.at
                 ELSE CHOOSE s \in OneView : \A r \in OneView : s.at <= r.at
               last == CHOOSE s \in OneView : \A r \in OneView : s.at >= r.at
           IN /\ EventCount <= last.total - first.total
              /\ first.life = last.life => EventCount = last.total - first.total
  BY DEF RestartsHappened
<1> DEFINE earlier == {s \in OneView : ~InWindow(s)}
           first ==
             IF earlier # {} THEN CHOOSE s \in earlier : \A r \in earlier : s.at >= r.at
             ELSE CHOOSE s \in OneView : \A r \in OneView : s.at <= r.at
           last == CHOOSE s \in OneView : \A r \in OneView : s.at >= r.at
<1>1. /\ OneView \in SUBSET Samples /\ truth.clock \in Nat
      /\ \A s \in OneView : s.at < truth.clock
  BY ViewIs
<1>2. \A s \in OneView : s.at \in Nat
  BY <1>1 DEF Samples
<1>3. last \in OneView /\ \A s \in OneView : s.at <= last.at
  <2>1. \E s \in OneView : \A r \in OneView : r.at <= s.at
    BY <1>1, FirstAndLast
  <2>2. \E s \in OneView : \A r \in OneView : s.at >= r.at
    BY <2>1
  <2> QED
    BY <2>2
<1>4. CASE earlier = {}
  <2>1. \E s \in OneView : \A r \in OneView : s.at <= r.at
    BY <1>1, FirstAndLast
  <2>2. first \in OneView /\ \A s \in OneView : first.at <= s.at
    BY <1>4, <2>1
  <2> HIDE DEF first, last
  <2>3. Begins(first)
    BY <1>4, <2>2 DEF Begins
  <2> QED
    BY <1>3, <2>2, <2>3, EventsAre DEF first, last
<1>5. CASE earlier # {}
  <2>1. earlier \in SUBSET Samples /\ \A s \in earlier : s.at < truth.clock
    BY <1>1
  <2>2. \E s \in earlier : \A r \in earlier : r.at <= s.at
    <3> HIDE DEF earlier
    <3> QED
      BY <1>1, <1>5, <2>1, FirstAndLast
  <2>3. \E s \in earlier : \A r \in earlier : s.at >= r.at
    BY <2>2
  <2>4. first \in earlier /\ \A s \in earlier : s.at <= first.at
    BY <1>5, <2>3
  <2> HIDE DEF first, last
  <2>5. Begins(first)
    BY <2>4 DEF Begins
  <2>6. first \in OneView
    BY <2>4
  <2> QED
    BY <1>3, <2>5, <2>6, EventsAre DEF first, last
<1> QED
  BY <1>4, <1>5

\* A time is one from which points are collected unless it is near one before it.
Anchored(A, times, within) ==
  \A t \in times : t \in A <=> ~\E u \in A : u < t /\ t - u <= within

LEMMA AnchorsAre ==
  ASSUME NEW times \in SUBSET Times, NEW within \in Nat
  PROVE  Anchors(times, within) \in SUBSET times /\ Anchored(Anchors(times, within), times, within)
<1>1. LastTime \in Nat /\ within \in Nat /\ times \subseteq Nat /\ \A t \in times : t < LastTime + 1
  BY MetricsAssumption DEF Times
<1> DEFINE Upto(n) == {t \in times : t < n}
           P(n) == \E A \in SUBSET Upto(n) : Anchored(A, Upto(n), within)
           Bad == {n \in Nat : ~P(n)}
<1>2. P(0)
  <2>1. \A t \in times : ~(t < 0)
    BY <1>1
  <2>2. Upto(0) = {}
    BY <2>1, Zenon
  <2> QED
    BY <2>2 DEF Anchored
<1>3. ASSUME NEW n \in Nat, P(n) PROVE P(n + 1)
  <2>1. PICK A \in SUBSET Upto(n) : Anchored(A, Upto(n), within)
    BY <1>3
  <2>2. \A t \in Upto(n + 1) : t \in Upto(n) \/ t = n
    BY <1>1
  <2>3. \A u \in A : u \in Nat /\ u < n
    BY <1>1
  <2>4. CASE n \in times /\ ~\E u \in A : u < n /\ n - u <= within
    <3>1. A \cup {n} \in SUBSET Upto(n + 1)
      BY <1>1, <2>4
    <3>2. ASSUME NEW t \in Upto(n + 1)
          PROVE  t \in A \cup {n} <=> ~\E u \in A \cup {n} : u < t /\ t - u <= within
      <4>1. CASE t = n
        BY <2>4, <4>1
      <4>2. CASE t \in Upto(n)
        <5>1. t \in A <=> ~\E u \in A : u < t /\ t - u <= within
          BY <2>1, <4>2 DEF Anchored
        <5>2. t < n /\ t \in Nat
          BY <1>1, <4>2
        <5> QED
          BY <5>1, <5>2
      <4> QED
        BY <2>2, <4>1, <4>2
    <3>3. Anchored(A \cup {n}, Upto(n + 1), within)
      BY <3>2 DEF Anchored
    <3> QED
      BY <3>1, <3>3
  <2>5. CASE n \notin times
    <3>0. \A t \in times : t < n + 1 <=> t < n
      BY <1>1, <2>5
    <3>1. Upto(n + 1) = Upto(n)
      BY <3>0, Zenon
    <3> HIDE DEF Upto
    <3> QED
      BY <2>1, <3>1
  <2>6. CASE n \in times /\ \E u \in A : u < n /\ n - u <= within
    <3>1. A \in SUBSET Upto(n + 1)
      BY <1>1
    <3>2. ASSUME NEW t \in Upto(n + 1)
          PROVE  t \in A <=> ~\E u \in A : u < t /\ t - u <= within
      <4>1. CASE t = n
        BY <2>3, <2>6, <4>1
      <4>2. CASE t \in Upto(n)
        BY <2>1, <4>2 DEF Anchored
      <4> QED
        BY <2>2, <4>1, <4>2
    <3>3. Anchored(A, Upto(n + 1), within)
      BY <3>2 DEF Anchored
    <3> QED
      BY <3>1, <3>3
  <2> QED
    BY <2>4, <2>5, <2>6
<1> HIDE DEF P
<1>4. Bad = {}
  <2> SUFFICES ASSUME Bad # {} PROVE FALSE
    OBVIOUS
  <2>1. Bad \in SUBSET Nat
    OBVIOUS
  <2>2. PICK n \in Bad : \A m \in Bad : n <= m
    <3> HIDE DEF Bad
    <3> QED
      BY <2>1, SmallestOf
  <2>3. n \in Nat /\ ~P(n) /\ n # 0
    BY <1>2, <2>2
  <2>4. n - 1 \in Nat /\ (n - 1) + 1 = n /\ ~(n <= n - 1)
    BY <2>3
  <2>5. P(n - 1)
    BY <2>2, <2>4
  <2>6. P((n - 1) + 1)
    BY <1>3, <2>4, <2>5
  <2> QED
    BY <2>3, <2>4, <2>6
<1>5. P(LastTime + 1)
  <2>1. LastTime + 1 \in Nat
    BY <1>1
  <2> QED
    BY <1>4, <2>1
<1>6. Upto(LastTime + 1) = times
  BY <1>1
<1>7. \E A \in SUBSET times : Anchored(A, times, within)
  <2>1. \E A \in SUBSET Upto(LastTime + 1) : Anchored(A, Upto(LastTime + 1), within)
    BY <1>5 DEF P
  <2> HIDE DEF Upto
  <2> QED
    BY <1>6, <2>1
<1>8. \E A \in SUBSET times :
        \A t \in times : t \in A <=> ~\E u \in A : u < t /\ t - u <= within
  BY <1>7 DEF Anchored
<1> QED
  BY <1>8, Zenon DEF Anchors, Anchored

\* Each time is near exactly one of those.
LEMMA OneAnchorEach ==
  ASSUME NEW times \in SUBSET Times, NEW within \in Nat, NEW t \in times
  PROVE  /\ \E a \in Anchors(times, within) : Near(a, t, within)
         /\ \A a, b \in Anchors(times, within) : Near(a, t, within) /\ Near(b, t, within) => a = b
<1>1. /\ Anchors(times, within) \subseteq times /\ times \subseteq Nat /\ t \in Nat /\ within \in Nat
      /\ \A s \in times : s \in Anchors(times, within)
           <=> ~\E u \in Anchors(times, within) : u < s /\ s - u <= within
  BY AnchorsAre, MetricsAssumption DEF Times, Anchored
<1>2. \E a \in Anchors(times, within) : Near(a, t, within)
  <2>1. CASE t \in Anchors(times, within)
    BY <1>1, <2>1 DEF Near
  <2>2. CASE t \notin Anchors(times, within)
    <3>1. PICK u \in Anchors(times, within) : u < t /\ t - u <= within
      BY <1>1, <2>2
    <3>2. u \in Nat
      BY <1>1
    <3>3. Near(u, t, within)
      BY <1>1, <3>1, <3>2 DEF Near
    <3> QED
      BY <3>3
  <2> QED
    BY <2>1, <2>2
<1>3. ASSUME NEW a \in Anchors(times, within), NEW b \in Anchors(times, within), Near(a, t, within), Near(b, t, within), a < b
      PROVE  FALSE
  <2>1. a \in Nat /\ b \in Nat /\ b \in times
    BY <1>1
  <2>2. b - a <= within
    BY <1>1, <1>3, <2>1 DEF Near
  <2> QED
    BY <1>1, <1>3, <2>1, <2>2
<1>4. \A a, b \in Anchors(times, within) : a \in Nat /\ b \in Nat
  BY <1>1
<1> QED
  BY <1>2, <1>3, <1>4

\* If only equal times are near, each stands for itself.
LEMMA OnlyItself ==
  ASSUME NEW times \in SUBSET Times, NEW t \in times
  PROVE  t \in Anchors(times, 0)
<1>1. 0 \in Nat /\ t \in Nat /\ \A u \in times : u \in Nat
  BY MetricsAssumption DEF Times
<1>2. Anchors(times, 0) \in SUBSET times /\ Anchored(Anchors(times, 0), times, 0)
  BY <1>1, AnchorsAre
<1>3. t \in Anchors(times, 0) <=> ~\E u \in Anchors(times, 0) : u < t /\ t - u <= 0
  BY <1>2, Zenon DEF Anchored
<1>4. \A u \in Anchors(times, 0) : u \in Nat
  BY <1>1, <1>2
<1>5. ~\E u \in Anchors(times, 0) : u < t /\ t - u <= 0
  BY <1>1, <1>4
<1> QED
  BY <1>3, <1>5

MemoryInv ==
  asking = "memory" =>
    /\ truth \in [stamps : [Summands -> [Stamps -> Times]], command : {"gpu", "mem"},
                  stepped : BOOLEAN]
    /\ step \in {"samples", "summed"}
    /\ step = "summed" => read = Sums

LEMMA WithinIs == Within \in Nat /\ (truth.command = "mem" => Within = Tolerance)
BY MetricsAssumption DEF Within

\* The points of a card or a container are of its samples; no two of a card are near.
LEMMA PointsAre ==
  ASSUME MemoryInv, asking = "memory", NEW c \in Summands
  PROVE  /\ PointsOf(c) \in SUBSET StampsOf(c) /\ StampsOf(c) \in SUBSET Times
         /\ truth.command = "gpu" => \A t, u \in PointsOf(c) : t < u => ~(u - t <= Within)
         /\ Stamps # {} => PointsOf(c) # {}
<1>1. truth.stamps \in [Summands -> [Stamps -> Times]] /\ truth.command \in {"gpu", "mem"}
  BY DEF MemoryInv
<1>2. StampsOf(c) \in SUBSET Times
  BY <1>1 DEF StampsOf
<1>3. PointsOf(c) = IF truth.command = "gpu" THEN Anchors(StampsOf(c), Within) ELSE StampsOf(c)
  BY DEF PointsOf
<1>4. Stamps # {} => StampsOf(c) # {}
  BY DEF StampsOf
<1>5. /\ Anchors(StampsOf(c), Within) \in SUBSET StampsOf(c)
      /\ \A s \in StampsOf(c) : s \in Anchors(StampsOf(c), Within)
           <=> ~\E u \in Anchors(StampsOf(c), Within) : u < s /\ s - u <= Within
  BY <1>2, AnchorsAre, WithinIs DEF Anchored
<1>6. CASE truth.command = "gpu"
  <2>1. Stamps # {} => Anchors(StampsOf(c), Within) # {}
    BY <1>2, <1>4, OneAnchorEach, WithinIs
  <2> QED
    BY <1>2, <1>3, <1>5, <1>6, <2>1
<1>7. CASE truth.command = "mem"
  BY <1>2, <1>3, <1>4, <1>7
<1> QED
  BY <1>1, <1>6, <1>7

LEMMA PointTimes ==
  ASSUME MemoryInv, asking = "memory"
  PROVE  /\ \A p \in AllPoints : /\ p[1] \in Summands /\ p[2] \in PointsOf(p[1]) /\ p[2] \in Times
                                 /\ p = <<p[1], p[2]>>
         /\ \A c \in Summands : \A t \in PointsOf(c) : <<c, t>> \in AllPoints
         /\ {p[2] : p \in AllPoints} \in SUBSET Times
<1>1. ASSUME NEW p \in AllPoints
      PROVE  /\ p[1] \in Summands /\ p[2] \in PointsOf(p[1]) /\ p[2] \in Times
             /\ p = <<p[1], p[2]>>
  <2>1. PICK c \in Summands : p \in {c} \X PointsOf(c)
    BY DEF AllPoints
  <2>2. p[1] = c /\ p[2] \in PointsOf(c) /\ p = <<p[1], p[2]>>
    BY <2>1
  <2> QED
    BY <2>2, PointsAre
<1>2. \A c \in Summands : \A t \in PointsOf(c) : <<c, t>> \in AllPoints
  BY DEF AllPoints
<1> QED
  BY <1>1, <1>2

LEMMA MemoryIsCounted ==
  ASSUME MemoryInv
  PROVE  CountedOnceEach
<1> DEFINE times == {p[2] : p \in AllPoints}
<1> SUFFICES ASSUME asking = "memory", step = "summed"
    PROVE  /\ \A sum \in read : \A p, q \in sum.of :
                p[1] = q[1] /\ p[2] < q[2] => truth.command = "mem" /\ q[2] - p[2] <= Tolerance
           /\ \A p \in AllPoints :
                \E sum \in read : p \in sum.of /\ \A other \in read : p \in other.of => other = sum
           /\ (\A t \in times, u \in times : t <= u => u - t <= Within) =>
                \A sum \in read : {p[1] : p \in sum.of} = Summands
           /\ truth.command = "gpu" /\ truth.stepped =>
                \A c \in Summands : \A t \in StampsOf(c) :
                  \E sum \in read : sum.at = t /\ <<c, t>> \in sum.of
  BY DEF CountedOnceEach
<1>1. /\ \A p \in AllPoints : /\ p[1] \in Summands /\ p[2] \in PointsOf(p[1]) /\ p[2] \in Times
                              /\ p = <<p[1], p[2]>>
      /\ \A c \in Summands : \A t \in PointsOf(c) : <<c, t>> \in AllPoints
      /\ times \in SUBSET Times
  BY PointTimes
<1>2. \A p \in AllPoints : p[2] \in times
  OBVIOUS
<1>3. \A t \in times : \E p \in AllPoints : p[2] = t
  OBVIOUS
<1>4. read = {SumAt(a) : a \in Anchors(times, Within)}
  BY DEF MemoryInv, Sums
<1> HIDE DEF times
<1>5. \A a : SumAt(a).of = {p \in AllPoints : Near(a, p[2], Within)}
  BY DEF SumAt
<1>6. \A t \in times : t \in Nat /\ t \in Times
  BY <1>1, MetricsAssumption DEF Times
<1>7. /\ Anchors(times, Within) \subseteq times
      /\ \A s \in times : s \in Anchors(times, Within)
           <=> ~\E u \in Anchors(times, Within) : u < s /\ s - u <= Within
  BY <1>1, AnchorsAre, WithinIs DEF Anchored
<1>8. Within \in Nat
  BY WithinIs
<1>9. ASSUME NEW sum \in read, NEW p \in sum.of, NEW q \in sum.of, p[1] = q[1], p[2] < q[2]
      PROVE  truth.command = "mem" /\ q[2] - p[2] <= Tolerance
  <2>1. PICK a \in Anchors(times, Within) : sum = SumAt(a)
    BY <1>4
  <2>2. p \in AllPoints /\ q \in AllPoints /\ Near(a, p[2], Within) /\ Near(a, q[2], Within)
    BY <1>5, <2>1
  <2>3. a \in Nat /\ p[2] \in Nat /\ q[2] \in Nat
    BY <1>2, <1>6, <1>7, <2>2
  <2>4. q[2] - p[2] <= Within
    BY <1>8, <1>9, <2>2, <2>3 DEF Near
  <2>5. p[1] \in Summands /\ p[2] \in PointsOf(p[1]) /\ q[2] \in PointsOf(p[1])
    BY <1>1, <1>9, <2>2
  <2>6. truth.command = "gpu" => \A t, u \in PointsOf(p[1]) : t < u => ~(u - t <= Within)
    BY <2>5, PointsAre
  <2>7. truth.command = "mem"
    BY <1>9, <2>4, <2>5, <2>6 DEF MemoryInv
  <2> QED
    BY <2>4, <2>7, WithinIs
<1>10. ASSUME NEW p \in AllPoints
       PROVE  \E sum \in read : p \in sum.of /\ \A other \in read : p \in other.of => other = sum
  <2>1. p[2] \in times
    BY <1>2
  <2>2. PICK a \in Anchors(times, Within) : Near(a, p[2], Within)
    BY <1>1, <2>1, OneAnchorEach, WithinIs
  <2>3. \A b \in Anchors(times, Within) : Near(b, p[2], Within) => b = a
    BY <1>1, <2>1, <2>2, OneAnchorEach, WithinIs
  <2>4. SumAt(a) \in read /\ p \in SumAt(a).of
    BY <1>4, <1>5, <2>2
  <2>5. ASSUME NEW other \in read, p \in other.of PROVE other = SumAt(a)
    <3>1. PICK b \in Anchors(times, Within) : other = SumAt(b)
      BY <1>4
    <3>2. Near(b, p[2], Within)
      BY <1>5, <2>5, <3>1
    <3> QED
      BY <2>3, <3>1, <3>2
  <2> QED
    BY <2>4, <2>5
<1>11. ASSUME \A t \in times, u \in times : t <= u => u - t <= Within, NEW sum \in read
       PROVE  {p[1] : p \in sum.of} = Summands
  <2>1. PICK a \in Anchors(times, Within) : sum = SumAt(a)
    BY <1>4
  <2>2. a \in times /\ a \in Nat
    BY <1>6, <1>7
  <2>3. \A t \in times : Near(a, t, Within)
    <3> SUFFICES ASSUME NEW t \in times PROVE Near(a, t, Within)
      OBVIOUS
    <3>1. t \in Nat
      BY <1>6
    <3>2. a <= t
      <4> SUFFICES ASSUME t < a PROVE FALSE
        BY <2>2, <3>1
      <4>1. a - t <= Within
        BY <1>11, <2>2, <3>1
      <4>2. t \notin Anchors(times, Within)
        BY <1>7, <2>2, <4>1
      <4>3. PICK u \in Anchors(times, Within) : u < t /\ t - u <= Within
        BY <1>7, <4>2
      <4>4. u \in times /\ u \in Nat
        BY <1>6, <1>7
      <4>5. u < a /\ a - u <= Within
        BY <1>11, <2>2, <3>1, <4>3, <4>4
      <4> QED
        BY <1>7, <2>2, <4>5
    <3>3. t - a <= Within
      BY <1>11, <2>2, <3>2
    <3> QED
      BY <3>2, <3>3 DEF Near
  <2>4. Stamps # {}
    <3>1. PICK p \in AllPoints : p[2] = a
      BY <1>3, <2>2
    <3>2. PointsOf(p[1]) # {} /\ p[1] \in Summands
      BY <1>1
    <3> SUFFICES ASSUME Stamps = {} PROVE FALSE
      OBVIOUS
    <3>3. StampsOf(p[1]) = {}
      BY DEF StampsOf
    <3> QED
      BY <3>2, <3>3, PointsAre
  <2>5. ASSUME NEW c \in Summands PROVE \E p \in sum.of : p[1] = c
    <3>1. PICK t \in PointsOf(c) : TRUE
      BY <2>4, PointsAre
    <3>2. <<c, t>> \in AllPoints
      BY <1>1
    <3>3. <<c, t>>[2] \in times
      BY <1>2, <3>2
    <3>4. <<c, t>> \in sum.of
      BY <1>5, <2>1, <2>3, <3>2, <3>3
    <3> QED
      BY <3>4
  <2>6. \A p \in sum.of : p[1] \in Summands
    BY <1>1, <1>5, <2>1
  <2> QED
    BY <2>5, <2>6
<1>12. ASSUME truth.command = "gpu", truth.stepped, NEW c \in Summands, NEW t \in StampsOf(c)
       PROVE  \E sum \in read : sum.at = t /\ <<c, t>> \in sum.of
  <2>1. Within = 0 /\ StampsOf(c) \in SUBSET Times
    BY <1>12, PointsAre DEF Within
  <2>2. PointsOf(c) = Anchors(StampsOf(c), 0)
    BY <1>12, <2>1 DEF PointsOf
  <2>3. t \in PointsOf(c)
    BY <2>1, <2>2, OnlyItself
  <2>4. <<c, t>> \in AllPoints
    BY <1>1, <2>3
  <2>5. t \in times /\ t \in Nat
    <3>1. <<c, t>>[2] \in times
      BY <1>2, <2>4
    <3> QED
      BY <1>6, <3>1
  <2>6. t \in Anchors(times, Within)
    BY <1>1, <2>1, <2>5, OnlyItself
  <2>7. SumAt(t) \in read /\ SumAt(t).at = t
    BY <1>4, <2>6 DEF SumAt
  <2>8. Near(t, t, Within)
    BY <1>8, <2>5 DEF Near
  <2>9. <<c, t>> \in SumAt(t).of
    BY <1>5, <2>4, <2>8
  <2> QED
    BY <2>7, <2>9
<1> QED
  BY <1>9, <1>10, <1>11, <1>12

SamplesInv == RestartsInv /\ MemoryInv

LEMMA SamplesAreCounted == SamplesInv => SamplesAreWhole
BY RestartsAreCounted, MemoryIsCounted DEF SamplesInv, SamplesAreWhole

LEMMA SamplesInitInv == MetricsInit => SamplesInv
<1> SUFFICES ASSUME MetricsInit PROVE SamplesInv
  OBVIOUS
<1>1. asking = "restarts" => RestartsInit
  BY DEF MetricsInit
<1>2. RestartsInv
  BY <1>1, RestartsInitInv DEF RestartsInv
<1>3. asking = "memory" => MemoryInit
  BY DEF MetricsInit
<1>4. MemoryInv
  BY <1>3 DEF MemoryInit, MemoryInv
<1> QED
  BY <1>2, <1>4 DEF SamplesInv

LEMMA SumsStay ==
  ASSUME UNCHANGED truth
  PROVE  UNCHANGED Sums
<1>1. Within' = Within /\ AllPoints' = AllPoints /\ \A a : SumAt(a)' = SumAt(a)
  BY DEF AllPoints, PointsOf, StampsOf, Within, SumAt
<1>2. Sums' = {SumAt(a)' : a \in Anchors({p[2] : p \in AllPoints'}, Within')}
  BY DEF Sums
<1> QED
  BY <1>1, <1>2 DEF Sums

LEMMA MemoryNextInv ==
  ASSUME MemoryInv, asking' = asking, asking = "memory", Aggregate
  PROVE  MemoryInv'
<1>1. UNCHANGED truth /\ step' = "summed" /\ read' = Sums
  BY DEF Aggregate
<1>2. Sums' = Sums
  BY <1>1, SumsStay
<1> QED
  BY <1>1, <1>2 DEF MemoryInv

LEMMA SamplesPreserved == SamplesInv /\ [MetricsNext]_metricsVars => SamplesInv'
<1> SUFFICES ASSUME SamplesInv, [MetricsNext]_metricsVars PROVE SamplesInv'
  OBVIOUS
<1>1. CASE MetricsNext
  <2>1. /\ asking' = asking
        /\ asking = "restarts" => RestartsStep
        /\ asking = "memory" => Aggregate
    BY <1>1, MetricsStepIs
  <2>2. CASE asking = "restarts"
    <3>1. RestartsInv'
      BY <2>1, <2>2, RestartsNextInv DEF SamplesInv
    <3> QED
      BY <2>1, <2>2, <3>1 DEF SamplesInv, MemoryInv
  <2>3. CASE asking = "memory"
    <3>1. MemoryInv'
      BY <2>1, <2>3, MemoryNextInv DEF SamplesInv
    <3> QED
      BY <2>1, <2>3, <3>1 DEF SamplesInv, RestartsInv
  <2> QED
    BY <2>1, <2>2, <2>3 DEF SamplesInv, RestartsInv, MemoryInv
<1>2. CASE UNCHANGED metricsVars
  <2>1. UNCHANGED <<asking, truth, read, step>>
    BY <1>2 DEF metricsVars
  <2>2. RestartsInv'
    BY <2>1 DEF SamplesInv, RestartsInv, Counter
  <2>3. Sums' = Sums
    BY <2>1, SumsStay
  <2>4. MemoryInv'
    BY <2>1, <2>3 DEF SamplesInv, MemoryInv
  <2> QED
    BY <2>2, <2>4 DEF SamplesInv
<1> QED
  BY <1>1, <1>2
===============================================================================
