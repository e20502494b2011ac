-------------------------- MODULE MultipathProofs ---------------------------
(***************************************************************************)
(* Theorems about Multipath, for every number of paths, senders and        *)
(* selections.                                                             *)
(***************************************************************************)
EXTENDS Multipath, SequenceTheorems, FiniteSetTheorems, WellFoundedInduction, TLAPS

-----------------------------------------------------------------------------
(***************************************************************************)
(* The scheduler: what ConnectedIndices and PathAt return.                 *)
(***************************************************************************)

\* How many elements of a set of positions are at most i.
Rank(S, i) == Cardinality({j \in S : j <= i})

\* The rank counts the elements on the way: it starts at zero, ends at the number
\* of elements, and goes up by one at an element and nowhere else.
LEMMA RankSteps ==
    ASSUME NEW n \in Nat, NEW S \in SUBSET (1 .. n)
    PROVE  /\ IsFiniteSet(S) /\ Cardinality(S) \in Nat
           /\ \A i \in 0 .. n : Rank(S, i) \in Nat
           /\ Rank(S, 0) = 0 /\ Rank(S, n) = Cardinality(S)
           /\ \A i \in 1 .. n :
                Rank(S, i) = IF i \in S THEN Rank(S, i - 1) + 1 ELSE Rank(S, i - 1)
<1>0. \A j \in S : j \in Nat /\ 1 <= j /\ j <= n
  OBVIOUS
<1>1. IsFiniteSet(S) /\ Cardinality(S) \in Nat
  <2>1. IsFiniteSet(1 .. n)
    BY FS_Interval
  <2> QED  BY <2>1, FS_Subset, FS_CardinalityType
<1>2. \A i \in 0 .. n : IsFiniteSet({j \in S : j <= i}) /\ Rank(S, i) \in Nat
  BY <1>1, FS_Subset, FS_CardinalityType DEF Rank
<1>3. Rank(S, 0) = 0
  <2>1. {j \in S : j <= 0} = {}
    <3>1. \A j \in S : ~(j <= 0)
      BY <1>0
    <3> QED  BY <3>1
  <2> QED  BY <2>1, FS_EmptySet DEF Rank
<1>4. Rank(S, n) = Cardinality(S)
  <2>1. {j \in S : j <= n} = S
    BY <1>0
  <2> QED  BY <2>1 DEF Rank
<1>5. ASSUME NEW i \in 1 .. n
      PROVE  Rank(S, i) = IF i \in S THEN Rank(S, i - 1) + 1 ELSE Rank(S, i - 1)
  <2> DEFINE A == {j \in S : j <= i - 1}
             B == {j \in S : j <= i}
  <2>1. IsFiniteSet(A)
    BY <1>1, FS_Subset
  <2>2. CASE i \in S
    <3>1. \A j \in S : j <= i <=> j <= i - 1 \/ j = i
      BY <1>0
    <3>2. B = A \cup {i} /\ i \notin A
      <4>1. ~(i <= i - 1) /\ i <= i
        OBVIOUS
      <4> QED  BY <2>2, <3>1, <4>1, Zenon
    <3> HIDE DEF A, B
    <3>3. Cardinality(B) = Cardinality(A) + 1
      BY <2>1, <3>2, FS_AddElement
    <3> QED  BY <2>2, <3>3 DEF A, B, Rank
  <2>3. CASE i \notin S
    <3>1. \A j \in S : j <= i <=> j <= i - 1
      BY <1>0, <2>3
    <3>2. B = A
      BY <3>1, Zenon
    <3> QED  BY <2>3, <3>2 DEF Rank
  <2> QED  BY <2>2, <2>3
<1> QED  BY <1>1, <1>2, <1>3, <1>4, <1>5

\* A set of naturals that is not empty has a least element.
LEMMA LeastNatural ==
    ASSUME NEW T, T \subseteq Nat, T # {}
    PROVE  \E m \in T : \A k \in T : m <= k
<1> DEFINE R == OpToRel(<, Nat)
<1>1. IsWellFoundedOn(R, Nat)
  BY NatLessThanWellFounded
<1>2. \A x, y \in Nat : <<y, x>> \in R <=> y < x
  BY DEF OpToRel
<1> HIDE DEF R
<1>3. PICK x \in T : \A y \in T : ~(<<y, x>> \in R)
  BY <1>1, WFMin
<1>4. ASSUME NEW k \in T PROVE x <= k
  <2>1. k \in Nat /\ x \in Nat /\ ~(k < x)
    BY <1>2, <1>3
  <2> QED  BY <2>1
<1> QED  BY <1>4

\* Each rank from one to the number of elements is that of some element.
LEMMA RankReached ==
    ASSUME NEW n \in Nat, NEW S \in SUBSET (1 .. n), NEW k \in 1 .. Cardinality(S)
    PROVE  \E i \in S : Rank(S, i) = k
<1> DEFINE T == {i \in 0 .. n : Rank(S, i) >= k}
<1>1. /\ Cardinality(S) \in Nat
      /\ \A i \in 0 .. n : Rank(S, i) \in Nat
      /\ Rank(S, 0) = 0 /\ Rank(S, n) = Cardinality(S)
      /\ \A i \in 1 .. n :
           Rank(S, i) = IF i \in S THEN Rank(S, i - 1) + 1 ELSE Rank(S, i - 1)
  BY RankSteps
<1>2. n \in T /\ T \subseteq Nat
  BY <1>1
<1>3. PICK m \in T : \A i \in T : m <= i
  BY <1>2, LeastNatural
<1>4. m \in 1 .. n /\ m - 1 \in 0 .. n
  BY <1>1, <1>3
<1>5. m - 1 \notin T
  BY <1>3, <1>4
<1>6. Rank(S, m - 1) < k /\ Rank(S, m) >= k
  BY <1>1, <1>3, <1>4, <1>5
<1>7. m \in S /\ Rank(S, m) = k
  BY <1>1, <1>4, <1>6
<1> QED  BY <1>7

\* Elements of the same rank are the same.
LEMMA RankInjective ==
    ASSUME NEW n \in Nat, NEW S \in SUBSET (1 .. n), NEW i \in S, NEW j \in S,
           Rank(S, i) = Rank(S, j)
    PROVE  i = j
<1>1. ASSUME NEW a \in S, NEW b \in S, a < b PROVE Rank(S, a) # Rank(S, b)
  <2> DEFINE A == {x \in S : x <= a}
             B == {x \in S : x <= b}
  <2>1. IsFiniteSet(B)
    BY RankSteps, FS_Subset
  <2>2. A \in SUBSET B /\ b \in B /\ b \notin A
    <3>1. /\ \A x \in S : x <= a => x <= b
          /\ b <= b /\ ~(b <= a)
      BY <1>1
    <3> QED  BY <3>1, Zenon
  <2>3. A # B
    BY <2>2
  <2> HIDE DEF A, B
  <2>4. Cardinality(A) # Cardinality(B)
    BY <2>1, <2>2, <2>3, FS_Subset
  <2> QED  BY <2>4 DEF A, B, Rank
<1> QED  BY <1>1

\* ConnectedIndices lists each connected position of a list once, from zero.
LEMMA ConnectedList ==
    ASSUME NEW list, Len(list) \in Nat
    PROVE  LET up == {i \in 1 .. Len(list) : stats[list[i]].connected}
               indices == ConnectedIndices(list) IN
           /\ indices \in Seq(0 .. Len(list) - 1)
           /\ Len(indices) = Cardinality(up) /\ Cardinality(up) \in Nat
           /\ \A k \in 1 .. Len(indices) : indices[k] + 1 \in up
           /\ \A i \in up : \E k \in 1 .. Len(indices) : indices[k] = i - 1
           /\ indices = << >> <=> up = {}
<1> DEFINE n == Len(list)
           up == {i \in 1 .. n : stats[list[i]].connected}
           At(k) == CHOOSE i \in up : Cardinality({j \in up : j <= i}) = k
           c == ConnectedIndices(list)
<1>1. /\ n \in Nat /\ up \in SUBSET (1 .. n)
      /\ c = [k \in 1 .. Cardinality(up) |-> At(k) - 1]
  BY DEF ConnectedIndices
<1> HIDE DEF n, up, c
<1>2. IsFiniteSet(up) /\ Cardinality(up) \in Nat /\ \A i \in 0 .. n : Rank(up, i) \in Nat
  BY <1>1, RankSteps
<1>3. ASSUME NEW k \in 1 .. Cardinality(up) PROVE At(k) \in up /\ Rank(up, At(k)) = k
  <2>1. \E i \in up : Cardinality({j \in up : j <= i}) = k
    BY <1>1, RankReached DEF Rank
  <2> QED  BY <2>1 DEF Rank
<1>4. ASSUME NEW i \in up PROVE \E k \in 1 .. Cardinality(up) : At(k) = i
  <2> DEFINE k == Rank(up, i)
  <2>1. k \in 1 .. Cardinality(up)
    <3>1. k \in Nat
      BY <1>1, <1>2
    <3>2. Rank(up, i) <= Cardinality(up) /\ Rank(up, i) # 0
      <4> DEFINE A == {j \in up : j <= i}
      <4>1. A \in SUBSET up /\ i \in A
        BY <1>1
      <4> HIDE DEF A
      <4>2. IsFiniteSet(A) /\ Cardinality(A) <= Cardinality(up) /\ Cardinality(A) # 0
        BY <1>2, <4>1, FS_Subset, FS_EmptySet
      <4> QED  BY <4>2 DEF A, Rank
    <3> QED  BY <1>2, <3>1, <3>2
  <2>2. At(k) \in up /\ Rank(up, At(k)) = Rank(up, i)
    BY <1>3, <2>1
  <2>3. At(k) = i
    BY <1>1, <2>2, RankInjective
  <2> QED  BY <2>1, <2>3
<1> HIDE DEF At
<1>5. \A k \in 1 .. Cardinality(up) : At(k) - 1 \in 0 .. n - 1 /\ (At(k) - 1) + 1 = At(k)
  <2> TAKE k \in 1 .. Cardinality(up)
  <2>1. At(k) \in 1 .. n
    BY <1>1, <1>3
  <2> QED  BY <1>1, <2>1
<1>6. c \in Seq(0 .. n - 1) /\ Len(c) = Cardinality(up)
  <2>1. c \in [1 .. Cardinality(up) -> 0 .. n - 1]
    BY <1>1, <1>5
  <2>2. Cardinality(up) \in Nat
    BY <1>2
  <2>3. \A S : \A f \in [1 .. Cardinality(up) -> S] : f \in Seq(S) /\ Len(f) = Cardinality(up)
    BY <2>2
  <2> QED  BY <2>1, <2>3
<1>7. ASSUME NEW k \in 1 .. Len(c) PROVE c[k] + 1 \in up
  <2>1. k \in 1 .. Cardinality(up)
    BY <1>6
  <2>2. c[k] = At(k) - 1
    BY <1>1, <2>1
  <2> QED  BY <1>3, <1>5, <2>1, <2>2
<1>8. ASSUME NEW i \in up PROVE \E k \in 1 .. Len(c) : c[k] = i - 1
  <2>1. PICK k \in 1 .. Cardinality(up) : At(k) = i
    BY <1>4
  <2>2. c[k] = i - 1
    BY <1>1, <2>1
  <2> QED  BY <1>6, <2>2
<1>9. c = << >> <=> up = {}
  <2>1. c = << >> <=> Cardinality(up) = 0
    BY <1>6
  <2> QED  BY <1>2, <2>1, FS_EmptySet
<1> QED  BY <1>2, <1>6, <1>7, <1>8, <1>9 DEF n, up, c

\* When every position is connected, they are all listed, in order.
LEMMA AllConnected ==
    ASSUME NEW list, Len(list) \in Nat, \A i \in 1 .. Len(list) : stats[list[i]].connected
    PROVE  /\ Len(ConnectedIndices(list)) = Len(list)
           /\ \A k \in 1 .. Len(list) : ConnectedIndices(list)[k] = k - 1
<1> DEFINE n == Len(list)
           up == {i \in 1 .. n : stats[list[i]].connected}
           c == ConnectedIndices(list)
<1>1. up = 1 .. n /\ n \in Nat
  OBVIOUS
<1>i. \A i \in Nat : Cardinality(1 .. i) = i
  <2>1. ASSUME NEW i \in Nat PROVE Cardinality(1 .. i) = i
    BY FS_Interval
  <2> QED  BY <2>1
<1>2. Cardinality(up) = n
  BY <1>1, <1>i
<1>3. ASSUME NEW i \in up PROVE Cardinality({j \in up : j <= i}) = i
  <2>1. {j \in up : j <= i} = 1 .. i /\ i \in Nat
    BY <1>1
  <2> QED  BY <1>i, <2>1
<1>4. c = [k \in 1 .. Cardinality(up) |->
             (CHOOSE i \in up : Cardinality({j \in up : j <= i}) = k) - 1]
  BY DEF ConnectedIndices
<1> HIDE DEF n, up, c
<1>5. ASSUME NEW k \in 1 .. n PROVE c[k] = k - 1
  <2>1. k \in up /\ \A i \in up : Cardinality({j \in up : j <= i}) = k <=> i = k
    BY <1>1, <1>3, <1>5
  <2>2. (CHOOSE i \in up : Cardinality({j \in up : j <= i}) = k) = k
    BY <2>1
  <2> QED  BY <1>2, <1>4, <1>5, <2>2
<1>6. Len(c) = n
  BY <1>1, <1>2, <1>4
<1> QED  BY <1>5, <1>6 DEF n, c

\* Division with remainder.
LEMMA Remainder ==
    ASSUME NEW L \in Nat \ {0}, NEW c \in Nat
    PROVE  c % L \in 0 .. L - 1 /\ c \div L \in Nat /\ c = L * (c \div L) + (c % L)
OBVIOUS

\* A listing of a finite set is a sequence of its elements.
LEMMA ListingType ==
    ASSUME NEW S, IsFiniteSet(S), NEW list \in Listings(S)
    PROVE  list \in Seq(S) /\ Len(list) = Cardinality(S) /\ Len(list) \in Nat
<1>1. Cardinality(S) \in Nat
  BY FS_CardinalityType
<1> QED  BY <1>1 DEF Listings

\* The paths are finitely many, as many as were to be added.
LEMMA PathsFinite ==
    /\ PathOrder \in Seq(Paths) /\ Len(PathOrder) \in Nat \ {0}
    /\ IsFiniteSet(Paths) /\ Cardinality(Paths) = Len(PathOrder)
<1> DEFINE n == Len(PathOrder)
<1>1. /\ PathOrder \in Seq(Paths) /\ n \in Nat /\ n # 0
      /\ PathOrder \in [1 .. n -> Paths] /\ DOMAIN PathOrder = 1 .. n
  BY MultipathAssumption
<1>2. PathOrder \in Surjection(1 .. n, Paths) /\ PathOrder \in Injection(1 .. n, Paths)
  BY <1>1, MultipathAssumption DEF Surjection, Injection, IsInjective, Paths, Range
<1>3. IsFiniteSet(1 .. n) /\ Cardinality(1 .. n) = n
  BY <1>1, FS_Interval
<1>4. IsFiniteSet(Paths) /\ Cardinality(Paths) = Cardinality(1 .. n)
  BY <1>2, <1>3, FS_Surjection
<1> QED  BY <1>1, <1>3, <1>4

-----------------------------------------------------------------------------
(***************************************************************************)
(* The inductive invariant: which paths are where.                         *)
(***************************************************************************)

\* The paths are added in order; the one that is being added is the next.
OrderInv ==
    /\ Len(connections) <= Len(PathOrder)
    /\ \A i \in 1 .. Len(connections) : connections[i] = PathOrder[i]
    /\ main.pc \in {"adding", "addStats", "append"} =>
         Len(connections) < Len(PathOrder) /\ main.path = PathOrder[Len(connections) + 1]
    /\ main.pc = "append" => stats[main.path].known
    /\ main.pc \in {"closeNext", "closeWaits"} => main.at >= 1

\* A path takes part once it is added, and the statistics lag behind the flag of the
\* connection: they never call a path connected that is not ready.
PathInv(p) ==
    /\ p \in AddedPaths => stats[p].known
    /\ p \notin AddedPaths =>
         /\ session[p] = "none" /\ handler[p] = "none" /\ ~ready[p]
         /\ stats[p].sent = 0 /\ stats[p].errors = 0
    /\ stats[p].connected => ready[p] /\ stats[p].known
    /\ handler[p] \in {"marked", "accepted_done"} => ready[p]
    /\ handler[p] = "accepted_done" => stats[p].connected

\* The copy the sampler is about to store is not stale: it does not undo what the
\* handler has stored, and is true of the connection.
SamplerInv ==
    /\ sampler.pc \in {"sampling", "storing"} =>
         sampler.at >= 1 /\ sampler.upTo <= Len(connections)
    /\ sampler.pc = "storing" =>
         /\ sampler.at <= sampler.upTo
         /\ stats[connections[sampler.at]].connected => sampler.flag
         /\ sampler.flag => ready[connections[sampler.at]]

\* A sender uses paths that are added.
SenderInv(s) ==
    /\ sender[s].pc \in {"locking", "writing", "sent", "sendFailed"}
         => sender[s].path \in AddedPaths
    /\ \A i \in 1 .. Len(sender[s].available) : sender[s].available[i] \in AddedPaths
    /\ sender[s].pc = "collecting" => sender[s].at >= 1

PathsInv == OrderInv /\ (\A p \in Paths : PathInv(p)) /\ SamplerInv

Inv == TypeOK /\ PathsInv /\ \A s \in Senders : SenderInv(s)

\* The connections and the paths that are added.
LEMMA AddedFacts ==
    ASSUME connections \in Seq(Paths), OrderInv
    PROVE  /\ Len(connections) \in Nat
           /\ AddedPaths \subseteq Paths
           /\ \A i \in 1 .. Len(connections) : connections[i] \in AddedPaths
           /\ \A p \in AddedPaths : \E i \in 1 .. Len(connections) : connections[i] = p
           /\ main.pc \in {"adding", "addStats", "append"} => main.path \in Paths \ AddedPaths
           /\ AddedPaths = Paths => Len(connections) = Len(PathOrder)
<1>1. Len(connections) \in Nat /\ DOMAIN connections = 1 .. Len(connections)
  OBVIOUS
<1>2. AddedPaths = {connections[i] : i \in 1 .. Len(connections)}
  BY <1>1 DEF AddedPaths, Range
<1>3. /\ AddedPaths \subseteq Paths
      /\ \A i \in 1 .. Len(connections) : connections[i] \in AddedPaths
      /\ \A p \in AddedPaths : \E i \in 1 .. Len(connections) : connections[i] = p
  BY <1>2
<1>4. /\ Len(PathOrder) \in Nat
      /\ \A i \in 1 .. Len(PathOrder) : PathOrder[i] \in Paths
      /\ \A i, j \in 1 .. Len(PathOrder) : PathOrder[i] = PathOrder[j] => i = j
  BY PathsFinite, MultipathAssumption DEF IsInjective
<1>5. ASSUME Len(connections) < Len(PathOrder)
      PROVE  PathOrder[Len(connections) + 1] \in Paths \ AddedPaths
  <2> DEFINE k == Len(connections) + 1
  <2>1. k \in 1 .. Len(PathOrder) /\ \A i \in 1 .. Len(connections) : i # k
    BY <1>1, <1>4, <1>5
  <2>2. \A i \in 1 .. Len(connections) : connections[i] # PathOrder[k]
    BY <1>4, <2>1 DEF OrderInv
  <2> QED  BY <1>3, <1>4, <2>1, <2>2
<1>6. main.pc \in {"adding", "addStats", "append"} => main.path \in Paths \ AddedPaths
  BY <1>5 DEF OrderInv
<1>7. AddedPaths = Paths => Len(connections) = Len(PathOrder)
  BY <1>1, <1>4, <1>5 DEF OrderInv
<1> QED  BY <1>1, <1>3, <1>6, <1>7

\* Adding a path adds that path.
LEMMA AddedAfter ==
    ASSUME Inv, AppendConnection
    PROVE  AddedPaths' = AddedPaths \cup {main.path}
<1>1. /\ connections \in Seq(Paths) /\ Len(connections) \in Nat /\ main.path \in Paths
      /\ connections' = Append(connections, main.path)
  BY AddedFacts DEF Inv, PathsInv, TypeOK, AppendConnection
<1>2. /\ DOMAIN connections = 1 .. Len(connections)
      /\ DOMAIN connections' = 1 .. Len(connections) + 1
      /\ \A i \in 1 .. Len(connections) : connections'[i] = connections[i]
      /\ connections'[Len(connections) + 1] = main.path
  BY <1>1
<1>3. 1 .. Len(connections) + 1 = 1 .. Len(connections) \cup {Len(connections) + 1}
  BY <1>1
<1> QED  BY <1>2, <1>3 DEF AddedPaths, Range

\* No path is added while the connections stay the same.
LEMMA AddedSame ==
    ASSUME connections' = connections
    PROVE  AddedPaths' = AddedPaths
BY DEF AddedPaths

\* A step that leaves the publisher's books alone.
BooksSame == UNCHANGED <<connections, ready, stats, session, main, handler, sampler>>

\* Such a step keeps the invariant.
LEMMA BooksSameInv ==
    ASSUME PathsInv, BooksSame
    PROVE  PathsInv'
<1>1. OrderInv'
  BY DEF PathsInv, BooksSame, OrderInv
<1>2. \A p \in Paths : PathInv(p)'
  BY AddedSame DEF PathsInv, BooksSame, PathInv
<1>3. SamplerInv'
  BY DEF PathsInv, BooksSame, SamplerInv
<1> QED  BY <1>1, <1>2, <1>3 DEF PathsInv

\* The main goroutine keeps the invariant of the paths.
LEMMA MainPaths ==
    ASSUME Inv, BeginAdd \/ BeginClose \/ MainStep
    PROVE  PathsInv'
<1>0. /\ TypeOK /\ OrderInv /\ SamplerInv /\ \A p \in Paths : PathInv(p)
      /\ Len(connections) \in Nat /\ Len(PathOrder) \in Nat
      /\ main.pc \in {"adding", "addStats", "append"} => main.path \in Paths \ AddedPaths
  BY AddedFacts, PathsFinite DEF Inv, PathsInv, TypeOK
<1>1. ASSUME UNCHANGED <<connections, ready, stats, handler, sampler>>,
             OrderInv', \A p \in Paths : p \notin AddedPaths => session'[p] = session[p]
      PROVE  PathsInv'
  <2>1. \A p \in Paths : PathInv(p)'
    BY <1>0, <1>1, AddedSame DEF PathInv
  <2>2. SamplerInv'
    BY <1>0, <1>1 DEF SamplerInv
  <2> QED  BY <1>1, <2>1, <2>2 DEF PathsInv
<1>2. CASE BeginAdd
  <2>1. OrderInv'
    BY <1>0, <1>2 DEF BeginAdd, OrderInv, TypeOK
  <2> QED  BY <1>1, <1>2, <2>1 DEF BeginAdd
<1>3. CASE BeginClose
  <2>1. OrderInv'
    BY <1>0, <1>3 DEF BeginClose, OrderInv, TypeOK
  <2> QED  BY <1>1, <1>3, <2>1 DEF BeginClose
<1>4. CASE MainLocks
  <2>1. OrderInv'
    BY <1>0, <1>4 DEF MainLocks, OrderInv, TypeOK
  <2> QED  BY <1>1, <1>4, <2>1 DEF MainLocks
<1>5. CASE AddStats
  <2>1. main.path \in Paths \ AddedPaths
    BY <1>0, <1>5 DEF AddStats
  <2>2. /\ stats' = [stats EXCEPT ![main.path] = [NoStats EXCEPT !.known = TRUE]]
        /\ UNCHANGED <<connections, ready, session, handler, sampler>>
        /\ main' = [main EXCEPT !.pc = "append"] /\ StatsFree
    BY <1>5 DEF AddStats
  <2>3. /\ stats'[main.path].known /\ ~stats'[main.path].connected
        /\ stats'[main.path].sent = 0 /\ stats'[main.path].errors = 0
        /\ \A p \in Paths : p # main.path => stats'[p] = stats[p]
    BY <1>0, <2>1, <2>2 DEF TypeOK, NoStats
  <2>4. main'.pc = "append" /\ main'.path = main.path
    BY <1>0, <2>2 DEF TypeOK
  <2>5. OrderInv'
    BY <1>0, <1>5, <2>2, <2>3, <2>4 DEF AddStats, OrderInv
  <2>6. ASSUME NEW p \in Paths PROVE PathInv(p)'
    <3>1. PathInv(p) /\ AddedPaths' = AddedPaths
      BY <1>0, <2>2, AddedSame
    <3> QED  BY <2>1, <2>2, <2>3, <3>1 DEF PathInv
  <2>7. SamplerInv'
    BY <2>2 DEF SamplerInv, StatsFree
  <2> QED  BY <2>5, <2>6, <2>7 DEF PathsInv
<1>6. CASE AppendConnection
  <2>1. /\ main.path \in Paths /\ stats[main.path].known
        /\ main.path = PathOrder[Len(connections) + 1] /\ Len(connections) < Len(PathOrder)
        /\ connections' = Append(connections, main.path)
        /\ session' = [session EXCEPT ![main.path] = "running"]
        /\ main' = [main EXCEPT !.pc = "idle", !.path = None]
        /\ UNCHANGED <<ready, stats, handler, sampler>>
    BY <1>0, <1>6 DEF AppendConnection, OrderInv
  <2>2. AddedPaths' = AddedPaths \cup {main.path}
    BY <1>6, AddedAfter
  <2>3. /\ Len(connections') = Len(connections) + 1
        /\ \A i \in 1 .. Len(connections) : connections'[i] = connections[i]
        /\ connections'[Len(connections) + 1] = main.path
    BY <1>0, <2>1 DEF TypeOK
  <2>4. OrderInv'
    <3>1. main'.pc = "idle"
      BY <1>0, <2>1 DEF TypeOK
    <3> QED  BY <1>0, <2>1, <2>3, <3>1 DEF OrderInv
  <2>5. ASSUME NEW p \in Paths PROVE PathInv(p)'
    <3>1. PathInv(p) /\ (p # main.path => session'[p] = session[p])
      BY <1>0, <2>1 DEF TypeOK
    <3> QED  BY <2>1, <2>2, <3>1 DEF PathInv
  <2>6. SamplerInv'
    <3>1. sampler.pc \in {"sampling", "storing"} => sampler.upTo \in Nat /\ sampler.at \in Nat
      BY <1>0 DEF TypeOK
    <3> QED  BY <1>0, <2>1, <2>3, <3>1 DEF SamplerInv
  <2> QED  BY <2>4, <2>5, <2>6 DEF PathsInv
<1>7. CASE CloseSession
  <2>1. OrderInv'
    BY <1>0, <1>7 DEF CloseSession, OrderInv, TypeOK
  <2>2. connections[main.at] \in AddedPaths
    BY <1>0, <1>7, AddedFacts DEF CloseSession, OrderInv, TypeOK
  <2>3. \A p \in Paths : p \notin AddedPaths => session'[p] = session[p]
    BY <1>0, <1>7, <2>2 DEF CloseSession, TypeOK
  <2> QED  BY <1>1, <1>7, <2>1, <2>3 DEF CloseSession
<1>8. CASE SessionClosed
  <2>1. OrderInv'
    BY <1>0, <1>8 DEF SessionClosed, OrderInv, TypeOK
  <2> QED  BY <1>1, <1>8, <2>1 DEF SessionClosed
<1>9. CASE CloseReturns
  <2>1. OrderInv'
    BY <1>0, <1>9 DEF CloseReturns, OrderInv, TypeOK
  <2> QED  BY <1>1, <1>9, <2>1 DEF CloseReturns
<1> QED  BY <1>2, <1>3, <1>4, <1>5, <1>6, <1>7, <1>8, <1>9 DEF MainStep

\* The subscribe handlers, and the loss of a path, keep it.
LEMMA HandlerPaths ==
    ASSUME Inv, NEW p \in Paths, PathDies(p) \/ HandleSubscribe(p) \/ HandlerStep(p)
    PROVE  PathsInv'
<1>0. /\ TypeOK /\ OrderInv /\ SamplerInv /\ \A q \in Paths : PathInv(q)
      /\ UNCHANGED <<connections, main, sampler>>
  BY DEF Inv, PathsInv, PathDies, HandleSubscribe, HandlerStep, AcceptSubscribe, MarkReady,
         MarkStats
<1>1. AddedPaths' = AddedPaths
  BY <1>0, AddedSame
<1>2. PathDies(p) \/ HandleSubscribe(p) => p \in AddedPaths
  BY <1>0 DEF PathDies, HandleSubscribe, PathInv
<1>3. HandlerStep(p) => p \in AddedPaths
  BY <1>0 DEF HandlerStep, AcceptSubscribe, MarkReady, MarkStats, PathInv
<1>4. CASE PathDies(p)
  <2>1. \A q \in Paths : PathInv(q)'
    BY <1>0, <1>1, <1>2, <1>4 DEF PathDies, PathInv, TypeOK
  <2> QED  BY <1>0, <1>4, <2>1 DEF PathDies, PathsInv, OrderInv, SamplerInv
<1>5. CASE HandleSubscribe(p)
  <2>1. \A q \in Paths : q # p => handler'[q] = handler[q]
    BY <1>0, <1>5 DEF HandleSubscribe, TypeOK
  <2>2. handler'[p] \in {"accepting", "rejected"}
    BY <1>0, <1>5 DEF HandleSubscribe, TypeOK
  <2>3. \A q \in Paths : PathInv(q)'
    BY <1>0, <1>1, <1>2, <1>5, <2>1, <2>2 DEF HandleSubscribe, PathInv
  <2> QED  BY <1>0, <1>5, <2>3 DEF HandleSubscribe, PathsInv, OrderInv, SamplerInv
<1>6. CASE AcceptSubscribe(p)
  <2>1. \A q \in Paths : PathInv(q)'
    BY <1>0, <1>1, <1>3, <1>6 DEF AcceptSubscribe, HandlerStep, PathInv, TypeOK
  <2> QED  BY <1>0, <1>6, <2>1 DEF AcceptSubscribe, PathsInv, OrderInv, SamplerInv
<1>7. CASE MarkReady(p)
  <2>1. \A q \in Paths : PathInv(q)'
    BY <1>0, <1>1, <1>3, <1>7 DEF MarkReady, HandlerStep, PathInv, TypeOK
  <2>2. \A q \in Paths : ready[q] => ready'[q]
    BY <1>0, <1>7 DEF MarkReady, TypeOK
  <2>3. SamplerInv'
    <3>1. sampler.pc = "storing" => connections[sampler.at] \in Paths
      BY <1>0, AddedFacts DEF SamplerInv, TypeOK
    <3> QED  BY <1>0, <1>7, <2>2, <3>1 DEF MarkReady, SamplerInv
  <2> QED  BY <1>0, <1>7, <2>1, <2>3 DEF MarkReady, PathsInv, OrderInv
<1>8. CASE MarkStats(p)
  <2>1. /\ stats'[p].known = stats[p].known /\ stats'[p].connected
        /\ stats'[p].sent = stats[p].sent /\ stats'[p].errors = stats[p].errors
        /\ \A q \in Paths : q # p => stats'[q] = stats[q]
        /\ handler'[p] = "accepted_done"
        /\ \A q \in Paths : q # p => handler'[q] = handler[q]
        /\ handler[p] = "marked" /\ stats[p].known
        /\ UNCHANGED <<ready, session>>
    BY <1>0, <1>3, <1>8 DEF MarkStats, HandlerStep, PathInv, TypeOK, PathStats
  <2>2. \A q \in Paths : PathInv(q)'
    BY <1>0, <1>1, <2>1, ZenonT(40) DEF PathInv
  <2>3. OrderInv'
    <3>1. main.pc = "append" => main.path \in Paths
      BY <1>0, AddedFacts DEF TypeOK
    <3> QED  BY <1>0, <2>1, <3>1 DEF OrderInv
  <2>4. SamplerInv'
    BY <1>0, <1>8 DEF MarkStats, StatsFree, SamplerInv
  <2> QED  BY <2>2, <2>3, <2>4 DEF PathsInv
<1> QED  BY <1>4, <1>5, <1>6, <1>7, <1>8 DEF HandlerStep

\* So does the sampler: nobody else writes the statistics while it holds their lock.
LEMMA SamplerPaths ==
    ASSUME Inv, SamplerTick \/ SamplerStep
    PROVE  PathsInv'
<1>0. /\ TypeOK /\ OrderInv /\ SamplerInv /\ \A q \in Paths : PathInv(q)
      /\ UNCHANGED <<connections, main, ready, session, handler>>
      /\ sampler.at \in Nat /\ sampler.upTo \in Nat /\ Len(connections) \in Nat
  BY AddedFacts DEF Inv, PathsInv, TypeOK, SamplerTick, SamplerStep, Sample, StoreSample,
                    SamplerDone
<1>1. AddedPaths' = AddedPaths
  BY <1>0, AddedSame
<1>2. ASSUME UNCHANGED stats, SamplerInv' PROVE PathsInv'
  BY <1>0, <1>1, <1>2 DEF PathsInv, OrderInv, PathInv
<1>3. CASE SamplerTick
  <2>1. SamplerInv'
    BY <1>0, <1>3 DEF SamplerTick, SamplerInv, TypeOK
  <2> QED  BY <1>2, <1>3, <2>1 DEF SamplerTick
<1>4. CASE Sample
  <2> DEFINE p == connections[sampler.at]
  <2>1. p \in Paths
    BY <1>0, <1>4, AddedFacts DEF Sample, SamplerInv, TypeOK
  <2>2. /\ sampler'.pc = "storing" /\ sampler'.flag = ready[p]
        /\ sampler'.at = sampler.at /\ sampler'.upTo = sampler.upTo
        /\ sampler.pc = "sampling" /\ sampler.at <= sampler.upTo
    BY <1>0, <1>4 DEF Sample, Sampled, TypeOK
  <2>3. stats[p].connected => ready[p]
    BY <1>0, <2>1 DEF PathInv
  <2>4. UNCHANGED stats
    BY <1>4 DEF Sample
  <2>5. SamplerInv'
    BY <1>0, <2>2, <2>3, <2>4 DEF SamplerInv
  <2> QED  BY <1>2, <2>4, <2>5
<1>5. CASE StoreSample
  <2> DEFINE p == connections[sampler.at]
  <2>1. p \in AddedPaths /\ p \in Paths
    <3>1. sampler.at \in 1 .. Len(connections)
      BY <1>0, <1>5 DEF StoreSample, SamplerInv
    <3>2. connections \in Seq(Paths)
      BY <1>0 DEF TypeOK
    <3> QED  BY <1>0, <3>1, <3>2, AddedFacts
  <2>2. /\ stats[p].known
        /\ stats[p].connected => sampler.flag
        /\ sampler.flag => ready[p]
    BY <1>0, <1>5, <2>1 DEF StoreSample, SamplerInv, PathInv
  <2>3. stats' = [stats EXCEPT ![p].connected = IF stats[p].known THEN sampler.flag ELSE @]
    BY <1>5 DEF StoreSample
  <2> HIDE DEF p
  <2>4. /\ stats'[p].known /\ stats'[p].connected = sampler.flag
        /\ stats'[p].sent = stats[p].sent /\ stats'[p].errors = stats[p].errors
        /\ \A q \in Paths : q # p => stats'[q] = stats[q]
    BY <1>0, <2>1, <2>2, <2>3 DEF TypeOK, PathStats
  <2>5. \A q \in Paths : PathInv(q)'
    BY <1>0, <1>1, <2>1, <2>2, <2>4 DEF PathInv
  <2>6. OrderInv'
    <3>1. main.pc = "append" => main.path \in Paths
      BY <1>0, AddedFacts DEF TypeOK
    <3> QED  BY <1>0, <2>2, <2>4, <3>1 DEF OrderInv
  <2>7. SamplerInv'
    <3>1. sampler'.pc = "sampling" /\ sampler'.at = sampler.at + 1 /\ sampler'.upTo = sampler.upTo
      BY <1>0, <1>5 DEF StoreSample, TypeOK
    <3>2. sampler.pc = "storing"
      BY <1>5 DEF StoreSample
    <3> QED  BY <1>0, <3>1, <3>2 DEF SamplerInv
  <2> QED  BY <2>5, <2>6, <2>7 DEF PathsInv
<1>6. CASE SamplerDone
  <2>1. SamplerInv'
    BY <1>0, <1>6 DEF SamplerDone, SamplerInv, TypeOK
  <2> QED  BY <1>2, <1>6, <2>1 DEF SamplerDone
<1> QED  BY <1>3, <1>4, <1>5, <1>6 DEF SamplerStep

\* The entry of a path after an object.
LEMMA AccountedFields ==
    ASSUME NEW old \in PathStats, NEW ok \in BOOLEAN
    PROVE  /\ Accounted(old, ok) \in PathStats
           /\ Accounted(old, ok).known = old.known
           /\ Accounted(old, ok).connected = old.connected
           /\ Accounted(old, ok).sent = old.sent + 1
           /\ Accounted(old, ok).errors = IF ok THEN old.errors ELSE old.errors + 1
<1> DEFINE new == Accounted(old, ok)
           errors == IF ok THEN old.errors ELSE old.errors + 1
<1>1. old.sent + 1 \in Nat /\ errors \in Nat
  BY DEF PathStats
<1>2. new = [old EXCEPT !.sent = old.sent + 1, !.errors = errors]
  BY DEF Accounted, PathStats
<1> HIDE DEF new, errors
<1>3. /\ new \in PathStats /\ new.known = old.known /\ new.connected = old.connected
      /\ new.sent = old.sent + 1 /\ new.errors = errors
  BY <1>1, <1>2 DEF PathStats
<1> QED  BY <1>3 DEF new, errors

\* What an object leaves in the statistics of its path.
LEMMA UpdateFields ==
    ASSUME Inv, NEW s \in Senders, UpdatePathStats(s)
    PROVE  LET p == sender[s].path IN
           /\ p \in AddedPaths /\ p \in Paths
           /\ stats'[p].known = stats[p].known
           /\ stats'[p].connected = stats[p].connected
           /\ stats'[p].sent = stats[p].sent + 1
           /\ stats'[p].errors = IF sender[s].pc = "sent" THEN stats[p].errors
                                 ELSE stats[p].errors + 1
           /\ \A q \in Paths : q # p => stats'[q] = stats[q]
           /\ stats' \in [Paths -> PathStats]
<1> DEFINE p == sender[s].path
<1>1. p \in AddedPaths /\ p \in Paths
  BY AddedFacts DEF Inv, PathsInv, SenderInv, UpdatePathStats, TypeOK
<1>2. stats' = [stats EXCEPT ![p] = Accounted(@, sender[s].pc = "sent")]
  BY DEF UpdatePathStats
<1> HIDE DEF p
<1>3. stats[p] \in PathStats /\ stats \in [Paths -> PathStats]
  BY <1>1 DEF Inv, TypeOK
<1>4. stats'[p] = Accounted(stats[p], sender[s].pc = "sent")
  BY <1>1, <1>2, <1>3
<1>5. \A q \in Paths : q # p => stats'[q] = stats[q]
  BY <1>2, <1>3
<1>6. /\ stats'[p] \in PathStats
      /\ stats'[p].known = stats[p].known
      /\ stats'[p].connected = stats[p].connected
      /\ stats'[p].sent = stats[p].sent + 1
      /\ stats'[p].errors = IF sender[s].pc = "sent" THEN stats[p].errors
                            ELSE stats[p].errors + 1
  BY <1>3, <1>4, AccountedFields, ZenonT(40)
<1>7. stats' \in [Paths -> PathStats]
  BY <1>2, <1>3, <1>4, <1>6
<1> QED  BY <1>1, <1>5, <1>6, <1>7 DEF p

\* The senders keep the invariant of the paths.
LEMMA SendPaths ==
    ASSUME Inv, NEW s \in Senders, BeginSend(s) \/ SendStep(s)
    PROVE  PathsInv'
<1>1. CASE UpdatePathStats(s)
  <2>0. /\ TypeOK /\ OrderInv /\ SamplerInv /\ \A q \in Paths : PathInv(q)
        /\ UNCHANGED <<connections, main, ready, session, handler, sampler>> /\ StatsFree
    BY <1>1 DEF Inv, PathsInv, UpdatePathStats
  <2> DEFINE p == sender[s].path
  <2>1. /\ p \in AddedPaths /\ p \in Paths
        /\ \A q \in Paths : /\ stats'[q].known = stats[q].known
                            /\ stats'[q].connected = stats[q].connected
                            /\ q # p => stats'[q] = stats[q]
    BY <1>1, UpdateFields
  <2>2. AddedPaths' = AddedPaths
    BY <2>0, AddedSame
  <2>3. \A q \in Paths : PathInv(q)'
    BY <2>0, <2>1, <2>2 DEF PathInv
  <2>4. OrderInv'
    <3>1. main.pc = "append" => main.path \in Paths
      BY <2>0, AddedFacts DEF TypeOK
    <3> QED  BY <2>0, <2>1, <3>1 DEF OrderInv
  <2>5. SamplerInv'
    BY <2>0 DEF StatsFree, SamplerInv
  <2> QED  BY <2>3, <2>4, <2>5 DEF PathsInv
<1>2. CASE BooksSame
  BY <1>2, BooksSameInv DEF Inv
<1>3. BooksSame \/ UpdatePathStats(s)
  BY DEF BooksSame, BeginSend, SendStep, Collect, Collected, Select, LockConnection,
         WriteObject, GiveUp
<1> QED  BY <1>1, <1>2, <1>3

\* Every step keeps the invariant of the paths.
LEMMA PathsStep ==
    ASSUME Inv, [Next]_vars
    PROVE  PathsInv'
<1>1. CASE UNCHANGED vars \/ \E p \in Paths : ReadObject(p) \/ CountTotal(p)
  <2>1. BooksSame
    BY <1>1 DEF vars, ReadObject, CountTotal, BooksSame
  <2> QED  BY <2>1, BooksSameInv DEF Inv
<1> QED  BY <1>1, MainPaths, HandlerPaths, SamplerPaths, SendPaths DEF Next

-----------------------------------------------------------------------------
(***************************************************************************)
(* Senders and types.                                                      *)
(***************************************************************************)

\* No path is ever taken away.
LEMMA AddedGrows ==
    ASSUME Inv, [Next]_vars
    PROVE  AddedPaths \subseteq AddedPaths'
<1>1. CASE AppendConnection
  BY <1>1, AddedAfter
<1>2. CASE connections' = connections
  BY <1>2, AddedSame
<1>3. AppendConnection \/ connections' = connections
  BY DEF Next, vars, BeginSend, SendStep, Collect, Collected, Select, LockConnection,
         WriteObject, UpdatePathStats, GiveUp, PathDies, HandleSubscribe, HandlerStep,
         AcceptSubscribe, MarkReady, MarkStats, BeginAdd, BeginClose, MainStep, MainLocks,
         AddStats, CloseSession, SessionClosed, CloseReturns, SamplerTick, SamplerStep,
         Sample, StoreSample, SamplerDone, ReadObject, CountTotal
<1> QED  BY <1>1, <1>2, <1>3

\* The index of the scheduler is that of an element of the list, or -1.
LEMMA SelectedIndex ==
    ASSUME Inv, NEW list \in Listings(Known)
    PROVE  /\ Len(list) \in Nat /\ Len(list) = Cardinality(Known)
           /\ SelectPath(list) \in -1 .. Len(list) - 1
           /\ (\E i \in 1 .. Len(list) : stats[list[i]].connected) => SelectPath(list) >= 0
<1>1. IsFiniteSet(Known)
  BY PathsFinite, FS_Subset DEF Known
<1>2. Len(list) \in Nat /\ Len(list) = Cardinality(Known)
  BY <1>1, ListingType
<1> DEFINE c == ConnectedIndices(list)
           up == {i \in 1 .. Len(list) : stats[list[i]].connected}
<1>3. c \in Seq(0 .. Len(list) - 1) /\ (c = << >> <=> up = {})
  BY <1>2, ConnectedList
<1>4. counter + 1 \in Nat
  BY DEF Inv, TypeOK
<1>5. CASE c = << >>
  BY <1>2, <1>3, <1>5 DEF SelectPath, PathAt
<1>6. CASE c # << >>
  <2> HIDE DEF c, up
  <2>1. Len(c) \in Nat \ {0}
    BY <1>3, <1>6
  <2>2. ((counter + 1) % Len(c)) + 1 \in 1 .. Len(c)
    <3> DEFINE a == counter + 1
    <3> HIDE DEF a
    <3>1. a % Len(c) \in 0 .. Len(c) - 1
      BY <1>4, <2>1, Remainder DEF a
    <3> QED  BY <2>1, <3>1 DEF a
  <2>3. SelectPath(list) = c[((counter + 1) % Len(c)) + 1]
    BY <1>6 DEF SelectPath, PathAt, CounterAfter, c
  <2>4. SelectPath(list) \in 0 .. Len(list) - 1
    BY <1>3, <2>2, <2>3
  <2> QED  BY <1>2, <2>4
<1> QED  BY <1>2, <1>5, <1>6

\* One sender moves, to a call that is well formed.
LEMMA SenderMoves ==
    ASSUME Inv, [Next]_vars, NEW s \in Senders, NEW new \in SendCalls,
           sender' = [sender EXCEPT ![s] = new],
           new.pc \in {"locking", "writing", "sent", "sendFailed"} => new.path \in AddedPaths,
           \A i \in 1 .. Len(new.available) : new.available[i] \in AddedPaths,
           new.pc = "collecting" => new.at >= 1
    PROVE  /\ sender' \in [Senders -> SendCalls]
           /\ \A t \in Senders : SenderInv(t)'
<1>1. sender \in [Senders -> SendCalls]
  BY DEF Inv, TypeOK
<1>2. sender'[s] = new /\ \A t \in Senders : t # s => sender'[t] = sender[t]
  BY <1>1
<1>3. sender' \in [Senders -> SendCalls]
  BY <1>1
<1>4. AddedPaths \subseteq AddedPaths'
  BY AddedGrows
<1>5. SenderInv(s)'
  BY <1>2, <1>4 DEF SenderInv
<1>6. ASSUME NEW t \in Senders, t # s PROVE SenderInv(t)'
  <2>1. SenderInv(t) /\ sender'[t] = sender[t]
    BY <1>2, <1>6 DEF Inv
  <2> QED  BY <1>4, <2>1 DEF SenderInv
<1> QED  BY <1>3, <1>5, <1>6

\* The record of a call that begins.
LEMMA FirstRecord ==
    ASSUME NEW w \in BOOLEAN
    PROVE  LET new == [NoSend EXCEPT !.pc = "collecting", !.at = 1, !.whole = w] IN
           /\ new \in SendCalls /\ new.pc = "collecting" /\ new.at = 1
           /\ new.available = << >> /\ new.whole = w
<1> DEFINE new == [NoSend EXCEPT !.pc = "collecting", !.at = 1, !.whole = w]
<1>1. << >> \in Seq(Paths)
  OBVIOUS
<1>2. NoSend \in SendCalls /\ NoSend.available = << >>
  BY <1>1 DEF NoSend, SendCalls
<1> QED  BY <1>2 DEF SendCalls

\* Every step keeps the calls of SendObject well formed.
LEMMA SenderStep ==
    ASSUME Inv, [Next]_vars
    PROVE  /\ sender' \in [Senders -> SendCalls]
           /\ \A s \in Senders : SenderInv(s)'
<1>0. /\ sender \in [Senders -> SendCalls] /\ connections \in Seq(Paths)
      /\ OrderInv /\ \A s \in Senders : SenderInv(s)
  BY DEF Inv, TypeOK, PathsInv
<1>1. CASE sender' = sender
  <2>1. ASSUME NEW s \in Senders PROVE SenderInv(s)'
    BY <1>0, <1>1, AddedGrows DEF SenderInv
  <2> QED  BY <1>0, <1>1, <2>1
<1>2. ASSUME NEW s \in Senders, BeginSend(s) \/ SendStep(s)
      PROVE  /\ sender' \in [Senders -> SendCalls]
             /\ \A t \in Senders : SenderInv(t)'
  <2> DEFINE x == sender[s]
  <2>0. x \in SendCalls /\ SenderInv(s)
    BY <1>0
  <2>e. << >> \in Seq(Paths)
    OBVIOUS
  <2>1. CASE BeginSend(s)
    <3> DEFINE new == [NoSend EXCEPT !.pc = "collecting", !.at = 1, !.whole = AllReady]
    <3>1. AllReady \in BOOLEAN
      BY DEF AllReady
    <3>3. sender' = [sender EXCEPT ![s] = new]
      BY <2>1, Zenon DEF BeginSend
    <3>4. new \in SendCalls /\ new.pc = "collecting" /\ new.at = 1 /\ new.available = << >>
      BY <3>1, FirstRecord, Zenon
    <3> HIDE DEF new
    <3>5. new.at >= 1 /\ \A i \in 1 .. Len(new.available) : new.available[i] \in AddedPaths
      BY <3>4
    <3> QED  BY <3>3, <3>4, <3>5, SenderMoves
  <2>2. CASE Collect(s)
    <3> DEFINE p == connections[x.at]
               available == IF ready[p] THEN Append(x.available, p) ELSE x.available
               new == [x EXCEPT !.at = x.at + 1, !.available = available]
    <3>1. x.pc = "collecting" /\ x.at \in 1 .. Len(connections) /\ x.available \in Seq(Paths)
      BY <1>0, <2>0, <2>2 DEF Collect, SenderInv, SendCalls
    <3>2. p \in Paths /\ p \in AddedPaths
      BY <1>0, <3>1, AddedFacts
    <3>3. /\ available \in Seq(Paths)
          /\ \A i \in 1 .. Len(available) : available[i] \in AddedPaths
      <4> HIDE DEF p, x
      <4> QED  BY <2>0, <3>1, <3>2 DEF SenderInv, x
    <3>4. sender' = [sender EXCEPT ![s] = new]
      BY <1>0, <2>2 DEF Collect
    <3> HIDE DEF available
    <3>5. new \in SendCalls /\ new.pc = x.pc /\ new.at = x.at + 1 /\ new.available = available
      <4>1. x.at + 1 \in Nat
        BY <3>1
      <4> HIDE DEF x
      <4> QED  BY <2>0, <3>3, <4>1 DEF SendCalls
    <3> HIDE DEF new
    <3>6. new.at >= 1
      BY <3>1, <3>5
    <3> QED  BY <3>1, <3>3, <3>4, <3>5, <3>6, SenderMoves
  <2>3. CASE Collected(s)
    <3> DEFINE pc == IF x.available = << >> THEN "noPath" ELSE "selecting"
               new == [x EXCEPT !.pc = pc]
    <3>1. new \in SendCalls /\ new.pc = pc /\ new.available = x.available
      BY <2>0 DEF SendCalls
    <3>2. sender' = [sender EXCEPT ![s] = new]
      BY <1>0, <2>3 DEF Collected
    <3> HIDE DEF new
    <3> QED  BY <2>0, <3>1, <3>2, SenderMoves DEF SenderInv
  <2>4. CASE Select(s)
    <3>1. PICK list \in Listings(Known) :
            LET idx == SelectPath(list)
                valid == idx >= 0 /\ idx < Len(x.available) IN
            sender' = [sender EXCEPT
              ![s].pc = IF valid THEN "locking" ELSE "invalidIndex",
              ![s].path = IF valid THEN x.available[idx + 1] ELSE None]
      BY <2>4 DEF Select
    <3> DEFINE idx == SelectPath(list)
               valid == idx >= 0 /\ idx < Len(x.available)
               pc == IF valid THEN "locking" ELSE "invalidIndex"
               path == IF valid THEN x.available[idx + 1] ELSE None
               new == [x EXCEPT !.pc = pc, !.path = path]
    <3>2. idx \in Int /\ x.available \in Seq(Paths)
      BY <2>0, SelectedIndex DEF SendCalls
    <3>3. path \in Paths \cup {None} /\ (pc = "locking" => path \in AddedPaths)
      <4> HIDE DEF x, idx
      <4>1. valid => idx + 1 \in 1 .. Len(x.available)
        BY <3>2
      <4> QED  BY <2>0, <3>2, <4>1 DEF SenderInv, x
    <3>4. sender' = [sender EXCEPT ![s] = new]
      BY <1>0, <3>1
    <3> HIDE DEF path
    <3>5. new \in SendCalls /\ new.pc = pc /\ new.path = path /\ new.available = x.available
      BY <2>0, <3>3 DEF SendCalls
    <3> HIDE DEF new
    <3> QED  BY <2>0, <3>3, <3>4, <3>5, SenderMoves DEF SenderInv
  <2>5. ASSUME NEW pc \in {"writing", "sent", "sendFailed"}, x.pc \in {"locking", "writing"},
               sender' = [sender EXCEPT ![s].pc = pc]
        PROVE  /\ sender' \in [Senders -> SendCalls]
               /\ \A t \in Senders : SenderInv(t)'
    <3> DEFINE new == [x EXCEPT !.pc = pc]
    <3>1. new \in SendCalls /\ new.pc = pc /\ new.path = x.path /\ new.available = x.available
      BY <2>0 DEF SendCalls
    <3>2. sender' = [sender EXCEPT ![s] = new]
      BY <1>0, <2>5
    <3> HIDE DEF new
    <3> QED  BY <2>0, <2>5, <3>1, <3>2, SenderMoves DEF SenderInv
  <2>6. CASE LockConnection(s) \/ \E ok \in BOOLEAN : WriteObject(s, ok)
    BY <2>5, <2>6 DEF LockConnection, WriteObject
  <2>7. CASE UpdatePathStats(s) \/ GiveUp(s)
    <3>1. NoSend \in SendCalls /\ NoSend.pc = "idle" /\ NoSend.available = << >>
      BY <2>e DEF NoSend, SendCalls
    <3>2. sender' = [sender EXCEPT ![s] = NoSend]
      BY <2>7 DEF UpdatePathStats, GiveUp
    <3>3. \A i \in 1 .. Len(NoSend.available) : NoSend.available[i] \in AddedPaths
      BY <3>1
    <3> QED  BY <3>1, <3>2, <3>3, SenderMoves
  <2> QED  BY <1>2, <2>1, <2>2, <2>3, <2>4, <2>6, <2>7 DEF SendStep
<1>3. sender' = sender \/ \E s \in Senders : BeginSend(s) \/ SendStep(s)
  BY DEF Next, vars, PathDies, HandleSubscribe, HandlerStep, AcceptSubscribe, MarkReady,
         MarkStats, BeginAdd, BeginClose, MainStep, MainLocks, AddStats, AppendConnection,
         CloseSession, SessionClosed, CloseReturns, SamplerTick, SamplerStep, Sample,
         StoreSample, SamplerDone, ReadObject, CountTotal
<1> QED  BY <1>1, <1>2, <1>3

\* A flag in the statistics of a path changes.
LEMMA FlagType ==
    ASSUME TypeOK, NEW p \in Paths, NEW flag \in BOOLEAN,
           stats' = [stats EXCEPT ![p].connected = flag]
    PROVE  stats' \in [Paths -> PathStats]
<1>1. stats \in [Paths -> PathStats] /\ stats[p] \in PathStats
  BY DEF TypeOK
<1>2. [stats[p] EXCEPT !.connected = flag] \in PathStats
  BY <1>1 DEF PathStats
<1>3. stats' = [stats EXCEPT ![p] = [stats[p] EXCEPT !.connected = flag]]
  BY <1>1
<1> QED  BY <1>1, <1>2, <1>3

\* Every step keeps the types.
LEMMA TypeStep ==
    ASSUME Inv, [Next]_vars
    PROVE  TypeOK'
<1>0. TypeOK /\ OrderInv /\ sender' \in [Senders -> SendCalls]
  BY SenderStep DEF Inv, PathsInv
<1> USE <1>0
<1>1. CASE UNCHANGED vars
  BY <1>1 DEF TypeOK, vars, lockVars, dataVars, subscriberVars
<1>2. ASSUME NEW s \in Senders, BeginSend(s) \/ SendStep(s) PROVE TypeOK'
  <2> USE DEF lockVars, dataVars, subscriberVars
  <2>0. sender[s].path \in Paths \cup {None}
    BY <1>2 DEF TypeOK, SendCalls
  <2>1. CASE BeginSend(s)
    BY <2>1 DEF TypeOK, BeginSend
  <2>2. CASE Collect(s)
    BY <2>2 DEF TypeOK, Collect
  <2>3. CASE Collected(s)
    BY <2>3 DEF TypeOK, Collected
  <2>4. CASE Select(s)
    <3>1. counter' \in Nat /\ objects' \in Nat
      BY <2>4 DEF TypeOK, Select, CounterAfter, ObjectsAfter
    <3> QED  BY <2>4, <3>1 DEF TypeOK, Select
  <2>5. CASE LockConnection(s)
    BY <1>2, <2>5 DEF TypeOK, LockConnection
  <2>6. ASSUME NEW ok \in BOOLEAN, WriteObject(s, ok) PROVE TypeOK'
    <3>1. /\ flight' \in [Paths -> Nat] /\ failed' \in [Paths -> Nat]
          /\ connLock' \in [Paths -> Senders \cup {Free}]
      <4> DEFINE p == sender[s].path
      <4>1. p \in Paths
        BY <1>2, <2>6, AddedFacts DEF Inv, PathsInv, TypeOK, SenderInv, WriteObject
      <4>2. /\ flight[p] \in Nat /\ failed[p] \in Nat
            /\ flight' = [flight EXCEPT ![p] = IF ok THEN @ + 1 ELSE @]
            /\ failed' = [failed EXCEPT ![p] = IF ok THEN @ ELSE @ + 1]
            /\ connLock' = [connLock EXCEPT ![p] = Free]
        BY <2>6, <4>1 DEF WriteObject, TypeOK
      <4> HIDE DEF p
      <4>3. flight' \in [Paths -> Nat]
        BY <4>1, <4>2 DEF TypeOK
      <4>4. failed' \in [Paths -> Nat]
        BY <4>1, <4>2 DEF TypeOK
      <4>5. connLock' \in [Paths -> Senders \cup {Free}]
        BY <4>1, <4>2 DEF TypeOK
      <4> QED  BY <4>3, <4>4, <4>5
    <3> QED  BY <2>6, <3>1 DEF TypeOK, WriteObject
  <2>7. CASE UpdatePathStats(s)
    <3>1. stats' \in [Paths -> PathStats]
      BY <2>7, UpdateFields
    <3> QED  BY <2>7, <3>1 DEF TypeOK, UpdatePathStats
  <2>8. CASE GiveUp(s)
    BY <2>8 DEF TypeOK, GiveUp
  <2> QED  BY <1>2, <2>1, <2>2, <2>3, <2>4, <2>5, <2>6, <2>7, <2>8 DEF SendStep
<1>3. ASSUME NEW p \in Paths, PathDies(p) \/ HandleSubscribe(p) \/ HandlerStep(p)
      PROVE  TypeOK'
  <2> USE DEF lockVars, dataVars, subscriberVars
  <2>1. CASE PathDies(p)
    BY <2>1 DEF TypeOK, PathDies
  <2>2. CASE HandleSubscribe(p)
    BY <2>2 DEF TypeOK, HandleSubscribe
  <2>3. CASE AcceptSubscribe(p)
    BY <2>3 DEF TypeOK, AcceptSubscribe
  <2>4. CASE MarkReady(p)
    BY <2>4 DEF TypeOK, MarkReady, LockAfterMark
  <2>5. CASE MarkStats(p)
    <3>1. stats' \in [Paths -> PathStats]
      <4>1. stats[p].connected \in BOOLEAN /\ stats[p].known \in BOOLEAN
        BY DEF TypeOK, PathStats
      <4>2. stats' = [stats EXCEPT ![p].connected = stats[p].connected \/ stats[p].known]
        BY <1>3, <2>5 DEF MarkStats, TypeOK
      <4> QED  BY <1>3, <4>1, <4>2, FlagType
    <3> QED  BY <2>5, <3>1 DEF TypeOK, MarkStats
  <2> QED  BY <1>3, <2>1, <2>2, <2>3, <2>4, <2>5 DEF HandlerStep
<1>4. CASE BeginAdd \/ BeginClose \/ MainStep
  <2> USE DEF lockVars, dataVars, subscriberVars
  <2>1. CASE BeginAdd
    <3>1. PathOrder[Len(connections) + 1] \in Paths
      <4>1. Len(connections) \in Nat /\ Len(connections) < Len(PathOrder)
        BY <2>1 DEF BeginAdd, TypeOK
      <4> QED  BY <4>1, PathsFinite
    <3> QED  BY <2>1, <3>1 DEF TypeOK, BeginAdd
  <2>2. CASE BeginClose
    BY <2>2 DEF TypeOK, BeginClose
  <2>3. CASE MainLocks
    BY <2>3 DEF TypeOK, MainLocks
  <2>4. CASE AddStats
    <3>1. stats' \in [Paths -> PathStats]
      BY <2>4 DEF TypeOK, AddStats, PathStats, NoStats
    <3> QED  BY <2>4, <3>1 DEF TypeOK, AddStats
  <2>5. CASE AppendConnection
    <3>1. main.path \in Paths
      BY <2>5, AddedFacts DEF AppendConnection, TypeOK
    <3>2. connections' \in Seq(Paths)
      BY <2>5, <3>1 DEF TypeOK, AppendConnection
    <3>3. /\ session' \in [Paths -> {"none", "running", "closed"}]
          /\ main' \in [pc : {"idle"}, path : {None}, at : Nat]
      BY <2>5, <3>1 DEF TypeOK, AppendConnection
    <3>4. /\ mpWriter' = Free
          /\ UNCHANGED <<ready, stats, counter, objects, handler, sampler, mpReaders, connLock,
                         flight, failed, reader, objectCount, totalObjects>>
      BY <2>5 DEF AppendConnection
    <3> QED  BY <3>2, <3>3, <3>4 DEF TypeOK
  <2>6. CASE CloseSession
    BY <2>6 DEF TypeOK, CloseSession
  <2>7. CASE SessionClosed
    <3>1. main.at \in Nat /\ main.at + 1 \in Nat
      BY DEF TypeOK
    <3> QED  BY <2>7, <3>1 DEF TypeOK, SessionClosed
  <2>8. CASE CloseReturns
    BY <2>8 DEF TypeOK, CloseReturns
  <2> QED  BY <1>4, <2>1, <2>2, <2>3, <2>4, <2>5, <2>6, <2>7, <2>8 DEF MainStep
<1>5. CASE SamplerTick \/ SamplerStep
  <2> USE DEF lockVars, dataVars, subscriberVars
  <2>1. CASE SamplerTick
    <3>1. Len(connections) \in Nat
      BY DEF TypeOK
    <3> QED  BY <2>1, <3>1 DEF TypeOK, SamplerTick
  <2>2. CASE Sample
    <3>1. ready[connections[sampler.at]] \in BOOLEAN
      <4>1. sampler.at \in 1 .. Len(connections) /\ connections \in Seq(Paths)
        BY <2>2, AddedFacts DEF Sample, TypeOK, Inv, PathsInv, SamplerInv
      <4> QED  BY <4>1 DEF TypeOK
    <3> QED  BY <2>2, <3>1 DEF TypeOK, Sample, Sampled
  <2>3. CASE StoreSample
    <3>1. stats' \in [Paths -> PathStats]
      <4> DEFINE p == connections[sampler.at]
                 flag == IF stats[p].known THEN sampler.flag ELSE stats[p].connected
      <4>1. sampler.at \in 1 .. Len(connections)
        BY <2>3, AddedFacts DEF StoreSample, TypeOK, Inv, PathsInv, SamplerInv
      <4>2. p \in Paths
        BY <4>1 DEF TypeOK
      <4>3. flag \in BOOLEAN
        BY <4>2 DEF TypeOK, PathStats
      <4>4. stats' = [stats EXCEPT ![p].connected = flag]
        BY <2>3, <4>2 DEF StoreSample, TypeOK
      <4> HIDE DEF p, flag
      <4> QED  BY <4>2, <4>3, <4>4, FlagType
    <3>2. sampler.at \in Nat /\ sampler.at + 1 \in Nat
      BY DEF TypeOK
    <3> QED  BY <2>3, <3>1, <3>2 DEF TypeOK, StoreSample
  <2>4. CASE SamplerDone
    BY <2>4 DEF TypeOK, SamplerDone
  <2> QED  BY <1>5, <2>1, <2>2, <2>3, <2>4 DEF SamplerStep
<1>6. ASSUME NEW p \in Paths, ReadObject(p) \/ CountTotal(p) PROVE TypeOK'
  <2>1. CASE ReadObject(p)
    <3>1. flight[p] \in Nat /\ flight[p] - 1 \in Nat /\ objectCount[p] + 1 \in Nat
      BY <1>6, <2>1 DEF ReadObject, TypeOK
    <3> QED  BY <2>1, <3>1 DEF TypeOK, ReadObject, lockVars
  <2>2. CASE CountTotal(p)
    <3>1. totalObjects + 1 \in Nat
      BY DEF TypeOK
    <3> QED  BY <2>2, <3>1 DEF TypeOK, CountTotal, lockVars
  <2> QED  BY <1>6, <2>1, <2>2
<1> QED  BY <1>1, <1>2, <1>3, <1>4, <1>5, <1>6 DEF Next

\* Initially no path is added and nobody is at work.
LEMMA InitInv ==
    ASSUME Init
    PROVE  Inv
<1>1. << >> \in Seq(Paths) /\ Len(<< >>) = 0
  OBVIOUS
<1>2. NoSend \in SendCalls /\ NoSend.pc = "idle" /\ Len(NoSend.available) = 0
  BY <1>1 DEF NoSend, SendCalls
<1>3. TypeOK
  BY <1>1, <1>2 DEF Init, TypeOK, PathStats, NoStats
<1>4. AddedPaths = {}
  BY DEF Init, AddedPaths, Range
<1>5. PathsInv
  BY <1>1, <1>4, PathsFinite DEF Init, PathsInv, OrderInv, PathInv, SamplerInv, NoStats
<1>6. \A s \in Senders : SenderInv(s)
  BY <1>2 DEF Init, SenderInv
<1> QED  BY <1>3, <1>5, <1>6 DEF Inv

\* The invariant holds in every state.
LEMMA Invariance == Spec => []Inv
<1>1. Inv /\ [Next]_vars => Inv'
  BY PathsStep, SenderStep, TypeStep DEF Inv
<1> QED  BY <1>1, InitInv, PTL DEF Spec

\* Every variable keeps its type, for any number of paths and senders.
THEOREM TypeCorrect == Spec => []TypeOK
<1>1. Inv => TypeOK
  BY DEF Inv
<1> QED  BY <1>1, Invariance, PTL

\* No interleaving of the subscribe handlers with the sampler makes the scheduler lose
\* sight of a path that is ready.
THEOREM PathsStaySelectable == Spec => []ReadyPathsStaySelectable
<1>1. Inv => ReadyPathsStaySelectable
  BY DEF Inv, PathsInv, PathInv, ReadyPathsStaySelectable
<1> QED  BY <1>1, Invariance, PTL

-----------------------------------------------------------------------------
(***************************************************************************)
(* An object is given up only while a path is not ready.                   *)
(***************************************************************************)

\* The first paths, in the order in which they were added.
InOrder(list) == \A i \in 1 .. Len(list) : list[i] = PathOrder[i]

\* A call that began when every path was ready has collected all paths so far, and
\* finds the index of the scheduler among them.
WholeInv(s) ==
    sender[s].whole =>
      /\ AllReady
      /\ sender[s].pc \notin {"noPath", "invalidIndex"}
      /\ sender[s].pc = "collecting" =>
           /\ sender[s].at <= Len(connections) + 1
           /\ Len(sender[s].available) = sender[s].at - 1
      /\ sender[s].pc = "selecting" => Len(sender[s].available) = Len(PathOrder)
      /\ sender[s].pc \in {"collecting", "selecting"} => InOrder(sender[s].available)

\* Once every path is ready, for the scheduler too, it stays so.
LEMMA AllReadyStable ==
    ASSUME Inv, [Next]_vars, AllReady
    PROVE  AllReady'
<1>0. /\ TypeOK /\ OrderInv /\ SamplerInv /\ \A p \in Paths : PathInv(p)
      /\ AddedPaths = Paths /\ \A p \in Paths : ready[p] /\ stats[p].connected
  BY DEF Inv, PathsInv, AllReady
<1>1. AddedPaths' = Paths
  <2>1. connections' \in Seq(Paths) /\ OrderInv'
    BY TypeStep, PathsStep DEF TypeOK, PathsInv
  <2>2. AddedPaths' \subseteq Paths
    <3>1. DOMAIN connections' = 1 .. Len(connections')
      BY <2>1
    <3> QED  BY <2>1, <3>1 DEF AddedPaths, Range
  <2> QED  BY <1>0, <2>2, AddedGrows
<1>2. ASSUME \A p \in Paths : ready'[p] /\ stats'[p].connected PROVE AllReady'
  BY <1>1, <1>2 DEF AllReady
<1>3. CASE UNCHANGED <<ready, stats>>
  BY <1>0, <1>2, <1>3
<1>4. ASSUME NEW s \in Senders, UpdatePathStats(s) PROVE AllReady'
  <2>1. \A p \in Paths : stats'[p].connected = stats[p].connected
    BY <1>4, UpdateFields
  <2> QED  BY <1>0, <1>2, <1>4, <2>1 DEF UpdatePathStats
<1>5. ASSUME NEW p \in Paths, MarkReady(p) PROVE AllReady'
  BY <1>0, <1>2, <1>5 DEF MarkReady, TypeOK
<1>6. ASSUME NEW p \in Paths, MarkStats(p) PROVE AllReady'
  BY <1>0, <1>2, <1>6 DEF MarkStats, TypeOK, PathStats
<1>7. ~AddStats
  BY <1>0, AddedFacts DEF AddStats, TypeOK
<1>8. CASE StoreSample
  <2> DEFINE p == connections[sampler.at]
  <2>1. sampler.at \in 1 .. Len(connections)
    BY <1>0, <1>8, AddedFacts DEF StoreSample, TypeOK, SamplerInv
  <2>2. p \in Paths
    BY <1>0, <2>1 DEF TypeOK
  <2>3. sampler.flag
    BY <1>0, <1>8, <2>2 DEF StoreSample, SamplerInv
  <2>4. stats' = [stats EXCEPT ![p].connected = IF stats[p].known THEN sampler.flag ELSE @]
    BY <1>8 DEF StoreSample
  <2> HIDE DEF p
  <2>5. \A q \in Paths : stats'[q].connected
    BY <1>0, <2>2, <2>3, <2>4 DEF TypeOK, PathStats
  <2> QED  BY <1>0, <1>2, <1>8, <2>5 DEF StoreSample
<1> QED
  BY <1>3, <1>4, <1>5, <1>6, <1>7, <1>8
     DEF Next, vars, BeginSend, SendStep, Collect, Collected, Select, LockConnection,
         WriteObject, GiveUp, PathDies, HandleSubscribe, HandlerStep, AcceptSubscribe,
         BeginAdd, BeginClose, MainStep, MainLocks, AppendConnection, CloseSession,
         SessionClosed, CloseReturns, SamplerTick, SamplerStep, Sample, SamplerDone,
         ReadObject, CountTotal

\* When every path is ready, what SelectPath returns is decided by the counter alone,
\* whichever listing of the statistics it is given.
LEMMA TurnOf ==
    ASSUME Inv, AllReady, NEW list \in Listings(Known)
    PROVE  /\ SelectPath(list) = (counter + 1) % Len(PathOrder)
           /\ SelectPath(list) \in 0 .. Len(PathOrder) - 1
           /\ ConnectedIndices(list) # << >>
<1> DEFINE n == Len(PathOrder)
           c == ConnectedIndices(list)
           k == (counter + 1) % n
<1>1. Known = Paths /\ \A p \in Paths : stats[p].connected
  BY DEF Inv, PathsInv, PathInv, AllReady, Known
<1>2. n \in Nat \ {0} /\ Len(list) = n /\ list \in Seq(Paths)
  BY <1>1, PathsFinite, ListingType
<1>3. \A i \in 1 .. Len(list) : stats[list[i]].connected
  BY <1>1, <1>2
<1>4. Len(c) = n /\ \A i \in 1 .. n : c[i] = i - 1
  BY <1>2, <1>3, AllConnected
<1>5. k \in 0 .. n - 1
  <2>1. counter + 1 \in Nat
    BY DEF Inv, TypeOK
  <2> QED  BY <1>2, <2>1, Remainder
<1>6. c # << >> /\ SelectPath(list) = c[k + 1]
  <2>1. c # << >>
    BY <1>2, <1>4
  <2> QED  BY <1>4, <2>1 DEF SelectPath, PathAt, CounterAfter
<1> HIDE DEF n, c, k
<1>7. k + 1 \in 1 .. n /\ (k + 1) - 1 = k
  BY <1>2, <1>5
<1>8. SelectPath(list) = k
  BY <1>4, <1>6, <1>7
<1> QED  BY <1>5, <1>6, <1>8 DEF n, c, k

\* Every step keeps the invariant of the calls that began with all paths.
LEMMA WholeStep ==
    ASSUME Inv, [Next]_vars, NEW s \in Senders, WholeInv(s)
    PROVE  WholeInv(s)'
<1> SUFFICES ASSUME sender'[s].whole PROVE WholeInv(s)'
  BY DEF WholeInv
<1> DEFINE x == sender[s]
<1>0. /\ TypeOK /\ OrderInv /\ sender \in [Senders -> SendCalls] /\ x \in SendCalls
      /\ Len(connections) \in Nat /\ Len(PathOrder) \in Nat
  BY AddedFacts, PathsFinite DEF Inv, PathsInv, TypeOK
<1>1. CASE BeginSend(s)
  <2> DEFINE new == [NoSend EXCEPT !.pc = "collecting", !.at = 1, !.whole = AllReady]
  <2>1. AllReady \in BOOLEAN
    BY DEF AllReady
  <2>2. new.pc = "collecting" /\ new.at = 1 /\ new.available = << >> /\ new.whole = AllReady
    BY <2>1, FirstRecord, Zenon
  <2>3. sender' = [sender EXCEPT ![s] = new] /\ UNCHANGED connections
    BY <1>1, Zenon DEF BeginSend
  <2> HIDE DEF new
  <2>4. sender'[s] = new
    BY <1>0, <2>3
  <2>5. AllReady'
    BY <2>2, <2>4, AllReadyStable
  <2>6. InOrder(sender'[s].available)
    BY <2>2, <2>4 DEF InOrder
  <2> QED  BY <1>0, <2>2, <2>3, <2>4, <2>5, <2>6 DEF WholeInv
<1>2. ASSUME x.whole, sender'[s].pc \notin {"noPath", "invalidIndex"},
             sender'[s].pc = "collecting" =>
               /\ sender'[s].at <= Len(connections') + 1
               /\ Len(sender'[s].available) = sender'[s].at - 1,
             sender'[s].pc = "selecting" => Len(sender'[s].available) = Len(PathOrder),
             sender'[s].pc \in {"collecting", "selecting"} => InOrder(sender'[s].available)
      PROVE  WholeInv(s)'
  <2>1. AllReady'
    BY <1>2, AllReadyStable DEF WholeInv
  <2> QED  BY <1>2, <2>1 DEF WholeInv
<1>3. CASE Collect(s)
  <2> DEFINE p == connections[x.at]
  <2>1. /\ x.pc = "collecting" /\ x.at \in 1 .. Len(connections) /\ x.available \in Seq(Paths)
    BY <1>0, <1>3 DEF Collect, Inv, SenderInv, SendCalls
  <2>2. /\ sender'[s].pc = x.pc /\ sender'[s].whole = x.whole /\ sender'[s].at = x.at + 1
        /\ sender'[s].available = IF ready[p] THEN Append(x.available, p) ELSE x.available
        /\ UNCHANGED connections
    BY <1>0, <1>3 DEF Collect, SendCalls
  <2>3. p \in Paths
    BY <1>0, <2>1 DEF TypeOK
  <2>4. AllReady /\ Len(x.available) = x.at - 1
    BY <2>1, <2>2 DEF WholeInv
  <2>5. ready[p]
    BY <2>3, <2>4 DEF AllReady
  <2>6. Len(sender'[s].available) = x.at
    <3> HIDE DEF x, p
    <3> QED  BY <2>1, <2>2, <2>4, <2>5
  <2>7. x.at + 1 <= Len(connections') + 1 /\ Len(sender'[s].available) = (x.at + 1) - 1
    BY <1>0, <2>1, <2>2, <2>6
  <2>8. InOrder(sender'[s].available)
    <3>1. p = PathOrder[x.at]
      BY <1>0, <2>1 DEF OrderInv
    <3>2. InOrder(x.available)
      BY <2>1, <2>2 DEF WholeInv
    <3> HIDE DEF x, p
    <3>3. \A i \in 1 .. Len(Append(x.available, p)) :
            Append(x.available, p)[i] = IF i = x.at THEN p ELSE x.available[i]
      BY <2>1, <2>4
    <3> QED  BY <2>1, <2>2, <2>4, <2>5, <2>6, <3>1, <3>2, <3>3 DEF InOrder
  <2> QED  BY <1>2, <2>1, <2>2, <2>7, <2>8
<1>4. CASE Collected(s)
  <2>1. /\ sender'[s].pc = IF x.available = << >> THEN "noPath" ELSE "selecting"
        /\ sender'[s].whole = x.whole /\ sender'[s].available = x.available
        /\ x.pc = "collecting" /\ x.at > Len(connections)
    BY <1>0, <1>4 DEF Collected, SendCalls
  <2>2. /\ AllReady /\ x.at <= Len(connections) + 1 /\ Len(x.available) = x.at - 1
        /\ InOrder(x.available)
    BY <2>1 DEF WholeInv
  <2>3. Len(connections) = Len(PathOrder)
    BY <1>0, <2>2, AddedFacts DEF AllReady, TypeOK
  <2>4. Len(x.available) = Len(PathOrder) /\ x.available # << >>
    <3>1. x.at \in Nat /\ x.available \in Seq(Paths)
      BY <1>0 DEF SendCalls
    <3>2. Len(x.available) = Len(PathOrder)
      BY <1>0, <2>1, <2>2, <2>3, <3>1
    <3> QED  BY <3>1, <3>2, PathsFinite
  <2> QED  BY <1>2, <2>1, <2>2, <2>4
<1>5. CASE Select(s)
  <2>1. PICK list \in Listings(Known) :
          LET idx == SelectPath(list)
              valid == idx >= 0 /\ idx < Len(x.available) IN
          sender' = [sender EXCEPT
            ![s].pc = IF valid THEN "locking" ELSE "invalidIndex",
            ![s].path = IF valid THEN x.available[idx + 1] ELSE None]
    BY <1>5 DEF Select
  <2> DEFINE idx == SelectPath(list)
             valid == idx >= 0 /\ idx < Len(x.available)
  <2>2. /\ sender'[s].pc = IF valid THEN "locking" ELSE "invalidIndex"
        /\ sender'[s].whole = x.whole
    BY <1>0, <2>1 DEF SendCalls
  <2>3. AllReady /\ Len(x.available) = Len(PathOrder)
    BY <1>5, <2>2 DEF WholeInv, Select
  <2>4. valid
    <3>1. idx \in 0 .. Len(PathOrder) - 1
      BY <2>3, TurnOf
    <3> HIDE DEF idx
    <3> QED  BY <1>0, <2>3, <3>1
  <2> QED  BY <1>2, <2>2, <2>4
<1>6. ASSUME sender'[s].whole = x.whole,
             sender'[s].pc \in {"locking", "writing", "sent", "sendFailed"}
      PROVE  WholeInv(s)'
  BY <1>2, <1>6
<1>7. CASE LockConnection(s)
  BY <1>0, <1>6, <1>7 DEF LockConnection, SendCalls
<1>8. ASSUME NEW ok \in BOOLEAN, WriteObject(s, ok) PROVE WholeInv(s)'
  BY <1>0, <1>6, <1>8 DEF WriteObject, SendCalls
<1>9. CASE UpdatePathStats(s) \/ GiveUp(s)
  <2>1. sender'[s] = NoSend
    BY <1>0, <1>9 DEF UpdatePathStats, GiveUp
  <2> QED  BY <2>1 DEF NoSend
<1>10. CASE sender'[s] = sender[s] /\ Len(connections') >= Len(connections)
  <2>1. Len(connections') \in Nat
    BY TypeStep DEF TypeOK
  <2>2. x.at \in Nat
    BY <1>0 DEF SendCalls
  <2> QED  BY <1>0, <1>2, <1>10, <2>1, <2>2 DEF WholeInv
<1>11. ASSUME NEW t \in Senders, t # s, BeginSend(t) \/ SendStep(t) PROVE WholeInv(s)'
  <2>1. sender'[s] = sender[s] /\ connections' = connections
    BY <1>0, <1>11 DEF BeginSend, SendStep, Collect, Collected, Select, LockConnection,
       WriteObject, UpdatePathStats, GiveUp
  <2> QED  BY <1>0, <1>10, <2>1
<1>12. CASE AppendConnection
  <2>1. Len(connections') = Len(connections) + 1 /\ sender' = sender
    BY <1>12, AddedFacts, <1>0 DEF AppendConnection, TypeOK
  <2> QED  BY <1>0, <1>10, <2>1
<1>13. ASSUME UNCHANGED <<connections, sender>> PROVE WholeInv(s)'
  BY <1>0, <1>10, <1>13
<1> QED
  BY <1>1, <1>3, <1>4, <1>5, <1>7, <1>8, <1>9, <1>11, <1>12, <1>13
     DEF Next, vars, SendStep, PathDies, HandleSubscribe, HandlerStep, AcceptSubscribe,
         MarkReady, MarkStats, BeginAdd, BeginClose, MainStep, MainLocks, AddStats,
         CloseSession, SessionClosed, CloseReturns, SamplerTick, SamplerStep, Sample,
         StoreSample, SamplerDone, ReadObject, CountTotal

\* This invariant of the calls holds in every state.
LEMMA WholeAlways == Spec => [](Inv /\ \A s \in Senders : WholeInv(s))
<1> DEFINE W == \A s \in Senders : WholeInv(s)
<1>1. Init => W
  BY DEF Init, WholeInv, NoSend
<1>2. Inv /\ W /\ [Next]_vars => W'
  <2> SUFFICES ASSUME Inv, W, [Next]_vars, NEW s \in Senders PROVE WholeInv(s)'
    OBVIOUS
  <2> QED  BY WholeStep
<1> HIDE DEF W
<1>3. Spec => [](Inv /\ W)
  BY <1>1, <1>2, Invariance, PTL DEF Spec
<1> QED  BY <1>3 DEF W

\* SendObject gives up no object that was offered when every path was ready.
THEOREM GivesUpWithCause == Spec => []GiveUpHasCause
<1>1. (\A s \in Senders : WholeInv(s)) => GiveUpHasCause
  BY DEF WholeInv, GiveUpHasCause
<1> QED  BY <1>1, WholeAlways, PTL

\* Objects offered when every path is ready go to the paths in turn, for any number of
\* paths and senders, although getCurrentPathStats lists the map anew each time.
THEOREM ReadyPathsTakeTurns == Spec => TakesTurns
<1> DEFINE Turn(s) ==
             /\ counter' = counter + 1
             /\ sender'[s].path = PathOrder[(counter' % Len(PathOrder)) + 1]
<1>1. ASSUME Inv, NEW s \in Senders, WholeInv(s), sender[s].whole, Select(s)
      PROVE  Turn(s)
  <2> DEFINE x == sender[s]
  <2>1. PICK list \in Listings(Known) :
          LET idx == SelectPath(list)
              valid == idx >= 0 /\ idx < Len(x.available) IN
          /\ counter' = IF ConnectedIndices(list) = << >> THEN counter ELSE CounterAfter
          /\ sender' = [sender EXCEPT
               ![s].pc = IF valid THEN "locking" ELSE "invalidIndex",
               ![s].path = IF valid THEN x.available[idx + 1] ELSE None]
    BY <1>1 DEF Select
  <2> DEFINE idx == SelectPath(list)
             valid == idx >= 0 /\ idx < Len(x.available)
  <2>2. sender'[s].path = IF valid THEN x.available[idx + 1] ELSE None
    BY <1>1, <2>1 DEF Inv, TypeOK, SendCalls
  <2>3. AllReady /\ Len(x.available) = Len(PathOrder) /\ InOrder(x.available)
    BY <1>1 DEF WholeInv, Select
  <2>4. /\ idx = (counter + 1) % Len(PathOrder) /\ idx \in 0 .. Len(PathOrder) - 1
        /\ counter' = counter + 1
    BY <1>1, <2>1, <2>3, TurnOf DEF CounterAfter
  <2>5. Len(PathOrder) \in Nat
    BY PathsFinite
  <2> HIDE DEF idx
  <2>6. valid /\ idx + 1 \in 1 .. Len(PathOrder)
    BY <2>3, <2>4, <2>5
  <2>7. x.available[idx + 1] = PathOrder[idx + 1]
    BY <2>3, <2>6 DEF InOrder
  <2> QED  BY <2>2, <2>4, <2>6, <2>7
<1>2. ASSUME Inv, [Next]_vars, NEW s \in Senders, sender[s].pc = "selecting",
             sender'[s].pc # "selecting"
      PROVE  Select(s)
  <2>0. sender \in [Senders -> SendCalls]
    BY <1>2 DEF Inv, TypeOK
  <2>1. ASSUME NEW t \in Senders, t # s, BeginSend(t) \/ SendStep(t) PROVE FALSE
    <3>1. sender'[s] = sender[s]
      BY <2>0, <2>1 DEF BeginSend, SendStep, Collect, Collected, Select, LockConnection,
                        WriteObject, UpdatePathStats, GiveUp
    <3> QED  BY <1>2, <3>1
  <2>2. sender' # sender
    BY <1>2
  <2>3. BeginSend(s) \/ SendStep(s)
    BY <1>2, <2>1, <2>2
       DEF Next, vars, PathDies, HandleSubscribe, HandlerStep, AcceptSubscribe, MarkReady,
           MarkStats, BeginAdd, BeginClose, MainStep, MainLocks, AddStats, AppendConnection,
           CloseSession, SessionClosed, CloseReturns, SamplerTick, SamplerStep, Sample,
           StoreSample, SamplerDone, ReadObject, CountTotal
  <2> QED  BY <1>2, <2>3
           DEF BeginSend, SendStep, Collect, Collected, LockConnection, WriteObject,
               UpdatePathStats, GiveUp
<1>3. Inv /\ (\A s \in Senders : WholeInv(s)) /\ [Next]_vars =>
        [\A s \in Senders :
           /\ sender[s].pc = "selecting" /\ sender'[s].pc # "selecting"
           /\ sender[s].whole
           => Turn(s)]_vars
  BY <1>1, <1>2
<1> QED  BY <1>3, WholeAlways, PTL DEF Spec, TakesTurns

-----------------------------------------------------------------------------
(***************************************************************************)
(* The books of a path.                                                    *)
(***************************************************************************)

\* The number of calls at a path after one call has moved.
LEMMA SendersOnStep ==
    ASSUME NEW s \in Senders, NEW p, NEW pcs,
           \A t \in Senders : t # s => sender'[t] = sender[t]
    PROVE  LET before == sender[s].pc \in pcs /\ sender[s].path = p
               after == sender'[s].pc \in pcs /\ sender'[s].path = p IN
           /\ SendersOn(p, pcs) \in Nat /\ SendersOn(p, pcs)' \in Nat
           /\ (before <=> after) => SendersOn(p, pcs)' = SendersOn(p, pcs)
           /\ before /\ ~after => SendersOn(p, pcs)' = SendersOn(p, pcs) - 1
           /\ ~before /\ after => SendersOn(p, pcs)' = SendersOn(p, pcs) + 1
<1> DEFINE A == {t \in Senders : sender[t].pc \in pcs /\ sender[t].path = p}
           B == {t \in Senders : sender'[t].pc \in pcs /\ sender'[t].path = p}
<1>1. SendersOn(p, pcs) = Cardinality(A) /\ SendersOn(p, pcs)' = Cardinality(B)
  BY DEF SendersOn
<1>2. A \in SUBSET Senders /\ B \in SUBSET Senders
  OBVIOUS
<1>3. /\ s \in A <=> sender[s].pc \in pcs /\ sender[s].path = p
      /\ s \in B <=> sender'[s].pc \in pcs /\ sender'[s].path = p
      /\ \A t \in Senders : t # s => (t \in A <=> t \in B)
  OBVIOUS
<1> HIDE DEF A, B
<1>4. IsFiniteSet(A) /\ IsFiniteSet(B) /\ Cardinality(A) \in Nat /\ Cardinality(B) \in Nat
  BY <1>2, FS_Subset, FS_CardinalityType, MultipathAssumption
<1>5. (s \in A <=> s \in B) => A = B
  BY <1>2, <1>3
<1>6. s \in A /\ s \notin B => B = A \ {s}
  BY <1>2, <1>3
<1>7. s \notin A /\ s \in B => B = A \cup {s}
  BY <1>2, <1>3
<1>8. s \in A /\ s \notin B => Cardinality(B) = Cardinality(A) - 1
  BY <1>4, <1>6, FS_RemoveElement
<1>9. s \notin A /\ s \in B => Cardinality(B) = Cardinality(A) + 1
  BY <1>4, <1>7, FS_AddElement
<1> QED  BY <1>1, <1>3, <1>4, <1>5, <1>8, <1>9

Sent == {"sent", "sendFailed"}

\* The books of one path, as PathAccounts has them.
Books(p) ==
    /\ stats[p].sent + SendersOn(p, Sent) = flight[p] + failed[p] + objectCount[p]
    /\ stats[p].errors + SendersOn(p, {"sendFailed"}) = failed[p]

\* Every step keeps the books of every path balanced.
LEMMA BooksStep ==
    ASSUME Inv, [Next]_vars, NEW p \in Paths, Books(p)
    PROVE  Books(p)'
<1>0. /\ TypeOK /\ OrderInv /\ PathInv(p) /\ sender \in [Senders -> SendCalls]
      /\ stats[p].sent \in Nat /\ stats[p].errors \in Nat
      /\ flight[p] \in Nat /\ failed[p] \in Nat /\ objectCount[p] \in Nat
  BY DEF Inv, PathsInv, TypeOK, PathStats
<1>1. ASSUME UNCHANGED <<sender, flight, failed, objectCount>>,
             stats'[p].sent = stats[p].sent, stats'[p].errors = stats[p].errors
      PROVE  Books(p)'
  BY <1>1 DEF Books, SendersOn
<1>2. ASSUME NEW s \in Senders, \A t \in Senders : t # s => sender'[t] = sender[t],
             sender[s].pc \notin Sent, sender'[s].pc \notin Sent,
             UNCHANGED <<stats, flight, failed, objectCount>>
      PROVE  Books(p)'
  <2>1. /\ SendersOn(p, Sent)' = SendersOn(p, Sent)
        /\ SendersOn(p, {"sendFailed"})' = SendersOn(p, {"sendFailed"})
    BY <1>2, SendersOnStep DEF Sent
  <2> QED  BY <1>2, <2>1 DEF Books
<1>3. ASSUME NEW s \in Senders, BeginSend(s) PROVE Books(p)'
  <2> DEFINE new == [NoSend EXCEPT !.pc = "collecting", !.at = 1, !.whole = AllReady]
  <2>1. new.pc = "collecting"
    <3>1. AllReady \in BOOLEAN
      BY DEF AllReady
    <3> QED  BY <3>1, FirstRecord, Zenon
  <2>2. sender' = [sender EXCEPT ![s] = new]
    BY <1>3, Zenon DEF BeginSend
  <2> HIDE DEF new
  <2>3. sender'[s] = new /\ \A t \in Senders : t # s => sender'[t] = sender[t]
    BY <1>0, <2>2
  <2> QED  BY <1>2, <1>3, <2>1, <2>3 DEF BeginSend, Sent, dataVars, subscriberVars
<1>4. ASSUME NEW s \in Senders, \/ Collect(s) \/ Collected(s) \/ Select(s)
                                \/ LockConnection(s) \/ GiveUp(s)
      PROVE  Books(p)'
  <2>1. /\ \A t \in Senders : t # s => sender'[t] = sender[t]
        /\ UNCHANGED <<stats, flight, failed, objectCount>>
    BY <1>0, <1>4 DEF Collect, Collected, Select, LockConnection, GiveUp, dataVars, subscriberVars
  <2>2. sender[s].pc \notin Sent
    BY <1>4 DEF Collect, Collected, Select, LockConnection, GiveUp, Sent
  <2>3. Collect(s) => sender'[s].pc \notin Sent
    BY <1>0, <1>4 DEF Collect, Sent, SendCalls
  <2>4. Collected(s) => sender'[s].pc \notin Sent
    BY <1>0, <1>4 DEF Collected, Sent, SendCalls
  <2>5. Select(s) => sender'[s].pc \notin Sent
    <3> SUFFICES ASSUME Select(s) PROVE sender'[s].pc \notin Sent
      OBVIOUS
    <3>1. PICK pc \in {"locking", "invalidIndex"} : \E path :
            sender' = [sender EXCEPT ![s].pc = pc, ![s].path = path]
      BY Zenon DEF Select
    <3> QED  BY <1>0, <1>4, <3>1 DEF Sent, SendCalls
  <2>6. LockConnection(s) => sender'[s].pc \notin Sent
    BY <1>0, <1>4 DEF LockConnection, Sent, SendCalls
  <2>7. GiveUp(s) => sender'[s].pc \notin Sent
    BY <1>0, <1>4 DEF GiveUp, NoSend, Sent
  <2> QED  BY <1>2, <1>4, <2>1, <2>2, <2>3, <2>4, <2>5, <2>6, <2>7
<1>5. ASSUME NEW s \in Senders, NEW ok \in BOOLEAN, WriteObject(s, ok) PROVE Books(p)'
  <2> DEFINE q == sender[s].path
  <2>1. /\ \A t \in Senders : t # s => sender'[t] = sender[t]
        /\ sender'[s].pc = IF ok THEN "sent" ELSE "sendFailed"
        /\ sender'[s].path = q /\ sender[s].pc = "writing"
        /\ UNCHANGED <<stats, objectCount>>
    BY <1>0, <1>5 DEF WriteObject, SendCalls, subscriberVars
  <2>2. /\ flight'[p] = IF q = p /\ ok THEN flight[p] + 1 ELSE flight[p]
        /\ failed'[p] = IF q = p /\ ~ok THEN failed[p] + 1 ELSE failed[p]
    BY <1>0, <1>5 DEF WriteObject, TypeOK
  <2>3. /\ SendersOn(p, Sent) \in Nat /\ SendersOn(p, {"sendFailed"}) \in Nat
        /\ SendersOn(p, Sent)' = IF q = p THEN SendersOn(p, Sent) + 1 ELSE SendersOn(p, Sent)
        /\ SendersOn(p, {"sendFailed"})'
             = IF q = p /\ ~ok THEN SendersOn(p, {"sendFailed"}) + 1
               ELSE SendersOn(p, {"sendFailed"})
    BY <2>1, SendersOnStep DEF Sent
  <2>4. CASE q # p
    BY <2>1, <2>2, <2>3, <2>4 DEF Books
  <2>5. CASE q = p /\ ok
    <3>1. /\ flight'[p] = flight[p] + 1 /\ failed'[p] = failed[p]
          /\ SendersOn(p, Sent)' = SendersOn(p, Sent) + 1
          /\ SendersOn(p, {"sendFailed"})' = SendersOn(p, {"sendFailed"})
      BY <2>2, <2>3, <2>5
    <3>2. stats' = stats /\ objectCount' = objectCount
      BY <2>1
    <3> QED  BY <1>0, <2>3, <3>1, <3>2 DEF Books
  <2>6. CASE q = p /\ ~ok
    BY <1>0, <2>1, <2>2, <2>3, <2>6 DEF Books
  <2> QED  BY <2>4, <2>5, <2>6
<1>6. ASSUME NEW s \in Senders, UpdatePathStats(s) PROVE Books(p)'
  <2> DEFINE q == sender[s].path
  <2>1. /\ \A t \in Senders : t # s => sender'[t] = sender[t]
        /\ sender[s].pc \in Sent /\ sender'[s].pc = "idle"
        /\ UNCHANGED <<flight, failed, objectCount>>
    BY <1>0, <1>6 DEF UpdatePathStats, NoSend, Sent, dataVars, subscriberVars
  <2>2. /\ stats'[p].sent = IF q = p THEN stats[p].sent + 1 ELSE stats[p].sent
        /\ stats'[p].errors = IF q = p /\ sender[s].pc # "sent" THEN stats[p].errors + 1
                              ELSE stats[p].errors
    BY <1>6, UpdateFields
  <2>3. /\ SendersOn(p, Sent) \in Nat /\ SendersOn(p, {"sendFailed"}) \in Nat
        /\ SendersOn(p, Sent)' = IF q = p THEN SendersOn(p, Sent) - 1 ELSE SendersOn(p, Sent)
        /\ SendersOn(p, {"sendFailed"})'
             = IF q = p /\ sender[s].pc # "sent" THEN SendersOn(p, {"sendFailed"}) - 1
               ELSE SendersOn(p, {"sendFailed"})
    BY <2>1, SendersOnStep DEF Sent
  <2>4. CASE q # p
    BY <2>1, <2>2, <2>3, <2>4 DEF Books
  <2>5. CASE q = p /\ sender[s].pc = "sent"
    BY <1>0, <2>1, <2>2, <2>3, <2>5 DEF Books
  <2>6. CASE q = p /\ sender[s].pc # "sent"
    BY <1>0, <2>1, <2>2, <2>3, <2>6 DEF Books
  <2> QED  BY <2>4, <2>5, <2>6
<1>7. CASE AddStats
  <2>1. stats'[p].sent = stats[p].sent /\ stats'[p].errors = stats[p].errors
    <3>1. main.path \in Paths \ AddedPaths
      BY <1>0, <1>7, AddedFacts DEF AddStats, TypeOK
    <3>2. CASE p = main.path
      BY <1>0, <1>7, <3>1, <3>2 DEF AddStats, TypeOK, PathInv, NoStats
    <3>3. CASE p # main.path
      BY <1>0, <1>7, <3>3 DEF AddStats, TypeOK
    <3> QED  BY <3>2, <3>3
  <2> QED  BY <1>1, <1>7, <2>1 DEF AddStats, dataVars, subscriberVars
<1>8. ASSUME NEW q \in Paths, MarkStats(q) PROVE Books(p)'
  <2>1. stats'[p].sent = stats[p].sent /\ stats'[p].errors = stats[p].errors
    <3>1. CASE q = p
      BY <1>0, <1>8, <3>1 DEF MarkStats, TypeOK, PathStats
    <3>2. CASE q # p
      BY <1>0, <1>8, <3>2 DEF MarkStats, TypeOK
    <3> QED  BY <3>1, <3>2
  <2> QED  BY <1>1, <1>8, <2>1 DEF MarkStats, dataVars, subscriberVars
<1>9. CASE StoreSample
  <2>1. stats'[p].sent = stats[p].sent /\ stats'[p].errors = stats[p].errors
    BY <1>0, <1>9, ZenonT(40) DEF StoreSample, TypeOK, PathStats
  <2> QED  BY <1>1, <1>9, <2>1 DEF StoreSample, dataVars, subscriberVars
<1>10. ASSUME NEW q \in Paths, ReadObject(q) PROVE Books(p)'
  <2>1. /\ flight'[p] + objectCount'[p] = flight[p] + objectCount[p]
        /\ flight'[p] \in Nat /\ objectCount'[p] \in Nat
    <3>1. CASE q = p
      BY <1>0, <1>10, <3>1, SMTT(30) DEF ReadObject, TypeOK
    <3>2. CASE q # p
      BY <1>0, <1>10, <3>2 DEF ReadObject, TypeOK
    <3> QED  BY <3>1, <3>2
  <2>2. UNCHANGED <<stats, sender, failed>>
    BY <1>10 DEF ReadObject
  <2>3. /\ SendersOn(p, Sent)' = SendersOn(p, Sent)
        /\ SendersOn(p, {"sendFailed"})' = SendersOn(p, {"sendFailed"})
    BY <2>2 DEF SendersOn
  <2> QED  BY <1>0, <2>1, <2>2, <2>3 DEF Books
<1>11. CASE UNCHANGED <<sender, flight, failed, objectCount, stats>>
  BY <1>1, <1>11
<1> QED
  BY <1>3, <1>4, <1>5, <1>6, <1>7, <1>8, <1>9, <1>10, <1>11
     DEF Next, vars, SendStep, PathDies, HandleSubscribe, HandlerStep, AcceptSubscribe,
         MarkReady, BeginAdd, BeginClose, MainStep, MainLocks, AppendConnection,
         CloseSession, SessionClosed, CloseReturns, SamplerTick, SamplerStep, Sample,
         SamplerDone, CountTotal, dataVars, subscriberVars

\* No object of a path is lost to the books or counted twice, whichever locks its
\* sender, the sampler and the reader of the subscriber hold.
LEMMA PathBooks == Spec => []PathAccounts
<1> DEFINE B == \A p \in Paths : Books(p)
<1>1. Init => B
  <2> SUFFICES ASSUME Init, NEW p \in Paths PROVE Books(p)
    OBVIOUS
  <2>1. \A s \in Senders : sender[s].pc = "idle"
    BY DEF Init, NoSend
  <2>2. SendersOn(p, Sent) = 0 /\ SendersOn(p, {"sendFailed"}) = 0
    BY <2>1, FS_EmptySet DEF SendersOn, Sent
  <2> QED  BY <2>2 DEF Init, Books, NoStats
<1>2. Inv /\ B /\ [Next]_vars => B'
  <2> SUFFICES ASSUME Inv, B, [Next]_vars, NEW p \in Paths PROVE Books(p)'
    OBVIOUS
  <2> QED  BY BooksStep
<1>3. B => PathAccounts
  BY DEF Books, PathAccounts, Sent
<1> HIDE DEF B
<1> QED  BY <1>1, <1>2, <1>3, Invariance, PTL DEF Spec

-----------------------------------------------------------------------------
(***************************************************************************)
(* The totals.                                                             *)
(***************************************************************************)

\* The number of calls that have reached one of some places after one has moved.
LEMMA SendersAtStep ==
    ASSUME NEW s \in Senders, NEW pcs,
           \A t \in Senders : t # s => sender'[t] = sender[t]
    PROVE  LET before == sender[s].pc \in pcs
               after == sender'[s].pc \in pcs IN
           /\ SendersAt(pcs) \in Nat /\ SendersAt(pcs)' \in Nat
           /\ (before <=> after) => SendersAt(pcs)' = SendersAt(pcs)
           /\ before /\ ~after => SendersAt(pcs)' = SendersAt(pcs) - 1
           /\ ~before /\ after => SendersAt(pcs)' = SendersAt(pcs) + 1
<1> DEFINE A == {t \in Senders : sender[t].pc \in pcs}
           B == {t \in Senders : sender'[t].pc \in pcs}
<1>1. SendersAt(pcs) = Cardinality(A) /\ SendersAt(pcs)' = Cardinality(B)
  BY DEF SendersAt
<1>2. A \in SUBSET Senders /\ B \in SUBSET Senders
  OBVIOUS
<1>3. /\ s \in A <=> sender[s].pc \in pcs
      /\ s \in B <=> sender'[s].pc \in pcs
      /\ \A t \in Senders : t # s => (t \in A <=> t \in B)
  OBVIOUS
<1> HIDE DEF A, B
<1>4. IsFiniteSet(A) /\ IsFiniteSet(B) /\ Cardinality(A) \in Nat /\ Cardinality(B) \in Nat
  BY <1>2, FS_Subset, FS_CardinalityType, MultipathAssumption
<1>5. (s \in A <=> s \in B) => A = B
  BY <1>2, <1>3
<1>6. s \in A /\ s \notin B => B = A \ {s}
  BY <1>2, <1>3
<1>7. s \notin A /\ s \in B => B = A \cup {s}
  BY <1>2, <1>3
<1>8. s \in A /\ s \notin B => Cardinality(B) = Cardinality(A) - 1
  BY <1>4, <1>6, FS_RemoveElement
<1>9. s \notin A /\ s \in B => Cardinality(B) = Cardinality(A) + 1
  BY <1>4, <1>7, FS_AddElement
<1> QED  BY <1>1, <1>3, <1>4, <1>5, <1>8, <1>9

\* What the units of f are.
LEMMA UnitsAre ==
    ASSUME NEW f, NEW x
    PROVE  x \in Units(f) <=> \E p \in Paths : \E i \in 1 .. f[p] : x = <<p, i>>
BY DEF Units

\* Where one path counts one more, so does the sum.
LEMMA SumMoves ==
    ASSUME NEW f \in [Paths -> Nat], NEW g \in [Paths -> Nat], NEW p \in Paths,
           IsFiniteSet(Units(f)) \/ IsFiniteSet(Units(g)),
           g[p] = f[p] + 1, \A q \in Paths : q # p => g[q] = f[q]
    PROVE  /\ IsFiniteSet(Units(f)) /\ IsFiniteSet(Units(g))
           /\ SumOver(f) \in Nat /\ SumOver(g) = SumOver(f) + 1
<1> DEFINE u == <<p, f[p] + 1>>
<1>0. f[p] \in Nat /\ g[p] = f[p] + 1 /\ \A q \in Paths : q # p => g[q] = f[q]
  OBVIOUS
<1>1. u \notin Units(f)
  <2>1. SUFFICES ASSUME NEW q \in Paths, NEW i \in 1 .. f[q], u = <<q, i>> PROVE FALSE
    BY UnitsAre
  <2> QED  BY <1>0, <2>1
<1>2. ASSUME NEW x \in Units(f) PROVE x \in Units(g)
  <2>1. PICK q \in Paths : \E i \in 1 .. f[q] : x = <<q, i>>
    BY UnitsAre
  <2>2. PICK i \in 1 .. f[q] : x = <<q, i>>
    BY <2>1
  <2>3. i \in 1 .. g[q]
    BY <1>0
  <2> QED  BY <2>2, <2>3, UnitsAre
<1>3. u \in Units(g)
  <2>1. f[p] + 1 \in 1 .. g[p]
    BY <1>0
  <2> QED  BY <2>1, UnitsAre
<1>4. ASSUME NEW x \in Units(g), x # u PROVE x \in Units(f)
  <2>1. PICK q \in Paths : \E i \in 1 .. g[q] : x = <<q, i>>
    BY UnitsAre
  <2>2. PICK i \in 1 .. g[q] : x = <<q, i>>
    BY <2>1
  <2>3. i \in 1 .. f[q]
    BY <1>0, <1>4, <2>2
  <2> QED  BY <2>2, <2>3, UnitsAre
<1> HIDE DEF u
<1>5. Units(g) = Units(f) \cup {u}
  BY <1>2, <1>3, <1>4
<1>6. IsFiniteSet(Units(f))
  BY <1>5, FS_Subset
<1>7. Cardinality(Units(f)) \in Nat
  BY <1>6, FS_CardinalityType
<1>8. IsFiniteSet(Units(f) \cup {u}) /\ Cardinality(Units(f) \cup {u}) = Cardinality(Units(f)) + 1
  BY <1>1, <1>6, FS_AddElement
<1> QED  BY <1>5, <1>6, <1>7, <1>8, Zenon DEF SumOver

Busy == {"locking", "writing"}
Between == {p \in Paths : reader[p] = "counted"}

\* The totals, as TotalAccounts has them, of sums that are finite.
Totals ==
    /\ IsFiniteSet(Units(flight)) /\ IsFiniteSet(Units(failed)) /\ IsFiniteSet(Units(objectCount))
    /\ objects = SendersAt(Busy) + SumOver(flight) + SumOver(failed) + SumOver(objectCount)
    /\ totalObjects + Cardinality(Between) = SumOver(objectCount)

\* What a step of a sender does to the totals: it moves from one place to another, and
\* the objects go up as it takes a path.
LEMMA SenderTotals ==
    ASSUME TypeOK, NEW s \in Senders, \A t \in Senders : t # s => sender'[t] = sender[t],
           UNCHANGED dataVars, Totals,
           objects' = IF sender[s].pc \notin Busy /\ sender'[s].pc \in Busy
                      THEN objects + 1 ELSE objects,
           sender[s].pc \in Busy => sender'[s].pc \in Busy
    PROVE  Totals'
<1>1. /\ SendersAt(Busy) \in Nat
      /\ SendersAt(Busy)' = IF sender[s].pc \notin Busy /\ sender'[s].pc \in Busy
                            THEN SendersAt(Busy) + 1 ELSE SendersAt(Busy)
  BY SendersAtStep
<1>2. /\ SumOver(flight) \in Nat /\ SumOver(failed) \in Nat /\ SumOver(objectCount) \in Nat
  BY FS_CardinalityType DEF Totals, SumOver
<1>3. UNCHANGED <<flight, failed, reader, objectCount, totalObjects>>
  BY DEF dataVars, subscriberVars
<1>4. /\ Units(flight)' = Units(flight) /\ Units(failed)' = Units(failed)
      /\ Units(objectCount)' = Units(objectCount) /\ Between' = Between
      /\ SumOver(flight)' = SumOver(flight) /\ SumOver(failed)' = SumOver(failed)
      /\ SumOver(objectCount)' = SumOver(objectCount)
  BY <1>3 DEF Units, Between, SumOver
<1>5. objects' = SendersAt(Busy)' + SumOver(flight)' + SumOver(failed)' + SumOver(objectCount)'
  BY <1>1, <1>2, <1>4 DEF Totals
<1> QED  BY <1>3, <1>4, <1>5 DEF Totals

\* The object a sender writes is in flight or failed.
LEMMA WriteTotals ==
    ASSUME Inv, Totals, NEW s \in Senders, NEW ok \in BOOLEAN, WriteObject(s, ok), TypeOK'
    PROVE  Totals'
<1>0. TypeOK /\ SenderInv(s) /\ sender \in [Senders -> SendCalls]
  BY DEF Inv, TypeOK
<1>1. PICK p \in Paths : p = sender[s].path
  <2>1. sender[s].path \in AddedPaths
    BY <1>0 DEF WriteObject, SenderInv
  <2>2. AddedPaths \subseteq Paths
    BY <1>0, AddedFacts DEF Inv, PathsInv, TypeOK
  <2> QED  BY <2>1, <2>2
<1>2. /\ \A t \in Senders : t # s => sender'[t] = sender[t]
      /\ sender[s].pc \in Busy /\ sender'[s].pc \notin Busy
  BY <1>0 DEF WriteObject, SendCalls, Busy
<1>3. SendersAt(Busy) \in Nat /\ SendersAt(Busy)' = SendersAt(Busy) - 1
  BY <1>2, SendersAtStep
<1>4. UNCHANGED <<objects, reader, objectCount, totalObjects>>
  BY DEF WriteObject, subscriberVars
<1>5. /\ flight \in [Paths -> Nat] /\ failed \in [Paths -> Nat]
      /\ flight' \in [Paths -> Nat] /\ failed' \in [Paths -> Nat]
  BY <1>0 DEF TypeOK
<1>6. /\ flight' = IF ok THEN [flight EXCEPT ![p] = flight[p] + 1] ELSE flight
      /\ failed' = IF ok THEN failed ELSE [failed EXCEPT ![p] = failed[p] + 1]
  BY <1>1, <1>5 DEF WriteObject
<1>7. /\ SumOver(flight) \in Nat /\ SumOver(failed) \in Nat /\ SumOver(objectCount) \in Nat
  BY FS_CardinalityType DEF Totals, SumOver
<1>8. /\ Units(flight)' = Units(flight') /\ SumOver(flight)' = SumOver(flight')
      /\ Units(failed)' = Units(failed') /\ SumOver(failed)' = SumOver(failed')
      /\ Units(objectCount)' = Units(objectCount) /\ Between' = Between
      /\ SumOver(objectCount)' = SumOver(objectCount)
  BY <1>4 DEF Units, SumOver, Between
<1>9. /\ ok => flight'[p] = flight[p] + 1 /\ failed' = failed
      /\ ~ok => failed'[p] = failed[p] + 1 /\ flight' = flight
      /\ \A q \in Paths : q # p => flight'[q] = flight[q] /\ failed'[q] = failed[q]
  BY <1>5, <1>6
<1>10. /\ IsFiniteSet(Units(flight')) /\ IsFiniteSet(Units(failed'))
       /\ \/ SumOver(flight') = SumOver(flight) + 1 /\ SumOver(failed') = SumOver(failed)
          \/ SumOver(flight') = SumOver(flight) /\ SumOver(failed') = SumOver(failed) + 1
  <2>1. IsFiniteSet(Units(flight)) /\ IsFiniteSet(Units(failed))
    BY DEF Totals
  <2>2. CASE ok
    <3>1. IsFiniteSet(Units(flight')) /\ SumOver(flight') = SumOver(flight) + 1
      BY <1>5, <1>9, <2>1, <2>2, SumMoves
    <3>2. Units(failed') = Units(failed) /\ SumOver(failed') = SumOver(failed)
      BY <1>9, <2>2, Zenon
    <3> QED  BY <2>1, <3>1, <3>2, Zenon
  <2>3. CASE ~ok
    <3>1. IsFiniteSet(Units(failed')) /\ SumOver(failed') = SumOver(failed) + 1
      BY <1>5, <1>9, <2>1, <2>3, SumMoves
    <3>2. Units(flight') = Units(flight) /\ SumOver(flight') = SumOver(flight)
      BY <1>9, <2>3, Zenon
    <3> QED  BY <2>1, <3>1, <3>2, Zenon
  <2> QED  BY <2>2, <2>3
<1>11. objects' = SendersAt(Busy)' + SumOver(flight)' + SumOver(failed)' + SumOver(objectCount)'
  <2>1. objects = SendersAt(Busy) + SumOver(flight) + SumOver(failed) + SumOver(objectCount)
    BY DEF Totals
  <2>2. /\ objects' = objects /\ SumOver(objectCount)' = SumOver(objectCount)
        /\ \/ SumOver(flight)' = SumOver(flight) + 1 /\ SumOver(failed)' = SumOver(failed)
           \/ SumOver(flight)' = SumOver(flight) /\ SumOver(failed)' = SumOver(failed) + 1
    BY <1>4, <1>8, <1>10, Zenon
  <2> QED  BY <1>3, <1>7, <2>1, <2>2
<1> QED  BY <1>4, <1>8, <1>10, <1>11 DEF Totals

\* An object that is read is counted for its path first, for the subscriber second.
LEMMA ReadTotals ==
    ASSUME TypeOK, Totals, NEW p \in Paths, ReadObject(p) \/ CountTotal(p), TypeOK'
    PROVE  Totals'
<1>1. IsFiniteSet(Between) /\ Cardinality(Between) \in Nat
  BY PathsFinite, FS_Subset, FS_CardinalityType DEF Between
<1>2. /\ SumOver(flight) \in Nat /\ SumOver(failed) \in Nat /\ SumOver(objectCount) \in Nat
      /\ totalObjects \in Nat
  BY FS_CardinalityType DEF Totals, SumOver, TypeOK
<1>3. SendersAt(Busy) \in Nat
  <2>1. IsFiniteSet({s \in Senders : sender[s].pc \in Busy})
    BY FS_Subset, MultipathAssumption
  <2> QED  BY <2>1, FS_CardinalityType DEF SendersAt
<1>4. /\ UNCHANGED <<objects, sender, failed>>
      /\ SendersAt(Busy)' = SendersAt(Busy) /\ Units(failed)' = Units(failed)
      /\ SumOver(failed)' = SumOver(failed)
  BY DEF ReadObject, CountTotal, SendersAt, Units, SumOver
<1>5. CASE ReadObject(p)
  <2>1. /\ flight \in [Paths -> Nat] /\ flight' \in [Paths -> Nat]
        /\ objectCount \in [Paths -> Nat] /\ objectCount' \in [Paths -> Nat]
    BY DEF TypeOK
  <2>2. /\ flight[p] = flight'[p] + 1 /\ objectCount'[p] = objectCount[p] + 1
        /\ \A q \in Paths : q # p => flight[q] = flight'[q] /\ objectCount'[q] = objectCount[q]
    BY <1>5, <2>1 DEF ReadObject
  <2>3. /\ IsFiniteSet(Units(flight')) /\ IsFiniteSet(Units(objectCount'))
        /\ SumOver(flight') \in Nat /\ SumOver(flight) = SumOver(flight') + 1
        /\ SumOver(objectCount') = SumOver(objectCount) + 1
    <3>1. IsFiniteSet(Units(flight)) /\ IsFiniteSet(Units(objectCount))
      BY DEF Totals
    <3>2. /\ IsFiniteSet(Units(flight')) /\ SumOver(flight') \in Nat
          /\ SumOver(flight) = SumOver(flight') + 1
      BY <2>1, <2>2, <3>1, SumMoves
    <3>3. /\ IsFiniteSet(Units(objectCount'))
          /\ SumOver(objectCount') = SumOver(objectCount) + 1
      BY <2>1, <2>2, <3>1, SumMoves
    <3> QED  BY <3>2, <3>3
  <2>4. /\ Units(flight)' = Units(flight') /\ SumOver(flight)' = SumOver(flight')
        /\ Units(objectCount)' = Units(objectCount')
        /\ SumOver(objectCount)' = SumOver(objectCount')
    BY DEF Units, SumOver
  <2>5. p \notin Between /\ Between' = Between \cup {p} /\ totalObjects' = totalObjects
    BY <1>5 DEF ReadObject, TypeOK, Between
  <2>6. Cardinality(Between)' = Cardinality(Between) + 1
    BY <1>1, <2>5, FS_AddElement
  <2>7. totalObjects' + Cardinality(Between)' = SumOver(objectCount)'
    BY <1>1, <1>2, <2>3, <2>4, <2>5, <2>6 DEF Totals
  <2>8. objects' = SendersAt(Busy)' + SumOver(flight)' + SumOver(failed)' + SumOver(objectCount)'
    BY <1>2, <1>3, <1>4, <2>3, <2>4 DEF Totals
  <2> QED  BY <1>4, <2>3, <2>4, <2>7, <2>8 DEF Totals
<1>6. CASE CountTotal(p)
  <2>1. UNCHANGED <<flight, objectCount>> /\ totalObjects' = totalObjects + 1
    BY <1>6 DEF CountTotal
  <2>2. p \in Between /\ Between' = Between \ {p}
    BY <1>6 DEF CountTotal, TypeOK, Between
  <2>3. Cardinality(Between)' = Cardinality(Between) - 1
    BY <1>1, <2>2, FS_RemoveElement
  <2>4. /\ Units(flight)' = Units(flight) /\ SumOver(flight)' = SumOver(flight)
        /\ Units(objectCount)' = Units(objectCount)
        /\ SumOver(objectCount)' = SumOver(objectCount)
    BY <2>1 DEF Units, SumOver
  <2>5. totalObjects' + Cardinality(Between)' = SumOver(objectCount)'
    BY <1>1, <1>2, <2>1, <2>3, <2>4 DEF Totals
  <2> QED  BY <1>4, <2>4, <2>5 DEF Totals
<1> QED  BY <1>5, <1>6

\* Every step keeps the totals.
LEMMA TotalsStep ==
    ASSUME Inv, Inv', Totals, [Next]_vars
    PROVE  Totals'
<1>0. TypeOK /\ TypeOK' /\ sender \in [Senders -> SendCalls] /\ objects \in Nat
  BY DEF Inv, TypeOK
<1>1. CASE UNCHANGED <<sender, objects, dataVars>>
  BY <1>1 DEF Totals, SendersAt, Between, SumOver, Units, dataVars, subscriberVars
<1>2. ASSUME NEW s \in Senders, BeginSend(s) PROVE Totals'
  <2> DEFINE new == [NoSend EXCEPT !.pc = "collecting", !.at = 1, !.whole = AllReady]
  <2>1. new.pc = "collecting"
    <3>1. AllReady \in BOOLEAN
      BY DEF AllReady
    <3> QED  BY <3>1, FirstRecord, Zenon
  <2>2. sender' = [sender EXCEPT ![s] = new]
    BY <1>2, Zenon DEF BeginSend
  <2> HIDE DEF new
  <2>3. sender'[s] = new /\ \A t \in Senders : t # s => sender'[t] = sender[t]
    BY <1>0, <2>2
  <2>4. sender[s].pc \notin Busy /\ sender'[s].pc \notin Busy /\ UNCHANGED <<objects, dataVars>>
    BY <1>2, <2>1, <2>3 DEF BeginSend, Busy
  <2> QED  BY <1>0, <2>3, <2>4, SenderTotals
<1>3. ASSUME NEW s \in Senders, \/ Collect(s) \/ Collected(s) \/ UpdatePathStats(s) \/ GiveUp(s)
      PROVE  Totals'
  <2>1. \A t \in Senders : t # s => sender'[t] = sender[t]
    BY <1>0, <1>3 DEF Collect, Collected, UpdatePathStats, GiveUp
  <2>2. UNCHANGED <<objects, dataVars>> /\ sender[s].pc \notin Busy
    BY <1>3 DEF Collect, Collected, UpdatePathStats, GiveUp, Busy
  <2>3. Collect(s) => sender'[s].pc \notin Busy
    BY <1>0 DEF Collect, Busy, SendCalls
  <2>4. Collected(s) => sender'[s].pc \notin Busy
    BY <1>0 DEF Collected, Busy, SendCalls
  <2>5. UpdatePathStats(s) \/ GiveUp(s) => sender'[s].pc \notin Busy
    BY <1>0 DEF UpdatePathStats, GiveUp, Busy, NoSend
  <2> QED  BY <1>0, <1>3, <2>1, <2>2, <2>3, <2>4, <2>5, SenderTotals
<1>4. ASSUME NEW s \in Senders, Select(s) PROVE Totals'
  <2>1. PICK valid \in BOOLEAN : \E path :
          /\ objects' = ObjectsAfter(valid)
          /\ sender' = [sender EXCEPT ![s].pc = IF valid THEN "locking" ELSE "invalidIndex",
                                      ![s].path = path]
    BY <1>4, Zenon DEF Select
  <2>2. /\ \A t \in Senders : t # s => sender'[t] = sender[t]
        /\ sender'[s].pc = IF valid THEN "locking" ELSE "invalidIndex"
    BY <1>0, <2>1 DEF SendCalls
  <2>3. sender[s].pc \notin Busy /\ UNCHANGED dataVars
    BY <1>4 DEF Select, Busy
  <2>4. objects' = IF valid THEN objects + 1 ELSE objects
    BY <2>1 DEF ObjectsAfter
  <2> QED  BY <1>0, <2>2, <2>3, <2>4, SenderTotals DEF Busy
<1>5. ASSUME NEW s \in Senders, LockConnection(s) PROVE Totals'
  <2>1. /\ \A t \in Senders : t # s => sender'[t] = sender[t]
        /\ sender[s].pc \in Busy /\ sender'[s].pc \in Busy
        /\ UNCHANGED <<objects, dataVars>>
    BY <1>0, <1>5 DEF LockConnection, SendCalls, Busy
  <2> QED  BY <1>0, <2>1, SenderTotals
<1>6. ASSUME NEW s \in Senders, NEW ok \in BOOLEAN, WriteObject(s, ok) PROVE Totals'
  BY <1>0, <1>6, WriteTotals
<1>7. ASSUME NEW p \in Paths, ReadObject(p) \/ CountTotal(p) PROVE Totals'
  BY <1>0, <1>7, ReadTotals
<1> QED
  BY <1>1, <1>2, <1>3, <1>4, <1>5, <1>6, <1>7
     DEF Next, vars, SendStep, PathDies, HandleSubscribe, HandlerStep, AcceptSubscribe,
         MarkReady, MarkStats, BeginAdd, BeginClose, MainStep, MainLocks, AddStats,
         AppendConnection, CloseSession, SessionClosed, CloseReturns, SamplerTick,
         SamplerStep, Sample, StoreSample, SamplerDone

\* Over all paths, every object that was given a path is in progress, in flight, failed
\* or counted, and the total of the subscriber lacks only the readers between their two
\* counters: the publisher and the subscriber agree, whichever goroutine is where.
LEMMA TotalBooks == Spec => []TotalAccounts
<1>1. Init => Totals
  <2> SUFFICES ASSUME Init PROVE Totals
    OBVIOUS
  <2>1. \A s \in Senders : sender[s].pc = "idle"
    BY DEF Init, NoSend
  <2>2. SendersAt(Busy) = 0
    BY <2>1, FS_EmptySet DEF SendersAt, Busy
  <2>3. Cardinality(Between) = 0
    BY FS_EmptySet DEF Init, Between
  <2>4. ASSUME NEW f, f = [p \in Paths |-> 0] PROVE IsFiniteSet(Units(f)) /\ SumOver(f) = 0
    <3>1. Units(f) = {}
      <4>1. \A p \in Paths : f[p] = 0
        BY <2>4
      <4>2. \A x : x \notin Units(f)
        BY <4>1, UnitsAre
      <4> QED  BY <4>2
    <3> QED  BY <3>1, FS_EmptySet DEF SumOver
  <2>5. /\ flight = [p \in Paths |-> 0] /\ failed = [p \in Paths |-> 0]
        /\ objectCount = [p \in Paths |-> 0] /\ objects = 0 /\ totalObjects = 0
    BY DEF Init
  <2> QED  BY <2>2, <2>3, <2>4, <2>5 DEF Totals
<1>2. Inv /\ Inv' /\ Totals /\ [Next]_vars => Totals'
  BY TotalsStep
<1>3. Totals => TotalAccounts
  BY DEF Totals, TotalAccounts, Busy, Between
<1> QED  BY <1>1, <1>2, <1>3, Invariance, PTL DEF Spec

\* The statistics of every path, and the totals of the publisher and the subscriber, add
\* up with what is in progress and in flight, for any number of paths and senders and
\* whoever holds the locks.
THEOREM BooksBalance == Spec => []Accounts
<1>1. PathAccounts /\ TotalAccounts => Accounts
  BY DEF Accounts
<1> QED  BY <1>1, PathBooks, TotalBooks, PTL

=============================================================================
