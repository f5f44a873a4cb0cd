-------------------------- MODULE GraphOrderProofs --------------------------
(***************************************************************************)
(* The topological sort of validate() is correct for any number of tasks.   *)
(***************************************************************************)
EXTENDS GraphOrder, FiniteSetTheorems, WellFoundedInduction, TLAPS

\* pop_first() finds the least of a set of numbers.
LEMMA LeastExists ==
    ASSUME NEW S, S \subseteq Nat, S # {}
    PROVE  \E t \in S : \A u \in S : t <= u
<1> DEFINE R == OpToRel(<, Nat)
<1>1. IsWellFoundedOn(R, Nat)
  BY NatLessThanWellFounded
<1>2. \A x, y \in Nat : y < x => <<y, x>> \in R
  BY DEF OpToRel
<1> HIDE DEF R
<1>3. PICK x \in S : \A y \in S : ~ (<<y, x>> \in R)
  BY <1>1, WFMin, Zenon
<1>4. \A y \in S : ~ (y < x)
  BY <1>2, <1>3
<1>5. \A y \in S : x <= y
  BY <1>4
<1>6. QED BY <1>5

LEMMA PoppedReady == ready \subseteq Nat /\ ready # {} => Popped \in ready
BY LeastExists DEF Popped

\* A set of tasks and names is finite.
LEMMA DepsFinite == TypeOK => \A t \in Tasks : IsFiniteSet(deps[t])
<1> SUFFICES ASSUME TypeOK, NEW t \in Tasks PROVE IsFiniteSet(deps[t])
  OBVIOUS
<1>1. IsFiniteSet(1..N)
  BY FS_Interval, OrderAssumption
<1>2. IsFiniteSet(Tasks \cup Unknown)
  BY <1>1, FS_Union, OrderAssumption DEF Tasks
<1>3. deps[t] \in SUBSET (Tasks \cup Unknown)
  BY DEF TypeOK
<1>4. QED BY <1>2, <1>3, FS_Subset

-----------------------------------------------------------------------------
\* What makes the properties inductive.  Beyond Counted: what is placed is closed under
\* dependencies and free of cycles, and nothing is placed before the checks passed.
NoCyclePlaced == \A S \in SUBSET Placed : S # {} => \E t \in S : deps[t] \cap S = {}

Inv ==
    /\ TypeOK
    /\ verdict \in {"checking", "malformed"} => order = <<>>
    /\ verdict \in {"sorting", "cycle", "accepted"} => ~Malformed
    /\ Counted
    /\ DependenciesOrdered
    /\ NoCyclePlaced
    /\ verdict \in {"cycle", "accepted"} => ready = {}
    /\ verdict = "accepted" => Len(order) = N
    /\ verdict = "cycle" => Len(order) # N

LEMMA InitInv == OrderInit => Inv
<1> SUFFICES ASSUME OrderInit PROVE Inv
  OBVIOUS
<1>1. order = <<>> /\ Len(order) = 0 /\ Placed = {}
  BY DEF OrderInit, Placed
<1>2. TypeOK
  BY DEF OrderInit, TypeOK
<1>3. QED BY <1>1, <1>2 DEF OrderInit, Inv, Counted, DependenciesOrdered, NoCyclePlaced

\* What is placed after one more task.
LEMMA AppendPlaces ==
    ASSUME TypeOK, NEW x \in Tasks, order' = Append(order, x)
    PROVE  /\ Placed' = Placed \cup {x}
           /\ Len(order') = Len(order) + 1
           /\ \A i \in 1..Len(order) : order'[i] = order[i]
           /\ order'[Len(order) + 1] = x
<1>1. /\ Len(order') = Len(order) + 1 /\ Len(order) \in Nat
      /\ \A i \in 1..Len(order) : order'[i] = order[i]
      /\ order'[Len(order) + 1] = x
  BY DEF TypeOK
<1>2. 1..Len(order') = 1..Len(order) \cup {Len(order) + 1}
  BY <1>1
<1>3. Placed' = Placed \cup {x}
  BY <1>1, <1>2 DEF Placed
<1>4. QED BY <1>1, <1>3

LEMMA PopKeepsInv ==
    ASSUME Inv, Pop PROVE Inv'
<1> DEFINE x == Popped
<1>1. ready \subseteq Nat /\ verdict = "sorting" /\ ~Malformed /\ TypeOK
  BY DEF Inv, Pop, TypeOK, Tasks
<1>2. x \in ready /\ x \in Tasks
  BY <1>1, PoppedReady DEF Pop, TypeOK
<1>3. /\ order' = Append(order, x)
      /\ indegree' = [t \in Tasks |-> IF x \in deps[t] THEN indegree[t] - 1 ELSE indegree[t]]
      /\ ready' = (ready \ {x}) \cup {t \in Tasks : x \in deps[t] /\ indegree[t] = 1}
      /\ UNCHANGED <<deps, verdict>>
  BY DEF Pop, Released
<1> HIDE DEF x
<1>4. x \notin Placed /\ deps[x] \subseteq Placed
  BY <1>1, <1>2 DEF Inv, Counted
<1>5. /\ Placed' = Placed \cup {x}
      /\ Len(order') = Len(order) + 1
      /\ \A i \in 1..Len(order) : order'[i] = order[i]
      /\ order'[Len(order) + 1] = x
  BY <1>1, <1>2, <1>3, AppendPlaces
<1>6. \A t \in Tasks :
        /\ IsFiniteSet(deps[t] \ Placed)
        /\ indegree[t] = Cardinality(deps[t] \ Placed)
        /\ Cardinality(deps[t] \ Placed) \in Nat
  <2> SUFFICES ASSUME NEW t \in Tasks
               PROVE  /\ IsFiniteSet(deps[t] \ Placed)
                      /\ indegree[t] = Cardinality(deps[t] \ Placed)
                      /\ Cardinality(deps[t] \ Placed) \in Nat
    OBVIOUS
  <2>1. IsFiniteSet(deps[t])
    BY <1>1, DepsFinite
  <2>2. IsFiniteSet(deps[t] \ Placed)
    BY <2>1, FS_Subset
  <2>3. QED BY <1>1, <2>2, FS_CardinalityType DEF Inv, Counted
<1>7. \A t \in Tasks :
        /\ deps'[t] \ Placed' = (deps[t] \ Placed) \ {x}
        /\ indegree'[t] = Cardinality(deps'[t] \ Placed')
        /\ indegree'[t] \in Nat
  <2> SUFFICES ASSUME NEW t \in Tasks
               PROVE  /\ deps'[t] \ Placed' = (deps[t] \ Placed) \ {x}
                      /\ indegree'[t] = Cardinality(deps'[t] \ Placed')
                      /\ indegree'[t] \in Nat
    OBVIOUS
  <2>1. deps'[t] \ Placed' = (deps[t] \ Placed) \ {x}
    BY <1>3, <1>5
  <2>2. Cardinality((deps[t] \ Placed) \ {x}) =
          IF x \in deps[t] \ Placed THEN Cardinality(deps[t] \ Placed) - 1
                                    ELSE Cardinality(deps[t] \ Placed)
    BY <1>6, FS_RemoveElement
  <2>3. indegree'[t] = IF x \in deps[t] THEN indegree[t] - 1 ELSE indegree[t]
    BY <1>3
  <2>4. indegree'[t] = Cardinality(deps'[t] \ Placed')
    BY <1>4, <1>6, <2>1, <2>2, <2>3
  <2>5. IsFiniteSet((deps[t] \ Placed) \ {x})
    BY <1>6, FS_RemoveElement
  <2>6. QED BY <2>1, <2>4, <2>5, FS_CardinalityType
<1>8. TypeOK'
  <2>1. indegree' \in [Tasks -> Nat]
    BY <1>3, <1>7
  <2>2. order' \in Seq(Tasks)
    BY <1>1, <1>2, <1>3 DEF TypeOK
  <2>3. ready' \subseteq Tasks
    BY <1>1, <1>3 DEF TypeOK
  <2>4. QED BY <1>1, <1>3, <2>1, <2>2, <2>3 DEF TypeOK
<1>9. ready' = {t \in Tasks \ Placed' : deps'[t] \subseteq Placed'}
  <2>1. ASSUME NEW t \in Tasks
        PROVE  t \in ready' <=> t \notin Placed' /\ deps'[t] \subseteq Placed'
    <3>1. CASE t = x
      <4>1. x \notin deps[x]
        BY <1>4
      <4>2. QED BY <1>3, <1>5, <3>1, <4>1
    <3>2. CASE t # x /\ x \notin deps[t]
      BY <1>1, <1>3, <1>5, <3>2 DEF Inv, Counted
    <3>3. CASE t # x /\ x \in deps[t]
      <4>1. t \notin ready
        BY <1>1, <1>4, <3>3 DEF Inv, Counted
      <4>2. t \in ready' <=> indegree[t] = 1
        BY <1>3, <3>3, <4>1
      <4>3. x \in deps[t] \ Placed
        BY <1>4, <3>3
      <4>4. indegree[t] = 1 <=> Cardinality((deps[t] \ Placed) \ {x}) = 0
        <5>1. Cardinality((deps[t] \ Placed) \ {x}) = Cardinality(deps[t] \ Placed) - 1
          BY <1>6, <4>3, FS_RemoveElement
        <5>2. QED BY <1>6, <5>1
      <4>5. Cardinality((deps[t] \ Placed) \ {x}) = 0 <=> (deps[t] \ Placed) \ {x} = {}
        BY <1>6, FS_RemoveElement, FS_EmptySet
      <4>6. deps'[t] \subseteq Placed' <=> (deps[t] \ Placed) \ {x} = {}
        BY <1>3, <1>5
      <4>7. t \notin Placed
        <5>1. SUFFICES ASSUME t \in Placed PROVE FALSE
          OBVIOUS
        <5>2. PICK i \in 1..Len(order) : t = order[i]
          BY <5>1 DEF Placed
        <5>3. deps[t] \subseteq {order[j] : j \in 1..(i - 1)}
          BY <5>2 DEF Inv, DependenciesOrdered
        <5>4. {order[j] : j \in 1..(i - 1)} \subseteq Placed
          BY <1>1 DEF Placed, TypeOK
        <5>5. QED BY <1>4, <3>3, <5>3, <5>4
      <4>8. QED BY <1>5, <3>3, <4>2, <4>4, <4>5, <4>6, <4>7
    <3>4. QED BY <3>1, <3>2, <3>3
  <2>2. ready' \subseteq Tasks
    BY <1>8 DEF TypeOK
  <2>3. QED BY <2>1, <2>2
<1>10. Counted'
  BY <1>7, <1>9 DEF Counted
<1>11. DependenciesOrdered'
  <2> SUFFICES ASSUME NEW i \in 1..Len(order')
               PROVE  /\ deps'[order'[i]] \subseteq {order'[j] : j \in 1..(i - 1)}
                      /\ \A j \in 1..(i - 1) : order'[j] # order'[i]
    BY DEF DependenciesOrdered
  <2>0. Len(order) \in Nat
    BY <1>1 DEF TypeOK
  <2>1. CASE i \in 1..Len(order)
    <3>1. /\ deps[order[i]] \subseteq {order[j] : j \in 1..(i - 1)}
          /\ \A j \in 1..(i - 1) : order[j] # order[i]
      BY <2>1 DEF Inv, DependenciesOrdered
    <3>2. \A j \in 1..(i - 1) : order'[j] = order[j]
      BY <1>5, <2>0, <2>1
    <3>3. {order'[j] : j \in 1..(i - 1)} = {order[j] : j \in 1..(i - 1)}
      BY <3>2
    <3>4. QED BY <1>3, <1>5, <2>1, <3>1, <3>2, <3>3
  <2>2. CASE i = Len(order) + 1
    <3>1. 1..(i - 1) = 1..Len(order)
      BY <2>0, <2>2
    <3>2. {order'[j] : j \in 1..(i - 1)} = Placed
      BY <1>5, <3>1 DEF Placed
    <3>3. \A j \in 1..(i - 1) : order'[j] \in Placed
      BY <3>2
    <3>4. order'[i] = x
      BY <1>5, <2>2
    <3>5. QED BY <1>3, <1>4, <3>2, <3>3, <3>4
  <2>3. QED BY <1>5, <2>0, <2>1, <2>2
<1>12. NoCyclePlaced'
  <2> SUFFICES ASSUME NEW S \in SUBSET (Placed \cup {x}), S # {}
               PROVE  \E t \in S : deps[t] \cap S = {}
    BY <1>3, <1>5 DEF NoCyclePlaced
  <2>1. CASE S \ {x} = {}
    <3>1. S = {x}
      BY <2>1
    <3>2. QED BY <1>4, <3>1
  <2>2. CASE S \ {x} # {}
    <3>1. PICK t \in S \ {x} : deps[t] \cap (S \ {x}) = {}
      BY <2>2 DEF Inv, NoCyclePlaced
    <3>2. t \in Placed
      OBVIOUS
    <3>3. PICK i \in 1..Len(order) : t = order[i]
      BY <3>2 DEF Placed
    <3>4. deps[t] \subseteq {order[j] : j \in 1..(i - 1)}
      BY <3>3 DEF Inv, DependenciesOrdered
    <3>5. {order[j] : j \in 1..(i - 1)} \subseteq Placed
      BY <1>1 DEF Placed, TypeOK
    <3>6. x \notin deps[t]
      BY <1>4, <3>4, <3>5
    <3>7. QED BY <3>1, <3>6
  <2>3. QED BY <2>1, <2>2
<1>13. QED
  BY <1>1, <1>3, <1>8, <1>10, <1>11, <1>12 DEF Inv, Malformed

LEMMA BeginKeepsInv ==
    ASSUME Inv, Begin PROVE Inv'
<1>1. TypeOK /\ order = <<>> /\ ~Malformed
  BY DEF Inv, Begin
<1>2. Placed = {} /\ Placed' = {}
  BY <1>1 DEF Begin, Placed
<1>3. \A t \in Tasks : Cardinality(deps[t]) \in Nat /\ (Cardinality(deps[t]) = 0 <=> deps[t] = {})
  BY <1>1, DepsFinite, FS_CardinalityType, FS_EmptySet
<1>4. TypeOK'
  BY <1>1, <1>3 DEF Begin, TypeOK, Waits
<1>5. Counted'
  <2>1. \A t \in Tasks : indegree'[t] = Cardinality(deps'[t] \ Placed')
    <3> SUFFICES ASSUME NEW t \in Tasks PROVE indegree'[t] = Cardinality(deps'[t] \ Placed')
      OBVIOUS
    <3>1. deps'[t] \ Placed' = deps[t]
      BY <1>2 DEF Begin
    <3>2. QED BY <3>1 DEF Begin, Waits
  <2>2. ready' = {t \in Tasks \ Placed' : deps'[t] \subseteq Placed'}
    BY <1>2, <1>3 DEF Begin, Waits
  <2>3. QED BY <2>1, <2>2 DEF Counted
<1>6. DependenciesOrdered' /\ NoCyclePlaced'
  BY <1>1, <1>2 DEF Begin, DependenciesOrdered, NoCyclePlaced
<1>7. QED
  BY <1>1, <1>4, <1>5, <1>6 DEF Begin, Inv, Malformed

LEMMA OrderKept ==
    ASSUME Inv, UNCHANGED <<deps, order>>
    PROVE  DependenciesOrdered' /\ NoCyclePlaced' /\ Placed' = Placed
<1>1. deps' = deps /\ order' = order
  OBVIOUS
<1>2. Placed' = Placed
  BY <1>1 DEF Placed
<1>3. NoCyclePlaced'
  BY <1>1, <1>2 DEF Inv, NoCyclePlaced
<1>4. DependenciesOrdered'
  <2> SUFFICES ASSUME NEW i \in 1..Len(order)
               PROVE  /\ deps[order[i]] \subseteq {order'[j] : j \in 1..(i - 1)}
                      /\ \A j \in 1..(i - 1) : order[j] # order[i]
    BY <1>1 DEF DependenciesOrdered
  <2>1. {order'[j] : j \in 1..(i - 1)} = {order[j] : j \in 1..(i - 1)}
    BY <1>1
  <2>2. QED BY <2>1 DEF Inv, DependenciesOrdered
<1>5. QED BY <1>2, <1>3, <1>4

LEMMA NextKeepsInv == Inv /\ [OrderNext]_orderVars => Inv'
<1> SUFFICES ASSUME Inv, [OrderNext]_orderVars PROVE Inv'
  OBVIOUS
<1>1. CASE Refuse
  BY <1>1 DEF Inv, Refuse, TypeOK, Counted, DependenciesOrdered, NoCyclePlaced, Placed, Malformed
<1>2. CASE Begin
  BY <1>2, BeginKeepsInv
<1>3. CASE Pop
  BY <1>3, PopKeepsInv
<1>4. CASE End
  <2>1. DependenciesOrdered' /\ NoCyclePlaced' /\ Placed' = Placed
    BY <1>4, OrderKept DEF End
  <2>2. TypeOK' /\ Counted'
    BY <1>4, <2>1 DEF Inv, End, TypeOK, Counted
  <2>3. QED BY <1>4, <2>1, <2>2 DEF Inv, End, Sorted, Malformed
<1>5. CASE UNCHANGED orderVars
  <2>1. DependenciesOrdered' /\ NoCyclePlaced' /\ Placed' = Placed
    BY <1>5, OrderKept DEF orderVars
  <2>2. TypeOK' /\ Counted'
    BY <1>5, <2>1 DEF Inv, orderVars, TypeOK, Counted
  <2>3. QED BY <1>5, <2>1, <2>2 DEF Inv, orderVars, Malformed
<1>6. QED BY <1>1, <1>2, <1>3, <1>4, <1>5 DEF OrderNext, Done

LEMMA InvHolds == OrderSpec => []Inv
<1>1. QED BY InitInv, NextKeepsInv, PTL DEF OrderSpec

\* Each placed task fills one place.
LEMMA PlacesFilled ==
    ASSUME Inv
    PROVE  /\ Placed \subseteq Tasks
           /\ Placed = Tasks <=> Len(order) = N
<1>1. TypeOK /\ Len(order) \in Nat /\ order \in [1..Len(order) -> Tasks]
  BY DEF Inv, TypeOK
<1>2. Placed \subseteq Tasks
  BY <1>1 DEF Placed
<1>3. \A i, j \in 1..Len(order) : order[i] = order[j] => i = j
  <2> SUFFICES ASSUME NEW i \in 1..Len(order), NEW j \in 1..Len(order), i < j
               PROVE  order[i] # order[j]
    BY <1>1
  <2>1. i \in 1..(j - 1)
    BY <1>1
  <2>2. QED BY <2>1 DEF Inv, DependenciesOrdered
<1>4. order \in Bijection(1..Len(order), Placed)
  BY <1>1, <1>3 DEF Placed, Bijection, Injection, Surjection, IsInjective
<1>5. IsFiniteSet(1..Len(order)) /\ Cardinality(1..Len(order)) = Len(order)
  BY <1>1, FS_Interval
<1>6. Cardinality(Placed) = Len(order)
  BY <1>4, <1>5, FS_Bijection DEF ExistsBijection
<1>7. IsFiniteSet(Tasks) /\ Cardinality(Tasks) = N
  BY FS_Interval, OrderAssumption DEF Tasks
<1>8. Len(order) = N => Placed = Tasks
  BY <1>2, <1>6, <1>7, FS_Subset
<1>9. QED BY <1>2, <1>6, <1>7, <1>8

\* GraphDefinition::validate: for every graph of any size, each task of the order follows
\* all its dependencies and appears once.
THEOREM OrderIsTopological == OrderSpec => []DependenciesOrdered
<1>1. Inv => DependenciesOrdered
  BY DEF Inv
<1>2. QED BY <1>1, InvHolds, PTL

\* GraphDefinition::validate: the indegrees count the dependencies not yet placed, so the
\* unsigned decrement never wraps.
THEOREM IndegreesCount == OrderSpec => [](TypeOK /\ Counted)
<1>1. Inv => TypeOK /\ Counted
  BY DEF Inv
<1>2. QED BY <1>1, InvHolds, PTL

\* GraphDefinition::validate: "dependency cycle detected" is answered for the graphs that
\* have a cycle and for no other, whatever their size.
THEOREM CyclesAreFound == OrderSpec => []CycleFound
<1>1. ASSUME Inv PROVE CycleFound
  <2>1. ASSUME verdict = "cycle" PROVE ~Acyclic
    <3> DEFINE S == Tasks \ Placed
    <3>1. S \in (SUBSET Tasks) \ {{}}
      BY <1>1, <2>1, PlacesFilled DEF Inv
    <3>2. \A t \in S : deps[t] \cap S # {}
      <4> SUFFICES ASSUME NEW t \in S PROVE deps[t] \cap S # {}
        OBVIOUS
      <4>1. ~(deps[t] \subseteq Placed)
        BY <1>1, <2>1 DEF Inv, Counted
      <4>2. deps[t] \subseteq Tasks
        BY <1>1, <2>1 DEF Inv, TypeOK, Malformed
      <4>3. QED BY <4>1, <4>2
    <3> HIDE DEF S
    <3>3. QED BY <3>1, <3>2 DEF Acyclic
  <2>2. ASSUME verdict = "accepted" PROVE Acyclic /\ Placed = Tasks
    <3>1. Placed = Tasks
      BY <1>1, <2>2, PlacesFilled DEF Inv
    <3>2. \A S \in SUBSET Tasks : S # {} => \E t \in S : deps[t] \cap S = {}
      BY <1>1, <3>1 DEF Inv, NoCyclePlaced
    <3>3. Acyclic
      BY <3>2 DEF Acyclic
    <3>4. QED BY <3>1, <3>3
  <2>3. QED BY <2>1, <2>2 DEF CycleFound
<1>2. QED BY <1>1, InvHolds, PTL
=============================================================================
