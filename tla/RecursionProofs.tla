--------------------------- MODULE RecursionProofs ---------------------------
(***************************************************************************)
(* The recursive crawl, for any lookups, findings, kinds and bounds: no      *)
(* target is looked up twice or past the budget, nothing that was found is  *)
(* lost without a record, and the kinds take turns.                         *)
(***************************************************************************)
EXTENDS Recursion, FiniteSetTheorems, SequenceTheorems, WellFoundedInduction, TLAPS

-----------------------------------------------------------------------------
(* Loops.  Induction over their length is the choice of a least length at    *)
(* which they go wrong.                                                      *)

\* A set of naturals that is not empty has a least element.
LEMMA LeastExists ==
    ASSUME NEW S, S \subseteq Nat, S # {}
    PROVE  \E x \in S : \A y \in S : x <= y
<1> DEFINE R == OpToRel(<, Nat)
<1>1. IsWellFoundedOn(R, Nat)
  BY NatLessThanWellFounded
<1>2. \A x, y \in Nat : y < x => <<y, x>> \in R
  BY DEF OpToRel
<1> HIDE DEF R
<1>3. PICK x \in S : \A y \in S : ~(<<y, x>> \in R)
  BY <1>1, WFMin, Zenon
<1>4. \A y \in S : ~(y < x)
  BY <1>2, <1>3
<1>5. QED BY <1>4

\* A set that holds 0 and, with each number, the next one, up to n, holds n.
LEMMA UpTo ==
    ASSUME NEW n \in Nat, NEW S, 0 \in S, \A i \in 1..n : i - 1 \in S => i \in S
    PROVE  n \in S
<1> DEFINE Out == {i \in 0..n : i \notin S}
<1>1. SUFFICES Out = {}
  OBVIOUS
<1>2. SUFFICES ASSUME Out # {} PROVE FALSE
  OBVIOUS
<1>3. PICK x \in Out : \A y \in Out : x <= y
  <2>1. Out \subseteq Nat
    OBVIOUS
  <2> HIDE DEF Out
  <2>2. QED BY <1>2, <2>1, LeastExists
<1>4. x \in 1..n /\ x - 1 \in 0..n /\ ~(x <= x - 1)
  BY <1>3
<1>5. x - 1 \in S
  BY <1>3, <1>4
<1>6. QED BY <1>3, <1>4, <1>5

\* The recursive function of a Fold exists.
LEMMA FoldCarries ==
    ASSUME NEW step, NEW start, NEW s, Len(s) \in Nat
    PROVE  \E f : /\ f[0] = start
                  /\ \A i \in 1..Len(s) : f[i] = step[s[i]][f[i - 1]]
                  /\ Fold(step, start, s) = f[Len(s)]
<1> DEFINE Is(f, n) == f = [i \in 0..n |-> IF i = 0 THEN start ELSE step[s[i]][f[i - 1]]]
           Have == {n \in 0..Len(s) : \E f : Is(f, n)}
<1>1. 0 \in Have
  <2> DEFINE f == [i \in 0..0 |-> start]
  <2>1. \A i \in 0..0 : i = 0
    OBVIOUS
  <2>2. f = [i \in 0..0 |-> IF i = 0 THEN start ELSE step[s[i]][f[i - 1]]]
    BY <2>1, Zenon
  <2> HIDE DEF f
  <2>3. \E g : Is(g, 0)
    BY <2>2, Zenon
  <2>4. QED BY <2>3
<1>2. ASSUME NEW n \in 1..Len(s), n - 1 \in Have PROVE n \in Have
  <2>1. PICK g : Is(g, n - 1)
    BY <1>2
  <2> DEFINE f == [i \in 0..n |-> IF i = n THEN step[s[n]][g[n - 1]] ELSE g[i]]
  <2>2. \A i \in 0..(n - 1) : f[i] = g[i]
    OBVIOUS
  <2>3. \A i \in 0..(n - 1) : g[i] = IF i = 0 THEN start ELSE step[s[i]][g[i - 1]]
    <3> HIDE DEF f
    <3>1. g = [i \in 0..(n - 1) |-> IF i = 0 THEN start ELSE step[s[i]][g[i - 1]]]
      BY <2>1
    <3> HIDE <2>1
    <3>2. QED BY <3>1
  <2>4. \A i \in 0..n : f[i] = IF i = 0 THEN start ELSE step[s[i]][f[i - 1]]
    <3>1. f[0] = start
      BY <2>2, <2>3
    <3>2. \A i \in 1..(n - 1) : f[i] = step[s[i]][f[i - 1]]
      <4>1. \A i \in 1..(n - 1) : i \in 0..(n - 1) /\ i - 1 \in 0..(n - 1) /\ i # 0
        OBVIOUS
      <4> HIDE DEF f
      <4>2. QED BY <2>2, <2>3, <4>1
    <3>3. f[n] = step[s[n]][f[n - 1]]
      BY <2>2
    <3>4. \A i \in 0..n : i = 0 \/ i \in 1..(n - 1) \/ i = n
      OBVIOUS
    <3> HIDE DEF f
    <3>5. QED BY <3>1, <3>2, <3>3, <3>4
  <2>5. DOMAIN f = 0..n /\ f = [i \in 0..n |-> f[i]]
    OBVIOUS
  <2> HIDE DEF f
  <2>6. Is(f, n)
    BY <2>4, <2>5
  <2>7. QED BY <2>6
<1>3. Len(s) \in Have
  <2> HIDE DEF Have
  <2>1. QED BY <1>1, <1>2, UpTo
<1>4. PICK f : /\ f = [i \in 0..Len(s) |-> IF i = 0 THEN start ELSE step[s[i]][f[i - 1]]]
               /\ Fold(step, start, s) = f[Len(s)]
  BY <1>3 DEF Fold
<1>5. f[0] = start /\ \A i \in 1..Len(s) : f[i] = step[s[i]][f[i - 1]]
  <2>1. \A i \in 0..Len(s) : f[i] = IF i = 0 THEN start ELSE step[s[i]][f[i - 1]]
    <3>1. f = [i \in 0..Len(s) |-> IF i = 0 THEN start ELSE step[s[i]][f[i - 1]]]
      BY <1>4
    <3> HIDE <1>4
    <3>2. QED BY <3>1
  <2>2. QED BY <2>1
<1>6. QED BY <1>4, <1>5

\* What holds of the start, and of the value after each element when it held before it,
\* holds of the whole loop: P[i] is what may be carried after i elements.
LEMMA FoldStays ==
    ASSUME NEW step, NEW start, NEW s, Len(s) \in Nat, NEW P,
           start \in P[0],
           \A i \in 1..Len(s) : \A x \in P[i - 1] : step[s[i]][x] \in P[i]
    PROVE  Fold(step, start, s) \in P[Len(s)]
<1>1. PICK f : /\ f[0] = start
               /\ \A i \in 1..Len(s) : f[i] = step[s[i]][f[i - 1]]
               /\ Fold(step, start, s) = f[Len(s)]
  BY FoldCarries
<1> DEFINE Good == {i \in 0..Len(s) : f[i] \in P[i]}
<1>2. 0 \in Good
  BY <1>1
<1>3. ASSUME NEW i \in 1..Len(s), i - 1 \in Good PROVE i \in Good
  <2>1. f[i - 1] \in P[i - 1] /\ f[i] = step[s[i]][f[i - 1]] /\ i \in 0..Len(s)
    BY <1>1, <1>3
  <2>2. step[s[i]][f[i - 1]] \in P[i]
    BY <2>1
  <2>3. QED BY <2>1, <2>2
<1> HIDE DEF Good
<1>4. Len(s) \in Good
  BY <1>2, <1>3, UpTo
<1>5. QED BY <1>1, <1>4 DEF Good

-----------------------------------------------------------------------------
(* Sequences of targets. *)

\* Appending an element adds it, keeps what was there and, if it is new, the injectivity.
LEMMA AppendAdds ==
    ASSUME NEW S, NEW q \in Seq(S), NEW t \in S
    PROVE  /\ Append(q, t) \in Seq(S) /\ Len(Append(q, t)) = Len(q) + 1
           /\ ToSet(Append(q, t)) = ToSet(q) \cup {t}
           /\ IsInjective(q) /\ t \notin ToSet(q) => IsInjective(Append(q, t))
<1>1. /\ Len(q) \in Nat /\ DOMAIN q = 1..Len(q)
      /\ Append(q, t) \in Seq(S) /\ Len(Append(q, t)) = Len(q) + 1
      /\ DOMAIN Append(q, t) = 1..(Len(q) + 1)
      /\ \A i \in 1..Len(q) : Append(q, t)[i] = q[i]
      /\ Append(q, t)[Len(q) + 1] = t
  BY AppendProperties, LenProperties
<1>2. \A i \in 1..(Len(q) + 1) : i \in 1..Len(q) \/ i = Len(q) + 1
  BY <1>1
<1>3. \A i \in 1..Len(q) : i \in 1..(Len(q) + 1) /\ i # Len(q) + 1
  BY <1>1
<1>4. Len(q) + 1 \in 1..(Len(q) + 1)
  BY <1>1
<1>5. ToSet(Append(q, t)) = ToSet(q) \cup {t}
  BY <1>1, <1>2, <1>3, <1>4 DEF ToSet
<1>6. ASSUME IsInjective(q), t \notin ToSet(q) PROVE IsInjective(Append(q, t))
  BY <1>1, <1>2, <1>3, <1>4, <1>6 DEF ToSet, IsInjective
<1>7. QED BY <1>1, <1>5, <1>6

\* Taking the head leaves the rest, which an injective sequence does not repeat it in.
LEMMA TailLeaves ==
    ASSUME NEW S, NEW q \in Seq(S), q # <<>>
    PROVE  /\ Tail(q) \in Seq(S) /\ Len(q) \in Nat /\ Len(Tail(q)) = Len(q) - 1
           /\ Head(q) \in S /\ ToSet(q) = ToSet(Tail(q)) \cup {Head(q)}
           /\ IsInjective(q) => IsInjective(Tail(q)) /\ Head(q) \notin ToSet(Tail(q))
<1> DEFINE r == Tail(q)
<1>1. /\ Len(q) \in Nat \ {0} /\ DOMAIN q = 1..Len(q) /\ Head(q) = q[1] /\ Head(q) \in S
      /\ r \in Seq(S) /\ Len(r) = Len(q) - 1 /\ DOMAIN r = 1..Len(r)
      /\ \A i \in 1..Len(r) : r[i] = q[i + 1]
  BY HeadTailProperties, LenProperties, EmptySeq
<1> HIDE DEF r
<1>2. \A i \in 1..Len(r) : i + 1 \in 1..Len(q) /\ i + 1 # 1
  BY <1>1
<1>3. \A i \in 1..Len(q) : i = 1 \/ (i - 1 \in 1..Len(r) /\ (i - 1) + 1 = i)
  BY <1>1
<1>4. 1 \in 1..Len(q)
  BY <1>1
<1>5. ToSet(q) \subseteq ToSet(r) \cup {Head(q)}
  <2> SUFFICES ASSUME NEW i \in 1..Len(q), i # 1 PROVE q[i] \in ToSet(r)
    BY <1>1 DEF ToSet
  <2>1. i - 1 \in 1..Len(r) /\ r[i - 1] = q[i]
    BY <1>1, <1>3
  <2>2. QED BY <1>1, <2>1 DEF ToSet
<1>6. ToSet(r) \cup {Head(q)} \subseteq ToSet(q)
  <2>1. Head(q) \in ToSet(q)
    BY <1>1, <1>4 DEF ToSet
  <2>2. ASSUME NEW i \in 1..Len(r) PROVE r[i] \in ToSet(q)
    <3>1. r[i] = q[i + 1] /\ i + 1 \in 1..Len(q)
      BY <1>1, <1>2
    <3>2. QED BY <1>1, <3>1 DEF ToSet
  <2>3. QED BY <1>1, <2>1, <2>2 DEF ToSet
<1>7. ASSUME IsInjective(q) PROVE IsInjective(r) /\ Head(q) \notin ToSet(r)
  <2>1. \A i, j \in 1..Len(r) : i + 1 = j + 1 => i = j
    BY <1>1
  <2>2. \A i, j \in 1..Len(q) : q[i] = q[j] => i = j
    BY <1>1, <1>7 DEF IsInjective
  <2>3. ASSUME NEW i \in 1..Len(r), NEW j \in 1..Len(r), r[i] = r[j] PROVE i = j
    <3>1. q[i + 1] = q[j + 1] /\ i + 1 \in 1..Len(q) /\ j + 1 \in 1..Len(q)
      BY <1>1, <1>2, <2>3
    <3>2. QED BY <2>1, <2>2, <3>1
  <2>4. ASSUME NEW i \in 1..Len(r), r[i] = q[1] PROVE FALSE
    <3>1. q[i + 1] = q[1] /\ i + 1 \in 1..Len(q) /\ i + 1 # 1
      BY <1>1, <1>2, <2>4
    <3>2. QED BY <1>4, <2>2, <3>1
  <2>5. QED BY <1>1, <2>3, <2>4 DEF ToSet, IsInjective
<1>8. QED BY <1>1, <1>5, <1>6, <1>7 DEF r

\* The elements of a sequence.
LEMMA SetOf ==
    ASSUME NEW S, NEW q \in Seq(S)
    PROVE  /\ ToSet(q) \subseteq S /\ (q = <<>> <=> ToSet(q) = {})
           /\ \A t : Contains(q, t) <=> t \in ToSet(q)
<1>1. /\ Len(q) \in Nat /\ DOMAIN q = 1..Len(q)
      /\ \A i \in 1..Len(q) : q[i] \in S
      /\ q # <<>> => Len(q) \in Nat \ {0}
  BY LenProperties, ElementOfSeq, EmptySeq
<1>2. q = <<>> => ToSet(q) = {}
  BY DEF ToSet
<1>3. q # <<>> => q[1] \in ToSet(q)
  BY <1>1 DEF ToSet
<1>4. QED BY <1>1, <1>2, <1>3 DEF ToSet, Contains

LEMMA EmptyIsInjective == ToSet(<<>>) = {} /\ IsInjective(<<>>)
BY DEF ToSet, IsInjective

\* push keeps one place for each key.
LEMMA PushAdds ==
    ASSUME NEW q \in Seq(Targets), IsInjective(q), NEW t \in Targets
    PROVE  /\ Push(q, t) \in Seq(Targets) /\ IsInjective(Push(q, t))
           /\ ToSet(Push(q, t)) = ToSet(q) \cup {t}
<1>1. Contains(q, t) <=> t \in ToSet(q)
  BY SetOf
<1>2. CASE Contains(q, t)
  BY <1>1, <1>2 DEF Push
<1>3. CASE ~Contains(q, t)
  BY <1>1, <1>3, AppendAdds DEF Push
<1>4. QED BY <1>2, <1>3

\* Pushing all of ts adds them, each once.
LEMMA PushAllAdds ==
    ASSUME NEW q \in Seq(Targets), IsInjective(q), NEW ts \in Seq(Targets)
    PROVE  /\ PushAll(q, ts) \in Seq(Targets) /\ IsInjective(PushAll(q, ts))
           /\ ToSet(PushAll(q, ts)) = ToSet(q) \cup ToSet(ts)
<1> DEFINE step == [t \in Targets |-> [r \in Seq(Targets) |-> Push(r, t)]]
           Some(i) == ToSet(q) \cup {ts[j] : j \in 1..i}
           P == [i \in 0..Len(ts) |-> {r \in Seq(Targets) : /\ IsInjective(r)
                                                             /\ ToSet(r) = Some(i)}]
<1>1. /\ Len(ts) \in Nat /\ ToSet(ts) = {ts[j] : j \in 1..Len(ts)}
      /\ \A i \in 1..Len(ts) : ts[i] \in Targets
  BY LenProperties, ElementOfSeq DEF ToSet
<1>2. q \in P[0]
  <2>1. Some(0) = ToSet(q)
    OBVIOUS
  <2>2. QED BY <1>1, <2>1
<1>3. ASSUME NEW i \in 1..Len(ts), NEW r \in P[i - 1] PROVE step[ts[i]][r] \in P[i]
  <2>1. /\ r \in Seq(Targets) /\ IsInjective(r) /\ ToSet(r) = Some(i - 1)
        /\ i - 1 \in 0..Len(ts) /\ i \in 0..Len(ts)
    BY <1>1, <1>3
  <2>2. step[ts[i]][r] = Push(r, ts[i])
    BY <1>1, <2>1
  <2>3. Some(i) = Some(i - 1) \cup {ts[i]}
    <3>1. 1..i = 1..(i - 1) \cup {i}
      BY <1>1
    <3>2. QED BY <3>1
  <2>4. /\ Push(r, ts[i]) \in Seq(Targets) /\ IsInjective(Push(r, ts[i]))
        /\ ToSet(Push(r, ts[i])) = Some(i)
    <3> HIDE DEF step, Some, P
    <3>1. ts[i] \in Targets
      BY <1>1
    <3>2. QED BY <2>1, <2>3, <3>1, PushAdds
  <2> HIDE DEF step, Some
  <2>5. QED BY <2>1, <2>2, <2>4
<1>4. PushAll(q, ts) = Fold(step, q, ts)
  BY DEF PushAll
<1> HIDE DEF step, P
<1>5. PushAll(q, ts) \in P[Len(ts)]
  BY <1>1, <1>2, <1>3, <1>4, FoldStays
<1>6. QED BY <1>1, <1>5 DEF P

-----------------------------------------------------------------------------
(* The order of dispatch. *)

\* The positions among the first n at which a sequence has kind k.
Positions(q, n, k) == {i \in 1..n : Kind[q[i]] = k}

LEMMA PositionsAreFinite ==
    ASSUME NEW q, NEW n \in Nat, NEW k
    PROVE  IsFiniteSet(Positions(q, n, k)) /\ OfKind(q, n, k) = Cardinality(Positions(q, n, k))
           /\ OfKind(q, n, k) \in Nat
<1>1. IsFiniteSet(1..n)
  BY FS_Interval
<1>2. IsFiniteSet(Positions(q, n, k))
  BY <1>1, FS_Subset DEF Positions
<1>3. QED BY <1>2, FS_CardinalityType DEF OfKind, Positions

\* Of two targets of one kind the later has the later round.
LEMMA LaterRound ==
    ASSUME NEW q, NEW j \in Nat, NEW i \in 1..(j - 1), Kind[q[i]] = Kind[q[j]]
    PROVE  Round(q, i) < Round(q, j)
<1> DEFINE k == Kind[q[j]]
<1>1. i \in Nat
  OBVIOUS
<1>2. /\ IsFiniteSet(Positions(q, j, k)) /\ Round(q, j) = Cardinality(Positions(q, j, k))
      /\ Round(q, i) = Cardinality(Positions(q, i, k))
      /\ Round(q, i) \in Nat /\ Round(q, j) \in Nat
  BY <1>1, PositionsAreFinite DEF Round
<1>3. Positions(q, i, k) \subseteq Positions(q, j, k)
  BY DEF Positions
<1>4. j \in Positions(q, j, k) /\ j \notin Positions(q, i, k)
  BY DEF Positions
<1> HIDE DEF k
<1>5. QED BY <1>2, <1>3, <1>4, FS_Subset

LEMMA FirstIs ==
    ASSUME NEW q, NEW i \in Nat \ {0}
    PROVE  First(q, i) \in 1..i /\ Kind[q[First(q, i)]] = Kind[q[i]]
<1> DEFINE Same == {j \in 1..i : Kind[q[j]] = Kind[q[i]]}
<1>1. PICK j \in Same : \A l \in Same : j <= l
  <2>1. i \in Same /\ Same \subseteq Nat
    OBVIOUS
  <2> HIDE DEF Same
  <2>2. QED BY <2>1, LeastExists
<1>2. \A k \in 1..(j - 1) : Kind[q[k]] # Kind[q[i]]
  <2>1. \A k \in 1..(j - 1) : k \in 1..i /\ ~(j <= k)
    BY <1>1
  <2>2. QED BY <1>1, <2>1
<1>3. QED BY <1>1, <1>2 DEF First

\* Before is a total order on the positions.
LEMMA BeforeOrders ==
    ASSUME NEW q \in Seq(Targets)
    PROVE  \A i, j, l \in 1..Len(q) :
               /\ Round(q, i) \in Nat /\ First(q, i) \in Nat
               /\ Before(q, i, i) /\ (Before(q, i, j) \/ Before(q, j, i))
               /\ Before(q, i, j) /\ Before(q, j, i) => i = j
               /\ Before(q, i, j) /\ Before(q, j, l) => Before(q, i, l)
<1>1. Len(q) \in Nat
  BY LenProperties
<1>2. \A i \in 1..Len(q) : Round(q, i) \in Nat /\ First(q, i) \in Nat
                           /\ Kind[q[First(q, i)]] = Kind[q[i]]
  <2> SUFFICES ASSUME NEW i \in 1..Len(q)
               PROVE  Round(q, i) \in Nat /\ First(q, i) \in Nat
                      /\ Kind[q[First(q, i)]] = Kind[q[i]]
    OBVIOUS
  <2>1. i \in Nat \ {0}
    BY <1>1
  <2>2. QED BY <2>1, FirstIs, PositionsAreFinite DEF Round
<1> SUFFICES ASSUME NEW i \in 1..Len(q), NEW j \in 1..Len(q), NEW l \in 1..Len(q)
             PROVE  /\ Before(q, i, i) /\ (Before(q, i, j) \/ Before(q, j, i))
                    /\ Before(q, i, j) /\ Before(q, j, i) => i = j
                    /\ Before(q, i, j) /\ Before(q, j, l) => Before(q, i, l)
  BY <1>2
<1>3. /\ Round(q, i) \in Nat /\ Round(q, j) \in Nat /\ Round(q, l) \in Nat
      /\ First(q, i) \in Nat /\ First(q, j) \in Nat /\ First(q, l) \in Nat
  BY <1>2
<1>4. ASSUME Before(q, i, j), Before(q, j, i) PROVE i = j
  <2>1. Round(q, i) = Round(q, j) /\ First(q, i) = First(q, j)
    BY <1>3, <1>4 DEF Before
  <2>2. Kind[q[i]] = Kind[q[j]]
    BY <1>2, <2>1
  <2>3. CASE i < j
    <3>1. i \in 1..(j - 1) /\ j \in Nat
      BY <1>1, <2>3
    <3>2. QED BY <1>3, <2>1, <2>2, <3>1, LaterRound
  <2>4. CASE j < i
    <3>1. j \in 1..(i - 1) /\ i \in Nat
      BY <1>1, <2>4
    <3>2. QED BY <1>3, <2>1, <2>2, <3>1, LaterRound
  <2>5. QED BY <1>1, <2>3, <2>4
<1>5. QED BY <1>3, <1>4 DEF Before

\* So every position has its own place, and every place a position.
LEMMA PlacesOrder ==
    ASSUME NEW q \in Seq(Targets)
    PROVE  \A i, j \in 1..Len(q) :
               /\ Place(q, j) \in 1..Len(q)
               /\ Before(q, i, j) /\ i # j => Place(q, i) < Place(q, j)
               /\ Place(q, i) = Place(q, j) => i = j
<1> DEFINE Upto(j) == {i \in 1..Len(q) : Before(q, i, j)}
<1>1. Len(q) \in Nat /\ IsFiniteSet(1..Len(q)) /\ Cardinality(1..Len(q)) = Len(q)
  <2>1. Len(q) \in Nat /\ 1 \in Int /\ Len(q) \in Int
    BY LenProperties
  <2>2. /\ IsFiniteSet(1..Len(q))
        /\ Cardinality(1..Len(q)) = IF 1 > Len(q) THEN 0 ELSE Len(q) - 1 + 1
    BY <2>1, FS_Interval
  <2>3. QED BY <2>1, <2>2
<1>2. ASSUME NEW j \in 1..Len(q)
      PROVE  /\ IsFiniteSet(Upto(j)) /\ Place(q, j) = Cardinality(Upto(j)) /\ j \in Upto(j)
             /\ Place(q, j) \in 1..Len(q)
  <2>1. /\ Place(q, j) = Cardinality(Upto(j)) /\ j \in Upto(j)
        /\ Upto(j) \in SUBSET (1..Len(q))
    BY BeforeOrders DEF Place
  <2> HIDE DEF Upto
  <2>2. IsFiniteSet(Upto(j)) /\ Cardinality(Upto(j)) <= Len(q) /\ Cardinality(Upto(j)) \in Nat
    BY <1>1, <2>1, FS_Subset, FS_CardinalityType
  <2>3. Cardinality(Upto(j)) # 0
    BY <2>1, <2>2, FS_EmptySet
  <2>4. QED BY <1>1, <2>1, <2>2, <2>3
<1>3. ASSUME NEW i \in 1..Len(q), NEW j \in 1..Len(q), Before(q, i, j), i # j
      PROVE  Place(q, i) < Place(q, j)
  <2>1. Upto(i) \subseteq Upto(j) /\ j \notin Upto(i)
    BY <1>3, BeforeOrders
  <2>2. Upto(i) \in SUBSET Upto(j) /\ Upto(i) # Upto(j)
    BY <1>2, <2>1
  <2> HIDE DEF Upto
  <2>3. /\ Cardinality(Upto(i)) <= Cardinality(Upto(j))
        /\ Cardinality(Upto(i)) # Cardinality(Upto(j))
    BY <1>2, <2>2, FS_Subset
  <2>4. QED BY <1>1, <1>2, <2>3
<1>4. ASSUME NEW i \in 1..Len(q), NEW j \in 1..Len(q), Place(q, i) = Place(q, j)
      PROVE  i = j
  <2>1. Place(q, i) \in 1..Len(q) /\ Place(q, j) \in 1..Len(q)
    BY <1>2
  <2>2. Before(q, i, j) \/ Before(q, j, i)
    BY BeforeOrders
  <2>3. QED BY <1>1, <1>3, <1>4, <2>1, <2>2
<1>5. QED BY <1>2, <1>3, <1>4

\* What IntoQueue takes the n-th target from.
At(q, n) == CHOOSE j \in 1..Len(q) : Place(q, j) = n

LEMMA PlacesTaken ==
    ASSUME NEW q \in Seq(Targets), NEW n \in 1..Len(q)
    PROVE  At(q, n) \in 1..Len(q) /\ Place(q, At(q, n)) = n
<1> DEFINE S == 1..Len(q)
           f == [j \in S |-> Place(q, j)]
<1>1. IsFiniteSet(S) /\ Len(q) \in Nat
  BY LenProperties, FS_Interval
<1>2. f \in Injection(S, S)
  <2>1. \A i, j \in S : Place(q, j) \in S /\ (Place(q, i) = Place(q, j) => i = j)
    BY PlacesOrder
  <2>2. f \in [S -> S] /\ \A j \in S : f[j] = Place(q, j)
    BY <2>1
  <2> HIDE DEF f, S
  <2>3. QED BY <2>1, <2>2 DEF Injection, IsInjective
<1>3. f \in Surjection(S, S)
  <2> HIDE DEF f, S
  <2>1. QED BY <1>1, <1>2, FS_Injection
<1>4. \E j \in S : Place(q, j) = n
  <2>1. \E j \in S : f[j] = n
    <3> HIDE DEF f
    <3>1. QED BY <1>3 DEF Surjection
  <2>2. QED BY <2>1
<1>5. QED BY <1>4 DEF At

\* into_queue loses nothing and adds nothing.
LEMMA IntoQueueKeeps ==
    ASSUME NEW q \in Seq(Targets)
    PROVE  /\ IntoQueue(q) \in Seq(Targets) /\ Len(IntoQueue(q)) = Len(q)
           /\ ToSet(IntoQueue(q)) = ToSet(q)
           /\ \A n \in 1..Len(q) : IntoQueue(q)[n] = q[At(q, n)]
           /\ \A j \in 1..Len(q) : IntoQueue(q)[Place(q, j)] = q[j]
<1> DEFINE r == IntoQueue(q)
<1>1. /\ Len(q) \in Nat /\ DOMAIN q = 1..Len(q)
      /\ \A j \in 1..Len(q) : q[j] \in Targets
  BY LenProperties, ElementOfSeq
<1>2. r = [n \in 1..Len(q) |-> q[At(q, n)]]
  BY DEF IntoQueue, At
<1>3. \A n \in 1..Len(q) : At(q, n) \in 1..Len(q) /\ Place(q, At(q, n)) = n
  BY PlacesTaken
<1>4. \A j \in 1..Len(q) : Place(q, j) \in 1..Len(q) /\ At(q, Place(q, j)) = j
  <2> SUFFICES ASSUME NEW j \in 1..Len(q)
               PROVE  Place(q, j) \in 1..Len(q) /\ At(q, Place(q, j)) = j
    OBVIOUS
  <2>1. Place(q, j) \in 1..Len(q)
    BY PlacesOrder
  <2>2. At(q, Place(q, j)) \in 1..Len(q) /\ Place(q, At(q, Place(q, j))) = Place(q, j)
    BY <1>3, <2>1
  <2>3. QED BY <2>1, <2>2, PlacesOrder
<1> HIDE DEF r
<1>5. r \in [1..Len(q) -> Targets]
  BY <1>1, <1>2, <1>3
<1>6. r \in Seq(Targets) /\ Len(r) = Len(q) /\ DOMAIN r = 1..Len(q)
  BY <1>1, <1>5
<1>7. \A n \in 1..Len(q) : r[n] = q[At(q, n)]
  BY <1>2
<1>8. \A j \in 1..Len(q) : r[Place(q, j)] = q[j]
  BY <1>4, <1>7
<1>9. ToSet(r) = ToSet(q)
  BY <1>1, <1>3, <1>4, <1>6, <1>7, <1>8 DEF ToSet
<1>10. QED BY <1>6, <1>7, <1>8, <1>9 DEF r

\* The first n of the queue are the positions with the first n places.
Taking(q, n, k) == {j \in 1..Len(q) : Place(q, j) <= n /\ Kind[q[j]] = k}

LEMMA TakingCounts ==
    ASSUME NEW q \in Seq(Targets), NEW n \in 0..Len(q), NEW k
    PROVE  /\ IsFiniteSet(Taking(q, n, k)) /\ Cardinality(Taking(q, n, k)) \in Nat
           /\ OfKind(IntoQueue(q), n, k) = Cardinality(Taking(q, n, k))
<1> DEFINE S == Taking(q, n, k)
           T == Positions(IntoQueue(q), n, k)
           f == [j \in S |-> Place(q, j)]
<1>1. Len(q) \in Nat /\ n \in Nat /\ \A m \in 1..n : m \in 1..Len(q)
  BY LenProperties
<1>2. IsFiniteSet(T) /\ OfKind(IntoQueue(q), n, k) = Cardinality(T)
  BY <1>1, PositionsAreFinite
<1>3. \A j \in S : /\ j \in 1..Len(q) /\ Place(q, j) \in T
                   /\ f[j] = Place(q, j)
  <2> SUFFICES ASSUME NEW j \in S PROVE j \in 1..Len(q) /\ Place(q, j) \in T
    OBVIOUS
  <2>1. j \in 1..Len(q) /\ Place(q, j) <= n /\ Kind[q[j]] = k
    BY DEF Taking
  <2>2. Place(q, j) \in 1..Len(q) /\ IntoQueue(q)[Place(q, j)] = q[j]
    BY <2>1, PlacesOrder, IntoQueueKeeps
  <2>3. Place(q, j) \in 1..n
    BY <1>1, <2>1, <2>2
  <2>4. QED BY <2>1, <2>2, <2>3 DEF Positions
<1>4. \A m \in T : \E j \in S : f[j] = m
  <2> SUFFICES ASSUME NEW m \in T PROVE \E j \in S : f[j] = m
    OBVIOUS
  <2>1. m \in 1..n /\ m \in 1..Len(q) /\ Kind[IntoQueue(q)[m]] = k
    BY <1>1 DEF Positions
  <2>2. /\ At(q, m) \in 1..Len(q) /\ Place(q, At(q, m)) = m
        /\ IntoQueue(q)[m] = q[At(q, m)]
    BY <2>1, PlacesTaken, IntoQueueKeeps
  <2>3. At(q, m) \in S
    BY <1>1, <2>1, <2>2 DEF Taking
  <2>4. QED BY <1>3, <2>2, <2>3
<1>5. f \in [S -> T]
  BY <1>3
<1> HIDE DEF f
<1>6. f \in Injection(S, T)
  <2>1. \A i, j \in S : f[i] = f[j] => i = j
    BY <1>3, PlacesOrder
  <2> HIDE DEF S, T
  <2>2. QED BY <1>5, <2>1 DEF Injection, IsInjective
<1>7. f \in Surjection(S, T)
  <2> HIDE DEF S, T
  <2>1. QED BY <1>4, <1>5 DEF Surjection
<1>8. IsFiniteSet(S) /\ Cardinality(S) = Cardinality(T)
  <2> HIDE DEF S, T
  <2>1. QED BY <1>2, <1>6, <1>7, FS_Injection
<1>9. QED BY <1>2, <1>8, FS_CardinalityType

\* All of a kind are taken by the end.
LEMMA WholeQueue ==
    ASSUME NEW q \in Seq(Targets), NEW k
    PROVE  OfKind(IntoQueue(q), Len(q), k) = OfKind(q, Len(q), k)
<1>1. Len(q) \in Nat /\ Len(q) \in 0..Len(q)
  BY LenProperties
<1>2. Taking(q, Len(q), k) = Positions(q, Len(q), k)
  BY <1>1, PlacesOrder DEF Taking, Positions
<1>3. QED BY <1>1, <1>2, TakingCounts, PositionsAreFinite

\* While a kind has targets left, no other has had two turns more.
LEMMA TurnsAreTaken ==
    ASSUME NEW q \in Seq(Targets), NEW n \in 1..Len(q), NEW k, NEW l,
           OfKind(IntoQueue(q), n, k) < OfKind(q, Len(q), k)
    PROVE  OfKind(IntoQueue(q), n, l) <= OfKind(IntoQueue(q), n, k) + 1
<1> DEFINE K == Taking(q, n, k)
           L == Taking(q, n, l)
           Left == Positions(q, Len(q), k) \ K
<1>1. Len(q) \in Nat /\ n \in 0..Len(q)
  BY LenProperties
<1>2. /\ IsFiniteSet(K) /\ IsFiniteSet(L)
      /\ Cardinality(K) \in Nat /\ Cardinality(L) \in Nat
      /\ OfKind(IntoQueue(q), n, k) = Cardinality(K)
      /\ OfKind(IntoQueue(q), n, l) = Cardinality(L)
  BY <1>1, TakingCounts
<1>3. /\ IsFiniteSet(Positions(q, Len(q), k))
      /\ OfKind(q, Len(q), k) = Cardinality(Positions(q, Len(q), k))
      /\ OfKind(q, Len(q), k) \in Nat
  BY <1>1, PositionsAreFinite
<1>4. Left # {}
  <2> SUFFICES ASSUME Positions(q, Len(q), k) \in SUBSET K PROVE FALSE
    OBVIOUS
  <2> HIDE DEF K
  <2>1. Cardinality(Positions(q, Len(q), k)) <= Cardinality(K)
    BY <1>2, FS_Subset
  <2>2. QED BY <1>2, <1>3, <2>1
<1>5. PICK x \in Left : \A y \in Left : x <= y
  <2>1. Left \subseteq Nat
    BY <1>1 DEF Positions
  <2> HIDE DEF Left
  <2>2. QED BY <1>4, <2>1, LeastExists
<1>6. x \in 1..Len(q) /\ Kind[q[x]] = k /\ ~(Place(q, x) <= n) /\ x \in Nat
  BY <1>1, <1>5 DEF Positions, Taking
\* Those of its kind before x are taken.
<1>7. Round(q, x) <= Cardinality(K) + 1
  <2>1. Positions(q, x, k) \in SUBSET (K \cup {x})
    <3> SUFFICES ASSUME NEW j \in Positions(q, x, k), j # x PROVE j \in K
      OBVIOUS
    <3>1. j \in 1..Len(q) /\ Kind[q[j]] = k /\ ~(x <= j)
      BY <1>1, <1>6 DEF Positions
    <3>2. j \in Positions(q, Len(q), k)
      BY <3>1 DEF Positions
    <3>3. QED BY <1>5, <3>1, <3>2
  <2> HIDE DEF K
  <2>2. /\ IsFiniteSet(K \cup {x}) /\ Cardinality(K \cup {x}) \in Nat
        /\ Cardinality(K \cup {x}) <= Cardinality(K) + 1
    <3>1. /\ IsFiniteSet(K \cup {x})
          /\ Cardinality(K \cup {x}) = IF x \in K THEN Cardinality(K) ELSE Cardinality(K) + 1
      BY <1>2, FS_AddElement
    <3>2. QED BY <1>2, <3>1
  <2>3. Cardinality(Positions(q, x, k)) <= Cardinality(K \cup {x})
    BY <2>1, <2>2, FS_Subset
  <2>4. Round(q, x) = Cardinality(Positions(q, x, k)) /\ Round(q, x) \in Nat
    BY <1>6, PositionsAreFinite DEF Round
  <2>5. QED BY <1>2, <2>2, <2>3, <2>4
\* Nothing taken has a later round than x.
<1>8. ASSUME NEW y \in L PROVE Round(q, y) <= Round(q, x)
  <2>1. y \in 1..Len(q) /\ Place(q, y) <= n
    BY DEF Taking
  <2>2. /\ Place(q, y) \in 1..Len(q) /\ Place(q, x) \in 1..Len(q)
        /\ Round(q, x) \in Nat /\ Round(q, y) \in Nat
        /\ Before(q, x, y) /\ x # y => Place(q, x) < Place(q, y)
    BY <1>6, <2>1, PlacesOrder, BeforeOrders
  <2>3. ~Before(q, x, y)
    BY <1>1, <1>6, <2>1, <2>2
  <2>4. QED BY <2>2, <2>3 DEF Before
<1>9. CASE L = {}
  <2> HIDE DEF K, L
  <2>1. Cardinality(L) = 0
    BY <1>9, FS_EmptySet
  <2>2. QED BY <1>2, <2>1
<1>10. CASE L # {}
  \* The last of them in q is in a round as late as they are many.
  <2> DEFINE Back == {Len(q) - y : y \in L}
  <2>1. PICK y \in L : \A z \in L : z <= y
    <3>1. Back \subseteq Nat /\ Back # {}
      BY <1>1, <1>10 DEF Taking
    <3>2. PICK b \in Back : \A c \in Back : b <= c
      <4> HIDE DEF Back
      <4>1. QED BY <3>1, LeastExists
    <3>3. PICK y \in L : b = Len(q) - y
      OBVIOUS
    <3>4. \A z \in L : Len(q) - y <= Len(q) - z
      BY <3>2, <3>3
    <3>5. \A z \in L : z \in 1..Len(q)
      BY DEF Taking
    <3>6. QED BY <1>1, <3>4, <3>5
  <2>2. y \in 1..Len(q) /\ Kind[q[y]] = l /\ y \in Nat
    BY <1>1 DEF Taking
  <2>3. L \in SUBSET Positions(q, y, l)
    BY <1>1, <2>1, <2>2 DEF Taking, Positions
  <2> HIDE DEF K, L
  <2>4. /\ IsFiniteSet(Positions(q, y, l)) /\ Round(q, y) = Cardinality(Positions(q, y, l))
        /\ Round(q, y) \in Nat
    BY <2>2, PositionsAreFinite DEF Round
  <2>5. Cardinality(L) <= Round(q, y)
    BY <2>3, <2>4, FS_Subset
  <2>6. Round(q, y) <= Round(q, x) /\ Round(q, x) \in Nat
    BY <1>6, <1>8, BeforeOrders
  <2>7. QED BY <1>2, <1>7, <2>4, <2>5, <2>6
<1>11. QED BY <1>9, <1>10

-----------------------------------------------------------------------------
(* The inductive invariant. *)

Wave == ToSet(batch)

\* Where the crawl can be with what: a wave only while it is chosen and reduced, a next
\* frontier only inside a generation, and nothing left of a generation that was stopped.
Phase ==
    /\ pc \notin {"generation", "done"} => generation <= max_generations
    /\ pc \in {"generation", "take", "after", "done"} => batch = <<>>
    /\ pc \in {"generation", "done"} => next = <<>>
    /\ pc \notin {"generation", "done"} /\ stopped => queue = <<>>
    /\ pc = "done" => (max_depth <=> queue # <<>> /\ ~stopped)

\* What was dispatched and what is in the wave is apart and was visited, and until a
\* stop nothing else was; each is paid for from the budget.
WaveOK ==
    /\ Dispatched \cap Wave = {}
    /\ Dispatched \cup Wave \subseteq visited
    /\ ~stopped => visited = Dispatched \cup Wave
    /\ dispatches = Cardinality(Dispatched)
    /\ dispatches + Len(batch) <= max_dispatches

\* progressed() has seen all but the wave that is under way.
LossOK ==
    /\ saved \subseteq Dispatched
    /\ pc \in {"generation", "take", "fill", "done"} => saved = Dispatched
    /\ Cardinality(Dispatched \ saved) + Len(batch) <= MAX_BATCH

\* What is still held: dispatched, in the wave, or in a frontier.
Held == Dispatched \cup Wave \cup ToSet(queue) \cup ToSet(next)

\* Nothing that was wanted is gone but what was refused, and nothing is held that was not
\* wanted; a target marked visited is held; whatever is cut short is on record.
KeptOK ==
    /\ wanted \subseteq Held \cup refused
    /\ Held \subseteq wanted
    /\ visited \subseteq Held
    /\ refused # {} => resource_limited
    /\ stopped => cancelled \/ resource_limited

\* Until a stop no kind takes more than half of the next frontier.
HalfEach(q) == \A t \in Targets : OfKind(q, Len(q), Kind[t]) <= Half(max_frontier_per_generation)

KindsOK == ~stopped => HalfEach(next)

Inv == TypeOK /\ Phase /\ WaveOK /\ LossOK /\ KeptOK /\ KindsOK /\ KindsInTurn

LEMMA Parameters ==
    /\ MAX_BATCH \in Nat \ {0} /\ max_generations \in Nat /\ max_dispatches \in Nat
    /\ max_entities \in Nat /\ max_frontier_per_generation \in Nat /\ MaxFound \in Nat
    /\ IsFiniteSet(Targets) /\ IsFiniteSet(Entities)
    /\ \A e \in Entities : Expands[e] \in Seq(Targets)
    /\ \A s \in Seeds : s \in Seq(Targets)
BY CrawlParameters

LEMMA HalfIsNatural == Half(max_frontier_per_generation) \in Nat \ {0}
BY Parameters DEF Half

\* The types of an invariant state, and which of its sets are finite.
LEMMA Types ==
    ASSUME TypeOK
    PROVE  /\ queue \in Seq(Targets) /\ next \in Seq(Targets) /\ batch \in Seq(Targets)
           /\ Len(batch) \in Nat /\ dispatches \in Nat
           /\ Dispatched \subseteq Targets /\ IsFiniteSet(Dispatched)
           /\ Cardinality(Dispatched) \in Nat
<1>1. IsFiniteSet(Targets) /\ Dispatched \in SUBSET Targets
  BY Parameters DEF TypeOK
<1>2. IsFiniteSet(Dispatched)
  BY <1>1, FS_Subset
<1>3. QED BY <1>1, <1>2, FS_CardinalityType, LenProperties DEF TypeOK

-----------------------------------------------------------------------------
(* take_step. *)

\* Appending a target adds one to the count of its kind.
LEMMA KindAppended ==
    ASSUME NEW q \in Seq(Targets), NEW t \in Targets, NEW k
    PROVE  /\ OfKind(Append(q, t), Len(q) + 1, k) <= OfKind(q, Len(q), k) + 1
           /\ Kind[t] # k => OfKind(Append(q, t), Len(q) + 1, k) = OfKind(q, Len(q), k)
<1> DEFINE n == Len(q)
           Old == Positions(q, n, k)
           New == Positions(Append(q, t), n + 1, k)
<1>1. /\ n \in Nat /\ n + 1 \in Nat
      /\ \A i \in 1..n : Append(q, t)[i] = q[i]
      /\ Append(q, t)[n + 1] = t
  BY AppendProperties, LenProperties
<1>2. \A i \in 1..(n + 1) : i \in 1..n \/ i = n + 1
  BY <1>1
<1>3. \A i \in 1..n : i \in 1..(n + 1)
  BY <1>1
<1>4. /\ IsFiniteSet(Old) /\ Cardinality(Old) \in Nat /\ OfKind(q, n, k) = Cardinality(Old)
      /\ IsFiniteSet(New) /\ Cardinality(New) \in Nat
      /\ OfKind(Append(q, t), n + 1, k) = Cardinality(New)
  BY <1>1, PositionsAreFinite
<1>5. New \subseteq Old \cup {n + 1}
  BY <1>1, <1>2 DEF Positions
<1>6. Kind[t] # k => New = Old
  BY <1>1, <1>2, <1>3 DEF Positions
<1> HIDE DEF Old, New
<1>7. /\ IsFiniteSet(Old \cup {n + 1})
      /\ Cardinality(Old \cup {n + 1})
         = IF n + 1 \in Old THEN Cardinality(Old) ELSE Cardinality(Old) + 1
  BY <1>4, FS_AddElement
<1>8. New \in SUBSET (Old \cup {n + 1})
  BY <1>5
<1>9. Cardinality(New) <= Cardinality(Old \cup {n + 1})
  BY <1>7, <1>8, FS_Subset
<1> HIDE DEF n
<1>10. QED BY <1>4, <1>6, <1>7, <1>9 DEF n

\* What take_step may have made of the frontier and the entities at any point of its loops.
TakenOK(r) ==
    /\ IsInjective(r.next)
    /\ ToSet(next) \subseteq ToSet(r.next) /\ ToSet(r.next) \subseteq r.wanted
    /\ refused \subseteq r.refused /\ r.refused \subseteq r.wanted
    /\ wanted \subseteq r.wanted
    /\ r.wanted \ wanted \subseteq visited \cup ToSet(r.next) \cup r.refused
    /\ r.refused # {} => r.limited
    /\ resource_limited => r.limited
    /\ ~stopped => HalfEach(r.next)

TakenStates == {r \in Taken : TakenOK(r)}

\* A frontier with room for the target's kind keeps to the halves when it is appended.
LEMMA RoomIsHalf ==
    ASSUME NEW q \in Seq(Targets), HalfEach(q), NEW t \in Targets, ~FullFor(q, t)
    PROVE  HalfEach(Append(q, t))
<1> SUFFICES ASSUME NEW u \in Targets
             PROVE  OfKind(Append(q, t), Len(Append(q, t)), Kind[u])
                    <= Half(max_frontier_per_generation)
  BY DEF HalfEach
<1>1. Len(Append(q, t)) = Len(q) + 1 /\ Len(q) \in Nat /\ Len(q) + 1 \in Nat
  BY AppendProperties, LenProperties
<1>2. /\ OfKind(Append(q, t), Len(q) + 1, Kind[u]) <= OfKind(q, Len(q), Kind[u]) + 1
      /\ Kind[t] # Kind[u]
         => OfKind(Append(q, t), Len(q) + 1, Kind[u]) = OfKind(q, Len(q), Kind[u])
  BY KindAppended
<1>3. /\ OfKind(q, Len(q), Kind[u]) \in Nat
      /\ OfKind(Append(q, t), Len(q) + 1, Kind[u]) \in Nat
  BY <1>1, PositionsAreFinite
<1>4. OfKind(q, Len(q), Kind[u]) <= Half(max_frontier_per_generation)
  BY DEF HalfEach
<1>5. ~(OfKind(q, Len(q), Kind[t]) >= Half(max_frontier_per_generation))
  BY DEF FullFor
<1>6. CASE Kind[t] = Kind[u]
  <2>1. ~(OfKind(q, Len(q), Kind[u]) >= Half(max_frontier_per_generation))
    BY <1>5, <1>6
  <2>2. QED BY <1>1, <1>2, <1>3, <2>1, HalfIsNatural
<1>7. CASE Kind[t] # Kind[u]
  BY <1>1, <1>2, <1>4, <1>7
<1>8. QED BY <1>6, <1>7

\* One candidate of queue_expansions.
LEMMA QueueExpansionKeeps ==
    ASSUME NEW r \in TakenStates, NEW t \in Targets
    PROVE  QueueExpansion(r, t) \in TakenStates
<1> DEFINE seen == [r EXCEPT !.wanted = @ \cup {t}]
<1>1. /\ r \in Taken /\ TakenOK(r) /\ r.next \in Seq(Targets)
      /\ r.wanted \subseteq Targets /\ r.refused \subseteq Targets
  BY DEF TakenStates, Taken
<1>2. /\ seen \in Taken /\ seen.next = r.next /\ seen.limited = r.limited
      /\ seen.refused = r.refused /\ seen.wanted = r.wanted \cup {t}
  BY <1>1 DEF Taken
<1> HIDE DEF seen
<1>3. CASE t \in visited \/ Contains(r.next, t)
  <2>1. QueueExpansion(r, t) = seen
    BY <1>3 DEF QueueExpansion, seen
  <2>2. t \in visited \cup ToSet(r.next)
    BY <1>1, <1>3, SetOf
  <2>3. TakenOK(seen)
    BY <1>1, <1>2, <2>2 DEF TakenOK
  <2>4. QED BY <1>2, <2>1, <2>3 DEF TakenStates
<1>4. CASE ~(t \in visited \/ Contains(r.next, t)) /\ FullFor(r.next, t)
  <2> DEFINE full == [seen EXCEPT !.limited = TRUE, !.refused = @ \cup {t}]
  <2>1. QueueExpansion(r, t) = full
    BY <1>4 DEF QueueExpansion, seen
  <2>2. /\ full \in Taken /\ full.next = r.next /\ full.limited = TRUE
        /\ full.refused = r.refused \cup {t} /\ full.wanted = r.wanted \cup {t}
    BY <1>1, <1>2 DEF Taken
  <2> HIDE DEF full
  <2>3. TakenOK(full)
    BY <1>1, <2>2 DEF TakenOK
  <2>4. QED BY <2>1, <2>2, <2>3 DEF TakenStates
<1>5. CASE ~(t \in visited \/ Contains(r.next, t)) /\ ~FullFor(r.next, t)
  <2> DEFINE more == [seen EXCEPT !.next = Append(@, t)]
  <2>1. QueueExpansion(r, t) = more
    BY <1>5 DEF QueueExpansion, seen
  <2>2. /\ Append(r.next, t) \in Seq(Targets) /\ t \notin ToSet(r.next)
        /\ ToSet(Append(r.next, t)) = ToSet(r.next) \cup {t}
        /\ IsInjective(Append(r.next, t))
    BY <1>1, <1>5, AppendAdds, SetOf DEF TakenOK
  <2>3. /\ more \in Taken /\ more.next = Append(r.next, t) /\ more.limited = r.limited
        /\ more.refused = r.refused /\ more.wanted = r.wanted \cup {t}
    BY <1>1, <1>2, <2>2 DEF Taken
  <2> HIDE DEF more
  <2>4. ~stopped => HalfEach(Append(r.next, t))
    BY <1>1, <1>5, RoomIsHalf DEF TakenOK
  <2>5. TakenOK(more)
    BY <1>1, <2>2, <2>3, <2>4 DEF TakenOK
  <2>6. QED BY <2>1, <2>3, <2>5 DEF TakenStates
<1>6. QED BY <1>3, <1>4, <1>5

\* One entity: its candidates, then whether it is kept.
LEMMA TakeEntityKeeps ==
    ASSUME NEW r \in TakenStates, NEW e \in Entities, NEW t
    PROVE  TakeEntity(r, e, t) \in TakenStates
<1> DEFINE step == [u \in Targets |-> [x \in Taken |-> QueueExpansion(x, u)]]
           ts == Expands[e]
           P == [i \in 0..Len(ts) |-> TakenStates]
           queued == Fold(step, r, ts)
<1>1. ts \in Seq(Targets) /\ Len(ts) \in Nat /\ \A i \in 1..Len(ts) : ts[i] \in Targets
  BY Parameters, LenProperties, ElementOfSeq
<1> HIDE DEF ts
<1>2. r \in P[0]
  BY <1>1
<1>3. ASSUME NEW i \in 1..Len(ts), NEW x \in P[i - 1] PROVE step[ts[i]][x] \in P[i]
  <2>1. x \in TakenStates /\ ts[i] \in Targets /\ P[i] = TakenStates
    BY <1>1, <1>3
  <2>2. x \in Taken
    BY <2>1 DEF TakenStates
  <2>3. step[ts[i]][x] = QueueExpansion(x, ts[i])
    BY <2>1, <2>2
  <2> HIDE DEF step, P
  <2>4. QED BY <2>1, <2>3, QueueExpansionKeeps
<1>4. queued \in TakenStates
  <2> HIDE DEF step, P
  <2>1. queued \in P[Len(ts)]
    BY <1>1, <1>2, <1>3, FoldStays
  <2>2. QED BY <1>1, <2>1 DEF P
<1>5. TakeEntity(r, e, t) = IF KeepEntity(t, e) THEN [queued EXCEPT !.fresh = Append(@, e)]
                                                ELSE queued
  BY DEF TakeEntity, ts
<1> HIDE DEF queued
<1>6. [queued EXCEPT !.fresh = Append(@, e)] \in TakenStates
  <2> DEFINE kept == [queued EXCEPT !.fresh = Append(@, e)]
  <2>1. queued \in Taken /\ queued.fresh \in Seq(Entities) /\ TakenOK(queued)
    BY <1>4 DEF TakenStates, Taken
  <2>2. Append(queued.fresh, e) \in Seq(Entities)
    BY <2>1, AppendProperties
  <2>3. /\ kept \in Taken /\ kept.next = queued.next /\ kept.limited = queued.limited
        /\ kept.refused = queued.refused /\ kept.wanted = queued.wanted
    BY <2>1, <2>2 DEF Taken
  <2> HIDE DEF kept
  <2>4. TakenOK(kept)
    BY <2>1, <2>3 DEF TakenOK
  <2>5. kept \in TakenStates
    BY <2>3, <2>4 DEF TakenStates
  <2>6. QED BY <2>5 DEF kept
<1>7. QED BY <1>4, <1>5, <1>6

\* All entities of a lookup.
LEMMA EntitiesKeep ==
    ASSUME NEW r \in TakenStates, NEW entities \in Answers, NEW t
    PROVE  Fold([e \in Entities |-> [x \in Taken |-> TakeEntity(x, e, t)]], r, entities)
           \in TakenStates
<1> DEFINE step == [e \in Entities |-> [x \in Taken |-> TakeEntity(x, e, t)]]
           P == [i \in 0..Len(entities) |-> TakenStates]
<1>1. Len(entities) \in Nat /\ \A i \in 1..Len(entities) : entities[i] \in Entities
  <2>1. PICK n \in 0..MaxFound : entities \in [1..n -> Entities]
    BY DEF Answers
  <2>2. entities \in Seq(Entities)
    BY <2>1, Parameters
  <2>3. QED BY <2>2, LenProperties, ElementOfSeq
<1>2. r \in P[0]
  BY <1>1
<1>3. ASSUME NEW i \in 1..Len(entities), NEW x \in P[i - 1] PROVE step[entities[i]][x] \in P[i]
  <2>1. x \in TakenStates /\ entities[i] \in Entities /\ P[i] = TakenStates
    BY <1>1, <1>3
  <2>2. x \in Taken
    BY <2>1 DEF TakenStates
  <2>3. step[entities[i]][x] = TakeEntity(x, entities[i], t)
    BY <2>1, <2>2
  <2> HIDE DEF step, P
  <2>4. QED BY <2>1, <2>3, TakeEntityKeeps
<1>4. Fold(step, r, entities) \in TakenStates
  <2> HIDE DEF step, P
  <2>1. Fold(step, r, entities) \in P[Len(entities)]
    BY <1>1, <1>2, <1>3, FoldStays
  <2>2. QED BY <1>1, <2>1 DEF P
<1>5. QED BY <1>4 DEF step

-----------------------------------------------------------------------------
(* The steps. *)

\* A crawl starts with its seeds queued, each once.
LEMMA InitInv == Init => Inv
<1> SUFFICES ASSUME Init PROVE Inv
  OBVIOUS
<1>1. PICK seeds \in Seeds : queue = IntoQueue(PushAll(<<>>, seeds)) /\ wanted = ToSet(seeds)
  BY DEF Init
<1>2. /\ <<>> \in Seq(Targets) /\ Len(<<>>) = 0 /\ ToSet(<<>>) = {} /\ IsInjective(<<>>)
      /\ seeds \in Seq(Targets) /\ <<>> \in Seq(Entities)
  BY EmptySeq, EmptyIsInjective, Parameters
<1>3. queue \in Seq(Targets) /\ ToSet(queue) = wanted /\ wanted \subseteq Targets
  <2>1. /\ PushAll(<<>>, seeds) \in Seq(Targets)
        /\ ToSet(PushAll(<<>>, seeds)) = ToSet(<<>>) \cup ToSet(seeds)
    BY <1>2, PushAllAdds
  <2>2. ToSet(seeds) \subseteq Targets
    BY <1>2, SetOf
  <2>3. QED BY <1>1, <1>2, <2>1, <2>2, IntoQueueKeeps
<1>4. /\ Dispatched = {} /\ Range(outcomes) = {} /\ Wave = {} /\ ToSet(next) = {}
      /\ Cardinality(Dispatched) = 0 /\ Cardinality(Dispatched \ saved) = 0
  <2>1. DOMAIN outcomes = {}
    BY DEF Init
  <2>2. QED BY <1>2, <2>1, FS_EmptySet DEF Init, Dispatched, Range, Wave
<1>5. TypeOK
  <2>1. generation \in 0..max_generations + 1 /\ returned \in 0..MAX_BATCH + 1
        /\ Len(batch) <= MAX_BATCH /\ dispatches \in Nat
    BY <1>2, Parameters DEF Init
  <2>2. /\ {queue, next, batch} \subseteq Seq(Targets) /\ IsInjective(next)
        /\ IsInjective(batch) /\ fresh \in Seq(Entities)
    BY <1>2, <1>3 DEF Init
  <2>3. Dispatched \subseteq Targets /\ Range(outcomes) \subseteq {"returned", "inconclusive"}
    BY <1>4
  <2>4. QED BY <1>3, <2>1, <2>2, <2>3 DEF Init, TypeOK, Reasons
<1>6. Phase /\ WaveOK /\ LossOK /\ KeptOK
  BY <1>2, <1>3, <1>4, Parameters DEF Init, Phase, WaveOK, LossOK, KeptOK, Held
<1>7. KindsOK
  <2> SUFFICES ASSUME NEW t \in Targets
               PROVE  OfKind(<<>>, Len(<<>>), Kind[t]) <= Half(max_frontier_per_generation)
    BY DEF Init, KindsOK, HalfEach
  <2>1. Positions(<<>>, 0, Kind[t]) = {}
    BY DEF Positions
  <2>2. OfKind(<<>>, 0, Kind[t]) = 0
    BY <2>1, PositionsAreFinite, FS_EmptySet
  <2>3. QED BY <1>2, <2>2, HalfIsNatural
<1>8. KindsInTurn
  BY DEF Init, KindsInTurn
<1>9. QED BY <1>5, <1>6, <1>7, <1>8 DEF Inv

\* A generation that is cut short: what it had left goes on in the next frontier, the
\* target marked visited with it.
LEMMA RestKeeps ==
    ASSUME Inv, KeepRest(queue), pc \in {"take", "fill", "after"},
           pc' \in {"take", "fill"}, pc = "fill" <=> pc' = "fill",
           visited \subseteq visited', visited' \subseteq visited \cup ToSet(queue),
           cancelled' \in BOOLEAN, resource_limited' \in BOOLEAN,
           cancelled' \/ resource_limited', resource_limited => resource_limited',
           saved' = IF pc = "after" THEN Dispatched ELSE saved,
           UNCHANGED <<generation, batch, returned, found, dispatches, max_depth, outcomes,
                       termination, asked, history>>
    PROVE  Inv'
<1>1. /\ TypeOK /\ queue \in Seq(Targets) /\ next \in Seq(Targets) /\ IsInjective(next)
      /\ IsFiniteSet(Dispatched) /\ ToSet(queue) \subseteq Targets
  BY Types, SetOf DEF Inv, TypeOK
<1>2. /\ next' = PushAll(next, queue) /\ queue' = <<>> /\ stopped' = TRUE
      /\ merged' = merged /\ fresh' = fresh /\ wanted' = wanted /\ refused' = refused
      /\ generation' = generation /\ batch' = batch /\ returned' = returned
      /\ dispatches' = dispatches /\ max_depth' = max_depth /\ outcomes' = outcomes
      /\ termination' = termination /\ asked' = asked
  BY DEF KeepRest, found, history
<1>3. /\ next' \in Seq(Targets) /\ IsInjective(next')
      /\ ToSet(next') = ToSet(next) \cup ToSet(queue)
      /\ <<>> \in Seq(Targets) /\ ToSet(<<>>) = {}
  BY <1>1, <1>2, PushAllAdds, EmptySeq, EmptyIsInjective
<1>4. Dispatched' = Dispatched /\ Wave' = Wave
  BY <1>2 DEF Dispatched, Wave
<1>5. TypeOK'
  <2>1. saved' \subseteq Targets /\ visited' \subseteq Targets
    BY <1>1 DEF TypeOK
  <2>2. Range(outcomes)' = Range(outcomes)
    BY <1>2
  <2>3. QED BY <1>1, <1>2, <1>3, <1>4, <2>1, <2>2 DEF TypeOK
<1>6. Phase'
  BY <1>2 DEF Inv, Phase
<1>7. WaveOK'
  BY <1>2, <1>4 DEF Inv, WaveOK
<1>8. LossOK'
  <2>1. CASE pc = "after"
    <3>1. Dispatched' \ saved' = {} /\ Len(batch) = 0
      BY <1>4, <2>1, EmptySeq DEF Inv, Phase
    <3>2. Cardinality(Dispatched' \ saved') = 0
      BY <3>1, FS_EmptySet
    <3>3. Cardinality(Dispatched' \ saved') + Len(batch') <= MAX_BATCH
      BY <1>2, <3>1, <3>2, Parameters
    <3>4. QED BY <1>4, <2>1, <3>3 DEF LossOK
  <2>2. CASE pc # "after"
    BY <1>2, <1>4, <2>2 DEF Inv, LossOK
  <2>3. QED BY <2>1, <2>2
<1>9. KeptOK'
  <2>1. Held' = Held
    BY <1>2, <1>3, <1>4 DEF Held
  <2>2. ToSet(queue) \subseteq Held
    BY DEF Held
  <2>3. QED BY <1>2, <2>1, <2>2 DEF Inv, KeptOK
<1>10. KindsOK' /\ KindsInTurn'
  BY <1>2 DEF KindsOK, KindsInTurn
<1>11. QED BY <1>5, <1>6, <1>7, <1>8, <1>9, <1>10 DEF Inv

\* A target that was visited before is passed over: it is dispatched or in the wave.
LEMMA PassKeeps ==
    ASSUME Inv, TakeVisited \/ FillVisited
    PROVE  Inv'
<1>1. /\ pc \in {"take", "fill"} /\ pc' = pc /\ queue # <<>> /\ ~stopped
      /\ Head(queue) \in visited /\ queue' = Tail(queue)
      /\ generation' = generation /\ next' = next /\ batch' = batch /\ returned' = returned
      /\ stopped' = stopped /\ visited' = visited /\ merged' = merged /\ fresh' = fresh
      /\ dispatches' = dispatches /\ resource_limited' = resource_limited
      /\ cancelled' = cancelled /\ max_depth' = max_depth /\ outcomes' = outcomes
      /\ termination' = termination /\ asked' = asked /\ saved' = saved
      /\ wanted' = wanted /\ refused' = refused
  BY DEF TakeVisited, FillVisited, Joins, Inv, Phase, found, bounds, history
<1>2. /\ TypeOK /\ queue \in Seq(Targets) /\ Tail(queue) \in Seq(Targets)
      /\ ToSet(queue) = ToSet(Tail(queue)) \cup {Head(queue)}
  BY <1>1, Types, TailLeaves DEF Inv
<1>3. Dispatched' = Dispatched /\ Wave' = Wave /\ Range(outcomes)' = Range(outcomes)
  BY <1>1 DEF Dispatched, Wave
<1>4. TypeOK'
  BY <1>1, <1>2, <1>3 DEF TypeOK
<1>5. Phase' /\ WaveOK' /\ LossOK'
  BY <1>1, <1>3 DEF Inv, Phase, WaveOK, LossOK
<1>6. KeptOK'
  <2>1. Held' = Held
    BY <1>1, <1>2, <1>3 DEF Held, Inv, WaveOK
  <2>2. QED BY <1>1, <2>1 DEF Inv, KeptOK
<1>7. KindsOK' /\ KindsInTurn'
  BY <1>1 DEF Inv, KindsOK, HalfEach, KindsInTurn
<1>8. QED BY <1>4, <1>5, <1>6, <1>7 DEF Inv

\* A target joins the wave: it was not visited, so neither dispatched nor in the wave, and
\* the budget pays for it.
LEMMA JoinKeeps ==
    ASSUME Inv, Take \/ Fill
    PROVE  Inv'
<1> DEFINE t == Head(queue)
<1>1. /\ pc \in {"take", "fill"} /\ pc' = "fill" /\ queue # <<>> /\ ~stopped
      /\ t \notin visited /\ visited' = visited \cup {t} /\ queue' = Tail(queue)
      /\ generation' = generation /\ next' = next /\ returned' = returned
      /\ stopped' = stopped /\ merged' = merged /\ fresh' = fresh
      /\ dispatches' = dispatches /\ resource_limited' = resource_limited
      /\ cancelled' = cancelled /\ max_depth' = max_depth /\ outcomes' = outcomes
      /\ termination' = termination /\ asked' = asked /\ saved' = saved
      /\ wanted' = wanted /\ refused' = refused
  BY DEF Take, Fill, Joins, Inv, Phase, found, bounds, history
<1>2. /\ TypeOK /\ queue \in Seq(Targets) /\ Tail(queue) \in Seq(Targets) /\ t \in Targets
      /\ ToSet(queue) = ToSet(Tail(queue)) \cup {t}
      /\ batch \in Seq(Targets) /\ IsInjective(batch) /\ Len(batch) \in Nat
      /\ dispatches \in Nat
  BY <1>1, Types, TailLeaves DEF Inv, TypeOK
<1>3. /\ batch' = Append(batch, t) /\ Len(batch) < MAX_BATCH
      /\ ~(dispatches + Len(batch) >= max_dispatches)
  <2>1. CASE Take
    <3>1. batch = <<>> /\ Len(batch) = 0 /\ batch' = <<t>>
      BY <2>1, EmptySeq DEF Take, Inv, Phase
    <3>2. Append(<<>>, t) = <<t>>
      OBVIOUS
    <3>3. QED BY <1>2, <2>1, <3>1, <3>2, Parameters DEF Take, Spent
  <2>2. CASE Fill
    BY <2>2 DEF Fill, Joins, Spent
  <2>3. QED BY <2>1, <2>2
<1>4. /\ batch' \in Seq(Targets) /\ Len(batch') = Len(batch) + 1
      /\ Wave' = Wave \cup {t} /\ t \notin Wave /\ IsInjective(batch')
  <2>1. t \notin ToSet(batch)
    BY <1>1 DEF Inv, WaveOK, Wave
  <2>2. QED BY <1>2, <1>3, <2>1, AppendAdds DEF Wave
<1>5. Dispatched' = Dispatched /\ Range(outcomes)' = Range(outcomes)
  BY <1>1 DEF Dispatched
<1> HIDE DEF t
<1>6. TypeOK'
  <2>1. Len(batch') <= MAX_BATCH
    BY <1>2, <1>3, <1>4, Parameters
  <2>2. QED BY <1>1, <1>2, <1>4, <1>5, <2>1 DEF TypeOK
<1>7. Phase'
  BY <1>1 DEF Inv, Phase
<1>8. WaveOK'
  <2>1. dispatches + Len(batch') <= max_dispatches
    BY <1>2, <1>3, <1>4, Parameters
  <2>2. QED BY <1>1, <1>4, <1>5, <2>1 DEF Inv, WaveOK
<1>9. LossOK'
  <2>1. saved = Dispatched
    BY <1>1 DEF Inv, LossOK
  <2>2. Cardinality(Dispatched \ saved) = 0
    BY <2>1, FS_EmptySet
  <2>3. 0 + Len(batch') <= MAX_BATCH
    BY <1>2, <1>3, <1>4, Parameters
  <2>4. QED BY <1>1, <1>5, <2>1, <2>2, <2>3 DEF LossOK
<1>10. KeptOK'
  <2>1. Held' = Held /\ t \in Held
    BY <1>1, <1>2, <1>4, <1>5 DEF Held
  <2>2. QED BY <1>1, <2>1 DEF Inv, KeptOK
<1>11. KindsOK' /\ KindsInTurn'
  BY <1>1 DEF Inv, KindsOK, HalfEach, KindsInTurn
<1>12. QED BY <1>6, <1>7, <1>8, <1>9, <1>10, <1>11 DEF Inv

\* What take_step makes of the frontier and the entities.
LEMMA ReduceTakes ==
    ASSUME Inv, NEW t \in Targets, NEW entities \in Answers, Reduce(t, entities)
    PROVE  \E r \in TakenStates :
               /\ next' = r.next /\ fresh' = r.fresh /\ resource_limited' = r.limited
               /\ refused' = r.refused /\ wanted' = r.wanted
<1> DEFINE start == [next |-> next, fresh |-> fresh, limited |-> resource_limited,
                     refused |-> refused, wanted |-> wanted]
           step == [e \in Entities |-> [r \in Taken |-> TakeEntity(r, e, t)]]
<1>1. start \in Taken
  BY Types DEF Inv, TypeOK, Taken
<1>2. TakenOK(start)
  <2>1. /\ start.next = next /\ start.limited = resource_limited
        /\ start.refused = refused /\ start.wanted = wanted
    OBVIOUS
  <2> HIDE DEF start
  <2>2. QED BY <2>1 DEF Inv, TypeOK, KeptOK, Held, KindsOK, TakenOK
<1>3. LET taken == Fold(step, start, entities)
      IN  /\ next' = taken.next /\ fresh' = taken.fresh /\ resource_limited' = taken.limited
          /\ refused' = taken.refused /\ wanted' = taken.wanted
  BY DEF Reduce
<1> HIDE DEF start
<1>4. start \in TakenStates
  BY <1>1, <1>2 DEF TakenStates
<1>5. Fold(step, start, entities) \in TakenStates
  BY <1>4, EntitiesKeep
<1> HIDE DEF step
<1>6. QED BY <1>3, <1>5

\* The wave's first target is dispatched: its place in the wave becomes an outcome.
LEMMA ReduceKeeps ==
    ASSUME Inv, NEW t \in Targets, NEW entities \in Answers, Reduce(t, entities)
    PROVE  Inv'
<1>1. /\ pc = "reduce" /\ pc' = pc /\ batch # <<>> /\ t = Head(batch) /\ batch' = Tail(batch)
      /\ dispatches' = dispatches + 1
      /\ outcomes' = [u \in Dispatched \cup {t} |-> IF u = t THEN Outcome ELSE outcomes[u]]
      /\ returned' = IF returned = 0 THEN 0 ELSE returned - 1
      /\ generation' = generation /\ queue' = queue /\ stopped' = stopped
      /\ visited' = visited /\ merged' = merged /\ cancelled' = cancelled
      /\ max_depth' = max_depth /\ termination' = termination /\ asked' = asked
      /\ saved' = saved
  BY DEF Reduce
<1>2. PICK r \in TakenStates :
        /\ next' = r.next /\ fresh' = r.fresh /\ resource_limited' = r.limited
        /\ refused' = r.refused /\ wanted' = r.wanted
  BY ReduceTakes
<1>3. /\ next' \in Seq(Targets) /\ fresh' \in Seq(Entities) /\ resource_limited' \in BOOLEAN
      /\ refused' \subseteq Targets /\ wanted' \subseteq Targets
      /\ IsInjective(next')
      /\ ToSet(next) \subseteq ToSet(next') /\ ToSet(next') \subseteq wanted'
      /\ refused \subseteq refused' /\ refused' \subseteq wanted' /\ wanted \subseteq wanted'
      /\ wanted' \ wanted \subseteq visited \cup ToSet(next') \cup refused'
      /\ refused' # {} => resource_limited'
      /\ resource_limited => resource_limited'
      /\ ~stopped => HalfEach(next')
  <2>1. r \in Taken /\ TakenOK(r)
    BY DEF TakenStates
  <2>2. /\ r.next \in Seq(Targets) /\ r.fresh \in Seq(Entities) /\ r.limited \in BOOLEAN
        /\ r.refused \subseteq Targets /\ r.wanted \subseteq Targets
    BY <2>1 DEF Taken
  <2>3. QED BY <1>2, <2>1, <2>2 DEF TakenOK
<1>4. /\ TypeOK /\ queue \in Seq(Targets) /\ batch \in Seq(Targets) /\ IsInjective(batch)
      /\ Len(batch) \in Nat /\ dispatches \in Nat
      /\ Dispatched \subseteq Targets /\ IsFiniteSet(Dispatched)
      /\ Cardinality(Dispatched) \in Nat
  BY Types DEF Inv, TypeOK
<1>5. /\ batch' \in Seq(Targets) /\ Len(batch') = Len(batch) - 1 /\ Len(batch') \in Nat
      /\ Wave = Wave' \cup {t} /\ t \notin Wave' /\ IsInjective(batch')
  <2>1. /\ Tail(batch) \in Seq(Targets) /\ Len(Tail(batch)) = Len(batch) - 1
        /\ ToSet(batch) = ToSet(Tail(batch)) \cup {Head(batch)}
        /\ IsInjective(Tail(batch)) /\ Head(batch) \notin ToSet(Tail(batch))
    BY <1>1, <1>4, TailLeaves
  <2>2. Len(Tail(batch)) \in Nat
    BY <2>1, LenProperties
  <2>3. QED BY <1>1, <2>1, <2>2 DEF Wave
<1>6. /\ Dispatched' = Dispatched \cup {t} /\ t \notin Dispatched
      /\ Cardinality(Dispatched') = Cardinality(Dispatched) + 1
  <2>1. Dispatched' = Dispatched \cup {t}
    BY <1>1 DEF Dispatched
  <2>2. t \notin Dispatched
    BY <1>5 DEF Inv, WaveOK
  <2>3. QED BY <1>4, <2>1, <2>2, FS_AddElement
<1>7. TypeOK'
  <2>1. Range(outcomes)' \subseteq {"returned", "inconclusive"}
    <3>1. \A u \in Dispatched : outcomes[u] \in {"returned", "inconclusive"}
      BY <1>4 DEF TypeOK, Range, Dispatched
    <3>2. Outcome \in {"returned", "inconclusive"}
      BY DEF Outcome
    <3>3. \A u \in Dispatched \cup {t} : outcomes'[u] \in {"returned", "inconclusive"}
      BY <1>1, <3>1, <3>2
    <3>4. DOMAIN outcomes' = Dispatched \cup {t}
      BY <1>1
    <3>5. QED BY <3>3, <3>4 DEF Range
  <2>2. returned' \in 0..MAX_BATCH + 1
    BY <1>1, <1>4, Parameters DEF TypeOK
  <2>3. Len(batch') <= MAX_BATCH
    BY <1>4, <1>5, Parameters DEF TypeOK
  <2>4. {queue', next', batch'} \subseteq Seq(Targets) /\ Dispatched' \subseteq Targets
        /\ dispatches' \in Nat
    BY <1>1, <1>3, <1>4, <1>5, <1>6
  <2>5. QED BY <1>1, <1>3, <1>4, <1>5, <2>1, <2>2, <2>3, <2>4 DEF TypeOK
<1>8. Phase'
  BY <1>1 DEF Inv, Phase
<1>9. WaveOK'
  <2>1. Dispatched' \cup Wave' = Dispatched \cup Wave /\ Dispatched' \cap Wave' = {}
    BY <1>5, <1>6 DEF Inv, WaveOK
  <2>2. dispatches' = Cardinality(Dispatched')
    BY <1>1, <1>4, <1>6 DEF Inv, WaveOK
  <2>3. dispatches' + Len(batch') <= max_dispatches
    BY <1>1, <1>4, <1>5, Parameters DEF Inv, WaveOK
  <2>4. QED BY <1>1, <2>1, <2>2, <2>3 DEF Inv, WaveOK
<1>10. LossOK'
  <2>1. IsFiniteSet(Dispatched \ saved) /\ Cardinality(Dispatched \ saved) \in Nat
    BY <1>4, FS_Difference, FS_CardinalityType
  <2>2. Dispatched' \ saved' = (Dispatched \ saved) \cup {t}
    BY <1>1, <1>6 DEF Inv, LossOK
  <2>3. t \notin Dispatched \ saved
    BY <1>6
  <2>4. Cardinality(Dispatched' \ saved') = Cardinality(Dispatched \ saved) + 1
    BY <2>1, <2>2, <2>3, FS_AddElement
  <2>5. Cardinality(Dispatched' \ saved') + Len(batch') <= MAX_BATCH
    BY <1>4, <1>5, <2>1, <2>4, Parameters DEF Inv, LossOK
  <2>6. QED BY <1>1, <1>6, <2>5 DEF Inv, LossOK
<1>11. KeptOK'
  <2>1. Held' = Held \cup ToSet(next')
    BY <1>1, <1>3, <1>5, <1>6 DEF Held
  <2>2. /\ wanted \subseteq Held \cup refused /\ Held \subseteq wanted
        /\ visited \subseteq Held /\ (stopped => cancelled \/ resource_limited)
    BY DEF Inv, KeptOK
  <2>3. /\ wanted' \subseteq Held' \cup refused' /\ Held' \subseteq wanted'
        /\ visited \subseteq Held'
    BY <1>3, <2>1, <2>2
  <2>4. QED BY <1>1, <1>3, <2>2, <2>3 DEF KeptOK
<1>12. KindsOK' /\ KindsInTurn'
  BY <1>1, <1>3 DEF KindsOK, HalfEach, KindsInTurn
<1>13. QED BY <1>7, <1>8, <1>9, <1>10, <1>11, <1>12 DEF Inv

\* The next generation's queue, in its order of dispatch.
LEMMA EndGenerationKeeps ==
    ASSUME Inv, EndGeneration
    PROVE  Inv'
<1>1. /\ pc = "take" /\ pc' = "generation" /\ queue = <<>>
      /\ merged' = merged \cup ToSet(fresh) /\ fresh' = <<>>
      /\ queue' = IntoQueue(next) /\ next' = <<>> /\ generation' = generation + 1
      /\ batch' = batch /\ returned' = returned
      /\ stopped' = stopped /\ visited' = visited
      /\ dispatches' = dispatches /\ resource_limited' = resource_limited
      /\ cancelled' = cancelled /\ max_depth' = max_depth /\ outcomes' = outcomes
      /\ termination' = termination /\ asked' = asked /\ saved' = saved
      /\ wanted' = wanted /\ refused' = refused
  BY DEF EndGeneration, Inv, Phase, bounds, history
<1>2. /\ TypeOK /\ next \in Seq(Targets) /\ fresh \in Seq(Entities)
      /\ <<>> \in Seq(Targets) /\ <<>> \in Seq(Entities) /\ ToSet(<<>>) = {}
      /\ IsInjective(<<>>) /\ Len(<<>>) = 0 /\ Len(next) \in Nat
  BY Types, EmptySeq, EmptyIsInjective, LenProperties DEF Inv, TypeOK
<1>3. /\ IntoQueue(next) \in Seq(Targets) /\ Len(IntoQueue(next)) = Len(next)
      /\ ToSet(IntoQueue(next)) = ToSet(next)
      /\ DOMAIN IntoQueue(next) = 1..Len(next)
  BY <1>2, IntoQueueKeeps, LenProperties
<1>4. Dispatched' = Dispatched /\ Wave' = Wave /\ Range(outcomes)' = Range(outcomes)
  BY <1>1 DEF Dispatched, Wave
<1>5. TypeOK'
  <2>1. ToSet(fresh) \subseteq Entities
    BY <1>2, SetOf
  <2>2. generation' \in 0..max_generations + 1
    BY <1>1, <1>2, Parameters DEF Inv, TypeOK, Phase
  <2>3. QED BY <1>1, <1>2, <1>3, <1>4, <2>1, <2>2 DEF TypeOK
<1>6. Phase' /\ WaveOK' /\ LossOK'
  BY <1>1, <1>4 DEF Inv, Phase, WaveOK, LossOK
<1>7. KeptOK'
  <2>1. Held' = Held
    BY <1>1, <1>2, <1>3, <1>4 DEF Held
  <2>2. QED BY <1>1, <2>1 DEF Inv, KeptOK
<1>8. KindsOK'
  <2> SUFFICES ASSUME NEW t \in Targets
               PROVE  OfKind(<<>>, 0, Kind[t]) <= Half(max_frontier_per_generation)
    BY <1>1, <1>2 DEF KindsOK, HalfEach
  <2>1. Positions(<<>>, 0, Kind[t]) = {}
    BY DEF Positions
  <2>2. OfKind(<<>>, 0, Kind[t]) = 0
    BY <2>1, PositionsAreFinite, FS_EmptySet
  <2>3. QED BY <2>2, HalfIsNatural
<1>9. KindsInTurn'
  <2> DEFINE q == IntoQueue(next)
  <2> SUFFICES ASSUME ~stopped, NEW k \in {Kind[q[i]] : i \in DOMAIN q},
                      NEW l \in {Kind[q[i]] : i \in DOMAIN q}
               PROVE  /\ OfKind(q, Len(q), k) <= Half(max_frontier_per_generation)
                      /\ \A n \in DOMAIN q : OfKind(q, n, k) < OfKind(q, Len(q), k)
                            => OfKind(q, n, l) <= OfKind(q, n, k) + 1
    BY <1>1 DEF KindsInTurn
  <2>1. OfKind(q, Len(q), k) = OfKind(next, Len(next), k)
    BY <1>2, <1>3, WholeQueue
  <2>2. OfKind(next, Len(next), k) <= Half(max_frontier_per_generation)
    <3>1. PICK i \in 1..Len(next) : k = Kind[q[i]]
      BY <1>3
    <3>2. q[i] \in Targets
      BY <1>3, <3>1, ElementOfSeq
    <3> HIDE DEF q
    <3>3. QED BY <3>1, <3>2 DEF Inv, KindsOK, HalfEach
  <2>3. ASSUME NEW n \in DOMAIN q, OfKind(q, n, k) < OfKind(q, Len(q), k)
        PROVE  OfKind(q, n, l) <= OfKind(q, n, k) + 1
    <3>1. n \in 1..Len(next)
      BY <1>3
    <3>2. QED BY <1>2, <2>1, <2>3, <3>1, TurnsAreTaken
  <2>4. QED BY <2>1, <2>2, <2>3
<1>10. QED BY <1>5, <1>6, <1>7, <1>8, <1>9 DEF Inv

\* The steps that move neither a target nor a budget.
LEMMA MoveKeeps ==
    ASSUME Inv, Begin \/ Finish \/ Collect \/ Reduced \/ AskStop \/ UNCHANGED vars
    PROVE  Inv'
<1>1. /\ queue' = queue /\ next' = next /\ batch' = batch /\ generation' = generation
      /\ stopped' = stopped /\ visited' = visited /\ merged' = merged /\ fresh' = fresh
      /\ dispatches' = dispatches /\ resource_limited' = resource_limited
      /\ cancelled' = cancelled /\ outcomes' = outcomes /\ saved' = saved
      /\ wanted' = wanted /\ refused' = refused
  BY DEF Begin, Finish, Collect, Reduced, AskStop, vars, found, bounds, history
<1>2. /\ Dispatched' = Dispatched /\ Wave' = Wave /\ Range(outcomes)' = Range(outcomes)
      /\ Held' = Held
  BY <1>1 DEF Dispatched, Wave, Held
<1>3. /\ TypeOK /\ Len(batch) \in Nat /\ Len(batch) <= MAX_BATCH
  BY Types DEF Inv, TypeOK
<1>4. TypeOK'
  <2>1. CASE Begin \/ AskStop \/ UNCHANGED vars
    BY <1>1, <1>2, <1>3, <2>1 DEF TypeOK, Begin, AskStop, vars, bounds
  <2>2. CASE Finish
    <3>1. max_depth' \in BOOLEAN
      BY <2>2 DEF Finish
    <3>2. termination' \in Reasons /\ pc' = "done" /\ UNCHANGED <<returned, asked>>
      BY <2>2 DEF Finish, Decide, Reasons
    <3>3. QED BY <1>1, <1>2, <1>3, <3>1, <3>2 DEF TypeOK
  <2>3. CASE Collect
    <3>1. returned' \in 0..MAX_BATCH + 1
      BY <1>3, <2>3, Parameters DEF Collect
    <3>2. QED BY <1>1, <1>2, <1>3, <2>3, <3>1 DEF TypeOK, Collect, bounds
  <2>4. CASE Reduced
    <3>1. returned' \in 0..MAX_BATCH + 1
      BY <2>4, Parameters DEF Reduced
    <3>2. QED BY <1>1, <1>2, <1>3, <2>4, <3>1 DEF TypeOK, Reduced, bounds
  <2>5. QED BY <2>1, <2>2, <2>3, <2>4
<1>5. Phase'
  <2>1. CASE Finish
    <3>1. pc' = "done" /\ batch' = <<>> /\ next' = <<>>
      BY <1>1, <2>1 DEF Inv, Phase, Finish
    <3>2. max_depth' <=> queue' # <<>> /\ ~stopped'
      <4>1. max_depth' = (queue # <<>> /\ ~stopped)
        BY <2>1 DEF Finish
      <4>2. queue' = queue /\ stopped' = stopped
        BY <1>1
      <4>3. CASE queue # <<>> /\ ~stopped
        <5>1. max_depth' = TRUE
          BY <4>1, <4>3, Zenon
        <5>2. QED BY <4>2, <4>3, <5>1
      <4>4. CASE ~(queue # <<>> /\ ~stopped)
        <5>1. max_depth' = FALSE
          BY <4>1, <4>4, Zenon
        <5>2. QED BY <4>2, <4>4, <5>1
      <4>5. QED BY <4>3, <4>4
    <3>3. QED BY <3>1, <3>2 DEF Phase
  <2>2. CASE Begin \/ Collect \/ Reduced
    BY <1>1, <1>3, <2>2 DEF Inv, TypeOK, Phase, Begin, Collect, Reduced, bounds
  <2>3. CASE AskStop \/ UNCHANGED vars
    BY <1>1, <2>3 DEF Inv, Phase, AskStop, vars, bounds
  <2>4. QED BY <2>1, <2>2, <2>3
<1>6. WaveOK' /\ KeptOK' /\ KindsOK'
  BY <1>1, <1>2 DEF Inv, WaveOK, KeptOK, KindsOK, HalfEach
<1>7. LossOK'
  BY <1>1, <1>2 DEF Inv, LossOK, Begin, Finish, Collect, Reduced, AskStop, vars
<1>8. KindsInTurn'
  <2>1. pc' = "generation" => pc = "generation"
    BY DEF Begin, Finish, Collect, Reduced, AskStop, vars
  <2>2. QED BY <1>1, <2>1 DEF Inv, KindsInTurn
<1>9. QED BY <1>4, <1>5, <1>6, <1>7, <1>8 DEF Inv

\* progressed() sees the whole wave, and the generation goes on.
LEMMA UnaskedKeeps ==
    ASSUME Inv, BatchDone, ~asked
    PROVE  Inv'
<1>1. /\ pc = "after" /\ pc' = "take" /\ saved' = Dispatched /\ cancelled' = cancelled
      /\ queue' = queue /\ next' = next /\ batch' = batch /\ generation' = generation
      /\ stopped' = stopped /\ visited' = visited /\ merged' = merged /\ fresh' = fresh
      /\ dispatches' = dispatches /\ resource_limited' = resource_limited
      /\ max_depth' = max_depth /\ outcomes' = outcomes /\ returned' = returned
      /\ termination' = termination /\ asked' = asked
      /\ wanted' = wanted /\ refused' = refused
  BY DEF BatchDone, Inv, TypeOK, found, history
<1>2. /\ Dispatched' = Dispatched /\ Wave' = Wave /\ Range(outcomes)' = Range(outcomes)
      /\ Held' = Held
  BY <1>1 DEF Dispatched, Wave, Held
<1>3. TypeOK /\ batch = <<>> /\ Len(batch) = 0
  BY <1>1, EmptySeq DEF Inv, Phase
<1>4. TypeOK'
  BY <1>1, <1>2, <1>3 DEF TypeOK
<1>5. Phase' /\ WaveOK' /\ KeptOK' /\ KindsOK' /\ KindsInTurn'
  BY <1>1, <1>2 DEF Inv, Phase, WaveOK, KeptOK, KindsOK, HalfEach, KindsInTurn
<1>6. LossOK'
  <2>1. Dispatched' \ saved' = {} /\ Len(batch') = 0
    BY <1>1, <1>2, <1>3
  <2>2. Cardinality(Dispatched' \ saved') = 0
    BY <2>1, FS_EmptySet
  <2>3. Cardinality(Dispatched' \ saved') + Len(batch') <= MAX_BATCH
    BY <2>1, <2>2, Parameters
  <2>4. QED BY <1>1, <1>2, <2>3 DEF LossOK
<1>7. QED BY <1>4, <1>5, <1>6 DEF Inv

LEMMA NextKeepsInv == Inv /\ [Next]_vars => Inv'
<1> SUFFICES ASSUME Inv, [Next]_vars PROVE Inv'
  OBVIOUS
<1>1. TypeOK
  BY DEF Inv
<1>2. CASE TakeCancelled \/ FillCancelled
  <2>1. /\ pc \in {"take", "fill"} /\ pc' = pc /\ KeepRest(queue) /\ cancelled' = TRUE
        /\ UNCHANGED <<resource_limited, visited, saved>>
        /\ UNCHANGED <<generation, batch, returned, found, dispatches, max_depth, outcomes,
                       termination, asked, history>>
    BY <1>2 DEF TakeCancelled, FillCancelled, Joins
  <2>2. QED BY <1>1, <2>1, RestKeeps DEF TypeOK
<1>3. CASE TakeSpent \/ FillSpent
  <2>1. /\ pc \in {"take", "fill"} /\ pc' = pc /\ KeepRest(queue) /\ resource_limited' = TRUE
        /\ queue # <<>> /\ visited' = visited \cup {Head(queue)}
        /\ UNCHANGED <<cancelled, saved>>
        /\ UNCHANGED <<generation, batch, returned, found, dispatches, max_depth, outcomes,
                       termination, asked, history>>
    BY <1>3 DEF TakeSpent, FillSpent, Joins
  <2>2. Head(queue) \in ToSet(queue)
    BY <1>1, <2>1, Types, TailLeaves
  <2>3. QED BY <1>1, <2>1, <2>2, RestKeeps DEF TypeOK
<1>4. CASE BatchDone
  <2>1. CASE asked
    <3>1. /\ pc = "after" /\ pc' = "take" /\ KeepRest(queue) /\ saved' = Dispatched
          /\ cancelled' = TRUE
          /\ UNCHANGED <<resource_limited, visited>>
          /\ UNCHANGED <<generation, batch, returned, found, dispatches, max_depth, outcomes,
                         termination, asked, history>>
      BY <1>4, <2>1 DEF BatchDone
    <3>2. QED BY <1>1, <3>1, RestKeeps DEF TypeOK
  <2>2. CASE ~asked
    BY <1>4, <2>2, UnaskedKeeps
  <2>3. QED BY <2>1, <2>2
<1>5. QED
  BY <1>2, <1>3, <1>4, MoveKeeps, PassKeeps, JoinKeeps, ReduceKeeps, EndGenerationKeeps
  DEF Next, Crawls

-----------------------------------------------------------------------------
(* Theorems. *)

LEMMA InvHolds == Spec => []Inv
BY InitInv, NextKeepsInv, PTL DEF Spec

\* CrawlState::step, for any lookups, findings and bounds: no target is looked up twice,
\* and all lookups, the wave under way included, stay within max_dispatches.
THEOREM TargetsAreLookedUpOnce == Spec => []DispatchesKept
<1>1. Inv => DispatchesKept
  BY DEF Inv, WaveOK, DispatchesKept, OncePerTarget, DispatchesBounded
<1>2. QED BY <1>1, InvHolds, PTL

\* crawl, however it ends: every target that was given or found is dispatched, left in the
\* frontier it reports or was refused, and a process that dies loses one wave at most.
THEOREM FindingsAreKept == Spec => []FindingsKept
<1>1. ASSUME Inv, pc = "done"
      PROVE  /\ wanted \subseteq Dispatched \cup ToSet(queue) \cup refused
             /\ ~(resource_limited \/ max_depth \/ cancelled) => wanted = Dispatched
  <2>1. Wave = {} /\ ToSet(next) = {} /\ (max_depth <=> queue # <<>> /\ ~stopped)
    BY <1>1, EmptyIsInjective DEF Inv, Phase, Wave
  <2>2. Held = Dispatched \cup ToSet(queue)
    BY <2>1 DEF Held
  <2>3. ASSUME ~(resource_limited \/ max_depth \/ cancelled) PROVE wanted = Dispatched
    <3>1. refused = {} /\ ~stopped /\ queue = <<>>
      BY <1>1, <2>1, <2>3 DEF Inv, KeptOK
    <3>2. ToSet(queue) = {}
      BY <3>1, EmptyIsInjective
    <3>3. QED BY <1>1, <2>2, <3>1, <3>2 DEF Inv, KeptOK
  <2>4. QED BY <1>1, <2>2, <2>3 DEF Inv, KeptOK
<1>2. ASSUME Inv PROVE LossBounded
  <2>1. /\ Dispatched \ saved \subseteq Targets /\ Len(batch) \in Nat
        /\ IsFiniteSet(Dispatched)
    BY <1>2, Types DEF Inv
  <2>2. Cardinality(Dispatched \ saved) \in Nat
    BY <2>1, FS_Difference, FS_CardinalityType
  <2>3. QED BY <1>2, <2>1, <2>2, Parameters DEF Inv, LossOK, LossBounded
<1>3. Inv => FindingsKept
  BY <1>1, <1>2 DEF FindingsKept, NothingLost
<1>4. QED BY <1>3, InvHolds, PTL

\* into_queue and full_for, for any kinds and any room: one kind's flood takes half of a
\* frontier at most, and a budget that ends a generation early has given each kind its turn.
THEOREM KindsTakeTurns == Spec => []KindsInTurn
<1>1. Inv => KindsInTurn
  BY DEF Inv
<1>2. QED BY <1>1, InvHolds, PTL

\* The checks of cancelled() before each target, in a wave or not: once the stop is asked
\* for nothing more is marked visited, so nothing more is chosen.
THEOREM NothingStartsAfterStop == Spec => NoneAfterStop
<1>1. [Next]_vars => [asked => visited' = visited]_vars
  <2> SUFFICES ASSUME Next, asked PROVE visited' = visited
    OBVIOUS
  <2>1. CASE \E t \in Targets, entities \in Answers : Reduce(t, entities)
    BY <2>1 DEF Reduce
  <2>2. CASE TakeVisited \/ TakeSpent \/ Take \/ FillVisited \/ FillSpent \/ Fill
    BY <2>2 DEF TakeVisited, TakeSpent, Take, FillVisited, FillSpent, Fill
  <2>3. CASE Begin \/ Finish \/ TakeCancelled \/ FillCancelled
    BY <2>3 DEF Begin, Finish, TakeCancelled, FillCancelled
  <2>4. CASE Collect \/ Reduced \/ BatchDone \/ EndGeneration \/ AskStop
    BY <2>4 DEF Collect, Reduced, BatchDone, EndGeneration, AskStop
  <2>5. QED BY <2>1, <2>2, <2>3, <2>4 DEF Next, Crawls
<1>2. QED BY <1>1, PTL DEF Spec, NoneAfterStop
=============================================================================
