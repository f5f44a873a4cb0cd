-------------------------- MODULE HubAndPoolProofs --------------------------
(***************************************************************************)
(* The event hub and the lookup pool, for every value of their constants.   *)
(* Hub: a connection is sent every event once and in order, or is told to   *)
(* fetch the state again.  Pool: every job runs once whatever threads are   *)
(* refused and whichever jobs panic, and no grant breaks a window or a      *)
(* pause of the rate limiter.                                               *)
(***************************************************************************)
EXTENDS EventHub, LookupPool, FiniteSetTheorems, SequenceTheorems, TLAPS

-----------------------------------------------------------------------------
(* The inductive invariant. *)

\* The ring holds the newest events, without a gap up to next.
RingOK ==
    /\ Len(events) <= next
    /\ \A i \in 1..Len(events) : events[i] = next - Len(events) + i - 1

\* A publisher owes a notification only for what it published.
NotifyOK == unnotified <= next

\* What a connection has is older than its cursor, and the cursor is not ahead.
CursorOK(c) ==
    /\ since[c] <= cursor[c] /\ told[c] <= cursor[c] /\ cursor[c] <= next
    /\ \A i \in 1..Len(got[c]) : got[c][i] < cursor[c]

Covered(c) ==
    \A e \in since[c]..(cursor[c] - 1) :
        e < told[c] \/ \E i \in 1..Len(got[c]) : got[c][i] = e

Ascending(c) == \A i, j \in 1..Len(got[c]) : i < j => got[c][i] < got[c][j]

Inv ==
    /\ TypeOK /\ RingOK /\ NotifyOK
    /\ \A c \in Clients : CursorOK(c) /\ Covered(c) /\ Ascending(c)

-----------------------------------------------------------------------------

\* What recv's filter keeps is the events from the cursor, or the oldest, up to next.
LEMMA KeptEvents ==
    ASSUME Inv, NEW c \in Clients, next > cursor[c]
    PROVE  \E first \in 1..(Len(events) + 1) :
              /\ FromCursor(c) = SubSeq(events, first, Len(events))
              /\ \A j \in 1..(first - 1) : events[j] < cursor[c]
              /\ \A j \in first..Len(events) : events[j] >= cursor[c]
<1> DEFINE Fits(i) == /\ \A j \in 1..(i - 1) : events[j] < cursor[c]
                      /\ i <= Len(events) => events[i] >= cursor[c]
           first == CHOOSE i \in 1..(Len(events) + 1) : Fits(i)
           low == next - Len(events)
           found == IF cursor[c] <= low THEN 1 ELSE cursor[c] - low + 1
<1>1. /\ Len(events) \in Nat /\ next \in Nat /\ cursor[c] \in Nat /\ low \in Nat
      /\ \A i \in 1..Len(events) : events[i] = low + i - 1
  BY HubAssumption DEF Inv, TypeOK, RingOK
<1>2. found \in 1..(Len(events) + 1) /\ Fits(found)
  BY <1>1
<1>3. first \in 1..(Len(events) + 1) /\ Fits(first)
  <2> HIDE DEF Fits, found
  <2>1. QED BY <1>2
<1>4. FromCursor(c) = SubSeq(events, first, Len(events))
  BY DEF FromCursor
<1>5. \A j \in first..Len(events) : events[j] >= cursor[c]
  <2> HIDE DEF first, low
  <2>1. QED BY <1>1, <1>3
<1>6. QED BY <1>3, <1>4, <1>5

LEMMA InitInv == Init => Inv
BY HubAssumption
DEF Init, Inv, TypeOK, RingOK, NotifyOK, CursorOK, Covered, Ascending

-----------------------------------------------------------------------------
(* Each action keeps the invariant. *)

\* A push drops the oldest event of a full ring, and the ring still ends at next.
LEMMA PublishKeeps ==
    ASSUME Inv, Publish PROVE Inv'
<1> DEFINE pushed == Append(events, next)
<1>1. /\ events \in Seq(0..MaxEvents) /\ Len(events) \in Nat /\ next \in 0..MaxEvents
      /\ next' = next + 1 /\ next' \in 0..MaxEvents /\ events' = Newest(pushed)
      /\ UNCHANGED <<at, cursor, since, got, told>>
  BY HubAssumption DEF Inv, TypeOK, Publish, history
<1>2. /\ pushed \in Seq(0..MaxEvents) /\ Len(pushed) = Len(events) + 1
      /\ \A i \in 1..Len(pushed) : pushed[i] = next' - Len(pushed) + i - 1
  BY <1>1 DEF Inv, RingOK
<1>3. CASE Len(pushed) <= CAPACITY
  <2>1. events' = pushed
    BY <1>1, <1>2, <1>3, HubAssumption DEF Newest
  <2>2. QED
    <3>1. TypeOK' /\ RingOK'
      BY <1>1, <1>2, <1>3, <2>1, HubAssumption
      DEF Inv, TypeOK, RingOK, NotifyOK, Publish, OwesNotify
    <3>2. QED
      BY <1>1, <3>1, HubAssumption
      DEF Inv, TypeOK, NotifyOK, CursorOK, Covered, Ascending, Publish, OwesNotify
<1>4. CASE Len(pushed) > CAPACITY
  <2>1. events' = Tail(pushed)
    BY <1>1, <1>2, <1>4, HubAssumption DEF Newest
  <2>2. /\ events' \in Seq(0..MaxEvents) /\ Len(events') = Len(events)
        /\ \A i \in 1..Len(events') : events'[i] = pushed[i + 1]
    BY <1>1, <1>2, <2>1
  <2>3. TypeOK' /\ RingOK'
    <3>1. RingOK'
      <4>1. \A i \in 1..Len(events) : i + 1 \in 1..Len(pushed)
        BY <1>1, <1>2
      <4>2. \A i \in 1..Len(events) : events'[i] = next' - Len(pushed) + (i + 1) - 1
        BY <1>2, <2>2, <4>1
      <4>3. Len(events') <= next'
        BY <1>1, <2>2 DEF Inv, RingOK
      <4> HIDE DEF pushed
      <4>4. QED BY <1>1, <1>2, <2>2, <4>2, <4>3 DEF RingOK
    <3>2. TypeOK'
      BY <1>1, <2>2, HubAssumption DEF Inv, TypeOK, NotifyOK, Publish, OwesNotify
    <3>3. QED BY <3>1, <3>2
  <2>4. QED
    BY <1>1, <2>3, HubAssumption
    DEF Inv, TypeOK, NotifyOK, CursorOK, Covered, Ascending, Publish, OwesNotify
<1>5. QED BY <1>1, <1>2, <1>3, <1>4, HubAssumption

\* A subscription begins at next with nothing sent.
LEMMA SubscribeKeeps ==
    ASSUME Inv, NEW c \in Clients, Subscribe(c) PROVE Inv'
<1>1. TypeOK' /\ RingOK' /\ NotifyOK'
  BY HubAssumption DEF Inv, TypeOK, RingOK, NotifyOK, Subscribe, ring
<1>2. ASSUME NEW d \in Clients PROVE CursorOK(d)' /\ Covered(d)' /\ Ascending(d)'
  <2>1. CASE d = c
    BY <2>1, HubAssumption
    DEF Inv, TypeOK, CursorOK, Covered, Ascending, Subscribe, ring
  <2>2. CASE d # c
    BY <1>2, <2>2 DEF Inv, TypeOK, CursorOK, Covered, Ascending, Subscribe, ring
  <2>3. QED BY <2>1, <2>2
<1>3. QED BY <1>1, <1>2 DEF Inv

\* recv sends what the ring still has of what came after the cursor and says that it
\* lagged when that is not all of it.
LEMMA ReceiveKeeps ==
    ASSUME Inv, NEW c \in Clients, Receive(c) PROVE Inv'
<1> DEFINE frame == FromCursor(c)
           n == Len(got[c])
<1>1. /\ events \in Seq(0..MaxEvents) /\ Len(events) \in Nat /\ next \in 0..MaxEvents
      /\ next \in Nat /\ cursor[c] \in Nat /\ since[c] \in Nat /\ told[c] \in Nat
      /\ got[c] \in Seq(0..MaxEvents) /\ n \in Nat /\ next > cursor[c]
      /\ cursor \in [Clients -> 0..MaxEvents] /\ told \in [Clients -> 0..MaxEvents]
      /\ got \in [Clients -> Seq(0..MaxEvents)] /\ since \in [Clients -> 0..MaxEvents]
  BY HubAssumption DEF Inv, TypeOK, Receive
<1>2. PICK first \in 1..(Len(events) + 1) :
        /\ frame = SubSeq(events, first, Len(events))
        /\ \A j \in 1..(first - 1) : events[j] < cursor[c]
        /\ \A j \in first..Len(events) : events[j] >= cursor[c]
  BY <1>1, KeptEvents
<1>3. /\ frame \in Seq(0..MaxEvents) /\ Len(frame) = Len(events) - first + 1
      /\ \A i \in 1..Len(frame) : frame[i] = events[first + i - 1]
  <2> HIDE DEF frame
  <2>1. \A i \in first..Len(events) : events[i] \in 0..MaxEvents
    <3>1. \A i \in 1..Len(events) : events[i] \in 0..MaxEvents
      BY <1>1, ElementOfSeq
    <3>2. \A i \in first..Len(events) : i \in 1..Len(events)
      BY <1>1, <1>2
    <3>3. QED BY <3>1, <3>2
  <2>2. /\ frame \in Seq(0..MaxEvents)
        /\ Len(frame) = IF first <= Len(events) THEN Len(events) - first + 1 ELSE 0
        /\ \A i \in 1..(Len(events) - first + 1) : frame[i] = events[first + i - 1]
    BY <1>1, <1>2, <2>1, SubSeqProperties
  <2>3. QED BY <1>1, <1>2, <2>2
<1>4. \A i \in 1..Len(events) : events[i] = next - Len(events) + i - 1
  BY DEF Inv, RingOK
<1>5. \A i \in 1..Len(frame) : /\ frame[i] = next - Len(frame) + i - 1
                               /\ cursor[c] <= frame[i] /\ frame[i] < next
  BY <1>1, <1>2, <1>3, <1>4
<1>6. Oldest \in 0..MaxEvents /\ Oldest <= next /\ Oldest = next - Len(events)
  <2>1. CASE events = <<>>
    BY <1>1, <2>1 DEF Oldest
  <2>2. CASE events # <<>>
    <3>1. Head(events) = events[1] /\ 1 \in 1..Len(events)
      BY <1>1, <2>2
    <3>2. Oldest = next - Len(events) + 1 - 1 /\ Len(events) <= next
      BY <1>4, <2>2, <3>1 DEF Oldest, Inv, RingOK
    <3>3. QED BY <1>1, <3>2, HubAssumption
  <2>3. QED BY <2>1, <2>2
<1>7. /\ cursor' = [cursor EXCEPT ![c] = next] /\ got' = [got EXCEPT ![c] = @ \o frame]
      /\ told' \in [Clients -> 0..MaxEvents] /\ \A d \in Clients \ {c} : told'[d] = told[d]
      /\ told'[c] = IF Oldest > cursor[c] THEN Oldest ELSE told[c]
      /\ UNCHANGED <<events, next, unnotified, at, since>>
  BY <1>1, <1>6 DEF Receive, Lagged, After, ring
<1> HIDE DEF frame
<1>8. /\ got'[c] = got[c] \o frame /\ got'[c] \in Seq(0..MaxEvents)
      /\ Len(got'[c]) = n + Len(frame)
      /\ \A i \in 1..n : got'[c][i] = got[c][i]
      /\ \A i \in (n + 1)..(n + Len(frame)) : got'[c][i] = frame[i - n]
      /\ cursor'[c] = next
  <2>1. got'[c] = got[c] \o frame /\ cursor'[c] = next
    BY <1>1, <1>7
  <2>2. /\ got[c] \o frame \in Seq(0..MaxEvents) /\ Len(got[c] \o frame) = n + Len(frame)
        /\ \A i \in 1..(n + Len(frame)) :
             (got[c] \o frame)[i] = IF i <= n THEN got[c][i] ELSE frame[i - n]
    BY <1>1, <1>3, ConcatProperties, ZenonT(40)
  <2>3. Len(frame) \in Nat
    BY <1>3
  <2>4. QED BY <1>1, <2>1, <2>2, <2>3
<1>9. TypeOK' /\ RingOK' /\ NotifyOK'
  BY <1>1, <1>7, <1>8 DEF Inv, TypeOK, RingOK, NotifyOK
<1>10. CursorOK(c)' /\ Ascending(c)'
  <2>1. /\ \A i \in 1..n : got[c][i] \in Nat /\ got[c][i] < cursor[c]
        /\ \A i \in 1..Len(frame) : frame[i] \in Nat
        /\ Len(frame) \in Nat
    <3>1. \A i \in 1..n : got[c][i] < cursor[c]
      BY DEF Inv, CursorOK
    <3>2. \A i \in 1..n : got[c][i] \in 0..MaxEvents
      BY <1>1, ElementOfSeq
    <3>3. \A i \in 1..Len(frame) : frame[i] \in 0..MaxEvents
      BY <1>3, ElementOfSeq
    <3>4. Len(frame) \in Nat
      BY <1>3
    <3>5. QED BY <3>1, <3>2, <3>3, <3>4, HubAssumption, SMTT(30)
  <2>2. CursorOK(c)'
    <3>1. \A i \in 1..(n + Len(frame)) : got'[c][i] < next
      <4>1. \A i \in 1..n : got'[c][i] < next
        BY <1>1, <1>8, <2>1
      <4>2. \A i \in (n + 1)..(n + Len(frame)) : got'[c][i] < next
        <5>1. \A i \in (n + 1)..(n + Len(frame)) : i - n \in 1..Len(frame)
          BY <1>1, <2>1
        <5>2. QED BY <1>5, <1>8, <5>1
      <4>3. \A i \in 1..(n + Len(frame)) : i \in 1..n \/ i \in (n + 1)..(n + Len(frame))
        BY <1>1, <2>1
      <4>4. QED BY <4>1, <4>2, <4>3
    <3>2. since[c] <= next /\ told'[c] <= next
      BY <1>1, <1>6, <1>7 DEF Inv, CursorOK
    <3>3. QED BY <1>1, <1>7, <1>8, <3>1, <3>2 DEF CursorOK
  <2>3. Ascending(c)'
    <3> SUFFICES ASSUME NEW i \in 1..(n + Len(frame)), NEW j \in 1..(n + Len(frame)), i < j
                 PROVE  got'[c][i] < got'[c][j]
      BY <1>8 DEF Ascending
    <3>1. CASE j <= n
      BY <1>1, <1>8, <2>1, <3>1 DEF Inv, Ascending
    <3>2. CASE i <= n /\ n < j
      <4>1. i \in 1..n /\ j \in (n + 1)..(n + Len(frame)) /\ j - n \in 1..Len(frame)
        BY <1>1, <2>1, <3>2
      <4>2. got'[c][i] = got[c][i] /\ got'[c][j] = frame[j - n]
        BY <1>8, <4>1
      <4>3. got[c][i] < cursor[c] /\ cursor[c] <= frame[j - n]
        BY <1>5, <2>1, <4>1
      <4>4. got[c][i] \in Nat /\ frame[j - n] \in Nat
        BY <2>1, <4>1
      <4>5. \A a, b, k \in Nat : a < k /\ k <= b => a < b
        OBVIOUS
      <4>6. QED BY <1>1, <4>2, <4>3, <4>4, <4>5
    <3>3. CASE n < i
      <4>1. /\ i \in (n + 1)..(n + Len(frame)) /\ j \in (n + 1)..(n + Len(frame))
            /\ i - n \in 1..Len(frame) /\ j - n \in 1..Len(frame)
        BY <1>1, <2>1, <3>3
      <4>2. got'[c][i] = frame[i - n] /\ got'[c][j] = frame[j - n]
        BY <1>8, <4>1
      <4>3. /\ frame[i - n] = next - Len(frame) + (i - n) - 1
            /\ frame[j - n] = next - Len(frame) + (j - n) - 1
        BY <1>5, <4>1
      <4>4. QED BY <1>1, <2>1, <4>2, <4>3
    <3>4. QED BY <1>1, <2>1, <3>1, <3>2, <3>3
  <2>4. QED BY <2>2, <2>3
<1>11. Covered(c)'
  <2> SUFFICES ASSUME NEW e \in since[c]..(next - 1)
               PROVE  e < told'[c] \/ \E i \in 1..(n + Len(frame)) : got'[c][i] = e
    BY <1>7, <1>8 DEF Covered
  <2>1. CASE e < cursor[c]
    <3>1. e < told[c] \/ \E i \in 1..n : got[c][i] = e
      <4>1. e \in since[c]..(cursor[c] - 1)
        BY <1>1, <2>1
      <4>2. QED BY <4>1 DEF Inv, Covered
    <3>2. told[c] <= told'[c]
      BY <1>1, <1>6, <1>7 DEF Inv, CursorOK
    <3>3. e < told[c] => e < told'[c]
      BY <1>1, <1>6, <1>7, <3>2
    <3>4. ASSUME NEW i \in 1..n, got[c][i] = e
          PROVE  \E k \in 1..(n + Len(frame)) : got'[c][k] = e
      <4>1. i \in 1..(n + Len(frame))
        BY <1>1, <1>3, <3>4
      <4>2. QED BY <1>8, <3>4, <4>1
    <3>5. QED BY <3>1, <3>3, <3>4
  <2>2. CASE cursor[c] <= e /\ e < Oldest
    BY <1>1, <1>6, <1>7, <2>2
  <2>3. CASE cursor[c] <= e /\ Oldest <= e
    <3> DEFINE i == e - Oldest + 1
    <3>1. i \in 1..Len(events) /\ events[i] = e
      <4>1. i \in 1..Len(events)
        BY <1>1, <1>6, <2>3
      <4>2. events[i] = next - Len(events) + i - 1
        BY <1>4, <4>1
      <4>3. QED BY <1>1, <1>6, <4>1, <4>2
    <3>2. i >= first
      BY <1>1, <1>2, <2>3, <3>1
    <3>3. i - first + 1 \in 1..Len(frame) /\ frame[i - first + 1] = e
      <4> HIDE DEF i
      <4>1. i - first + 1 \in 1..Len(frame) /\ first + (i - first + 1) - 1 = i
        BY <1>1, <1>2, <1>3, <3>1, <3>2
      <4>2. frame[i - first + 1] = events[first + (i - first + 1) - 1]
        BY <1>3, <4>1
      <4>3. QED BY <3>1, <4>1, <4>2
    <3>4. /\ n + (i - first + 1) \in 1..(n + Len(frame))
          /\ got'[c][n + (i - first + 1)] = e
      <4> DEFINE k == i - first + 1
      <4>1. k \in 1..Len(frame) /\ frame[k] = e /\ Len(frame) \in Nat
        BY <1>3, <3>3
      <4> HIDE DEF k, i
      <4>2. /\ n + k \in (n + 1)..(n + Len(frame)) /\ n + k \in 1..(n + Len(frame))
            /\ (n + k) - n = k
        BY <1>1, <4>1
      <4>3. got'[c][n + k] = frame[(n + k) - n]
        BY <1>8, <4>2
      <4>4. QED BY <4>1, <4>2, <4>3 DEF k
    <3>5. QED BY <3>4
  <2>4. QED BY <1>1, <1>6, <2>1, <2>2, <2>3
<1>12. ASSUME NEW d \in Clients, d # c PROVE CursorOK(d)' /\ Covered(d)' /\ Ascending(d)'
  <2>1. /\ cursor'[d] = cursor[d] /\ got'[d] = got[d] /\ told'[d] = told[d]
        /\ since'[d] = since[d] /\ next' = next
    BY <1>1, <1>7, <1>12
  <2>2. QED BY <1>12, <2>1 DEF Inv, CursorOK, Covered, Ascending
<1>13. QED BY <1>9, <1>10, <1>11, <1>12 DEF Inv

\* The other actions move threads only.
LEMMA NextKeepsInv == Inv /\ [Next]_vars => Inv'
<1> SUFFICES ASSUME Inv, [Next]_vars PROVE Inv'
  OBVIOUS
<1>1. ASSUME UNCHANGED <<ring, cursor, history>>, unnotified' \in 0..unnotified,
             at' \in [Clients -> {"away", "running", "asleep"}]
      PROVE  Inv'
  BY <1>1, HubAssumption
  DEF Inv, TypeOK, RingOK, NotifyOK, CursorOK, Covered, Ascending, ring, history
<1>2. unnotified \in 0..unnotified /\ at \in [Clients -> {"away", "running", "asleep"}]
  BY HubAssumption DEF Inv, TypeOK
<1>3. CASE Notify
  BY <1>1, <1>2, <1>3 DEF Notify, Woken
<1>4. CASE \E c \in Clients : Wait(c) \/ Timeout(c) \/ Leave(c)
  BY <1>1, <1>2, <1>4 DEF Wait, Timeout, Leave
<1>5. CASE UNCHANGED vars
  BY <1>1, <1>2, <1>5 DEF vars
<1>6. QED BY <1>3, <1>4, <1>5, PublishKeeps, SubscribeKeeps, ReceiveKeeps DEF Next

\* recv and publish, for every capacity: no event is lost in silence, sent twice or sent
\* out of order, whatever the publishers and the other connections do meanwhile.
THEOREM StreamsAreTrue == Spec => []StreamTrue
<1>1. Inv => StreamTrue
  BY DEF Inv, StreamTrue, NoSilentLoss, InOrder, Covered, Ascending
<1>2. QED BY <1>1, InitInv, NextKeepsInv, PTL DEF Spec

-----------------------------------------------------------------------------
(* The window of a RateLimiter.  Sends are recorded as they are granted, so  *)
(* ages descend and what is in the window is a suffix.                       *)

Descending(ages) == \A i, j \in 1..Len(ages) : i < j => ages[i] >= ages[j]

\* k is where the window begins in ages.
Begins(ages, k) ==
    /\ k \in 1..(Len(ages) + 1)
    /\ \A j \in 1..(k - 1) : ages[j] >= Window
    /\ \A j \in k..Len(ages) : ages[j] < Window

\* A set of naturals that is not empty has a least element.
LEMMA LeastExists ==
    ASSUME NEW S, S \subseteq Nat, S # {}
    PROVE  \E t \in S : \A u \in S : t <= u
<1> DEFINE R == OpToRel(<, Nat)
<1>1. IsWellFoundedOn(R, Nat)
  BY NatLessThanWellFounded
<1>2. \A x, y \in Nat : y < x => <<y, x>> \in R
  BY DEF OpToRel
<1> HIDE DEF R
<1>3. PICK x \in S : \A y \in S : ~(<<y, x>> \in R)
  BY <1>1, WFMin, Zenon
<1>4. \A y \in S : ~(y < x)
  BY <1>2, <1>3
<1>5. QED BY <1>4

LEMMA AgesAreNumbers ==
    ASSUME NEW ages \in Seq(0..Window)
    PROVE  Len(ages) \in Nat /\ \A i \in 1..Len(ages) : ages[i] \in 0..Window /\ ages[i] \in Nat
<1>1. Len(ages) \in Nat /\ \A i \in 1..Len(ages) : ages[i] \in 0..Window
  BY ElementOfSeq, LenProperties
<1>2. QED BY <1>1, LimiterParameters

\* Popping the front until an entry is in the window finds where the window begins.
LEMMA WindowBegins ==
    ASSUME NEW ages \in Seq(0..Window), Descending(ages)
    PROVE  Begins(ages, FirstInWindow(ages))
<1> DEFINE n == Len(ages)
           Fits(i) == /\ \A j \in 1..(i - 1) : ages[j] >= Window
                      /\ i <= n => ages[i] < Window
           S == {i \in 1..(n + 1) : i = n + 1 \/ ages[i] < Window}
<1>1. n \in Nat /\ \A i \in 1..n : ages[i] \in Nat
  BY AgesAreNumbers
<1>2. PICK k \in S : \A u \in S : k <= u
  <2>1. n + 1 \in S /\ S \subseteq Nat
    BY <1>1
  <2> HIDE DEF S
  <2>2. QED BY <2>1, LeastExists
<1>3. k \in 1..(n + 1) /\ Fits(k)
  BY <1>1, <1>2, LimiterParameters
<1> HIDE DEF Fits
<1>4. FirstInWindow(ages) \in 1..(n + 1) /\ Fits(FirstInWindow(ages))
  <2>1. FirstInWindow(ages) = CHOOSE i \in 1..(n + 1) : Fits(i)
    BY DEF FirstInWindow, Fits
  <2>2. QED BY <1>3, <2>1
<1>5. ASSUME NEW i \in 1..(n + 1), Fits(i) PROVE Begins(ages, i)
  BY <1>1, <1>5, LimiterParameters DEF Fits, Begins, Descending
<1>6. QED BY <1>4, <1>5

LEMMA WindowBeginsOnce ==
    ASSUME NEW ages \in Seq(0..Window), Descending(ages), NEW k, Begins(ages, k)
    PROVE  FirstInWindow(ages) = k
<1> DEFINE m == FirstInWindow(ages)
<1>1. Begins(ages, m)
  BY WindowBegins
<1>2. Len(ages) \in Nat /\ \A i \in 1..Len(ages) : ages[i] \in Nat
  BY AgesAreNumbers
<1> HIDE DEF m
<1>3. ~(k < m)
  BY <1>1, <1>2, LimiterParameters DEF Begins
<1>4. ~(m < k)
  BY <1>1, <1>2, LimiterParameters DEF Begins
<1>5. k \in Nat /\ m \in Nat
  BY <1>1, <1>2 DEF Begins
<1>6. QED BY <1>3, <1>4, <1>5 DEF m

\* What InWindow keeps.
LEMMA InWindowIs ==
    ASSUME NEW ages \in Seq(0..Window), NEW k, Begins(ages, k), FirstInWindow(ages) = k
    PROVE  /\ InWindow(ages) \in Seq(0..Window)
           /\ Len(InWindow(ages)) = Len(ages) - k + 1
           /\ \A i \in 1..Len(InWindow(ages)) : /\ k + i - 1 \in k..Len(ages)
                                                /\ InWindow(ages)[i] = ages[k + i - 1]
<1>1. Len(ages) \in Nat /\ k \in 1..(Len(ages) + 1)
  BY AgesAreNumbers DEF Begins
<1>2. \A i \in k..Len(ages) : ages[i] \in 0..Window
  <2>1. \A i \in k..Len(ages) : i \in 1..Len(ages)
    BY <1>1
  <2>2. QED BY <2>1, AgesAreNumbers
<1>3. /\ InWindow(ages) \in Seq(0..Window)
      /\ Len(InWindow(ages)) = IF k <= Len(ages) THEN Len(ages) - k + 1 ELSE 0
      /\ \A i \in 1..(Len(ages) - k + 1) : InWindow(ages)[i] = ages[k + i - 1]
  BY <1>1, <1>2, SubSeqProperties DEF InWindow
<1>4. Len(InWindow(ages)) = Len(ages) - k + 1
  BY <1>1, <1>3
<1>5. \A i \in 1..(Len(ages) - k + 1) : k + i - 1 \in k..Len(ages)
  BY <1>1
<1>6. QED BY <1>3, <1>4, <1>5

\* All that is left is in the window, in order, and popping again pops nothing.
LEMMA WindowDescends ==
    ASSUME NEW ages \in Seq(0..Window), Descending(ages)
    PROVE  /\ InWindow(ages) \in Seq(0..Window) /\ Descending(InWindow(ages))
           /\ \A i \in 1..Len(InWindow(ages)) : InWindow(ages)[i] < Window
<1> DEFINE k == FirstInWindow(ages)
           left == InWindow(ages)
<1>1. Begins(ages, k)
  BY WindowBegins
<1>2. /\ left \in Seq(0..Window) /\ Len(left) = Len(ages) - k + 1
      /\ \A i \in 1..Len(left) : k + i - 1 \in k..Len(ages) /\ left[i] = ages[k + i - 1]
  BY <1>1, InWindowIs
<1>3. Len(ages) \in Nat /\ k \in 1..(Len(ages) + 1) /\ Len(left) \in Nat
  BY <1>1, <1>2, AgesAreNumbers DEF Begins
<1> HIDE DEF k, left
<1>4. \A i \in 1..Len(left) : left[i] < Window
  BY <1>1, <1>2 DEF Begins
<1>5. ASSUME NEW i \in 1..Len(left), NEW j \in 1..Len(left), i < j PROVE left[i] >= left[j]
  <2>1. k + i - 1 \in 1..Len(ages) /\ k + j - 1 \in 1..Len(ages) /\ k + i - 1 < k + j - 1
    BY <1>2, <1>3, <1>5
  <2>2. QED BY <1>2, <2>1 DEF Descending
<1>6. QED BY <1>2, <1>4, <1>5 DEF Descending, left

\* A window nothing has left.
LEMMA WholeWindow ==
    ASSUME NEW ages \in Seq(0..Window), Descending(ages), \A i \in 1..Len(ages) : ages[i] < Window
    PROVE  InWindow(ages) = ages
<1>1. Len(ages) \in Nat
  BY AgesAreNumbers
<1>2. Begins(ages, 1)
  BY <1>1 DEF Begins
<1>3. FirstInWindow(ages) = 1
  BY <1>2, WindowBeginsOnce
<1>4. QED BY <1>3, SubSeqFull DEF InWindow

LEMMA OlderIs ==
    ASSUME NEW ages \in Seq(0..Window)
    PROVE  /\ Older(ages) \in Seq(0..Window) /\ Len(Older(ages)) = Len(ages)
           /\ \A i \in 1..Len(ages) : /\ Older(ages)[i] = Least(ages[i] + 1, Window)
                                      /\ ages[i] >= Window => Older(ages)[i] >= Window
           /\ Descending(ages) => Descending(Older(ages))
<1>1. Len(ages) \in Nat /\ DOMAIN ages = 1..Len(ages)
  BY LenProperties
<1>2. /\ \A i \in 1..Len(ages) : ages[i] \in Nat
      /\ \A i \in 1..Len(ages) : Least(ages[i] + 1, Window) \in 0..Window
  BY AgesAreNumbers, LimiterParameters DEF Least
<1>3. Older(ages) = [i \in 1..Len(ages) |-> Least(ages[i] + 1, Window)]
  BY <1>1 DEF Older
<1>4. /\ Older(ages) \in Seq(0..Window) /\ Len(Older(ages)) = Len(ages)
      /\ \A i \in 1..Len(ages) : Older(ages)[i] = Least(ages[i] + 1, Window)
  BY <1>1, <1>2, <1>3
<1>5. \A i \in 1..Len(ages) : ages[i] >= Window => Least(ages[i] + 1, Window) >= Window
  BY <1>2, LimiterParameters DEF Least
<1>6. ASSUME Descending(ages) PROVE Descending(Older(ages))
  <2> SUFFICES ASSUME NEW i \in 1..Len(ages), NEW j \in 1..Len(ages), i < j
               PROVE  Least(ages[i] + 1, Window) >= Least(ages[j] + 1, Window)
    BY <1>4 DEF Descending
  <2>1. ages[i] >= ages[j]
    BY <1>6 DEF Descending
  <2>2. QED BY <1>2, <2>1, LimiterParameters, SMTT(30) DEF Least
<1>7. QED BY <1>4, <1>5, <1>6

\* Time takes the same entries out of the window whether or not the ones that had left
\* it were popped before.
LEMMA WindowInTime ==
    ASSUME NEW ages \in Seq(0..Window), Descending(ages)
    PROVE  InWindow(Older(InWindow(ages))) = InWindow(Older(ages))
<1> DEFINE left == InWindow(ages)
           old == Older(ages)
           oldLeft == Older(left)
           n == Len(ages)
           k == FirstInWindow(ages)
           m == FirstInWindow(old)
           l == m - k + 1
<1>1. left \in Seq(0..Window) /\ Descending(left)
  BY WindowDescends
<1>2. /\ old \in Seq(0..Window) /\ Len(old) = n /\ Descending(old)
      /\ \A i \in 1..n : /\ old[i] = Least(ages[i] + 1, Window)
                         /\ ages[i] >= Window => old[i] >= Window
  BY OlderIs
<1>3. /\ oldLeft \in Seq(0..Window) /\ Len(oldLeft) = Len(left) /\ Descending(oldLeft)
      /\ \A i \in 1..Len(left) : oldLeft[i] = Least(left[i] + 1, Window)
  BY <1>1, OlderIs
<1>4. n \in Nat /\ \A i \in 1..n : old[i] \in Nat
  BY <1>2, AgesAreNumbers
<1>5. Begins(ages, k) /\ Begins(old, m)
  BY <1>2, WindowBegins
<1>6. /\ Len(left) = n - k + 1
      /\ \A i \in 1..Len(left) : k + i - 1 \in k..n /\ left[i] = ages[k + i - 1]
  BY <1>5, InWindowIs
<1>7. k \in 1..(n + 1) /\ m \in 1..(n + 1) /\ Len(left) \in Nat
  BY <1>2, <1>4, <1>5, <1>6 DEF Begins
<1> HIDE DEF left, old, oldLeft, k, m, n
<1>8. m >= k
  <2> SUFFICES ASSUME m < k PROVE FALSE
    BY <1>7
  <2>1. m \in 1..(k - 1) /\ m \in m..n /\ m \in 1..n
    BY <1>4, <1>7
  <2>2. ages[m] >= Window /\ old[m] < Window
    BY <1>2, <1>5, <2>1 DEF Begins, n
  <2>3. QED BY <1>2, <1>4, <2>1, <2>2, LimiterParameters
<1>9. \A i \in 1..Len(left) : k + i - 1 \in 1..n /\ oldLeft[i] = old[k + i - 1]
  <2>1. \A i \in 1..Len(left) : k + i - 1 \in 1..n
    BY <1>4, <1>6, <1>7
  <2>2. QED BY <1>2, <1>3, <1>6, <2>1
<1>10. Begins(oldLeft, l)
  <2>1. l \in 1..(Len(oldLeft) + 1)
    BY <1>3, <1>4, <1>6, <1>7, <1>8
  <2>2. ASSUME NEW j \in 1..(l - 1) PROVE oldLeft[j] >= Window
    <3>1. j \in 1..Len(left) /\ k + j - 1 \in 1..(m - 1)
      BY <1>3, <1>4, <1>6, <1>7, <1>8
    <3>2. QED BY <1>5, <1>9, <3>1 DEF Begins
  <2>3. ASSUME NEW j \in l..Len(oldLeft) PROVE oldLeft[j] < Window
    <3>1. j \in 1..Len(left) /\ k + j - 1 \in m..n
      BY <1>3, <1>4, <1>6, <1>7, <1>8
    <3>2. QED BY <1>2, <1>5, <1>9, <3>1 DEF Begins
  <2>4. QED BY <2>1, <2>2, <2>3 DEF Begins
<1>11. FirstInWindow(oldLeft) = l
  BY <1>3, <1>10, WindowBeginsOnce
<1>12. /\ InWindow(oldLeft) \in Seq(0..Window) /\ Len(InWindow(oldLeft)) = Len(oldLeft) - l + 1
       /\ \A i \in 1..Len(InWindow(oldLeft)) : InWindow(oldLeft)[i] = oldLeft[l + i - 1]
  BY <1>3, <1>10, <1>11, InWindowIs
<1>13. /\ InWindow(old) \in Seq(0..Window) /\ Len(InWindow(old)) = n - m + 1
       /\ \A i \in 1..Len(InWindow(old)) : InWindow(old)[i] = old[m + i - 1]
  BY <1>2, <1>5, InWindowIs DEF m
<1>14. Len(InWindow(oldLeft)) = n - m + 1
  BY <1>3, <1>4, <1>6, <1>7, <1>12
<1>15. ASSUME NEW i \in 1..(n - m + 1) PROVE InWindow(oldLeft)[i] = InWindow(old)[i]
  <2>1. l + i - 1 \in 1..Len(left) /\ k + (l + i - 1) - 1 = m + i - 1
    BY <1>4, <1>6, <1>7, <1>8, SMTT(30)
  <2>2. oldLeft[l + i - 1] = old[k + (l + i - 1) - 1]
    BY <1>9, <2>1
  <2>3. QED BY <1>12, <1>13, <1>14, <2>1, <2>2
<1>16. QED BY <1>12, <1>13, <1>14, <1>15, SeqEqual DEF old, oldLeft, left

-----------------------------------------------------------------------------
(* The limiter: what was granted in the last window is what `sent` has of it, *)
(* and a block is in force for as long as a 429 asked for.                     *)

LimiterInv ==
    /\ LimiterTypeOK
    /\ Descending(sent) /\ recent = InWindow(sent)
    /\ pause = blocked

\* A granted send is recorded at the end of its window.
LEMMA GrantKeeps ==
    ASSUME LimiterInv, Grant
    PROVE  /\ LimiterInv'
           /\ Len(recent') > Len(recent) => Len(recent') <= limit
<1>1. /\ sent \in Seq(0..Window) /\ Descending(sent) /\ recent = InWindow(sent)
      /\ UNCHANGED <<limit, blocked, pause>> /\ Len(recent) \in Nat
  BY DEF LimiterInv, LimiterTypeOK, Grant
<1>2. CASE limit = 0
  BY <1>1, <1>2 DEF LimiterInv, LimiterTypeOK, Grant
<1>3. CASE limit # 0
  <2>1. sent' = Append(recent, 0) /\ recent' = Append(recent, 0)
    BY <1>1, <1>3 DEF Grant
  <2>2. /\ recent \in Seq(0..Window) /\ Descending(recent)
        /\ \A i \in 1..Len(recent) : recent[i] < Window
    BY <1>1, WindowDescends
  <2>3. 0 \in 0..Window /\ 0 < Window
    BY LimiterParameters
  <2>4. /\ sent' \in Seq(0..Window) /\ Len(sent') = Len(recent) + 1
        /\ \A i \in 1..Len(recent) : sent'[i] = recent[i]
        /\ sent'[Len(recent) + 1] = 0
    BY <2>1, <2>2, <2>3, AppendProperties
  <2>5. \A i \in 1..(Len(recent) + 1) : i \in 1..Len(recent) \/ i = Len(recent) + 1
    BY <1>1
  <2>6. \A i \in 1..Len(recent) : recent[i] \in Nat
    BY <2>2, AgesAreNumbers
  <2>7. Descending(sent')
    BY <1>1, <2>2, <2>4, <2>5, <2>6 DEF Descending
  <2>8. \A i \in 1..Len(sent') : sent'[i] < Window
    BY <2>2, <2>3, <2>4, <2>5
  <2>9. InWindow(sent') = sent'
    BY <2>4, <2>7, <2>8, WholeWindow
  <2>10. Len(recent') <= limit
    <3>1. limit \in Nat /\ Len(recent) < limit
      BY <1>1, <1>3, LimiterParameters DEF Grant, Free, LimiterInv, LimiterTypeOK
    <3>2. QED BY <1>1, <2>1, <2>4, <3>1
  <2>11. LimiterInv'
    <3>1. InWindow(sent)' = InWindow(sent')
      BY DEF InWindow, FirstInWindow
    <3>2. Descending(sent)' = Descending(sent')
      BY DEF Descending
    <3>3. QED
      BY <1>1, <2>1, <2>4, <2>7, <2>9, <3>1, <3>2 DEF LimiterInv, LimiterTypeOK
  <2>12. QED BY <2>10, <2>11
<1>4. QED BY <1>2, <1>3

LEMMA NoGrantKeeps ==
    ASSUME LimiterInv, NoGrant
    PROVE  LimiterInv'
<1>1. /\ sent \in Seq(0..Window) /\ Descending(sent) /\ recent = InWindow(sent)
      /\ UNCHANGED <<limit, blocked, recent, pause>>
  BY DEF LimiterInv, LimiterTypeOK, NoGrant
<1>2. /\ InWindow(sent)' = InWindow(sent') /\ Descending(sent)' = Descending(sent')
  BY DEF InWindow, FirstInWindow, Descending
<1>3. CASE sent' = sent
  BY <1>1, <1>2, <1>3 DEF LimiterInv, LimiterTypeOK
<1>4. CASE sent' = InWindow(sent)
  <2>1. /\ sent' \in Seq(0..Window) /\ Descending(sent')
        /\ \A i \in 1..Len(sent') : sent'[i] < Window
    BY <1>1, <1>4, WindowDescends
  <2>2. InWindow(sent') = sent'
    BY <2>1, WholeWindow
  <2>3. QED BY <1>1, <1>2, <1>4, <2>1, <2>2 DEF LimiterInv, LimiterTypeOK
<1>5. QED BY <1>3, <1>4 DEF NoGrant

LEMMA BlockForKeeps ==
    ASSUME LimiterInv, NEW d \in RetryAfters, BlockFor(d)
    PROVE  LimiterInv' /\ recent' = recent
<1>1. /\ d \in Nat /\ blocked \in 0..MAX_RETRY_AFTER /\ MAX_RETRY_AFTER \in Nat
      /\ pause = blocked
  BY LimiterParameters DEF LimiterInv, LimiterTypeOK
<1>2. blocked' \in 0..MAX_RETRY_AFTER /\ pause' = blocked'
  BY <1>1 DEF BlockFor, Most, Least
<1>3. UNCHANGED <<limit, sent, recent>>
  BY DEF BlockFor
<1>4. QED
  BY <1>2, <1>3 DEF LimiterInv, LimiterTypeOK, InWindow, FirstInWindow, Descending

LEMMA TimeKeeps ==
    ASSUME LimiterInv, LimiterTick
    PROVE  LimiterInv' /\ Len(recent') <= Len(recent)
<1>1. /\ sent \in Seq(0..Window) /\ Descending(sent) /\ recent = InWindow(sent)
      /\ sent' = Older(sent) /\ recent' = InWindow(Older(recent)) /\ UNCHANGED limit
  BY DEF LimiterInv, LimiterTypeOK, LimiterTick
<1>2. sent' \in Seq(0..Window) /\ Descending(sent')
  BY <1>1, OlderIs
<1>3. recent' = InWindow(sent') /\ recent' \in Seq(0..Window)
  BY <1>1, <1>2, WindowInTime, WindowDescends
<1>4. blocked' \in 0..MAX_RETRY_AFTER /\ pause' = blocked'
  BY LimiterParameters DEF LimiterInv, LimiterTypeOK, LimiterTick, Sooner
<1>5. Len(recent') <= Len(recent)
  <2>1. /\ recent \in Seq(0..Window) /\ Descending(recent)
    BY <1>1, WindowDescends
  <2>2. /\ Older(recent) \in Seq(0..Window) /\ Len(Older(recent)) = Len(recent)
        /\ Descending(Older(recent))
    BY <2>1, OlderIs
  <2>3. Begins(Older(recent), FirstInWindow(Older(recent)))
    BY <2>2, WindowBegins
  <2>4. Len(recent') = Len(recent) - FirstInWindow(Older(recent)) + 1
    BY <1>1, <2>2, <2>3, InWindowIs
  <2>5. FirstInWindow(Older(recent)) \in 1..(Len(recent) + 1) /\ Len(recent) \in Nat
    BY <2>1, <2>2, <2>3, AgesAreNumbers DEF Begins
  <2>6. QED BY <2>4, <2>5
<1>6. InWindow(sent)' = InWindow(sent') /\ Descending(sent)' = Descending(sent')
  BY DEF InWindow, FirstInWindow, Descending
<1>7. LimiterInv'
  BY <1>1, <1>2, <1>3, <1>4, <1>6 DEF LimiterInv, LimiterTypeOK
<1>8. QED BY <1>5, <1>7

LEMMA LimiterStays ==
    ASSUME LimiterInv, UNCHANGED <<sent, blocked, recent, pause>>,
           limit' \in InitialLimits \cup PlanLimits
    PROVE  LimiterInv'
BY DEF LimiterInv, LimiterTypeOK, InWindow, FirstInWindow, Descending

\* Only a grant adds to the window.
LEMMA LimiterKept ==
    ASSUME LimiterInv, PoolNext
    PROVE  LimiterInv' /\ (Len(recent') > Len(recent) => Len(recent') <= limit)
<1>1. Len(recent) \in Nat
  BY DEF LimiterInv, LimiterTypeOK
<1>2. CASE UNCHANGED limiter
  BY <1>1, <1>2, LimiterStays DEF limiter, LimiterInv, LimiterTypeOK
<1>3. ASSUME NEW t \in Threads, Acquire(t)
      PROVE  LimiterInv' /\ (Len(recent') > Len(recent) => Len(recent') <= limit)
  BY <1>3, GrantKeeps DEF Acquire
<1>4. ASSUME NEW t \in Threads, Sleep(t)
      PROVE  LimiterInv' /\ (Len(recent') > Len(recent) => Len(recent') <= limit)
  BY <1>1, <1>4, NoGrantKeeps DEF Sleep, NoGrant
<1>5. ASSUME NEW t \in Threads, NEW d \in RetryAfters, TooMany(t, d)
      PROVE  LimiterInv' /\ (Len(recent') > Len(recent) => Len(recent') <= limit)
  BY <1>1, <1>5, BlockForKeeps DEF TooMany
<1>6. CASE PlanChanges
  BY <1>1, <1>6, LimiterStays DEF PlanChanges, SetLimit
<1>7. CASE Tick
  <2>1. LimiterInv' /\ Len(recent') <= Len(recent)
    BY <1>7, TimeKeeps DEF Tick
  <2>2. Len(recent') \in Nat
    BY <2>1 DEF LimiterInv, LimiterTypeOK
  <2>3. QED BY <1>1, <2>1, <2>2
<1>8. QED
  BY <1>2, <1>3, <1>4, <1>5, <1>6, <1>7
  DEF PoolNext, Caller, Thread, Spawn, SpawnRefused, SpawnedAll, Drained, AllReturns, PairSecond,
      PairFirst, PairReturns, Claim, TakeFirst, Refuse, Wake, Answered, Panics

-----------------------------------------------------------------------------
(* The pool. *)

AtWork == {"acquire", "asleep", "send", "pausing"}

PoolShape ==
    /\ call \in {"all", "pair"}
    /\ main \in {"spawn", "drain", "second", "join", "first", "answered", "unwound"}
    /\ workers \subseteq Threads \ {0}
    /\ nextIndex \in Nat
    /\ slots \subseteq Jobs
    /\ pc \in [Threads -> {"none", "claim", "acquire", "asleep", "send", "pausing", "ended"}]
    /\ job \in [Threads -> Jobs \cup {0}]
    /\ retries \in [Threads -> 0..max_429_retries]
    /\ nap \in [Threads -> Nat]
    /\ result \in [Jobs -> {"none", "answer", "limited", "panic"}]
    /\ runs \in [Jobs -> Nat]

\* Threads are started in order, at most as many as are wanted.
WorkersOK ==
    /\ Cardinality(workers) \in Nat /\ Cardinality(workers) <= Wanted
    /\ workers = 1..Cardinality(workers)

\* The counter of `all` hands the slots out in order.
SlotsOK ==
    /\ slots \subseteq Called /\ nextIndex \in Nat \ {0}
    /\ call = "all" => slots = {j \in Jobs : nextIndex <= j}

\* Where the caller is says which slots are full and whether its own thread works.
CallerOK ==
    /\ call = "all" => main \in {"spawn", "drain", "join", "answered", "unwound"}
    /\ call = "pair" => main \in {"spawn", "second", "first", "answered", "unwound"}
    /\ main = "spawn" => pc[0] = "none" /\ (call = "pair" => 2 \in slots)
    /\ main = "join" => pc[0] = "ended" \/ (pc[0] = "none" /\ workers # {})
    /\ call = "pair" /\ main \in {"spawn", "second"} /\ workers = {} => 1 \in slots
    /\ main \in {"second", "first"} => 2 \notin slots
    /\ main = "first" => 1 \notin slots

\* A thread at work holds a job it took from a slot; a worker of `all` ends when the
\* counter is past the last slot, the thread of a pair after the job it takes.
ThreadOK(t) ==
    /\ pc[t] \in AtWork <=> job[t] # 0
    /\ job[t] # 0 => job[t] \in Called \ slots
    /\ t \in workers => pc[t] # "none"
    /\ t \notin workers /\ t # 0 => pc[t] = "none"
    /\ call = "all" /\ pc[t] = "ended" => JobCount < nextIndex
    /\ call = "pair" /\ pc[t] = "claim" => t = 1 /\ 1 \in slots
    /\ call = "pair" /\ t = 1 /\ pc[t] \notin {"none", "claim"} => 1 \notin slots

\* A job out of its slot ran once, and came to something or is in a thread's hands.
JobOK(j) ==
    /\ runs[j] = IF j \in Called \ slots THEN 1 ELSE 0
    /\ j \in Called \ slots => result[j] # "none" \/ \E t \in Threads : job[t] = j

PoolInv ==
    /\ PoolShape /\ WorkersOK /\ SlotsOK /\ CallerOK
    /\ \A t \in Threads : ThreadOK(t)
    /\ \A j \in Jobs : JobOK(j)
    /\ EveryJobOnce

LEMMA PoolConstants ==
    /\ 0 \in Threads /\ 1 \in Threads
    /\ {1, 2} \subseteq Jobs /\ 0 \notin Jobs
    /\ Wanted \in Nat /\ 1 <= Wanted /\ Wanted <= MAX_PARALLEL_JOBS
    /\ call = "pair" => Wanted = 1
    /\ Called \subseteq Jobs /\ JobCount \in Nat
    /\ max_429_retries \in Nat /\ Jobs = 1..JobCount
BY PoolParameters DEF Threads, Jobs, Wanted, Least, Called

LEMMA PoolInitInv == PoolInit => PoolInv /\ LimiterInv
<1> SUFFICES ASSUME PoolInit PROVE PoolInv /\ LimiterInv
  OBVIOUS
<1>1. PoolShape
  BY PoolConstants, PoolParameters DEF PoolInit, PoolShape
<1>2. WorkersOK
  BY PoolConstants, FS_EmptySet DEF PoolInit, WorkersOK
<1>3. SlotsOK /\ CallerOK
  BY PoolConstants DEF PoolInit, SlotsOK, CallerOK, Called
<1>4. \A t \in Threads : ThreadOK(t)
  BY DEF PoolInit, ThreadOK, AtWork
<1>5. \A j \in Jobs : JobOK(j)
  BY DEF PoolInit, JobOK
<1>6. EveryJobOnce
  BY DEF PoolInit, EveryJobOnce, Returned
<1>7. LimiterInv
  <2>1. sent \in Seq(0..Window) /\ Descending(sent) /\ \A i \in 1..Len(sent) : sent[i] < Window
    BY DEF PoolInit, LimiterInit, Descending
  <2>2. InWindow(sent) = sent
    BY <2>1, WholeWindow
  <2>3. QED
    BY <2>1, <2>2, LimiterParameters DEF PoolInit, LimiterInit, LimiterInv, LimiterTypeOK
<1>8. QED BY <1>1, <1>2, <1>3, <1>4, <1>5, <1>6, <1>7 DEF PoolInv

\* Once the call returned no thread moves.
LEMMA ThreadsRest ==
    ASSUME PoolInv, NEW t \in Threads, pc[t] \notin {"none", "ended"}
    PROVE  main \notin {"answered", "unwound"}
BY DEF PoolInv, EveryJobOnce, Returned

-----------------------------------------------------------------------------
(* What a step does to the pool: a thread begins a job, goes on with it or   *)
(* ends it, or the caller moves.                                            *)

\* A thread takes a job from its slot.
LEMMA BeginKeeps ==
    ASSUME PoolInv, NEW t \in Threads, NEW j \in slots, Begin(t, j),
           job[t] = 0, t = 0 \/ t \in workers, call = "pair" => t = 0 \/ j = 1,
           UNCHANGED <<call, workers, nap, result>>, nextIndex' \in {nextIndex, nextIndex + 1},
           main' \in {"spawn", "drain", "second", "join", "first"}, SlotsOK', CallerOK',
           call = "pair" /\ j = 1 => t = 1 \/ workers = {}
    PROVE  PoolInv'
<1>1. /\ j \in Called /\ j \in Jobs /\ j # 0 /\ nextIndex \in Nat
      /\ slots' = slots \ {j} /\ Called' = Called /\ Wanted' = Wanted
  BY PoolConstants DEF PoolInv, PoolShape, SlotsOK, Begin, Called, Wanted
<1>2. PoolShape'
  <2>1. /\ pc' \in [Threads -> {"none", "claim", "acquire", "asleep", "send", "pausing", "ended"}]
        /\ job' \in [Threads -> Jobs \cup {0}] /\ runs' \in [Jobs -> Nat]
    BY <1>1 DEF PoolInv, PoolShape, Begin
  <2>2. retries' \in [Threads -> 0..max_429_retries]
    BY PoolConstants DEF PoolInv, PoolShape, Begin
  <2>3. slots' \subseteq Jobs /\ nextIndex' \in Nat
    BY <1>1 DEF PoolInv, PoolShape
  <2>4. QED BY <2>1, <2>2, <2>3 DEF PoolInv, PoolShape
<1>3. WorkersOK'
  BY <1>1 DEF PoolInv, WorkersOK
<1>4. ASSUME NEW u \in Threads PROVE ThreadOK(u)'
  <2>1. JobCount < nextIndex => JobCount < nextIndex'
    BY <1>1, PoolConstants
  <2>2. CASE u = t
    BY <1>1, <2>1, <2>2, PoolConstants DEF PoolInv, PoolShape, Begin, ThreadOK, AtWork
  <2>3. CASE u # t
    <3>1. pc'[u] = pc[u] /\ job'[u] = job[u] /\ ThreadOK(u)
      BY <2>3 DEF PoolInv, PoolShape, Begin
    <3>2. call = "pair" /\ pc[u] = "claim" => j # 1
      BY <2>3, <3>1 DEF ThreadOK
    <3>3. QED BY <1>1, <2>1, <2>3, <3>1, <3>2 DEF ThreadOK
  <2>4. QED BY <2>2, <2>3
<1>5. ASSUME NEW k \in Jobs PROVE JobOK(k)'
  <2>1. JobOK(k) /\ job'[t] = j
    BY DEF PoolInv, PoolShape, Begin
  <2>2. CASE k = j
    BY <1>1, <2>1, <2>2, PoolConstants DEF PoolInv, PoolShape, Begin, JobOK
  <2>3. CASE k # j
    <3>1. runs'[k] = runs[k] /\ result' = result
      BY <2>3 DEF PoolInv, PoolShape, Begin
    <3>2. ASSUME NEW u \in Threads, job[u] = k PROVE job'[u] = k
      <4>1. u # t
        BY <3>2, PoolConstants
      <4>2. QED BY <3>2, <4>1 DEF PoolInv, PoolShape, Begin
    <3>3. QED BY <1>1, <2>1, <2>3, <3>1, <3>2 DEF JobOK
  <2>4. QED BY <2>2, <2>3
<1>6. EveryJobOnce'
  <2>1. \A k \in Jobs : runs'[k] <= 1
    BY <1>5 DEF JobOK
  <2>2. QED BY <2>1 DEF EveryJobOnce, Returned
<1>7. QED BY <1>2, <1>3, <1>4, <1>5, <1>6 DEF PoolInv

\* A thread goes on with its job.
LEMMA MoveKeeps ==
    ASSUME PoolInv, NEW t \in Threads, pc[t] \in AtWork, NEW to \in AtWork,
           pc' = [pc EXCEPT ![t] = to],
           retries' \in [Threads -> 0..max_429_retries], nap' \in [Threads -> Nat],
           UNCHANGED <<call, main, workers, nextIndex, slots, job, result, runs>>
    PROVE  PoolInv'
<1>1. PoolShape'
  BY DEF PoolInv, PoolShape, AtWork
<1>2. WorkersOK' /\ SlotsOK' /\ \A j \in Jobs : JobOK(j)'
  BY DEF PoolInv, WorkersOK, SlotsOK, JobOK, Called, Wanted
<1>3. /\ pc'[t] = to /\ \A u \in Threads : u # t => pc'[u] = pc[u]
  BY DEF PoolInv, PoolShape
<1>4. ASSUME NEW u \in Threads PROVE ThreadOK(u)'
  BY <1>3 DEF PoolInv, ThreadOK, AtWork, Called
<1>5. main \notin {"answered", "unwound"}
  BY ThreadsRest DEF AtWork
<1>6. CallerOK'
  BY <1>3, PoolConstants DEF PoolInv, CallerOK, AtWork
<1>7. EveryJobOnce'
  BY <1>5 DEF PoolInv, EveryJobOnce, Returned
<1>8. QED BY <1>1, <1>2, <1>4, <1>6, <1>7 DEF PoolInv

\* A job ends: its thread of `all` claims again, any other is done.
LEMMA EndKeeps ==
    ASSUME PoolInv, NEW t \in Threads, pc[t] \in AtWork,
           NEW outcome \in {"answer", "limited", "panic"}, EndJob(t, outcome),
           UNCHANGED <<call, main, workers, nextIndex, slots, retries, nap, runs>>
    PROVE  PoolInv'
<1>1. ThreadOK(t) /\ job[t] \in Jobs /\ job[t] # 0
  BY PoolConstants DEF PoolInv, PoolShape, ThreadOK
<1>2. /\ pc'[t] = (IF call = "all" THEN "claim" ELSE "ended") /\ job'[t] = 0
      /\ \A u \in Threads : u # t => pc'[u] = pc[u] /\ job'[u] = job[u]
      /\ result'[job[t]] = outcome /\ \A k \in Jobs : k # job[t] => result'[k] = result[k]
  BY <1>1 DEF PoolInv, PoolShape, EndJob
<1>3. PoolShape'
  BY <1>1 DEF PoolInv, PoolShape, EndJob
<1>4. WorkersOK' /\ SlotsOK' /\ Called' = Called
  BY DEF PoolInv, WorkersOK, SlotsOK, Called, Wanted
<1>5. ASSUME NEW u \in Threads PROVE ThreadOK(u)'
  BY <1>1, <1>2, <1>4 DEF PoolInv, PoolShape, ThreadOK, AtWork
<1>6. ASSUME NEW k \in Jobs PROVE JobOK(k)'
  BY <1>1, <1>2, <1>4 DEF PoolInv, JobOK
<1>7. main \notin {"answered", "unwound"}
  BY ThreadsRest DEF AtWork
<1>8. CallerOK'
  BY <1>2, PoolConstants DEF PoolInv, CallerOK, AtWork
<1>9. EveryJobOnce'
  BY <1>7 DEF PoolInv, EveryJobOnce, Returned
<1>10. QED BY <1>3, <1>4, <1>5, <1>6, <1>8, <1>9 DEF PoolInv

\* The caller moves on and no thread does.
LEMMA CallerKeeps ==
    ASSUME PoolInv, main' \in {"spawn", "join"}, CallerOK', ~Returned,
           UNCHANGED <<call, workers, nextIndex, slots, thread, result, runs>>
    PROVE  PoolInv'
<1>1. PoolShape' /\ WorkersOK' /\ SlotsOK'
  BY DEF PoolInv, PoolShape, WorkersOK, SlotsOK, Called, Wanted, thread
<1>2. \A t \in Threads : ThreadOK(t)'
  BY DEF PoolInv, ThreadOK, Called, thread
<1>3. \A j \in Jobs : JobOK(j)'
  BY DEF PoolInv, JobOK, Called, thread
<1>4. EveryJobOnce'
  BY DEF PoolInv, EveryJobOnce, Returned
<1>5. QED BY <1>1, <1>2, <1>3, <1>4 DEF PoolInv

LEMMA SpawnKeeps ==
    ASSUME PoolInv, Spawn PROVE PoolInv'
<1> DEFINE n == Cardinality(workers)
<1>1. /\ n \in Nat /\ workers = 1..n /\ n + 1 <= Wanted /\ Wanted \in Nat
      /\ Wanted <= MAX_PARALLEL_JOBS /\ main = "spawn"
  BY PoolConstants DEF PoolInv, WorkersOK, Spawn
<1>2. /\ workers' = 1..(n + 1) /\ workers' # {} /\ n + 1 \in Threads \ {0} /\ n + 1 \notin workers
      /\ pc' = [pc EXCEPT ![n + 1] = "claim"] /\ (call = "pair" => n + 1 = 1)
      /\ UNCHANGED <<call, main, nextIndex, slots, job, retries, nap, result, runs>>
  BY <1>1, PoolParameters, PoolConstants DEF Spawn, Threads
<1>3. Cardinality(workers') = n + 1
  BY <1>1, <1>2, FS_Interval
<1>4. PoolShape' /\ WorkersOK' /\ SlotsOK' /\ Called' = Called
  <2>1. workers' \subseteq Threads \ {0}
    BY <1>1, <1>2, PoolParameters DEF Threads
  <2>2. PoolShape'
    BY <1>2, <2>1 DEF PoolInv, PoolShape
  <2>3. Wanted' = Wanted /\ Called' = Called
    BY <1>2 DEF Wanted, Called
  <2>4. WorkersOK'
    BY <1>1, <1>2, <1>3, <2>3 DEF WorkersOK
  <2>5. QED BY <1>2, <2>2, <2>3, <2>4 DEF PoolInv, SlotsOK
<1> HIDE DEF n
<1>5. /\ pc'[n + 1] = "claim" /\ \A u \in Threads : u # n + 1 => pc'[u] = pc[u]
  BY <1>2 DEF PoolInv, PoolShape
<1>6. ASSUME NEW u \in Threads PROVE ThreadOK(u)'
  <2>1. CASE u = n + 1
    <3>1. pc[u] = "none" /\ job[u] = 0
      BY <1>2, <2>1 DEF PoolInv, ThreadOK, AtWork
    <3>2. call = "pair" => u = 1 /\ workers = {}
      BY <1>1, <1>2, <2>1
    <3>3. call = "pair" => 1 \in slots
      BY <1>1, <3>2 DEF PoolInv, CallerOK
    <3>4. u \in workers'
      BY <1>1, <1>2, <2>1
    <3>5. QED BY <1>2, <1>4, <1>5, <2>1, <3>1, <3>2, <3>3, <3>4 DEF ThreadOK, AtWork
  <2>2. CASE u # n + 1
    <3>1. u \in workers' <=> u \in workers
      BY <1>1, <1>2, <2>2 DEF Threads
    <3>2. QED BY <1>2, <1>4, <1>5, <2>2, <3>1 DEF PoolInv, ThreadOK
  <2>3. QED BY <2>1, <2>2
<1>7. CallerOK'
  <2>1. pc'[0] = pc[0]
    BY <1>1, <1>5, PoolConstants
  <2>2. QED BY <1>1, <1>2, <2>1 DEF PoolInv, CallerOK
<1>8. \A j \in Jobs : JobOK(j)'
  BY <1>2, <1>4 DEF PoolInv, JobOK
<1>9. EveryJobOnce'
  BY <1>1, <1>2 DEF PoolInv, EveryJobOnce, Returned
<1>10. QED BY <1>4, <1>6, <1>7, <1>8, <1>9 DEF PoolInv

\* Without a single worker the caller drains the slots itself.
LEMMA RefusedKeeps ==
    ASSUME PoolInv, SpawnRefused PROVE PoolInv'
<1>1. CASE workers # {}
  <2>1. UNCHANGED <<call, workers, nextIndex, slots, thread, result, runs>> /\ main' = "join"
    BY <1>1 DEF SpawnRefused, thread
  <2>2. CallerOK'
    BY <1>1, <2>1 DEF PoolInv, CallerOK, SpawnRefused, thread
  <2>3. QED BY <2>1, <2>2, CallerKeeps DEF SpawnRefused, Returned
<1>2. CASE workers = {}
  <2>1. /\ main' = "drain" /\ pc' = [pc EXCEPT ![0] = "claim"] /\ call = "all" /\ main = "spawn"
        /\ UNCHANGED <<call, workers, nextIndex, slots, job, retries, nap, result, runs>>
    BY <1>2 DEF SpawnRefused
  <2>2. PoolShape' /\ WorkersOK' /\ SlotsOK' /\ Called' = Called
    BY <2>1 DEF PoolInv, PoolShape, WorkersOK, SlotsOK, Called, Wanted
  <2>3. /\ pc'[0] = "claim" /\ pc[0] = "none" /\ \A u \in Threads : u # 0 => pc'[u] = pc[u]
    BY <2>1, PoolConstants DEF PoolInv, PoolShape, CallerOK
  <2>4. ASSUME NEW u \in Threads PROVE ThreadOK(u)'
    BY <1>2, <2>1, <2>2, <2>3 DEF PoolInv, ThreadOK, AtWork
  <2>5. CallerOK' /\ EveryJobOnce'
    BY <2>1 DEF PoolInv, CallerOK, EveryJobOnce, Returned
  <2>6. \A j \in Jobs : JobOK(j)'
    BY <2>1, <2>2 DEF PoolInv, JobOK
  <2>7. QED BY <2>2, <2>4, <2>5, <2>6 DEF PoolInv
<1>3. QED BY <1>1, <1>2

\* The slots are empty and no job is in hand once the threads of a call have ended.
LEMMA AllReturnsKeeps ==
    ASSUME PoolInv, AllReturns PROVE PoolInv'
<1>1. /\ main = "join" /\ call = "all" /\ \A t \in workers : pc[t] = "ended"
      /\ UNCHANGED <<call, workers, nextIndex, slots, thread, result, runs>>
      /\ main' \in {"answered", "unwound"}
      /\ main' = "unwound" <=> \E j \in Called : result[j] = "panic"
  BY DEF AllReturns, AllEnded
<1>2. \A t \in Threads : pc[t] \in {"none", "ended"}
  BY <1>1 DEF PoolInv, CallerOK, ThreadOK
<1>3. JobCount < nextIndex
  <2>1. PICK t \in Threads : pc[t] = "ended"
    BY <1>1, PoolConstants DEF PoolInv, CallerOK, PoolShape
  <2>2. QED BY <1>1, <2>1 DEF PoolInv, ThreadOK
<1>4. \A j \in Called : result[j] # "none"
  <2>1. slots = {}
    BY <1>1, <1>3, PoolConstants DEF PoolInv, SlotsOK, PoolShape
  <2>2. \A t \in Threads : job[t] = 0
    BY <1>2 DEF PoolInv, ThreadOK, AtWork
  <2>3. QED BY <2>1, <2>2, PoolConstants DEF PoolInv, JobOK
<1>5. PoolShape' /\ WorkersOK' /\ SlotsOK' /\ Called' = Called
  BY <1>1 DEF PoolInv, PoolShape, WorkersOK, SlotsOK, Called, Wanted, thread
<1>6. (\A t \in Threads : ThreadOK(t)') /\ \A j \in Jobs : JobOK(j)'
  BY <1>1, <1>5 DEF PoolInv, ThreadOK, JobOK, thread
<1>7. CallerOK'
  BY <1>1 DEF CallerOK
<1>8. EveryJobOnce'
  <2>1. \A j \in Called : result[j] \in {"none", "answer", "limited", "panic"}
    BY PoolConstants DEF PoolInv, PoolShape
  <2>2. QED BY <1>1, <1>2, <1>4, <1>5, <2>1 DEF PoolInv, EveryJobOnce, Returned, thread
<1>9. QED BY <1>5, <1>6, <1>7, <1>8 DEF PoolInv

LEMMA PairReturnsKeeps ==
    ASSUME PoolInv, PairReturns PROVE PoolInv'
<1>1. /\ call = "pair" /\ pc[0] = "ended" /\ \A t \in workers : pc[t] = "ended"
      /\ \/ main = "first"
         \/ main = "second" /\ (workers # {} \/ result[2] = "panic")
      /\ UNCHANGED <<call, workers, nextIndex, slots, thread, result, runs>>
      /\ main' \in {"answered", "unwound"}
      /\ main' = "unwound" <=> \E j \in Called : result[j] = "panic"
  BY DEF PairReturns, AllEnded
<1>2. \A t \in Threads : pc[t] \in {"none", "ended"}
  BY <1>1 DEF PoolInv, ThreadOK
<1>3. Called = {1, 2} /\ \A t \in Threads : job[t] = 0
  BY <1>1, <1>2 DEF PoolInv, ThreadOK, AtWork, Called
<1>4. ASSUME \A j \in Called : result[j] # "panic" PROVE \A j \in Called : result[j] # "none"
  <2>1. 2 \notin slots
    BY <1>1 DEF PoolInv, CallerOK
  <2>2. 1 \notin slots
    <3>1. CASE main = "first"
      BY <3>1 DEF PoolInv, CallerOK
    <3>2. CASE workers # {}
      <4>1. 1 \in workers
        BY <3>2 DEF PoolInv, WorkersOK
      <4>2. QED BY <1>1, <4>1, PoolConstants DEF PoolInv, ThreadOK
    <3>3. QED BY <1>1, <1>3, <1>4, <3>1, <3>2
  <2>3. QED BY <1>3, <2>1, <2>2, PoolConstants DEF PoolInv, JobOK
<1>5. PoolShape' /\ WorkersOK' /\ SlotsOK' /\ Called' = Called
  BY <1>1 DEF PoolInv, PoolShape, WorkersOK, SlotsOK, Called, Wanted, thread
<1>6. (\A t \in Threads : ThreadOK(t)') /\ \A j \in Jobs : JobOK(j)'
  BY <1>1, <1>5 DEF PoolInv, ThreadOK, JobOK, thread
<1>7. CallerOK'
  BY <1>1 DEF CallerOK
<1>8. EveryJobOnce'
  <2>1. \A j \in Called : result[j] \in {"none", "answer", "limited", "panic"}
    BY PoolConstants DEF PoolInv, PoolShape
  <2>2. QED BY <1>1, <1>2, <1>4, <1>5, <2>1 DEF PoolInv, EveryJobOnce, Returned, thread
<1>9. QED BY <1>5, <1>6, <1>7, <1>8 DEF PoolInv

\* fetch_add gives each index once; past the last slot the worker ends.
LEMMA ClaimKeeps ==
    ASSUME PoolInv, NEW t \in Threads, Claim(t) PROVE PoolInv'
<1>1. /\ call = "all" /\ pc[t] = "claim" /\ nextIndex' = nextIndex + 1 /\ nextIndex \in Nat \ {0}
      /\ slots = {j \in Jobs : nextIndex <= j} /\ job[t] = 0 /\ (t = 0 \/ t \in workers)
      /\ UNCHANGED <<call, main, workers, nap, result>>
      /\ main \in {"spawn", "drain", "join"}
  BY ThreadsRest DEF PoolInv, PoolShape, CallerOK, SlotsOK, ThreadOK, AtWork, Claim
<1>2. CASE nextIndex \in slots
  <2>1. Begin(t, nextIndex)
    BY <1>2 DEF Claim
  <2>2. SlotsOK'
    BY <1>1, <1>2, <2>1, PoolConstants DEF PoolInv, SlotsOK, Begin, Called
  <2>3. CallerOK'
    <3>1. \A u \in Threads : u # t => pc'[u] = pc[u]
      BY <2>1 DEF PoolInv, PoolShape, Begin
    <3>2. t = 0 => main = "drain"
      BY <1>1 DEF PoolInv, CallerOK
    <3>3. QED BY <1>1, <3>1, <3>2, PoolConstants DEF PoolInv, CallerOK
  <2>4. QED BY <1>1, <1>2, <2>1, <2>2, <2>3, BeginKeeps
<1>3. CASE nextIndex \notin slots
  <2>1. /\ nextIndex \notin Jobs /\ JobCount < nextIndex
        /\ pc' = [pc EXCEPT ![t] = "ended"] /\ UNCHANGED <<slots, job, retries, runs>>
    BY <1>1, <1>3, PoolConstants DEF Claim
  <2>2. JobCount < nextIndex' /\ nextIndex' \in Nat \ {0}
    BY <1>1, <2>1, PoolConstants
  <2>3. PoolShape' /\ WorkersOK' /\ Called' = Called
    BY <1>1, <2>1, <2>2 DEF PoolInv, PoolShape, WorkersOK, Called, Wanted
  <2>4. SlotsOK'
    BY <1>1, <2>1, <2>2, <2>3, PoolConstants DEF PoolInv, SlotsOK
  <2>5. pc'[t] = "ended" /\ \A u \in Threads : u # t => pc'[u] = pc[u]
    BY <2>1 DEF PoolInv, PoolShape
  <2>6. ASSUME NEW u \in Threads PROVE ThreadOK(u)'
    BY <1>1, <2>1, <2>2, <2>3, <2>5 DEF PoolInv, ThreadOK, AtWork
  <2>7. \A j \in Jobs : JobOK(j)'
    BY <1>1, <2>1, <2>3 DEF PoolInv, JobOK
  <2>8. CallerOK' /\ EveryJobOnce'
    <3>1. t = 0 => main = "drain"
      BY <1>1 DEF PoolInv, CallerOK
    <3>2. QED
      BY <1>1, <2>1, <2>5, <3>1, PoolConstants DEF PoolInv, CallerOK, EveryJobOnce, Returned
  <2>9. QED BY <2>3, <2>4, <2>6, <2>7, <2>8 DEF PoolInv
<1>4. QED BY <1>2, <1>3

\* The jobs of a pair.
LEMMA PairKeeps ==
    ASSUME PoolInv, PairSecond \/ PairFirst \/ \E t \in Threads : TakeFirst(t)
    PROVE  PoolInv'
<1>1. CASE PairSecond
  <2>1. /\ 2 \in slots /\ Begin(0, 2) /\ job[0] = 0 /\ call = "pair" /\ main = "spawn"
        /\ main' = "second" /\ UNCHANGED <<call, workers, nextIndex, nap, result>>
    BY <1>1, PoolConstants DEF PoolInv, CallerOK, ThreadOK, AtWork, PairSecond
  <2>2. SlotsOK' /\ CallerOK'
    BY <2>1 DEF PoolInv, SlotsOK, CallerOK, Begin, Called
  <2>3. nextIndex' \in {nextIndex, nextIndex + 1}
    BY <2>1
  <2>4. QED BY <2>1, <2>2, <2>3, BeginKeeps, PoolConstants
<1>2. CASE PairFirst
  <2>1. /\ 1 \in slots /\ Begin(0, 1) /\ job[0] = 0 /\ call = "pair" /\ main = "second"
        /\ workers = {} /\ main' = "first" /\ UNCHANGED <<call, workers, nextIndex, nap, result>>
    BY <1>2, PoolConstants DEF PoolInv, PoolShape, CallerOK, ThreadOK, AtWork, PairFirst
  <2>2. SlotsOK' /\ CallerOK'
    BY <2>1 DEF PoolInv, SlotsOK, CallerOK, Begin, Called
  <2>3. nextIndex' \in {nextIndex, nextIndex + 1}
    BY <2>1
  <2>4. QED BY <2>1, <2>2, <2>3, BeginKeeps, PoolConstants
<1>3. ASSUME NEW t \in Threads, TakeFirst(t) PROVE PoolInv'
  <2>1. /\ t = 1 /\ 1 \in slots /\ Begin(1, 1) /\ job[1] = 0 /\ call = "pair" /\ 1 \in workers
        /\ pc[1] = "claim" /\ UNCHANGED <<call, main, workers, nextIndex, nap, result>>
    BY <1>3 DEF PoolInv, ThreadOK, AtWork, TakeFirst
  <2>2. main' \in {"spawn", "drain", "second", "join", "first"} /\ main # "first"
    <3>1. main \notin {"answered", "unwound"}
      BY <1>3, <2>1, ThreadsRest
    <3>2. QED BY <2>1, <3>1 DEF PoolInv, PoolShape, CallerOK
  <2>3. pc'[0] = pc[0]
    BY <2>1, PoolConstants DEF PoolInv, PoolShape, Begin
  <2>4. SlotsOK' /\ CallerOK'
    BY <2>1, <2>2, <2>3 DEF PoolInv, SlotsOK, CallerOK, Begin, Called
  <2>5. nextIndex' \in {nextIndex, nextIndex + 1}
    BY <2>1
  <2>6. QED BY <2>1, <2>2, <2>4, <2>5, BeginKeeps, PoolConstants
<1>4. QED BY <1>1, <1>2, <1>3

-----------------------------------------------------------------------------

LEMMA PoolKept ==
    ASSUME PoolInv, PoolNext PROVE PoolInv'
<1>1. CASE SpawnedAll \/ Drained
  <2>1. /\ main' = "join" /\ UNCHANGED <<call, workers, nextIndex, slots, thread, result, runs>>
        /\ ~Returned
    BY <1>1 DEF SpawnedAll, Drained, Returned
  <2>2. call = "all"
    BY <1>1 DEF SpawnedAll, Drained, PoolInv, PoolShape, CallerOK
  <2>3. SpawnedAll => workers # {}
    BY PoolConstants, FS_EmptySet DEF SpawnedAll
  <2>4. CallerOK'
    BY <1>1, <2>1, <2>2, <2>3 DEF PoolInv, CallerOK, SpawnedAll, Drained, thread
  <2>5. QED BY <2>1, <2>4, CallerKeeps
<1>2. ASSUME NEW t \in Threads, Acquire(t) \/ Sleep(t) \/ Wake(t) PROVE PoolInv'
  <2>1. nap' \in [Threads -> Nat] /\ retries' \in [Threads -> 0..max_429_retries]
    BY <1>2 DEF Acquire, Sleep, Wake, PoolInv, PoolShape
  <2>2. CASE Acquire(t)
    BY <1>2, <2>1, <2>2, MoveKeeps DEF Acquire, AtWork
  <2>3. CASE Sleep(t)
    BY <1>2, <2>1, <2>3, MoveKeeps DEF Sleep, AtWork
  <2>4. CASE Wake(t)
    BY <1>2, <2>1, <2>4, MoveKeeps DEF Wake, AtWork
  <2>5. QED BY <1>2, <2>2, <2>3, <2>4
<1>3. ASSUME NEW t \in Threads, Refuse(t) \/ Answered(t) \/ Panics(t) PROVE PoolInv'
  <2>1. pc[t] \in AtWork
    BY <1>3 DEF Refuse, Answered, Panics, AtWork
  <2>2. UNCHANGED <<call, main, workers, nextIndex, slots, retries, nap, runs>>
    BY <1>3 DEF Refuse, Answered, Panics
  <2>3. EndJob(t, "limited") \/ EndJob(t, "answer") \/ EndJob(t, "panic")
    BY <1>3 DEF Refuse, Answered, Panics
  <2>4. QED BY <2>1, <2>2, <2>3, EndKeeps
<1>4. ASSUME NEW t \in Threads, NEW d \in RetryAfters, TooMany(t, d) PROVE PoolInv'
  <2>1. pc[t] \in AtWork /\ UNCHANGED <<call, main, workers, nextIndex, slots, runs>>
    BY <1>4 DEF TooMany, AtWork
  <2>2. CASE d <= max_retry_after /\ retries[t] < max_429_retries
    <3> DEFINE to == IF job[t] \in Keyed THEN "acquire" ELSE "pausing"
    <3>1. /\ retries' = [retries EXCEPT ![t] = @ + 1] /\ pc' = [pc EXCEPT ![t] = to]
          /\ nap' = [nap EXCEPT ![t] = IF job[t] \in Keyed THEN 0 ELSE d]
          /\ UNCHANGED <<job, result>>
      BY <1>4, <2>2 DEF TooMany
    <3>2. retries' \in [Threads -> 0..max_429_retries] /\ nap' \in [Threads -> Nat]
      BY <2>2, <3>1, PoolConstants, LimiterParameters DEF PoolInv, PoolShape
    <3>3. to \in AtWork
      BY DEF AtWork
    <3> HIDE DEF to
    <3>4. QED BY <2>1, <3>1, <3>2, <3>3, MoveKeeps
  <2>3. CASE ~(d <= max_retry_after /\ retries[t] < max_429_retries)
    <3>1. EndJob(t, "limited") /\ UNCHANGED <<retries, nap>>
      BY <1>4, <2>3 DEF TooMany
    <3>2. QED BY <2>1, <3>1, EndKeeps
  <2>4. QED BY <2>2, <2>3
<1>5. ASSUME UNCHANGED <<call, main, workers, nextIndex, slots, pc, job, retries, result, runs>>,
             nap' \in [Threads -> Nat]
      PROVE  PoolInv'
  BY <1>5
  DEF PoolInv, PoolShape, WorkersOK, SlotsOK, CallerOK, ThreadOK, JobOK, EveryJobOnce, Returned,
      Called, Wanted
<1>6. CASE PlanChanges
  BY <1>5, <1>6 DEF PlanChanges, pool, thread, PoolInv, PoolShape
<1>7. CASE Tick
  <2>1. nap' \in [Threads -> Nat]
    BY <1>7 DEF Tick, Sooner, PoolInv, PoolShape
  <2>2. QED BY <1>5, <1>7, <2>1 DEF Tick
<1>8. QED
  BY <1>1, <1>2, <1>3, <1>4, <1>6, <1>7, SpawnKeeps, RefusedKeeps, AllReturnsKeeps,
     PairReturnsKeeps, PairKeeps, ClaimKeeps
  DEF PoolNext, Caller, Thread

\* The plan changes stay within their bound.
PlansOK == plans \in 0..MaxPlanChanges

LEMMA PlansKept == PlansOK /\ [PoolNext]_poolVars => PlansOK'
BY PoolParameters
DEF PlansOK, poolVars, PoolNext, Caller, Thread, Spawn, SpawnRefused, SpawnedAll, Drained,
    AllReturns, PairSecond, PairFirst, PairReturns, Claim, TakeFirst, Acquire, Sleep, Refuse,
    Wake, Answered, Panics, TooMany, PlanChanges, Tick

LEMMA PoolInvHolds == PoolSpec => [](PoolInv /\ LimiterInv /\ PlansOK)
<1>1. PoolInit => PoolInv /\ LimiterInv /\ PlansOK
  BY PoolInitInv, PoolParameters DEF PoolInit, PlansOK
<1>2. PoolInv /\ LimiterInv /\ UNCHANGED poolVars => PoolInv' /\ LimiterInv'
  <2> SUFFICES ASSUME PoolInv, LimiterInv, UNCHANGED poolVars PROVE PoolInv' /\ LimiterInv'
    OBVIOUS
  <2>1. LimiterInv'
    BY LimiterStays DEF poolVars, limiter, LimiterInv, LimiterTypeOK
  <2>2. PoolInv'
    BY DEF poolVars, pool, thread, PoolInv, PoolShape, WorkersOK, SlotsOK, CallerOK, ThreadOK,
           JobOK, EveryJobOnce, Returned, Called, Wanted
  <2>3. QED BY <2>1, <2>2
<1>3. PoolInv /\ LimiterInv /\ PlansOK /\ [PoolNext]_poolVars
        => (PoolInv /\ LimiterInv /\ PlansOK)'
  BY <1>2, PoolKept, LimiterKept, PlansKept
<1>4. QED BY <1>1, <1>3, PTL DEF PoolSpec

\* all and pair, for any number of jobs and threads, whatever threads the system refuses,
\* however the requests are answered and whichever jobs panic: every job runs once, and a
\* call that answers has an outcome of each.
THEOREM JobsRunOnce == PoolSpec => []JobsKept
<1>1. PoolInv /\ LimiterInv /\ PlansOK => JobsKept
  BY DEF PoolInv, PoolShape, LimiterInv, PlansOK, JobsKept, PoolTypeOK
<1>2. QED BY <1>1, PoolInvHolds, PTL

\* acquire, block_for and set_limit, for any limits, window and pauses: a grant is never one
\* too many of its window and never inside a pause, whichever thread asked for what.
THEOREM GrantsAreWithinLimits == PoolSpec => GrantsKept
<1>1. PoolInv /\ LimiterInv /\ [PoolNext]_poolVars
        => [Len(recent') > Len(recent) => Len(recent') <= limit]_poolVars
  BY LimiterKept
<1>2. ASSUME PoolInv, LimiterInv, PoolNext, NEW t \in Threads, pc[t] = "acquire",
             pc'[t] = "send"
      PROVE  pause = 0
  <2>1. ASSUME NEW u \in Threads, Acquire(u) PROVE pause = 0
    BY <1>2, <2>1 DEF Acquire, Grant, Free, LimiterInv
  <2>2. ASSUME NEW u \in Threads, NEW to, u # t, pc' = [pc EXCEPT ![u] = to] PROVE FALSE
    BY <1>2, <2>2 DEF PoolInv, PoolShape
  <2>3. ASSUME NEW to, to # "send", pc' = [pc EXCEPT ![t] = to] PROVE FALSE
    BY <1>2, <2>3 DEF PoolInv, PoolShape
  <2>4. pc' # pc
    BY <1>2
  <2>5. ASSUME NEW u \in Threads,
               \/ Claim(u) \/ TakeFirst(u) \/ Wake(u) \/ Answered(u) \/ Panics(u)
               \/ \E d \in RetryAfters : TooMany(u, d)
        PROVE  FALSE
    <3>1. u # t
      BY <1>2, <2>5 DEF Claim, TakeFirst, Wake, Answered, Panics, TooMany
    <3>2. pc'[t] = pc[t]
      BY <1>2, <2>5, <3>1
      DEF Claim, TakeFirst, Wake, Answered, Panics, TooMany, Begin, EndJob, PoolInv, PoolShape
    <3>3. QED BY <1>2, <3>2
  <2>6. ASSUME NEW u \in Threads, Sleep(u) \/ Refuse(u) PROVE FALSE
    BY <1>2, <2>2, <2>3, <2>6 DEF Sleep, Refuse, EndJob
  <2>7. ASSUME PairSecond \/ PairFirst PROVE FALSE
    <3>1. pc[0] \in {"none", "ended"}
      BY <1>2, <2>7 DEF PairSecond, PairFirst, PoolInv, CallerOK
    <3>2. pc'[t] = pc[t]
      BY <1>2, <2>7, <3>1, PoolConstants DEF PairSecond, PairFirst, Begin, PoolInv, PoolShape
    <3>3. QED BY <1>2, <3>2
  <2>8. ASSUME Spawn \/ SpawnRefused PROVE FALSE
    BY <1>2, <2>8 DEF Spawn, SpawnRefused, PoolInv, PoolShape
  <2>9. QED
    BY <1>2, <2>1, <2>4, <2>5, <2>6, <2>7, <2>8
    DEF PoolNext, Caller, Thread, SpawnedAll, Drained, AllReturns, PairReturns, PlanChanges, Tick,
        pool, thread
<1>3. PoolInv /\ LimiterInv /\ [PoolNext]_poolVars
        => [\A t \in Threads : pc[t] = "acquire" /\ pc'[t] = "send" => pause = 0]_poolVars
  BY <1>2
<1>4. QED BY <1>1, <1>3, PoolInvHolds, PTL DEF PoolSpec, GrantsKept, WindowKept, PauseKept
=============================================================================
