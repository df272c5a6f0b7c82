------------------------ MODULE OrderSummaries_proofs ------------------------
(***************************************************************************)
(* What the messages about an order show, and when its slot is free again: *)
(* proofs about OrderFills for any orders, quantities and bounds.          *)
(*                                                                         *)
(* The theorems say which of three assumptions on the environment they     *)
(* need.  Where one fails the code keeps less: OrdersAmended shows that    *)
(* for amended orders.                                                     *)
(***************************************************************************)
EXTENDS OrderFills_proofs, SequenceTheorems

\* What u bounds: the error of an addition, and with it that of an order's whole sum.
RoundsWithin(u) ==
    /\ \A r \in Rounding : -u <= r /\ r <= u
    /\ \A n \in Quantities : n * u <= Tolerance

\* The tracker's sums are close to the venue's: no order is amended, the errors of an
\* order's additions stay within the tolerance of is_complete, and that is less than
\* half a lot.
CloseFills ==
    /\ ~MayAmend
    /\ \E u \in Nat : RoundsWithin(u)
    /\ 2 * Tolerance < Unit

Ulp == CHOOSE u \in Nat : RoundsWithin(u)

\* A sum the tracker may have of that many lots: each addition adds a lot or more.
Near(filled, lots) ==
    (Unit - Ulp) * lots <= filled /\ filled <= (Unit + Ulp) * lots

\* Every send that was scheduled ends in the channel.
SendsArrive == ~SendMayFail /\ ChannelCached

\* Nothing is evicted, and every order that ends after fills gets a message about them.
NothingDropped == Cardinality(Orders) <= MaxOrders /\ "OrderExpired" \notin Ends

-----------------------------------------------------------------------------
(* The pod's account of its orders, and what the stream says of it.        *)

Done(o) == order[o].status \notin {"none", "open"}

\* The lots an event adds to its order.
Lots(e) == IF e.type = "OrderFilled" THEN e.qty ELSE 0

\* The event that ends its order.
Completes(e) ==
    \/ e.type \in EndEvents
    \/ e.type = "OrderFilled" /\ e.sum = order[e.coid].total

OrdersLawful ==
    \A o \in Orders :
        /\ order[o].status \in {"none", "open", "OrderFilled"} \cup Ends
        /\ order[o].filled <= order[o].total
        /\ order[o].status = "none" => order[o].filled = 0
        /\ order[o].status # "none" =>
              (order[o].status = "OrderFilled" <=> order[o].filled = order[o].total)
        /\ order[o].filled = 0 => order[o].fills = {}
        /\ order[o].status \in Refusals => order[o].fills = {}
        /\ order[o].status # "none" => order[o].total \in Quantities

\* What holds of an event from its publication on.
Lawful(e) ==
    /\ e.type # "OrderUpdated" /\ e.id < nextId
    /\ order[e.coid].status # "none"
    /\ e.type \in EndEvents => order[e.coid].status = e.type
    /\ e.type = "OrderInitialized" => e.qty = order[e.coid].total /\ e.sum = 0
    /\ e.type = "OrderFilled" => 0 < e.qty
    /\ \A o \in Orders : e.id \in order[o].fills <=> e.type = "OrderFilled" /\ o = e.coid
    /\ e.sum <= order[e.coid].filled
    /\ e.type = "OrderFilled" /\ e.sum = order[e.coid].filled =>
          \A f \in order[e.coid].fills : f <= e.id

StreamLawful == \A i \in DOMAIN stream : Lawful(stream[i])

\* Entry j is about the order of entry i, and the next one that is.
Follows(i, j) ==
    /\ i < j /\ stream[i].coid = stream[j].coid
    /\ \A k \in DOMAIN stream : i < k /\ k < j => stream[k].coid # stream[i].coid

\* The lots of an order's events add up, to what the venue has filled of it.
Chained ==
    /\ \A i, j \in DOMAIN stream :
          Follows(i, j) => stream[j].sum = stream[i].sum + Lots(stream[j])
    /\ \A i \in DOMAIN stream :
          (\A j \in DOMAIN stream : i < j => stream[j].coid # stream[i].coid)
              => stream[i].sum = order[stream[i].coid].filled

\* The event that ends an order is its last, and unread as long as any is.
EndsLast ==
    /\ \A i, j \in DOMAIN stream :
          Completes(stream[i]) /\ i < j => stream[j].coid # stream[i].coid
    /\ \A i \in DOMAIN stream : Done(stream[i].coid) =>
          \E j \in DOMAIN stream : stream[j].coid = stream[i].coid /\ Completes(stream[j])

HistoryInv == OrdersLawful /\ StreamLawful /\ Chained /\ EndsLast

-----------------------------------------------------------------------------
(* What the notifier has made of it.                                       *)

Known(o) == o \in DOMAIN tracker /\ tracker[o].total # Unknown

\* What was read is older than what is unread; an order whose OrderInitialized is
\* unread has nothing under way.
UnderWay ==
    /\ \A k \in DOMAIN outbox :
          /\ Lawful(outbox[k]) /\ outbox[k].type \notin Transient
          /\ \A i \in DOMAIN stream : outbox[k].id < stream[i].id
    /\ \A x \in sending :
          /\ x.type \in EndEvents \cup {"OrderFilled"} /\ order[x.coid].status # "none"
          /\ x.type \in EndEvents => order[x.coid].status = x.type
    /\ \A i \in DOMAIN stream : stream[i].type = "OrderInitialized" =>
          /\ \A k \in DOMAIN outbox : outbox[k].coid # stream[i].coid
          /\ \A x \in sending : x.coid # stream[i].coid
    /\ \A f \in seen : f < nextId

\* The first unread entry about order o.
FirstOf(i, o) ==
    stream[i].coid = o /\ \A k \in DOMAIN stream : k < i => stream[k].coid # o

\* An entry that knows its order's total is close to the sum the unread events continue.
KnownSum ==
    \A o \in DOMAIN tracker : tracker[o].total # Unknown =>
        /\ tracker[o].total = order[o].total
        /\ (\A i \in DOMAIN stream : stream[i].coid # o)
              => Near(tracker[o].filled, order[o].filled)
        /\ \A i \in DOMAIN stream : FirstOf(i, o) =>
              Near(tracker[o].filled, stream[i].sum - Lots(stream[i]))

Exhausted(o) == \A i \in DOMAIN stream : stream[i].coid # o

\* Of an order whose total is known only the end is ever sent.
EndsOnly ==
    /\ \A k \in DOMAIN outbox : Known(outbox[k].coid) =>
          Completes(outbox[k]) /\ Exhausted(outbox[k].coid)
    /\ \A x \in sending : Known(x.coid) =>
          /\ order[x.coid].status = x.type /\ Exhausted(x.coid)
          /\ x.type \in {"OrderFilled", "OrderCanceled"} => x.fills = order[x.coid].fills

\* A message that sums up a filled order is about its last fill and shows them all.
SummariesWhole ==
    \A x \in posted \cup sending : x.type = "OrderFilled" /\ x.total # Unknown =>
        /\ order[x.coid].status = "OrderFilled" /\ x.total = order[x.coid].total
        /\ x.fills = order[x.coid].fills
        /\ x.id \in x.fills /\ \A f \in x.fills : f <= x.id

SummaryInv ==
    TrackerInv /\ WholeInv /\ HistoryInv /\ UnderWay /\ KnownSum /\ EndsOnly /\ SummariesWhole

-----------------------------------------------------------------------------
(* Shapes and arithmetic.                                                  *)

LEMMA FieldTypes ==
    ASSUME TypeOK
    PROVE  /\ Len(stream) \in Nat /\ DOMAIN stream = 1 .. Len(stream)
           /\ \A i \in DOMAIN stream : stream[i] \in Events
           /\ \A k \in DOMAIN outbox : outbox[k] \in Events
           /\ \A o \in Orders : /\ order[o].status \in Statuses /\ order[o].total \in Nat
                                /\ order[o].filled \in Nat /\ order[o].fills \in SUBSET Nat
           /\ nextId \in Nat
BY DEF TypeOK

LEMMA EventTyped ==
    ASSUME NEW e \in Events
    PROVE  /\ e.id \in Nat /\ e.type \in EventTypes /\ e.coid \in Orders
           /\ e.qty \in Nat /\ e.sum \in Nat /\ Lots(e) \in Nat
BY DEF Events, Lots

LEMMA UlpBounds ==
    ASSUME CloseFills
    PROVE  Ulp \in Nat /\ RoundsWithin(Ulp)
BY DEF CloseFills, Ulp

LEMMA Distribute ==
    ASSUME NEW u \in Int, NEW a \in Int, NEW b \in Int
    PROVE  u * (a + b) = u * a + u * b
OBVIOUS

LEMMA NearNothing ==
    ASSUME CloseFills
    PROVE  Near(0, 0)
BY UlpBounds, OrderFillsAssumption DEF Near

\* Adding a fill keeps the sum close.
LEMMA NearAdded ==
    ASSUME CloseFills, NEW f \in Int, NEW a \in Int, NEW q \in Nat, 0 < q,
           NEW r \in Int, -Ulp <= r, r <= Ulp, Near(f, a)
    PROVE  Near(f + q * Unit + r, a + q)
<1>1. Unit \in Int /\ Ulp \in Nat BY UlpBounds, OrderFillsAssumption
<1>2. /\ (Unit - Ulp) * (a + q) = (Unit - Ulp) * a + (Unit - Ulp) * q
      /\ (Unit + Ulp) * (a + q) = (Unit + Ulp) * a + (Unit + Ulp) * q
  BY <1>1, Distribute
<1>3. (Unit - Ulp) * q = q * Unit - q * Ulp /\ (Unit + Ulp) * q = q * Unit + q * Ulp
  BY <1>1
<1>4. Ulp <= q * Ulp
  <2>1. q * Ulp = Ulp + (q - 1) * Ulp /\ (q - 1) * Ulp >= 0 BY <1>1
  <2> QED BY <1>1, <2>1
<1>5. (Unit - Ulp) * a <= f /\ f <= (Unit + Ulp) * a BY DEF Near
<1>6. /\ (Unit - Ulp) * a \in Int /\ (Unit + Ulp) * a \in Int
      /\ q * Unit \in Int /\ q * Ulp \in Int
  BY <1>1
<1>7. /\ (Unit - Ulp) * (a + q) <= f + q * Unit + r
      /\ f + q * Unit + r <= (Unit + Ulp) * (a + q)
  BY <1>1, <1>2, <1>3, <1>4, <1>5, <1>6
<1> QED BY <1>7 DEF Near

\* A sum counts as complete exactly when all lots are in it.
LEMMA CompleteWhenWhole ==
    ASSUME CloseFills, NEW f \in Int, NEW a \in Nat, NEW n \in Quantities, a <= n, Near(f, a)
    PROVE  f >= n * Unit - Tolerance <=> a = n
<1>1. /\ Unit \in Nat /\ Tolerance \in Nat /\ n \in Nat /\ Ulp \in Nat
      /\ 2 * Tolerance < Unit /\ n * Ulp <= Tolerance
  BY UlpBounds, OrderFillsAssumption DEF CloseFills, RoundsWithin
<1>2. /\ (Unit - Ulp) * a = a * Unit - a * Ulp /\ (Unit + Ulp) * a = a * Unit + a * Ulp
      /\ a * Unit \in Int /\ a * Ulp \in Int /\ n * Unit \in Int /\ n * Ulp \in Int
  BY <1>1
<1>3. a * Unit - a * Ulp <= f /\ f <= a * Unit + a * Ulp BY <1>2 DEF Near
<1>4. CASE a = n BY <1>1, <1>2, <1>3, <1>4
<1>5. CASE a < n
  <2>1. PICK d \in Nat : n = a + 1 + d
    <3>1. n - a - 1 \in Nat /\ n = a + 1 + (n - a - 1) BY <1>1, <1>5
    <3> QED BY <3>1
  <2>2. n * Unit = a * Unit + Unit + d * Unit /\ n * Ulp = a * Ulp + Ulp + d * Ulp
    <3>1. /\ (a + 1 + d) * Unit = a * Unit + Unit + d * Unit
          /\ (a + 1 + d) * Ulp = a * Ulp + Ulp + d * Ulp
      BY <1>1
    <3> QED BY <2>1, <3>1
  <2>3. d * Unit \in Nat /\ d * Ulp \in Nat BY <1>1
  <2>4. a * Ulp <= Tolerance BY <1>1, <1>2, <2>2, <2>3
  <2>5. a * Unit <= n * Unit - Unit BY <1>1, <1>2, <2>2, <2>3
  <2>6. f < n * Unit - Tolerance BY <1>1, <1>2, <1>3, <2>4, <2>5
  <2> QED BY <1>1, <1>2, <1>5, <2>6
<1> QED BY <1>1, <1>4, <1>5

\* What RemoveAt leaves.
LEMMA RemoveAtElements ==
    ASSUME NEW S, NEW s \in Seq(S), NEW i \in DOMAIN s
    PROVE  /\ \A k \in DOMAIN RemoveAt(s, i) : \E j \in DOMAIN s : RemoveAt(s, i)[k] = s[j]
           /\ \A j \in DOMAIN s : j # i => \E k \in DOMAIN RemoveAt(s, i) : RemoveAt(s, i)[k] = s[j]
<1> DEFINE r == RemoveAt(s, i)
<1>1. /\ Len(s) \in Nat /\ DOMAIN s = 1 .. Len(s) /\ i \in 1 .. Len(s) OBVIOUS
<1>2. /\ DOMAIN r = 1 .. Len(s) - 1
      /\ \A k \in 1 .. Len(s) - 1 : r[k] = IF k < i THEN s[k] ELSE s[k + 1]
  <2> DEFINE a == SubSeq(s, 1, i - 1)
             b == SubSeq(s, i + 1, Len(s))
  <2>1. /\ a \in Seq(S) /\ Len(a) = i - 1 /\ \A k \in 1 .. i - 1 : a[k] = s[k]
    <3>1. \A k \in 1 .. i - 1 : s[k] \in S BY <1>1
    <3>2. /\ a \in Seq(S) /\ Len(a) = IF 1 <= i - 1 THEN (i - 1) - 1 + 1 ELSE 0
          /\ \A k \in 1 .. (i - 1) - 1 + 1 : a[k] = s[1 + k - 1]
      BY <1>1, <3>1, SubSeqProperties
    <3> HIDE DEF a
    <3>3. Len(a) = i - 1 BY <1>1, <3>2
    <3>4. ASSUME NEW k \in 1 .. i - 1 PROVE a[k] = s[k]
      <4>1. k \in 1 .. (i - 1) - 1 + 1 /\ 1 + k - 1 = k BY <1>1
      <4> QED BY <3>2, <4>1
    <3> QED BY <3>2, <3>3, <3>4
  <2>2. /\ b \in Seq(S) /\ Len(b) = Len(s) - i
        /\ \A k \in 1 .. Len(s) - i : b[k] = s[i + k]
    <3>1. \A k \in i + 1 .. Len(s) : s[k] \in S BY <1>1
    <3>2. /\ b \in Seq(S)
          /\ Len(b) = IF i + 1 <= Len(s) THEN Len(s) - (i + 1) + 1 ELSE 0
          /\ \A k \in 1 .. Len(s) - (i + 1) + 1 : b[k] = s[(i + 1) + k - 1]
      BY <1>1, <3>1, SubSeqProperties
    <3> HIDE DEF b
    <3>3. Len(b) = Len(s) - i BY <1>1, <3>2
    <3>4. ASSUME NEW k \in 1 .. Len(s) - i PROVE b[k] = s[i + k]
      <4>1. k \in 1 .. Len(s) - (i + 1) + 1 /\ (i + 1) + k - 1 = i + k BY <1>1
      <4> QED BY <3>2, <4>1
    <3> QED BY <3>2, <3>3, <3>4
  <2>3. r = a \o b BY DEF RemoveAt
  <2> HIDE DEF a, b, r
  <2>4. /\ r \in Seq(S) /\ Len(r) = (i - 1) + (Len(s) - i)
        /\ \A k \in 1 .. (i - 1) + (Len(s) - i) :
               r[k] = IF k <= i - 1 THEN a[k] ELSE b[k - (i - 1)]
    BY <2>1, <2>2, <2>3, ConcatProperties
  <2>5. DOMAIN r = 1 .. Len(s) - 1
    <3>1. DOMAIN r = 1 .. Len(r) /\ Len(r) = Len(s) - 1 BY <1>1, <2>4
    <3> QED BY <3>1
  <2>6. ASSUME NEW k \in 1 .. Len(s) - 1
        PROVE  r[k] = IF k < i THEN s[k] ELSE s[k + 1]
    <3>1. r[k] = IF k <= i - 1 THEN a[k] ELSE b[k - (i - 1)] BY <1>1, <2>4
    <3>2. CASE k < i
      <4>1. k <= i - 1 /\ k \in 1 .. i - 1 BY <1>1, <3>2
      <4> QED BY <2>1, <3>1, <3>2, <4>1
    <3>3. CASE ~(k < i)
      <4>1. ~(k <= i - 1) /\ k - (i - 1) \in 1 .. Len(s) - i /\ i + (k - (i - 1)) = k + 1
        BY <1>1, <3>3
      <4> QED BY <2>2, <3>1, <3>3, <4>1
    <3> QED BY <3>2, <3>3
  <2> QED BY <2>5, <2>6
<1> HIDE DEF r
<1>3. ASSUME NEW k \in DOMAIN r PROVE \E j \in DOMAIN s : r[k] = s[j]
  <2>1. k \in DOMAIN s /\ k + 1 \in DOMAIN s BY <1>1, <1>2
  <2> QED BY <1>2, <2>1
<1>4. ASSUME NEW j \in DOMAIN s, j # i PROVE \E k \in DOMAIN r : r[k] = s[j]
  <2>1. CASE j < i
    <3>1. j \in DOMAIN r BY <1>1, <1>2, <2>1
    <3> QED BY <1>2, <2>1, <3>1
  <2>2. CASE j > i
    <3>1. j - 1 \in DOMAIN r /\ ~(j - 1 < i) /\ (j - 1) + 1 = j BY <1>1, <1>2, <2>2
    <3>2. r[j - 1] = s[j] BY <1>2, <3>1
    <3> QED BY <3>1, <3>2
  <2> QED BY <1>1, <1>4, <2>1, <2>2
<1> QED BY <1>3, <1>4 DEF r

-----------------------------------------------------------------------------
(* A publication of the pod, for whatever reason.                          *)

Spoken(o, e) ==
    /\ o \in Orders /\ e \in Events /\ e.coid = o /\ e.id = nextId
    /\ e.sum = order'[o].filled
    /\ stream' = Append(stream, e) /\ nextId' = nextId + 1
    /\ UNCHANGED <<tracker, outbox, sending, posted, seen, restarts>>
    /\ \A p \in Orders \ {o} : order'[p] = order[p]
    /\ order[o].status \in {"none", "open"}
    /\ order'[o].status \in {"open", "OrderFilled"} \cup Ends
    /\ order[o].status = "none" =>
          e.type = "OrderInitialized" /\ e.qty = order'[o].total /\ e.qty \in Quantities
    /\ order[o].status # "none" =>
          e.type # "OrderInitialized" /\ order'[o].total = order[o].total
    /\ order'[o].filled = order[o].filled + Lots(e)
    /\ order'[o].fills = IF e.type = "OrderFilled" THEN order[o].fills \cup {nextId}
                         ELSE order[o].fills
    /\ order'[o].filled <= order'[o].total
    /\ order'[o].status = "OrderFilled" <=> order'[o].filled = order'[o].total
    /\ e.type # "OrderUpdated" /\ (e.type = "OrderFilled" => 0 < e.qty)
    /\ e.type \in EndEvents => order'[o].status = e.type
    /\ order'[o].status # "open" =>
          e.type \in EndEvents \/ (e.type = "OrderFilled" /\ e.sum = order'[o].total)
    /\ order'[o].status \in Refusals => order'[o].fills = {}

\* Every action of the pod is such a publication.
LEMMA PodSpeaks ==
    ASSUME CloseFills, TypeOK, TypeOK', OrdersLawful, UnbornUnknown,
           \/ \E o \in Orders, n \in Quantities : Initialize(o, n) \/ Fill(o, n) \/ Amend(o, n)
           \/ \E o \in Orders : Accept(o)
           \/ \E o \in Orders, type \in Ends : End(o, type)
    PROVE  \E o \in Orders, e \in Events : Spoken(o, e)
<1>1. ASSUME NEW o \in Orders, NEW type \in EventTypes, NEW qty \in Nat, Publish(o, type, qty)
      PROVE  LET e == [id |-> nextId, type |-> type, coid |-> o, qty |-> qty,
                       sum |-> order'[o].filled]
             IN  /\ e \in Events /\ e.coid = o /\ e.id = nextId
                 /\ e.sum = order'[o].filled /\ e.type = type /\ e.qty = qty
                 /\ stream' = Append(stream, e) /\ nextId' = nextId + 1
                 /\ UNCHANGED <<tracker, outbox, sending, posted, seen, restarts>>
  <2>1. order'[o].filled \in Nat /\ nextId \in Nat BY FieldTypes, <1>1 DEF TypeOK
  <2> QED BY <1>1, <2>1 DEF Publish, Events
<1>2. ASSUME NEW o \in Orders PROVE order[o] = [order[o] EXCEPT !.status = order[o].status]
  BY DEF TypeOK
<1>3. /\ order \in [Orders -> [status : Statuses, total : Nat, filled : Nat, fills : SUBSET Nat]]
      /\ \A o \in Orders : /\ order[o].total \in Nat /\ order[o].filled \in Nat
  BY DEF TypeOK
<1>4. ASSUME NEW o \in Orders, NEW n \in Quantities, Initialize(o, n)
      PROVE  \E e \in Events : Spoken(o, e)
  <2>1. n \in Nat /\ n > 0 /\ "OrderInitialized" \in EventTypes
    BY OrderFillsAssumption DEF EventTypes, Transient
  <2> DEFINE e == [id |-> nextId, type |-> "OrderInitialized", coid |-> o, qty |-> n,
                   sum |-> order'[o].filled]
  <2>2. /\ e \in Events
        /\ e.coid = o /\ e.id = nextId /\ e.sum = order'[o].filled
        /\ e.type = "OrderInitialized" /\ e.qty = n
        /\ stream' = Append(stream, e) /\ nextId' = nextId + 1
        /\ UNCHANGED <<tracker, outbox, sending, posted, seen, restarts>>
    <3>1. Publish(o, "OrderInitialized", n) BY <1>4 DEF Initialize
    <3> QED BY <1>1, <2>1, <3>1
  <2> HIDE DEF e
  <2>3. /\ order[o].status = "none" /\ order'[o].status = "open" /\ order'[o].total = n
        /\ order'[o].filled = order[o].filled /\ order'[o].fills = order[o].fills
        /\ \A p \in Orders \ {o} : order'[p] = order[p]
    BY <1>3, <1>4 DEF Initialize
  <2>4. order[o].filled = 0 BY <2>3 DEF OrdersLawful
  <2>5. Lots(e) = 0 /\ e.type \notin EndEvents BY <2>2 DEF Lots, EndEvents, Refusals
  <2>6. Spoken(o, e) BY <2>1, <2>2, <2>3, <2>4, <2>5 DEF Spoken, Refusals
  <2> QED BY <2>2, <2>6
<1>5. ASSUME NEW o \in Orders, Accept(o) PROVE \E e \in Events : Spoken(o, e)
  <2>1. "OrderAccepted" \in EventTypes BY DEF EventTypes, Transient
  <2> DEFINE e == [id |-> nextId, type |-> "OrderAccepted", coid |-> o, qty |-> 0,
                   sum |-> order'[o].filled]
  <2>2. /\ e \in Events
        /\ e.coid = o /\ e.id = nextId /\ e.sum = order'[o].filled
        /\ e.type = "OrderAccepted"
        /\ stream' = Append(stream, e) /\ nextId' = nextId + 1
        /\ UNCHANGED <<tracker, outbox, sending, posted, seen, restarts>>
    <3>1. Publish(o, "OrderAccepted", 0) BY <1>5 DEF Accept
    <3> QED BY <1>1, <2>1, <3>1
  <2> HIDE DEF e
  <2>3. order[o].status = "open" /\ order' = order BY <1>5 DEF Accept
  <2>4. order[o].filled <= order[o].total /\ order[o].filled # order[o].total
    BY <2>3 DEF OrdersLawful
  <2>5. Lots(e) = 0 /\ e.type \notin EndEvents BY <2>2 DEF Lots, EndEvents, Refusals
  <2>6. Spoken(o, e) BY <1>3, <2>2, <2>3, <2>4, <2>5 DEF Spoken, Refusals
  <2> QED BY <2>2, <2>6
<1>6. ASSUME NEW o \in Orders, NEW n \in Quantities, Fill(o, n)
      PROVE  \E e \in Events : Spoken(o, e)
  <2>1. n \in Nat /\ n > 0 /\ "OrderFilled" \in EventTypes
    BY OrderFillsAssumption DEF EventTypes
  <2> DEFINE e == [id |-> nextId, type |-> "OrderFilled", coid |-> o, qty |-> n,
                   sum |-> order'[o].filled]
  <2>2. /\ e \in Events
        /\ e.coid = o /\ e.id = nextId /\ e.sum = order'[o].filled
        /\ e.type = "OrderFilled" /\ e.qty = n
        /\ stream' = Append(stream, e) /\ nextId' = nextId + 1
        /\ UNCHANGED <<tracker, outbox, sending, posted, seen, restarts>>
    <3>1. Publish(o, "OrderFilled", n) BY <1>6 DEF Fill
    <3> QED BY <1>1, <2>1, <3>1
  <2> HIDE DEF e
  <2>3. /\ order[o].status = "open" /\ order[o].filled + n <= order[o].total
        /\ order' = [order EXCEPT ![o] =
              [order[o] EXCEPT !.filled = @ + n, !.fills = @ \cup {nextId},
                               !.status = IF order[o].filled + n = order[o].total
                                          THEN "OrderFilled" ELSE "open"]]
    BY <1>6 DEF Fill
  <2>4. /\ order'[o].status = (IF order[o].filled + n = order[o].total
                               THEN "OrderFilled" ELSE "open")
        /\ order'[o].total = order[o].total /\ order'[o].filled = order[o].filled + n
        /\ order'[o].fills = order[o].fills \cup {nextId}
        /\ \A p \in Orders \ {o} : order'[p] = order[p]
    <3>1. order[o] \in [status : Statuses, total : Nat, filled : Nat, fills : SUBSET Nat]
      BY <1>3
    <3> QED BY <1>3, <2>3, <3>1
  <2>5. Lots(e) = n /\ e.type \notin EndEvents BY <2>2 DEF Lots, EndEvents, Refusals
  <2>6. order'[o].status \notin Refusals BY <2>4 DEF Refusals
  <2>7. Spoken(o, e) BY <1>3, <2>1, <2>2, <2>3, <2>4, <2>5, <2>6 DEF Spoken
  <2> QED BY <2>2, <2>7
<1>7. ASSUME NEW o \in Orders, NEW type \in Ends, End(o, type)
      PROVE  \E e \in Events : Spoken(o, e)
  <2>1. type \in EndEvents /\ type \in EventTypes
    BY OrderFillsAssumption DEF EventTypes
  <2> DEFINE e == [id |-> nextId, type |-> type, coid |-> o, qty |-> 0,
                   sum |-> order'[o].filled]
  <2>2. /\ e \in Events
        /\ e.coid = o /\ e.id = nextId /\ e.sum = order'[o].filled
        /\ e.type = type
        /\ stream' = Append(stream, e) /\ nextId' = nextId + 1
        /\ UNCHANGED <<tracker, outbox, sending, posted, seen, restarts>>
    <3>1. Publish(o, type, 0) BY <1>7 DEF End
    <3> QED BY <1>1, <2>1, <3>1
  <2> HIDE DEF e
  <2>3. /\ order[o].status = "open" /\ order'[o].status = type
        /\ order'[o].total = order[o].total
        /\ order'[o].filled = order[o].filled /\ order'[o].fills = order[o].fills
        /\ \A p \in Orders \ {o} : order'[p] = order[p]
        /\ type \in Refusals => order[o].filled = 0
    BY <1>3, <1>7 DEF End
  <2>4. /\ order[o].filled <= order[o].total /\ order[o].filled # order[o].total
        /\ order[o].filled = 0 => order[o].fills = {}
    BY <2>3 DEF OrdersLawful
  <2>5. Lots(e) = 0 /\ type \notin {"OrderFilled", "OrderUpdated", "OrderInitialized", "open"}
    BY <2>1, <2>2 DEF Lots, EndEvents, Refusals
  <2>6. Spoken(o, e) BY <1>3, <2>1, <2>2, <2>3, <2>4, <2>5 DEF Spoken
  <2> QED BY <2>2, <2>6
<1>8. ~ \E o \in Orders, n \in Quantities : Amend(o, n) BY DEF CloseFills, Amend
<1> QED BY <1>4, <1>5, <1>6, <1>7, <1>8

\* An event that ended its order leaves nothing to publish about it.
LEMMA CompletedIsDone ==
    ASSUME TypeOK, OrdersLawful, NEW d \in Events, Lawful(d), Completes(d)
    PROVE  order[d.coid].status = d.type /\ Done(d.coid)
<1>1. d.coid \in Orders /\ d.sum \in Nat BY EventTyped
<1>2. /\ order[d.coid].filled \in Nat /\ order[d.coid].total \in Nat
      /\ order[d.coid].filled <= order[d.coid].total
      /\ d.sum <= order[d.coid].filled
  BY <1>1, FieldTypes DEF OrdersLawful, Lawful
<1>3. CASE d.type \in EndEvents BY <1>3 DEF Lawful, Done, EndEvents, Refusals
<1>4. CASE d.type = "OrderFilled" /\ d.sum = order[d.coid].total
  <2>1. order[d.coid].filled = order[d.coid].total BY <1>1, <1>2, <1>4
  <2>2. order[d.coid].status = "OrderFilled" BY <1>1, <2>1 DEF OrdersLawful, Lawful
  <2> QED BY <1>4, <2>2 DEF Done
<1> QED BY <1>3, <1>4 DEF Completes

LEMMA LawfulSpoken ==
    ASSUME TypeOK, StreamOrdered, OrdersLawful, NEW o, NEW e, Spoken(o, e),
           NEW d \in Events, Lawful(d)
    PROVE  /\ Lawful(d)'
           /\ Completes(d)' => Completes(d) /\ d.coid # o
           /\ Completes(d) => Completes(d)'
<1>1. /\ o \in Orders /\ e \in Events /\ e.coid = o /\ Lots(e) \in Nat
      /\ d.coid \in Orders /\ d.id \in Nat /\ d.sum \in Nat
  BY EventTyped DEF Spoken
<1>2. /\ order[o].filled \in Nat /\ order[o].total \in Nat /\ nextId \in Nat
      /\ order[d.coid].filled \in Nat
  BY <1>1, FieldTypes
<1>3. d.id < nextId' /\ d.id # nextId BY <1>1, <1>2 DEF Lawful, Spoken
<1>4. \A p \in Orders : d.id \in order'[p].fills <=> d.id \in order[p].fills
  BY <1>1, <1>3 DEF Spoken
<1>5. CASE d.coid # o
  <2>1. order'[d.coid] = order[d.coid] BY <1>1, <1>5 DEF Spoken
  <2> QED BY <1>3, <1>4, <1>5, <2>1 DEF Lawful, Completes
<1>6. CASE d.coid = o
  <2>1. order[o].status = "open" /\ order'[o].status # "none" /\ order'[o].total = order[o].total
    <3>1. order[o].status = "open" BY <1>6 DEF Lawful, Spoken
    <3>2. order'[o].status # "none" BY OrderFillsAssumption DEF Spoken, EndEvents, Refusals
    <3> QED BY <3>1, <3>2 DEF Spoken
  <2>2. ~Completes(d) BY <1>6, <2>1, CompletedIsDone DEF Done
  <2>3. ~Completes(d)' BY <1>6, <2>1, <2>2 DEF Completes
  <2>4. d.type \notin EndEvents BY <2>2 DEF Completes
  <2>5. order[o].filled <= order'[o].filled BY <1>1, <1>2 DEF Spoken
  <2>6. d.sum <= order'[o].filled BY <1>1, <1>2, <1>6, <2>5 DEF Lawful, Spoken
  <2>7. ASSUME d.type = "OrderFilled", d.sum = order'[o].filled
        PROVE  \A f \in order'[o].fills : f <= d.id
    <3>1. order'[o].filled = order[o].filled
      BY <1>1, <1>2, <1>6, <2>5, <2>7 DEF Lawful, Spoken
    <3>2. Lots(e) = 0 BY <1>1, <1>2, <3>1 DEF Spoken
    <3>3. e.type # "OrderFilled" BY <3>2 DEF Lots, Spoken
    <3>4. order'[o].fills = order[o].fills BY <3>3 DEF Spoken
    <3> QED BY <1>6, <2>7, <3>1, <3>4 DEF Lawful
  <2> QED BY <1>3, <1>4, <1>6, <2>1, <2>2, <2>3, <2>4, <2>6, <2>7 DEF Lawful
<1> QED BY <1>5, <1>6

LEMMA HistorySpoken ==
    ASSUME WholeInv, HistoryInv, NEW o, NEW e, Spoken(o, e), TypeOK'
    PROVE  HistoryInv'
<1> USE DEF WholeInv, HistoryInv
<1> DEFINE n == Len(stream) + 1
<1>1. /\ o \in Orders /\ e \in Events /\ e.coid = o /\ Lots(e) \in Nat
      /\ e.id = nextId /\ nextId \in Nat
  BY EventTyped, FieldTypes DEF Spoken
<1>2. /\ DOMAIN stream' = DOMAIN stream \cup {n} /\ n \notin DOMAIN stream
      /\ \A i \in DOMAIN stream : stream'[i] = stream[i] /\ i < n
      /\ stream'[n] = e
  BY <1>1, AppendedStream DEF Spoken
<1>3. /\ DOMAIN stream \subseteq Nat /\ n \in Nat
      /\ \A i \in DOMAIN stream : stream[i] \in Events /\ stream[i].coid \in Orders
                                  /\ Lawful(stream[i])
  BY FieldTypes, EventTyped DEF StreamLawful
<1> HIDE DEF n
<1>4. ASSUME NEW i \in DOMAIN stream
      PROVE  /\ Lawful(stream[i])'
             /\ Completes(stream[i])' => Completes(stream[i]) /\ stream[i].coid # o
             /\ Completes(stream[i]) => Completes(stream[i])'
  <2>1. PICK d \in Events : d = stream[i] BY <1>3
  <2>2. stream'[i] = d /\ Lawful(d) BY <1>2, <1>3, <2>1
  <2>3. /\ Lawful(d)'
        /\ Completes(d)' => Completes(d) /\ d.coid # o
        /\ Completes(d) => Completes(d)'
    BY <2>2, LawfulSpoken
  <2> QED BY <2>1, <2>2, <2>3 DEF Lawful, Completes
<1>5. OrdersLawful'
  <2> SUFFICES ASSUME NEW p \in Orders
               PROVE  /\ order'[p].status \in {"none", "open", "OrderFilled"} \cup Ends
                      /\ order'[p].filled <= order'[p].total
                      /\ order'[p].status = "none" => order'[p].filled = 0
                      /\ order'[p].status # "none" =>
                            (order'[p].status = "OrderFilled" <=> order'[p].filled = order'[p].total)
                      /\ order'[p].filled = 0 => order'[p].fills = {}
                      /\ order'[p].status \in Refusals => order'[p].fills = {}
                      /\ order'[p].status # "none" => order'[p].total \in Quantities
    BY DEF OrdersLawful
  <2>1. CASE p # o BY <2>1 DEF OrdersLawful, Spoken
  <2>2. CASE p = o
    <3>1. order'[o].status # "none" BY OrderFillsAssumption DEF Spoken, EndEvents, Refusals
    <3>2. ASSUME order'[o].filled = 0 PROVE order'[o].fills = {}
      <4>1. order[o].filled \in Nat BY <1>1, FieldTypes
      <4>2. order[o].filled = 0 /\ Lots(e) = 0 BY <1>1, <3>2, <4>1 DEF Spoken
      <4>3. e.type # "OrderFilled" BY <4>2 DEF Lots, Spoken
      <4> QED BY <1>1, <4>2, <4>3 DEF Spoken, OrdersLawful
    <3>3. order'[o].total \in Quantities
      <4>1. CASE order[o].status = "none" BY <4>1 DEF Spoken
      <4>2. CASE order[o].status # "none" BY <1>1, <4>2 DEF Spoken, OrdersLawful
      <4> QED BY <4>1, <4>2
    <3> QED BY <2>2, <3>1, <3>2, <3>3 DEF Spoken
  <2> QED BY <2>1, <2>2
<1>6. Lawful(e)'
  <2>1. order[o].filled \in Nat /\ order'[o].filled \in Nat BY <1>1, FieldTypes DEF TypeOK
  <2>2. e.id < nextId' BY <1>1 DEF Spoken
  <2>3. order'[o].status # "none" BY OrderFillsAssumption DEF Spoken, EndEvents, Refusals
  <2>4. e.type = "OrderInitialized" => e.qty = order'[o].total /\ e.sum = 0
    <3>1. e.type = "OrderInitialized" => order[o].status = "none" BY DEF Spoken
    <3>2. order[o].status = "none" => order[o].filled = 0 BY <1>1 DEF OrdersLawful
    <3>3. e.type = "OrderInitialized" => Lots(e) = 0 BY DEF Lots
    <3> QED BY <2>1, <3>1, <3>2, <3>3 DEF Spoken
  <2>5. \A p \in Orders : nextId \notin order[p].fills
    <3>1. \A p \in Orders : \A f \in order[p].fills : f < nextId BY DEF StreamOrdered
    <3> QED BY <1>1, <3>1
  <2>6. \A p \in Orders : e.id \in order'[p].fills <=> e.type = "OrderFilled" /\ p = o
    BY <1>1, <2>5 DEF Spoken
  <2>7. e.type = "OrderFilled" => \A f \in order'[o].fills : f <= e.id
    <3>1. \A f \in order[o].fills : f <= nextId
      <4>1. \A f \in order[o].fills : f < nextId /\ f \in Nat
        BY <1>1, FieldTypes DEF StreamOrdered
      <4> QED BY <1>1, <4>1
    <3> QED BY <1>1, <3>1 DEF Spoken
  <2>8. e.sum <= order'[o].filled BY <2>1 DEF Spoken
  <2>9. /\ e.type # "OrderUpdated" /\ (e.type = "OrderFilled" => 0 < e.qty)
        /\ e.type \in EndEvents => order'[o].status = e.type
    BY DEF Spoken
  <2> QED BY <1>1, <2>2, <2>3, <2>4, <2>6, <2>7, <2>8, <2>9 DEF Lawful
<1>7. StreamLawful'
  <2> SUFFICES ASSUME NEW i \in DOMAIN stream' PROVE Lawful(stream[i])'
    BY DEF StreamLawful
  <2>1. CASE i = n
    <3>1. stream'[i] = e BY <1>2, <2>1
    <3> QED BY <1>6, <3>1 DEF Lawful
  <2>2. CASE i \in DOMAIN stream BY <1>4, <2>2
  <2> QED BY <1>2, <2>1, <2>2
<1>8. Chained'
  <2>1. ASSUME NEW i \in DOMAIN stream', NEW j \in DOMAIN stream', Follows(i, j)'
        PROVE  stream'[j].sum = stream'[i].sum + Lots(stream'[j])
    <3>1. i \in DOMAIN stream /\ i < j /\ stream'[i].coid = stream'[j].coid
          /\ \A k \in DOMAIN stream : i < k /\ k < j => stream[k].coid # stream[i].coid
      <4>1. i < j /\ stream'[i].coid = stream'[j].coid
            /\ \A k \in DOMAIN stream' : i < k /\ k < j => stream'[k].coid # stream'[i].coid
        BY <2>1 DEF Follows
      <4>2. i \in DOMAIN stream BY <1>2, <1>3, <4>1
      <4> QED BY <1>2, <4>1, <4>2
    <3>2. CASE j \in DOMAIN stream
      <4>1. Follows(i, j) BY <1>2, <3>1, <3>2 DEF Follows
      <4> QED BY <1>2, <3>1, <3>2, <4>1 DEF Chained
    <3>3. CASE j = n
      <4>1. \A k \in DOMAIN stream : i < k => stream[k].coid # stream[i].coid
        BY <1>2, <3>1, <3>3
      <4>2. stream[i].sum = order[o].filled
        BY <1>1, <1>2, <3>1, <3>3, <4>1 DEF Chained
      <4> QED BY <1>2, <3>1, <3>3, <4>2 DEF Spoken
    <3> QED BY <1>2, <3>2, <3>3
  <2>2. ASSUME NEW i \in DOMAIN stream',
               \A j \in DOMAIN stream' : i < j => stream'[j].coid # stream'[i].coid
        PROVE  stream'[i].sum = order'[stream'[i].coid].filled
    <3>1. CASE i = n BY <1>1, <1>2, <3>1 DEF Spoken
    <3>2. CASE i \in DOMAIN stream
      <4>1. stream[i].coid # o BY <1>1, <1>2, <2>2, <3>2
      <4>2. \A j \in DOMAIN stream : i < j => stream[j].coid # stream[i].coid
        BY <1>2, <2>2, <3>2
      <4>3. order'[stream[i].coid] = order[stream[i].coid] BY <1>3, <3>2, <4>1 DEF Spoken
      <4> QED BY <1>2, <3>2, <4>2, <4>3 DEF Chained
    <3> QED BY <1>2, <3>1, <3>2
  <2> QED BY <2>1, <2>2 DEF Chained
<1>9. EndsLast'
  <2>1. ASSUME NEW i \in DOMAIN stream', NEW j \in DOMAIN stream', Completes(stream[i])', i < j
        PROVE  stream'[j].coid # stream'[i].coid
    <3>1. i \in DOMAIN stream BY <1>2, <1>3, <2>1
    <3>2. Completes(stream[i]) /\ stream[i].coid # o BY <1>4, <2>1, <3>1
    <3>3. CASE j \in DOMAIN stream BY <1>2, <2>1, <3>1, <3>2, <3>3 DEF EndsLast
    <3>4. CASE j = n BY <1>1, <1>2, <3>1, <3>2, <3>4
    <3> QED BY <1>2, <3>3, <3>4
  <2>2. ASSUME NEW i \in DOMAIN stream', Done(stream[i].coid)'
        PROVE  \E j \in DOMAIN stream' : stream'[j].coid = stream'[i].coid /\ Completes(stream[j])'
    <3>1. CASE stream'[i].coid = o
      <4>1. order'[o].status # "open" BY <2>2, <3>1 DEF Done
      <4>2. e.type \in EndEvents \/ (e.type = "OrderFilled" /\ e.sum = order'[o].total)
        BY <4>1 DEF Spoken
      <4>3. PICK m \in DOMAIN stream' : m = n BY <1>2
      <4>4. stream'[m] = e BY <1>2, <4>3
      <4>5. Completes(stream[m])' BY <1>1, <4>2, <4>4 DEF Completes
      <4> QED BY <1>1, <3>1, <4>4, <4>5
    <3>2. CASE stream'[i].coid # o
      <4>1. i \in DOMAIN stream /\ stream'[i] = stream[i] BY <1>1, <1>2, <3>2
      <4>2. Done(stream[i].coid) BY <1>3, <2>2, <3>2, <4>1 DEF Done, Spoken
      <4>3. PICK j \in DOMAIN stream : stream[j].coid = stream[i].coid /\ Completes(stream[j])
        BY <4>1, <4>2 DEF EndsLast
      <4> QED BY <1>2, <1>4, <4>1, <4>3
    <3> QED BY <3>1, <3>2
  <2> QED BY <2>1, <2>2 DEF EndsLast
<1> QED BY <1>5, <1>7, <1>8, <1>9

-----------------------------------------------------------------------------
(* Reading an entry.                                                       *)

\* The stream without its first entry.
LEMMA Shifted ==
    ASSUME TypeOK, stream # <<>>, stream' = Tail(stream)
    PROVE  /\ 1 \in DOMAIN stream /\ Head(stream) = stream[1]
           /\ \A i \in DOMAIN stream' : /\ i \in Nat /\ 0 < i
                                        /\ i + 1 \in DOMAIN stream /\ stream'[i] = stream[i + 1]
           /\ \A j \in DOMAIN stream : j \in Nat /\ 1 <= j
           /\ \A j \in DOMAIN stream : j # 1 => /\ j - 1 \in DOMAIN stream' /\ 1 < j
                                                /\ stream'[j - 1] = stream[j]
BY DEF TypeOK

LEMMA HistoryConsumed ==
    ASSUME WholeInv, HistoryInv, stream # <<>>, stream' = Tail(stream),
           UNCHANGED <<order, nextId>>
    PROVE  HistoryInv'
<1> USE DEF WholeInv, HistoryInv
<1>1. /\ 1 \in DOMAIN stream
      /\ \A i \in DOMAIN stream' : /\ i \in Nat /\ 0 < i
                                   /\ i + 1 \in DOMAIN stream /\ stream'[i] = stream[i + 1]
      /\ \A j \in DOMAIN stream : j \in Nat /\ 1 <= j
      /\ \A j \in DOMAIN stream : j # 1 => /\ j - 1 \in DOMAIN stream' /\ 1 < j
                                           /\ stream'[j - 1] = stream[j]
  BY Shifted
<1>2. OrdersLawful' BY DEF OrdersLawful
<1>3. StreamLawful'
  <2> SUFFICES ASSUME NEW i \in DOMAIN stream' PROVE Lawful(stream[i])'
    BY DEF StreamLawful
  <2>1. Lawful(stream[i + 1]) BY <1>1 DEF StreamLawful
  <2> QED BY <1>1, <2>1 DEF Lawful
<1>4. Chained'
  <2>1. ASSUME NEW i \in DOMAIN stream', NEW j \in DOMAIN stream', Follows(i, j)'
        PROVE  stream'[j].sum = stream'[i].sum + Lots(stream'[j])
    <3>1. i < j /\ stream'[i].coid = stream'[j].coid
          /\ \A k \in DOMAIN stream' : i < k /\ k < j => stream'[k].coid # stream'[i].coid
      BY <2>1 DEF Follows
    <3>2. ASSUME NEW k \in DOMAIN stream, i + 1 < k, k < j + 1
          PROVE  stream[k].coid # stream[i + 1].coid
      <4>1. k # 1 /\ k - 1 \in DOMAIN stream' /\ stream'[k - 1] = stream[k] BY <1>1, <3>2
      <4>2. i < k - 1 /\ k - 1 < j BY <1>1, <3>2
      <4> QED BY <1>1, <3>1, <4>1, <4>2
    <3>3. Follows(i + 1, j + 1) BY <1>1, <3>1, <3>2 DEF Follows
    <3> QED BY <1>1, <3>3 DEF Chained
  <2>2. ASSUME NEW i \in DOMAIN stream',
               \A j \in DOMAIN stream' : i < j => stream'[j].coid # stream'[i].coid
        PROVE  stream'[i].sum = order[stream'[i].coid].filled
    <3>1. ASSUME NEW j \in DOMAIN stream, i + 1 < j PROVE stream[j].coid # stream[i + 1].coid
      <4>1. j # 1 /\ j - 1 \in DOMAIN stream' /\ stream'[j - 1] = stream[j] BY <1>1, <3>1
      <4>2. i < j - 1 BY <1>1, <3>1
      <4> QED BY <1>1, <2>2, <4>1, <4>2
    <3> QED BY <1>1, <3>1 DEF Chained
  <2> QED BY <2>1, <2>2 DEF Chained
<1>5. EndsLast'
  <2>1. ASSUME NEW i \in DOMAIN stream', NEW j \in DOMAIN stream', Completes(stream[i])', i < j
        PROVE  stream'[j].coid # stream'[i].coid
    <3>1. Completes(stream[i + 1]) BY <1>1, <2>1 DEF Completes
    <3>2. i + 1 < j + 1 BY <1>1, <2>1
    <3> QED BY <1>1, <3>1, <3>2 DEF EndsLast
  <2>2. ASSUME NEW i \in DOMAIN stream', Done(stream[i].coid)'
        PROVE  \E j \in DOMAIN stream' : stream'[j].coid = stream'[i].coid /\ Completes(stream[j])'
    <3>1. Done(stream[i + 1].coid) BY <1>1, <2>2 DEF Done
    <3>2. PICK j \in DOMAIN stream : stream[j].coid = stream[i + 1].coid /\ Completes(stream[j])
      BY <1>1, <3>1 DEF EndsLast
    <3>3. j # 1
      <4>1. 1 < i + 1 BY <1>1
      <4> QED BY <1>1, <3>2, <4>1 DEF EndsLast
    <3>4. j - 1 \in DOMAIN stream' /\ stream'[j - 1] = stream[j] BY <1>1, <3>3
    <3>5. Completes(stream[j - 1])' BY <3>2, <3>4 DEF Completes
    <3> QED BY <1>1, <3>2, <3>4, <3>5
  <2> QED BY <2>1, <2>2 DEF EndsLast
<1> QED BY <1>2, <1>3, <1>4, <1>5
-----------------------------------------------------------------------------
(* What the notifier has made of the stream, when the pod adds to it.      *)

LEMMA EmbedTyped ==
    ASSUME NEW x \in Embeds
    PROVE  x.coid \in Orders /\ x.id \in Nat /\ x.fills \in SUBSET Nat /\ x.type \in EventTypes
BY DEF Embeds

\* An event leaves the orders alone that are done.
LEMMA DoneUntouched ==
    ASSUME NEW o, NEW e, Spoken(o, e), NEW p \in Orders, Done(p)
    PROVE  p # o /\ order'[p] = order[p]
BY DEF Done, Spoken

LEMMA UnderWaySpoken ==
    ASSUME WholeInv, HistoryInv, UnderWay, NEW o, NEW e, Spoken(o, e)
    PROVE  UnderWay'
<1> USE DEF WholeInv, HistoryInv
<1> DEFINE n == Len(stream) + 1
<1>1. /\ o \in Orders /\ e \in Events /\ e.coid = o /\ e.id = nextId /\ nextId \in Nat
      /\ nextId' = nextId + 1 /\ outbox' = outbox /\ sending' = sending /\ seen' = seen
      /\ order'[o].status # "none"
  <2>1. order'[o].status # "none" BY OrderFillsAssumption DEF Spoken, EndEvents, Refusals
  <2> QED BY <2>1, FieldTypes DEF Spoken
<1>2. /\ DOMAIN stream' = DOMAIN stream \cup {n}
      /\ \A i \in DOMAIN stream : stream'[i] = stream[i]
      /\ stream'[n] = e
  BY <1>1, AppendedStream DEF Spoken
<1> HIDE DEF n
<1>3. ASSUME NEW k \in DOMAIN outbox
      PROVE  /\ Lawful(outbox[k])' /\ outbox[k].type \notin Transient
             /\ \A i \in DOMAIN stream' : outbox[k].id < stream'[i].id
  <2>1. PICK d \in Events : d = outbox[k] BY FieldTypes
  <2>2. /\ Lawful(d) /\ d.type \notin Transient
        /\ \A i \in DOMAIN stream : d.id < stream[i].id
    BY <2>1 DEF UnderWay
  <2>3. Lawful(d)' BY <2>2, LawfulSpoken
  <2>4. d.id < nextId BY <2>2 DEF Lawful
  <2>5. Lawful(outbox[k])' BY <1>1, <2>1, <2>3 DEF Lawful
  <2> QED BY <1>1, <1>2, <2>1, <2>2, <2>4, <2>5
<1>4. ASSUME NEW x \in sending
      PROVE  /\ x.type \in EndEvents \cup {"OrderFilled"} /\ order'[x.coid].status # "none"
             /\ x.type \in EndEvents => order'[x.coid].status = x.type
  <2>1. x.coid \in Orders BY EmbedTyped DEF TypeOK
  <2>2. /\ x.type \in EndEvents \cup {"OrderFilled"} /\ order[x.coid].status # "none"
        /\ x.type \in EndEvents => order[x.coid].status = x.type
    BY DEF UnderWay
  <2>3. x.type \in EndEvents => Done(x.coid) BY <2>2 DEF Done, EndEvents, Refusals
  <2>4. x.type \in EndEvents => order'[x.coid] = order[x.coid] BY <2>1, <2>3, DoneUntouched
  <2>5. order'[x.coid].status # "none" BY <1>1, <2>1, <2>2 DEF Spoken
  <2> QED BY <2>2, <2>4, <2>5
<1>5. ASSUME NEW i \in DOMAIN stream', stream'[i].type = "OrderInitialized"
      PROVE  /\ \A k \in DOMAIN outbox : outbox[k].coid # stream'[i].coid
             /\ \A x \in sending : x.coid # stream'[i].coid
  <2>1. CASE i \in DOMAIN stream BY <1>2, <1>5, <2>1 DEF UnderWay
  <2>2. CASE i = n
    <3>1. order[o].status = "none" BY <1>2, <1>5, <2>2 DEF Spoken
    <3>2. \A k \in DOMAIN outbox : order[outbox[k].coid].status # "none" BY DEF UnderWay, Lawful
    <3>3. \A x \in sending : order[x.coid].status # "none" BY DEF UnderWay
    <3> QED BY <1>1, <1>2, <2>2, <3>1, <3>2, <3>3
  <2> QED BY <1>2, <2>1, <2>2
<1>6. \A f \in seen : f < nextId + 1
  <2>1. \A f \in seen : f < nextId /\ f \in Nat BY DEF UnderWay, TypeOK
  <2> QED BY <1>1, <2>1
<1> QED BY <1>1, <1>3, <1>4, <1>5, <1>6 DEF UnderWay

LEMMA KnownSumSpoken ==
    ASSUME WholeInv, HistoryInv, KnownSum, NEW o, NEW e, Spoken(o, e), TypeOK'
    PROVE  KnownSum'
<1> USE DEF WholeInv, HistoryInv
<1>0. PICK n : n = Len(stream) + 1 OBVIOUS
<1>1. /\ o \in Orders /\ e \in Events /\ e.coid = o /\ tracker' = tracker /\ Lots(e) \in Nat
  BY EventTyped DEF Spoken
<1>2. /\ DOMAIN stream' = DOMAIN stream \cup {n} /\ n \notin DOMAIN stream
      /\ \A i \in DOMAIN stream : stream'[i] = stream[i] /\ i < n
      /\ stream'[n] = e
  BY <1>0, <1>1, AppendedStream DEF Spoken
<1> SUFFICES ASSUME NEW p \in DOMAIN tracker, tracker[p].total # Unknown
             PROVE  /\ tracker[p].total = order'[p].total
                    /\ (\A i \in DOMAIN stream' : stream'[i].coid # p)
                          => Near(tracker[p].filled, order'[p].filled)
                    /\ \A i \in DOMAIN stream' : FirstOf(i, p)' =>
                          Near(tracker[p].filled, stream'[i].sum - Lots(stream'[i]))
  BY <1>1 DEF KnownSum
<1>3. /\ p \in Orders /\ tracker[p].total = order[p].total
      /\ (\A i \in DOMAIN stream : stream[i].coid # p)
            => Near(tracker[p].filled, order[p].filled)
      /\ \A i \in DOMAIN stream : FirstOf(i, p) =>
            Near(tracker[p].filled, stream[i].sum - Lots(stream[i]))
  BY DEF KnownSum, TypeOK
<1>4. ASSUME NEW i \in DOMAIN stream, FirstOf(i, p)'
      PROVE  Near(tracker[p].filled, stream'[i].sum - Lots(stream'[i]))
  <2>1. FirstOf(i, p) BY <1>2, <1>4 DEF FirstOf
  <2> QED BY <1>2, <1>3, <2>1
<1>5. CASE p # o
  <2>1. order'[p] = order[p] BY <1>3, <1>5 DEF Spoken
  <2>2. ~FirstOf(n, p)' BY <1>1, <1>2, <1>5 DEF FirstOf
  <2>3. (\A i \in DOMAIN stream' : stream'[i].coid # p)
            => \A i \in DOMAIN stream : stream[i].coid # p
    BY <1>2
  <2> QED BY <1>2, <1>3, <1>4, <2>1, <2>2, <2>3
<1>6. CASE p = o
  <2>1. order'[p].total = order[p].total BY <1>1, <1>6 DEF UnbornUnknown, Spoken
  <2>2. n \in DOMAIN stream' /\ stream'[n].coid = p BY <1>1, <1>2, <1>6
  <2>3. ASSUME FirstOf(n, p)'
        PROVE  Near(tracker[p].filled, stream'[n].sum - Lots(stream'[n]))
    <3>1. \A k \in DOMAIN stream' : k < n => stream'[k].coid # p BY <2>3 DEF FirstOf
    <3>2. \A k \in DOMAIN stream : stream[k].coid # p BY <1>2, <3>1
    <3>3. order[o].filled \in Nat /\ order'[o].filled \in Nat BY <1>1, FieldTypes DEF TypeOK
    <3>4. e.sum - Lots(e) = order[o].filled BY <1>1, <3>3 DEF Spoken
    <3> QED BY <1>2, <1>3, <1>6, <3>2, <3>4
  <2> QED BY <1>2, <1>3, <1>4, <2>1, <2>2, <2>3
<1> QED BY <1>5, <1>6

LEMMA EndsOnlySpoken ==
    ASSUME WholeInv, HistoryInv, UnderWay, EndsOnly, NEW o, NEW e, Spoken(o, e)
    PROVE  EndsOnly'
<1> USE DEF WholeInv, HistoryInv
<1> DEFINE n == Len(stream) + 1
<1>1. /\ e \in Events /\ e.coid = o /\ tracker' = tracker
      /\ outbox' = outbox /\ sending' = sending
  BY DEF Spoken
<1>2. /\ DOMAIN stream' = DOMAIN stream \cup {n}
      /\ \A i \in DOMAIN stream : stream'[i] = stream[i]
      /\ stream'[n] = e
  BY <1>1, AppendedStream DEF Spoken
<1> HIDE DEF n
<1>3. ASSUME NEW p, p # o, Exhausted(p) PROVE Exhausted(p)'
  BY <1>1, <1>2, <1>3 DEF Exhausted
<1>4. ASSUME NEW k \in DOMAIN outbox, Known(outbox[k].coid)
      PROVE  Completes(outbox[k])' /\ Exhausted(outbox[k].coid)'
  <2>1. PICK d \in Events : d = outbox[k] BY FieldTypes
  <2>2. Lawful(d) BY <2>1 DEF UnderWay
  <2>3. Completes(d) /\ Exhausted(d.coid) BY <1>4, <2>1 DEF EndsOnly
  <2>4. d.coid \in Orders /\ Done(d.coid) BY <2>2, <2>3, CompletedIsDone, EventTyped
  <2>5. d.coid # o BY <2>4, DoneUntouched
  <2>6. Completes(d)' BY <2>2, <2>3, LawfulSpoken
  <2>7. Exhausted(d.coid)' BY <1>3, <2>3, <2>5
  <2> QED BY <1>1, <2>1, <2>6, <2>7 DEF Completes, Exhausted
<1>5. ASSUME NEW x \in sending, Known(x.coid)
      PROVE  /\ order'[x.coid].status = x.type /\ Exhausted(x.coid)'
             /\ x.type \in {"OrderFilled", "OrderCanceled"} => x.fills = order'[x.coid].fills
  <2>1. x.coid \in Orders BY EmbedTyped DEF TypeOK
  <2>2. /\ order[x.coid].status = x.type /\ Exhausted(x.coid)
        /\ x.type \in {"OrderFilled", "OrderCanceled"} => x.fills = order[x.coid].fills
    BY <1>5 DEF EndsOnly
  <2>3. x.type \in EndEvents \cup {"OrderFilled"} BY DEF UnderWay
  <2>4. Done(x.coid) BY <2>2, <2>3 DEF Done, EndEvents, Refusals
  <2>5. x.coid # o /\ order'[x.coid] = order[x.coid] BY <2>1, <2>4, DoneUntouched
  <2>6. Exhausted(x.coid)' BY <1>3, <2>2, <2>5
  <2> QED BY <2>2, <2>5, <2>6
<1>6. \A p : Known(p)' <=> Known(p) BY <1>1 DEF Known
<1> QED BY <1>1, <1>4, <1>5, <1>6 DEF EndsOnly, Known

LEMMA SummariesSpoken ==
    ASSUME WholeInv, SummariesWhole, NEW o, NEW e, Spoken(o, e)
    PROVE  SummariesWhole'
<1>1. posted' = posted /\ sending' = sending BY DEF Spoken
<1> SUFFICES ASSUME NEW x \in posted \cup sending, x.type = "OrderFilled", x.total # Unknown
             PROVE  /\ order'[x.coid].status = "OrderFilled" /\ x.total = order'[x.coid].total
                    /\ x.fills = order'[x.coid].fills
                    /\ x.id \in x.fills /\ \A f \in x.fills : f <= x.id
  BY <1>1 DEF SummariesWhole
<1>2. x.coid \in Orders BY EmbedTyped DEF WholeInv, TypeOK
<1>3. Done(x.coid) BY DEF SummariesWhole, Done
<1>4. order'[x.coid] = order[x.coid] BY <1>2, <1>3, DoneUntouched
<1> QED BY <1>4 DEF SummariesWhole
-----------------------------------------------------------------------------
(* What the notifier has made of the stream, when it reads an entry.       *)

\* A sum after an event, by the error of the addition.
Added(new, old, e) ==
    \E a \in Int : /\ -Ulp <= a /\ a <= Ulp /\ (e.type # "OrderFilled" => a = 0)
                   /\ new = old + Lots(e) * Unit + a

LEMMA FoldedFilled ==
    ASSUME CloseFills, NEW T, TrackerType(T), NEW e \in Events, NEW r \in Rounding
    PROVE  Added(Folded(T, e, r)[e.coid].filled,
                 (IF e.coid \in DOMAIN T THEN T[e.coid] ELSE NewEntry).filled, e)
<1> DEFINE old == IF e.coid \in DOMAIN T THEN T[e.coid] ELSE NewEntry
<1>1. old \in Entries BY DEF TrackerType, NewEntry, Entries
<1>2. /\ Unit \in Nat /\ e.qty \in Nat /\ e.coid \in DOMAIN T \cup {e.coid} /\ Ulp \in Nat
      /\ r \in Int /\ -Ulp <= r /\ r <= Ulp
  BY OrderFillsAssumption, UlpBounds, EventTyped DEF RoundsWithin
<1> HIDE DEF old
<1>3. old.filled \in Int BY <1>1 DEF Entries
<1>4. CASE e.type = "OrderFilled"
  <2>1. Lots(e) = e.qty BY <1>4 DEF Lots
  <2>2. Folded(T, e, r)[e.coid].filled
          = old.filled + e.qty * Unit + (IF old.filled = 0 THEN 0 ELSE r)
    BY <1>1, <1>2, <1>4 DEF Folded, Entries, old
  <2>3. PICK a \in Int : a = IF old.filled = 0 THEN 0 ELSE r BY <1>2
  <2>4. -Ulp <= a /\ a <= Ulp BY <1>2, <2>3
  <2>5. Folded(T, e, r)[e.coid].filled = old.filled + Lots(e) * Unit + a BY <2>1, <2>2, <2>3
  <2> QED BY <1>4, <2>4, <2>5 DEF Added, old
<1>5. CASE e.type # "OrderFilled"
  <2>1. Lots(e) = 0 /\ Lots(e) * Unit = 0 BY <1>2, <1>5 DEF Lots
  <2>2. Folded(T, e, r)[e.coid].filled = old.filled
    BY <1>1, <1>2, <1>5 DEF Folded, Entries, old
  <2>3. Folded(T, e, r)[e.coid].filled = old.filled + Lots(e) * Unit + 0
    BY <1>3, <2>1, <2>2
  <2>4. 0 \in Int /\ -Ulp <= 0 /\ 0 <= Ulp BY <1>2
  <2> QED BY <2>3, <2>4 DEF Added, old
<1> QED BY <1>4, <1>5

\* What reading the first unread entry does.
LEMMA Observed ==
    ASSUME CloseFills, TrackerInv, WholeInv, Consume, NEW e, e = stream[1]
    PROVE  /\ e \in Events /\ stream # <<>> /\ stream' = Tail(stream)
           /\ UNCHANGED <<order, nextId, sending, posted, restarts>>
           /\ \A p : p # e.coid /\ Known(p)' => Known(p) /\ tracker'[p] = tracker[p]
           /\ Known(e.coid)' /\ e.type = "OrderInitialized" =>
                 tracker'[e.coid].total = e.qty /\ tracker'[e.coid].filled = 0
           /\ Known(e.coid)' /\ e.type # "OrderInitialized" =>
                 /\ Known(e.coid) /\ tracker'[e.coid].total = tracker[e.coid].total
                 /\ Added(tracker'[e.coid].filled, tracker[e.coid].filled, e)
           /\ outbox' = IF Forwarded(tracker', e) THEN Append(outbox, e) ELSE outbox
           /\ seen' = IF e.type = "OrderFilled" THEN seen \cup {e.id} ELSE seen
<1> USE DEF TrackerInv, WholeInv
<1>1. /\ stream # <<>> /\ stream' = Tail(stream)
      /\ UNCHANGED <<order, nextId, sending, posted, restarts>>
  BY DEF Consume, venueVars
<1>2. 1 \in DOMAIN stream /\ Head(stream) = e /\ e \in Events BY <1>1, Shifted DEF TypeOK
<1>3. PICK r \in Rounding : tracker' = Evicted(Folded(tracker, e, r)) BY <1>2 DEF Consume
<1>4. /\ outbox' = IF Forwarded(tracker', e) THEN Append(outbox, e) ELSE outbox
      /\ seen' = IF e.type = "OrderFilled" THEN seen \cup {e.id} ELSE seen
  BY <1>2 DEF Consume
<1>5. TrackerType(tracker) BY DEF TypeOK, TrackerType
<1> DEFINE F == Folded(tracker, e, r)
           old == IF e.coid \in DOMAIN tracker THEN tracker[e.coid] ELSE NewEntry
<1>6. DOMAIN tracker' \subseteq DOMAIN F /\ \A p \in DOMAIN tracker' : tracker'[p] = F[p]
  BY <1>3 DEF Evicted
<1>7. DOMAIN F = DOMAIN tracker \cup {e.coid} BY <1>2, <1>5, FoldedType
<1>8. /\ \A p \in DOMAIN tracker \ {e.coid} : F[p] = tracker[p]
      /\ F[e.coid].total = IF e.type = "OrderInitialized" THEN e.qty ELSE old.total
  BY <1>2, <1>5, FoldedEntries
<1>9. Added(F[e.coid].filled, old.filled, e) BY <1>2, <1>5, FoldedFilled
<1> HIDE DEF F
<1>10. ASSUME NEW p, p # e.coid, Known(p)' PROVE Known(p) /\ tracker'[p] = tracker[p]
  BY <1>6, <1>7, <1>8, <1>10 DEF Known
<1>11. ASSUME Known(e.coid)', e.type = "OrderInitialized"
       PROVE  tracker'[e.coid].total = e.qty /\ tracker'[e.coid].filled = 0
  <2>1. e.coid \in Orders BY <1>2, EventTyped
  <2>2. e.coid \notin DOMAIN tracker BY <1>2, <1>11, <2>1 DEF InitializedFirst
  <2>3. old.filled = 0 BY <2>2 DEF NewEntry
  <2>4. F[e.coid].filled = 0
    <3>1. Lots(e) = 0 /\ Lots(e) * Unit = 0
      BY <1>11, OrderFillsAssumption DEF Lots
    <3> QED BY <1>9, <1>11, <2>3, <3>1 DEF Added
  <2>5. tracker'[e.coid] = F[e.coid] BY <1>6, <1>11 DEF Known
  <2> QED BY <1>8, <1>11, <2>4, <2>5
<1>12. ASSUME Known(e.coid)', e.type # "OrderInitialized"
       PROVE  /\ Known(e.coid) /\ tracker'[e.coid].total = tracker[e.coid].total
              /\ Added(tracker'[e.coid].filled, tracker[e.coid].filled, e)
  <2>1. tracker'[e.coid] = F[e.coid] /\ F[e.coid].total # Unknown
    BY <1>6, <1>12 DEF Known
  <2>2. e.coid \in DOMAIN tracker BY <1>8, <1>12, <2>1 DEF NewEntry
  <2>3. old = tracker[e.coid] BY <2>2
  <2> QED BY <1>8, <1>9, <1>12, <2>1, <2>2, <2>3 DEF Known
<1> QED BY <1>1, <1>2, <1>4, <1>10, <1>11, <1>12

LEMMA FilledTyped ==
    ASSUME TrackerInv, Consume, NEW o, Known(o)'
    PROVE  tracker'[o].filled \in Int
<1>1. TrackerInv' BY TrackerInvStep DEF Next
<1> QED BY <1>1 DEF TrackerInv, TypeOK, Known, Entries

\* The entry of the order an event is about, if it knows the total, is close to its sum.
LEMMA SumRead ==
    ASSUME CloseFills, TrackerInv, WholeInv, HistoryInv, KnownSum, Consume,
           NEW e, e = stream[1], Known(e.coid)'
    PROVE  tracker'[e.coid].total = order[e.coid].total /\ Near(tracker'[e.coid].filled, e.sum)
<1> USE DEF TrackerInv, WholeInv, HistoryInv
<1>1. /\ e \in Events /\ stream # <<>> /\ stream' = Tail(stream) /\ Unit \in Nat
      /\ e.sum \in Nat /\ Lots(e) \in Nat
  BY Observed, EventTyped, OrderFillsAssumption
<1>2. 1 \in DOMAIN stream /\ Lawful(e) BY <1>1, Shifted DEF StreamLawful
<1>3. CASE e.type = "OrderInitialized"
  <2>1. tracker'[e.coid].total = e.qty /\ tracker'[e.coid].filled = 0 BY <1>3, Observed
  <2>2. e.qty = order[e.coid].total /\ e.sum = 0 BY <1>2, <1>3 DEF Lawful
  <2> QED BY <2>1, <2>2, NearNothing
<1>4. CASE e.type # "OrderInitialized"
  <2>1. /\ Known(e.coid) /\ tracker'[e.coid].total = tracker[e.coid].total
        /\ Added(tracker'[e.coid].filled, tracker[e.coid].filled, e)
    BY <1>4, Observed
  <2>2. FirstOf(1, e.coid)
    <3>1. \A k \in DOMAIN stream : ~(k < 1) BY DEF TypeOK
    <3> QED BY <3>1 DEF FirstOf
  <2>3. /\ tracker[e.coid].total = order[e.coid].total
        /\ Near(tracker[e.coid].filled, e.sum - Lots(e))
    BY <1>2, <2>1, <2>2 DEF KnownSum, Known
  <2>4. tracker[e.coid].filled \in Int BY <2>1 DEF Known, TypeOK, Entries
  <2>5. PICK a \in Int : /\ -Ulp <= a /\ a <= Ulp /\ (e.type # "OrderFilled" => a = 0)
                         /\ tracker'[e.coid].filled
                               = tracker[e.coid].filled + Lots(e) * Unit + a
    BY <2>1 DEF Added
  <2>6. CASE e.type = "OrderFilled"
    <3>1. 0 < Lots(e) BY <1>2, <2>6 DEF Lawful, Lots
    <3>2. e.sum - Lots(e) \in Int /\ (e.sum - Lots(e)) + Lots(e) = e.sum BY <1>1
    <3>3. Near(tracker'[e.coid].filled, (e.sum - Lots(e)) + Lots(e))
      BY <1>1, <2>3, <2>4, <2>5, <3>1, <3>2, NearAdded
    <3> QED BY <2>1, <2>3, <3>2, <3>3
  <2>7. CASE e.type # "OrderFilled"
    <3>1. Lots(e) = 0 /\ Lots(e) * Unit = 0 /\ e.sum - Lots(e) = e.sum
      BY <1>1, <2>7 DEF Lots
    <3>2. tracker'[e.coid].filled = tracker[e.coid].filled BY <2>4, <2>5, <2>7, <3>1
    <3> QED BY <2>1, <2>3, <3>1, <3>2
  <2> QED BY <2>6, <2>7
<1> QED BY <1>3, <1>4

LEMMA KnownSumConsumed ==
    ASSUME CloseFills, TrackerInv, WholeInv, HistoryInv, KnownSum, Consume
    PROVE  KnownSum'
<1> USE DEF TrackerInv, WholeInv, HistoryInv
<1>0. PICK e : e = stream[1] OBVIOUS
<1>1. /\ e \in Events /\ stream # <<>> /\ stream' = Tail(stream) /\ order' = order
      /\ \A p : p # e.coid /\ Known(p)' => Known(p) /\ tracker'[p] = tracker[p]
  BY <1>0, Observed
<1>2. /\ 1 \in DOMAIN stream
      /\ \A i \in DOMAIN stream' : /\ i \in Nat /\ 0 < i
                                   /\ i + 1 \in DOMAIN stream /\ stream'[i] = stream[i + 1]
      /\ \A j \in DOMAIN stream : j \in Nat /\ 1 <= j
      /\ \A j \in DOMAIN stream : j # 1 => /\ j - 1 \in DOMAIN stream' /\ 1 < j
                                           /\ stream'[j - 1] = stream[j]
  BY <1>1, Shifted
<1> SUFFICES ASSUME NEW p \in DOMAIN tracker', tracker'[p].total # Unknown
             PROVE  /\ tracker'[p].total = order[p].total
                    /\ (\A i \in DOMAIN stream' : stream'[i].coid # p)
                          => Near(tracker'[p].filled, order[p].filled)
                    /\ \A i \in DOMAIN stream' : FirstOf(i, p)' =>
                          Near(tracker'[p].filled, stream'[i].sum - Lots(stream'[i]))
  BY <1>1 DEF KnownSum
<1>3. Known(p)' BY DEF Known
<1>4. CASE p # e.coid
  <2>1. Known(p) /\ tracker'[p] = tracker[p] BY <1>1, <1>3, <1>4
  <2>2. /\ tracker[p].total = order[p].total
        /\ (\A i \in DOMAIN stream : stream[i].coid # p)
              => Near(tracker[p].filled, order[p].filled)
        /\ \A i \in DOMAIN stream : FirstOf(i, p) =>
              Near(tracker[p].filled, stream[i].sum - Lots(stream[i]))
    BY <2>1 DEF KnownSum, Known
  <2>3. (\A i \in DOMAIN stream' : stream'[i].coid # p)
            => \A i \in DOMAIN stream : stream[i].coid # p
    BY <1>0, <1>2, <1>4
  <2>4. ASSUME NEW i \in DOMAIN stream', FirstOf(i, p)'
        PROVE  Near(tracker'[p].filled, stream'[i].sum - Lots(stream'[i]))
    <3>1. stream'[i].coid = p /\ \A k \in DOMAIN stream' : k < i => stream'[k].coid # p
      BY <2>4 DEF FirstOf
    <3>2. ASSUME NEW k \in DOMAIN stream, k < i + 1 PROVE stream[k].coid # p
      <4>1. CASE k = 1 BY <1>0, <1>4, <4>1
      <4>2. CASE k # 1
        <5>1. k - 1 \in DOMAIN stream' /\ stream'[k - 1] = stream[k] BY <1>2, <4>2
        <5>2. k - 1 < i BY <1>2, <3>2
        <5> QED BY <3>1, <5>1, <5>2
      <4> QED BY <4>1, <4>2
    <3>3. FirstOf(i + 1, p) BY <1>2, <3>1, <3>2 DEF FirstOf
    <3> QED BY <1>2, <2>1, <2>2, <3>3
  <2> QED BY <2>1, <2>2, <2>3, <2>4
<1>5. CASE p = e.coid
  <2>1. tracker'[p].total = order[p].total /\ Near(tracker'[p].filled, e.sum)
    BY <1>0, <1>3, <1>5, SumRead
  <2>2. ASSUME \A i \in DOMAIN stream' : stream'[i].coid # p
        PROVE  e.sum = order[p].filled
    <3>1. \A j \in DOMAIN stream : 1 < j => stream[j].coid # stream[1].coid
      BY <1>0, <1>2, <1>5, <2>2
    <3> QED BY <1>0, <1>2, <1>5, <3>1 DEF Chained
  <2>3. ASSUME NEW i \in DOMAIN stream', FirstOf(i, p)'
        PROVE  stream'[i].sum - Lots(stream'[i]) = e.sum
    <3>1. stream'[i].coid = p /\ \A k \in DOMAIN stream' : k < i => stream'[k].coid # p
      BY <2>3 DEF FirstOf
    <3>2. ASSUME NEW k \in DOMAIN stream, 1 < k, k < i + 1 PROVE stream[k].coid # stream[1].coid
      <4>1. k - 1 \in DOMAIN stream' /\ stream'[k - 1] = stream[k] BY <1>2, <3>2
      <4>2. k - 1 < i BY <1>2, <3>2
      <4> QED BY <1>0, <1>5, <3>1, <4>1, <4>2
    <3>3. 1 < i + 1 BY <1>2
    <3>4. Follows(1, i + 1) BY <1>0, <1>2, <1>5, <3>1, <3>2, <3>3 DEF Follows
    <3>5. stream[i + 1].sum = stream[1].sum + Lots(stream[i + 1])
      BY <1>2, <3>4 DEF Chained
    <3>6. stream[i + 1] \in Events BY <1>2 DEF TypeOK
    <3>7. stream[1].sum \in Nat /\ Lots(stream[i + 1]) \in Nat
      BY <1>0, <1>1, <3>6, EventTyped
    <3> QED BY <1>0, <1>2, <3>5, <3>7
  <2> QED BY <2>1, <2>2, <2>3
<1> QED BY <1>4, <1>5

\* What an outbox that got an event holds.
LEMMA Scheduled ==
    ASSUME TypeOK, NEW e \in Events, NEW k,
           \/ outbox' = outbox /\ k \in DOMAIN outbox
           \/ outbox' = Append(outbox, e) /\ k \in DOMAIN outbox'
    PROVE  \/ k \in DOMAIN outbox /\ outbox'[k] = outbox[k]
           \/ outbox' = Append(outbox, e) /\ outbox'[k] = e
BY DEF TypeOK

LEMMA UnderWayConsumed ==
    ASSUME CloseFills, TrackerInv, WholeInv, HistoryInv, UnderWay, Consume
    PROVE  UnderWay'
<1> USE DEF TrackerInv, WholeInv, HistoryInv
<1>0. PICK e : e = stream[1] OBVIOUS
<1>1. /\ e \in Events /\ stream # <<>> /\ stream' = Tail(stream)
      /\ UNCHANGED <<order, nextId, sending, posted, restarts>>
      /\ outbox' = IF Forwarded(tracker', e) THEN Append(outbox, e) ELSE outbox
      /\ seen' = IF e.type = "OrderFilled" THEN seen \cup {e.id} ELSE seen
  BY <1>0, Observed
<1>2. /\ 1 \in DOMAIN stream
      /\ \A i \in DOMAIN stream' : /\ i \in Nat /\ 0 < i
                                   /\ i + 1 \in DOMAIN stream /\ stream'[i] = stream[i + 1]
  BY <1>1, Shifted
<1>3. Lawful(e) /\ e.coid \in Orders BY <1>0, <1>1, <1>2, EventTyped DEF StreamLawful
<1>4. \A i \in DOMAIN stream' : 1 < i + 1 /\ e.id < stream'[i].id
  BY <1>0, <1>2 DEF StreamOrdered
<1>5. ASSUME NEW k \in DOMAIN outbox'
      PROVE  \/ k \in DOMAIN outbox /\ outbox'[k] = outbox[k]
             \/ outbox'[k] = e /\ e.type \notin Transient
  BY <1>1, Scheduled DEF Forwarded
<1>6. ASSUME NEW k \in DOMAIN outbox'
      PROVE  /\ Lawful(outbox[k])' /\ outbox'[k].type \notin Transient
             /\ \A i \in DOMAIN stream' : outbox'[k].id < stream'[i].id
  <2>1. CASE k \in DOMAIN outbox /\ outbox'[k] = outbox[k]
    BY <1>1, <1>2, <2>1 DEF UnderWay, Lawful
  <2>2. CASE outbox'[k] = e /\ e.type \notin Transient
    BY <1>1, <1>3, <1>4, <2>2 DEF Lawful
  <2> QED BY <1>5, <2>1, <2>2
<1>7. ASSUME NEW i \in DOMAIN stream', stream'[i].type = "OrderInitialized"
      PROVE  /\ \A k \in DOMAIN outbox' : outbox'[k].coid # stream'[i].coid
             /\ \A x \in sending : x.coid # stream'[i].coid
  <2>1. /\ \A k \in DOMAIN outbox : outbox[k].coid # stream'[i].coid
        /\ \A x \in sending : x.coid # stream'[i].coid
    BY <1>2, <1>7 DEF UnderWay
  <2>2. e.coid # stream'[i].coid
    BY <1>0, <1>2, <1>3, <1>4, <1>7 DEF InitializedFirst
  <2> QED BY <1>5, <2>1, <2>2
<1>8. \A f \in seen' : f < nextId BY <1>1, <1>3 DEF UnderWay, Lawful
<1> QED BY <1>1, <1>6, <1>7, <1>8 DEF UnderWay

\* The gate lets a fill of an order whose total is known pass only if it is the last.
LEMMA ForwardedCompletes ==
    ASSUME CloseFills, TrackerInv, WholeInv, HistoryInv, KnownSum, Consume,
           NEW e, e = stream[1], Known(e.coid)', Forwarded(tracker', e)
    PROVE  Completes(e)
<1> USE DEF TrackerInv, WholeInv, HistoryInv
<1>1. e \in Events /\ stream # <<>> /\ stream' = Tail(stream) BY Observed
<1>2. e.type \in EventTypes /\ e.sum \in Nat /\ e.coid \in Orders BY <1>1, EventTyped
<1>3. Lawful(e) BY <1>1, Shifted DEF StreamLawful
<1>4. CASE e.type = "OrderFilled"
  <2>1. tracker'[e.coid].total = order[e.coid].total /\ Near(tracker'[e.coid].filled, e.sum)
    BY SumRead
  <2>2. Complete(tracker'[e.coid]) BY <1>4 DEF Forwarded
  <2>3. order[e.coid].total \in Nat /\ order[e.coid].filled \in Nat BY <1>2, FieldTypes
  <2>4. tracker'[e.coid].filled >= order[e.coid].total * Unit - Tolerance
    BY <2>1, <2>2 DEF Complete, Known
  <2>5. order[e.coid].total \in Quantities BY <1>2, <1>3 DEF Lawful, OrdersLawful
  <2>6. e.sum <= order[e.coid].filled /\ order[e.coid].filled <= order[e.coid].total
    BY <1>2, <1>3 DEF Lawful, OrdersLawful
  <2>7. e.sum <= order[e.coid].total BY <1>2, <2>3, <2>6
  <2>8. tracker'[e.coid].filled \in Int BY FilledTyped
  <2>9. e.sum = order[e.coid].total
    BY <1>2, <2>1, <2>4, <2>5, <2>7, <2>8, CompleteWhenWhole
  <2> QED BY <1>4, <2>9 DEF Completes
<1>5. CASE e.type # "OrderFilled"
  <2>1. e.type \in EndEvents BY <1>2, <1>3, <1>5 DEF EventTypes, Forwarded, Lawful
  <2> QED BY <2>1 DEF Completes
<1> QED BY <1>4, <1>5

LEMMA EndsOnlyConsumed ==
    ASSUME CloseFills, TrackerInv, WholeInv, HistoryInv, UnderWay, KnownSum, EndsOnly, Consume
    PROVE  EndsOnly'
<1> USE DEF TrackerInv, WholeInv, HistoryInv
<1>0. PICK e : e = stream[1] OBVIOUS
<1>1. /\ e \in Events /\ stream # <<>> /\ stream' = Tail(stream)
      /\ UNCHANGED <<order, nextId, sending, posted, restarts>>
      /\ outbox' = IF Forwarded(tracker', e) THEN Append(outbox, e) ELSE outbox
      /\ \A p : p # e.coid /\ Known(p)' => Known(p)
      /\ Known(e.coid)' /\ e.type # "OrderInitialized" => Known(e.coid)
  BY <1>0, Observed
<1>2. /\ 1 \in DOMAIN stream
      /\ \A i \in DOMAIN stream' : /\ i \in Nat /\ 0 < i
                                   /\ i + 1 \in DOMAIN stream /\ stream'[i] = stream[i + 1]
  BY <1>1, Shifted
<1>3. ASSUME NEW p, Exhausted(p) PROVE p # e.coid /\ Exhausted(p)'
  BY <1>0, <1>2, <1>3 DEF Exhausted
<1>4. ASSUME NEW k \in DOMAIN outbox', Known(outbox[k].coid)'
      PROVE  Completes(outbox[k])' /\ Exhausted(outbox[k].coid)'
  <2>1. CASE k \in DOMAIN outbox /\ outbox'[k] = outbox[k]
    <3>1. PICK d : d = outbox[k] OBVIOUS
    <3>2. Known(d.coid)' BY <1>4, <2>1, <3>1 DEF Known
    <3>3. e.type = "OrderInitialized" => d.coid # e.coid
      BY <1>0, <1>2, <2>1, <3>1 DEF UnderWay
    <3>4. Known(d.coid) BY <1>1, <3>2, <3>3
    <3>5. Completes(d) /\ Exhausted(d.coid) BY <2>1, <3>1, <3>4 DEF EndsOnly
    <3>6. Exhausted(d.coid)' BY <1>3, <3>5
    <3> QED BY <1>1, <2>1, <3>1, <3>5, <3>6 DEF Completes, Exhausted
  <2>2. CASE outbox' = Append(outbox, e) /\ outbox'[k] = e
    <3>1. Known(e.coid)' BY <1>4, <2>2 DEF Known
    <3>2. Forwarded(tracker', e)
      <4>1. outbox' # outbox BY <1>1, <2>2 DEF TypeOK
      <4> QED BY <1>1, <4>1
    <3>3. Completes(e) BY <1>0, <3>1, <3>2, ForwardedCompletes
    <3>4. ASSUME NEW i \in DOMAIN stream' PROVE stream'[i].coid # e.coid
      <4>1. 1 < i + 1 BY <1>2
      <4> QED BY <1>0, <1>2, <3>3, <4>1 DEF EndsLast
    <3> QED BY <1>1, <2>2, <3>3, <3>4 DEF Completes, Exhausted
  <2>3. \/ k \in DOMAIN outbox /\ outbox'[k] = outbox[k]
        \/ outbox' = Append(outbox, e) /\ outbox'[k] = e
    BY <1>1, Scheduled
  <2> QED BY <2>1, <2>2, <2>3
<1>5. ASSUME NEW x \in sending, Known(x.coid)'
      PROVE  /\ order[x.coid].status = x.type /\ Exhausted(x.coid)'
             /\ x.type \in {"OrderFilled", "OrderCanceled"} => x.fills = order[x.coid].fills
  <2>1. e.type = "OrderInitialized" => x.coid # e.coid BY <1>0, <1>2 DEF UnderWay
  <2>2. Known(x.coid) BY <1>1, <1>5, <2>1
  <2> QED BY <1>3, <2>2 DEF EndsOnly
<1> QED BY <1>1, <1>4, <1>5 DEF EndsOnly

-----------------------------------------------------------------------------
(* Sending, and what only drops something.                                 *)

LEMMA ExhaustedUnread ==
    ASSUME NEW o, Exhausted(o)
    PROVE  InStream(o) = {}
BY DEF Exhausted, InStream

\* The embed of an event of an order whose total is known.
LEMMA KnownEmbed ==
    ASSUME WholeInv, HistoryInv, UnderWay, KnownSum, EndsOnly,
           NEW i \in DOMAIN outbox, NEW d, d = outbox[i], NEW x, x = Embed(tracker, d),
           Known(x.coid)
    PROVE  /\ order[x.coid].status = x.type /\ Exhausted(x.coid)
           /\ x.type \in {"OrderFilled", "OrderCanceled"} =>
                 x.total = order[x.coid].total /\ x.fills = order[x.coid].fills
           /\ x.type = "OrderFilled" => x.id \in x.fills /\ \A f \in x.fills : f <= x.id
<1> USE DEF WholeInv, HistoryInv
<1>1. d \in Events /\ Lawful(d) BY FieldTypes DEF UnderWay
<1>2. d.coid \in Orders /\ d.id \in Nat /\ d.sum \in Nat BY <1>1, EventTyped
<1>3. x.coid = d.coid /\ x.type = d.type /\ x.id = d.id BY DEF Embed
<1>4. Completes(d) /\ Exhausted(d.coid) BY <1>3 DEF EndsOnly
<1>5. order[d.coid].status = d.type BY <1>1, <1>4, CompletedIsDone
<1>6. tracker[d.coid].total = order[d.coid].total BY <1>3 DEF KnownSum, Known
<1>7. tracker[d.coid].fills = order[d.coid].fills
  <2>1. InStream(d.coid) = {} BY <1>4, ExhaustedUnread
  <2>2. tracker[d.coid].fills = order[d.coid].fills \ InStream(d.coid)
    BY <1>3 DEF KnownTotalIsWhole, Known
  <2> QED BY <2>1, <2>2
<1>8. ASSUME x.type \in {"OrderFilled", "OrderCanceled"}
      PROVE  x.total = order[x.coid].total /\ x.fills = order[x.coid].fills
  <2>1. x.total = tracker[d.coid].total /\ x.fills = tracker[d.coid].fills
    BY <1>3, <1>8 DEF Embed, Known
  <2> QED BY <1>3, <1>6, <1>7, <2>1
<1>9. ASSUME x.type = "OrderFilled"
      PROVE  x.id \in x.fills /\ \A f \in x.fills : f <= x.id
  <2>1. x.fills = order[d.coid].fills BY <1>3, <1>8, <1>9
  <2>2. d.id \in order[d.coid].fills BY <1>1, <1>2, <1>3, <1>9 DEF Lawful
  <2>3. d.sum = order[d.coid].total BY <1>3, <1>4, <1>9 DEF Completes, EndEvents, Refusals
  <2>4. order[d.coid].filled = order[d.coid].total
    BY <1>1, <1>2, <1>3, <1>5, <1>9 DEF OrdersLawful, Lawful
  <2>5. \A f \in order[d.coid].fills : f <= d.id
    BY <1>1, <1>3, <1>9, <2>3, <2>4 DEF Lawful
  <2> QED BY <1>3, <2>1, <2>2, <2>5
<1> QED BY <1>3, <1>4, <1>5, <1>8, <1>9

LEMMA SummarySent ==
    ASSUME SummaryInv, NEW i \in DOMAIN outbox, StartSend(i)
    PROVE  HistoryInv' /\ UnderWay' /\ KnownSum' /\ EndsOnly' /\ SummariesWhole'
<1> USE DEF SummaryInv, WholeInv
<1>1. /\ UNCHANGED <<order, nextId, stream, tracker, posted, seen, restarts>>
      /\ outbox' = RemoveAt(outbox, i)
  BY DEF StartSend, venueVars
<1>2. PICK d : d = outbox[i] OBVIOUS
<1>3. PICK x : x = Embed(tracker, d) OBVIOUS
<1>4. sending' = sending \cup {x} BY <1>2, <1>3 DEF StartSend
<1>5. \A k \in DOMAIN outbox' : \E j \in DOMAIN outbox : outbox'[k] = outbox[j]
  BY <1>1, RemoveAtElements DEF TypeOK
<1>6. d \in Events /\ Lawful(d) /\ d.type \notin Transient
  BY <1>2, FieldTypes DEF UnderWay
<1>7. d.type \in EventTypes BY <1>6, EventTyped
<1>8. x.coid = d.coid /\ x.type = d.type /\ x.id = d.id BY <1>3 DEF Embed
<1>9. HistoryInv'
  BY <1>1 DEF HistoryInv, OrdersLawful, StreamLawful, Chained, EndsLast, Lawful, Follows,
              Completes, Done, Lots
<1>10. UnderWay'
  <2>1. /\ x.type \in EndEvents \cup {"OrderFilled"} /\ order[x.coid].status # "none"
        /\ x.type \in EndEvents => order[x.coid].status = x.type
    BY <1>6, <1>7, <1>8 DEF EventTypes, Lawful
  <2>2. \A k \in DOMAIN outbox' :
          /\ Lawful(outbox[k])' /\ outbox'[k].type \notin Transient
          /\ \A j \in DOMAIN stream : outbox'[k].id < stream[j].id
    BY <1>1, <1>5 DEF UnderWay, Lawful
  <2>3. \A j \in DOMAIN stream : stream[j].type = "OrderInitialized" =>
          /\ \A k \in DOMAIN outbox' : outbox'[k].coid # stream[j].coid
          /\ \A y \in sending' : y.coid # stream[j].coid
    BY <1>2, <1>4, <1>5, <1>8 DEF UnderWay
  <2> QED BY <1>1, <1>4, <2>1, <2>2, <2>3 DEF UnderWay
<1>11. KnownSum' BY <1>1 DEF KnownSum, FirstOf, Lots
<1>12. EndsOnly'
  <2>1. Known(x.coid) =>
          /\ order[x.coid].status = x.type /\ Exhausted(x.coid)
          /\ x.type \in {"OrderFilled", "OrderCanceled"} => x.fills = order[x.coid].fills
    BY <1>2, <1>3, KnownEmbed
  <2>2. ASSUME NEW k \in DOMAIN outbox', Known(outbox[k].coid)'
        PROVE  Completes(outbox[k])' /\ Exhausted(outbox[k].coid)'
    <3>1. PICK j \in DOMAIN outbox : outbox'[k] = outbox[j] BY <1>5
    <3>2. Known(outbox[j].coid) BY <1>1, <2>2, <3>1 DEF Known
    <3>3. Completes(outbox[j]) /\ Exhausted(outbox[j].coid) BY <3>2 DEF EndsOnly
    <3> QED BY <1>1, <3>1, <3>3 DEF Completes, Exhausted
  <2>3. ASSUME NEW y \in sending', Known(y.coid)'
        PROVE  /\ order'[y.coid].status = y.type /\ Exhausted(y.coid)'
               /\ y.type \in {"OrderFilled", "OrderCanceled"} => y.fills = order'[y.coid].fills
    <3>1. Known(y.coid) BY <1>1, <2>3 DEF Known
    <3>2. /\ order[y.coid].status = y.type /\ Exhausted(y.coid)
          /\ y.type \in {"OrderFilled", "OrderCanceled"} => y.fills = order[y.coid].fills
      BY <1>4, <2>1, <3>1 DEF EndsOnly
    <3> QED BY <1>1, <3>2 DEF Exhausted
  <2> QED BY <2>2, <2>3 DEF EndsOnly
<1>13. SummariesWhole'
  <2>1. ASSUME x.type = "OrderFilled", x.total # Unknown
        PROVE  /\ order[x.coid].status = "OrderFilled" /\ x.total = order[x.coid].total
               /\ x.fills = order[x.coid].fills
               /\ x.id \in x.fills /\ \A f \in x.fills : f <= x.id
    <3>1. Known(x.coid) BY <1>3, <1>8, <2>1 DEF Embed, Known
    <3> QED BY <1>2, <1>3, <2>1, <3>1, KnownEmbed
  <2> QED BY <1>1, <1>4, <2>1 DEF SummariesWhole
<1> QED BY <1>9, <1>10, <1>11, <1>12, <1>13

\* What releases entries, ends sends and moves messages to the channel keeps the
\* invariant; so does a restart, which drops the tracker with the stream.
LEMMA SummaryDropped ==
    ASSUME SummaryInv, UNCHANGED <<order, nextId>>,
           DOMAIN tracker' \subseteq DOMAIN tracker,
           \A p \in DOMAIN tracker' : tracker'[p] = tracker[p],
           sending' \subseteq sending, posted' \subseteq posted \cup sending, seen' \subseteq seen,
           \A k \in DOMAIN outbox' : \E j \in DOMAIN outbox : outbox'[k] = outbox[j],
           stream' = stream \/ (DOMAIN stream' = {} /\ DOMAIN tracker' = {})
    PROVE  HistoryInv' /\ UnderWay' /\ KnownSum' /\ EndsOnly' /\ SummariesWhole'
<1> USE DEF SummaryInv
<1>1. HistoryInv'
  <2>1. CASE stream' = stream
    BY <2>1 DEF HistoryInv, OrdersLawful, StreamLawful, Chained, EndsLast, Lawful, Follows,
                Completes, Done, Lots
  <2>2. CASE DOMAIN stream' = {}
    BY <2>2 DEF HistoryInv, OrdersLawful, StreamLawful, Chained, EndsLast
  <2> QED BY <2>1, <2>2
<1>2. UnderWay'
  <2>1. \A i \in DOMAIN stream' : i \in DOMAIN stream /\ stream'[i] = stream[i] OBVIOUS
  <2>2. ASSUME NEW k \in DOMAIN outbox'
        PROVE  /\ Lawful(outbox[k])' /\ outbox'[k].type \notin Transient
               /\ \A i \in DOMAIN stream' : outbox'[k].id < stream'[i].id
    <3>1. PICK j \in DOMAIN outbox : outbox'[k] = outbox[j] OBVIOUS
    <3>2. /\ Lawful(outbox[j]) /\ outbox[j].type \notin Transient
          /\ \A i \in DOMAIN stream : outbox[j].id < stream[i].id
      BY DEF UnderWay
    <3> QED BY <2>1, <3>1, <3>2 DEF Lawful
  <2>3. ASSUME NEW i \in DOMAIN stream', stream'[i].type = "OrderInitialized"
        PROVE  /\ \A k \in DOMAIN outbox' : outbox'[k].coid # stream'[i].coid
               /\ \A x \in sending' : x.coid # stream'[i].coid
    BY <2>1, <2>3 DEF UnderWay
  <2>4. ASSUME NEW x \in sending'
        PROVE  /\ x.type \in EndEvents \cup {"OrderFilled"} /\ order'[x.coid].status # "none"
               /\ x.type \in EndEvents => order'[x.coid].status = x.type
    BY DEF UnderWay
  <2>5. \A f \in seen' : f < nextId' BY DEF UnderWay
  <2> QED BY <2>2, <2>3, <2>4, <2>5 DEF UnderWay
<1>3. KnownSum'
  <2>1. CASE stream' = stream BY <2>1 DEF KnownSum, FirstOf, Lots
  <2>2. CASE DOMAIN tracker' = {} BY <2>2 DEF KnownSum
  <2> QED BY <2>1, <2>2
<1>4. EndsOnly'
  <2>1. CASE stream' = stream
    <3>1. \A p : Known(p)' => Known(p) BY DEF Known
    <3>2. ASSUME NEW k \in DOMAIN outbox', Known(outbox[k].coid)'
          PROVE  Completes(outbox[k])' /\ Exhausted(outbox[k].coid)'
      <4>1. PICK j \in DOMAIN outbox : outbox'[k] = outbox[j] OBVIOUS
      <4>2. PICK p : p = outbox[j].coid OBVIOUS
      <4>3. Known(p)' BY <3>2, <4>1, <4>2 DEF Known
      <4>4. Completes(outbox[j]) /\ Exhausted(p) BY <3>1, <4>2, <4>3 DEF EndsOnly
      <4> QED BY <2>1, <4>1, <4>2, <4>4 DEF Completes, Exhausted
    <3>3. ASSUME NEW x \in sending', Known(x.coid)'
          PROVE  /\ order'[x.coid].status = x.type /\ Exhausted(x.coid)'
                 /\ x.type \in {"OrderFilled", "OrderCanceled"} => x.fills = order'[x.coid].fills
      <4>1. Known(x.coid) BY <3>1, <3>3
      <4> QED BY <2>1, <4>1 DEF EndsOnly, Exhausted
    <3> QED BY <3>2, <3>3 DEF EndsOnly
  <2>2. CASE DOMAIN tracker' = {} BY <2>2 DEF EndsOnly, Known
  <2> QED BY <2>1, <2>2
<1>5. SummariesWhole' BY DEF SummariesWhole
<1> QED BY <1>1, <1>2, <1>3, <1>4, <1>5

-----------------------------------------------------------------------------
(* One message sums up an order.                                           *)

LEMMA SummaryInvInit == Init => SummaryInv
<1> SUFFICES ASSUME Init PROVE SummaryInv OBVIOUS
<1>1. TrackerInv /\ WholeInv BY TrackerInvInit, WholeInit
<1>2. /\ DOMAIN stream = {} /\ DOMAIN tracker = {} /\ DOMAIN outbox = {}
      /\ sending = {} /\ posted = {} /\ seen = {}
  BY DEF Init, EmptyTracker
<1>3. OrdersLawful BY DEF Init, OrdersLawful
<1>4. HistoryInv BY <1>2, <1>3 DEF HistoryInv, StreamLawful, Chained, EndsLast
<1>5. UnderWay /\ KnownSum /\ EndsOnly /\ SummariesWhole
  BY <1>2 DEF UnderWay, KnownSum, EndsOnly, SummariesWhole
<1> QED BY <1>1, <1>4, <1>5 DEF SummaryInv

LEMMA SummaryInvStep ==
    ASSUME CloseFills, SummaryInv, [Next]_vars
    PROVE  SummaryInv'
<1> USE DEF SummaryInv
<1>1. TrackerInv' /\ WholeInv' /\ TypeOK'
  BY TrackerInvStep, WholeInvStep DEF TrackerInv
<1>2. CASE \/ \E o \in Orders, n \in Quantities : Initialize(o, n) \/ Fill(o, n) \/ Amend(o, n)
           \/ \E o \in Orders : Accept(o)
           \/ \E o \in Orders, type \in Ends : End(o, type)
  <2>1. PICK o \in Orders, e \in Events : Spoken(o, e)
    <3>1. TypeOK /\ OrdersLawful /\ UnbornUnknown BY DEF WholeInv, HistoryInv
    <3> QED BY <1>1, <1>2, <3>1, PodSpeaks
  <2>2. HistoryInv' BY <1>1, <2>1, HistorySpoken
  <2>3. UnderWay' BY <2>1, UnderWaySpoken
  <2>4. KnownSum' BY <1>1, <2>1, KnownSumSpoken
  <2>5. EndsOnly' BY <2>1, EndsOnlySpoken
  <2>6. SummariesWhole' BY <2>1, SummariesSpoken
  <2> QED BY <1>1, <2>2, <2>3, <2>4, <2>5, <2>6
<1>3. CASE Consume
  <2>1. HistoryInv'
    <3>1. stream # <<>> /\ stream' = Tail(stream) /\ UNCHANGED <<order, nextId>>
      BY <1>3 DEF Consume, venueVars
    <3> QED BY <3>1, HistoryConsumed
  <2>2. UnderWay' BY <1>3, UnderWayConsumed
  <2>3. KnownSum' BY <1>3, KnownSumConsumed
  <2>4. EndsOnly' BY <1>3, EndsOnlyConsumed
  <2>5. SummariesWhole'
    BY <1>3 DEF Consume, venueVars, SummariesWhole
  <2> QED BY <1>1, <2>1, <2>2, <2>3, <2>4, <2>5
<1>4. ASSUME NEW i \in DOMAIN outbox, StartSend(i) PROVE SummaryInv'
  BY <1>1, <1>4, SummarySent
<1>5. ASSUME NEW i \in DOMAIN outbox, FetchFails(i) PROVE SummaryInv'
  <2>1. \A k \in DOMAIN outbox' : \E j \in DOMAIN outbox : outbox'[k] = outbox[j]
    BY <1>5, RemoveAtElements DEF FetchFails, WholeInv, TypeOK
  <2>2. UNCHANGED <<order, nextId, stream, tracker, sending, posted, seen>>
    BY <1>5 DEF FetchFails, venueVars
  <2> QED BY <1>1, <2>1, <2>2, SummaryDropped
<1>6. ASSUME NEW x \in sending, Delivered(x) PROVE SummaryInv'
  <2>1. /\ UNCHANGED <<order, nextId, stream, outbox, seen>>
        /\ sending' \subseteq sending /\ posted' \subseteq posted \cup sending
    BY <1>6 DEF Delivered, venueVars
  <2>2. /\ DOMAIN tracker' \subseteq DOMAIN tracker
        /\ \A p \in DOMAIN tracker' : tracker'[p] = tracker[p]
    BY <1>6, ForgottenDrops DEF Delivered
  <2> QED BY <1>1, <2>1, <2>2, SummaryDropped
<1>7. ASSUME NEW x \in sending, NEW logged \in BOOLEAN, SendFails(x, logged)
      PROVE  SummaryInv'
  <2>1. /\ UNCHANGED <<order, nextId, stream, outbox, posted, seen>>
        /\ sending' \subseteq sending
    BY <1>7 DEF SendFails, venueVars
  <2>2. /\ DOMAIN tracker' \subseteq DOMAIN tracker
        /\ \A p \in DOMAIN tracker' : tracker'[p] = tracker[p]
    BY <1>7, ForgottenDrops DEF SendFails
  <2> QED BY <1>1, <2>1, <2>2, SummaryDropped
<1>8. CASE Restart
  <2>1. /\ UNCHANGED <<order, nextId>> /\ posted' \subseteq posted \cup sending
        /\ DOMAIN tracker' = {} /\ DOMAIN stream' = {} /\ DOMAIN outbox' = {}
        /\ sending' = {} /\ seen' = {}
    BY <1>8 DEF Restart, venueVars, EmptyTracker
  <2> QED BY <1>1, <2>1, SummaryDropped
<1>9. CASE UNCHANGED vars
  <2>1. UNCHANGED <<order, nextId, stream, tracker, outbox, sending, posted, seen>>
    BY <1>9 DEF vars
  <2> QED BY <1>1, <2>1, SummaryDropped
<1> QED BY <1>2, <1>3, <1>4, <1>5, <1>6, <1>7, <1>8, <1>9 DEF Next

\* Both are about the last fill of the order.
LEMMA SummaryUnique == SummaryInv => OneSummaryPerOrder
<1> SUFFICES ASSUME SummaryInv, NEW x \in posted \cup sending, NEW y \in posted \cup sending,
                    x.coid = y.coid,
                    x.type = "OrderFilled", x.total # Unknown,
                    y.type = "OrderFilled", y.total # Unknown
             PROVE  x = y
  BY DEF OneSummaryPerOrder
<1>1. x \in Embeds /\ y \in Embeds BY DEF SummaryInv, WholeInv, TypeOK
<1>2. /\ x.total = order[x.coid].total /\ x.fills = order[x.coid].fills
      /\ x.id \in x.fills /\ \A f \in x.fills : f <= x.id
      /\ y.total = order[y.coid].total /\ y.fills = order[y.coid].fills
      /\ y.id \in y.fills /\ \A f \in y.fills : f <= y.id
  BY DEF SummaryInv, SummariesWhole
<1>3. x.id \in Nat /\ y.id \in Nat BY <1>1, EmbedTyped
<1>4. x.id <= y.id /\ y.id <= x.id BY <1>2
<1>5. x.id = y.id /\ x.total = y.total /\ x.fills = y.fills BY <1>2, <1>3, <1>4
<1> QED BY <1>1, <1>5 DEF Embeds

\* One line per order: while the tracker's sums are close to the venue's, at most one message
\* sums up the fills of an order, whatever is evicted, fails or restarts.
THEOREM OneSummary ==
    ASSUME CloseFills
    PROVE  Spec => []OneSummaryPerOrder
<1>1. Init => SummaryInv BY SummaryInvInit
<1>2. SummaryInv /\ [Next]_vars => SummaryInv' BY SummaryInvStep
<1>3. SummaryInv => OneSummaryPerOrder BY SummaryUnique
<1> QED BY <1>1, <1>2, <1>3, PTL DEF Spec

-----------------------------------------------------------------------------
(* A done order occupies no slot.                                          *)

\* Settled, said of the elements.
Quiet(o) ==
    /\ Done(o) /\ Exhausted(o)
    /\ \A k \in DOMAIN outbox : outbox[k].coid # o
    /\ \A x \in sending : x.coid # o

\* A slot that stays taken is a filled order's, summed up in the channel, whose sum
\* is short of the total by what is_complete tolerates.
SlotsInv ==
    \A o \in Orders : Known(o) /\ Quiet(o) =>
        /\ order[o].status = "OrderFilled" /\ ~NothingRemains(tracker[o])
        /\ \E x \in posted : x.coid = o /\ x.fills = order[o].fills

LEMMA SettledIsQuiet ==
    ASSUME NEW o
    PROVE  Settled(o) <=> Quiet(o)
<1>1. InStream(o) = {} <=> Exhausted(o) BY DEF InStream, Exhausted
<1>2. About(outbox, o) = {} <=> \A k \in DOMAIN outbox : outbox[k].coid # o BY DEF About
<1>3. OfOrder(sending, o) = {} <=> \A x \in sending : x.coid # o BY DEF OfOrder
<1> QED BY <1>1, <1>2, <1>3 DEF Settled, Quiet, Done

\* What a delivered message is about is released, unless it sums up a filled order
\* whose sum is short of the total.
LEMMA ReleasedWhenSent ==
    ASSUME SummaryInv, NEW x \in sending, Known(x.coid),
           x.coid \in DOMAIN Forgotten(tracker, x.coid, x.type)
    PROVE  /\ order[x.coid].status = "OrderFilled" /\ ~NothingRemains(tracker[x.coid])
           /\ x.fills = order[x.coid].fills
<1> USE DEF SummaryInv
<1>1. x.type \in EndEvents \cup {"OrderFilled"} BY DEF UnderWay
<1>2. x.type = "OrderFilled" /\ ~NothingRemains(tracker[x.coid])
  BY <1>1 DEF Forgotten, Known
<1> QED BY <1>2 DEF EndsOnly

\* The last event of an order whose total is known passes the gate.
LEMMA LastIsForwarded ==
    ASSUME CloseFills, TrackerInv, WholeInv, HistoryInv, KnownSum, Consume,
           NEW e, e = stream[1], Known(e.coid)', Completes(e)
    PROVE  Forwarded(tracker', e)
<1>1. e \in Events BY Observed
<1>2. e.sum \in Nat /\ e.coid \in Orders /\ Lawful(e)
  BY <1>1, EventTyped, Shifted, Observed DEF WholeInv, HistoryInv, StreamLawful
<1>3. tracker'[e.coid].total = order[e.coid].total /\ Near(tracker'[e.coid].filled, e.sum)
  BY SumRead
<1>4. tracker'[e.coid].filled \in Int BY FilledTyped
<1>5. order[e.coid].total \in Quantities BY <1>2 DEF HistoryInv, OrdersLawful, Lawful
<1>6. ASSUME e.type = "OrderFilled" PROVE Complete(tracker'[e.coid])
  <2>1. e.sum = order[e.coid].total BY <1>6 DEF Completes, EndEvents, Refusals
  <2>2. tracker'[e.coid].filled >= order[e.coid].total * Unit - Tolerance
    BY <1>2, <1>3, <1>4, <1>5, <2>1, CompleteWhenWhole
  <2> QED BY <1>3, <2>2 DEF Complete
<1>7. e.type \notin Transient BY DEF Completes, EndEvents, Refusals, Transient
<1> QED BY <1>6, <1>7 DEF Forwarded

LEMMA SlotsInvStep ==
    ASSUME CloseFills, SendsArrive, SummaryInv, SlotsInv, [Next]_vars
    PROVE  SlotsInv'
<1> USE DEF SummaryInv
<1> DEFINE Summed(o) == /\ order[o].status = "OrderFilled" /\ ~NothingRemains(tracker[o])
                        /\ \E x \in posted : x.coid = o /\ x.fills = order[o].fills
<1> SUFFICES ASSUME NEW p \in Orders, Known(p)', Quiet(p)'
             PROVE  Summed(p)'
  BY DEF SlotsInv
<1>1. TrackerInv' /\ TypeOK' BY TrackerInvStep DEF TrackerInv
<1>2. ASSUME Known(p), Quiet(p), order'[p] = order[p], tracker'[p] = tracker[p],
             posted \subseteq posted'
      PROVE  Summed(p)'
  <2>1. Summed(p) BY <1>2 DEF SlotsInv
  <2> QED BY <1>2, <2>1 DEF NothingRemains
<1> HIDE DEF Summed
<1>3. CASE \/ \E o \in Orders, n \in Quantities : Initialize(o, n) \/ Fill(o, n) \/ Amend(o, n)
           \/ \E o \in Orders : Accept(o)
           \/ \E o \in Orders, type \in Ends : End(o, type)
  <2>1. PICK o \in Orders, e \in Events : Spoken(o, e)
    <3>1. TypeOK /\ OrdersLawful /\ UnbornUnknown BY DEF WholeInv, HistoryInv
    <3> QED BY <1>1, <1>3, <3>1, PodSpeaks
  <2>2. PICK n : n = Len(stream) + 1 OBVIOUS
  <2>3. /\ DOMAIN stream' = DOMAIN stream \cup {n} /\ stream'[n] = e /\ e.coid = o
        /\ \A i \in DOMAIN stream : stream'[i] = stream[i]
    BY <2>1, <2>2, AppendedStream DEF Spoken, WholeInv
  <2>4. p # o BY <2>3 DEF Quiet, Exhausted
  <2>5. order'[p] = order[p] /\ UNCHANGED <<tracker, outbox, sending, posted>>
    BY <2>1, <2>4 DEF Spoken
  <2>6. Known(p) /\ Quiet(p) BY <2>3, <2>5 DEF Known, Quiet, Done, Exhausted
  <2> QED BY <1>2, <2>5, <2>6
<1>4. CASE Consume
  <2>1. PICK e : e = stream[1] OBVIOUS
  <2>2. /\ e \in Events /\ stream # <<>> /\ stream' = Tail(stream)
        /\ UNCHANGED <<order, sending, posted>>
        /\ outbox' = IF Forwarded(tracker', e) THEN Append(outbox, e) ELSE outbox
        /\ \A q : q # e.coid /\ Known(q)' => Known(q) /\ tracker'[q] = tracker[q]
    BY <1>4, <2>1, Observed
  <2>3. /\ 1 \in DOMAIN stream
        /\ \A j \in DOMAIN stream : j # 1 => /\ j - 1 \in DOMAIN stream'
                                             /\ stream'[j - 1] = stream[j]
    BY <2>2, Shifted DEF WholeInv
  <2>4. \A j \in DOMAIN stream : j # 1 => stream[j].coid # p
    BY <2>3 DEF Quiet, Exhausted
  <2>5. \A k \in DOMAIN outbox : outbox[k].coid # p
    <3>1. \A k \in DOMAIN outbox : k \in DOMAIN outbox' /\ outbox'[k] = outbox[k]
      BY <2>2 DEF WholeInv, TypeOK
    <3> QED BY <3>1 DEF Quiet
  <2>6. CASE p # e.coid
    <3>1. Known(p) /\ tracker'[p] = tracker[p] BY <2>2, <2>6
    <3>2. Exhausted(p) BY <2>1, <2>4, <2>6 DEF Exhausted
    <3>3. Quiet(p) BY <2>2, <2>5, <3>2 DEF Quiet, Done
    <3> QED BY <1>2, <2>2, <3>1, <3>3
  <2>7. CASE p = e.coid
    <3>1. Done(p) BY <2>2 DEF Quiet, Done
    <3>2. Completes(e) BY <2>1, <2>3, <2>4, <2>7, <3>1 DEF HistoryInv, EndsLast
    <3>3. Known(e.coid)' BY <2>7
    <3>4. Forwarded(tracker', e) BY <1>4, <2>1, <3>2, <3>3, LastIsForwarded
    <3>5. \E k \in DOMAIN outbox' : outbox'[k] = e
      <4>1. outbox' = Append(outbox, e) /\ outbox \in Seq(Events)
        BY <2>2, <3>4 DEF WholeInv, TypeOK
      <4>2. Len(outbox) + 1 \in DOMAIN outbox' /\ outbox'[Len(outbox) + 1] = e
        BY <2>2, <4>1
      <4> QED BY <4>2
    <3> QED BY <2>7, <3>5 DEF Quiet
  <2> QED BY <2>6, <2>7
<1>5. ASSUME NEW i \in DOMAIN outbox, StartSend(i) PROVE Summed(p)'
  <2>1. /\ UNCHANGED <<order, stream, tracker, posted>> /\ outbox' = RemoveAt(outbox, i)
        /\ sending' = sending \cup {Embed(tracker, outbox[i])}
    BY <1>5 DEF StartSend, venueVars
  <2>2. Embed(tracker, outbox[i]).coid = outbox[i].coid BY DEF Embed
  <2>3. outbox[i].coid # p BY <2>1, <2>2 DEF Quiet
  <2>4. \A j \in DOMAIN outbox : j # i => \E k \in DOMAIN outbox' : outbox'[k] = outbox[j]
    BY <2>1, RemoveAtElements DEF WholeInv, TypeOK
  <2>5. Quiet(p) BY <2>1, <2>3, <2>4 DEF Quiet, Done, Exhausted
  <2> QED BY <1>2, <2>1, <2>5 DEF Known
<1>6. ASSUME NEW x \in sending, Delivered(x) PROVE Summed(p)'
  <2>1. /\ UNCHANGED <<order, stream, outbox>> /\ sending' = sending \ {x}
        /\ posted' = posted \cup {x} /\ tracker' = Forgotten(tracker, x.coid, x.type)
    BY <1>6 DEF Delivered, venueVars
  <2>2. Known(p) /\ tracker'[p] = tracker[p] BY <2>1, ForgottenDrops DEF Known
  <2>3. CASE x.coid # p
    <3>1. Quiet(p) BY <2>1, <2>3 DEF Quiet, Done, Exhausted
    <3> QED BY <1>2, <2>1, <2>2, <3>1
  <2>4. CASE x.coid = p
    <3>1. /\ order[p].status = "OrderFilled" /\ ~NothingRemains(tracker[p])
          /\ x.fills = order[p].fills
      BY <2>1, <2>2, <2>4, ReleasedWhenSent DEF Known
    <3>2. ~NothingRemains(tracker'[p]) BY <2>2, <3>1
    <3> QED BY <2>1, <2>4, <3>1, <3>2 DEF Summed, NothingRemains
  <2> QED BY <2>3, <2>4
<1>7. CASE Restart BY <1>7 DEF Restart, EmptyTracker, Known
<1>8. CASE UNCHANGED vars
  <2>1. UNCHANGED <<order, stream, tracker, outbox, sending, posted>> BY <1>8 DEF vars
  <2>2. Known(p) /\ Quiet(p) BY <2>1 DEF Known, Quiet, Done, Exhausted
  <2> QED BY <1>2, <2>1, <2>2
<1>9. /\ ~ \E i \in DOMAIN outbox : FetchFails(i)
      /\ ~ \E x \in sending, logged \in BOOLEAN : SendFails(x, logged)
  BY DEF SendsArrive, FetchFails, SendFails
<1> QED BY <1>3, <1>4, <1>5, <1>6, <1>7, <1>8, <1>9 DEF Next

\* Once everything the pod said of a done order is handled, the order occupies no slot
\* of the tracker unless its total was lost or its sum is short of the total, within the
\* tolerance: forget_if_terminal releases it otherwise.
THEOREM DoneOrdersReleased ==
    ASSUME CloseFills, SendsArrive
    PROVE  Spec => []SlotsReleased
<1>1. Init => SummaryInv /\ SlotsInv
  BY SummaryInvInit DEF Init, SlotsInv, Quiet, Done
<1>2. SummaryInv /\ SlotsInv /\ [Next]_vars => SummaryInv' /\ SlotsInv'
  BY SummaryInvStep, SlotsInvStep
<1>3. SummaryInv /\ SlotsInv => SlotsReleased
  <2> SUFFICES ASSUME SummaryInv, SlotsInv, NEW o \in DOMAIN tracker, Settled(o),
                      tracker[o].total # Unknown
               PROVE  /\ order[o].status = "OrderFilled"
                      /\ tracker[o].filled < tracker[o].total * Unit
    BY DEF SlotsReleased
  <2>1. o \in Orders /\ tracker[o] \in Entries BY DEF SummaryInv, WholeInv, TypeOK
  <2>2. order[o].status = "OrderFilled" /\ ~(tracker[o].filled >= tracker[o].total * Unit)
    BY <2>1, SettledIsQuiet DEF SlotsInv, Known, NothingRemains
  <2>3. tracker[o].filled \in Int /\ tracker[o].total \in Nat /\ Unit \in Nat
    BY <2>1, OrderFillsAssumption DEF Entries
  <2> QED BY <2>2, <2>3
<1> QED BY <1>1, <1>2, <1>3, PTL DEF Spec

-----------------------------------------------------------------------------
(* No fill is lost on the way to the channel.                              *)

ShownBy(embeds, o, f) == \E x \in embeds : x.coid = o /\ f \in x.fills

\* Where a fill that was read is kept.
Held(o, f) ==
    \/ ShownBy(posted \cup sending, o, f)
    \/ \E k \in DOMAIN outbox : outbox[k].coid = o /\ outbox[k].id = f
    \/ Known(o) /\ f \in tracker[o].fills

KeptInv == \A o \in Orders : \A f \in order[o].fills \cap seen : Held(o, f)

\* While the cap exceeds the orders, nothing is evicted.
LEMMA NothingEvicted ==
    ASSUME NothingDropped, NEW T, DOMAIN T \subseteq Orders
    PROVE  Evicted(T) = T
<1>1. IsFiniteSet(Orders) /\ MaxOrders \in Nat BY OrderFillsAssumption
<1>2. /\ Cardinality(DOMAIN T) <= Cardinality(Orders)
      /\ Cardinality(DOMAIN T) \in Nat /\ Cardinality(Orders) \in Nat
  BY <1>1, FS_Subset, FS_CardinalityType
<1>3. ~(Cardinality(DOMAIN T) > MaxOrders) BY <1>1, <1>2 DEF NothingDropped
<1> QED BY <1>3 DEF Evicted

\* What reading an event does to the fills of the entries.
LEMMA FillsRead ==
    ASSUME NothingDropped, TypeOK, InitializedFirst, Consume, NEW e, e = stream[1]
    PROVE  /\ e.coid \in DOMAIN tracker'
           /\ e.type = "OrderFilled" => e.id \in tracker'[e.coid].fills
           /\ \A o, f : Known(o) /\ f \in tracker[o].fills =>
                 Known(o)' /\ f \in tracker'[o].fills
<1>1. stream # <<>> /\ stream' = Tail(stream) BY DEF Consume
<1>2. 1 \in DOMAIN stream /\ Head(stream) = e /\ e \in Events BY <1>1, Shifted DEF TypeOK
<1>3. PICK r \in Rounding : tracker' = Evicted(Folded(tracker, e, r)) BY <1>2 DEF Consume
<1>4. TrackerType(tracker) BY DEF TypeOK, TrackerType
<1> DEFINE F == Folded(tracker, e, r)
           old == IF e.coid \in DOMAIN tracker THEN tracker[e.coid] ELSE NewEntry
<1>5. TrackerType(F) /\ DOMAIN F = DOMAIN tracker \cup {e.coid}
  BY <1>2, <1>4, FoldedType
<1>6. /\ \A p \in DOMAIN tracker \ {e.coid} : F[p] = tracker[p]
      /\ F[e.coid].total = IF e.type = "OrderInitialized" THEN e.qty ELSE old.total
      /\ F[e.coid].fills = IF e.type = "OrderFilled" THEN old.fills \cup {e.id} ELSE old.fills
  BY <1>2, <1>4, FoldedEntries
<1> HIDE DEF F
<1>7. tracker' = F
  <2>1. DOMAIN F \subseteq Orders BY <1>5 DEF TrackerType
  <2> QED BY <1>3, <2>1, NothingEvicted DEF F
<1>8. ASSUME NEW o, NEW f, Known(o), f \in tracker[o].fills
      PROVE  Known(o)' /\ f \in tracker'[o].fills
  <2>1. CASE o # e.coid BY <1>5, <1>6, <1>7, <1>8, <2>1 DEF Known
  <2>2. CASE o = e.coid
    <3>1. e.coid \in Orders BY <1>2, EventTyped
    <3>2. e.type # "OrderInitialized" BY <1>2, <1>8, <2>2, <3>1 DEF InitializedFirst, Known
    <3>3. old = tracker[o] BY <1>8, <2>2 DEF Known
    <3> QED BY <1>5, <1>6, <1>7, <1>8, <2>2, <3>2, <3>3 DEF Known
  <2> QED BY <2>1, <2>2
<1>9. e.coid \in DOMAIN tracker' BY <1>5, <1>7
<1>10. e.type = "OrderFilled" => e.id \in tracker'[e.coid].fills BY <1>6, <1>7
<1> QED BY <1>8, <1>9, <1>10

LEMMA KeptSpoken ==
    ASSUME TypeOK, UnderWay, KeptInv, NEW o, NEW e, Spoken(o, e)
    PROVE  KeptInv'
<1>1. /\ UNCHANGED <<tracker, outbox, sending, posted, seen>>
      /\ o \in Orders /\ nextId \in Nat
  BY FieldTypes DEF Spoken
<1> SUFFICES ASSUME NEW p \in Orders, NEW f \in order'[p].fills \cap seen
             PROVE  Held(p, f)'
  BY <1>1 DEF KeptInv
<1>2. f # nextId BY <1>1 DEF UnderWay
<1>3. f \in order[p].fills
  <2>1. CASE p = o BY <1>2, <2>1 DEF Spoken
  <2>2. CASE p # o BY <2>2 DEF Spoken
  <2> QED BY <2>1, <2>2
<1>4. Held(p, f) BY <1>3 DEF KeptInv
<1> QED BY <1>1, <1>4 DEF Held, ShownBy, Known

LEMMA KeptConsumed ==
    ASSUME CloseFills, NothingDropped, SummaryInv, KeptInv, Consume
    PROVE  KeptInv'
<1> USE DEF SummaryInv, WholeInv
<1>0. PICK e : e = stream[1] OBVIOUS
<1>1. /\ e \in Events /\ stream # <<>> /\ stream' = Tail(stream)
      /\ UNCHANGED <<order, sending, posted>>
      /\ outbox' = IF Forwarded(tracker', e) THEN Append(outbox, e) ELSE outbox
      /\ seen' = IF e.type = "OrderFilled" THEN seen \cup {e.id} ELSE seen
  BY <1>0, Observed
<1>2. /\ e.coid \in DOMAIN tracker'
      /\ e.type = "OrderFilled" => e.id \in tracker'[e.coid].fills
      /\ \A o, f : Known(o) /\ f \in tracker[o].fills => Known(o)' /\ f \in tracker'[o].fills
  BY <1>0, FillsRead
<1>3. /\ \A k \in DOMAIN outbox : k \in DOMAIN outbox' /\ outbox'[k] = outbox[k]
      /\ Forwarded(tracker', e) => \E k \in DOMAIN outbox' : outbox'[k] = e
  <2>1. CASE Forwarded(tracker', e)
    <3>1. outbox' = Append(outbox, e) /\ outbox \in Seq(Events)
      BY <1>1, <2>1 DEF TypeOK
    <3>2. Len(outbox) + 1 \in DOMAIN outbox' /\ outbox'[Len(outbox) + 1] = e BY <1>1, <3>1
    <3>3. \A k \in DOMAIN outbox : k \in DOMAIN outbox' /\ outbox'[k] = outbox[k]
      BY <1>1, <3>1
    <3> QED BY <3>2, <3>3
  <2>2. CASE ~Forwarded(tracker', e) BY <1>1, <2>2
  <2> QED BY <2>1, <2>2
<1> SUFFICES ASSUME NEW o \in Orders, NEW f \in order[o].fills \cap seen'
             PROVE  Held(o, f)'
  BY <1>1 DEF KeptInv
<1>4. CASE f \in seen
  <2>1. Held(o, f) BY <1>4 DEF KeptInv
  <2>2. CASE ShownBy(posted \cup sending, o, f) BY <1>1, <2>2 DEF Held, ShownBy
  <2>3. CASE \E k \in DOMAIN outbox : outbox[k].coid = o /\ outbox[k].id = f
    BY <1>3, <2>3 DEF Held
  <2>4. CASE Known(o) /\ f \in tracker[o].fills BY <1>2, <2>4 DEF Held
  <2> QED BY <2>1, <2>2, <2>3, <2>4 DEF Held
<1>5. CASE f \notin seen
  <2>1. e.type = "OrderFilled" /\ f = e.id BY <1>1, <1>5
  <2>2. Lawful(e) BY <1>0, <1>1, Shifted DEF HistoryInv, StreamLawful
  <2>3. e.coid = o BY <2>1, <2>2 DEF Lawful
  <2>4. CASE Forwarded(tracker', e) BY <1>3, <2>1, <2>3, <2>4 DEF Held
  <2>5. CASE ~Forwarded(tracker', e)
    <3>1. ~Complete(tracker'[e.coid]) BY <2>1, <2>5 DEF Forwarded, Transient
    <3>2. Known(o)' BY <1>2, <2>3, <3>1 DEF Complete, Known
    <3> QED BY <1>2, <2>1, <2>3, <3>2 DEF Held
  <2> QED BY <2>4, <2>5
<1> QED BY <1>4, <1>5

LEMMA KeptSent ==
    ASSUME SummaryInv, KeptInv, NEW i \in DOMAIN outbox, StartSend(i)
    PROVE  KeptInv'
<1> USE DEF SummaryInv, WholeInv
<1>1. PICK d : d = outbox[i] OBVIOUS
<1>2. PICK x : x = Embed(tracker, d) OBVIOUS
<1>3. /\ UNCHANGED <<order, tracker, posted, seen>> /\ outbox' = RemoveAt(outbox, i)
      /\ sending' = sending \cup {x}
  BY <1>1, <1>2 DEF StartSend, venueVars
<1>4. \A j \in DOMAIN outbox : j # i => \E k \in DOMAIN outbox' : outbox'[k] = outbox[j]
  BY <1>3, RemoveAtElements DEF TypeOK
<1> SUFFICES ASSUME NEW o \in Orders, NEW f \in order[o].fills \cap seen
             PROVE  Held(o, f)'
  BY <1>3 DEF KeptInv
<1>5. Held(o, f) BY DEF KeptInv
<1>6. CASE ShownBy(posted \cup sending, o, f) BY <1>3, <1>6 DEF Held, ShownBy
<1>7. CASE Known(o) /\ f \in tracker[o].fills BY <1>3, <1>7 DEF Held, Known
<1>8. ASSUME NEW j \in DOMAIN outbox, outbox[j].coid = o, outbox[j].id = f
      PROVE  Held(o, f)'
  <2>1. CASE j # i BY <1>4, <1>8, <2>1 DEF Held
  <2>2. CASE j = i
    <3>1. d.coid = o /\ d.id = f /\ Lawful(d) BY <1>1, <1>8, <2>2 DEF UnderWay
    <3>2. d.type = "OrderFilled" BY <3>1 DEF Lawful
    <3>3. x.coid = o /\ x.type = "OrderFilled" BY <1>2, <3>1, <3>2 DEF Embed
    <3>4. f \in x.fills
      <4>1. CASE Known(o)
        <5>1. x.fills = order[o].fills BY <1>1, <1>2, <3>3, <4>1, KnownEmbed
        <5> QED BY <5>1
      <4>2. CASE ~Known(o)
        <5>1. x.fills = {d.id} BY <1>2, <3>1, <3>2, <4>2 DEF Embed, Known
        <5> QED BY <3>1, <5>1
      <4> QED BY <4>1, <4>2
    <3> QED BY <1>3, <3>3, <3>4 DEF Held, ShownBy
  <2> QED BY <2>1, <2>2
<1> QED BY <1>5, <1>6, <1>7, <1>8 DEF Held

LEMMA KeptDelivered ==
    ASSUME NothingDropped, SummaryInv, KeptInv, NEW x \in sending, Delivered(x)
    PROVE  KeptInv'
<1> USE DEF SummaryInv, WholeInv
<1>1. /\ UNCHANGED <<order, outbox, seen>>
      /\ sending' = sending \ {x} /\ posted' = posted \cup {x}
      /\ tracker' = Forgotten(tracker, x.coid, x.type)
  BY DEF Delivered, venueVars
<1> SUFFICES ASSUME NEW o \in Orders, NEW f \in order[o].fills \cap seen
             PROVE  Held(o, f)'
  BY <1>1 DEF KeptInv
<1>2. Held(o, f) BY DEF KeptInv
<1>3. CASE ShownBy(posted \cup sending, o, f) BY <1>1, <1>3 DEF Held, ShownBy
<1>4. CASE \E k \in DOMAIN outbox : outbox[k].coid = o /\ outbox[k].id = f
  BY <1>1, <1>4 DEF Held
<1>5. CASE Known(o) /\ f \in tracker[o].fills
  <2>1. CASE o \in DOMAIN tracker'
    <3>1. tracker'[o] = tracker[o] BY <1>1, <2>1, ForgottenDrops
    <3> QED BY <1>5, <2>1, <3>1 DEF Held, Known
  <2>2. CASE o \notin DOMAIN tracker'
    <3>1. x.coid = o BY <1>1, <1>5, <2>2 DEF Forgotten, Known
    <3>2. /\ order[o].status = x.type
          /\ x.type \in {"OrderFilled", "OrderCanceled"} => x.fills = order[o].fills
      BY <1>5, <3>1 DEF EndsOnly
    <3>3. x.type \notin Refusals BY <3>2 DEF HistoryInv, OrdersLawful
    <3>4. x.type \in EndEvents \cup {"OrderFilled"} BY DEF UnderWay
    <3>5. order[o].status \in {"none", "open", "OrderFilled"} \cup Ends
      BY DEF HistoryInv, OrdersLawful
    <3>6. x.type # "OrderExpired" BY <3>2, <3>5 DEF NothingDropped
    <3>7. x.type \in {"OrderFilled", "OrderCanceled"} BY <3>3, <3>4, <3>6 DEF EndEvents, Refusals
    <3>8. f \in x.fills BY <3>2, <3>7
    <3> QED BY <1>1, <3>1, <3>8 DEF Held, ShownBy
  <2> QED BY <2>1, <2>2
<1> QED BY <1>2, <1>3, <1>4, <1>5 DEF Held

LEMMA KeptInvStep ==
    ASSUME CloseFills, SendsArrive, NothingDropped, SummaryInv, KeptInv, [Next]_vars
    PROVE  KeptInv'
<1> USE DEF SummaryInv
<1>1. CASE \/ \E o \in Orders, n \in Quantities : Initialize(o, n) \/ Fill(o, n) \/ Amend(o, n)
           \/ \E o \in Orders : Accept(o)
           \/ \E o \in Orders, type \in Ends : End(o, type)
  <2>1. TypeOK' BY TrackerInvStep DEF TrackerInv
  <2>2. TypeOK /\ OrdersLawful /\ UnbornUnknown BY DEF WholeInv, HistoryInv
  <2>3. PICK o \in Orders, e \in Events : Spoken(o, e) BY <1>1, <2>1, <2>2, PodSpeaks
  <2> QED BY <2>2, <2>3, KeptSpoken
<1>2. CASE Consume BY <1>2, KeptConsumed
<1>3. ASSUME NEW i \in DOMAIN outbox, StartSend(i) PROVE KeptInv' BY <1>3, KeptSent
<1>4. ASSUME NEW x \in sending, Delivered(x) PROVE KeptInv' BY <1>4, KeptDelivered
<1>5. CASE Restart BY <1>5 DEF Restart, KeptInv
<1>6. CASE UNCHANGED vars BY <1>6 DEF vars, KeptInv, Held, ShownBy, Known
<1>7. /\ ~ \E i \in DOMAIN outbox : FetchFails(i)
      /\ ~ \E x \in sending, logged \in BOOLEAN : SendFails(x, logged)
  BY DEF SendsArrive, FetchFails, SendFails
<1> QED BY <1>1, <1>2, <1>3, <1>4, <1>5, <1>6, <1>7 DEF Next

LEMMA KeptInvInit == Init => KeptInv
BY DEF Init, KeptInv

\* A fill the gate held back is in a message, about to be, or in the entry that the
\* order's last message will show.
THEOREM FillsKept ==
    ASSUME CloseFills, SendsArrive, NothingDropped
    PROVE  Spec => []SuppressedFillsKept
<1>1. Init => SummaryInv /\ KeptInv BY SummaryInvInit, KeptInvInit
<1>2. SummaryInv /\ KeptInv /\ [Next]_vars => SummaryInv' /\ KeptInv'
  BY SummaryInvStep, KeptInvStep
<1>3. KeptInv => SuppressedFillsKept
  <2> SUFFICES ASSUME KeptInv, NEW o \in Orders, NEW f \in order[o].fills \cap seen
               PROVE  \/ f \in Shown(posted \cup sending, o)
                      \/ \E e \in About(outbox, o) : e.id = f
                      \/ o \in DOMAIN tracker /\ tracker[o].total # Unknown /\ f \in tracker[o].fills
    BY DEF SuppressedFillsKept
  <2>1. Held(o, f) BY DEF KeptInv
  <2>2. ShownBy(posted \cup sending, o, f) => f \in Shown(posted \cup sending, o)
    BY DEF ShownBy, Shown, OfOrder
  <2>3. (\E k \in DOMAIN outbox : outbox[k].coid = o /\ outbox[k].id = f)
          => \E e \in About(outbox, o) : e.id = f
    BY DEF About
  <2> QED BY <2>1, <2>2, <2>3 DEF Held, Known
<1> QED BY <1>1, <1>2, <1>3, PTL DEF Spec

\* When a done order has nothing under way, its messages in the channel show every
\* fill this notifier process has read.
THEOREM DoneOrdersShown ==
    ASSUME CloseFills, SendsArrive, NothingDropped
    PROVE  Spec => []SettledOrdersShown
<1>1. Init => SummaryInv /\ SlotsInv /\ KeptInv
  BY SummaryInvInit, KeptInvInit DEF Init, SlotsInv, Quiet, Done
<1>2. SummaryInv /\ SlotsInv /\ KeptInv /\ [Next]_vars => SummaryInv' /\ SlotsInv' /\ KeptInv'
  BY SummaryInvStep, SlotsInvStep, KeptInvStep
<1>3. SlotsInv /\ KeptInv => SettledOrdersShown
  <2> SUFFICES ASSUME SlotsInv, KeptInv, NEW o \in Orders, Settled(o),
                      NEW f \in order[o].fills \cap seen
               PROVE  f \in Shown(posted, o)
    BY DEF SettledOrdersShown
  <2>1. Quiet(o) BY SettledIsQuiet
  <2>2. Held(o, f) BY DEF KeptInv
  <2>3. CASE Known(o)
    <3>1. ShownBy(posted, o, f) BY <2>1, <2>3 DEF SlotsInv, ShownBy
    <3> QED BY <3>1 DEF ShownBy, Shown, OfOrder
  <2>4. CASE ~Known(o)
    <3>1. ShownBy(posted \cup sending, o, f) BY <2>1, <2>2, <2>4 DEF Held, Quiet
    <3>2. ShownBy(posted, o, f) BY <2>1, <3>1 DEF ShownBy, Quiet
    <3> QED BY <3>2 DEF ShownBy, Shown, OfOrder
  <2> QED BY <2>3, <2>4
<1> QED BY <1>1, <1>2, <1>3, PTL DEF Spec
=============================================================================
