-------------------------- MODULE OrderFills_proofs --------------------------
(* Proofs about OrderFills, for every value of its constants. *)
EXTENDS OrderFills, FiniteSetTheorems, WellFoundedInduction, TLAPS

-----------------------------------------------------------------------------
(* What the helpers return. *)

\* A non-empty set of naturals has a least element.
LEMMA LeastNatural ==
    ASSUME NEW S \in SUBSET Nat, S # {}
    PROVE  \E n \in S : \A m \in S : n <= m
<1> DEFINE R == OpToRel(<, Nat)
<1>1. PICK n \in S : \A m \in S : ~ (<<m, n>> \in R)
  BY NatLessThanWellFounded, WFMin
<1>2. \A m \in S : ~ (m < n) BY <1>1 DEF OpToRel
<1>3. n \in Nat /\ \A m \in S : m \in Nat OBVIOUS
<1> HIDE DEF R
<1>4. \A m \in S : n <= m BY <1>2, <1>3
<1> QED BY <1>4

LEMMA RemoveAtType ==
    ASSUME NEW S, NEW s \in Seq(S), NEW i \in DOMAIN s
    PROVE  RemoveAt(s, i) \in Seq(S)
BY DEF RemoveAt

TrackerType(T) == DOMAIN T \subseteq Orders /\ \A o \in DOMAIN T : T[o] \in Entries

LEMMA FoldedType ==
    ASSUME NEW T, TrackerType(T), NEW e \in Events, NEW r \in Rounding
    PROVE  /\ TrackerType(Folded(T, e, r))
           /\ DOMAIN Folded(T, e, r) = DOMAIN T \cup {e.coid}
<1>1. /\ e.coid \in Orders /\ e.id \in Nat /\ e.qty \in Nat
      /\ NewEntry \in Entries
  BY DEF Events, NewEntry, Entries
<1> DEFINE p == IF e.coid \in DOMAIN T THEN T[e.coid] ELSE NewEntry
<1>2. p \in Entries BY <1>1 DEF TrackerType
<1>3. r \in Int /\ Unit \in Nat BY OrderFillsAssumption
<1>4. p.filled + e.qty * Unit + (IF p.filled = 0 THEN 0 ELSE r) \in Int
  BY <1>1, <1>2, <1>3 DEF Entries
<1> QED BY <1>1, <1>2, <1>4 DEF Folded, Entries, TrackerType

\* An eviction keeps entries or drops them, and brings an overfull tracker back
\* under its cap.
LEMMA EvictedBounds ==
    ASSUME NEW T, TrackerType(T), IsFiniteSet(DOMAIN T),
           Cardinality(DOMAIN T) <= MaxOrders + 1
    PROVE  /\ DOMAIN Evicted(T) \subseteq DOMAIN T
           /\ \A o \in DOMAIN Evicted(T) : Evicted(T)[o] = T[o]
           /\ Cardinality(DOMAIN Evicted(T)) <= MaxOrders
<1> DEFINE kept == {o \in DOMAIN T : \E p \in DOMAIN T : T[p].last < T[o].last}
<1>1. MaxOrders \in Nat \ {0} /\ Cardinality(DOMAIN T) \in Nat
  BY OrderFillsAssumption, FS_CardinalityType
<1>2. CASE Cardinality(DOMAIN T) <= MaxOrders
  <2>1. ~(Cardinality(DOMAIN T) > MaxOrders) BY <1>1, <1>2
  <2> QED BY <2>1, <1>2 DEF Evicted
<1>3. CASE Cardinality(DOMAIN T) > MaxOrders
  <2>1. DOMAIN T # {} BY <1>1, <1>3, FS_EmptySet
  <2> DEFINE lasts == {T[o].last : o \in DOMAIN T}
  <2>2. lasts \in SUBSET Nat /\ lasts # {} BY <2>1 DEF TrackerType, Entries
  <2>3. PICK n \in lasts : \A m \in lasts : n <= m BY <2>2, LeastNatural
  <2>4. PICK oldest \in DOMAIN T : T[oldest].last = n OBVIOUS
  <2>5. \A p \in DOMAIN T : T[p].last \in Nat /\ T[oldest].last <= T[p].last
    BY <2>2, <2>3, <2>4
  <2>6. oldest \notin kept BY <2>5
  <2>7. kept \subseteq DOMAIN T /\ kept # DOMAIN T BY <2>6
  <2>8. /\ IsFiniteSet(kept)
        /\ Cardinality(kept) <= Cardinality(DOMAIN T)
        /\ Cardinality(kept) # Cardinality(DOMAIN T)
    BY <2>7, FS_Subset
  <2>9. Cardinality(kept) <= MaxOrders
    BY <2>8, <1>1, FS_CardinalityType
  <2>10. Evicted(T) = [o \in kept |-> T[o]] BY <1>3 DEF Evicted
  <2> HIDE DEF kept
  <2> QED BY <2>7, <2>9, <2>10
<1> QED BY <1>1, <1>2, <1>3

LEMMA ForgottenDrops ==
    ASSUME NEW T, NEW o, NEW type
    PROVE  /\ DOMAIN Forgotten(T, o, type) \subseteq DOMAIN T
           /\ \A p \in DOMAIN Forgotten(T, o, type) : Forgotten(T, o, type)[p] = T[p]
BY DEF Forgotten

LEMMA EmbedType ==
    ASSUME NEW T, TrackerType(T), NEW e \in Events
    PROVE  Embed(T, e) \in Embeds
<1>1. e.id \in Nat /\ e.type \in EventTypes /\ e.coid \in Orders BY DEF Events
<1>2. e.coid \in DOMAIN T =>
        T[e.coid].total \in Nat \cup {Unknown} /\ T[e.coid].fills \in SUBSET Nat
  BY DEF TrackerType, Entries
<1>3. (IF e.type = "OrderFilled" THEN {e.id} ELSE {}) \in SUBSET Nat BY <1>1
<1> QED BY <1>1, <1>2, <1>3 DEF Embed, Embeds

-----------------------------------------------------------------------------
(* Types, and the tracker's cap.                                           *)

TrackerInv == TypeOK /\ TrackerBounded

LEMMA TrackerInvInit == Init => TrackerInv
<1> SUFFICES ASSUME Init PROVE TrackerInv OBVIOUS
<1>1. DOMAIN EmptyTracker = {} BY DEF EmptyTracker
<1>2. Cardinality({}) = 0 /\ MaxOrders \in Nat BY FS_EmptySet, OrderFillsAssumption
<1>3. TrackerBounded BY <1>1, <1>2 DEF Init, TrackerBounded
<1>4. order \in [Orders -> [status : Statuses, total : Nat, filled : Nat,
                            fills : SUBSET Nat]]
  BY DEF Init, Statuses
<1> QED BY <1>1, <1>3, <1>4 DEF Init, TrackerInv, TypeOK

\* The actions of the pod leave the notifier alone.
LEMMA PublishType ==
    ASSUME TypeOK, NEW o \in Orders, NEW type \in EventTypes, NEW qty \in Nat,
           Publish(o, type, qty), order'[o].filled \in Nat
    PROVE  /\ stream' \in Seq(Events) /\ nextId' \in Nat
           /\ UNCHANGED <<tracker, outbox, sending, posted, seen, restarts>>
<1>1. [id |-> nextId, type |-> type, coid |-> o, qty |-> qty, sum |-> order'[o].filled]
        \in Events
  BY DEF TypeOK, Events
<1> QED BY <1>1 DEF TypeOK, Publish

\* Whatever only drops entries keeps the tracker typed and bounded.
LEMMA DroppingKeeps ==
    ASSUME NEW T, NEW U, TrackerType(T), Cardinality(DOMAIN T) <= MaxOrders,
           DOMAIN U \subseteq DOMAIN T, \A o \in DOMAIN U : U[o] = T[o]
    PROVE  TrackerType(U) /\ Cardinality(DOMAIN U) <= MaxOrders
<1>1. IsFiniteSet(DOMAIN T) BY FS_Subset, OrderFillsAssumption DEF TrackerType
<1>2. /\ Cardinality(DOMAIN U) <= Cardinality(DOMAIN T)
      /\ Cardinality(DOMAIN U) \in Nat /\ Cardinality(DOMAIN T) \in Nat
  BY <1>1, FS_Subset, FS_CardinalityType
<1>3. MaxOrders \in Nat BY OrderFillsAssumption
<1> QED BY <1>2, <1>3 DEF TrackerType

\* One observed event keeps the tracker typed and within its cap: it adds at
\* most one entry, and an eviction follows.
LEMMA ObserveKeeps ==
    ASSUME NEW T, TrackerType(T), Cardinality(DOMAIN T) <= MaxOrders,
           NEW e \in Events, NEW r \in Rounding
    PROVE  LET U == Evicted(Folded(T, e, r))
           IN  TrackerType(U) /\ Cardinality(DOMAIN U) <= MaxOrders
<1> DEFINE F == Folded(T, e, r)
<1>1. TrackerType(F) /\ DOMAIN F = DOMAIN T \cup {e.coid} BY FoldedType
<1>2. IsFiniteSet(DOMAIN T) BY FS_Subset, OrderFillsAssumption DEF TrackerType
<1>3. /\ IsFiniteSet(DOMAIN F)
      /\ Cardinality(DOMAIN F) \in {Cardinality(DOMAIN T), Cardinality(DOMAIN T) + 1}
  BY <1>1, <1>2, FS_AddElement
<1>4. MaxOrders \in Nat /\ Cardinality(DOMAIN T) \in Nat
  BY <1>2, FS_CardinalityType, OrderFillsAssumption
<1>5. Cardinality(DOMAIN F) <= MaxOrders + 1 BY <1>3, <1>4
<1> HIDE DEF F
<1>6. /\ DOMAIN Evicted(F) \subseteq DOMAIN F
      /\ \A o \in DOMAIN Evicted(F) : Evicted(F)[o] = F[o]
      /\ Cardinality(DOMAIN Evicted(F)) <= MaxOrders
  BY <1>1, <1>3, <1>5, EvictedBounds
<1>7. TrackerType(Evicted(F)) BY <1>1, <1>6 DEF TrackerType
<1> QED BY <1>6, <1>7 DEF F

LEMMA TrackerInvStep ==
    ASSUME TrackerInv, [Next]_vars
    PROVE  TrackerInv'
<1> USE DEF TrackerInv
<1>0. TrackerType(tracker) /\ Cardinality(DOMAIN tracker) <= MaxOrders
  BY DEF TypeOK, TrackerType, TrackerBounded
<1>1. ASSUME NEW o \in Orders, NEW n \in Quantities, Initialize(o, n)
      PROVE  TrackerInv'
  <2>1. n \in Nat BY OrderFillsAssumption
  <2>2. Publish(o, "OrderInitialized", n) /\ "OrderInitialized" \in EventTypes
    BY <1>1 DEF Initialize, EventTypes, Transient
  <2>3. order' \in [Orders -> [status : Statuses, total : Nat, filled : Nat,
                               fills : SUBSET Nat]]
    BY <1>1, <2>1 DEF TypeOK, Initialize, Statuses
  <2> QED BY <2>1, <2>2, <2>3, PublishType DEF TypeOK, TrackerBounded
<1>2. ASSUME NEW o \in Orders, NEW n \in Quantities, Fill(o, n)
      PROVE  TrackerInv'
  <2>1. n \in Nat BY OrderFillsAssumption
  <2>2. Publish(o, "OrderFilled", n) /\ "OrderFilled" \in EventTypes
    BY <1>2 DEF Fill, EventTypes
  <2>3. order' \in [Orders -> [status : Statuses, total : Nat, filled : Nat,
                               fills : SUBSET Nat]]
    <3>1. /\ order[o].filled + n \in Nat /\ order[o].fills \cup {nextId} \in SUBSET Nat
          /\ order[o].total \in Nat
      BY <2>1 DEF TypeOK
    <3>2. (IF order[o].filled + n = order[o].total THEN "OrderFilled" ELSE "open")
            \in Statuses
      BY DEF Statuses
    <3>3. order' = [p \in Orders |-> IF p = o
              THEN [order[o] EXCEPT
                      !.filled = @ + n, !.fills = @ \cup {nextId},
                      !.status = IF order[o].filled + n = order[o].total
                                 THEN "OrderFilled" ELSE "open"]
              ELSE order[p]]
      BY <1>2, Zenon DEF Fill, TypeOK
    <3>4. order[o] \in [status : Statuses, total : Nat, filled : Nat, fills : SUBSET Nat]
      BY DEF TypeOK
    <3>5. order'[o] \in [status : Statuses, total : Nat, filled : Nat, fills : SUBSET Nat]
      BY <3>1, <3>2, <3>3, <3>4
    <3> QED BY <3>3, <3>5 DEF TypeOK
  <2> QED BY <2>1, <2>2, <2>3, PublishType DEF TypeOK, TrackerBounded
<1>3. ASSUME NEW o \in Orders, NEW n \in Quantities, Amend(o, n)
      PROVE  TrackerInv'
  <2>1. n \in Nat BY OrderFillsAssumption
  <2>2. Publish(o, "OrderUpdated", n) /\ "OrderUpdated" \in EventTypes
    BY <1>3 DEF Amend, EventTypes
  <2>3. order' \in [Orders -> [status : Statuses, total : Nat, filled : Nat,
                               fills : SUBSET Nat]]
    BY <1>3, <2>1 DEF TypeOK, Amend, Statuses
  <2> QED BY <2>1, <2>2, <2>3, PublishType DEF TypeOK, TrackerBounded
<1>4. ASSUME NEW o \in Orders, Accept(o)
      PROVE  TrackerInv'
  <2>1. Publish(o, "OrderAccepted", 0) /\ "OrderAccepted" \in EventTypes
    BY <1>4 DEF Accept, EventTypes, Transient
  <2> QED BY <1>4, <2>1, PublishType DEF TypeOK, TrackerBounded, Accept
<1>5. ASSUME NEW o \in Orders, NEW type \in Ends, End(o, type)
      PROVE  TrackerInv'
  <2>1. type \in EndEvents BY OrderFillsAssumption
  <2>2. Publish(o, type, 0) /\ type \in EventTypes
    BY <1>5, <2>1 DEF End, EventTypes
  <2>3. order' \in [Orders -> [status : Statuses, total : Nat, filled : Nat,
                               fills : SUBSET Nat]]
    BY <1>5, <2>1 DEF TypeOK, End, Statuses
  <2> QED BY <2>2, <2>3, PublishType DEF TypeOK, TrackerBounded
<1>6. CASE Consume
  <2> DEFINE e == Head(stream)
  <2>1. PICK r \in Rounding : tracker' = Evicted(Folded(tracker, e, r))
    BY <1>6 DEF Consume
  <2>2. e \in Events /\ stream' \in Seq(Events) BY <1>6 DEF TypeOK, Consume
  <2>3. TrackerType(tracker') /\ Cardinality(DOMAIN tracker') <= MaxOrders
    BY <1>0, <2>1, <2>2, ObserveKeeps
  <2>4. outbox' \in Seq(Events) BY <1>6, <2>2 DEF Consume, TypeOK
  <2>5. seen' \subseteq Nat BY <1>6, <2>2 DEF Consume, TypeOK, Events
  <2>6. UNCHANGED <<venueVars, sending, posted, restarts>> BY <1>6 DEF Consume
  <2> HIDE DEF e
  <2> QED BY <2>2, <2>3, <2>4, <2>5, <2>6
          DEF TypeOK, TrackerType, TrackerBounded, venueVars
<1>7. ASSUME NEW i \in DOMAIN outbox, StartSend(i)
      PROVE  TrackerInv'
  <2>1. outbox' \in Seq(Events) BY <1>7, RemoveAtType DEF StartSend, TypeOK
  <2>2. outbox[i] \in Events BY DEF TypeOK
  <2>3. sending' \subseteq Embeds BY <1>0, <1>7, <2>2, EmbedType DEF StartSend, TypeOK
  <2> QED BY <1>7, <2>1, <2>3 DEF TypeOK, TrackerBounded, StartSend, venueVars
<1>8. ASSUME NEW i \in DOMAIN outbox, FetchFails(i)
      PROVE  TrackerInv'
  <2>1. outbox' \in Seq(Events) BY <1>8, RemoveAtType DEF FetchFails, TypeOK
  <2> QED BY <1>8, <2>1 DEF TypeOK, TrackerBounded, FetchFails, venueVars
<1>9. ASSUME NEW x \in sending, Delivered(x)
      PROVE  TrackerInv'
  <2>1. TrackerType(tracker') /\ Cardinality(DOMAIN tracker') <= MaxOrders
    BY <1>0, <1>9, ForgottenDrops, DroppingKeeps DEF Delivered
  <2> QED BY <1>9, <2>1 DEF TypeOK, TrackerType, TrackerBounded, Delivered, venueVars
<1>10. ASSUME NEW x \in sending, NEW logged \in BOOLEAN, SendFails(x, logged)
       PROVE  TrackerInv'
  <2>1. TrackerType(tracker') /\ Cardinality(DOMAIN tracker') <= MaxOrders
    BY <1>0, <1>10, ForgottenDrops, DroppingKeeps DEF SendFails
  <2> QED BY <1>10, <2>1 DEF TypeOK, TrackerType, TrackerBounded, SendFails, venueVars
<1>11. CASE Restart
  <2>1. DOMAIN tracker' = {} BY <1>11 DEF Restart, EmptyTracker
  <2>2. Cardinality({}) = 0 /\ MaxOrders \in Nat BY FS_EmptySet, OrderFillsAssumption
  <2> QED BY <1>11, <2>1, <2>2 DEF TypeOK, TrackerBounded, Restart, venueVars
<1>12. CASE UNCHANGED vars BY <1>12 DEF vars, TypeOK, TrackerBounded
<1> QED BY <1>1, <1>2, <1>3, <1>4, <1>5, <1>6, <1>7, <1>8, <1>9, <1>10, <1>11, <1>12
        DEF Next

\* The state of the notifier and of the venue stays typed.
THEOREM TypeCorrect == Spec => []TypeOK
<1>1. Init => TrackerInv BY TrackerInvInit
<1>2. TrackerInv /\ [Next]_vars => TrackerInv' BY TrackerInvStep
<1>3. TrackerInv => TypeOK BY DEF TrackerInv
<1> QED BY <1>1, <1>2, <1>3, PTL DEF Spec

\* OrderProgressTracker never holds more entries than its cap, whatever it
\* failed to release.
THEOREM TrackerNeverOverflows == Spec => []TrackerBounded
<1>1. Init => TrackerInv BY TrackerInvInit
<1>2. TrackerInv /\ [Next]_vars => TrackerInv' BY TrackerInvStep
<1>3. TrackerInv => TrackerBounded BY DEF TrackerInv
<1> QED BY <1>1, <1>2, <1>3, PTL DEF Spec

-----------------------------------------------------------------------------
(* What is shown as "X / total" is all of X.                               *)

\* Events carry increasing ids, and no fill is older than its publication.
StreamOrdered ==
    /\ \A i \in DOMAIN stream : stream[i].id < nextId
    /\ \A i, j \in DOMAIN stream : i < j => stream[i].id < stream[j].id
    /\ \A o \in Orders : \A f \in order[o].fills : f < nextId

\* The fills the venue knows are the fill events it publishes.
FillsPublished ==
    \A i \in DOMAIN stream :
        stream[i].type = "OrderFilled" <=> stream[i].id \in order[stream[i].coid].fills

\* Nothing is said of an order before it exists.
UnbornUnknown ==
    \A o \in Orders : order[o].status = "none" =>
        /\ order[o].fills = {} /\ o \notin DOMAIN tracker
        /\ \A i \in DOMAIN stream : stream[i].coid # o

\* An order's OrderInitialized is the first of its events: while it is unread,
\* so is everything that followed.
InitializedFirst ==
    \A i \in DOMAIN stream, o \in Orders :
        stream[i].type = "OrderInitialized" /\ stream[i].coid = o =>
            /\ o \notin DOMAIN tracker
            /\ \A j \in DOMAIN stream : stream[j].coid = o => i <= j
            /\ order[o].fills \subseteq InStream(o)

WholeInv == /\ TypeOK /\ StreamOrdered /\ FillsPublished
            /\ UnbornUnknown /\ InitializedFirst /\ KnownTotalIsWhole

LEMMA InStreamDef ==
    ASSUME NEW o, NEW x
    PROVE  x \in InStream(o)
              <=> \E j \in DOMAIN stream : stream[j].coid = o /\ stream[j].id = x
BY DEF InStream

LEMMA WholeInit == Init => WholeInv
<1> SUFFICES ASSUME Init PROVE WholeInv OBVIOUS
<1>1. TypeOK BY TrackerInvInit DEF TrackerInv
<1>2. DOMAIN stream = {} /\ DOMAIN tracker = {} BY DEF Init, EmptyTracker
<1>3. \A o \in Orders : order[o].fills = {} BY DEF Init
<1> QED BY <1>1, <1>2, <1>3 DEF WholeInv, StreamOrdered, FillsPublished,
             UnbornUnknown, InitializedFirst, KnownTotalIsWhole

\* The stream after a publication.
LEMMA AppendedStream ==
    ASSUME TypeOK, NEW e \in Events, stream' = Append(stream, e)
    PROVE  /\ DOMAIN stream' = DOMAIN stream \cup {Len(stream) + 1}
           /\ Len(stream) + 1 \notin DOMAIN stream
           /\ \A i \in DOMAIN stream : stream'[i] = stream[i] /\ i < Len(stream) + 1
           /\ stream'[Len(stream) + 1] = e
           /\ \A o : InStream(o)' = IF o = e.coid THEN InStream(o) \cup {e.id}
                                    ELSE InStream(o)
<1>1. /\ DOMAIN stream' = DOMAIN stream \cup {Len(stream) + 1}
      /\ Len(stream) + 1 \notin DOMAIN stream
      /\ \A i \in DOMAIN stream : stream'[i] = stream[i] /\ i < Len(stream) + 1
      /\ stream'[Len(stream) + 1] = e
  BY DEF TypeOK
<1>2. ASSUME NEW o, NEW x
      PROVE  x \in InStream(o)' <=> x \in InStream(o) \/ (o = e.coid /\ x = e.id)
  <2>1. x \in InStream(o)'
          <=> \E j \in DOMAIN stream' : stream'[j].coid = o /\ stream'[j].id = x
    BY DEF InStream
  <2> QED BY <1>1, <2>1, InStreamDef
<1>3. ASSUME NEW o
      PROVE  InStream(o)' = IF o = e.coid THEN InStream(o) \cup {e.id} ELSE InStream(o)
  <2> DEFINE rhs == IF o = e.coid THEN InStream(o) \cup {e.id} ELSE InStream(o)
  <2>1. \A x : x \in InStream(o)' <=> x \in rhs BY <1>2
  <2> HIDE DEF rhs
  <2>2. InStream(o)' = rhs BY <2>1, Zenon
  <2> QED BY <2>2 DEF rhs
<1> QED BY <1>1, <1>3

\* The stream after a read.
LEMMA ConsumedStream ==
    ASSUME TypeOK, StreamOrdered, stream # <<>>, stream' = Tail(stream)
    PROVE  /\ 1 \in DOMAIN stream /\ Head(stream) = stream[1]
           /\ \A i \in DOMAIN stream' : i + 1 \in DOMAIN stream /\ i \in Nat
                                        /\ stream'[i] = stream[i + 1]
           /\ \A o : InStream(o)' = IF o = Head(stream).coid
                                    THEN InStream(o) \ {Head(stream).id}
                                    ELSE InStream(o)
<1>1. /\ 1 \in DOMAIN stream /\ Head(stream) = stream[1]
      /\ \A i \in DOMAIN stream' : i + 1 \in DOMAIN stream /\ i \in Nat
                                   /\ stream'[i] = stream[i + 1]
  BY DEF TypeOK
<1>2. \A j \in DOMAIN stream : j # 1 => /\ j - 1 \in DOMAIN stream'
                                        /\ stream'[j - 1] = stream[j] /\ 1 < j
  BY DEF TypeOK
<1>3. \A i \in DOMAIN stream' : stream'[i].id # stream[1].id
  <2> SUFFICES ASSUME NEW i \in DOMAIN stream' PROVE stream'[i].id # stream[1].id
    OBVIOUS
  <2>1. 1 < i + 1 /\ i + 1 \in DOMAIN stream
    BY <1>1, <1>2 DEF TypeOK
  <2>2. stream[1].id < stream[i + 1].id BY <1>1, <2>1 DEF StreamOrdered
  <2>3. stream[1].id \in Nat /\ stream[i + 1].id \in Nat
    <3>1. stream[1] \in Events /\ stream[i + 1] \in Events BY <1>1, <2>1 DEF TypeOK
    <3> QED BY <3>1 DEF Events
  <2> QED BY <1>1, <2>2, <2>3
<1>4. ASSUME NEW o, NEW x
      PROVE  x \in InStream(o)'
                <=> x \in InStream(o) /\ ~(o = stream[1].coid /\ x = stream[1].id)
  <2>1. x \in InStream(o)'
          <=> \E i \in DOMAIN stream' : stream'[i].coid = o /\ stream'[i].id = x
    BY DEF InStream
  <2>2. ASSUME x \in InStream(o)'
        PROVE  x \in InStream(o) /\ ~(o = stream[1].coid /\ x = stream[1].id)
    <3>1. PICK i \in DOMAIN stream' : stream'[i].coid = o /\ stream'[i].id = x
      BY <2>1, <2>2
    <3>2. x \in InStream(o) BY <3>1, <1>1, InStreamDef
    <3> QED BY <3>1, <3>2, <1>3
  <2>3. ASSUME x \in InStream(o), ~(o = stream[1].coid /\ x = stream[1].id)
        PROVE  x \in InStream(o)'
    <3>1. PICK j \in DOMAIN stream : stream[j].coid = o /\ stream[j].id = x
      BY <2>3, InStreamDef
    <3>2. j # 1 BY <3>1, <2>3
    <3> QED BY <3>1, <3>2, <1>2, <2>1
  <2> QED BY <2>2, <2>3
<1>5. ASSUME NEW o
      PROVE  InStream(o)' = IF o = Head(stream).coid
                            THEN InStream(o) \ {Head(stream).id} ELSE InStream(o)
  <2> DEFINE rhs == IF o = Head(stream).coid
                    THEN InStream(o) \ {Head(stream).id} ELSE InStream(o)
  <2>1. \A x : x \in InStream(o)' <=> x \in rhs BY <1>1, <1>4
  <2> HIDE DEF rhs
  <2>2. InStream(o)' = rhs BY <2>1, Zenon
  <2> QED BY <2>2 DEF rhs
<1> QED BY <1>1, <1>5

\* A publication keeps the invariant, whatever it does to the order besides
\* adding its fill.
LEMMA PublishKeepsWhole ==
    ASSUME WholeInv, TypeOK', NEW o \in Orders, NEW type \in EventTypes, NEW qty \in Nat,
           Publish(o, type, qty),
           \A p \in Orders \ {o} : order'[p] = order[p],
           order'[o].fills = IF type = "OrderFilled" THEN order[o].fills \cup {nextId}
                             ELSE order[o].fills,
           order'[o].status # "none",
           type = "OrderInitialized" => order[o].status = "none"
    PROVE  WholeInv'
<1> DEFINE e == [id |-> nextId, type |-> type, coid |-> o, qty |-> qty,
                 sum |-> order'[o].filled]
           n == Len(stream) + 1
<1>1. e \in Events /\ e.id = nextId /\ e.type = type /\ e.coid = o /\ nextId \in Nat
  <2>1. order'[o].filled \in Nat BY DEF TypeOK
  <2> QED BY <2>1 DEF WholeInv, TypeOK, Events
<1>2. stream' = Append(stream, e) /\ nextId' = nextId + 1 /\ tracker' = tracker
  BY DEF Publish
<1>3. /\ DOMAIN stream' = DOMAIN stream \cup {n} /\ n \notin DOMAIN stream
      /\ \A i \in DOMAIN stream : stream'[i] = stream[i] /\ i < n
      /\ stream'[n] = e
      /\ \A p : InStream(p)' = IF p = o THEN InStream(p) \cup {nextId} ELSE InStream(p)
  BY <1>1, <1>2, AppendedStream DEF WholeInv
<1>4. DOMAIN stream \subseteq Nat /\ n \in Nat BY DEF WholeInv, TypeOK
<1>5. \A i \in DOMAIN stream : /\ stream[i] \in Events /\ stream[i].id \in Nat
                               /\ stream[i].coid \in Orders
                               /\ stream[i].id < nextId /\ stream[i].id # nextId
  <2> SUFFICES ASSUME NEW i \in DOMAIN stream
               PROVE  /\ stream[i] \in Events /\ stream[i].id \in Nat
                      /\ stream[i].coid \in Orders
                      /\ stream[i].id < nextId /\ stream[i].id # nextId
    OBVIOUS
  <2>1. stream[i] \in Events BY DEF WholeInv, TypeOK
  <2>2. stream[i].id \in Nat /\ stream[i].coid \in Orders BY <2>1 DEF Events
  <2>3. stream[i].id < nextId BY DEF WholeInv, StreamOrdered
  <2> QED BY <1>1, <2>1, <2>2, <2>3
<1>6. \A p \in Orders : /\ order[p].fills \in SUBSET Nat
                        /\ \A f \in order[p].fills : f < nextId /\ f # nextId
  BY <1>1 DEF WholeInv, TypeOK, StreamOrdered
<1>7. \A p \in Orders : /\ order[p].fills \subseteq order'[p].fills
                        /\ order'[p].fills \subseteq order[p].fills \cup {nextId}
                        /\ nextId \in order'[p].fills <=> p = o /\ type = "OrderFilled"
  BY <1>6
<1> HIDE DEF e, n
<1>8. StreamOrdered'
  <2>1. \A i \in DOMAIN stream' : stream'[i].id < nextId'
    BY <1>1, <1>2, <1>3, <1>5
  <2>2. \A i, j \in DOMAIN stream' : i < j => stream'[i].id < stream'[j].id
    BY <1>1, <1>3, <1>4, <1>5 DEF WholeInv, StreamOrdered
  <2>3. \A p \in Orders : \A f \in order'[p].fills : f < nextId'
    BY <1>1, <1>2, <1>6, <1>7
  <2> QED BY <2>1, <2>2, <2>3 DEF StreamOrdered
<1>9. FillsPublished'
  <2>1. \A i \in DOMAIN stream :
           stream'[i].type = "OrderFilled"
              <=> stream'[i].id \in order'[stream'[i].coid].fills
    BY <1>3, <1>5, <1>7 DEF WholeInv, FillsPublished
  <2>2. stream'[n].type = "OrderFilled" <=> stream'[n].id \in order'[stream'[n].coid].fills
    BY <1>1, <1>3, <1>7
  <2> QED BY <1>3, <2>1, <2>2 DEF FillsPublished
<1>10. UnbornUnknown'
  BY <1>1, <1>2, <1>3 DEF WholeInv, UnbornUnknown
<1>11. InitializedFirst'
  <2> SUFFICES ASSUME NEW i \in DOMAIN stream', NEW p \in Orders,
                      stream'[i].type = "OrderInitialized", stream'[i].coid = p
               PROVE  /\ p \notin DOMAIN tracker'
                      /\ \A j \in DOMAIN stream' : stream'[j].coid = p => i <= j
                      /\ order'[p].fills \subseteq InStream(p)'
    BY DEF InitializedFirst
  <2>1. CASE i = n
    <3>1. order[o].status = "none" /\ p = o BY <2>1, <1>1, <1>3
    <3>2. /\ order[o].fills = {} /\ o \notin DOMAIN tracker
          /\ \A j \in DOMAIN stream : stream[j].coid # o
      BY <3>1 DEF WholeInv, UnbornUnknown
    <3>3. order'[o].fills = {} BY <3>2, <2>1, <1>1, <1>3
    <3> QED BY <2>1, <3>1, <3>2, <3>3, <1>1, <1>2, <1>3, <1>4
  <2>2. CASE i \in DOMAIN stream
    <3>1. stream'[i] = stream[i] /\ i < n BY <2>2, <1>3
    <3>2. /\ p \notin DOMAIN tracker
          /\ \A j \in DOMAIN stream : stream[j].coid = p => i <= j
          /\ order[p].fills \subseteq InStream(p)
      BY <2>2, <3>1 DEF WholeInv, InitializedFirst
    <3>3. \A j \in DOMAIN stream' : stream'[j].coid = p => i <= j
      BY <3>1, <3>2, <2>2, <1>3, <1>4
    <3>4. order'[p].fills \subseteq InStream(p)'
      <4>1. CASE p = o
        <5>1. InStream(p)' = InStream(p) \cup {nextId} BY <4>1, <1>3
        <5> QED BY <5>1, <3>2, <1>7
      <4>2. CASE p # o
        <5>1. InStream(p)' = InStream(p) BY <4>2, <1>3
        <5> QED BY <4>2, <5>1, <3>2
      <4> QED BY <4>1, <4>2
    <3> QED BY <3>2, <3>3, <3>4, <1>2
  <2> QED BY <2>1, <2>2, <1>3
<1>12. KnownTotalIsWhole'
  <2> SUFFICES ASSUME NEW p \in DOMAIN tracker, tracker[p].total # Unknown
               PROVE  tracker[p].fills = order'[p].fills \ InStream(p)'
    BY <1>2 DEF KnownTotalIsWhole
  <2>1. tracker[p].fills = order[p].fills \ InStream(p) /\ p \in Orders
    BY DEF WholeInv, KnownTotalIsWhole, TypeOK
  <2>2. CASE p = o
    <3>1. InStream(p)' = InStream(p) \cup {nextId} BY <2>2, <1>3
    <3> QED BY <2>1, <2>2, <3>1, <1>6
  <2>3. CASE p # o
    BY <2>1, <2>3, <1>3
  <2> QED BY <2>2, <2>3
<1> QED BY <1>8, <1>9, <1>10, <1>11, <1>12 DEF WholeInv

\* Releasing entries, sending and restarting keep the invariant: they drop
\* entries and, a restart, the whole unread stream.
LEMMA DroppingKeepsWhole ==
    ASSUME WholeInv, TypeOK', UNCHANGED venueVars,
           DOMAIN tracker' \subseteq DOMAIN tracker,
           \A p \in DOMAIN tracker' : tracker'[p] = tracker[p],
           stream' = stream \/ (stream' = <<>> /\ DOMAIN tracker' = {})
    PROVE  WholeInv'
<1>1. CASE stream' = stream
  <2>1. \A p : InStream(p)' = InStream(p) BY <1>1 DEF InStream
  <2> QED BY <1>1, <2>1 DEF WholeInv, StreamOrdered, FillsPublished, UnbornUnknown,
             InitializedFirst, KnownTotalIsWhole, venueVars
<1>2. CASE stream' = <<>> /\ DOMAIN tracker' = {}
  <2>1. DOMAIN stream' = {} BY <1>2
  <2> QED BY <1>2, <2>1 DEF WholeInv, StreamOrdered, FillsPublished, UnbornUnknown,
             InitializedFirst, KnownTotalIsWhole, venueVars
<1> QED BY <1>1, <1>2

\* What folding an event does to the entries.
LEMMA FoldedEntries ==
    ASSUME NEW T, TrackerType(T), NEW e \in Events, NEW r \in Rounding
    PROVE  /\ \A p \in DOMAIN T \ {e.coid} : Folded(T, e, r)[p] = T[p]
           /\ LET old == IF e.coid \in DOMAIN T THEN T[e.coid] ELSE NewEntry
                  new == Folded(T, e, r)[e.coid]
              IN  /\ new.total = IF e.type = "OrderInitialized" THEN e.qty ELSE old.total
                  /\ new.fills = IF e.type = "OrderFilled" THEN old.fills \cup {e.id}
                                 ELSE old.fills
<1> DEFINE old == IF e.coid \in DOMAIN T THEN T[e.coid] ELSE NewEntry
<1>1. old \in Entries BY DEF TrackerType, NewEntry, Entries
<1> HIDE DEF old
<1>2. CASE e.type = "OrderInitialized" BY <1>1, <1>2 DEF Folded, Entries, old
<1>3. CASE e.type = "OrderFilled" BY <1>1, <1>3 DEF Folded, Entries, old
<1>4. CASE e.type \notin {"OrderInitialized", "OrderFilled"}
  BY <1>1, <1>4 DEF Folded, Entries, old
<1>5. \A p \in DOMAIN T \ {e.coid} : Folded(T, e, r)[p] = T[p] BY DEF Folded
<1> QED BY <1>2, <1>3, <1>4, <1>5 DEF old

\* Reading an event keeps the invariant: its entry gains exactly what the stream
\* loses, and an entry learns its total only when nothing was missed before.
LEMMA ConsumeKeepsWhole ==
    ASSUME WholeInv, TrackerInv, TypeOK', Consume
    PROVE  WholeInv'
<1> DEFINE e == stream[1]
<1>1. PICK r \in Rounding : tracker' = Evicted(Folded(tracker, Head(stream), r))
  BY DEF Consume
<1> DEFINE F == Folded(tracker, e, r)
<1>2. /\ stream # <<>> /\ stream' = Tail(stream)
      /\ order' = order /\ nextId' = nextId
  BY DEF Consume, venueVars
<1>3. /\ 1 \in DOMAIN stream /\ Head(stream) = e
      /\ \A i \in DOMAIN stream' : i + 1 \in DOMAIN stream /\ i \in Nat
                                   /\ stream'[i] = stream[i + 1]
      /\ \A p : InStream(p)' = IF p = e.coid THEN InStream(p) \ {e.id} ELSE InStream(p)
  BY <1>2, ConsumedStream DEF WholeInv
<1>4. e \in Events /\ e.id \in Nat /\ e.coid \in Orders /\ e.qty \in Nat
  <2>1. e \in Events BY <1>3 DEF WholeInv, TypeOK
  <2> QED BY <2>1 DEF Events
<1>5. /\ TrackerType(tracker) /\ Cardinality(DOMAIN tracker) <= MaxOrders
      /\ MaxOrders \in Nat
  BY OrderFillsAssumption DEF TrackerInv, TypeOK, TrackerType, TrackerBounded
<1>6. TrackerType(F) /\ DOMAIN F = DOMAIN tracker \cup {e.coid}
  BY <1>4, <1>5, FoldedType
<1>7. DOMAIN tracker' \subseteq DOMAIN F /\ \A p \in DOMAIN tracker' : tracker'[p] = F[p]
  BY <1>1, <1>3 DEF Evicted
<1>8. DOMAIN tracker' \subseteq DOMAIN tracker \cup {e.coid}
  BY <1>6, <1>7
<1> DEFINE old == IF e.coid \in DOMAIN tracker THEN tracker[e.coid] ELSE NewEntry
<1>9. /\ \A p \in DOMAIN tracker \ {e.coid} : F[p] = tracker[p]
      /\ F[e.coid].total = IF e.type = "OrderInitialized" THEN e.qty ELSE old.total
      /\ F[e.coid].fills = IF e.type = "OrderFilled" THEN old.fills \cup {e.id}
                           ELSE old.fills
  BY <1>4, <1>5, FoldedEntries
<1> HIDE DEF F
<1>10. StreamOrdered'
  <2>1. \A i \in DOMAIN stream' : stream'[i].id < nextId'
    BY <1>2, <1>3 DEF WholeInv, StreamOrdered
  <2>2. ASSUME NEW i \in DOMAIN stream', NEW j \in DOMAIN stream', i < j
        PROVE  stream'[i].id < stream'[j].id
    <3>1. i + 1 < j + 1 BY <2>2, <1>3
    <3> QED BY <3>1, <1>3 DEF WholeInv, StreamOrdered
  <2> QED BY <2>1, <2>2, <1>2 DEF WholeInv, StreamOrdered
<1>11. FillsPublished' BY <1>2, <1>3 DEF WholeInv, FillsPublished
<1>12. UnbornUnknown'
  BY <1>2, <1>3, <1>4, <1>8 DEF WholeInv, UnbornUnknown
<1>13. InitializedFirst'
  <2> SUFFICES ASSUME NEW i \in DOMAIN stream', NEW p \in Orders,
                      stream'[i].type = "OrderInitialized", stream'[i].coid = p
               PROVE  /\ p \notin DOMAIN tracker'
                      /\ \A j \in DOMAIN stream' : stream'[j].coid = p => i <= j
                      /\ order'[p].fills \subseteq InStream(p)'
    BY DEF InitializedFirst
  <2>1. /\ i + 1 \in DOMAIN stream /\ i \in Nat /\ i + 1 > 1
        /\ stream[i + 1].type = "OrderInitialized" /\ stream[i + 1].coid = p
    BY <1>3 DEF WholeInv, TypeOK
  <2>2. /\ p \notin DOMAIN tracker
        /\ \A j \in DOMAIN stream : stream[j].coid = p => i + 1 <= j
        /\ order[p].fills \subseteq InStream(p)
    BY <2>1 DEF WholeInv, InitializedFirst
  <2>3. e.coid # p BY <2>1, <2>2, <1>3
  <2>4. \A j \in DOMAIN stream' : stream'[j].coid = p => i <= j
    BY <2>1, <2>2, <1>3
  <2>5. InStream(p)' = InStream(p) BY <2>3, <1>3
  <2> QED BY <2>2, <2>3, <2>4, <2>5, <1>2, <1>8
<1>14. KnownTotalIsWhole'
  <2> SUFFICES ASSUME NEW p \in DOMAIN tracker', F[p].total # Unknown
               PROVE  F[p].fills = order[p].fills \ InStream(p)'
    BY <1>2, <1>7 DEF KnownTotalIsWhole
  <2>1. CASE p # e.coid
    <3>1. p \in DOMAIN tracker /\ F[p] = tracker[p] BY <2>1, <1>8, <1>9
    <3>2. tracker[p].fills = order[p].fills \ InStream(p)
      BY <3>1 DEF WholeInv, KnownTotalIsWhole
    <3>3. InStream(p)' = InStream(p) BY <2>1, <1>3
    <3> QED BY <3>1, <3>2, <3>3
  <2>2. CASE p = e.coid /\ e.type = "OrderInitialized"
    <3>1. p \notin DOMAIN tracker /\ order[p].fills \subseteq InStream(p)
      BY <2>2, <1>3, <1>4 DEF WholeInv, InitializedFirst
    <3>2. F[p].fills = {} BY <3>1, <2>2, <1>9 DEF NewEntry
    <3>3. e.id \notin order[p].fills
      BY <2>2, <1>3 DEF WholeInv, FillsPublished
    <3>4. InStream(p)' = InStream(p) \ {e.id} BY <2>2, <1>3
    <3> QED BY <3>1, <3>2, <3>3, <3>4
  <2>3. CASE p = e.coid /\ e.type # "OrderInitialized"
    <3>1. F[p].total = old.total BY <2>3, <1>9
    <3>2. e.coid \in DOMAIN tracker /\ tracker[e.coid].total # Unknown
      BY <3>1, <2>3 DEF NewEntry
    <3>3. old = tracker[p] /\ tracker[p].fills = order[p].fills \ InStream(p)
      BY <3>2, <2>3 DEF WholeInv, KnownTotalIsWhole
    <3>4. InStream(p)' = InStream(p) \ {e.id} BY <2>3, <1>3
    <3>5. e.type = "OrderFilled" <=> e.id \in order[p].fills
      BY <2>3, <1>3 DEF WholeInv, FillsPublished
    <3>6. F[p].fills = IF e.type = "OrderFilled" THEN tracker[p].fills \cup {e.id}
                       ELSE tracker[p].fills
      BY <2>3, <3>3, <1>9
    <3> QED BY <3>3, <3>4, <3>5, <3>6
  <2> QED BY <2>1, <2>2, <2>3
<1> QED BY <1>10, <1>11, <1>12, <1>13, <1>14 DEF WholeInv

LEMMA WholeInvStep ==
    ASSUME WholeInv, TrackerInv, [Next]_vars
    PROVE  WholeInv'
<1>0. TypeOK' BY TrackerInvStep DEF TrackerInv
<1>1. ASSUME NEW o \in Orders, NEW n \in Quantities, Initialize(o, n)
      PROVE  WholeInv'
  <2>1. /\ n \in Nat /\ Publish(o, "OrderInitialized", n)
        /\ "OrderInitialized" \in EventTypes
    BY <1>1, OrderFillsAssumption DEF Initialize, EventTypes, Transient
  <2>2. /\ \A p \in Orders \ {o} : order'[p] = order[p]
        /\ order'[o].fills = order[o].fills /\ order'[o].status # "none"
        /\ order[o].status = "none"
    BY <1>1 DEF Initialize, WholeInv, TypeOK
  <2> QED BY <1>0, <2>1, <2>2, PublishKeepsWhole
<1>2. ASSUME NEW o \in Orders, NEW n \in Quantities, Fill(o, n)
      PROVE  WholeInv'
  <2>1. /\ n \in Nat /\ Publish(o, "OrderFilled", n) /\ "OrderFilled" \in EventTypes
    BY <1>2, OrderFillsAssumption DEF Fill, EventTypes
  <2>2. /\ \A p \in Orders \ {o} : order'[p] = order[p]
        /\ order'[o].fills = order[o].fills \cup {nextId} /\ order'[o].status # "none"
    BY <1>2 DEF Fill, WholeInv, TypeOK
  <2> QED BY <1>0, <2>1, <2>2, PublishKeepsWhole
<1>3. ASSUME NEW o \in Orders, NEW n \in Quantities, Amend(o, n)
      PROVE  WholeInv'
  <2>1. /\ n \in Nat /\ Publish(o, "OrderUpdated", n) /\ "OrderUpdated" \in EventTypes
    BY <1>3, OrderFillsAssumption DEF Amend, EventTypes
  <2>2. /\ \A p \in Orders \ {o} : order'[p] = order[p]
        /\ order'[o].fills = order[o].fills /\ order'[o].status # "none"
    BY <1>3 DEF Amend, WholeInv, TypeOK
  <2> QED BY <1>0, <2>1, <2>2, PublishKeepsWhole
<1>4. ASSUME NEW o \in Orders, Accept(o)
      PROVE  WholeInv'
  <2>1. Publish(o, "OrderAccepted", 0) /\ "OrderAccepted" \in EventTypes
    BY <1>4 DEF Accept, EventTypes, Transient
  <2>2. order' = order /\ order[o].status # "none" BY <1>4 DEF Accept
  <2> QED BY <1>0, <2>1, <2>2, PublishKeepsWhole
<1>5. ASSUME NEW o \in Orders, NEW type \in Ends, End(o, type)
      PROVE  WholeInv'
  <2>1. /\ Publish(o, type, 0) /\ type \in EventTypes
        /\ type # "none" /\ type # "OrderFilled" /\ type # "OrderInitialized"
    BY <1>5, OrderFillsAssumption DEF End, EventTypes, EndEvents, Refusals
  <2>2. /\ \A p \in Orders \ {o} : order'[p] = order[p]
        /\ order'[o].fills = order[o].fills /\ order'[o].status # "none"
    BY <1>5, <2>1 DEF End, WholeInv, TypeOK
  <2> QED BY <1>0, <2>1, <2>2, PublishKeepsWhole
<1>6. CASE Consume BY <1>0, <1>6, ConsumeKeepsWhole
<1>7. ASSUME NEW i \in DOMAIN outbox, StartSend(i) \/ FetchFails(i)
      PROVE  WholeInv'
  BY <1>0, <1>7, DroppingKeepsWhole DEF StartSend, FetchFails
<1>8. ASSUME NEW x \in sending, Delivered(x)
      PROVE  WholeInv'
  BY <1>0, <1>8, ForgottenDrops, DroppingKeepsWhole DEF Delivered
<1>9. ASSUME NEW x \in sending, NEW logged \in BOOLEAN, SendFails(x, logged)
      PROVE  WholeInv'
  BY <1>0, <1>9, ForgottenDrops, DroppingKeepsWhole DEF SendFails
<1>10. CASE Restart
  BY <1>0, <1>10, DroppingKeepsWhole DEF Restart, EmptyTracker
<1>11. CASE UNCHANGED vars
  BY <1>0, <1>11, DroppingKeepsWhole DEF vars, venueVars
<1> QED BY <1>1, <1>2, <1>3, <1>4, <1>5, <1>6, <1>7, <1>8, <1>9, <1>10, <1>11 DEF Next

\* An entry that knows its order's total has counted every fill of the order the
\* stream has delivered: evictions and restarts cannot make a message claim "X /
\* total" for a part of X.
THEOREM ShownTotalIsWhole == Spec => []KnownTotalIsWhole
<1>1. Init => TrackerInv /\ WholeInv BY TrackerInvInit, WholeInit
<1>2. TrackerInv /\ WholeInv /\ [Next]_vars => TrackerInv' /\ WholeInv'
  BY TrackerInvStep, WholeInvStep
<1>3. WholeInv => KnownTotalIsWhole BY DEF WholeInv
<1> QED BY <1>1, <1>2, <1>3, PTL DEF Spec
=============================================================================
