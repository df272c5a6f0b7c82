----------------------------- MODULE OrderFills -----------------------------
(***************************************************************************)
(* How the fills of an order become one message (OrderProgressTracker in   *)
(* notifier/handlers.py; _forward_stream_entry, should_forward_fill and    *)
(* DiscordForwarder._send in notifier/runner.py).                          *)
(*                                                                         *)
(* No event of a pod carries everything, so the notifier folds the events  *)
(* of an order into a tracker entry, suppresses the fills that do not      *)
(* complete it and renders the entry when the completing one is sent.  It  *)
(* observes an event when the stream loop reads it, but renders and        *)
(* releases the entry in a task of its own, later.                         *)
(*                                                                         *)
(* Quantities of events are whole lots; the tracker adds them as floats,   *)
(* here in ticks of which a lot has Unit.                                  *)
(***************************************************************************)
EXTENDS Integers, Sequences, FiniteSets, SequencesExt

CONSTANTS
    Orders,         \* client order ids
    Quantities,     \* lots an order may be for
    Ends,           \* events that may end an order before it is filled
    MayAmend,       \* whether an order's quantity may be amended
    Unit,           \* ticks in a lot
    Tolerance,      \* the 1e-9 of is_complete, in ticks
    Rounding,       \* errors one float addition may make, in ticks
    MaxOrders,      \* the tracker's LRU cap
    RateLimit,      \* messages in flight to the channel
    ChannelCached,  \* get_channel finds the channel, nothing is fetched
    SendMayFail,    \* whether Discord may refuse a message
    MaxEvents,      \* bound on the events the pod publishes
    MaxRestarts,    \* bound on the restarts of the notifier
    Unknown         \* a total the tracker has not seen, a quantity not shown

\* What ends an order that never works at the venue, and what ends any other early.
Refusals == {"OrderRejected", "OrderDenied"}
EndEvents == {"OrderCanceled", "OrderExpired"} \cup Refusals

ASSUME OrderFillsAssumption ==
    /\ IsFiniteSet(Orders) /\ Quantities \subseteq Nat \ {0}
    /\ Ends \subseteq EndEvents /\ MayAmend \in BOOLEAN
    /\ Unit \in Nat \ {0} /\ Tolerance \in Nat /\ Rounding \subseteq Int
    /\ MaxOrders \in Nat \ {0} /\ RateLimit \in Nat \ {0}
    /\ ChannelCached \in BOOLEAN /\ SendMayFail \in BOOLEAN
    /\ MaxEvents \in Nat /\ MaxRestarts \in Nat
    /\ Unknown \notin Nat

VARIABLES
    order,      \* the venue's side: status, lots asked for, lots and events filled
    stream,     \* the pod's event stream beyond the notifier's cursor
    nextId,     \* events published so far
    tracker,    \* OrderProgressTracker._orders
    outbox,     \* sends scheduled on the loop, not yet rendered
    sending,    \* embeds being sent
    posted,     \* embeds in the channel
    seen,       \* fills this notifier process has observed
    restarts    \* restarts so far

venueVars == <<order, nextId>>
vars == <<order, stream, nextId, tracker, outbox, sending, posted, seen, restarts>>

-----------------------------------------------------------------------------
Statuses == {"none", "open", "OrderFilled"} \cup EndEvents
Transient == {"OrderInitialized", "OrderAccepted"}
EventTypes == Transient \cup {"OrderFilled", "OrderUpdated"} \cup EndEvents

\* sum records, for the proofs, the lots of its order that were filled with the
\* event; no event carries it, and the notifier does not read it.
Events == [id : Nat, type : EventTypes, coid : Orders, qty : Nat, sum : Nat]
\* last stands for the entry's place in the OrderedDict: the event that touched
\* it most recently.
Entries == [total : Nat \cup {Unknown}, filled : Int, fills : SUBSET Nat, last : Nat]
\* total is what the embed shows as "X / total", fills the fills it stands for.
Embeds == [id : Nat, type : EventTypes, coid : Orders,
           total : Nat \cup {Unknown}, fills : SUBSET Nat]

-----------------------------------------------------------------------------
(* The tracker.                                                            *)

NewEntry == [total |-> Unknown, filled |-> 0, fills |-> {}, last |-> 0]
EmptyTracker == [o \in {} |-> NewEntry]

\* Mutants of Complete: no fill is held back; floats are compared without tolerance.
CompleteAlways(p) == TRUE
CompleteExact(p) == p.total = Unknown \/ p.filled >= p.total * Unit

\* OrderProgress.is_complete: an unknown total counts as complete.
Complete(p) == p.total = Unknown \/ p.filled >= p.total * Unit - Tolerance
\* Mutant of NothingRemains: more than the total has to be filled.
NothingRemainsStrict(p) == p.total # Unknown /\ p.filled > p.total * Unit

\* forget_if_terminal's stricter test: the remainder is known and not positive.
NothingRemains(p) == p.total # Unknown /\ p.filled >= p.total * Unit

\* Mutant of Folded: an amendment's quantity is taken for the total.
FoldedAmendment(T, e, r) ==
    LET p == IF e.coid \in DOMAIN T THEN T[e.coid] ELSE NewEntry
        q == CASE e.type \in {"OrderInitialized", "OrderUpdated"} ->
                    [p EXCEPT !.total = e.qty]
               [] e.type = "OrderFilled" ->
                    [p EXCEPT !.filled = @ + e.qty * Unit, !.fills = @ \cup {e.id}]
               [] OTHER -> p
    IN  [o \in DOMAIN T \cup {e.coid} |->
            IF o = e.coid THEN [q EXCEPT !.last = e.id] ELSE T[o]]

\* observe up to the eviction; r is the error of the addition (0.0 + x is exact).
Folded(T, e, r) ==
    LET p == IF e.coid \in DOMAIN T THEN T[e.coid] ELSE NewEntry
        q == CASE e.type = "OrderInitialized" -> [p EXCEPT !.total = e.qty]
               [] e.type = "OrderFilled" ->
                    [p EXCEPT !.filled = @ + e.qty * Unit + (IF @ = 0 THEN 0 ELSE r),
                              !.fills = @ \cup {e.id}]
               [] OTHER -> p
    IN  [o \in DOMAIN T \cup {e.coid} |->
            IF o = e.coid THEN [q EXCEPT !.last = e.id] ELSE T[o]]

\* Mutants of Evicted: the cap is taken one too low or one too high.
EvictedEarly(T) ==
    LET kept == {o \in DOMAIN T : \E p \in DOMAIN T : T[p].last < T[o].last}
    IN  IF Cardinality(DOMAIN T) >= MaxOrders THEN [o \in kept |-> T[o]] ELSE T
EvictedLate(T) ==
    LET kept == {o \in DOMAIN T : \E p \in DOMAIN T : T[p].last < T[o].last}
    IN  IF Cardinality(DOMAIN T) > MaxOrders + 1 THEN [o \in kept |-> T[o]] ELSE T

\* popitem(last=False) while the tracker is over its cap.
Evicted(T) ==
    LET kept == {o \in DOMAIN T : \E p \in DOMAIN T : T[p].last < T[o].last}
    IN  IF Cardinality(DOMAIN T) > MaxOrders THEN [o \in kept |-> T[o]] ELSE T

\* Mutant of Forgotten: the slot is cleared, not popped.
ForgottenInPlace(T, o, type) ==
    [p \in DOMAIN T |-> IF p = o /\ type \in EndEvents THEN Unknown ELSE T[p]]

\* forget_if_terminal.
Forgotten(T, o, type) ==
    LET done == {p \in DOMAIN T : /\ p = o
                                  /\ \/ type \in EndEvents
                                     \/ type = "OrderFilled" /\ NothingRemains(T[p])}
    IN  [p \in DOMAIN T \ done |-> T[p]]

\* The gates an order event passes after it was observed.
Forwarded(T, e) ==
    /\ e.type \notin Transient
    /\ e.type = "OrderFilled" => Complete(T[e.coid])

\* render_embed: fills and cancels show the entry's progress if its total is known.
\* The average price they show, the total known or not, is left out.
Embed(T, e) ==
    LET known == /\ e.coid \in DOMAIN T /\ T[e.coid].total # Unknown
                 /\ e.type \in {"OrderFilled", "OrderCanceled"}
    IN  [id |-> e.id, type |-> e.type, coid |-> e.coid,
         total |-> IF known THEN T[e.coid].total ELSE Unknown,
         fills |-> IF known THEN T[e.coid].fills
                   ELSE IF e.type = "OrderFilled" THEN {e.id} ELSE {}]

-----------------------------------------------------------------------------
Init ==
    /\ order = [o \in Orders |-> [status |-> "none", total |-> 0, filled |-> 0,
                                  fills |-> {}]]
    /\ stream = <<>> /\ nextId = 0
    /\ tracker = EmptyTracker
    /\ outbox = <<>> /\ sending = {} /\ posted = {}
    /\ seen = {} /\ restarts = 0

(* The pod: what NautilusTrader publishes for a lawful order.              *)
Publish(o, type, qty) ==
    /\ nextId < MaxEvents
    /\ stream' = Append(stream, [id |-> nextId, type |-> type, coid |-> o, qty |-> qty,
                                 sum |-> order'[o].filled])
    /\ nextId' = nextId + 1
    /\ UNCHANGED <<tracker, outbox, sending, posted, seen, restarts>>

Initialize(o, total) ==
    /\ order[o].status = "none"
    /\ order' = [order EXCEPT ![o].status = "open", ![o].total = total]
    /\ Publish(o, "OrderInitialized", total)

Accept(o) ==
    /\ order[o].status = "open"
    /\ UNCHANGED order
    /\ Publish(o, "OrderAccepted", 0)

Fill(o, last) ==
    /\ order[o].status = "open"
    /\ order[o].filled + last <= order[o].total
    /\ order' = [order EXCEPT
          ![o].filled = @ + last, ![o].fills = @ \cup {nextId},
          ![o].status = IF order[o].filled + last = order[o].total
                        THEN "OrderFilled" ELSE "open"]
    /\ Publish(o, "OrderFilled", last)

Amend(o, total) ==
    /\ MayAmend
    /\ order[o].status = "open" /\ total > order[o].filled /\ total # order[o].total
    /\ order' = [order EXCEPT ![o].total = total]
    /\ Publish(o, "OrderUpdated", total)

End(o, type) ==
    /\ order[o].status = "open"
    /\ type \in Refusals => order[o].filled = 0
    /\ order' = [order EXCEPT ![o].status = type]
    /\ Publish(o, type, 0)

(* The notifier.                                                           *)

\* One entry of an XREAD response, up to the scheduling of its send.
Consume ==
    /\ stream # <<>>
    /\ LET e == Head(stream)
       IN  /\ \E r \in Rounding : tracker' = Evicted(Folded(tracker, e, r))
           /\ outbox' = IF Forwarded(tracker', e) THEN Append(outbox, e) ELSE outbox
           /\ seen' = IF e.type = "OrderFilled" THEN seen \cup {e.id} ELSE seen
    /\ stream' = Tail(stream)
    /\ UNCHANGED <<venueVars, sending, posted, restarts>>

\* Mutant of StartSend: the semaphore has one permit too few.
StartSendStarved(i) ==
    /\ i \in DOMAIN outbox
    /\ ChannelCached => i = 1
    /\ Cardinality(sending) + 1 < RateLimit
    /\ sending' = sending \cup {Embed(tracker, outbox[i])}
    /\ outbox' = RemoveAt(outbox, i)
    /\ UNCHANGED <<venueVars, stream, tracker, posted, seen, restarts>>

\* A send gets a permit of the channel's semaphore, in order unless it had to
\* fetch the channel first, and renders its embed.
StartSend(i) ==
    /\ i \in DOMAIN outbox
    /\ ChannelCached => i = 1
    /\ Cardinality(sending) < RateLimit
    /\ sending' = sending \cup {Embed(tracker, outbox[i])}
    /\ outbox' = RemoveAt(outbox, i)
    /\ UNCHANGED <<venueVars, stream, tracker, posted, seen, restarts>>

\* fetch_channel fails: _send returns and releases nothing.
FetchFails(i) ==
    /\ ~ChannelCached
    /\ i \in DOMAIN outbox
    /\ outbox' = RemoveAt(outbox, i)
    /\ UNCHANGED <<venueVars, stream, tracker, sending, posted, seen, restarts>>

Delivered(x) ==
    /\ x \in sending
    /\ sending' = sending \ {x}
    /\ posted' = posted \cup {x}
    /\ tracker' = Forgotten(tracker, x.coid, x.type)
    /\ UNCHANGED <<venueVars, stream, outbox, seen, restarts>>

\* An HTTPException is logged and the entry released; any other exception ends
\* the task before that.
SendFails(x, logged) ==
    /\ SendMayFail
    /\ x \in sending
    /\ sending' = sending \ {x}
    /\ tracker' = IF logged THEN Forgotten(tracker, x.coid, x.type) ELSE tracker
    /\ UNCHANGED <<venueVars, stream, outbox, posted, seen, restarts>>

\* Mutant of Restart: the tracker is restored, the stream still read from its tail.
RestartKeepingTracker ==
    /\ restarts < MaxRestarts
    /\ restarts' = restarts + 1
    /\ \E arrived \in SUBSET sending : posted' = posted \cup arrived
    /\ stream' = <<>> /\ outbox' = <<>> /\ sending' = {} /\ seen' = {}
    /\ UNCHANGED <<venueVars, tracker>>

\* The notifier restarts: a new forwarder has an empty tracker, the streams are
\* watched from their tail (Intake); of the messages in flight some were delivered.
Restart ==
    /\ restarts < MaxRestarts
    /\ restarts' = restarts + 1
    /\ \E arrived \in SUBSET sending : posted' = posted \cup arrived
    /\ tracker' = EmptyTracker
    /\ stream' = <<>> /\ outbox' = <<>> /\ sending' = {} /\ seen' = {}
    /\ UNCHANGED venueVars

Next ==
    \/ \E o \in Orders, n \in Quantities : Initialize(o, n) \/ Fill(o, n) \/ Amend(o, n)
    \/ \E o \in Orders : Accept(o)
    \/ \E o \in Orders, type \in Ends : End(o, type)
    \/ Consume
    \/ \E i \in DOMAIN outbox : StartSend(i) \/ FetchFails(i)
    \/ \E x \in sending : Delivered(x) \/ \E logged \in BOOLEAN : SendFails(x, logged)
    \/ Restart

Fairness ==
    /\ WF_vars(Consume)
    /\ WF_vars(\E i \in DOMAIN outbox : StartSend(i))
    /\ WF_vars(\E x \in sending : Delivered(x))

Spec == Init /\ [][Next]_vars
FairSpec == Spec /\ Fairness

-----------------------------------------------------------------------------
TypeOK ==
    /\ order \in [Orders -> [status : Statuses, total : Nat, filled : Nat,
                             fills : SUBSET Nat]]
    /\ stream \in Seq(Events) /\ outbox \in Seq(Events)
    /\ nextId \in Nat
    /\ DOMAIN tracker \subseteq Orders
    /\ \A o \in DOMAIN tracker : tracker[o] \in Entries
    /\ sending \subseteq Embeds /\ posted \subseteq Embeds
    /\ seen \subseteq Nat
    /\ restarts \in Nat

InStream(o) == {stream[i].id : i \in {j \in DOMAIN stream : stream[j].coid = o}}
About(q, o) == {q[i] : i \in {j \in DOMAIN q : q[j].coid = o}}
OfOrder(embeds, o) == {x \in embeds : x.coid = o}
Shown(embeds, o) == UNION {x.fills : x \in OfOrder(embeds, o)}

\* Everything the pod said of an order has been handled.
Settled(o) == /\ order[o].status \notin {"none", "open"}
              /\ InStream(o) = {} /\ About(outbox, o) = {} /\ OfOrder(sending, o) = {}

\* The bound on an entry is a count: the tracker never holds more orders than
\* its cap, whatever it failed to release.
TrackerBounded == Cardinality(DOMAIN tracker) <= MaxOrders

\* An entry that knows its order's total has counted every fill of that order
\* the stream has delivered, so "X / total" is never shown for a part of X:
\* entries rebuilt after an eviction or a restart do not know the total.
KnownTotalIsWhole ==
    \A o \in DOMAIN tracker : tracker[o].total # Unknown =>
        tracker[o].fills = order[o].fills \ InStream(o)

\* A fill the gate suppressed is not forgotten: until a message that shows it
\* is posted, in flight or about to be rendered, the order's entry holds it.
SuppressedFillsKept ==
    \A o \in Orders : \A f \in order[o].fills \cap seen :
        \/ f \in Shown(posted \cup sending, o)
        \/ \E e \in About(outbox, o) : e.id = f
        \/ o \in DOMAIN tracker /\ tracker[o].total # Unknown /\ f \in tracker[o].fills

\* When an order is done and nothing of it is under way, the posted messages
\* show every fill this process has observed.
SettledOrdersShown ==
    \A o \in Orders : Settled(o) => order[o].fills \cap seen \subseteq Shown(posted, o)

\* One line per order: at most one message sums up the fills of an order.
OneSummaryPerOrder ==
    \A x, y \in posted \cup sending :
        /\ x.coid = y.coid
        /\ x.type = "OrderFilled" /\ x.total # Unknown
        /\ y.type = "OrderFilled" /\ y.total # Unknown
        => x = y

\* A done order occupies no slot of the tracker unless its total was lost, or its
\* floats sum up to less than the total: is_complete allows for that when the
\* summary is sent, forget_if_terminal does not when the slot is due.
SlotsReleased ==
    \A o \in DOMAIN tracker : Settled(o) /\ tracker[o].total # Unknown =>
        /\ order[o].status = "OrderFilled"
        /\ tracker[o].filled < tracker[o].total * Unit

\* What the pod said of an ended order is eventually handled, however many
\* messages wait for a permit; SettledOrdersShown then says what was posted.
OrdersSettle ==
    \A o \in Orders : order[o].status \notin {"none", "open"} ~> Settled(o)
=============================================================================
