------------------------------- MODULE Intake -------------------------------
(***************************************************************************)
(* How the notifier learns of pods and of their events                     *)
(* (notifier/runner.py): the registry that _autodiscover_loop keeps from   *)
(* the announce stream and a fallback scan, the cursors and the discovery  *)
(* of _event_stream_loop, and the channel an event is routed to.           *)
(*                                                                         *)
(* Both loops are tasks of one asyncio loop; what they hand to to_thread   *)
(* runs beside it.  Only the scan's thread writes shared state (the        *)
(* registry).  Forwarding an XREAD response is one callback: between its   *)
(* first and its last entry no step of the other task happens.             *)
(*                                                                         *)
(* The entries of a pod's stream are numbered 1, 2, ..., announces too; an *)
(* id stands for the time-ordered id Redis gives.                          *)
(***************************************************************************)
EXTENDS Naturals, Sequences, FiniteSets, SequencesExt, FiniteSetsExt, Channels

CONSTANTS
    Sids,           \* pods, by control handle
    HandlesOf,       \* handle -> handles its NT StrategyId ends in, longest first
    Boots,          \* announces a pod may make: [sid, mode, proto]
    Commanded,      \* pods that operators send commands to
    Expected,       \* the notifier's own protocol version
    Kinds,          \* pod -> kinds of entries it publishes
    MaxBoots,       \* bound on the announces
    MaxEvents,      \* bound on the entries of all pods together
    MaxFaults       \* bound on restarts, Redis failures and Redis flushes

AllKinds == {"trade", "system", "noise"}
Modes == {"sandbox", "live"}

ASSUME IntakeAssumption ==
    /\ IsFiniteSet(Sids)
    /\ HandlesOf \in [Sids -> Seq(Sids)]
    /\ \A s \in Sids : HandlesOf[s] # <<>> /\ Head(HandlesOf[s]) = s
    /\ Commanded \subseteq Sids /\ Kinds \in [Sids -> SUBSET AllKinds]
    /\ \A b \in Boots : b.sid \in Sids /\ b.mode \in Modes
    /\ MaxBoots \in Nat /\ MaxEvents \in Nat /\ MaxFaults \in Nat

VARIABLES
    announces,  \* every announce made so far
    trimmed,    \* announces up to here are no longer in Redis
    controls,   \* handles that have a control stream
    events,     \* pod -> kinds of the entries it published
    lost,       \* pod -> entries up to here are no longer in Redis
    registry,   \* handle -> mode
    heard,      \* announces this process has applied to its registry
    cursorA,    \* the announce cursor
    booted,     \* the announce cursor this process started from
    apc,        \* where _autodiscover_loop is
    batchA,     \* announces its XREAD returned
    scan,       \* control streams its scan has yet to add
    warned,     \* handshakes that were warned about
    warnings,   \* handshake -> warnings enqueued
    epc,        \* where _event_stream_loop is
    due,        \* a discovery is owed: none has completed since its interval ended
    found,      \* discovered streams whose tail is not read yet
    cursors,    \* watched stream -> cursor
    start,      \* watched stream -> its first cursor
    response,   \* what is left of the XREAD response to forward, stream by stream
    out,        \* pod -> [id, chan]: entries enqueued, in order
    raised,     \* entries whose forwarding raised
    faults      \* faults so far

redisVars == <<announces, trimmed, controls, events, lost>>
autoVars == <<heard, cursorA, booted, apc, batchA, scan, warned, warnings>>
streamVars == <<epc, due, found, cursors, start, response, out, raised>>
vars == <<redisVars, registry, autoVars, streamVars, faults>>

-----------------------------------------------------------------------------
Entries == [sid : Sids, id : Nat]
\* What an XREAD returns of one stream: its entries from next to last.
Batches == [sid : Sids, next : Nat, last : Nat]
\* What a drift warning is about; nt_version, compared by the same rule, is left out.
Handshake(b) == [sid |-> b.sid, proto |-> b.proto]
NoEntries == [s \in {} |-> 0]

\* What Redis holds.
StoredAnnounces == trimmed + 1 .. Len(announces)
HasStream(s) == Len(events[s]) > lost[s]
Oldest(s, c) == IF c < lost[s] THEN lost[s] + 1 ELSE c + 1
Unread(s, c) == Oldest(s, c) .. Len(events[s])

\* The newest announce of a strategy among a set of them.
Newest(A, s) == LET own == {i \in A : announces[i].sid = s}
                IN  IF own = {} THEN 0 ELSE CHOOSE i \in own : \A j \in own : j <= i

\* The registry after the announces A: newer entries win.
Replayed(reg, A) ==
    [s \in DOMAIN reg \cup {announces[i].sid : i \in A} |->
        IF Newest(A, s) = 0 THEN reg[s] ELSE announces[Newest(A, s)].mode]

\* Mutant of WithScanned: the scan overwrites a mode that was announced.
WithScannedOverwritten(reg, S) ==
    [s \in DOMAIN reg \cup S |-> IF s \in S THEN "sandbox" ELSE reg[s]]
\* registry.setdefault(sid, "sandbox") for the handles S.
WithScanned(reg, S) ==
    [s \in DOMAIN reg \cup S |-> IF s \in DOMAIN reg THEN reg[s] ELSE "sandbox"]

\* The handles a strategy id ends in that are registered, as places in HandlesOf.
Known(reg, s) == {i \in DOMAIN HandlesOf[s] : HandlesOf[s][i] \in DOMAIN reg}
\* Mutant of Resolve: the shortest matching handle wins.
ResolveShortest(reg, s) ==
    IF Known(reg, s) = {} THEN s ELSE HandlesOf[s][Max(Known(reg, s))]
\* _resolve_handle: the longest known handle the event's strategy id ends in.
Resolve(reg, s) ==
    IF Known(reg, s) = {} THEN s ELSE HandlesOf[s][Min(Known(reg, s))]

\* route_event and route_channel: entries without a strategy go to logging.
Route(reg, s, kind) ==
    IF kind = "trade" THEN EffectiveMode(reg, Resolve(reg, s)) ELSE "logging"

\* detect_protocol_drift.
Drifted(A) == {Handshake(announces[i]) : i \in {j \in A : announces[j].proto # Expected}}

-----------------------------------------------------------------------------
Init ==
    /\ announces = <<>> /\ trimmed = 0 /\ controls = {}
    /\ events = [s \in Sids |-> <<>>] /\ lost = [s \in Sids |-> 0]
    /\ registry = NoEntries
    /\ heard = {} /\ cursorA = 0 /\ booted = 0
    /\ apc = "reading" /\ batchA = {} /\ scan = {}
    /\ warned = {} /\ warnings = [h \in {Handshake(b) : b \in Boots} |-> 0]
    /\ epc = "top" /\ due = TRUE /\ found = {}
    /\ cursors = NoEntries /\ start = NoEntries
    /\ response = <<>> /\ out = [s \in Sids |-> <<>>] /\ raised = {}
    /\ faults = 0

(* Pods and operators.                                                     *)

\* publish_announce, before the pod's node is built.
Announce(b) ==
    /\ Len(announces) < MaxBoots
    /\ announces' = Append(announces, b)
    /\ UNCHANGED <<trimmed, controls, events, lost, registry, autoVars, streamVars, faults>>

\* A pod appends to its event stream, whether or not its announce succeeded.
Publish(s, kind) ==
    /\ FoldSet(LAMBDA p, n : Len(events[p]) + n, 0, Sids) < MaxEvents
    /\ events' = [events EXCEPT ![s] = Append(@, kind)]
    /\ UNCHANGED <<announces, trimmed, controls, lost, registry, autoVars, streamVars, faults>>

\* A command is published: XADD creates the control stream.
Command(s) ==
    /\ s \notin controls
    /\ controls' = controls \cup {s}
    /\ UNCHANGED <<announces, trimmed, events, lost, registry, autoVars, streamVars, faults>>

-----------------------------------------------------------------------------
(* _autodiscover_loop.                                                     *)

\* The thread's XREAD of the announces returns, with or without entries.
AnnouncesRead ==
    /\ apc = "reading"
    /\ batchA' = {i \in StoredAnnounces : i > cursorA}
    /\ apc' = "applying"
    /\ UNCHANGED <<redisVars, registry, heard, cursorA, booted, scan, warned, warnings,
                   streamVars, faults>>

\* Mutants of AnnouncesApplied: the cursor jumps to the stream's end as "$" would;
\* a handshake is warned about each time it is seen.
AnnouncesAppliedToEnd ==
    /\ apc = "applying" /\ epc # "forwarding"
    /\ registry' = Replayed(registry, batchA)
    /\ heard' = heard \cup batchA
    /\ cursorA' = Len(announces)
    /\ warned' = warned \cup Drifted(batchA)
    /\ warnings' = [h \in DOMAIN warnings |->
          IF h \in Drifted(batchA) \ warned THEN warnings[h] + 1 ELSE warnings[h]]
    /\ batchA' = {} /\ apc' \in {"reading", "scanning"}
    /\ UNCHANGED <<redisVars, booted, scan, streamVars, faults>>
AnnouncesAppliedAlwaysWarning ==
    /\ apc = "applying" /\ epc # "forwarding"
    /\ registry' = Replayed(registry, batchA)
    /\ heard' = heard \cup batchA
    /\ cursorA' = IF batchA = {} THEN cursorA ELSE Max(batchA)
    /\ warnings' = [h \in DOMAIN warnings |->
          IF h \in Drifted(batchA) THEN warnings[h] + 1 ELSE warnings[h]]
    /\ batchA' = {} /\ apc' \in {"reading", "scanning"}
    /\ UNCHANGED <<redisVars, booted, scan, warned, streamVars, faults>>

\* The loop applies them, warns once per drifted handshake, and hands the
\* fallback scan to a thread when its interval is over.
AnnouncesApplied ==
    /\ apc = "applying" /\ epc # "forwarding"
    /\ registry' = Replayed(registry, batchA)
    /\ heard' = heard \cup batchA
    /\ cursorA' = IF batchA = {} THEN cursorA ELSE Max(batchA)
    /\ warned' = warned \cup Drifted(batchA)
    /\ warnings' = [h \in DOMAIN warnings |->
          IF h \in Drifted(batchA) \ warned THEN warnings[h] + 1 ELSE warnings[h]]
    /\ batchA' = {} /\ apc' \in {"reading", "scanning"}
    /\ UNCHANGED <<redisVars, booted, scan, streamVars, faults>>

\* The scan's thread lists the control streams,
ScanLists ==
    /\ apc = "scanning"
    /\ scan' = controls
    /\ apc' = "adding"
    /\ UNCHANGED <<redisVars, registry, heard, cursorA, booted, batchA, warned, warnings,
                   streamVars, faults>>

\* and adds them to the registry the loop is reading.
ScanAdds(s) ==
    /\ apc = "adding" /\ s \in scan
    /\ scan' = scan \ {s}
    /\ registry' = WithScanned(registry, {s})
    /\ UNCHANGED <<redisVars, heard, cursorA, booted, apc, batchA, warned, warnings,
                   streamVars, faults>>

ScanReturns ==
    /\ apc = "adding" /\ scan = {} /\ epc # "forwarding"
    /\ apc' = "reading"
    /\ UNCHANGED <<redisVars, registry, heard, cursorA, booted, batchA, scan, warned,
                   warnings, streamVars, faults>>

-----------------------------------------------------------------------------
(* _event_stream_loop.                                                     *)

\* Read what is watched, or idle if nothing is.
ReadOrIdle == IF DOMAIN cursors = {} THEN "top" ELSE "reading"

\* The loop starts a round: discovery, when it is still owed or its interval is
\* over, comes before the read.
Top ==
    /\ epc = "top"
    /\ due' \in {due, TRUE}
    /\ epc' = IF due' THEN "globbing" ELSE ReadOrIdle
    /\ epc' # epc
    /\ UNCHANGED <<redisVars, registry, autoVars, found, cursors, start, response,
                   out, raised, faults>>

\* Mutant of NewStreams: watched streams are discovered again.
NewStreamsAll == {s \in Sids : HasStream(s)}
\* discover_event_streams, without those watched already.
NewStreams == {s \in Sids : HasStream(s)} \ DOMAIN cursors

GlobReturns ==
    /\ epc = "globbing"
    /\ found' = NewStreams
    /\ epc' = "tails"
    /\ UNCHANGED <<redisVars, registry, autoVars, due, cursors, start, response, out,
                   raised, faults>>

\* Mutant of TailCursor: the cursor is put past the last entry.
TailCursorPast(s) == Len(events[s]) + 1
\* _stream_tail_cursor: the last entry; of a stream that is gone meanwhile
\* everything yet to come is unread, as it is from "0".
TailCursor(s) == Len(events[s])

\* A thread returns the cursor from which s is watched.
TailReturns(s) ==
    /\ epc = "tails" /\ s \in found
    /\ found' = found \ {s}
    /\ cursors' = [p \in DOMAIN cursors \cup {s} |->
                     IF p = s THEN TailCursor(s) ELSE cursors[p]]
    /\ start' = [p \in DOMAIN start \cup {s} |->
                   IF p = s THEN TailCursor(s) ELSE start[p]]
    /\ UNCHANGED <<redisVars, registry, autoVars, epc, due, response, out, raised, faults>>

Discovered ==
    /\ epc = "tails" /\ found = {}
    /\ due' = FALSE
    /\ epc' = ReadOrIdle
    /\ UNCHANGED <<redisVars, registry, autoVars, found, cursors, start, response, out,
                   raised, faults>>

\* The thread's XREAD returns everything past the cursors, stream by stream.
XreadReturns ==
    /\ epc = "reading"
    /\ LET ready == {s \in DOMAIN cursors : Unread(s, cursors[s]) # {}}
       IN  /\ ready # {}
           /\ \E order \in SetToSeqs(ready) :
                 response' = [i \in DOMAIN order |->
                    [sid |-> order[i], next |-> Oldest(order[i], cursors[order[i]]),
                     last |-> Len(events[order[i]])]]
    /\ epc' = "returned"
    /\ UNCHANGED <<redisVars, registry, autoVars, due, found, cursors, start, out, raised,
                   faults>>

XreadTimesOut ==
    /\ epc = "reading"
    /\ \A s \in DOMAIN cursors : Unread(s, cursors[s]) = {}
    /\ epc' = "top"
    /\ UNCHANGED <<redisVars, registry, autoVars, due, found, cursors, start, response,
                   out, raised, faults>>

\* The loop forwards the response entry by entry without awaiting; the cursor
\* moves before the entry is handled.  Noise stops at a gate.
ForwardNext ==
    /\ epc \in {"returned", "forwarding"}
    /\ LET b == Head(response)
           kind == events[b.sid][b.next]
       IN  /\ cursors' = [cursors EXCEPT ![b.sid] = b.next]
           /\ out' = IF kind = "noise" THEN out
                     ELSE [out EXCEPT ![b.sid] =
                        Append(@, [id |-> b.next, chan |-> Route(registry, b.sid, kind)])]
           /\ response' = IF b.next = b.last THEN Tail(response)
                          ELSE [response EXCEPT ![1].next = b.next + 1]
    /\ epc' = IF response' = <<>> THEN "top" ELSE "forwarding"
    /\ UNCHANGED <<redisVars, registry, autoVars, due, found, start, raised, faults>>

\* The scan's thread adds s while _resolve_handle iterates over the registry:
\* the iteration raises, which abandons the rest of the response.
ForwardRaises(s) ==
    /\ epc \in {"returned", "forwarding"}
    /\ apc = "adding" /\ s \in scan \ DOMAIN registry
    /\ LET b == Head(response)
       IN  /\ events[b.sid][b.next] = "trade"
           /\ cursors' = [cursors EXCEPT ![b.sid] = b.next]
           /\ raised' = raised \cup {[sid |-> b.sid, id |-> b.next]}
    /\ scan' = scan \ {s}
    /\ registry' = WithScanned(registry, {s})
    /\ response' = <<>> /\ epc' = "top"
    /\ UNCHANGED <<redisVars, heard, cursorA, booted, apc, batchA, warned, warnings, due,
                   found, start, out, faults>>

-----------------------------------------------------------------------------
(* Faults.                                                                 *)

Fault == faults < MaxFaults /\ faults' = faults + 1

\* Mutant of StreamRedisFails: the exception ends the loop.
StreamRedisFailsForGood ==
    /\ Fault
    /\ \/ epc \in {"globbing", "reading"}
       \/ epc = "tails" /\ found # {}
    /\ epc' = "stopped" /\ found' = {}
    /\ UNCHANGED <<redisVars, registry, autoVars, due, cursors, start, response, out, raised>>

\* A Redis call of the event loop raises: log, sleep, start over.
StreamRedisFails ==
    /\ Fault
    /\ \/ epc \in {"globbing", "reading"}
       \/ epc = "tails" /\ found # {}
    /\ epc' = "top" /\ found' = {}
    /\ UNCHANGED <<redisVars, registry, autoVars, due, cursors, start, response, out, raised>>

\* A Redis call of the autodiscovery raises: the same.
AutoRedisFails ==
    /\ Fault
    /\ apc \in {"reading", "scanning"}
    /\ apc' = "reading"
    /\ UNCHANGED <<redisVars, registry, heard, cursorA, booted, batchA, scan, warned,
                   warnings, streamVars>>

\* Redis restarts empty while the pods keep running.
Flush ==
    /\ Fault
    /\ trimmed' = Len(announces)
    /\ controls' = {}
    /\ lost' = [s \in Sids |-> Len(events[s])]
    /\ UNCHANGED <<announces, events, registry, autoVars, streamVars>>

\* A new notifier process: replay the announces, scan, then start both loops.
Restart ==
    /\ Fault
    /\ heard' = StoredAnnounces
    /\ registry' = WithScanned(Replayed(NoEntries, heard'), controls)
    /\ cursorA' = IF heard' = {} THEN 0 ELSE Max(heard')
    /\ booted' = cursorA'
    /\ apc' = "reading" /\ batchA' = {} /\ scan' = {}
    /\ warned' = {} /\ warnings' = [h \in DOMAIN warnings |-> 0]
    /\ epc' = "top" /\ due' = TRUE /\ found' = {}
    /\ cursors' = NoEntries /\ start' = NoEntries
    /\ response' = <<>> /\ out' = [s \in Sids |-> <<>>] /\ raised' = {}
    /\ UNCHANGED redisVars

-----------------------------------------------------------------------------
AutoStep == AnnouncesRead \/ AnnouncesApplied \/ ScanLists \/ ScanReturns
               \/ \E s \in Sids : ScanAdds(s)
StreamStep == Top \/ GlobReturns \/ Discovered \/ XreadReturns \/ XreadTimesOut
                 \/ ForwardNext \/ \E s \in Sids : TailReturns(s)

Next ==
    \/ \E b \in Boots : Announce(b)
    \/ \E s \in Sids : \E kind \in Kinds[s] : Publish(s, kind)
    \/ \E s \in Commanded : Command(s)
    \/ AutoStep
    \/ StreamStep
    \/ \E s \in Sids : ForwardRaises(s)
    \/ StreamRedisFails \/ AutoRedisFails \/ Flush \/ Restart

\* Both tasks get their turns and their threads return; nothing is assumed of
\* pods, operators and faults.
Fairness == WF_vars(AutoStep) /\ WF_vars(StreamStep)

Spec == Init /\ [][Next]_vars
FairSpec == Spec /\ Fairness

-----------------------------------------------------------------------------
RedisTypes ==
    /\ announces \in Seq(Boots) /\ trimmed \in 0 .. Len(announces)
    /\ controls \subseteq Commanded
    /\ events \in [Sids -> Seq(AllKinds)]
    /\ lost \in [Sids -> Nat] /\ \A s \in Sids : lost[s] <= Len(events[s])
AutoTypes ==
    /\ DOMAIN registry \subseteq Sids /\ \A s \in DOMAIN registry : registry[s] \in Modes
    /\ heard \subseteq DOMAIN announces /\ batchA \subseteq DOMAIN announces
    /\ cursorA \in Nat /\ booted \in Nat
    /\ apc \in {"reading", "applying", "scanning", "adding"} /\ scan \subseteq Sids
    /\ warned \subseteq DOMAIN warnings /\ \A h \in DOMAIN warnings : warnings[h] \in Nat
StreamTypes ==
    /\ epc \in {"top", "globbing", "tails", "reading", "returned", "forwarding"} /\ due \in BOOLEAN
    /\ found \subseteq Sids
    /\ DOMAIN cursors \subseteq Sids /\ DOMAIN start = DOMAIN cursors
    /\ \A s \in DOMAIN cursors : /\ cursors[s] \in 0 .. Len(events[s])
                                 /\ start[s] \in 0 .. cursors[s]
    /\ response \in Seq(Batches) /\ (response # <<>>) = (epc \in {"returned", "forwarding"})
    /\ raised \subseteq Entries
    /\ out \in [Sids -> Seq([id : Nat, chan : ChannelModes])]
TypeOK == RedisTypes /\ AutoTypes /\ StreamTypes /\ faults \in 0 .. MaxFaults

Forwarded(s) == {out[s][i].id : i \in DOMAIN out[s]}

\* A watched stream is read without gaps and without repetition: what lies
\* between its first cursor and its cursor was forwarded in order and once, but
\* for what a gate stopped, what raised and what Redis lost.  Rediscovery,
\* failing calls, abandoned responses and other streams change nothing.
EveryEntryOnce ==
    \A s \in Sids :
        /\ \A i, j \in DOMAIN out[s] : i < j => out[s][i].id < out[s][j].id
        /\ s \notin DOMAIN cursors => out[s] = <<>>
        /\ s \in DOMAIN cursors =>
              /\ Forwarded(s) \subseteq start[s] + 1 .. cursors[s]
              /\ \A n \in start[s] + 1 .. cursors[s] :
                    \/ n \in Forwarded(s)
                    \/ events[s][n] = "noise" \/ n <= lost[s]
                    \/ [sid |-> s, id |-> n] \in raised

\* The registry holds the newest mode it has heard of each strategy, and sandbox
\* for those it knows from a control stream only, however the scan's thread
\* interleaves with announces, replays and Redis flushes.
RegistryNewest ==
    /\ \A i \in heard : announces[i].sid \in DOMAIN registry
    /\ \A s \in DOMAIN registry :
          registry[s] = IF Newest(heard, s) = 0 THEN "sandbox"
                        ELSE announces[Newest(heard, s)].mode

\* Every drifted handshake heard since the start is warned about exactly once.
DriftWarnedOnce ==
    \A h \in DOMAIN warnings :
        warnings[h] = IF h \in Drifted({i \in heard : i > booted}) THEN 1 ELSE 0

\* A trade event of a pod whose announce was heard goes to the channel of the mode
\* announced last, even if another handle is a suffix of the pod's.
RoutedAsAnnounced ==
    [][\A s \in Sids :
          Len(out'[s]) > Len(out[s]) /\ Newest(heard, s) # 0
            /\ events[s][Last(out'[s]).id] = "trade"
          => Last(out'[s]).chan = announces[Newest(heard, s)].mode]_vars

\* The registry keeps catching up: again and again every announce Redis still has
\* was heard, by the loop or by a replay.
AnnouncesHeard == []<>(StoredAnnounces \subseteq heard)

\* The cursors keep catching up: again and again no watched stream has an unread
\* entry.  By EveryEntryOnce those passed were handled.
EntriesHandled == []<>(\A s \in DOMAIN cursors : Unread(s, cursors[s]) = {})
=============================================================================
