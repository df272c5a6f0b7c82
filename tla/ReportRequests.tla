--------------------------- MODULE ReportRequests ---------------------------
(***************************************************************************)
(* The on-demand report protocol of the notifier: /positions, /pnl, /fills *)
(* and /orders (_request_report), the forwarder that matches the replies   *)
(* (DiscordForwarder), the stream loop that reads them and the pods that   *)
(* produce them.                                                           *)
(*                                                                         *)
(* The notifier runs on one asyncio loop.  Its FIFO queue of callbacks is  *)
(* the variable ready: a loop action runs the callback at the head, from   *)
(* one await to the next; worker threads, timers and pods run in between   *)
(* and can only append to that queue.  "dispatch" is the callback enqueue  *)
(* defers with call_soon_threadsafe, "gather" the done callback of the     *)
(* last child of asyncio.gather, "wake" the resumption of the task that    *)
(* awaits it, "timeout" the timer handle of asyncio.wait_for.              *)
(***************************************************************************)
EXTENDS Naturals, Sequences, FiniteSets, SequencesExt, Channels

CONSTANTS
    Cmds,             \* slash-command invocations
    Sids,             \* control handles an operator may name
    Topics,           \* on-demand report topics
    PeriodicTopics,   \* topics a pod also publishes unasked (positions)
    Registry,         \* handle -> mode, as replayed from the announces
    Channels,         \* channels the operators use
    PublishMayFail,   \* whether an XADD of a command may raise
    PodMayDrop,       \* whether a pod may consume a request without replying
    MaxReports,       \* bound on the reports all pods produce together
    AllStrategies,    \* the command was given no strategy argument
    Periodic          \* cause of a report no command asked for

ASSUME ConstAssumption ==
    /\ IsFiniteSet(Cmds) /\ IsFiniteSet(Sids)
    /\ Topics # {} /\ PeriodicTopics \subseteq Topics
    /\ DOMAIN Registry \subseteq Sids
    /\ Channels \subseteq ChannelModes \cup {NoChannel}
    /\ PublishMayFail \in BOOLEAN /\ PodMayDrop \in BOOLEAN
    /\ MaxReports \in Nat
    /\ AllStrategies \notin Sids
    /\ Periodic \notin Cmds

VARIABLES
    ready,      \* the loop's callbacks, in the order they will run
    pc,         \* where each command's coroutine is
    req,        \* what each command asks: topic, channel, targets
    inflight,   \* command -> targets whose XADD has not executed yet
    armed,      \* commands whose 120 s timer is running
    expired,    \* commands whose timer callback has run in time
    fut,        \* command -> target -> state of its future
    result,     \* [cmd, rep]: the envelope a future was resolved with
    listeners,  \* _report_listeners
    control,    \* pod -> control stream, one entry per request
    stream,     \* report entries not yet returned by an XREAD
    reading,    \* an XREAD is blocked in its worker thread
    nextId,     \* reports produced so far
    sends,      \* [rep, chan, via]: messages handed to _send
    skipped     \* [rep, via]: enqueues that took the on-demand short-circuit

loopVars == <<ready, armed, expired, fut, result, listeners, sends, skipped>>
podVars == <<control, stream, nextId>>
vars == <<ready, pc, req, inflight, armed, expired, fut, result, listeners,
          control, stream, reading, nextId, sends, skipped>>

-----------------------------------------------------------------------------
Keys == Topics \X Sids
PcValues == {"idle", "issued", "rejected", "publishing", "waiting", "crashed",
             "answered"}
FutStates == {"none", "pending", "resolved", "cancelled"}

Reports == [id : 0 .. MaxReports - 1, topic : Topics, sid : Sids,
            cause : Cmds \cup {Periodic}]
Requests == [topic : Topics, chan : ChannelModes \cup {NoChannel},
             targets : SUBSET Sids]
TaskKinds == {"start", "published", "failed", "gather", "wake", "timeout"}
Callbacks ==
    [kind : TaskKinds, cmd : Cmds] \cup [kind : {"batch"}, batch : Seq(Reports)]
    \cup [kind : {"dispatch"}, rep : Reports]

\* The key of _report_listeners a report is dispatched under.
Key(rep) == <<rep.topic, rep.sid>>
\* The commands whose task is suspended inside _request_report.
Active == {c \in Cmds : pc[c] \in {"publishing", "waiting"}}
Replies(c) == {x.rep : x \in {y \in result : y.cmd = c}}
Pending(c) == {s \in req[c].targets : fut[c][s] = "pending"}

Task(kind, c) == [kind |-> kind, cmd |-> c]
Queued(kind, c) == \E i \in DOMAIN ready : ready[i] = Task(kind, c)
\* The callback at the head is this step of command c.
Running(kind, c) == ready # <<>> /\ Head(ready) = Task(kind, c)

Dispatches(reps) == [i \in DOMAIN reps |-> [kind |-> "dispatch", rep |-> reps[i]]]
Gathers(cs) == [i \in DOMAIN cs |-> Task("gather", cs[i])]

\* Mutant of OnDemand: off by one, a single waiting command is overlooked.
OnDemandOffByOne(L, rep) == Cardinality(L[Key(rep)]) > 1

\* enqueue's test: is anyone waiting for this report?  L is the listener table.
OnDemand(L, rep) == L[Key(rep)] # {}
\* What enqueue hands to _send, and what it leaves to the waiting commands.
Sent(L, reps, chan, via) ==
    {[rep |-> r, chan |-> chan, via |-> via] : r \in {x \in reps : ~OnDemand(L, x)}}
Skipped(L, reps, via) ==
    {[rep |-> r, via |-> via] : r \in {x \in reps : OnDemand(L, x)}}

-----------------------------------------------------------------------------
Init ==
    /\ ready = <<>>
    /\ pc = [c \in Cmds |-> "idle"]
    /\ req = [c \in Cmds |-> [topic |-> CHOOSE t \in Topics : TRUE,
                            chan |-> NoChannel, targets |-> {}]]
    /\ inflight = [c \in Cmds |-> {}]
    /\ armed = {} /\ expired = {}
    /\ fut = [c \in Cmds |-> [s \in Sids |-> "none"]]
    /\ result = {}
    /\ listeners = [k \in Keys |-> {}]
    /\ control = [s \in Sids |-> <<>>]
    /\ stream = <<>>
    /\ reading = TRUE
    /\ nextId = 0
    /\ sends = {} /\ skipped = {}

-----------------------------------------------------------------------------
(* Operators, worker threads, timers and pods: they never touch the loop's *)
(* state except by appending a callback.                                   *)

\* Mutant of Targets: the wildcard is taken for a strategy's name.
TargetsUnexpanded(chan, strategy) == {strategy}

\* Whom a command addresses: the channel's strategies, or the one it names.
Targets(chan, strategy) ==
    IF strategy = AllStrategies THEN StrategiesForChannel(Registry, chan)
    ELSE {s \in {strategy} : CommandAllowed(Registry, s, chan)}

\* An operator runs a report command; once the interaction is deferred the
\* coroutine is scheduled.
Issue(c, topic, chan, strategy) ==
    /\ pc[c] = "idle"
    /\ pc' = [pc EXCEPT ![c] = "issued"]
    /\ req' = [req EXCEPT ![c] =
                 [topic |-> topic, chan |-> chan,
                  targets |-> Targets(chan, strategy)]]
    /\ ready' = Append(ready, Task("start", c))
    /\ UNCHANGED <<inflight, armed, expired, fut, result, listeners, podVars,
                   reading, sends, skipped>>

\* A worker thread executes the XADD of one target's command.
PublishOne(c, s) ==
    /\ s \in inflight[c]
    /\ inflight' = [inflight EXCEPT ![c] = @ \ {s}]
    /\ control' = [control EXCEPT ![s] = Append(@, c)]
    /\ UNCHANGED <<loopVars, pc, req, stream, reading, nextId>>

\* All publishes have returned to the loop: the gather over them resumes.
PublishesReturn(c) ==
    /\ pc[c] = "publishing" /\ inflight[c] = {}
    /\ ~Queued("published", c) /\ ~Queued("failed", c)
    /\ ready' = Append(ready, Task("published", c))
    /\ UNCHANGED <<pc, req, inflight, armed, expired, fut, result, listeners,
                   podVars, reading, sends, skipped>>

\* An XADD raises: gather without return_exceptions re-raises at once, while
\* the other threads go on.
PublishFails(c, s) ==
    /\ PublishMayFail
    /\ s \in inflight[c]
    /\ inflight' = [inflight EXCEPT ![c] = @ \ {s}]
    /\ ready' = IF pc[c] = "publishing" /\ ~Queued("failed", c)
                THEN Append(ready, Task("failed", c)) ELSE ready
    /\ UNCHANGED <<pc, req, armed, expired, fut, result, listeners, podVars,
                   reading, sends, skipped>>

\* A pod handles the oldest request of its control stream and replies.
PodReplies(s) ==
    /\ control[s] # <<>> /\ nextId < MaxReports
    /\ LET c == Head(control[s])
       IN  stream' = Append(stream, [id |-> nextId, topic |-> req[c].topic,
                                     sid |-> s, cause |-> c])
    /\ control' = [control EXCEPT ![s] = Tail(@)]
    /\ nextId' = nextId + 1
    /\ UNCHANGED <<loopVars, pc, req, inflight, reading>>

\* A pod that is down, or whose handler raised, lets a request go unanswered.
PodDrops(s) ==
    /\ PodMayDrop
    /\ control[s] # <<>>
    /\ control' = [control EXCEPT ![s] = Tail(@)]
    /\ UNCHANGED <<loopVars, pc, req, inflight, stream, reading, nextId>>

\* A pod's own timer publishes a snapshot nobody asked for.
PodPeriodic(s, topic) ==
    /\ nextId < MaxReports
    /\ stream' = Append(stream, [id |-> nextId, topic |-> topic, sid |-> s,
                                 cause |-> Periodic])
    /\ nextId' = nextId + 1
    /\ UNCHANGED <<loopVars, pc, req, inflight, control, reading>>

\* The blocked XREAD returns every entry there is and wakes the stream loop.
XreadReturns ==
    /\ reading /\ stream # <<>>
    /\ ready' = Append(ready, [kind |-> "batch", batch |-> stream])
    /\ stream' = <<>>
    /\ reading' = FALSE
    /\ UNCHANGED <<pc, req, inflight, armed, expired, fut, result, listeners,
                   control, nextId, sends, skipped>>

\* The 120 s of a waiting command are over: its timer handle becomes ready.
TimerFires(c) ==
    /\ c \in armed
    /\ armed' = armed \ {c}
    /\ ready' = Append(ready, Task("timeout", c))
    /\ UNCHANGED <<pc, req, inflight, expired, fut, result, listeners, podVars,
                   reading, sends, skipped>>

-----------------------------------------------------------------------------
(* The loop's own steps: each one runs Head(ready) to its next await.      *)

\* _request_report up to its first publish: refuse the channel or the
\* strategy, or subscribe to every target and only then publish.
RunStart(c) ==
    /\ pc[c] = "issued" /\ Running("start", c)
    /\ ready' = Tail(ready)
    /\ \/ /\ req[c].chan = NoChannel \/ req[c].targets = {}
          /\ pc' = [pc EXCEPT ![c] = "rejected"]
          /\ UNCHANGED <<inflight, fut, listeners>>
       \/ /\ req[c].chan # NoChannel /\ req[c].targets # {}
          /\ pc' = [pc EXCEPT ![c] = "publishing"]
          /\ inflight' = [inflight EXCEPT ![c] = req[c].targets]
          /\ fut' = [fut EXCEPT ![c] =
                [s \in Sids |-> IF s \in req[c].targets THEN "pending" ELSE "none"]]
          /\ listeners' = [k \in Keys |->
                IF k[1] = req[c].topic /\ k[2] \in req[c].targets
                THEN listeners[k] \cup {c} ELSE listeners[k]]
    /\ UNCHANGED <<req, armed, expired, result, podVars, reading, sends, skipped>>

\* Mutants of Dropped: the slots are kept, or everyone's are given back.
DroppedNever(c) == listeners
DroppedWholeKey(c) ==
    [k \in Keys |-> IF k[1] = req[c].topic /\ k[2] \in req[c].targets
                    THEN {} ELSE listeners[k]]

\* drop_report_listener for every target of a command.
Dropped(c) ==
    [k \in Keys |-> IF k[1] = req[c].topic /\ k[2] \in req[c].targets
                    THEN listeners[k] \ {c} ELSE listeners[k]]

\* The rest of _request_report: after a timeout give the listeners back, then
\* enqueue every reply for the operator's channel and send the receipt.
Finish(c) ==
    /\ pc' = [pc EXCEPT ![c] = "answered"]
    /\ armed' = armed \ {c}
    /\ listeners' = IF c \in expired THEN Dropped(c) ELSE listeners
    /\ sends' = sends \cup Sent(listeners', Replies(c), req[c].chan, c)
    /\ skipped' = skipped \cup Skipped(listeners', Replies(c), c)
    /\ \E order \in SetToSeqs(Replies(c)) :
          ready' = Tail(ready) \o Dispatches(order)

\* Mutant of RunPublished: the futures are awaited without a timeout.
RunPublishedNoTimeout(c) ==
    /\ pc[c] = "publishing" /\ Running("published", c)
    /\ \/ /\ Pending(c) # {}
          /\ pc' = [pc EXCEPT ![c] = "waiting"]
          /\ ready' = Tail(ready)
          /\ UNCHANGED <<armed, listeners, sends, skipped>>
       \/ /\ Pending(c) = {}
          /\ Finish(c)
    /\ UNCHANGED <<req, inflight, expired, fut, result, podVars, reading>>

\* The publishes are done: start the timer and await all futures.  When every
\* one is already resolved gather and wait_for return without suspending.
RunPublished(c) ==
    /\ pc[c] = "publishing" /\ Running("published", c)
    /\ \/ /\ Pending(c) # {}
          /\ pc' = [pc EXCEPT ![c] = "waiting"]
          /\ armed' = armed \cup {c}
          /\ ready' = Tail(ready)
          /\ UNCHANGED <<listeners, sends, skipped>>
       \/ /\ Pending(c) = {}
          /\ Finish(c)
    /\ UNCHANGED <<req, inflight, expired, fut, result, podVars, reading>>

\* A publish raised: the exception leaves _request_report as it stands.
RunFailed(c) ==
    /\ pc[c] = "publishing" /\ Running("failed", c)
    /\ pc' = [pc EXCEPT ![c] = "crashed"]
    /\ ready' = Tail(ready)
    /\ UNCHANGED <<req, inflight, armed, expired, fut, result, listeners, podVars,
                   reading, sends, skipped>>

\* The timer cancels the awaiting task, which cancels the futures still
\* pending; of a finished command the handle was cancelled and does nothing.
RunTimeout(c) ==
    /\ Running("timeout", c)
    /\ \/ /\ pc[c] = "waiting"
          /\ expired' = expired \cup {c}
          /\ fut' = [fut EXCEPT ![c] = [s \in Sids |->
                       IF s \in Pending(c) THEN "cancelled" ELSE fut[c][s]]]
          /\ ready' = Tail(ready) \o
                (IF Pending(c) # {} THEN <<Task("gather", c)>> ELSE <<>>)
       \/ /\ pc[c] # "waiting"
          /\ ready' = Tail(ready)
          /\ UNCHANGED <<expired, fut>>
    /\ UNCHANGED <<pc, req, inflight, armed, result, listeners, podVars, reading,
                   sends, skipped>>

\* asyncio.gather is complete: schedule the task that awaits it.
RunGather(c) ==
    /\ Running("gather", c)
    /\ ready' = Append(Tail(ready), Task("wake", c))
    /\ UNCHANGED <<pc, req, inflight, armed, expired, fut, result, listeners,
                   podVars, reading, sends, skipped>>

\* The awaiting task resumes, with the results or with TimeoutError.
RunWake(c) ==
    /\ pc[c] = "waiting" /\ Running("wake", c)
    /\ Finish(c)
    /\ UNCHANGED <<req, inflight, expired, fut, result, podVars, reading>>

\* The stream loop forwards a whole XREAD response before it awaits again;
\* none of the deferred dispatches can run in between.
RunBatch ==
    /\ ready # <<>> /\ Head(ready).kind = "batch"
    /\ LET batch == Head(ready).batch
           reps == {batch[i] : i \in DOMAIN batch}
       IN  /\ sends' = sends \cup Sent(listeners, reps, "logging", Periodic)
           /\ skipped' = skipped \cup Skipped(listeners, reps, Periodic)
           /\ ready' = Tail(ready) \o Dispatches(batch)
    /\ reading' = TRUE
    /\ UNCHANGED <<pc, req, inflight, armed, expired, fut, result, listeners,
                   podVars>>

\* Mutants of Takers: futures already done are resolved again, or the listeners
\* of every topic are.
TakersDone(rep) == listeners[Key(rep)]
TakersOfAnyTopic(rep) ==
    {c \in UNION {listeners[<<t, rep.sid>>] : t \in Topics} :
        fut[c][rep.sid] = "pending"}

\* The commands a dispatched report resolves: if not fut.done().
Takers(rep) == {c \in listeners[Key(rep)] : fut[c][rep.sid] = "pending"}

\* _dispatch_report_listeners: pop the key and resolve whatever still waits.
RunDispatch ==
    /\ ready # <<>> /\ Head(ready).kind = "dispatch"
    /\ LET rep == Head(ready).rep
           taken == Takers(rep)
           complete == {c \in taken : pc[c] = "waiting" /\ Pending(c) = {rep.sid}}
       IN  /\ fut' = [c \in Cmds |-> [s \in Sids |->
                 IF c \in taken /\ s = rep.sid THEN "resolved" ELSE fut[c][s]]]
           /\ result' = result \cup {[cmd |-> c, rep |-> rep] : c \in taken}
           /\ listeners' = [listeners EXCEPT ![Key(rep)] = {}]
           /\ \E order \in SetToSeqs(complete) :
                 ready' = Tail(ready) \o Gathers(order)
    /\ UNCHANGED <<pc, req, inflight, armed, expired, podVars, reading, sends,
                   skipped>>

RunLoop ==
    \/ \E c \in Cmds : \/ RunStart(c) \/ RunPublished(c) \/ RunFailed(c)
                       \/ RunTimeout(c) \/ RunGather(c) \/ RunWake(c)
    \/ RunBatch
    \/ RunDispatch

Next ==
    \/ \E c \in Cmds, topic \in Topics, chan \in Channels,
          strategy \in Sids \cup {AllStrategies} : Issue(c, topic, chan, strategy)
    \/ \E c \in Cmds, s \in Sids : PublishOne(c, s) \/ PublishFails(c, s)
    \/ \E c \in Cmds : PublishesReturn(c) \/ TimerFires(c)
    \/ \E s \in Sids : PodReplies(s) \/ PodDrops(s)
    \/ \E s \in Sids, topic \in PeriodicTopics : PodPeriodic(s, topic)
    \/ XreadReturns
    \/ RunLoop

\* The loop keeps running callbacks, worker threads return and timers fire;
\* nothing makes an operator issue a command or a pod answer one.
Fairness ==
    /\ WF_vars(RunLoop)
    /\ WF_vars(XreadReturns)
    /\ \A c \in Cmds : /\ WF_vars(\E s \in Sids : PublishOne(c, s) \/ PublishFails(c, s))
                       /\ WF_vars(PublishesReturn(c))
                       /\ WF_vars(TimerFires(c))

Spec == Init /\ [][Next]_vars
FairSpec == Spec /\ Fairness

-----------------------------------------------------------------------------
TypeOK ==
    /\ ready \in Seq(Callbacks)
    /\ pc \in [Cmds -> PcValues]
    /\ req \in [Cmds -> Requests]
    /\ inflight \in [Cmds -> SUBSET Sids]
    /\ armed \subseteq Cmds /\ expired \subseteq Cmds
    /\ fut \in [Cmds -> [Sids -> FutStates]]
    /\ result \subseteq [cmd : Cmds, rep : Reports]
    /\ listeners \in [Keys -> SUBSET Cmds]
    /\ control \in [Sids -> Seq(Cmds)]
    /\ stream \in Seq(Reports)
    /\ reading \in BOOLEAN
    /\ nextId \in Nat
    /\ sends \subseteq [rep : Reports, chan : ChannelModes \cup {NoChannel},
                        via : Cmds \cup {Periodic}]
    /\ skipped \subseteq [rep : Reports, via : Cmds \cup {Periodic}]

\* No lost wakeup: every future still pending is in the listener table under
\* its own topic and strategy, whatever dispatches, timeouts and other commands
\* have popped meanwhile.
WaitersRegistered ==
    \A c \in Cmds : \A s \in Pending(c) : c \in listeners[<<req[c].topic, s>>]

\* A resolved future carries a report of the topic and of the strategy it was
\* registered for, one report per target: a /fills wait is never satisfied by
\* a /positions reply.
ResultsMatchRequests ==
    /\ \A x \in result : /\ x.rep.topic = req[x.cmd].topic
                         /\ x.rep.sid \in req[x.cmd].targets
                         /\ fut[x.cmd][x.rep.sid] = "resolved"
    /\ \A x, y \in result :
          x.cmd = y.cmd /\ x.rep.sid = y.rep.sid => x.rep = y.rep

\* A listener slot is held by a suspended command, or by one a failed publish
\* made it leak: answering, timing out and being refused all give it back.
SlotsHeldOnlyWhileWaiting ==
    \A k \in Keys : \A c \in listeners[k] : c \in Active \/ pc[c] = "crashed"

\* Subscribe before publish: a pod's reply to a command is never taken for an
\* unsolicited snapshot while that command still waits for that pod.
ReplyNeverMissed ==
    \A x \in sends :
        x.via = Periodic /\ x.rep.cause # Periodic
            => fut[x.rep.cause][x.rep.sid] # "pending"

\* A suspended task always has something that will resume it: the futures it
\* waits for and its timer, or a callback already queued on the loop.
AlwaysResumable ==
    \A c \in Cmds : pc[c] = "waiting" =>
        \/ c \in armed
        \/ \E kind \in {"timeout", "gather", "wake"} : Queued(kind, c)

\* Every command an operator issues is refused or answered with a receipt, even
\* when no pod ever replies; only a publish that raised ends it without one.
EveryCommandAnswered ==
    \A c \in Cmds : pc[c] = "issued" ~> pc[c] \in {"rejected", "answered", "crashed"}

\* A settled future keeps its outcome: no later report, timeout or command
\* changes what a receipt is built from.
FuturesSettleOnce ==
    [][\A c \in Cmds, s \in Sids :
          fut[c][s] \in {"resolved", "cancelled"} =>
              /\ fut'[c][s] = fut[c][s]
              /\ {r \in Replies(c) : r.sid = s} = {r \in Replies(c)' : r.sid = s}]_vars

\* What an operator sees of a command: the coroutine's position without the loop,
\* and the resolved futures of a command that can still show them.
Outcome(c) ==
    CASE pc[c] = "idle" -> "none"
      [] pc[c] = "issued" -> "asked"
      [] pc[c] = "rejected" -> "refused"
      [] pc[c] \in {"publishing", "waiting"} -> "open"
      [] pc[c] = "crashed" -> "failed"
      [] pc[c] = "answered" -> "answered"
Collected(c) == IF pc[c] = "crashed" THEN {} ELSE Replies(c)

Service == INSTANCE ReportService WITH
    Reports <- Reports,
    outcome <- [c \in Cmds |-> Outcome(c)],
    asked <- [c \in Cmds |-> [topic |-> req[c].topic, targets |-> req[c].targets]],
    got <- [c \in Cmds |-> Collected(c)],
    late <- expired

\* Refinement: listener table, deferred dispatches, gather, timer handle and
\* worker threads together behave as the request/reply service an operator is
\* promised, in which a report reaches every open command it answers at once.
ImplementsService == Service!Spec

-----------------------------------------------------------------------------
\* Claims of the source's comments that the code refutes.

\* No leaked listener slot: only a suspended command occupies one, so a report
\* published later by a pod that stayed silent is never withheld from #logging.
NoListenerLeak ==
    \A k \in Keys : listeners[k] \subseteq Active

\* An enqueue that leaves a report to the waiting commands is right that one
\* of them takes it: nothing runs between its test and the dispatch it defers
\* that makes the report vanish.
NothingSwallowed ==
    \A x \in skipped :
        \/ \E i \in DOMAIN ready : ready[i] = [kind |-> "dispatch", rep |-> x.rep]
        \/ \E y \in result : y.rep = x.rep
=============================================================================
