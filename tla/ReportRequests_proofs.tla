----------------------- MODULE ReportRequests_proofs -----------------------
(***************************************************************************)
(* Proofs about ReportRequests, for every value of its constants: types,   *)
(* the listener table, and that the protocol implements ReportService.     *)
(***************************************************************************)
EXTENDS ReportRequests, FiniteSetTheorems, TLAPS

-----------------------------------------------------------------------------
(* The sequences the loop's steps build. *)

\* An enumeration of a finite set is a sequence over it.
LEMMA EnumerationType ==
    ASSUME NEW S, IsFiniteSet(S), NEW order \in SetToSeqs(S)
    PROVE  order \in Seq(S)
<1>1. Cardinality(S) \in Nat BY FS_CardinalityType
<1>2. order \in [1..Cardinality(S) -> S] BY DEF SetToSeqs
<1> QED BY <1>1, <1>2

\* enqueue defers one dispatch per report.
LEMMA DispatchesType ==
    ASSUME NEW reps \in Seq(Reports)
    PROVE  /\ Dispatches(reps) \in Seq(Callbacks)
           /\ \A i \in DOMAIN Dispatches(reps) :
                 Dispatches(reps)[i].kind = "dispatch"
<1>1. \A i \in DOMAIN reps : [kind |-> "dispatch", rep |-> reps[i]] \in Callbacks
  BY DEF Callbacks
<1>2. DOMAIN reps = 1..Len(reps) /\ Len(reps) \in Nat OBVIOUS
<1> QED BY <1>1, <1>2 DEF Dispatches

LEMMA GathersType ==
    ASSUME NEW cs \in Seq(Cmds)
    PROVE  Gathers(cs) \in Seq(Callbacks)
<1>1. \A i \in DOMAIN cs : Task("gather", cs[i]) \in Callbacks
  BY DEF Callbacks, Task, TaskKinds
<1>2. DOMAIN cs = 1..Len(cs) /\ Len(cs) \in Nat OBVIOUS
<1> QED BY <1>1, <1>2 DEF Gathers

LEMMA TaskType ==
    ASSUME NEW kind \in TaskKinds, NEW c \in Cmds
    PROVE  Task(kind, c) \in Callbacks
BY DEF Task, Callbacks

\* Removing the head and appending typed callbacks keeps the queue typed.
LEMMA QueueType ==
    ASSUME NEW q \in Seq(Callbacks), q # <<>>, NEW more \in Seq(Callbacks)
    PROVE  Tail(q) \o more \in Seq(Callbacks)
OBVIOUS

LEMMA TailType ==
    ASSUME NEW q \in Seq(Callbacks), q # <<>>
    PROVE  Tail(q) \in Seq(Callbacks) /\ Head(q) \in Callbacks
OBVIOUS

\* The kind of a callback tells which fields it has.
LEMMA CallbackFields ==
    ASSUME NEW cb \in Callbacks
    PROVE  /\ cb.kind = "batch" => cb.batch \in Seq(Reports)
           /\ cb.kind = "dispatch" => cb.rep \in Reports
<1>1. CASE cb \in [kind : TaskKinds, cmd : Cmds]
  BY <1>1 DEF TaskKinds
<1>2. CASE cb \in [kind : {"batch"}, batch : Seq(Reports)]
  BY <1>2
<1>3. CASE cb \in [kind : {"dispatch"}, rep : Reports]
  BY <1>3
<1> QED BY <1>1, <1>2, <1>3 DEF Callbacks

LEMMA KeyType ==
    ASSUME NEW rep \in Reports
    PROVE  Key(rep) \in Keys
BY DEF Key, Keys, Reports

-----------------------------------------------------------------------------
(* Type correctness.  A command's replies are enumerated when it finishes, *)
(* so the invariant also says that there are finitely many of them.        *)

TypeInv == TypeOK /\ IsFiniteSet(result)

\* What a command finds in its futures are finitely many reports.
LEMMA RepliesType ==
    ASSUME TypeInv, NEW c \in Cmds
    PROVE  Replies(c) \subseteq Reports /\ IsFiniteSet(Replies(c))
<1>1. Replies(c) \subseteq Reports BY DEF Replies, TypeInv, TypeOK
<1>2. IsFiniteSet({y \in result : y.cmd = c}) BY FS_Subset DEF TypeInv
<1> DEFINE S == {y \in result : y.cmd = c}
           f == [y \in S |-> y.rep]
<1>3. f \in Surjection(S, Replies(c)) BY DEF Surjection, Replies
<1>4. IsFiniteSet(Replies(c)) BY <1>2, <1>3, FS_Surjection DEF ExistsSurjection
<1> QED BY <1>1, <1>4

LEMMA TypeInit == Init => TypeInv
<1> SUFFICES ASSUME Init PROVE TypeInv
  OBVIOUS
<1>1. IsFiniteSet(result) BY FS_EmptySet DEF Init
<1>2. req \in [Cmds -> Requests]
  BY ConstAssumption DEF Init, Requests
<1>3. TypeOK
  BY <1>2 DEF Init, TypeOK, PcValues, FutStates
<1> QED BY <1>1, <1>3 DEF TypeInv

\* Finish is the tail of two actions: it enqueues a finite set of typed reports.
LEMMA FinishType ==
    ASSUME TypeInv, NEW c \in Cmds, ready # <<>>, Finish(c)
    PROVE  /\ ready' \in Seq(Callbacks)
           /\ pc' \in [Cmds -> PcValues]
           /\ armed' \subseteq Cmds
           /\ listeners' \in [Keys -> SUBSET Cmds]
           /\ sends' \subseteq [rep : Reports, chan : ChannelModes \cup {NoChannel},
                                via : Cmds \cup {Periodic}]
           /\ skipped' \subseteq [rep : Reports, via : Cmds \cup {Periodic}]
<1>1. Replies(c) \subseteq Reports /\ IsFiniteSet(Replies(c)) BY RepliesType
<1>2. PICK order \in SetToSeqs(Replies(c)) : ready' = Tail(ready) \o Dispatches(order)
  BY DEF Finish
<1>3. order \in Seq(Reports)
  <2>1. order \in Seq(Replies(c)) BY <1>1, EnumerationType
  <2> QED BY <2>1, <1>1
<1>4. ready' \in Seq(Callbacks)
  BY <1>2, <1>3, DispatchesType, QueueType DEF TypeInv, TypeOK
<1>5. listeners' \in [Keys -> SUBSET Cmds]
  BY DEF Finish, Dropped, TypeInv, TypeOK
<1>6. req[c].chan \in ChannelModes \cup {NoChannel}
  BY DEF TypeInv, TypeOK, Requests
<1>7. Sent(listeners', Replies(c), req[c].chan, c)
        \subseteq [rep : Reports, chan : ChannelModes \cup {NoChannel},
                   via : Cmds \cup {Periodic}]
  BY <1>1, <1>6 DEF Sent
<1>8. Skipped(listeners', Replies(c), c)
        \subseteq [rep : Reports, via : Cmds \cup {Periodic}]
  BY <1>1 DEF Skipped
<1> QED
  BY <1>4, <1>5, <1>7, <1>8 DEF Finish, TypeInv, TypeOK, PcValues

LEMMA TypeStep == TypeInv /\ [Next]_vars => TypeInv'
<1> SUFFICES ASSUME TypeInv, [Next]_vars PROVE TypeInv'
  OBVIOUS
<1> USE DEF TypeInv, TypeOK, loopVars, podVars
<1>1. ASSUME NEW c \in Cmds, NEW topic \in Topics, NEW chan \in Channels,
             NEW strategy \in Sids \cup {AllStrategies},
             Issue(c, topic, chan, strategy)
      PROVE  TypeInv'
  <2>1. StrategiesForChannel(Registry, chan) \subseteq Sids
    BY ConstAssumption DEF StrategiesForChannel
  <2>2. {s \in {strategy} : CommandAllowed(Registry, s, chan)} \subseteq Sids
          \/ strategy = AllStrategies
    OBVIOUS
  <2>3. req' \in [Cmds -> Requests]
    BY <1>1, <2>1, <2>2, ConstAssumption DEF Issue, Requests, Targets
  <2> QED BY <1>1, <2>3, TaskType DEF Issue, TaskKinds, PcValues
<1>2. ASSUME NEW c \in Cmds, NEW s \in Sids, PublishOne(c, s)
      PROVE  TypeInv'
  BY <1>2 DEF PublishOne
<1>3. ASSUME NEW c \in Cmds, NEW s \in Sids, PublishFails(c, s)
      PROVE  TypeInv'
  BY <1>3, TaskType DEF PublishFails, TaskKinds
<1>4. ASSUME NEW c \in Cmds, PublishesReturn(c)
      PROVE  TypeInv'
  BY <1>4, TaskType DEF PublishesReturn, TaskKinds
<1>5. ASSUME NEW c \in Cmds, TimerFires(c)
      PROVE  TypeInv'
  BY <1>5, TaskType DEF TimerFires, TaskKinds
<1>6. ASSUME NEW s \in Sids, PodReplies(s)
      PROVE  TypeInv'
  <2>1. Head(control[s]) \in Cmds BY <1>6 DEF PodReplies
  <2>2. nextId \in 0 .. MaxReports - 1 BY <1>6, ConstAssumption DEF PodReplies
  <2>3. [id |-> nextId, topic |-> req[Head(control[s])].topic, sid |-> s,
         cause |-> Head(control[s])] \in Reports
    BY <2>1, <2>2 DEF Reports, Requests
  <2>4. stream' \in Seq(Reports) BY <1>6, <2>3 DEF PodReplies
  <2> QED BY <1>6, <2>4 DEF PodReplies
<1>7. ASSUME NEW s \in Sids, PodDrops(s)
      PROVE  TypeInv'
  BY <1>7 DEF PodDrops
<1>8. ASSUME NEW s \in Sids, NEW topic \in PeriodicTopics, PodPeriodic(s, topic)
      PROVE  TypeInv'
  <2>1. stream' \in Seq(Reports)
    BY <1>8, ConstAssumption DEF PodPeriodic, Reports
  <2> QED BY <1>8, <2>1 DEF PodPeriodic
<1>9. ASSUME XreadReturns
      PROVE  TypeInv'
  <2>1. [kind |-> "batch", batch |-> stream] \in Callbacks BY DEF Callbacks
  <2>2. ready' \in Seq(Callbacks) BY <1>9, <2>1 DEF XreadReturns
  <2>3. stream' \in Seq(Reports) BY <1>9 DEF XreadReturns
  <2> QED BY <1>9, <2>2, <2>3 DEF XreadReturns
<1>10. ASSUME NEW c \in Cmds, RunStart(c)
       PROVE  TypeInv'
  <2>1. ready' \in Seq(Callbacks) BY <1>10, TailType DEF RunStart, Running
  <2>2. pc' \in [Cmds -> PcValues] BY <1>10 DEF RunStart, PcValues
  <2>3. inflight' \in [Cmds -> SUBSET Sids]
    <3>1. req[c].targets \in SUBSET Sids BY DEF Requests
    <3>2. \/ UNCHANGED inflight
          \/ inflight' = [inflight EXCEPT ![c] = req[c].targets]
      BY <1>10 DEF RunStart
    <3> QED BY <3>1, <3>2
  <2>4. fut' \in [Cmds -> [Sids -> FutStates]]
    <3>1. [s \in Sids |-> IF s \in req[c].targets THEN "pending" ELSE "none"]
            \in [Sids -> FutStates]
      BY DEF FutStates
    <3> HIDE DEF FutStates
    <3>2. \/ UNCHANGED fut
          \/ fut' = [fut EXCEPT ![c] =
                [s \in Sids |-> IF s \in req[c].targets THEN "pending" ELSE "none"]]
      BY <1>10 DEF RunStart
    <3> QED BY <3>1, <3>2
  <2>5. listeners' \in [Keys -> SUBSET Cmds]
    <3>1. [k \in Keys |-> IF k[1] = req[c].topic /\ k[2] \in req[c].targets
                          THEN listeners[k] \cup {c} ELSE listeners[k]]
            \in [Keys -> SUBSET Cmds]
      OBVIOUS
    <3>2. \/ UNCHANGED listeners
          \/ listeners' = [k \in Keys |->
                IF k[1] = req[c].topic /\ k[2] \in req[c].targets
                THEN listeners[k] \cup {c} ELSE listeners[k]]
      BY <1>10 DEF RunStart
    <3> QED BY <3>1, <3>2
  <2> QED BY <1>10, <2>1, <2>2, <2>3, <2>4, <2>5 DEF RunStart
<1>11. ASSUME NEW c \in Cmds, RunPublished(c)
       PROVE  TypeInv'
  <2>1. ready # <<>> BY <1>11 DEF RunPublished, Running
  <2>2. CASE pc' = [pc EXCEPT ![c] = "waiting"] /\ armed' = armed \cup {c}
                /\ ready' = Tail(ready) /\ UNCHANGED <<listeners, sends, skipped>>
    <3>1. ready' \in Seq(Callbacks) BY <2>1, <2>2, TailType
    <3>2. pc' \in [Cmds -> PcValues] BY <2>2 DEF PcValues
    <3> QED BY <1>11, <2>2, <3>1, <3>2 DEF RunPublished
  <2>3. CASE Finish(c)
    <3>1. /\ ready' \in Seq(Callbacks)
          /\ pc' \in [Cmds -> PcValues]
          /\ armed' \subseteq Cmds
          /\ listeners' \in [Keys -> SUBSET Cmds]
          /\ sends' \subseteq [rep : Reports, chan : ChannelModes \cup {NoChannel},
                               via : Cmds \cup {Periodic}]
          /\ skipped' \subseteq [rep : Reports, via : Cmds \cup {Periodic}]
      BY <2>1, <2>3, FinishType
    <3> QED BY <1>11, <3>1 DEF RunPublished
  <2> QED BY <1>11, <2>2, <2>3 DEF RunPublished
<1>12. ASSUME NEW c \in Cmds, RunFailed(c)
       PROVE  TypeInv'
  BY <1>12 DEF RunFailed, Running, PcValues
<1>13. ASSUME NEW c \in Cmds, RunTimeout(c)
       PROVE  TypeInv'
  <2>1. ready # <<>> BY <1>13 DEF RunTimeout, Running
  <2>2. Task("gather", c) \in Callbacks BY TaskType DEF TaskKinds
  <2>3. Tail(ready) \in Seq(Callbacks) BY <2>1, TailType
  <2>4. ready' \in Seq(Callbacks)
    <3>1. \/ ready' = Tail(ready) \o <<Task("gather", c)>>
          \/ ready' = Tail(ready) \o <<>>
          \/ ready' = Tail(ready)
      BY <1>13 DEF RunTimeout
    <3> HIDE DEF TypeInv, TypeOK
    <3> QED BY <3>1, <2>2, <2>3
  <2>5. fut' \in [Cmds -> [Sids -> FutStates]]
    <3>1. [s \in Sids |-> IF s \in Pending(c) THEN "cancelled" ELSE fut[c][s]]
            \in [Sids -> FutStates]
      BY DEF FutStates
    <3>2. \/ UNCHANGED fut
          \/ fut' = [fut EXCEPT ![c] =
                [s \in Sids |-> IF s \in Pending(c) THEN "cancelled" ELSE fut[c][s]]]
      BY <1>13 DEF RunTimeout
    <3> QED BY <3>1, <3>2
  <2>6. expired' \subseteq Cmds BY <1>13 DEF RunTimeout
  <2> QED BY <1>13, <2>4, <2>5, <2>6 DEF RunTimeout
<1>14. ASSUME NEW c \in Cmds, RunGather(c)
       PROVE  TypeInv'
  BY <1>14, TaskType DEF RunGather, Running, TaskKinds
<1>15. ASSUME NEW c \in Cmds, RunWake(c)
       PROVE  TypeInv'
  BY <1>15, FinishType DEF RunWake, Running
<1>16. ASSUME RunBatch
       PROVE  TypeInv'
  <2> DEFINE batch == Head(ready).batch
             reps == {batch[i] : i \in DOMAIN batch}
  <2>1. batch \in Seq(Reports)
    BY <1>16, TailType, CallbackFields DEF RunBatch
  <2>2. reps \subseteq Reports BY <2>1
  <2>3. Sent(listeners, reps, "logging", Periodic)
          \subseteq [rep : Reports, chan : ChannelModes \cup {NoChannel},
                     via : Cmds \cup {Periodic}]
    BY <2>2 DEF Sent, ChannelModes
  <2>4. Skipped(listeners, reps, Periodic)
          \subseteq [rep : Reports, via : Cmds \cup {Periodic}]
    BY <2>2 DEF Skipped
  <2>5. ready' \in Seq(Callbacks)
    BY <1>16, <2>1, DispatchesType, QueueType DEF RunBatch
  <2> QED BY <1>16, <2>3, <2>4, <2>5 DEF RunBatch
<1>17. ASSUME RunDispatch
       PROVE  TypeInv'
  <2> DEFINE rep == Head(ready).rep
             taken == Takers(rep)
             complete == {c \in taken : pc[c] = "waiting" /\ Pending(c) = {rep.sid}}
  <2>1. rep \in Reports
    BY <1>17, TailType, CallbackFields DEF RunDispatch
  <2>2. taken \subseteq Cmds BY <2>1, KeyType DEF Takers
  <2>3. complete \subseteq Cmds /\ IsFiniteSet(complete)
    BY <2>2, ConstAssumption, FS_Subset
  <2>4. PICK order \in SetToSeqs(complete) : ready' = Tail(ready) \o Gathers(order)
    BY <1>17 DEF RunDispatch
  <2>5. order \in Seq(Cmds)
    <3>1. order \in Seq(complete) BY <2>3, EnumerationType
    <3> QED BY <3>1, <2>3
  <2>6. ready' \in Seq(Callbacks)
    BY <1>17, <2>4, <2>5, GathersType, QueueType DEF RunDispatch
  <2>7. result' \subseteq [cmd : Cmds, rep : Reports]
    BY <1>17, <2>1, <2>2 DEF RunDispatch
  <2>8. IsFiniteSet(result')
    <3> DEFINE new == {[cmd |-> c, rep |-> rep] : c \in taken}
               f == [c \in taken |-> [cmd |-> c, rep |-> rep]]
    <3>1. f \in Surjection(taken, new) BY DEF Surjection
    <3>2. IsFiniteSet(taken) BY <2>2, ConstAssumption, FS_Subset
    <3>3. IsFiniteSet(new) BY <3>1, <3>2, FS_Surjection
    <3>4. result' = result \cup new BY <1>17 DEF RunDispatch
    <3> HIDE DEF new
    <3> QED BY <3>3, <3>4, FS_Union
  <2>9. fut' \in [Cmds -> [Sids -> FutStates]]
    BY <1>17 DEF RunDispatch, FutStates
  <2>10. listeners' \in [Keys -> SUBSET Cmds]
    BY <1>17 DEF RunDispatch
  <2> QED BY <1>17, <2>6, <2>7, <2>8, <2>9, <2>10 DEF RunDispatch
<1>18. CASE UNCHANGED vars
  BY <1>18 DEF vars
<1> QED
  BY <1>1, <1>2, <1>3, <1>4, <1>5, <1>6, <1>7, <1>8, <1>9, <1>10, <1>11, <1>12,
     <1>13, <1>14, <1>15, <1>16, <1>17, <1>18 DEF Next, RunLoop

\* Every variable keeps its type, and no queued callback is malformed.
THEOREM TypeCorrect == Spec => []TypeOK
<1>1. TypeInv => TypeOK BY DEF TypeInv
<1> QED BY TypeInit, TypeStep, <1>1, PTL DEF Spec

-----------------------------------------------------------------------------
(* The inductive invariant of the request/response protocol.  The safety   *)
(* properties are not inductive: that a pending future stays registered    *)
(* depends on who may remove a slot, and that an answered command holds no *)
(* slot on why its gather completed.                                       *)

Started(c) == pc[c] \in {"publishing", "waiting", "crashed", "answered"}

\* A listener slot belongs to a started, unanswered command that asked for the
\* slot's key; its future is pending, or the command's timer has cancelled it.
SlotsOwned ==
    \A k \in Keys : \A c \in listeners[k] :
        /\ pc[c] \in {"publishing", "waiting", "crashed"}
        /\ k[1] = req[c].topic /\ k[2] \in req[c].targets
        /\ fut[c][k[2]] = "pending" \/ c \in expired

\* A command has futures exactly for its targets, from the moment it starts.
FuturesOfTargets ==
    \A c \in Cmds :
        /\ ~Started(c) => \A s \in Sids : fut[c][s] = "none"
        /\ Started(c) => \A s \in Sids : s \in req[c].targets <=> fut[c][s] # "none"
        /\ pc[c] = "answered" => Pending(c) = {}

\* gather completes only when nothing is left to wait for.
CompletionIsFinal ==
    \A i \in DOMAIN ready : ready[i].kind \in {"gather", "wake"} =>
        Started(ready[i].cmd) /\ Pending(ready[i].cmd) = {}

ProtocolInv ==
    /\ TypeInv
    /\ SlotsOwned
    /\ FuturesOfTargets
    /\ CompletionIsFinal
    /\ WaitersRegistered
    /\ ResultsMatchRequests

\* Each completion callback in the new queue was in the old one or is of a
\* command of D.
CompletionsOf(D) ==
    \A i \in DOMAIN ready' : ready'[i].kind \in {"gather", "wake"} =>
        \/ \E j \in DOMAIN ready : ready[j] = ready'[i]
        \/ ready'[i].cmd \in D
NoNewCompletion == CompletionsOf({})

\* Only the callbacks appended, to the queue or to its tail, can be new.
LEMMA AppendedCompletions ==
    ASSUME TypeInv, NEW D, NEW more \in Seq(Callbacks),
           \A i \in DOMAIN more :
              more[i].kind \in {"gather", "wake"} => more[i].cmd \in D,
           \/ ready' = ready \o more
           \/ ready # <<>> /\ ready' = Tail(ready) \o more
    PROVE  CompletionsOf(D)
<1> USE DEF TypeInv, TypeOK
<1>1. CASE ready' = ready \o more
  BY <1>1 DEF CompletionsOf
<1>2. CASE ready # <<>> /\ ready' = Tail(ready) \o more
  <2> SUFFICES ASSUME NEW i \in DOMAIN ready',
                      ready'[i].kind \in {"gather", "wake"}
               PROVE  \/ \E j \in DOMAIN ready : ready[j] = ready'[i]
                      \/ ready'[i].cmd \in D
    BY DEF CompletionsOf
  <2>1. Tail(ready) \in Seq(Callbacks) /\ Len(Tail(ready)) = Len(ready) - 1
    BY <1>2
  <2>2. CASE i \in 1..Len(Tail(ready))
    <3>1. ready'[i] = ready[i + 1] BY <1>2, <2>1, <2>2
    <3> QED BY <2>1, <2>2, <3>1
  <2>3. CASE i \notin 1..Len(Tail(ready))
    <3>1. i - Len(Tail(ready)) \in DOMAIN more
          /\ ready'[i] = more[i - Len(Tail(ready))]
      BY <1>2, <2>1, <2>3
    <3> QED BY <3>1
  <2> QED BY <2>2, <2>3
<1> QED BY <1>1, <1>2

\* The two common cases: one callback appended, or none.
LEMMA AppendOneNoCompletion ==
    ASSUME TypeInv, NEW cb \in Callbacks, cb.kind \notin {"gather", "wake"},
           ready' = Append(ready, cb)
    PROVE  NoNewCompletion
<1>1. <<cb>> \in Seq(Callbacks)
      /\ \A i \in DOMAIN <<cb>> :
            <<cb>>[i].kind \in {"gather", "wake"} => <<cb>>[i].cmd \in {}
  OBVIOUS
<1>2. ready' = ready \o <<cb>> BY DEF TypeInv, TypeOK
<1> QED BY <1>1, <1>2, AppendedCompletions DEF NoNewCompletion

LEMMA TailNoCompletion ==
    ASSUME TypeInv, ready # <<>>, ready' = Tail(ready)
    PROVE  NoNewCompletion
<1>1. <<>> \in Seq(Callbacks)
      /\ \A i \in DOMAIN <<>> :
            <<>>[i].kind \in {"gather", "wake"} => <<>>[i].cmd \in {}
  OBVIOUS
<1>2. ready' = Tail(ready) \o <<>> BY DEF TypeInv, TypeOK
<1> QED BY <1>1, <1>2, AppendedCompletions DEF NoNewCompletion

\* Commands never leave the started states, and what they wait for shrinks:
\* that keeps queued completions final.
LEMMA CompletionStep ==
    ASSUME TypeInv, CompletionIsFinal, NEW D \in SUBSET Cmds, CompletionsOf(D),
           \A c \in Cmds : Started(c) => Started(c)' /\ Pending(c)' \subseteq Pending(c),
           \A c \in D : Started(c)' /\ Pending(c)' = {}
    PROVE  CompletionIsFinal'
<1>1. ASSUME NEW i \in DOMAIN ready', ready'[i].kind \in {"gather", "wake"}
      PROVE  \E c \in Cmds : c = ready'[i].cmd /\ Started(c)' /\ Pending(c)' = {}
  <2>1. CASE ready'[i].cmd \in D
    BY <2>1
  <2>2. ASSUME NEW j \in DOMAIN ready, ready[j] = ready'[i]
        PROVE  \E c \in Cmds : c = ready'[i].cmd /\ Started(c)' /\ Pending(c)' = {}
    <3>1. ready[j] \in Callbacks BY DEF TypeInv, TypeOK
    <3>2. ready[j].cmd \in Cmds BY <1>1, <2>2, <3>1 DEF Callbacks, TaskKinds
    <3>3. Started(ready[j].cmd) /\ Pending(ready[j].cmd) = {}
      BY <1>1, <2>2 DEF CompletionIsFinal
    <3> QED BY <2>2, <3>2, <3>3
  <2> QED BY <1>1, <2>1, <2>2 DEF CompletionsOf
<1> QED BY <1>1 DEF CompletionIsFinal, Started, Pending

\* The environment's actions leave commands, futures and listeners alone.
LEMMA EnvironmentStep ==
    ASSUME ProtocolInv, TypeInv', NoNewCompletion,
           UNCHANGED <<pc, req, expired, fut, result, listeners>>
    PROVE  ProtocolInv'
<1>1. CompletionIsFinal'
  BY CompletionStep DEF ProtocolInv, NoNewCompletion, Started, Pending
<1>2. SlotsOwned' BY DEF ProtocolInv, SlotsOwned
<1>3. FuturesOfTargets' BY DEF ProtocolInv, FuturesOfTargets, Started, Pending
<1>4. WaitersRegistered' BY DEF ProtocolInv, WaitersRegistered, Pending
<1>5. ResultsMatchRequests' BY DEF ProtocolInv, ResultsMatchRequests
<1> QED BY <1>1, <1>2, <1>3, <1>4, <1>5 DEF ProtocolInv

LEMMA ProtocolInit == Init => ProtocolInv
<1> SUFFICES ASSUME Init PROVE ProtocolInv
  OBVIOUS
<1>1. TypeInv BY TypeInit
<1>2. SlotsOwned BY DEF Init, SlotsOwned
<1>3. FuturesOfTargets BY DEF Init, FuturesOfTargets, Started
<1>4. CompletionIsFinal BY DEF Init, CompletionIsFinal
<1>5. WaitersRegistered BY DEF Init, WaitersRegistered, Pending
<1>6. ResultsMatchRequests BY DEF Init, ResultsMatchRequests
<1> QED BY <1>1, <1>2, <1>3, <1>4, <1>5, <1>6 DEF ProtocolInv

\* Issuing a command changes only a command that has neither futures, slots nor
\* results.
LEMMA IssueStep ==
    ASSUME ProtocolInv, TypeInv', NEW c \in Cmds, NEW topic \in Topics,
           NEW chan \in Channels, NEW strategy \in Sids \cup {AllStrategies},
           Issue(c, topic, chan, strategy)
    PROVE  ProtocolInv'
<1> USE DEF ProtocolInv, TypeInv, TypeOK
<1>1. NoNewCompletion
  BY AppendOneNoCompletion, TaskType DEF Issue, Task, TaskKinds
<1>2. \A d \in Cmds : d # c => pc'[d] = pc[d] /\ req'[d] = req[d]
  BY DEF Issue
<1>3. pc[c] = "idle" /\ pc'[c] = "issued" BY DEF Issue
<1>4. UNCHANGED <<expired, fut, result, listeners>> BY DEF Issue
<1>5. ~Started(c) /\ ~Started(c)' BY <1>3 DEF Started
<1>6. \A s \in Sids : fut[c][s] = "none" BY <1>5 DEF FuturesOfTargets
<1>7. \A d \in Cmds : d # c => Pending(d)' = Pending(d) /\ Started(d)' = Started(d)
  BY <1>2, <1>4 DEF Pending, Started
<1>8. Pending(c)' = {} BY <1>4, <1>6 DEF Pending, Requests
<1>9. SlotsOwned'
  <2> SUFFICES ASSUME NEW k \in Keys, NEW d \in listeners[k]
               PROVE  /\ pc'[d] \in {"publishing", "waiting", "crashed"}
                      /\ k[1] = req'[d].topic /\ k[2] \in req'[d].targets
                      /\ fut[d][k[2]] = "pending" \/ d \in expired
    BY <1>4 DEF SlotsOwned
  <2>1. d \in Cmds /\ pc[d] \in {"publishing", "waiting", "crashed"}
    BY DEF SlotsOwned
  <2>2. d # c BY <2>1, <1>3
  <2> QED BY <2>1, <2>2, <1>2 DEF SlotsOwned
<1>10. FuturesOfTargets'
  <2> SUFFICES ASSUME NEW d \in Cmds
               PROVE  /\ ~Started(d)' => \A s \in Sids : fut[d][s] = "none"
                      /\ Started(d)' => \A s \in Sids :
                            s \in req'[d].targets <=> fut[d][s] # "none"
                      /\ pc'[d] = "answered" => Pending(d)' = {}
    BY <1>4 DEF FuturesOfTargets
  <2>1. CASE d = c BY <2>1, <1>3, <1>5, <1>6
  <2>2. CASE d # c BY <2>2, <1>2, <1>7 DEF FuturesOfTargets
  <2> QED BY <2>1, <2>2
<1>11. CompletionIsFinal' BY <1>1, <1>5, <1>7, CompletionStep
      DEF NoNewCompletion
<1>12. WaitersRegistered' BY <1>2, <1>4, <1>7, <1>8 DEF WaitersRegistered
<1>13. ResultsMatchRequests'
  <2>1. \A x \in result : x.cmd # c
    BY <1>6 DEF ResultsMatchRequests, Reports
  <2> QED BY <2>1, <1>2, <1>4 DEF ResultsMatchRequests
<1> QED BY <1>9, <1>10, <1>11, <1>12, <1>13

\* Subscribing creates one pending future and one slot per target.
LEMMA StartStep ==
    ASSUME ProtocolInv, TypeInv', NEW c \in Cmds, RunStart(c)
    PROVE  ProtocolInv'
<1> USE DEF ProtocolInv, TypeInv, TypeOK
<1>1. NoNewCompletion BY TailNoCompletion DEF RunStart, Running
<1>2. pc[c] = "issued" /\ ~Started(c) BY DEF RunStart, Started
<1>3. UNCHANGED <<req, expired, result>> BY DEF RunStart
<1>4. \A s \in Sids : fut[c][s] = "none" BY <1>2 DEF FuturesOfTargets
<1>5. \A k \in Keys : c \notin listeners[k] BY <1>2 DEF SlotsOwned
<1>6. \A x \in result : x.cmd # c BY <1>4 DEF ResultsMatchRequests, Reports
<1>7. CASE /\ pc' = [pc EXCEPT ![c] = "rejected"]
           /\ UNCHANGED <<fut, listeners>>
  <2>1. \A d \in Cmds : (d # c => pc'[d] = pc[d]) /\ Pending(d)' = Pending(d)
    BY <1>3, <1>7 DEF Pending
  <2>2. ~Started(c)' BY <1>7 DEF Started
  <2>3. \A d \in Cmds : d # c => Started(d)' = Started(d) BY <2>1 DEF Started
  <2>4. SlotsOwned' BY <1>3, <1>5, <1>7, <2>1 DEF SlotsOwned
  <2>5. FuturesOfTargets'
    BY <1>3, <1>4, <1>7, <2>1, <2>2, <2>3 DEF FuturesOfTargets
  <2>6. CompletionIsFinal' BY <1>1, <1>2, <2>1, <2>3, CompletionStep
      DEF NoNewCompletion
  <2>7. WaitersRegistered' BY <1>3, <1>7, <2>1 DEF WaitersRegistered
  <2>8. ResultsMatchRequests' BY <1>3, <1>7 DEF ResultsMatchRequests
  <2> QED BY <2>4, <2>5, <2>6, <2>7, <2>8
<1>8. CASE /\ pc' = [pc EXCEPT ![c] = "publishing"]
           /\ fut' = [fut EXCEPT ![c] =
                [s \in Sids |-> IF s \in req[c].targets THEN "pending" ELSE "none"]]
           /\ listeners' = [k \in Keys |->
                IF k[1] = req[c].topic /\ k[2] \in req[c].targets
                THEN listeners[k] \cup {c} ELSE listeners[k]]
  <2>1. \A d \in Cmds : d # c => pc'[d] = pc[d] /\ fut'[d] = fut[d]
    BY <1>8
  <2>2. pc'[c] = "publishing" /\ Started(c)' BY <1>8 DEF Started
  <2>3. \A s \in Sids : fut'[c][s] = IF s \in req[c].targets THEN "pending" ELSE "none"
    BY <1>8
  <2>4. \A d \in Cmds : d # c =>
           Started(d)' = Started(d) /\ Pending(d)' = Pending(d)
    BY <1>3, <2>1 DEF Started, Pending
  <2>5. \A k \in Keys : \A d \in Cmds :
           d \in listeners'[k] <=>
              \/ d \in listeners[k]
              \/ d = c /\ k[1] = req[c].topic /\ k[2] \in req[c].targets
    BY <1>8
  <2>6. \A k \in Keys : k[2] \in Sids BY DEF Keys
  <2>7. SlotsOwned'
    <3> SUFFICES ASSUME NEW k \in Keys, NEW d \in Cmds, d \in listeners'[k]
                 PROVE  /\ pc'[d] \in {"publishing", "waiting", "crashed"}
                        /\ k[1] = req[d].topic /\ k[2] \in req[d].targets
                        /\ fut'[d][k[2]] = "pending" \/ d \in expired
      BY <1>3 DEF SlotsOwned
    <3>1. CASE d = c BY <3>1, <1>5, <2>2, <2>3, <2>5, <2>6
    <3>2. CASE d # c BY <3>2, <2>1, <2>5 DEF SlotsOwned
    <3> QED BY <3>1, <3>2
  <2>8. FuturesOfTargets'
    <3> SUFFICES ASSUME NEW d \in Cmds
                 PROVE  /\ ~Started(d)' => \A s \in Sids : fut'[d][s] = "none"
                        /\ Started(d)' => \A s \in Sids :
                              s \in req'[d].targets <=> fut'[d][s] # "none"
                        /\ pc'[d] = "answered" => Pending(d)' = {}
      BY DEF FuturesOfTargets
    <3>1. CASE d = c BY <3>1, <1>3, <2>2, <2>3
    <3>2. CASE d # c BY <3>2, <1>3, <2>1, <2>4 DEF FuturesOfTargets
    <3> QED BY <3>1, <3>2
  <2>9. CompletionIsFinal' BY <1>1, <1>2, <2>4, CompletionStep
      DEF NoNewCompletion
  <2>10. WaitersRegistered'
    <3> SUFFICES ASSUME NEW d \in Cmds, NEW s \in Pending(d)'
                 PROVE  d \in listeners'[<<req[d].topic, s>>]
      BY <1>3 DEF WaitersRegistered
    <3>1. s \in req[d].targets /\ s \in Sids /\ req[d].topic \in Topics
      BY <1>3 DEF Pending, Requests
    <3>2. <<req[d].topic, s>> \in Keys BY <3>1 DEF Keys
    <3>3. CASE d = c BY <3>1, <3>2, <3>3, <2>5
    <3>4. CASE d # c BY <3>2, <3>4, <2>4, <2>5 DEF WaitersRegistered
    <3> QED BY <3>3, <3>4
  <2>11. ResultsMatchRequests' BY <1>3, <1>6, <2>1 DEF ResultsMatchRequests
  <2> QED BY <2>7, <2>8, <2>9, <2>10, <2>11
<1> QED BY <1>7, <1>8 DEF RunStart

\* A step of the loop that moves one started command to another started, not
\* answered state and touches no future keeps the invariant.
LEMMA MoveStep ==
    ASSUME ProtocolInv, TypeInv', NoNewCompletion, NEW c \in Cmds, NEW to,
           to \in {"waiting", "crashed"}, pc[c] = "publishing",
           pc' = [pc EXCEPT ![c] = to],
           UNCHANGED <<req, expired, fut, result, listeners>>
    PROVE  ProtocolInv'
<1> USE DEF ProtocolInv, TypeInv, TypeOK
<1>1. \A d \in Cmds : /\ Started(d)' = Started(d)
                      /\ Pending(d)' = Pending(d)
                      /\ pc'[d] = "answered" => pc[d] = "answered"
  BY DEF Started, Pending
<1>2. SlotsOwned' BY DEF SlotsOwned
<1>3. FuturesOfTargets' BY <1>1 DEF FuturesOfTargets
<1>4. CompletionIsFinal' BY <1>1, CompletionStep
      DEF NoNewCompletion
<1>5. WaitersRegistered' BY <1>1 DEF WaitersRegistered
<1>6. ResultsMatchRequests' BY DEF ResultsMatchRequests
<1> QED BY <1>2, <1>3, <1>4, <1>5, <1>6

\* A command that finishes waits for nothing: it holds no slot, or its timer has
\* expired and it gives all of them back.
LEMMA FinishStep ==
    ASSUME ProtocolInv, TypeInv', ready # <<>>, NEW c \in Cmds, Finish(c),
           pc[c] \in {"publishing", "waiting"}, Pending(c) = {},
           UNCHANGED <<req, expired, fut, result>>
    PROVE  ProtocolInv'
<1> USE DEF ProtocolInv, TypeInv, TypeOK
<1>1. pc' = [pc EXCEPT ![c] = "answered"] BY DEF Finish
<1>2. \A d \in Cmds : Started(d)' = Started(d) /\ Pending(d)' = Pending(d)
  BY <1>1 DEF Started, Pending
<1>3. NoNewCompletion
  <2>1. PICK order \in SetToSeqs(Replies(c)) :
           ready' = Tail(ready) \o Dispatches(order)
    BY DEF Finish
  <2>2. order \in Seq(Reports)
    <3>1. Replies(c) \subseteq Reports /\ IsFiniteSet(Replies(c)) BY RepliesType
    <3>2. order \in Seq(Replies(c)) BY <3>1, EnumerationType
    <3> QED BY <3>1, <3>2
  <2>3. /\ Dispatches(order) \in Seq(Callbacks)
        /\ \A i \in DOMAIN Dispatches(order) : Dispatches(order)[i].kind = "dispatch"
    BY <2>2, DispatchesType
  <2>4. \A i \in DOMAIN Dispatches(order) :
           Dispatches(order)[i].kind \in {"gather", "wake"}
              => Dispatches(order)[i].cmd \in {}
    BY <2>3
  <2>5. TypeInv OBVIOUS
  <2> HIDE DEF ProtocolInv, TypeInv, TypeOK
  <2>6. CompletionsOf({}) BY <2>1, <2>3, <2>4, <2>5, AppendedCompletions
  <2> QED BY <2>6 DEF NoNewCompletion
<1>4. \A k \in Keys : listeners'[k] \subseteq listeners[k] /\ c \notin listeners'[k]
  <2> SUFFICES ASSUME NEW k \in Keys
               PROVE  listeners'[k] \subseteq listeners[k] /\ c \notin listeners'[k]
    OBVIOUS
  <2>1. CASE c \in expired
    <3>1. listeners'[k] = IF k[1] = req[c].topic /\ k[2] \in req[c].targets
                          THEN listeners[k] \ {c} ELSE listeners[k]
      BY <2>1 DEF Finish, Dropped
    <3> QED BY <3>1 DEF SlotsOwned
  <2>2. CASE c \notin expired
    <3>1. listeners' = listeners BY <2>2 DEF Finish
    <3>2. c \notin listeners[k] BY <2>2 DEF SlotsOwned, Pending
    <3> QED BY <3>1, <3>2
  <2> QED BY <2>1, <2>2
<1>5. \A k \in Keys : \A d \in Cmds :
         d # c => (d \in listeners'[k] <=> d \in listeners[k])
  <2>1. \/ listeners' = listeners
        \/ listeners' = [k \in Keys |->
              IF k[1] = req[c].topic /\ k[2] \in req[c].targets
              THEN listeners[k] \ {c} ELSE listeners[k]]
    BY DEF Finish, Dropped
  <2> SUFFICES ASSUME NEW k \in Keys, NEW d \in Cmds, d # c
               PROVE  d \in listeners'[k] <=> d \in listeners[k]
    OBVIOUS
  <2>2. listeners'[k] \in {listeners[k], listeners[k] \ {c}} BY <2>1
  <2> QED BY <2>2
<1>6. SlotsOwned'
  <2> SUFFICES ASSUME NEW k \in Keys, NEW d \in listeners'[k]
               PROVE  /\ pc'[d] \in {"publishing", "waiting", "crashed"}
                      /\ k[1] = req[d].topic /\ k[2] \in req[d].targets
                      /\ fut[d][k[2]] = "pending" \/ d \in expired
    BY DEF SlotsOwned
  <2>1. d \in listeners[k] /\ d \in Cmds /\ d # c BY <1>4
  <2>2. pc'[d] = pc[d] BY <1>1, <2>1
  <2> QED BY <2>1, <2>2 DEF SlotsOwned
<1>7. FuturesOfTargets'
  <2> SUFFICES ASSUME NEW d \in Cmds
               PROVE  /\ ~Started(d)' => \A s \in Sids : fut[d][s] = "none"
                      /\ Started(d)' => \A s \in Sids :
                            s \in req[d].targets <=> fut[d][s] # "none"
                      /\ pc'[d] = "answered" => Pending(d)' = {}
    BY DEF FuturesOfTargets
  <2>1. CASE d = c BY <2>1, <1>2 DEF FuturesOfTargets
  <2>2. CASE d # c BY <2>2, <1>1, <1>2 DEF FuturesOfTargets
  <2> QED BY <2>1, <2>2
<1>8. CompletionIsFinal' BY <1>2, <1>3, CompletionStep
      DEF NoNewCompletion
<1>9. WaitersRegistered'
  <2> SUFFICES ASSUME NEW d \in Cmds, NEW s \in Pending(d)
               PROVE  d \in listeners'[<<req[d].topic, s>>]
    BY <1>2 DEF WaitersRegistered
  <2>1. d # c OBVIOUS
  <2>2. <<req[d].topic, s>> \in Keys BY DEF Keys, Pending, Requests
  <2> QED BY <2>1, <2>2, <1>5 DEF WaitersRegistered
<1>10. ResultsMatchRequests' BY DEF ResultsMatchRequests
<1> QED BY <1>6, <1>7, <1>8, <1>9, <1>10

\* The head of the queue, when it is a completion, says that c is done waiting.
LEMMA HeadCompletion ==
    ASSUME ProtocolInv, NEW c \in Cmds,
           Running("gather", c) \/ Running("wake", c)
    PROVE  Started(c) /\ Pending(c) = {}
<1>1. ready \in Seq(Callbacks) /\ ready # <<>>
  BY DEF ProtocolInv, TypeInv, TypeOK, Running
<1>2. 1 \in DOMAIN ready /\ Head(ready) = ready[1] BY <1>1
<1>3. ready[1].kind \in {"gather", "wake"} /\ ready[1].cmd = c
  BY <1>2 DEF Running, Task
<1> QED BY <1>2, <1>3 DEF ProtocolInv, CompletionIsFinal

\* Cancelling the futures still pending leaves nothing to wait for.
LEMMA TimeoutStep ==
    ASSUME ProtocolInv, TypeInv', NEW c \in Cmds, RunTimeout(c)
    PROVE  ProtocolInv'
<1> USE DEF ProtocolInv, TypeInv, TypeOK
<1>1. ready # <<>> BY DEF RunTimeout, Running
<1>2. UNCHANGED <<pc, req, result, listeners>> BY DEF RunTimeout
<1>3. CASE ready' = Tail(ready) /\ UNCHANGED <<expired, fut>>
  <2>1. NoNewCompletion BY <1>1, <1>3, TailNoCompletion
  <2> HIDE DEF ProtocolInv
  <2> QED BY <1>2, <1>3, <2>1, EnvironmentStep
<1>4. CASE /\ pc[c] = "waiting"
           /\ expired' = expired \cup {c}
           /\ fut' = [fut EXCEPT ![c] = [s \in Sids |->
                        IF s \in Pending(c) THEN "cancelled" ELSE fut[c][s]]]
           /\ ready' = Tail(ready) \o
                 (IF Pending(c) # {} THEN <<Task("gather", c)>> ELSE <<>>)
  <2>1. \A d \in Cmds : d # c => fut'[d] = fut[d] BY <1>4
  <2>2. \A s \in Sids :
           fut'[c][s] = IF s \in Pending(c) THEN "cancelled" ELSE fut[c][s]
    BY <1>4
  <2>3. Pending(c)' = {} BY <1>2, <2>2 DEF Pending, Requests
  <2>4. \A d \in Cmds : /\ Started(d)' = Started(d)
                        /\ d # c => Pending(d)' = Pending(d)
    BY <1>2, <2>1 DEF Started, Pending
  <2>5. Started(c)' BY <1>2, <1>4 DEF Started
  <2>6. CompletionsOf({c})
    <3>1. PICK more \in {<<>>, <<Task("gather", c)>>} : ready' = Tail(ready) \o more
      BY <1>4
    <3>2. more \in Seq(Callbacks) BY <3>1, TaskType DEF TaskKinds
    <3>3. \A i \in DOMAIN more :
             more[i].kind \in {"gather", "wake"} => more[i].cmd \in {c}
      BY <3>1 DEF Task
    <3>4. TypeInv OBVIOUS
    <3> HIDE DEF ProtocolInv, TypeInv, TypeOK
    <3> QED BY <1>1, <3>1, <3>2, <3>3, <3>4, AppendedCompletions
  <2>7. CompletionIsFinal' BY <2>3, <2>4, <2>5, <2>6, CompletionStep
  <2>8. SlotsOwned'
    <3> SUFFICES ASSUME NEW k \in Keys, NEW d \in listeners[k]
                 PROVE  /\ pc[d] \in {"publishing", "waiting", "crashed"}
                        /\ k[1] = req[d].topic /\ k[2] \in req[d].targets
                        /\ fut'[d][k[2]] = "pending" \/ d \in expired'
      BY <1>2 DEF SlotsOwned
    <3>1. CASE d = c BY <3>1, <1>4 DEF SlotsOwned
    <3>2. CASE d # c BY <3>2, <1>4, <2>1 DEF SlotsOwned
    <3> QED BY <3>1, <3>2
  <2>9. FuturesOfTargets'
    <3> SUFFICES ASSUME NEW d \in Cmds
                 PROVE  /\ ~Started(d) => \A s \in Sids : fut'[d][s] = "none"
                        /\ Started(d) => \A s \in Sids :
                              s \in req[d].targets <=> fut'[d][s] # "none"
                        /\ pc[d] = "answered" => Pending(d)' = {}
      BY <1>2, <2>4 DEF FuturesOfTargets
    <3>1. CASE d = c
      <4>1. Started(c) BY <2>4, <2>5
      <4>2. \A s \in Sids : s \in req[c].targets <=> fut[c][s] # "none"
        BY <4>1 DEF FuturesOfTargets
      <4>3. \A s \in Sids : s \in req[c].targets <=> fut'[c][s] # "none"
        BY <4>2, <2>2 DEF Pending
      <4> QED BY <3>1, <4>1, <4>3, <2>3
    <3>2. CASE d # c BY <3>2, <2>1, <2>4 DEF FuturesOfTargets
    <3> QED BY <3>1, <3>2
  <2>10. WaitersRegistered' BY <1>2, <2>3, <2>4 DEF WaitersRegistered
  <2>11. ResultsMatchRequests'
    <3>1. \A x \in result : fut'[x.cmd][x.rep.sid] = "resolved"
      <4> SUFFICES ASSUME NEW x \in result
                   PROVE  fut'[x.cmd][x.rep.sid] = "resolved"
        OBVIOUS
      <4>1. x.cmd \in Cmds /\ x.rep.sid \in Sids BY DEF Reports
      <4>2. fut[x.cmd][x.rep.sid] = "resolved" BY DEF ResultsMatchRequests
      <4> QED BY <4>1, <4>2, <2>1, <2>2 DEF Pending
    <3> QED BY <3>1, <1>2 DEF ResultsMatchRequests
  <2> QED BY <2>7, <2>8, <2>9, <2>10, <2>11
<1> QED BY <1>3, <1>4 DEF RunTimeout

LEMMA GatherStep ==
    ASSUME ProtocolInv, TypeInv', NEW c \in Cmds, RunGather(c)
    PROVE  ProtocolInv'
<1>1. Started(c) /\ Pending(c) = {} BY HeadCompletion DEF RunGather
<1>2. UNCHANGED <<pc, req, expired, fut, result, listeners>> BY DEF RunGather
<1>3. CompletionsOf({c})
  <2>1. ready' = Tail(ready) \o <<Task("wake", c)>> /\ ready # <<>>
    BY DEF RunGather, Running, ProtocolInv, TypeInv, TypeOK
  <2>2. <<Task("wake", c)>> \in Seq(Callbacks) BY TaskType DEF TaskKinds
  <2>3. \A i \in DOMAIN <<Task("wake", c)>> : <<Task("wake", c)>>[i].cmd \in {c}
    BY DEF Task
  <2> QED BY <2>1, <2>2, <2>3, AppendedCompletions DEF ProtocolInv
<1>4. \A d \in Cmds : Started(d)' = Started(d) /\ Pending(d)' = Pending(d)
  BY <1>2 DEF Started, Pending
<1>5. CompletionIsFinal' BY <1>1, <1>3, <1>4, CompletionStep DEF ProtocolInv
<1>6. SlotsOwned' BY <1>2 DEF ProtocolInv, SlotsOwned
<1>7. FuturesOfTargets' BY <1>2, <1>4 DEF ProtocolInv, FuturesOfTargets
<1>8. WaitersRegistered' BY <1>2, <1>4 DEF ProtocolInv, WaitersRegistered
<1>9. ResultsMatchRequests' BY <1>2 DEF ProtocolInv, ResultsMatchRequests
<1> QED BY <1>5, <1>6, <1>7, <1>8, <1>9 DEF ProtocolInv

LEMMA BatchStep ==
    ASSUME ProtocolInv, TypeInv', RunBatch
    PROVE  ProtocolInv'
<1> DEFINE batch == Head(ready).batch
<1>1. batch \in Seq(Reports)
  BY TailType, CallbackFields DEF RunBatch, ProtocolInv, TypeInv, TypeOK
<1>2. ready # <<>> /\ ready' = Tail(ready) \o Dispatches(batch) BY DEF RunBatch
<1>3. UNCHANGED <<pc, req, expired, fut, result, listeners>> BY DEF RunBatch
<1> HIDE DEF batch
<1>4. /\ Dispatches(batch) \in Seq(Callbacks)
      /\ \A i \in DOMAIN Dispatches(batch) :
            Dispatches(batch)[i].kind \in {"gather", "wake"}
               => Dispatches(batch)[i].cmd \in {}
  BY <1>1, DispatchesType
<1>5. NoNewCompletion
  BY <1>2, <1>4, AppendedCompletions DEF ProtocolInv, NoNewCompletion
<1> QED BY <1>3, <1>5, EnvironmentStep

\* A dispatch resolves exactly the futures registered under the report's key,
\* and every slot it pops is one of those or one a timeout already cancelled.
LEMMA DispatchStep ==
    ASSUME ProtocolInv, TypeInv', RunDispatch
    PROVE  ProtocolInv'
<1> DEFINE rep == Head(ready).rep
           taken == Takers(rep)
           complete == {c \in taken : pc[c] = "waiting" /\ Pending(c) = {rep.sid}}
<1> USE DEF ProtocolInv, TypeInv, TypeOK
<1>1. rep \in Reports BY TailType, CallbackFields DEF RunDispatch
<1>2. Key(rep) \in Keys /\ rep.sid \in Sids /\ Key(rep)[1] = rep.topic
      /\ Key(rep)[2] = rep.sid
  BY <1>1, KeyType DEF Key, Reports
<1>3. taken \subseteq Cmds BY <1>2 DEF Takers
<1>4. UNCHANGED <<pc, req, expired>> BY DEF RunDispatch
<1>5. result' = result \cup {[cmd |-> c, rep |-> rep] : c \in taken}
  BY DEF RunDispatch
<1>6. listeners' = [listeners EXCEPT ![Key(rep)] = {}] BY DEF RunDispatch
<1>7. \A d \in Cmds : \A s \in Sids :
         fut'[d][s] = IF d \in taken /\ s = rep.sid THEN "resolved" ELSE fut[d][s]
  BY DEF RunDispatch
<1>8. PICK order \in SetToSeqs(complete) : ready' = Tail(ready) \o Gathers(order)
  BY DEF RunDispatch
<1>9. ready # <<>> BY DEF RunDispatch
<1>10. \A c \in taken : /\ c \in listeners[Key(rep)]
                        /\ fut[c][rep.sid] = "pending"
                        /\ req[c].topic = rep.topic
                        /\ rep.sid \in req[c].targets
  BY <1>2 DEF Takers, SlotsOwned
<1> HIDE DEF rep, taken
<1>11. \A d \in Cmds : Started(d)' = Started(d) /\ Pending(d)' \subseteq Pending(d)
  BY <1>4, <1>7 DEF Started, Pending, Requests
<1>12. \A c \in complete : Started(c)' /\ Pending(c)' = {}
  <2> SUFFICES ASSUME NEW c \in complete
               PROVE  Started(c)' /\ Pending(c)' = {}
    OBVIOUS
  <2>1. c \in Cmds /\ c \in taken /\ pc[c] = "waiting" /\ Pending(c) = {rep.sid}
    BY <1>3
  <2>2. fut'[c][rep.sid] = "resolved" BY <1>2, <1>7, <2>1
  <2>3. rep.sid \notin Pending(c)' BY <2>2 DEF Pending
  <2>4. Pending(c)' \subseteq {rep.sid} BY <1>11, <2>1
  <2>5. Started(c)' BY <1>4, <2>1 DEF Started
  <2> QED BY <2>3, <2>4, <2>5
<1>13. CompletionsOf(complete)
  <2>1. complete \subseteq Cmds /\ IsFiniteSet(complete)
    BY <1>3, ConstAssumption, FS_Subset
  <2>2. order \in Seq(complete) BY <2>1, EnumerationType
  <2>3. order \in Seq(Cmds) BY <2>1, <2>2
  <2>4. Gathers(order) \in Seq(Callbacks) BY <2>3, GathersType
  <2>5. \A i \in DOMAIN Gathers(order) : Gathers(order)[i].cmd \in complete
    BY <2>2 DEF Gathers, Task
  <2>6. TypeInv OBVIOUS
  <2> HIDE DEF ProtocolInv, TypeInv, TypeOK, complete
  <2> QED BY <1>8, <1>9, <2>4, <2>5, <2>6, AppendedCompletions
<1>14. CompletionIsFinal'
  <2>1. complete \in SUBSET Cmds BY <1>3
  <2>2. CompletionIsFinal /\ TypeInv OBVIOUS
  <2> HIDE DEF ProtocolInv, TypeInv, TypeOK, complete
  <2> QED BY <1>11, <1>12, <1>13, <2>1, <2>2, CompletionStep
<1>15. SlotsOwned'
  <2> SUFFICES ASSUME NEW k \in Keys, NEW d \in listeners'[k]
               PROVE  /\ pc[d] \in {"publishing", "waiting", "crashed"}
                      /\ k[1] = req[d].topic /\ k[2] \in req[d].targets
                      /\ fut'[d][k[2]] = "pending" \/ d \in expired
    BY <1>4 DEF SlotsOwned
  <2>1. k # Key(rep) /\ d \in listeners[k] BY <1>2, <1>6
  <2>2. d \in Cmds /\ k[2] \in Sids /\ k = <<k[1], k[2]>> BY <2>1 DEF Keys
  <2>3. fut'[d][k[2]] = fut[d][k[2]]
    <3>1. CASE d \in taken /\ k[2] = rep.sid
      <4>1. k[1] = rep.topic BY <3>1, <1>10, <2>1 DEF SlotsOwned
      <4> QED BY <3>1, <4>1, <2>1, <2>2 DEF Key
    <3>2. CASE ~(d \in taken /\ k[2] = rep.sid) BY <3>2, <1>7, <2>2
    <3> QED BY <3>1, <3>2
  <2> QED BY <2>1, <2>3 DEF SlotsOwned
<1>16. FuturesOfTargets'
  <2> SUFFICES ASSUME NEW d \in Cmds
               PROVE  /\ ~Started(d) => \A s \in Sids : fut'[d][s] = "none"
                      /\ Started(d) => \A s \in Sids :
                            s \in req[d].targets <=> fut'[d][s] # "none"
                      /\ pc[d] = "answered" => Pending(d)' = {}
    BY <1>4, <1>11 DEF FuturesOfTargets
  <2>1. \A s \in Sids : fut'[d][s] = "none" <=> fut[d][s] = "none"
    BY <1>7, <1>10
  <2> QED BY <2>1, <1>11 DEF FuturesOfTargets
<1>17. WaitersRegistered'
  <2> SUFFICES ASSUME NEW d \in Cmds, NEW s \in Pending(d)'
               PROVE  d \in listeners'[<<req[d].topic, s>>]
    BY <1>4 DEF WaitersRegistered
  <2>1. s \in Pending(d) /\ s \in Sids BY <1>4, <1>11 DEF Pending, Requests
  <2>2. d \in listeners[<<req[d].topic, s>>] BY <2>1 DEF WaitersRegistered
  <2>3. <<req[d].topic, s>> \in Keys BY <2>1 DEF Keys, Requests
  <2>4. <<req[d].topic, s>> # Key(rep)
    <3> SUFFICES ASSUME <<req[d].topic, s>> = Key(rep) PROVE FALSE
      OBVIOUS
    <3>1. s = rep.sid BY <1>2
    <3>2. d \in taken BY <2>1, <2>2, <3>1 DEF taken, Takers, Pending
    <3>3. fut'[d][s] = "resolved" BY <1>7, <2>1, <3>1, <3>2
    <3> QED BY <3>3 DEF Pending
  <2> QED BY <1>6, <2>2, <2>3, <2>4
<1>18. ResultsMatchRequests'
  <2>1. \A x \in result' : \/ x \in result
                           \/ x.cmd \in taken /\ x.rep = rep
    BY <1>5
  <2>2. \A x \in result : /\ x.cmd \in Cmds /\ x.rep.sid \in Sids
                          /\ x.rep.topic = req[x.cmd].topic
                          /\ x.rep.sid \in req[x.cmd].targets
                          /\ fut[x.cmd][x.rep.sid] = "resolved"
    BY DEF ResultsMatchRequests, Reports
  <2>3. \A x \in result : ~(x.cmd \in taken /\ x.rep.sid = rep.sid)
    BY <1>10, <2>2
  <2>4. ASSUME NEW x \in result'
        PROVE  /\ x.rep.topic = req[x.cmd].topic
               /\ x.rep.sid \in req[x.cmd].targets
               /\ fut'[x.cmd][x.rep.sid] = "resolved"
    <3>1. CASE x \in result BY <3>1, <1>7, <2>2
    <3>2. CASE x.cmd \in taken /\ x.rep = rep BY <3>2, <1>2, <1>3, <1>7, <1>10
    <3> QED BY <2>1, <3>1, <3>2
  <2>5. ASSUME NEW x \in result', NEW y \in result',
               x.cmd = y.cmd, x.rep.sid = y.rep.sid
        PROVE  x.rep = y.rep
    <3>1. CASE x \in result /\ y \in result
      BY <2>5, <3>1 DEF ResultsMatchRequests
    <3>2. CASE x \notin result \/ y \notin result
      BY <2>1, <2>3, <2>5, <3>2
    <3> QED BY <3>1, <3>2
  <2> QED BY <1>4, <2>4, <2>5 DEF ResultsMatchRequests
<1> QED BY <1>14, <1>15, <1>16, <1>17, <1>18

LEMMA ProtocolStep == ProtocolInv /\ [Next]_vars => ProtocolInv'
<1> SUFFICES ASSUME ProtocolInv, [Next]_vars PROVE ProtocolInv'
  OBVIOUS
<1>1. TypeInv' BY TypeStep DEF ProtocolInv
<1>2. TypeInv BY DEF ProtocolInv
<1>3. ready \in Seq(Callbacks) BY <1>2 DEF TypeInv, TypeOK
<1>4. ready' = ready => NoNewCompletion BY DEF NoNewCompletion, CompletionsOf
<1>5. ASSUME NEW c \in Cmds, NEW topic \in Topics, NEW chan \in Channels,
             NEW strategy \in Sids \cup {AllStrategies},
             Issue(c, topic, chan, strategy)
      PROVE  ProtocolInv'
  BY <1>1, <1>5, IssueStep
<1>6. ASSUME NEW c \in Cmds, NEW s \in Sids, PublishOne(c, s)
      PROVE  ProtocolInv'
  BY <1>1, <1>4, <1>6, EnvironmentStep DEF PublishOne, loopVars
<1>7. ASSUME NEW c \in Cmds, NEW s \in Sids, PublishFails(c, s)
      PROVE  ProtocolInv'
  <2>1. NoNewCompletion
    BY <1>2, <1>4, <1>7, TaskType, AppendOneNoCompletion
       DEF PublishFails, Task, TaskKinds
  <2> QED BY <1>1, <1>7, <2>1, EnvironmentStep DEF PublishFails
<1>8. ASSUME NEW c \in Cmds, PublishesReturn(c)
      PROVE  ProtocolInv'
  <2>1. NoNewCompletion
    BY <1>2, <1>8, TaskType, AppendOneNoCompletion
       DEF PublishesReturn, Task, TaskKinds
  <2> QED BY <1>1, <1>8, <2>1, EnvironmentStep DEF PublishesReturn
<1>9. ASSUME NEW c \in Cmds, TimerFires(c)
      PROVE  ProtocolInv'
  <2>1. NoNewCompletion
    BY <1>2, <1>9, TaskType, AppendOneNoCompletion DEF TimerFires, Task, TaskKinds
  <2> QED BY <1>1, <1>9, <2>1, EnvironmentStep DEF TimerFires
<1>10. ASSUME NEW s \in Sids, PodReplies(s) \/ PodDrops(s)
       PROVE  ProtocolInv'
  BY <1>1, <1>4, <1>10, EnvironmentStep DEF PodReplies, PodDrops, loopVars
<1>11. ASSUME NEW s \in Sids, NEW topic \in PeriodicTopics, PodPeriodic(s, topic)
       PROVE  ProtocolInv'
  BY <1>1, <1>4, <1>11, EnvironmentStep DEF PodPeriodic, loopVars
<1>12. ASSUME XreadReturns
       PROVE  ProtocolInv'
  <2>1. [kind |-> "batch", batch |-> stream] \in Callbacks
    BY <1>2 DEF TypeInv, TypeOK, Callbacks
  <2>2. NoNewCompletion
    BY <1>2, <1>12, <2>1, AppendOneNoCompletion DEF XreadReturns
  <2> QED BY <1>1, <1>12, <2>2, EnvironmentStep DEF XreadReturns
<1>13. ASSUME NEW c \in Cmds, RunStart(c)
       PROVE  ProtocolInv'
  BY <1>1, <1>13, StartStep
<1>14. ASSUME NEW c \in Cmds, RunPublished(c)
       PROVE  ProtocolInv'
  <2>1. ready # <<>> /\ pc[c] = "publishing"
        /\ UNCHANGED <<req, expired, fut, result>>
    BY <1>14 DEF RunPublished, Running
  <2>2. CASE pc' = [pc EXCEPT ![c] = "waiting"] /\ ready' = Tail(ready)
             /\ UNCHANGED listeners
    <3>1. NoNewCompletion BY <1>2, <2>1, <2>2, TailNoCompletion
    <3> QED BY <1>1, <2>1, <2>2, <3>1, MoveStep
  <2>3. CASE Pending(c) = {} /\ Finish(c)
    BY <1>1, <2>1, <2>3, FinishStep
  <2> QED BY <1>14, <2>2, <2>3 DEF RunPublished
<1>15. ASSUME NEW c \in Cmds, RunFailed(c)
       PROVE  ProtocolInv'
  <2>1. NoNewCompletion BY <1>2, <1>15, TailNoCompletion DEF RunFailed, Running
  <2> QED BY <1>1, <1>15, <2>1, MoveStep DEF RunFailed
<1>16. ASSUME NEW c \in Cmds, RunTimeout(c)
       PROVE  ProtocolInv'
  BY <1>1, <1>16, TimeoutStep
<1>17. ASSUME NEW c \in Cmds, RunGather(c)
       PROVE  ProtocolInv'
  BY <1>1, <1>17, GatherStep
<1>18. ASSUME NEW c \in Cmds, RunWake(c)
       PROVE  ProtocolInv'
  <2>1. Pending(c) = {} BY <1>18, HeadCompletion DEF RunWake
  <2> QED BY <1>1, <1>18, <2>1, FinishStep DEF RunWake, Running
<1>19. ASSUME RunBatch
       PROVE  ProtocolInv'
  BY <1>1, <1>19, BatchStep
<1>20. ASSUME RunDispatch
       PROVE  ProtocolInv'
  BY <1>1, <1>20, DispatchStep
<1>21. CASE UNCHANGED vars
  BY <1>1, <1>4, <1>21, EnvironmentStep DEF vars
<1> QED
  BY <1>5, <1>6, <1>7, <1>8, <1>9, <1>10, <1>11, <1>12, <1>13, <1>14, <1>15,
     <1>16, <1>17, <1>18, <1>19, <1>20, <1>21 DEF Next, RunLoop

-----------------------------------------------------------------------------
(* The safety properties, for every set of commands, pods and topics, every *)
(* registry, whether or not publishes fail and pods answer.                *)

\* A future a command still waits for is always registered under its own key, so
\* the next such report cannot pass it by.
THEOREM NoLostWakeup == Spec => []WaitersRegistered
<1>1. ProtocolInv => WaitersRegistered BY DEF ProtocolInv
<1> QED BY ProtocolInit, ProtocolStep, <1>1, PTL DEF Spec

\* A command is only ever given reports of the topic it asked for, from the
\* strategies it asked, at most one from each.
THEOREM AnswersMatchRequests == Spec => []ResultsMatchRequests
<1>1. ProtocolInv => ResultsMatchRequests BY DEF ProtocolInv
<1> QED BY ProtocolInit, ProtocolStep, <1>1, PTL DEF Spec

\* Answered, refused and timed-out commands hold no listener slot.
THEOREM SlotsGivenBack == Spec => []SlotsHeldOnlyWhileWaiting
<1>1. ProtocolInv => SlotsHeldOnlyWhileWaiting
  BY DEF ProtocolInv, SlotsOwned, SlotsHeldOnlyWhileWaiting, Active, TypeInv, TypeOK
<1> QED BY ProtocolInit, ProtocolStep, <1>1, PTL DEF Spec

\* What a settled future holds never changes.
THEOREM SettledStaysSettled == Spec => FuturesSettleOnce
<1> DEFINE A == \A c \in Cmds, s \in Sids :
              fut[c][s] \in {"resolved", "cancelled"} =>
                  /\ fut'[c][s] = fut[c][s]
                  /\ {r \in Replies(c) : r.sid = s} = {r \in Replies(c)' : r.sid = s}
<1>1. ASSUME ProtocolInv, Next PROVE A
  <2> USE <1>1 DEF ProtocolInv, TypeInv, TypeOK
  <2> SUFFICES ASSUME NEW c \in Cmds, NEW s \in Sids,
                      fut[c][s] \in {"resolved", "cancelled"}
               PROVE  /\ fut'[c][s] = fut[c][s]
                      /\ {r \in Replies(c) : r.sid = s}
                           = {r \in Replies(c)' : r.sid = s}
    OBVIOUS
  <2>1. Started(c) /\ pc[c] # "issued" BY DEF FuturesOfTargets, Started
  <2>2. CASE UNCHANGED <<fut, result>> BY <2>2 DEF Replies
  <2>3. ASSUME NEW d \in Cmds, RunStart(d)
        PROVE  fut'[c][s] = fut[c][s] /\ UNCHANGED result
    BY <2>1, <2>3 DEF RunStart
  <2>4. ASSUME NEW d \in Cmds, RunTimeout(d)
        PROVE  fut'[c][s] = fut[c][s] /\ UNCHANGED result
    <3>1. s \notin Pending(c) BY DEF Pending
    <3>2. \/ UNCHANGED fut
          \/ fut' = [fut EXCEPT ![d] = [t \in Sids |->
                       IF t \in Pending(d) THEN "cancelled" ELSE fut[d][t]]]
      BY <2>4 DEF RunTimeout
    <3> QED BY <2>4, <3>1, <3>2 DEF RunTimeout
  <2>5. ASSUME RunDispatch
        PROVE  /\ fut'[c][s] = fut[c][s]
               /\ {r \in Replies(c) : r.sid = s} = {r \in Replies(c)' : r.sid = s}
    <3> DEFINE rep == Head(ready).rep
    <3>1. ~(c \in Takers(rep) /\ s = rep.sid) BY DEF Takers
    <3>2. fut'[c][s] = fut[c][s] BY <2>5, <3>1 DEF RunDispatch
    <3>3. result' = result \cup {[cmd |-> d, rep |-> rep] : d \in Takers(rep)}
      BY <2>5 DEF RunDispatch
    <3> QED BY <3>1, <3>2, <3>3 DEF Replies
  <2>6. \/ UNCHANGED <<fut, result>> \/ RunDispatch
        \/ \E d \in Cmds : RunStart(d) \/ RunTimeout(d)
    BY <1>1 DEF Next, RunLoop, Issue, PublishOne, PublishesReturn, PublishFails,
         PodReplies, PodDrops, PodPeriodic, XreadReturns, TimerFires, RunPublished,
         RunFailed, RunGather, RunWake, Finish, RunBatch, loopVars
  <2> QED BY <2>2, <2>3, <2>4, <2>5, <2>6 DEF Replies
<1>2. ProtocolInv /\ [Next]_vars => [A]_vars BY <1>1
<1>3. Spec => []ProtocolInv BY ProtocolInit, ProtocolStep, PTL DEF Spec
<1>4. FuturesSettleOnce <=> [][A]_vars BY DEF FuturesSettleOnce
<1> QED BY <1>2, <1>3, <1>4, PTL DEF Spec

-----------------------------------------------------------------------------
(* ReportRequests implements ReportService: each step of the loop, of a     *)
(* worker thread, of a timer or of a pod is a step of the service an        *)
(* operator sees, or invisible to it.                                       *)

(* ProtocolInv says what a pending future implies; the refinement also     *)
(* needs to know why a future is no longer pending.                        *)

\* A resolved future has its report, and only an expired command's are cancelled.
SettledForAReason ==
    \A c \in Cmds : \A s \in Sids :
        /\ fut[c][s] = "resolved" => \E r \in Replies(c) : r.sid = s
        /\ fut[c][s] = "cancelled" => c \in expired

\* A command whose timer has expired waits for nothing any more.
ExpiredIsOver ==
    \A c \in expired : pc[c] \in {"waiting", "answered"} /\ Pending(c) = {}

SettledInv == ProtocolInv /\ SettledForAReason /\ ExpiredIsOver

LEMMA SettledInit == Init => SettledInv
<1> SUFFICES ASSUME Init PROVE SettledInv
  OBVIOUS
<1>1. SettledForAReason BY DEF Init, SettledForAReason
<1>2. ExpiredIsOver BY DEF Init, ExpiredIsOver
<1> QED BY <1>1, <1>2, ProtocolInit DEF SettledInv

\* What a step that leaves futures and results alone does to a command: it only
\* moves one that has not expired, or finishes it.
LEMMA QuietStep ==
    ASSUME SettledInv, ProtocolInv', UNCHANGED <<fut, result, expired>>,
           \A c \in expired : pc'[c] \in {"waiting", "answered"},
           UNCHANGED req \/ \E d \in Cmds : /\ pc[d] = "idle"
                                            /\ \A c \in Cmds : c # d => req'[c] = req[c]
    PROVE  SettledInv'
<1> USE DEF SettledInv, ProtocolInv, TypeInv, TypeOK
<1>1. SettledForAReason' BY DEF SettledForAReason, Replies
<1>2. ExpiredIsOver'
  <2> SUFFICES ASSUME NEW c \in expired PROVE Pending(c)' = {}
    BY DEF ExpiredIsOver
  <2>1. c \in Cmds /\ Pending(c) = {} /\ pc[c] # "idle" BY DEF ExpiredIsOver
  <2>2. req'[c] = req[c] BY <2>1
  <2> QED BY <2>1, <2>2 DEF Pending
<1> QED BY <1>1, <1>2

LEMMA SettledStart ==
    ASSUME SettledInv, ProtocolInv', NEW c \in Cmds, RunStart(c)
    PROVE  SettledInv'
<1> USE DEF SettledInv, ProtocolInv, TypeInv, TypeOK
<1>1. pc[c] = "issued" /\ c \notin expired
  BY DEF RunStart, ExpiredIsOver
<1>2. UNCHANGED <<req, result, expired>> BY DEF RunStart
<1>3. \A d \in Cmds : d # c => pc'[d] = pc[d] /\ fut'[d] = fut[d]
  BY DEF RunStart
<1>4. \A s \in Sids : fut'[c][s] \in {"none", "pending"}
  <2>1. \A s \in Sids : fut[c][s] = "none" BY <1>1 DEF FuturesOfTargets, Started
  <2>2. \/ UNCHANGED fut
        \/ fut' = [fut EXCEPT ![c] =
              [s \in Sids |-> IF s \in req[c].targets THEN "pending" ELSE "none"]]
    BY DEF RunStart
  <2> QED BY <2>1, <2>2
<1>5. SettledForAReason'
  <2> SUFFICES ASSUME NEW d \in Cmds, NEW s \in Sids
               PROVE  /\ fut'[d][s] = "resolved" => \E r \in Replies(d) : r.sid = s
                      /\ fut'[d][s] = "cancelled" => d \in expired
    BY <1>2 DEF SettledForAReason, Replies
  <2>1. CASE d = c BY <1>4, <2>1
  <2>2. CASE d # c BY <1>3, <2>2 DEF SettledForAReason
  <2> QED BY <2>1, <2>2
<1>6. ExpiredIsOver'
  <2> SUFFICES ASSUME NEW d \in expired
               PROVE  pc'[d] \in {"waiting", "answered"} /\ Pending(d)' = {}
    BY <1>2 DEF ExpiredIsOver
  <2>1. d # c /\ d \in Cmds BY <1>1
  <2> QED BY <1>2, <1>3, <2>1 DEF ExpiredIsOver, Pending
<1> QED BY <1>5, <1>6

LEMMA SettledTimeout ==
    ASSUME SettledInv, ProtocolInv', NEW c \in Cmds, RunTimeout(c)
    PROVE  SettledInv'
<1> USE DEF SettledInv, ProtocolInv, TypeInv, TypeOK
<1>1. CASE pc[c] # "waiting"
  <2>1. UNCHANGED <<pc, req, fut, result, expired>> BY <1>1 DEF RunTimeout
  <2> QED BY <2>1 DEF SettledForAReason, ExpiredIsOver, Pending, Replies
<1>2. CASE pc[c] = "waiting"
  <2>1. /\ expired' = expired \cup {c}
        /\ fut' = [fut EXCEPT ![c] = [s \in Sids |->
                     IF s \in Pending(c) THEN "cancelled" ELSE fut[c][s]]]
        /\ UNCHANGED <<pc, req, result>>
    BY <1>2 DEF RunTimeout
  <2>2. \A d \in Cmds : \A s \in Sids :
           fut'[d][s] = fut[d][s] \/ (d = c /\ fut'[d][s] = "cancelled")
    <3> SUFFICES ASSUME NEW d \in Cmds, NEW s \in Sids
                 PROVE  fut'[d][s] = fut[d][s] \/ (d = c /\ fut'[d][s] = "cancelled")
      OBVIOUS
    <3> DEFINE new == [t \in Sids |-> IF t \in Pending(c) THEN "cancelled" ELSE fut[c][t]]
    <3>0. DOMAIN fut = Cmds /\ fut' = [fut EXCEPT ![c] = new] BY <2>1
    <3>1. new[s] = fut[c][s] \/ new[s] = "cancelled" OBVIOUS
    <3> HIDE DEF new, SettledInv
    <3>2. CASE d = c
      <4>1. fut'[d] = new BY <3>0, <3>2
      <4> QED BY <3>1, <3>2, <4>1
    <3>3. CASE d # c
      <4>1. fut'[d] = fut[d] BY <3>0, <3>3
      <4> QED BY <4>1
    <3> QED BY <3>2, <3>3
  <2>3. SettledForAReason' BY <2>1, <2>2 DEF SettledForAReason, Replies
  <2>4. Pending(c)' = {}
    <3>1. \A s \in req[c].targets : s \in Sids /\ fut'[c][s] # "pending"
      BY <2>1 DEF Pending, Requests
    <3> QED BY <2>1, <3>1 DEF Pending
  <2>5. \A d \in expired : d # c => Pending(d)' = Pending(d)
    BY <2>1 DEF Pending
  <2>6. ExpiredIsOver' BY <1>2, <2>1, <2>4, <2>5 DEF ExpiredIsOver
  <2> QED BY <2>3, <2>6
<1> QED BY <1>1, <1>2

LEMMA SettledDispatch ==
    ASSUME SettledInv, ProtocolInv', RunDispatch
    PROVE  SettledInv'
<1> DEFINE rep == Head(ready).rep
<1> USE DEF SettledInv, ProtocolInv, TypeInv, TypeOK
<1>1. UNCHANGED <<pc, req, expired>> BY DEF RunDispatch
<1>2. result' = result \cup {[cmd |-> d, rep |-> rep] : d \in Takers(rep)}
  BY DEF RunDispatch
<1>3. \A d \in Cmds : \A s \in Sids :
         fut'[d][s] = IF d \in Takers(rep) /\ s = rep.sid
                      THEN "resolved" ELSE fut[d][s]
  BY DEF RunDispatch
<1> HIDE DEF rep
<1>4. SettledForAReason'
  <2> SUFFICES ASSUME NEW c \in Cmds, NEW s \in Sids
               PROVE  /\ fut'[c][s] = "resolved" => \E r \in Replies(c)' : r.sid = s
                      /\ fut'[c][s] = "cancelled" => c \in expired
    BY <1>1 DEF SettledForAReason
  <2>1. Replies(c) \subseteq Replies(c)' BY <1>2 DEF Replies
  <2>2. CASE c \in Takers(rep) /\ s = rep.sid
    <3>1. [cmd |-> c, rep |-> rep] \in result' BY <1>2, <2>2
    <3>2. rep \in Replies(c)' BY <3>1 DEF Replies
    <3> QED BY <1>3, <2>2, <3>2
  <2>3. CASE ~(c \in Takers(rep) /\ s = rep.sid)
    BY <1>3, <2>1, <2>3 DEF SettledForAReason
  <2> QED BY <2>2, <2>3
<1>5. ExpiredIsOver'
  <2>1. \A d \in Cmds : Pending(d)' \subseteq Pending(d)
    BY <1>1, <1>3 DEF Pending, Requests
  <2> QED BY <1>1, <2>1 DEF ExpiredIsOver
<1> QED BY <1>4, <1>5

LEMMA SettledStep == SettledInv /\ [Next]_vars => SettledInv'
<1> SUFFICES ASSUME SettledInv, [Next]_vars PROVE SettledInv'
  OBVIOUS
<1>1. ProtocolInv' BY ProtocolStep DEF SettledInv
<1>2. ASSUME NEW c \in Cmds, NEW topic \in Topics, NEW chan \in Channels,
             NEW strategy \in Sids \cup {AllStrategies},
             Issue(c, topic, chan, strategy)
      PROVE  SettledInv'
  <2>1. /\ pc[c] = "idle" /\ UNCHANGED <<fut, result, expired>>
        /\ pc' = [pc EXCEPT ![c] = "issued"]
        /\ \A d \in Cmds : d # c => req'[d] = req[d]
    BY <1>2 DEF Issue, SettledInv, ProtocolInv, TypeInv, TypeOK
  <2>2. \A d \in expired : pc'[d] \in {"waiting", "answered"}
    BY <2>1 DEF SettledInv, ProtocolInv, TypeInv, TypeOK, ExpiredIsOver
  <2> QED BY <1>1, <2>1, <2>2, QuietStep
<1>3. CASE UNCHANGED <<pc, req, fut, result, expired>>
  <2>1. \A d \in expired : pc'[d] \in {"waiting", "answered"}
    BY <1>3 DEF SettledInv, ExpiredIsOver
  <2> QED BY <1>1, <1>3, <2>1, QuietStep
<1>4. ASSUME NEW c \in Cmds, RunPublished(c) \/ RunFailed(c) \/ RunWake(c)
      PROVE  SettledInv'
  <2>1. /\ UNCHANGED <<req, fut, result, expired>>
        /\ pc[c] \in {"publishing", "waiting"}
        /\ \E to : /\ pc' = [pc EXCEPT ![c] = to]
                   /\ pc[c] = "waiting" => to = "answered"
    BY <1>4 DEF RunPublished, RunFailed, RunWake, Finish
  <2>2. \A d \in expired : pc'[d] \in {"waiting", "answered"}
    BY <2>1 DEF SettledInv, ProtocolInv, TypeInv, TypeOK, ExpiredIsOver
  <2> QED BY <1>1, <2>1, <2>2, QuietStep
<1>5. \/ UNCHANGED <<pc, req, fut, result, expired>>
      \/ \E c \in Cmds, topic \in Topics, chan \in Channels,
            strategy \in Sids \cup {AllStrategies} : Issue(c, topic, chan, strategy)
      \/ \E c \in Cmds : RunPublished(c) \/ RunFailed(c) \/ RunWake(c)
      \/ \E c \in Cmds : RunStart(c) \/ RunTimeout(c)
      \/ RunDispatch
  BY DEF Next, RunLoop, PublishOne, PublishesReturn, PublishFails, PodReplies,
     PodDrops, PodPeriodic, XreadReturns, TimerFires, RunGather, RunBatch,
     loopVars, vars
<1> QED
  BY <1>1, <1>2, <1>3, <1>4, <1>5, SettledStart, SettledTimeout, SettledDispatch
     DEF SettledInv

-----------------------------------------------------------------------------
(* The simulation.                                                         *)

\* The command is open exactly while its coroutine is suspended.
LEMMA OpenIsActive ==
    ASSUME TypeInv, NEW c \in Cmds
    PROVE  /\ Outcome(c) = "open" <=> pc[c] \in {"publishing", "waiting"}
           /\ Outcome(c) = "asked" <=> pc[c] = "issued"
           /\ Outcome(c) = "none" <=> pc[c] = "idle"
<1>1. pc[c] \in PcValues BY DEF TypeInv, TypeOK
<1> QED BY <1>1 DEF PcValues, Outcome

\* The futures a dispatched report resolves, crashed commands aside, are those of
\* the commands it answers: none is missed, none is answered twice.
LEMMA TakersAreAnswered ==
    ASSUME SettledInv, NEW rep \in Reports, NEW c \in Cmds
    PROVE  Service!Answers(rep, c) <=> c \in Takers(rep) /\ pc[c] # "crashed"
<1> USE DEF SettledInv, ProtocolInv
<1>1. Key(rep) \in Keys /\ rep.sid \in Sids /\ Key(rep) = <<rep.topic, rep.sid>>
  BY KeyType DEF Key, Reports
<1>2. Service!Answers(rep, c) <=>
         /\ Outcome(c) = "open" /\ c \notin expired
         /\ rep.topic = req[c].topic /\ rep.sid \in req[c].targets
         /\ \A r \in Collected(c) : r.sid # rep.sid
  BY DEF Service!Answers
<1>3. Outcome(c) = "open" <=> pc[c] \in {"publishing", "waiting"}
  BY OpenIsActive
<1>4. pc[c] # "crashed" => Collected(c) = Replies(c) BY DEF Collected
<1>5. ASSUME c \in Takers(rep), pc[c] # "crashed"
      PROVE  Service!Answers(rep, c)
  <2>1. c \in listeners[Key(rep)] /\ fut[c][rep.sid] = "pending"
    BY <1>5 DEF Takers
  <2>2. /\ pc[c] \in {"publishing", "waiting"}
        /\ rep.topic = req[c].topic /\ rep.sid \in req[c].targets
    BY <1>1, <1>5, <2>1 DEF SlotsOwned
  <2>3. c \notin expired BY <2>1, <2>2 DEF ExpiredIsOver, Pending
  <2>4. \A r \in Replies(c) : r.sid # rep.sid
    BY <2>1 DEF Replies, ResultsMatchRequests
  <2> QED BY <1>2, <1>3, <1>4, <2>2, <2>3, <2>4
<1>6. ASSUME Service!Answers(rep, c)
      PROVE  c \in Takers(rep) /\ pc[c] # "crashed"
  <2>1. /\ pc[c] \in {"publishing", "waiting"} /\ c \notin expired
        /\ rep.topic = req[c].topic /\ rep.sid \in req[c].targets
        /\ \A r \in Replies(c) : r.sid # rep.sid
    BY <1>2, <1>3, <1>4, <1>6
  <2>2. fut[c][rep.sid] \in FutStates BY <1>1 DEF TypeInv, TypeOK
  <2>3. fut[c][rep.sid] = "pending"
    <3>1. fut[c][rep.sid] # "none" BY <1>1, <2>1 DEF FuturesOfTargets, Started
    <3>2. fut[c][rep.sid] \notin {"resolved", "cancelled"}
      BY <1>1, <2>1 DEF SettledForAReason
    <3> QED BY <2>2, <3>1, <3>2 DEF FutStates
  <2>4. c \in listeners[Key(rep)]
    BY <1>1, <2>1, <2>3 DEF WaitersRegistered, Pending
  <2> QED BY <2>1, <2>3, <2>4 DEF Takers
<1> QED BY <1>5, <1>6

\* A command that waits for nothing has collected a report from everyone, or its
\* deadline is over.
LEMMA NothingPending ==
    ASSUME SettledInv, NEW c \in Cmds, pc[c] \in {"publishing", "waiting"},
           Pending(c) = {}
    PROVE  c \in expired \/ Service!Complete(c)
<1> USE DEF SettledInv, ProtocolInv
<1>1. ASSUME c \notin expired, NEW s \in req[c].targets
      PROVE  \E r \in Collected(c) : r.sid = s
  <2>1. s \in Sids BY DEF TypeInv, TypeOK, Requests
  <2>2. fut[c][s] \in FutStates BY <2>1 DEF TypeInv, TypeOK
  <2>3. fut[c][s] \notin {"none", "pending", "cancelled"}
    BY <1>1, <2>1 DEF FuturesOfTargets, Started, Pending, SettledForAReason
  <2>4. \E r \in Replies(c) : r.sid = s
    BY <2>1, <2>2, <2>3 DEF SettledForAReason, FutStates
  <2> QED BY <2>4 DEF Collected
<1> QED BY <1>1 DEF Service!Complete

\* What a step that only moves a command's program counter is to the service.
LEMMA Moved ==
    ASSUME TypeInv, NEW c \in Cmds, NEW to \in PcValues,
           pc' = [pc EXCEPT ![c] = to], UNCHANGED <<req, result, expired>>
    PROVE  /\ [d \in Cmds |-> Outcome(d)]'
                = [[d \in Cmds |-> Outcome(d)] EXCEPT ![c] = Outcome(c)']
           /\ to # "crashed" /\ pc[c] # "crashed" =>
                 UNCHANGED [d \in Cmds |-> Collected(d)]
           /\ UNCHANGED <<[d \in Cmds |-> [topic |-> req[d].topic,
                                           targets |-> req[d].targets]], expired>>
<1>1. \A d \in Cmds : d # c => pc'[d] = pc[d] BY DEF TypeInv, TypeOK
<1>2. pc'[c] = to BY DEF TypeInv, TypeOK
<1>3. \A d \in Cmds : d # c => Outcome(d)' = Outcome(d) BY <1>1 DEF Outcome
<1>4. to # "crashed" /\ pc[c] # "crashed" =>
         \A d \in Cmds : Collected(d)' = Collected(d)
  BY <1>1, <1>2 DEF Collected, Replies
<1> QED BY <1>3, <1>4

\* The initial states are initial states of the service.
LEMMA SimulationInit == Init => Service!Init
<1> SUFFICES ASSUME Init PROVE Service!Init
  OBVIOUS
<1>1. \A c \in Cmds : Outcome(c) = "none" /\ Collected(c) = {}
  BY DEF Init, Outcome, Collected, Replies
<1>2. [c \in Cmds |-> [topic |-> req[c].topic, targets |-> req[c].targets]]
         \in [Cmds -> [topic : Topics, targets : {{}}]]
  BY ConstAssumption DEF Init
<1> QED BY <1>1, <1>2 DEF Service!Init, Init

LEMMA SimulateIssue ==
    ASSUME TypeInv, TypeInv', NEW c \in Cmds, NEW topic \in Topics,
           NEW chan \in Channels, NEW strategy \in Sids \cup {AllStrategies},
           Issue(c, topic, chan, strategy)
    PROVE  \E targets \in SUBSET Sids : Service!Ask(c, topic, targets)
<1> USE DEF TypeInv, TypeOK
<1>1. /\ pc[c] = "idle" /\ pc' = [pc EXCEPT ![c] = "issued"]
      /\ UNCHANGED <<result, expired>>
      /\ req'[c].topic = topic /\ req'[c].targets \in SUBSET Sids
      /\ \A d \in Cmds : d # c => req'[d] = req[d]
  BY DEF Issue, Requests
<1>2. /\ Outcome(c) = "none" /\ Outcome(c)' = "asked"
      /\ \A d \in Cmds : d # c => Outcome(d)' = Outcome(d)
  BY <1>1 DEF Outcome
<1>3. \A d \in Cmds : Collected(d)' = Collected(d)
  BY <1>1 DEF Collected, Replies
<1>4. [d \in Cmds |-> [topic |-> req[d].topic, targets |-> req[d].targets]]'
         = [[d \in Cmds |-> [topic |-> req[d].topic, targets |-> req[d].targets]]
               EXCEPT ![c] = [topic |-> topic, targets |-> req'[c].targets]]
  BY <1>1
<1>5. [d \in Cmds |-> Outcome(d)]'
         = [[d \in Cmds |-> Outcome(d)] EXCEPT ![c] = "asked"]
  <2> HIDE DEF TypeInv
  <2> QED BY <1>2
<1>6. UNCHANGED <<[d \in Cmds |-> Collected(d)], expired>>
  <2> HIDE DEF TypeInv
  <2> QED BY <1>1, <1>3
<1>7. [d \in Cmds |-> Outcome(d)][c] = "none" BY <1>2
<1> HIDE DEF TypeInv, TypeOK
<1>8. PICK targets \in SUBSET Sids : targets = req'[c].targets BY <1>1
<1>9. Service!Ask(c, topic, targets)
  BY <1>4, <1>5, <1>6, <1>7, <1>8 DEF Service!Ask
<1> QED BY <1>9

LEMMA SimulateStart ==
    ASSUME SettledInv, NEW c \in Cmds, RunStart(c)
    PROVE  Service!Accept(c) \/ Service!Refuse(c)
<1>1. TypeInv /\ pc[c] = "issued" /\ UNCHANGED <<req, result, expired>>
  BY DEF RunStart, SettledInv, ProtocolInv
<1>2. Outcome(c) = "asked" BY <1>1 DEF Outcome
<1>3. CASE pc' = [pc EXCEPT ![c] = "rejected"]
  <2>1. Outcome(c)' = "refused" BY <1>1, <1>3 DEF Outcome, TypeInv, TypeOK
  <2> QED BY <1>1, <1>2, <1>3, <2>1, Moved DEF Service!Refuse, PcValues
<1>4. CASE pc' = [pc EXCEPT ![c] = "publishing"] /\ req[c].targets # {}
  <2>1. Outcome(c)' = "open" BY <1>1, <1>4 DEF Outcome, TypeInv, TypeOK
  <2> QED BY <1>1, <1>2, <1>4, <2>1, Moved DEF Service!Accept, PcValues
<1> QED BY <1>3, <1>4 DEF RunStart

LEMMA SimulateFinish ==
    ASSUME SettledInv, NEW c \in Cmds, pc[c] \in {"publishing", "waiting"},
           Pending(c) = {}, Finish(c), UNCHANGED <<req, result, expired>>
    PROVE  Service!Answer(c)
<1>1. TypeInv BY DEF SettledInv, ProtocolInv
<1>2. pc' = [pc EXCEPT ![c] = "answered"] BY DEF Finish
<1>3. Outcome(c) = "open" /\ Outcome(c)' = "answered"
  BY <1>1, <1>2 DEF Outcome, TypeInv, TypeOK
<1>4. c \in expired \/ Service!Complete(c) BY NothingPending
<1> QED BY <1>1, <1>2, <1>3, <1>4, Moved DEF Service!Answer, PcValues

\* A failed publish ends the command, and what it had collected is never shown.
LEMMA SimulateFailed ==
    ASSUME SettledInv, NEW c \in Cmds, RunFailed(c)
    PROVE  Service!Fail(c)
<1> USE DEF SettledInv, ProtocolInv, TypeInv, TypeOK
<1>1. /\ pc[c] = "publishing" /\ pc' = [pc EXCEPT ![c] = "crashed"]
      /\ UNCHANGED <<req, result, expired>>
  BY DEF RunFailed
<1>2. Outcome(c) = "open" /\ Outcome(c)' = "failed" /\ c \notin expired
  BY <1>1 DEF Outcome, ExpiredIsOver
<1>3. \A d \in Cmds : d # c => Outcome(d)' = Outcome(d) /\ Collected(d)' = Collected(d)
  BY <1>1 DEF Outcome, Collected, Replies
<1>4. Collected(c)' = {} BY <1>1 DEF Collected
<1> QED BY <1>1, <1>2, <1>3, <1>4 DEF Service!Fail

LEMMA SimulateTimeout ==
    ASSUME SettledInv, NEW c \in Cmds, RunTimeout(c)
    PROVE  Service!DeadlinePasses(c) \/ UNCHANGED Service!svars
<1>1. TypeInv /\ UNCHANGED <<pc, req, result>>
  BY DEF RunTimeout, SettledInv, ProtocolInv
<1>2. \A d \in Cmds : Outcome(d)' = Outcome(d) /\ Collected(d)' = Collected(d)
  BY <1>1 DEF Outcome, Collected, Replies
<1>3. CASE pc[c] = "waiting" /\ expired' = expired \cup {c}
  <2>1. Outcome(c) = "open" BY <1>3 DEF Outcome
  <2> QED BY <1>1, <1>2, <1>3, <2>1 DEF Service!DeadlinePasses
<1>4. CASE UNCHANGED expired
  BY <1>1, <1>2, <1>4 DEF Service!svars
<1> QED BY <1>3, <1>4 DEF RunTimeout

LEMMA SimulateDispatch ==
    ASSUME SettledInv, RunDispatch
    PROVE  \E rep \in Reports : Service!Deliver(rep)
<1> DEFINE rep == Head(ready).rep
<1>1. rep \in Reports
  BY TailType, CallbackFields DEF RunDispatch, SettledInv, ProtocolInv, TypeInv, TypeOK
<1>2. /\ UNCHANGED <<pc, req, expired>>
      /\ result' = result \cup {[cmd |-> d, rep |-> rep] : d \in Takers(rep)}
  BY DEF RunDispatch
<1> HIDE DEF rep
<1>3. \A c \in Cmds : Outcome(c)' = Outcome(c) BY <1>2 DEF Outcome
<1>4. \A c \in Cmds :
         Replies(c)' = IF c \in Takers(rep) THEN Replies(c) \cup {rep} ELSE Replies(c)
  <2> TAKE c \in Cmds
  <2>1. \A r : r \in Replies(c) <=> \E x \in result : x.cmd = c /\ x.rep = r
    BY DEF Replies
  <2>2. \A r : r \in Replies(c)' <=> \E x \in result' : x.cmd = c /\ x.rep = r
    BY DEF Replies
  <2>3. \A x : x \in result' <=>
           \/ x \in result
           \/ \E d \in Takers(rep) : x = [cmd |-> d, rep |-> rep]
    BY <1>2
  <2>4. \A r : r \in Replies(c)' <=> r \in Replies(c) \/ (c \in Takers(rep) /\ r = rep)
    <3> TAKE r
    <3>1. ASSUME r \in Replies(c)'
          PROVE  r \in Replies(c) \/ (c \in Takers(rep) /\ r = rep)
      <4>1. PICK x \in result' : x.cmd = c /\ x.rep = r BY <2>2, <3>1
      <4>2. CASE x \in result BY <2>1, <4>1, <4>2
      <4>3. CASE \E d \in Takers(rep) : x = [cmd |-> d, rep |-> rep] BY <4>1, <4>3
      <4> QED BY <2>3, <4>2, <4>3
    <3>2. r \in Replies(c) => r \in Replies(c)' BY <2>1, <2>2, <2>3
    <3>3. ASSUME c \in Takers(rep), r = rep
          PROVE  r \in Replies(c)'
      <4>1. [cmd |-> c, rep |-> rep] \in result' BY <2>3, <3>3
      <4>2. [cmd |-> c, rep |-> rep].cmd = c /\ [cmd |-> c, rep |-> rep].rep = r BY <3>3
      <4> QED BY <2>2, <4>1, <4>2
    <3> QED BY <3>1, <3>2, <3>3
  <2>5. CASE c \in Takers(rep)
    <3>1. Replies(c)' = Replies(c) \cup {rep} BY <2>4, <2>5
    <3> QED BY <2>5, <3>1
  <2>6. CASE c \notin Takers(rep)
    <3>1. Replies(c)' = Replies(c) BY <2>4, <2>6
    <3> QED BY <2>6, <3>1
  <2> QED BY <2>5, <2>6
<1>5. \A c \in Cmds :
         Collected(c)' = IF Service!Answers(rep, c)
                         THEN Collected(c) \cup {rep} ELSE Collected(c)
  BY <1>1, <1>2, <1>4, TakersAreAnswered DEF Collected
<1>6. Service!Deliver(rep) BY <1>2, <1>3, <1>5 DEF Service!Deliver
<1> QED BY <1>1, <1>6

\* Each step is a step of the service, or changes nothing the operator sees.
LEMMA SimulationStep ==
    SettledInv /\ SettledInv' /\ [Next]_vars => [Service!Next]_(Service!svars)
<1> SUFFICES ASSUME SettledInv, SettledInv', [Next]_vars
             PROVE  Service!Next \/ UNCHANGED Service!svars
  OBVIOUS
<1>1. TypeInv /\ TypeInv' BY DEF SettledInv, ProtocolInv
<1>2. CASE UNCHANGED <<pc, req, result, expired>>
  <2>1. \A c \in Cmds : Outcome(c)' = Outcome(c) /\ Collected(c)' = Collected(c)
    BY <1>2 DEF Outcome, Collected, Replies
  <2> QED BY <1>2, <2>1 DEF Service!svars
<1>3. ASSUME NEW c \in Cmds, NEW topic \in Topics, NEW chan \in Channels,
             NEW strategy \in Sids \cup {AllStrategies},
             Issue(c, topic, chan, strategy)
      PROVE  Service!Next
  BY <1>1, <1>3, SimulateIssue DEF Service!Next
<1>4. ASSUME NEW c \in Cmds, RunStart(c)
      PROVE  Service!Next
  BY <1>4, SimulateStart DEF Service!Next
<1>5. ASSUME NEW c \in Cmds, RunPublished(c)
      PROVE  Service!Next \/ UNCHANGED Service!svars
  <2>1. pc[c] = "publishing" /\ UNCHANGED <<req, result, expired>>
    BY <1>5 DEF RunPublished
  <2>2. CASE pc' = [pc EXCEPT ![c] = "waiting"]
    <3>1. \A d \in Cmds : Outcome(d)' = Outcome(d) /\ Collected(d)' = Collected(d)
      BY <1>1, <2>1, <2>2 DEF Outcome, Collected, Replies, TypeInv, TypeOK
    <3> QED BY <2>1, <3>1 DEF Service!svars
  <2>3. CASE Pending(c) = {} /\ Finish(c)
    BY <2>1, <2>3, SimulateFinish DEF Service!Next
  <2> QED BY <1>5, <2>2, <2>3 DEF RunPublished
<1>6. ASSUME NEW c \in Cmds, RunFailed(c)
      PROVE  Service!Next
  BY <1>6, SimulateFailed DEF Service!Next
<1>7. ASSUME NEW c \in Cmds, RunTimeout(c)
      PROVE  Service!Next \/ UNCHANGED Service!svars
  BY <1>7, SimulateTimeout DEF Service!Next
<1>8. ASSUME NEW c \in Cmds, RunWake(c)
      PROVE  Service!Next
  <2>1. Pending(c) = {} BY <1>8, HeadCompletion DEF RunWake, SettledInv
  <2>2. Service!Answer(c) BY <1>8, <2>1, SimulateFinish DEF RunWake
  <2> QED BY <2>2 DEF Service!Next
<1>9. ASSUME RunDispatch
      PROVE  Service!Next
  BY <1>9, SimulateDispatch DEF Service!Next
<1>10. \/ UNCHANGED <<pc, req, result, expired>>
       \/ \E c \in Cmds, topic \in Topics, chan \in Channels,
             strategy \in Sids \cup {AllStrategies} : Issue(c, topic, chan, strategy)
       \/ \E c \in Cmds : \/ RunStart(c) \/ RunPublished(c) \/ RunFailed(c)
                          \/ RunTimeout(c) \/ RunWake(c)
       \/ RunDispatch
  BY DEF Next, RunLoop, PublishOne, PublishesReturn, PublishFails, PodReplies,
     PodDrops, PodPeriodic, XreadReturns, TimerFires, RunGather, RunBatch,
     loopVars, vars
<1> QED BY <1>2, <1>3, <1>4, <1>5, <1>6, <1>7, <1>8, <1>9, <1>10

\* The report protocol implements the service: whatever the loop, its threads and
\* timers and the pods interleave, an operator sees commands that are refused,
\* fail, or close with the first matching report of each strategy in time.
THEOREM Implementation == Spec => ImplementsService
<1>1. Spec => []SettledInv BY SettledInit, SettledStep, PTL DEF Spec
<1>2. Spec => Service!Init BY SimulationInit DEF Spec
<1>3. [][Next]_vars /\ []SettledInv => [][Service!Next]_(Service!svars)
  BY SimulationStep, PTL
<1> QED BY <1>1, <1>2, <1>3, PTL DEF Spec, ImplementsService, Service!Spec
=============================================================================
