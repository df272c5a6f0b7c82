------------------------ MODULE ReportDelivery_proofs ------------------------
(***************************************************************************)
(* Three more theorems about ReportRequests, for every value of its        *)
(* constants: no reply is taken for an unsolicited snapshot while its      *)
(* command waits for it, a suspended task always has what resumes it, and  *)
(* only a publish that raises leaks a listener slot. They are about what   *)
(* is under way: reports between pod and loop, and callbacks between       *)
(* scheduling and running.                                                 *)
(***************************************************************************)
EXTENDS ReportRequests_proofs

-----------------------------------------------------------------------------
(* The loop's queue: what a step appends arrives, what it does not run     *)
(* stays.                                                                  *)

LEMMA Appended ==
    ASSUME NEW q \in Seq(Callbacks), NEW more \in Seq(Callbacks)
    PROVE  Range(q \o more) = Range(q) \cup Range(more)
<1> DEFINE r == q \o more
<1>1. Len(r) = Len(q) + Len(more) /\ DOMAIN r = 1 .. Len(r)
      /\ DOMAIN q = 1 .. Len(q) /\ DOMAIN more = 1 .. Len(more)
      /\ Len(q) \in Nat /\ Len(more) \in Nat
  OBVIOUS
<1>2. \A j \in DOMAIN q : j \in DOMAIN r /\ r[j] = q[j] BY <1>1
<1>3. \A j \in DOMAIN more : Len(q) + j \in DOMAIN r /\ r[Len(q) + j] = more[j]
  BY <1>1
<1>4. \A i \in DOMAIN r : \/ i \in DOMAIN q
                          \/ i - Len(q) \in DOMAIN more /\ r[i] = more[i - Len(q)]
  BY <1>1
<1> HIDE DEF r
<1>5. Range(r) \subseteq Range(q) \cup Range(more) BY <1>2, <1>4 DEF Range
<1>6. Range(q) \subseteq Range(r) BY <1>2 DEF Range
<1>7. Range(more) \subseteq Range(r) BY <1>3 DEF Range
<1> QED BY <1>5, <1>6, <1>7 DEF r

\* A step that runs the head callback and schedules more.
LEMMA Advanced ==
    ASSUME NEW q \in Seq(Callbacks), q # <<>>, NEW more \in Seq(Callbacks)
    PROVE  /\ Range(Tail(q) \o more) \subseteq Range(q) \cup Range(more)
           /\ Range(more) \subseteq Range(Tail(q) \o more)
           /\ \A cb \in Range(q) : cb = Head(q) \/ cb \in Range(Tail(q) \o more)
<1>1. /\ Tail(q) \in Seq(Callbacks) /\ Len(Tail(q)) = Len(q) - 1 /\ Len(q) \in Nat
      /\ DOMAIN q = 1 .. Len(q) /\ DOMAIN Tail(q) = 1 .. Len(q) - 1
  OBVIOUS
<1>2. \A i \in DOMAIN Tail(q) : i + 1 \in DOMAIN q /\ Tail(q)[i] = q[i + 1]
  BY <1>1
<1>3. \A j \in DOMAIN q : \/ q[j] = Head(q)
                          \/ j - 1 \in DOMAIN Tail(q) /\ Tail(q)[j - 1] = q[j]
  BY <1>1
<1>4. Range(Tail(q) \o more) = Range(Tail(q)) \cup Range(more) BY <1>1, Appended
<1>5. Range(Tail(q)) \subseteq Range(q) BY <1>2 DEF Range
<1>6. \A cb \in Range(q) : cb = Head(q) \/ cb \in Range(Tail(q)) BY <1>3 DEF Range
<1> QED BY <1>4, <1>5, <1>6

-----------------------------------------------------------------------------
(* Replies are solicited.                                                  *)

\* A report that answers a command is of the command's topic, and its futures
\* were there before the request was.
Solicited(rep) ==
    rep.cause # Periodic => Started(rep.cause) /\ rep.topic = req[rep.cause].topic

SolicitedBatch(cb) ==
    cb.kind = "batch" => \A j \in DOMAIN cb.batch : Solicited(cb.batch[j])

\* Whatever is between a command and its reply's arrival was caused by a command
\* that had subscribed: publishes, control entries, stream entries, responses.
CausedInv ==
    /\ \A c \in Cmds : inflight[c] # {} => Started(c)
    /\ \A s \in Sids : \A i \in DOMAIN control[s] : Started(control[s][i])
    /\ \A i \in DOMAIN stream : Solicited(stream[i])
    /\ \A i \in DOMAIN ready : SolicitedBatch(ready[i])
    /\ \A x \in sends : x.via = Periodic => Solicited(x.rep)

\* Once a command has started its request is fixed.
StaysStarted ==
    \A c \in Cmds : Started(c) => Started(c)' /\ req'[c] = req[c]

LEMMA StartedForGood ==
    ASSUME ProtocolInv, [Next]_vars
    PROVE  StaysStarted
<1> USE DEF ProtocolInv, TypeInv, TypeOK, StaysStarted, Started
<1>1. ASSUME NEW c \in Cmds, NEW topic \in Topics, NEW chan \in Channels,
             NEW strategy \in Sids \cup {AllStrategies},
             Issue(c, topic, chan, strategy)
      PROVE  StaysStarted
  BY <1>1 DEF Issue
<1>2. ASSUME NEW c \in Cmds, RunStart(c) PROVE StaysStarted
  <2>1. \/ pc' = [pc EXCEPT ![c] = "rejected"]
        \/ pc' = [pc EXCEPT ![c] = "publishing"]
    BY <1>2 DEF RunStart
  <2>2. pc[c] = "issued" /\ req' = req BY <1>2 DEF RunStart
  <2> QED BY <2>1, <2>2
<1>3. ASSUME NEW c \in Cmds, RunPublished(c) \/ RunWake(c) \/ RunFailed(c)
      PROVE  StaysStarted
  <2>1. \/ pc' = [pc EXCEPT ![c] = "waiting"]
        \/ pc' = [pc EXCEPT ![c] = "answered"]
        \/ pc' = [pc EXCEPT ![c] = "crashed"]
    BY <1>3 DEF RunPublished, RunWake, RunFailed, Finish
  <2>2. req' = req BY <1>3 DEF RunPublished, RunWake, RunFailed
  <2> QED BY <2>1, <2>2
<1>4. CASE UNCHANGED <<pc, req>> BY <1>4
<1>5. \/ UNCHANGED <<pc, req>>
      \/ \E c \in Cmds : RunStart(c) \/ RunPublished(c) \/ RunWake(c) \/ RunFailed(c)
      \/ \E c \in Cmds, topic \in Topics, chan \in Channels,
            strategy \in Sids \cup {AllStrategies} : Issue(c, topic, chan, strategy)
  BY DEF Next, RunLoop, PublishOne, PublishesReturn, PublishFails, PodReplies, PodDrops,
     PodPeriodic, XreadReturns, TimerFires, RunTimeout, RunGather, RunBatch, RunDispatch,
     loopVars, vars
<1> QED BY <1>1, <1>2, <1>3, <1>4, <1>5

\* So a solicited report stays solicited.
LEMMA SolicitedForGood ==
    ASSUME StaysStarted, NEW rep \in Reports, Solicited(rep)
    PROVE  Solicited(rep)'
<1>1. rep.cause \in Cmds \/ rep.cause = Periodic BY DEF Reports
<1>2. CASE rep.cause = Periodic BY <1>2 DEF Solicited
<1>3. CASE rep.cause \in Cmds /\ rep.cause # Periodic
  <2>1. Started(rep.cause)' /\ req'[rep.cause] = req[rep.cause]
    BY <1>3 DEF Solicited, StaysStarted
  <2> QED BY <1>3, <2>1 DEF Solicited
<1> QED BY <1>1, <1>2, <1>3

\* What a step adds to any of the places of CausedInv must be caused by a command
\* that has started by then.
CausedPublishes == \A c \in Cmds : inflight'[c] # {} => inflight[c] # {} \/ Started(c)'
CausedRequests ==
    \A s \in Sids : \A i \in DOMAIN control'[s] :
        \/ \E j \in DOMAIN control[s] : control[s][j] = control'[s][i]
        \/ \E c \in Cmds : c = control'[s][i] /\ Started(c)'
CausedReports ==
    \A i \in DOMAIN stream' :
        \/ \E j \in DOMAIN stream : stream[j] = stream'[i]
        \/ \E rep \in Reports : rep = stream'[i] /\ Solicited(rep)'
CausedCallbacks ==
    \A cb \in Range(ready') : cb \in Range(ready) \/ (cb \in Callbacks /\ SolicitedBatch(cb)')
CausedSends ==
    \A x \in sends' : \/ x \in sends \/ x.via # Periodic
                      \/ \E rep \in Reports : rep = x.rep /\ Solicited(rep)'

LEMMA CausedStep ==
    ASSUME TypeInv, CausedInv, StaysStarted, CausedPublishes, CausedRequests,
           CausedReports, CausedCallbacks, CausedSends
    PROVE  CausedInv'
<1> USE DEF TypeInv, TypeOK
<1>1. ASSUME NEW c \in Cmds, inflight'[c] # {} PROVE Started(c)'
  BY <1>1 DEF CausedInv, CausedPublishes, StaysStarted
<1>2. ASSUME NEW s \in Sids, NEW i \in DOMAIN control'[s]
      PROVE  \E c \in Cmds : c = control'[s][i] /\ Started(c)'
  <2>1. ASSUME NEW j \in DOMAIN control[s], control[s][j] = control'[s][i]
        PROVE  \E c \in Cmds : c = control'[s][i] /\ Started(c)'
    <3>1. control[s] \in Seq(Cmds) OBVIOUS
    <3>2. PICK c \in Cmds : c = control[s][j] BY <3>1
    <3>3. Started(c) BY <3>2 DEF CausedInv
    <3> QED BY <2>1, <3>2, <3>3 DEF StaysStarted
  <2> QED BY <2>1 DEF CausedRequests
<1>3. ASSUME NEW i \in DOMAIN stream'
      PROVE  \E rep \in Reports : rep = stream'[i] /\ Solicited(rep)'
  <2>1. ASSUME NEW j \in DOMAIN stream, stream[j] = stream'[i]
        PROVE  \E rep \in Reports : rep = stream'[i] /\ Solicited(rep)'
    <3>1. PICK rep \in Reports : rep = stream[j] OBVIOUS
    <3>2. Solicited(rep) BY <3>1 DEF CausedInv
    <3> QED BY <2>1, <3>1, <3>2, SolicitedForGood
  <2> QED BY <2>1 DEF CausedReports
<1>4. ASSUME NEW i \in DOMAIN ready'
      PROVE  \E cb \in Callbacks : cb = ready'[i] /\ SolicitedBatch(cb)'
  <2>1. PICK cb \in Range(ready') : cb = ready'[i] BY DEF Range
  <2>2. CASE cb \in Range(ready)
    <3>1. cb \in Callbacks BY <2>2 DEF Range
    <3>2. SolicitedBatch(cb) BY <2>2 DEF CausedInv, Range
    <3>3. ASSUME cb.kind = "batch", NEW k \in DOMAIN cb.batch
          PROVE  Solicited(cb.batch[k])'
      <4>1. cb.batch \in Seq(Reports) BY <3>1, <3>3, CallbackFields
      <4>2. PICK rep \in Reports : rep = cb.batch[k] BY <4>1
      <4>3. Solicited(rep) BY <3>2, <3>3, <4>2 DEF SolicitedBatch
      <4> QED BY <4>2, <4>3, SolicitedForGood
    <3>4. SolicitedBatch(cb)' BY <3>3 DEF SolicitedBatch
    <3> QED BY <2>1, <3>1, <3>4
  <2>3. CASE cb \in Callbacks /\ SolicitedBatch(cb)' BY <2>1, <2>3
  <2> QED BY <2>2, <2>3 DEF CausedCallbacks
<1>5. ASSUME NEW x \in sends', x.via = Periodic
      PROVE  \E rep \in Reports : rep = x.rep /\ Solicited(rep)'
  <2>1. ASSUME x \in sends PROVE \E rep \in Reports : rep = x.rep /\ Solicited(rep)'
    <3>1. PICK rep \in Reports : rep = x.rep BY <2>1
    <3>2. Solicited(rep) BY <1>5, <2>1, <3>1 DEF CausedInv
    <3> QED BY <3>1, <3>2, SolicitedForGood
  <2> QED BY <1>5, <2>1 DEF CausedSends
<1>6. (\A c \in Cmds : inflight[c] # {} => Started(c))' BY <1>1
<1>7. (\A s \in Sids : \A i \in DOMAIN control[s] : Started(control[s][i]))'
  BY <1>2 DEF Started
<1>8. (\A i \in DOMAIN stream : Solicited(stream[i]))' BY <1>3 DEF Solicited, Started
<1>9. (\A i \in DOMAIN ready : SolicitedBatch(ready[i]))'
  BY <1>4 DEF SolicitedBatch, Solicited, Started
<1>10. (\A x \in sends : x.via = Periodic => Solicited(x.rep))'
  BY <1>5 DEF Solicited, Started
<1> QED BY <1>6, <1>7, <1>8, <1>9, <1>10 DEF CausedInv

\* The queue after a callback was scheduled, and after the head has run: only a
\* batch is caused by anyone, and nothing but the head is lost.
LEMMA Scheduled ==
    ASSUME TypeInv, NEW cb \in Callbacks, ready' = Append(ready, cb)
    PROVE  /\ SolicitedBatch(cb)' => CausedCallbacks
           /\ \A other \in Range(ready) : other \in Range(ready')
           /\ cb \in Range(ready')
<1>1. ready \in Seq(Callbacks) /\ <<cb>> \in Seq(Callbacks) BY DEF TypeInv, TypeOK
<1>2. ready' = ready \o <<cb>> BY <1>1
<1>3. Range(<<cb>>) = {cb} BY DEF Range
<1>4. Range(ready') = Range(ready) \cup {cb} BY <1>1, <1>2, <1>3, Appended
<1> QED BY <1>4 DEF CausedCallbacks

LEMMA HeadRun ==
    ASSUME TypeInv, ready # <<>>, NEW more \in Seq(Callbacks),
           \A j \in DOMAIN more : more[j].kind # "batch",
           ready' = Tail(ready) \o more
    PROVE  /\ CausedCallbacks
           /\ \A other \in Range(ready) : other = Head(ready) \/ other \in Range(ready')
           /\ Range(more) \subseteq Range(ready')
<1>1. ready \in Seq(Callbacks) BY DEF TypeInv, TypeOK
<1>2. /\ Range(ready') \subseteq Range(ready) \cup Range(more)
      /\ Range(more) \subseteq Range(ready')
      /\ \A cb \in Range(ready) : cb = Head(ready) \/ cb \in Range(ready')
  BY <1>1, Advanced
<1>3. \A cb \in Range(more) : cb \in Callbacks /\ cb.kind # "batch" BY DEF Range
<1>4. \A cb \in Range(more) : SolicitedBatch(cb)' BY <1>3 DEF SolicitedBatch
<1> QED BY <1>2, <1>3, <1>4 DEF CausedCallbacks

LEMMA HeadGone ==
    ASSUME TypeInv, ready # <<>>, ready' = Tail(ready)
    PROVE  /\ CausedCallbacks
           /\ \A other \in Range(ready) : other = Head(ready) \/ other \in Range(ready')
<1>1. ready' = Tail(ready) \o <<>> /\ <<>> \in Seq(Callbacks) /\ DOMAIN <<>> = {}
  BY DEF TypeInv, TypeOK
<1> QED BY <1>1, HeadRun

-----------------------------------------------------------------------------
(* One lemma per kind of step.                                             *)

\* A step that only runs or schedules callbacks.
LEMMA LoopCaused ==
    ASSUME TypeInv, CausedInv, StaysStarted, CausedCallbacks, CausedSends,
           CausedPublishes, UNCHANGED <<control, stream>>
    PROVE  CausedInv'
<1>1. CausedRequests BY DEF CausedRequests
<1>2. CausedReports BY DEF CausedReports
<1> QED BY <1>1, <1>2, CausedStep

LEMMA TaskIsNoBatch ==
    ASSUME NEW kind \in TaskKinds, NEW c \in Cmds
    PROVE  Task(kind, c) \in Callbacks /\ SolicitedBatch(Task(kind, c))'
BY TaskType DEF Task, TaskKinds, SolicitedBatch

LEMMA TaskScheduled ==
    ASSUME TypeInv, NEW kind \in TaskKinds, NEW c \in Cmds,
           ready' = Append(ready, Task(kind, c))
    PROVE  CausedCallbacks
BY TaskIsNoBatch, Scheduled

LEMMA FinishCaused ==
    ASSUME TypeInv, NEW c \in Cmds, ready # <<>>, Finish(c)
    PROVE  CausedCallbacks /\ CausedSends
<1>1. PICK order \in SetToSeqs(Replies(c)) : ready' = Tail(ready) \o Dispatches(order)
  BY DEF Finish
<1>2. order \in Seq(Reports)
  <2>1. Replies(c) \subseteq Reports /\ IsFiniteSet(Replies(c)) BY RepliesType
  <2>2. order \in Seq(Replies(c)) BY <2>1, EnumerationType
  <2> QED BY <2>1, <2>2
<1>3. /\ Dispatches(order) \in Seq(Callbacks)
      /\ \A i \in DOMAIN Dispatches(order) : Dispatches(order)[i].kind # "batch"
  BY <1>2, DispatchesType
<1>4. CausedCallbacks BY <1>1, <1>3, HeadRun
<1>5. c # Periodic BY ConstAssumption
<1>6. CausedSends BY <1>5 DEF Finish, Sent, CausedSends
<1> QED BY <1>4, <1>6

\* A request goes out only after RunStart, so a pod that answers it answers a
\* started command.
LEMMA PublishCaused ==
    ASSUME TypeInv, CausedInv, StaysStarted, NEW c \in Cmds, NEW s \in Sids,
           PublishOne(c, s)
    PROVE  CausedInv'
<1> USE DEF TypeInv, TypeOK
<1>1. Started(c) BY DEF PublishOne, CausedInv
<1>2. Started(c)' BY <1>1 DEF StaysStarted
<1>3. CausedPublishes BY DEF PublishOne, CausedPublishes
<1>4. CausedRequests
  <2>1. \A t \in Sids : control'[t] = IF t = s THEN Append(control[t], c) ELSE control[t]
    BY DEF PublishOne
  <2>2. ASSUME NEW t \in Sids, NEW i \in DOMAIN control'[t]
        PROVE  \/ \E j \in DOMAIN control[t] : control[t][j] = control'[t][i]
               \/ control'[t][i] = c
    <3>1. control[t] \in Seq(Cmds) OBVIOUS
    <3>2. CASE t # s BY <2>1, <2>2, <3>2
    <3>3. CASE t = s
      <4>1. control'[t] = Append(control[t], c) BY <2>1, <3>3
      <4>2. i \in DOMAIN Append(control[t], c) BY <4>1
      <4>3. Append(control[t], c)[i] = c \/ (i \in DOMAIN control[t]
                /\ Append(control[t], c)[i] = control[t][i])
        BY <3>1, <4>2
      <4> QED BY <4>1, <4>3
    <3> QED BY <3>2, <3>3
  <2> QED BY <1>2, <2>2 DEF CausedRequests
<1>5. CausedReports BY DEF PublishOne, CausedReports
<1>6. CausedCallbacks BY DEF PublishOne, CausedCallbacks, loopVars
<1>7. CausedSends BY DEF PublishOne, CausedSends, loopVars
<1> QED BY <1>3, <1>4, <1>5, <1>6, <1>7, CausedStep

\* A pod takes the oldest request and, if it replies, replies to it.
LEMMA PodCaused ==
    ASSUME ProtocolInv, CausedInv, StaysStarted, NEW s \in Sids,
           PodReplies(s) \/ PodDrops(s)
    PROVE  CausedInv'
<1> USE DEF ProtocolInv, TypeInv, TypeOK
<1>1. control[s] \in Seq(Cmds) /\ control[s] # <<>> BY DEF PodReplies, PodDrops
<1>2. PICK c \in Cmds : c = Head(control[s]) BY <1>1
<1>3. Started(c)
  <2>1. 1 \in DOMAIN control[s] /\ control[s][1] = c BY <1>1, <1>2
  <2> QED BY <2>1 DEF CausedInv
<1>4. Started(c)' /\ req'[c] = req[c] BY <1>3 DEF StaysStarted
<1>5. \A t \in Sids : control'[t] = IF t = s THEN Tail(control[t]) ELSE control[t]
  BY DEF PodReplies, PodDrops
<1>6. CausedRequests
  <2>1. ASSUME NEW t \in Sids, NEW i \in DOMAIN control'[t]
        PROVE  \E j \in DOMAIN control[t] : control[t][j] = control'[t][i]
    <3>1. CASE t # s BY <1>5, <2>1, <3>1
    <3>2. CASE t = s
      <4>1. i \in DOMAIN Tail(control[s]) /\ control'[t] = Tail(control[s])
        BY <1>5, <2>1, <3>2
      <4>2. i + 1 \in DOMAIN control[s] /\ control[s][i + 1] = Tail(control[s])[i]
        BY <1>1, <4>1
      <4> QED BY <3>2, <4>1, <4>2
    <3> QED BY <3>1, <3>2
  <2> QED BY <2>1 DEF CausedRequests
<1>7. CausedReports
  <2>1. CASE PodReplies(s)
    <3> DEFINE new == [id |-> nextId, topic |-> req[c].topic, sid |-> s, cause |-> c]
    <3>1. nextId \in 0 .. MaxReports - 1 BY <2>1, ConstAssumption DEF PodReplies
    <3>2. new \in Reports BY <3>1 DEF Reports, Requests
    <3>3. stream' = Append(stream, new) BY <1>2, <2>1 DEF PodReplies
    <3>4. PICK rep \in Reports : rep = new BY <3>2
    <3>5. rep.cause = c /\ rep.topic = req[c].topic BY <3>4
    <3>6. Solicited(rep)' BY <1>4, <3>5 DEF Solicited
    <3>7. stream \in Seq(Reports) OBVIOUS
    <3> HIDE DEF new
    <3>8. ASSUME NEW i \in DOMAIN stream'
          PROVE  stream'[i] = rep \/ \E j \in DOMAIN stream : stream[j] = stream'[i]
      <4>1. i \in DOMAIN Append(stream, rep) BY <3>3, <3>4
      <4>2. Append(stream, rep)[i] = rep
            \/ (i \in DOMAIN stream /\ Append(stream, rep)[i] = stream[i])
        BY <3>7, <4>1
      <4> QED BY <3>3, <3>4, <4>2
    <3> QED BY <3>6, <3>8 DEF CausedReports
  <2>2. CASE PodDrops(s) BY <2>2 DEF PodDrops, CausedReports
  <2> QED BY <2>1, <2>2
<1>8. UNCHANGED <<inflight, ready, sends>> BY DEF PodReplies, PodDrops, loopVars
<1>9. CausedCallbacks /\ CausedSends /\ CausedPublishes
  BY <1>8 DEF CausedCallbacks, CausedSends, CausedPublishes
<1> QED BY <1>6, <1>7, <1>9, CausedStep

\* A periodic snapshot is nobody's answer.
LEMMA PeriodicCaused ==
    ASSUME ProtocolInv, CausedInv, StaysStarted, NEW s \in Sids,
           NEW topic \in PeriodicTopics, PodPeriodic(s, topic)
    PROVE  CausedInv'
<1> USE DEF ProtocolInv, TypeInv, TypeOK
<1> DEFINE new == [id |-> nextId, topic |-> topic, sid |-> s, cause |-> Periodic]
<1>1. nextId \in 0 .. MaxReports - 1 BY ConstAssumption DEF PodPeriodic
<1>2. new \in Reports BY <1>1, ConstAssumption DEF Reports
<1>3. stream' = Append(stream, new) BY DEF PodPeriodic
<1>4. PICK rep \in Reports : rep = new BY <1>2
<1>5. Solicited(rep)' BY <1>4 DEF Solicited
<1>6. stream \in Seq(Reports) OBVIOUS
<1>7. CausedReports
  <2> HIDE DEF new
  <2>1. ASSUME NEW i \in DOMAIN stream'
        PROVE  stream'[i] = rep \/ \E j \in DOMAIN stream : stream[j] = stream'[i]
    <3>1. i \in DOMAIN Append(stream, rep) BY <1>3, <1>4
    <3>2. Append(stream, rep)[i] = rep
          \/ (i \in DOMAIN stream /\ Append(stream, rep)[i] = stream[i])
      BY <1>6, <3>1
    <3> QED BY <1>3, <1>4, <3>2
  <2> QED BY <1>5, <2>1 DEF CausedReports
<1>8. UNCHANGED <<inflight, control, ready, sends>> BY DEF PodPeriodic, loopVars
<1>9. CausedCallbacks /\ CausedSends /\ CausedPublishes /\ CausedRequests
  BY <1>8 DEF CausedCallbacks, CausedSends, CausedPublishes, CausedRequests
<1> QED BY <1>7, <1>9, CausedStep

\* A response carries what was in the stream.
LEMMA XreadCaused ==
    ASSUME ProtocolInv, CausedInv, StaysStarted, XreadReturns
    PROVE  CausedInv'
<1> USE DEF ProtocolInv, TypeInv, TypeOK
<1> DEFINE new == [kind |-> "batch", batch |-> stream]
<1>1. new \in Callbacks BY DEF Callbacks
<1>2. PICK cb \in Callbacks : cb = new BY <1>1
<1>3. ready' = Append(ready, cb) BY <1>2 DEF XreadReturns
<1>4. PICK b \in Seq(Reports) : b = stream OBVIOUS
<1>5. cb.batch = b BY <1>2, <1>4
<1>6. \A j \in DOMAIN b : Solicited(b[j])'
  <2> SUFFICES ASSUME NEW j \in DOMAIN b PROVE Solicited(b[j])'
    OBVIOUS
  <2>1. PICK rep \in Reports : rep = b[j] OBVIOUS
  <2>2. Solicited(rep) BY <1>4, <2>1 DEF CausedInv
  <2> QED BY <2>1, <2>2, SolicitedForGood
<1>7. SolicitedBatch(cb)' BY <1>5, <1>6 DEF SolicitedBatch
<1>8. CausedCallbacks BY <1>3, <1>7, Scheduled
<1>9. UNCHANGED <<inflight, control, sends>> BY DEF XreadReturns
<1>10. CausedSends /\ CausedPublishes /\ CausedRequests
  BY <1>9 DEF CausedSends, CausedPublishes, CausedRequests
<1>11. CausedReports
  <2>1. stream' = <<>> BY DEF XreadReturns
  <2> QED BY <2>1 DEF CausedReports
<1> QED BY <1>8, <1>10, <1>11, CausedStep

\* Subscribing comes before the first publish.
LEMMA StartCaused ==
    ASSUME ProtocolInv, CausedInv, StaysStarted, NEW c \in Cmds, RunStart(c)
    PROVE  CausedInv'
<1> USE DEF ProtocolInv, TypeInv, TypeOK
<1>1. CausedCallbacks BY HeadGone DEF RunStart, Running
<1>2. UNCHANGED <<control, stream, sends>> BY DEF RunStart, podVars
<1>3. CausedSends BY <1>2 DEF CausedSends
<1>4. CausedPublishes
  <2>1. CASE UNCHANGED inflight BY <2>1 DEF CausedPublishes
  <2>2. CASE /\ pc' = [pc EXCEPT ![c] = "publishing"]
             /\ inflight' = [inflight EXCEPT ![c] = req[c].targets]
    BY <2>2 DEF CausedPublishes, Started
  <2> QED BY <2>1, <2>2 DEF RunStart
<1> QED BY <1>1, <1>2, <1>3, <1>4, LoopCaused

\* Forwarding a response sends only what the response holds.
LEMMA BatchCaused ==
    ASSUME ProtocolInv, CausedInv, StaysStarted, RunBatch
    PROVE  CausedInv'
<1> USE DEF ProtocolInv, TypeInv, TypeOK
<1>1. PICK batch \in Seq(Reports) : batch = Head(ready).batch
  BY TailType, CallbackFields DEF RunBatch
<1>2. ready # <<>> /\ ready' = Tail(ready) \o Dispatches(batch) BY <1>1 DEF RunBatch
<1>3. /\ Dispatches(batch) \in Seq(Callbacks)
      /\ \A i \in DOMAIN Dispatches(batch) : Dispatches(batch)[i].kind # "batch"
  BY <1>1, DispatchesType
<1>4. CausedCallbacks BY <1>2, <1>3, HeadRun
<1>5. \A j \in DOMAIN batch : Solicited(batch[j])
  <2>1. 1 \in DOMAIN ready /\ ready[1] = Head(ready) BY <1>2
  <2>2. SolicitedBatch(Head(ready)) BY <2>1 DEF CausedInv
  <2> QED BY <1>1, <2>2 DEF SolicitedBatch, RunBatch
<1>6. CausedSends
  <2>1. sends' = sends \cup Sent(listeners, {batch[i] : i \in DOMAIN batch}, "logging", Periodic)
    BY <1>1 DEF RunBatch
  <2>2. ASSUME NEW x \in sends', x \notin sends
        PROVE  \E rep \in Reports : rep = x.rep /\ Solicited(rep)'
    <3>1. \E i \in DOMAIN batch : x.rep = batch[i] BY <2>1, <2>2 DEF Sent
    <3>2. PICK rep \in Reports : rep = x.rep /\ Solicited(rep) BY <1>5, <3>1
    <3> QED BY <3>2, SolicitedForGood
  <2> QED BY <2>2 DEF CausedSends
<1>7. UNCHANGED <<inflight, control, stream>> BY DEF RunBatch, podVars
<1>8. CausedPublishes BY <1>7 DEF CausedPublishes
<1> QED BY <1>4, <1>6, <1>7, <1>8, LoopCaused

LEMMA DispatchCaused ==
    ASSUME ProtocolInv, CausedInv, StaysStarted, RunDispatch
    PROVE  CausedInv'
<1> USE DEF ProtocolInv, TypeInv, TypeOK
<1> DEFINE rep == Head(ready).rep
           complete == {c \in Takers(rep) : pc[c] = "waiting" /\ Pending(c) = {rep.sid}}
<1>1. ready # <<>> /\ rep \in Reports
  BY TailType, CallbackFields DEF RunDispatch
<1>2. complete \subseteq Cmds BY <1>1, KeyType DEF Takers
<1>3. PICK order \in SetToSeqs(complete) : ready' = Tail(ready) \o Gathers(order)
  BY DEF RunDispatch
<1>4. order \in Seq(Cmds)
  <2>1. IsFiniteSet(complete) BY <1>2, ConstAssumption, FS_Subset
  <2>2. order \in Seq(complete) BY <2>1, EnumerationType
  <2> QED BY <1>2, <2>2
<1>5. /\ Gathers(order) \in Seq(Callbacks)
      /\ \A i \in DOMAIN Gathers(order) : Gathers(order)[i].kind # "batch"
  BY <1>4, GathersType DEF Gathers, Task
<1>6. CausedCallbacks BY <1>1, <1>3, <1>5, HeadRun
<1>7. UNCHANGED <<inflight, control, stream, sends>> BY DEF RunDispatch, podVars
<1>8. CausedSends /\ CausedPublishes BY <1>7 DEF CausedSends, CausedPublishes
<1> QED BY <1>6, <1>7, <1>8, LoopCaused

LEMMA TimeoutCaused ==
    ASSUME ProtocolInv, CausedInv, StaysStarted, NEW c \in Cmds, RunTimeout(c)
    PROVE  CausedInv'
<1> USE DEF ProtocolInv, TypeInv, TypeOK
<1>1. ready # <<>> BY DEF RunTimeout, Running
<1>2. CausedCallbacks
  <2>1. CASE ready' = Tail(ready) \o <<Task("gather", c)>>
    <3>1. Task("gather", c) \in Callbacks BY TaskType DEF TaskKinds
    <3>2. /\ <<Task("gather", c)>> \in Seq(Callbacks)
          /\ \A j \in DOMAIN <<Task("gather", c)>> : <<Task("gather", c)>>[j].kind # "batch"
      BY <3>1 DEF Task
    <3> QED BY <1>1, <2>1, <3>2, HeadRun
  <2>2. CASE ready' = Tail(ready) \o <<>>
    <3>1. ready' = Tail(ready) BY <1>1, <2>2
    <3> QED BY <1>1, <3>1, HeadGone
  <2>3. CASE ready' = Tail(ready) BY <1>1, <2>3, HeadGone
  <2> QED BY <2>1, <2>2, <2>3 DEF RunTimeout
<1>3. UNCHANGED <<inflight, control, stream, sends>> BY DEF RunTimeout, podVars
<1>4. CausedSends /\ CausedPublishes BY <1>3 DEF CausedSends, CausedPublishes
<1> QED BY <1>2, <1>3, <1>4, LoopCaused

LEMMA GatherCaused ==
    ASSUME ProtocolInv, CausedInv, StaysStarted, NEW c \in Cmds, RunGather(c)
    PROVE  CausedInv'
<1> USE DEF ProtocolInv, TypeInv, TypeOK
<1>1. ready # <<>> BY DEF RunGather, Running
<1>2. Task("wake", c) \in Callbacks BY TaskType DEF TaskKinds
<1>3. /\ <<Task("wake", c)>> \in Seq(Callbacks)
      /\ \A j \in DOMAIN <<Task("wake", c)>> : <<Task("wake", c)>>[j].kind # "batch"
  BY <1>2 DEF Task
<1>4. Tail(ready) \in Seq(Callbacks) BY <1>1, TailType
<1>5. ready' = Tail(ready) \o <<Task("wake", c)>> BY <1>2, <1>4 DEF RunGather
<1>6. CausedCallbacks BY <1>1, <1>3, <1>5, HeadRun
<1>7. UNCHANGED <<inflight, control, stream, sends>> BY DEF RunGather, podVars
<1>8. CausedSends /\ CausedPublishes BY <1>7 DEF CausedSends, CausedPublishes
<1> QED BY <1>6, <1>7, <1>8, LoopCaused

LEMMA CausedNext ==
    ASSUME ProtocolInv, CausedInv, [Next]_vars
    PROVE  CausedInv'
<1>1. StaysStarted BY StartedForGood
<1>2. TypeInv BY DEF ProtocolInv
<1> DEFINE Quiet == UNCHANGED <<control, stream, sends>>
<1>3. ASSUME Quiet, CausedPublishes, CausedCallbacks PROVE CausedInv'
  <2>1. CausedSends BY <1>3 DEF CausedSends
  <2> QED BY <1>1, <1>2, <1>3, <2>1, LoopCaused
<1>4. UNCHANGED inflight => CausedPublishes BY DEF CausedPublishes
<1>5. UNCHANGED ready => CausedCallbacks BY DEF CausedCallbacks
<1>6. ASSUME NEW c \in Cmds, NEW topic \in Topics, NEW chan \in Channels,
             NEW strategy \in Sids \cup {AllStrategies},
             Issue(c, topic, chan, strategy)
      PROVE  CausedInv'
  <2>1. CausedCallbacks BY <1>2, <1>6, TaskScheduled DEF Issue, TaskKinds
  <2> QED BY <1>3, <1>4, <1>6, <2>1 DEF Issue, podVars
<1>7. ASSUME NEW c \in Cmds, NEW s \in Sids, PublishOne(c, s) PROVE CausedInv'
  BY <1>1, <1>2, <1>7, PublishCaused
<1>8. ASSUME NEW c \in Cmds, NEW s \in Sids, PublishFails(c, s) PROVE CausedInv'
  <2>1. CausedCallbacks
    BY <1>2, <1>5, <1>8, TaskScheduled DEF PublishFails, TaskKinds
  <2>2. CausedPublishes
    BY <1>2, <1>8 DEF PublishFails, CausedPublishes, TypeInv, TypeOK
  <2> QED BY <1>3, <1>8, <2>1, <2>2 DEF PublishFails, podVars
<1>9. ASSUME NEW c \in Cmds, PublishesReturn(c) PROVE CausedInv'
  <2>1. CausedCallbacks BY <1>2, <1>9, TaskScheduled DEF PublishesReturn, TaskKinds
  <2> QED BY <1>3, <1>4, <1>9, <2>1 DEF PublishesReturn, podVars
<1>10. ASSUME NEW c \in Cmds, TimerFires(c) PROVE CausedInv'
  <2>1. CausedCallbacks BY <1>2, <1>10, TaskScheduled DEF TimerFires, TaskKinds
  <2> QED BY <1>3, <1>4, <1>10, <2>1 DEF TimerFires, podVars
<1>11. ASSUME NEW s \in Sids, PodReplies(s) \/ PodDrops(s) PROVE CausedInv'
  BY <1>1, <1>11, PodCaused
<1>12. ASSUME NEW s \in Sids, NEW topic \in PeriodicTopics, PodPeriodic(s, topic)
       PROVE  CausedInv'
  BY <1>1, <1>12, PeriodicCaused
<1>13. ASSUME XreadReturns PROVE CausedInv'
  BY <1>1, <1>13, XreadCaused
<1>14. ASSUME NEW c \in Cmds, RunStart(c) PROVE CausedInv'
  BY <1>1, <1>14, StartCaused
<1>15. ASSUME NEW c \in Cmds, RunPublished(c) \/ RunWake(c) PROVE CausedInv'
  <2>1. ready # <<>> /\ UNCHANGED <<inflight, control, stream>>
    BY <1>15 DEF RunPublished, RunWake, Running, podVars
  <2>2. CASE Finish(c)
    <3>1. CausedCallbacks /\ CausedSends BY <1>2, <2>1, <2>2, FinishCaused
    <3> QED BY <1>1, <1>2, <1>4, <2>1, <3>1, LoopCaused
  <2>3. CASE ready' = Tail(ready) /\ UNCHANGED sends
    <3>1. CausedCallbacks BY <1>2, <2>1, <2>3, HeadGone
    <3> QED BY <1>3, <1>4, <2>1, <2>3, <3>1
  <2> QED BY <1>15, <2>2, <2>3 DEF RunPublished, RunWake
<1>16. ASSUME NEW c \in Cmds, RunFailed(c) PROVE CausedInv'
  <2>1. CausedCallbacks BY <1>2, <1>16, HeadGone DEF RunFailed, Running
  <2> QED BY <1>3, <1>4, <1>16, <2>1 DEF RunFailed, podVars
<1>17. ASSUME NEW c \in Cmds, RunTimeout(c) PROVE CausedInv'
  BY <1>1, <1>17, TimeoutCaused
<1>18. ASSUME NEW c \in Cmds, RunGather(c) PROVE CausedInv'
  BY <1>1, <1>18, GatherCaused
<1>19. ASSUME RunBatch PROVE CausedInv'
  BY <1>1, <1>19, BatchCaused
<1>20. ASSUME RunDispatch PROVE CausedInv'
  BY <1>1, <1>20, DispatchCaused
<1>21. CASE UNCHANGED vars
  BY <1>3, <1>4, <1>5, <1>21 DEF vars
<1> QED
  BY <1>6, <1>7, <1>8, <1>9, <1>10, <1>11, <1>12, <1>13, <1>14, <1>15, <1>16, <1>17,
     <1>18, <1>19, <1>20, <1>21 DEF Next, RunLoop

LEMMA CausedInit == Init => CausedInv
BY DEF Init, CausedInv

-----------------------------------------------------------------------------
(* No reply is missed.                                                     *)

DeliveryInv == ProtocolInv /\ CausedInv /\ ReplyNeverMissed

\* A forwarded report that found nobody waiting has no command waiting for it: a
\* waiting command's slot is in the table.
LEMMA BatchMissesNothing ==
    ASSUME ProtocolInv, CausedInv, RunBatch,
           NEW x \in sends', x \notin sends, x.rep.cause # Periodic
    PROVE  fut[x.rep.cause][x.rep.sid] # "pending"
<1> USE DEF ProtocolInv, TypeInv, TypeOK
<1>1. PICK batch \in Seq(Reports) : batch = Head(ready).batch
  BY TailType, CallbackFields DEF RunBatch
<1>2. PICK i \in DOMAIN batch : x.rep = batch[i] /\ ~OnDemand(listeners, batch[i])
  <2>1. sends' = sends \cup Sent(listeners, {batch[i] : i \in DOMAIN batch}, "logging", Periodic)
    BY <1>1 DEF RunBatch
  <2>2. x \in Sent(listeners, {batch[i] : i \in DOMAIN batch}, "logging", Periodic)
    BY <2>1
  <2>3. PICK r \in {batch[i] : i \in DOMAIN batch} :
           x.rep = r /\ ~OnDemand(listeners, r)
    BY <2>2 DEF Sent
  <2> QED BY <2>3
<1>3. PICK rep \in Reports : rep = batch[i] BY <1>2
<1>4. Solicited(rep)
  <2>1. 1 \in DOMAIN ready /\ ready[1] = Head(ready) BY DEF RunBatch
  <2>2. SolicitedBatch(Head(ready)) BY <2>1 DEF CausedInv
  <2> QED BY <1>1, <1>3, <2>2 DEF SolicitedBatch, RunBatch
<1>5. PICK c \in Cmds : c = rep.cause BY <1>2, <1>3 DEF Reports
<1>6. Started(c) /\ rep.topic = req[c].topic /\ rep.sid \in Sids
  BY <1>2, <1>3, <1>4, <1>5 DEF Solicited, Reports
<1>7. listeners[<<rep.topic, rep.sid>>] = {} BY <1>2, <1>3 DEF OnDemand, Key
<1>8. ASSUME fut[c][rep.sid] = "pending" PROVE FALSE
  <2>1. rep.sid \in req[c].targets BY <1>6, <1>8 DEF FuturesOfTargets
  <2>2. rep.sid \in Pending(c) BY <1>8, <2>1 DEF Pending
  <2>3. c \in listeners[<<req[c].topic, rep.sid>>] BY <2>2 DEF WaitersRegistered
  <2> QED BY <1>6, <1>7, <2>3
<1> QED BY <1>2, <1>3, <1>5, <1>8

\* A future of a started command that is not pending never becomes pending.
LEMMA SettledForGood ==
    ASSUME ProtocolInv, [Next]_vars, NEW c \in Cmds, NEW s \in Sids, Started(c),
           fut[c][s] # "pending"
    PROVE  fut'[c][s] # "pending"
<1> USE DEF ProtocolInv, TypeInv, TypeOK
<1>1. CASE UNCHANGED fut BY <1>1
<1>2. ASSUME NEW d \in Cmds, RunStart(d) PROVE fut'[c][s] # "pending"
  <2>1. d # c BY <1>2 DEF RunStart, Started
  <2>2. fut'[c] = fut[c] BY <1>2, <2>1 DEF RunStart
  <2> QED BY <2>2
<1>3. ASSUME NEW d \in Cmds, RunTimeout(d) PROVE fut'[c][s] # "pending"
  <2>1. \/ UNCHANGED fut
        \/ fut' = [fut EXCEPT ![d] = [t \in Sids |->
                     IF t \in Pending(d) THEN "cancelled" ELSE fut[d][t]]]
    BY <1>3 DEF RunTimeout
  <2> QED BY <2>1
<1>4. ASSUME RunDispatch PROVE fut'[c][s] # "pending"
  <2> DEFINE rep == Head(ready).rep
  <2>1. fut' = [d \in Cmds |-> [t \in Sids |->
                 IF d \in Takers(rep) /\ t = rep.sid THEN "resolved" ELSE fut[d][t]]]
    BY <1>4 DEF RunDispatch
  <2> HIDE DEF rep
  <2>2. fut'[c][s] = IF c \in Takers(rep) /\ s = rep.sid THEN "resolved" ELSE fut[c][s]
    BY <2>1
  <2> QED BY <2>2
<1>5. \/ UNCHANGED fut \/ RunDispatch
      \/ \E d \in Cmds : RunStart(d) \/ RunTimeout(d)
  BY DEF Next, RunLoop, Issue, PublishOne, PublishesReturn, PublishFails, PodReplies,
     PodDrops, PodPeriodic, XreadReturns, TimerFires, RunPublished, RunFailed, RunGather,
     RunWake, RunBatch, loopVars, vars
<1> QED BY <1>1, <1>2, <1>3, <1>4, <1>5

LEMMA DeliveryStep == DeliveryInv /\ [Next]_vars => DeliveryInv'
<1> SUFFICES ASSUME DeliveryInv, [Next]_vars PROVE DeliveryInv'
  OBVIOUS
<1> USE DEF DeliveryInv
<1>1. ProtocolInv' BY ProtocolStep
<1>2. CausedInv' BY CausedNext
<1>3. ASSUME NEW x \in sends', x.via = Periodic, x.rep.cause # Periodic
      PROVE  fut'[x.rep.cause][x.rep.sid] # "pending"
  <2>1. CASE x \in sends
    <3>1. x.rep \in Reports BY <2>1 DEF ProtocolInv, TypeInv, TypeOK
    <3>2. x.rep.cause \in Cmds /\ x.rep.sid \in Sids BY <1>3, <3>1 DEF Reports
    <3>3. Started(x.rep.cause) BY <1>3, <2>1 DEF CausedInv, Solicited
    <3>4. fut[x.rep.cause][x.rep.sid] # "pending"
      BY <1>3, <2>1 DEF ReplyNeverMissed
    <3> QED BY <3>2, <3>3, <3>4, SettledForGood
  <2>2. CASE x \notin sends
    <3>1. ASSUME NEW c \in Cmds, ready # <<>>, Finish(c) PROVE FALSE
      <4>1. x.via = c BY <2>2, <3>1 DEF Finish, Sent
      <4> QED BY <1>3, <4>1, ConstAssumption
    <3>2. RunBatch
      <4>1. \/ UNCHANGED sends \/ RunBatch
            \/ \E c \in Cmds : ready # <<>> /\ Finish(c)
        BY DEF Next, RunLoop, Issue, PublishOne, PublishesReturn, PublishFails,
           PodReplies, PodDrops, PodPeriodic, XreadReturns, TimerFires, RunStart,
           RunPublished, RunFailed, RunGather, RunWake, RunTimeout, RunDispatch, Running,
           loopVars, vars
      <4> QED BY <2>2, <3>1, <4>1
    <3>3. fut[x.rep.cause][x.rep.sid] # "pending"
      BY <1>3, <2>2, <3>2, BatchMissesNothing
    <3> QED BY <3>2, <3>3 DEF RunBatch
  <2> QED BY <2>1, <2>2
<1>4. ReplyNeverMissed' BY <1>3 DEF ReplyNeverMissed
<1> QED BY <1>1, <1>2, <1>4

\* Subscribe before publish: no pod's reply is forwarded as unsolicited while the
\* command that asked for it waits for that pod.
THEOREM NoReplyMissed == Spec => []ReplyNeverMissed
<1>1. Init => DeliveryInv
  BY ProtocolInit, CausedInit DEF DeliveryInv, Init, ReplyNeverMissed
<1>2. DeliveryInv => ReplyNeverMissed BY DEF DeliveryInv
<1> QED BY <1>1, <1>2, DeliveryStep, PTL DEF Spec

-----------------------------------------------------------------------------
(* Suspended tasks are resumed.                                            *)

InQueue(kind, c) == Task(kind, c) \in Range(ready)

\* While a future is open it is the timer that will resume the task, running or
\* already queued; once none is, gather's callback or the wake-up is queued.
WillResume(c) ==
    IF Pending(c) # {} THEN c \in armed \/ InQueue("timeout", c)
    ELSE InQueue("gather", c) \/ InQueue("wake", c)

ResumeInv ==
    /\ ProtocolInv
    /\ \A c \in Cmds : pc[c] = "waiting" => WillResume(c)

\* An enumeration leaves out nothing: an injection from 1 .. n into n elements.
LEMMA EnumerationCovers ==
    ASSUME NEW S, IsFiniteSet(S), NEW order \in SetToSeqs(S), NEW e \in S
    PROVE  \E i \in DOMAIN order : order[i] = e
<1> DEFINE n == Cardinality(S)
           D == 1 .. n
<1>1. n \in Nat BY FS_CardinalityType
<1>2. order \in [D -> S] /\ \A i, j \in D : i # j => order[i] # order[j]
  BY DEF SetToSeqs
<1>3. order \in Injection(D, S) BY <1>2 DEF Injection, IsInjective
<1>4. Cardinality(D) = n BY <1>1, FS_Interval
<1>5. order \in Surjection(D, S) BY <1>3, <1>4, FS_Injection
<1> QED BY <1>2, <1>5 DEF Surjection

\* A command that was waiting before a step which does not run or answer it, nor
\* settle its last future, is still going to be resumed.
LEMMA StillResumed ==
    ASSUME ResumeInv, NEW c \in Cmds, pc[c] = "waiting",
           Pending(c)' # {} <=> Pending(c) # {},
           c \in armed => c \in armed' \/ InQueue("timeout", c)',
           \A kind \in {"timeout", "gather", "wake"} :
              InQueue(kind, c) => InQueue(kind, c)'
    PROVE  WillResume(c)'
BY DEF ResumeInv, WillResume

\* Appending keeps every queued callback; running the head loses only the head.
LEMMA KeptByAppend ==
    ASSUME TypeInv, NEW cb \in Callbacks, ready' = Append(ready, cb), NEW kind, NEW c,
           InQueue(kind, c)
    PROVE  InQueue(kind, c)'
BY Scheduled DEF InQueue, Task

LEMMA KeptByHead ==
    ASSUME TypeInv, ready # <<>>, NEW more \in Seq(Callbacks),
           ready' = Tail(ready) \o more, NEW kind, NEW c,
           InQueue(kind, c), Task(kind, c) # Head(ready)
    PROVE  InQueue(kind, c)'
<1>1. ready \in Seq(Callbacks) BY DEF TypeInv, TypeOK
<1>2. \A cb \in Range(ready) : cb = Head(ready) \/ cb \in Range(ready')
  BY <1>1, Advanced
<1> QED BY <1>2 DEF InQueue, Task

\* Steps that leave commands and futures alone and only append to the queue.
LEMMA AppendingStep ==
    ASSUME ResumeInv, UNCHANGED <<pc, req, fut>>,
           \A c \in Cmds : c \in armed => c \in armed' \/ InQueue("timeout", c)',
           \/ UNCHANGED ready
           \/ \E cb \in Callbacks : ready' = Append(ready, cb)
    PROVE  \A c \in Cmds : pc'[c] = "waiting" => WillResume(c)'
<1> SUFFICES ASSUME NEW c \in Cmds, pc[c] = "waiting" PROVE WillResume(c)'
  OBVIOUS
<1>1. TypeInv BY DEF ResumeInv, ProtocolInv
<1>2. Pending(c)' = Pending(c) BY DEF Pending
<1>3. ASSUME NEW kind, InQueue(kind, c) PROVE InQueue(kind, c)'
  <2>1. CASE UNCHANGED ready BY <1>3, <2>1 DEF InQueue, Task
  <2>2. CASE \E cb \in Callbacks : ready' = Append(ready, cb)
    BY <1>1, <1>3, <2>2, KeptByAppend
  <2> QED BY <2>1, <2>2
<1> QED BY <1>2, <1>3, StillResumed

\* The commands a loop step is not about: their callbacks are not at the head.
LEMMA OtherCommands ==
    ASSUME ResumeInv, ready # <<>>, NEW more \in Seq(Callbacks),
           ready' = Tail(ready) \o more,
           NEW c \in Cmds, pc[c] = "waiting", req'[c] = req[c], fut'[c] = fut[c],
           c \in armed => c \in armed',
           \A kind \in {"timeout", "gather", "wake"} : Task(kind, c) # Head(ready)
    PROVE  WillResume(c)'
<1>1. TypeInv BY DEF ResumeInv, ProtocolInv
<1>2. Pending(c)' = Pending(c) BY DEF Pending
<1>3. \A kind \in {"timeout", "gather", "wake"} : InQueue(kind, c) => InQueue(kind, c)'
  BY <1>1, KeptByHead
<1> QED BY <1>2, <1>3, StillResumed

LEMMA TailIsAdvance ==
    ASSUME TypeInv, ready # <<>>, ready' = Tail(ready)
    PROVE  <<>> \in Seq(Callbacks) /\ ready' = Tail(ready) \o <<>>
BY DEF TypeInv, TypeOK

\* The timer's callback leaves nothing to wait for, and says so to gather.
LEMMA TimeoutResumes ==
    ASSUME ResumeInv, NEW d \in Cmds, RunTimeout(d), NEW c \in Cmds, pc'[c] = "waiting"
    PROVE  WillResume(c)'
<1> USE DEF ResumeInv, ProtocolInv, TypeInv, TypeOK
<1>1. ready # <<>> /\ Head(ready) = Task("timeout", d) BY DEF RunTimeout, Running
<1>2. pc[c] = "waiting" /\ UNCHANGED <<pc, req, armed>> BY DEF RunTimeout
<1>3. PICK more \in Seq(Callbacks) : ready' = Tail(ready) \o more
  <2>1. Task("gather", d) \in Callbacks BY TaskType DEF TaskKinds
  <2>2. <<Task("gather", d)>> \in Seq(Callbacks) /\ <<>> \in Seq(Callbacks) BY <2>1
  <2>3. CASE ready' = Tail(ready) BY <1>1, <2>2, <2>3, TailIsAdvance
  <2> QED BY <2>2, <2>3 DEF RunTimeout
<1>4. CASE c # d
  <2>1. fut'[c] = fut[c]
    <3>1. \/ UNCHANGED fut
          \/ fut' = [fut EXCEPT ![d] = [t \in Sids |->
                       IF t \in Pending(d) THEN "cancelled" ELSE fut[d][t]]]
      BY DEF RunTimeout
    <3> QED BY <1>4, <3>1
  <2>2. \A kind \in {"timeout", "gather", "wake"} : Task(kind, c) # Head(ready)
    BY <1>1, <1>4 DEF Task
  <2>3. ResumeInv OBVIOUS
  <2> HIDE DEF ResumeInv, ProtocolInv, TypeInv, TypeOK
  <2> QED BY <1>1, <1>2, <1>3, <2>1, <2>2, <2>3, OtherCommands
<1>5. CASE c = d
  <2>1. pc[d] = "waiting" BY <1>2, <1>5
  <2>2. fut' = [fut EXCEPT ![d] = [t \in Sids |->
                       IF t \in Pending(d) THEN "cancelled" ELSE fut[d][t]]]
    BY <2>1 DEF RunTimeout
  <2>3. Pending(d)' = {}
    <3>1. \A t \in Sids : fut'[d][t] = IF t \in Pending(d) THEN "cancelled" ELSE fut[d][t]
      BY <2>2
    <3>2. req[d].targets \subseteq Sids BY DEF Requests
    <3> QED BY <1>2, <3>1, <3>2 DEF Pending
  <2>4. CASE Pending(d) # {}
    <3>1. ready' = Tail(ready) \o <<Task("gather", d)>> BY <2>1, <2>4 DEF RunTimeout
    <3>2. Task("gather", d) \in Callbacks BY TaskType DEF TaskKinds
    <3>3. <<Task("gather", d)>> \in Seq(Callbacks) BY <3>2
    <3>4. Range(<<Task("gather", d)>>) \subseteq Range(ready')
      BY <1>1, <3>1, <3>3, Advanced
    <3>5. InQueue("gather", d)' BY <3>4 DEF InQueue, Range, Task
    <3> QED BY <1>5, <2>3, <3>5 DEF WillResume
  <2>5. CASE Pending(d) = {}
    <3>1. InQueue("gather", d) \/ InQueue("wake", d) BY <2>1, <2>5 DEF WillResume
    <3>2. Task("gather", d) # Head(ready) /\ Task("wake", d) # Head(ready)
      BY <1>1 DEF Task
    <3>3. InQueue("gather", d)' \/ InQueue("wake", d)'
      BY <1>1, <1>3, <3>1, <3>2, KeptByHead
    <3> QED BY <1>5, <2>3, <3>3 DEF WillResume
  <2> QED BY <2>4, <2>5
<1> QED BY <1>4, <1>5

\* gather's callback is replaced by the wake-up it schedules.
LEMMA GatherResumes ==
    ASSUME ResumeInv, NEW d \in Cmds, RunGather(d), NEW c \in Cmds, pc'[c] = "waiting"
    PROVE  WillResume(c)'
<1> USE DEF ResumeInv, ProtocolInv, TypeInv, TypeOK
<1>1. ready # <<>> /\ Head(ready) = Task("gather", d) BY DEF RunGather, Running
<1>2. pc[c] = "waiting" /\ UNCHANGED <<pc, req, fut, armed>> BY DEF RunGather
<1> DEFINE more == <<Task("wake", d)>>
<1>3. Task("wake", d) \in Callbacks BY TaskType DEF TaskKinds
<1>4. more \in Seq(Callbacks) BY <1>3
<1>5. ready' = Tail(ready) \o more
  <2>1. Tail(ready) \in Seq(Callbacks) BY <1>1, TailType
  <2> QED BY <1>3, <2>1 DEF RunGather
<1>6. InQueue("wake", d)'
  <2>1. Range(more) \subseteq Range(ready') BY <1>1, <1>4, <1>5, Advanced
  <2> QED BY <2>1 DEF InQueue, Range, Task
<1> HIDE DEF more
<1>7. Pending(c)' = Pending(c) BY <1>2 DEF Pending
<1>8. CASE c # d
  <2>1. \A kind \in {"timeout", "gather", "wake"} : Task(kind, c) # Head(ready)
    BY <1>1, <1>8 DEF Task
  <2>2. ResumeInv OBVIOUS
  <2> HIDE DEF ResumeInv, ProtocolInv, TypeInv, TypeOK
  <2> QED BY <1>1, <1>2, <1>4, <1>5, <2>1, <2>2, OtherCommands
<1>9. CASE c = d
  <2>1. CASE Pending(d) # {}
    <3>1. d \in armed \/ InQueue("timeout", d) BY <1>2, <1>9, <2>1 DEF WillResume
    <3>2. Task("timeout", d) # Head(ready) BY <1>1 DEF Task
    <3>3. d \in armed' \/ InQueue("timeout", d)'
      BY <1>1, <1>2, <1>4, <1>5, <3>1, <3>2, KeptByHead
    <3> QED BY <1>7, <1>9, <2>1, <3>3 DEF WillResume
  <2>2. CASE Pending(d) = {} BY <1>6, <1>7, <1>9, <2>2 DEF WillResume
  <2> QED BY <2>1, <2>2
<1> QED BY <1>8, <1>9

\* A dispatch that settles the last future of a waiting command schedules gather.
LEMMA DispatchResumes ==
    ASSUME ResumeInv, RunDispatch, NEW c \in Cmds, pc'[c] = "waiting"
    PROVE  WillResume(c)'
<1> DEFINE rep == Head(ready).rep
           taken == Takers(rep)
           complete == {d \in taken : pc[d] = "waiting" /\ Pending(d) = {rep.sid}}
<1> USE DEF ResumeInv, ProtocolInv, TypeInv, TypeOK
<1>1. ready # <<>> /\ Head(ready).kind = "dispatch" /\ rep \in Reports
  BY TailType, CallbackFields DEF RunDispatch
<1>2. pc[c] = "waiting" /\ UNCHANGED <<pc, req, armed>> BY DEF RunDispatch
<1>3. complete \subseteq Cmds /\ IsFiniteSet(complete)
  <2>1. complete \subseteq Cmds BY <1>1, KeyType DEF Takers
  <2> QED BY <2>1, ConstAssumption, FS_Subset
<1>4. PICK order \in SetToSeqs(complete) : ready' = Tail(ready) \o Gathers(order)
  BY DEF RunDispatch
<1>5. order \in Seq(Cmds)
  <2>1. order \in Seq(complete) BY <1>3, EnumerationType
  <2> QED BY <1>3, <2>1
<1>6. Gathers(order) \in Seq(Callbacks) BY <1>5, GathersType
<1>7. \A s \in Sids : fut'[c][s] = IF c \in taken /\ s = rep.sid THEN "resolved" ELSE fut[c][s]
  BY DEF RunDispatch
<1>8. c \in taken => rep.sid \in Pending(c)
  <2>1. c \in taken => /\ c \in listeners[Key(rep)] /\ fut[c][rep.sid] = "pending"
    BY DEF Takers
  <2>2. Key(rep) \in Keys /\ Key(rep)[2] = rep.sid BY <1>1, KeyType DEF Key
  <2>3. c \in taken => rep.sid \in req[c].targets BY <2>1, <2>2 DEF SlotsOwned
  <2> QED BY <2>1, <2>3 DEF Pending
<1>9. req[c].targets \subseteq Sids /\ rep.sid \in Sids BY <1>1 DEF Requests, Reports
<1> HIDE DEF rep, taken
<1>10. Pending(c)' = IF c \in taken THEN Pending(c) \ {rep.sid} ELSE Pending(c)
  BY <1>2, <1>7, <1>9 DEF Pending
<1>11. ASSUME NEW kind \in {"timeout", "gather", "wake"}, InQueue(kind, c)
       PROVE  InQueue(kind, c)'
  <2>1. Task(kind, c) # Head(ready) BY <1>1 DEF Task
  <2>2. TypeInv OBVIOUS
  <2> HIDE DEF ResumeInv, ProtocolInv, TypeInv, TypeOK
  <2> QED BY <1>1, <1>4, <1>6, <1>11, <2>1, <2>2, KeptByHead
<1>12. CASE Pending(c)' # {}
  <2>1. Pending(c) # {} BY <1>10, <1>12
  <2> QED BY <1>2, <1>11, <1>12, <2>1 DEF WillResume
<1>13. CASE Pending(c)' = {} /\ Pending(c) = {}
  BY <1>2, <1>11, <1>13 DEF WillResume
<1>14. CASE Pending(c)' = {} /\ Pending(c) # {}
  <2>1. c \in complete BY <1>2, <1>8, <1>10, <1>14
  <2>2. PICK i \in DOMAIN order : order[i] = c
    <3> HIDE DEF ResumeInv, ProtocolInv, TypeInv, TypeOK, complete
    <3>1. \E i \in DOMAIN order : order[i] = c BY <1>3, <1>4, <2>1, EnumerationCovers
    <3> QED BY <3>1
  <2>3. Task("gather", c) \in Range(Gathers(order))
    BY <2>2 DEF Gathers, Range
  <2>4. Range(Gathers(order)) \subseteq Range(ready')
    BY <1>1, <1>4, <1>6, Advanced
  <2>5. InQueue("gather", c)' BY <2>3, <2>4 DEF InQueue, Task
  <2> QED BY <1>14, <2>5 DEF WillResume
<1> QED BY <1>12, <1>13, <1>14

\* A command's own steps: it starts to wait with its timer armed, or ends.
LEMMA OwnStepResumes ==
    ASSUME ResumeInv, NEW d \in Cmds,
           RunStart(d) \/ RunPublished(d) \/ RunFailed(d) \/ RunWake(d),
           NEW c \in Cmds, pc'[c] = "waiting"
    PROVE  WillResume(c)'
<1> USE DEF ResumeInv, ProtocolInv, TypeInv, TypeOK
<1>1. PICK kind \in {"start", "published", "failed", "wake"} : Head(ready) = Task(kind, d)
  BY DEF RunStart, RunPublished, RunFailed, RunWake, Running
<1>2. ready # <<>> /\ UNCHANGED req
  BY DEF RunStart, RunPublished, RunFailed, RunWake, Running
<1>3. PICK more \in Seq(Callbacks) : ready' = Tail(ready) \o more
  <2>1. CASE ready' = Tail(ready) BY <1>2, <2>1, TailIsAdvance
  <2>2. CASE Finish(d)
    <3>1. PICK order \in SetToSeqs(Replies(d)) : ready' = Tail(ready) \o Dispatches(order)
      BY <2>2 DEF Finish
    <3>2. Replies(d) \subseteq Reports /\ IsFiniteSet(Replies(d)) BY RepliesType
    <3>3. order \in Seq(Replies(d)) BY <3>2, EnumerationType
    <3>4. order \in Seq(Reports) BY <3>2, <3>3
    <3>5. Dispatches(order) \in Seq(Callbacks) BY <3>4, DispatchesType
    <3> QED BY <3>1, <3>5
  <2> QED BY <2>1, <2>2 DEF RunStart, RunPublished, RunFailed, RunWake
<1>4. CASE c # d
  <2>1. pc[c] = "waiting" /\ fut'[c] = fut[c] /\ (c \in armed => c \in armed')
    <3>1. CASE RunStart(d) BY <1>4, <3>1 DEF RunStart
    <3>2. CASE RunPublished(d) BY <1>4, <3>2 DEF RunPublished, Finish
    <3>3. CASE RunFailed(d) BY <1>4, <3>3 DEF RunFailed
    <3>4. CASE RunWake(d) BY <1>4, <3>4 DEF RunWake, Finish
    <3> QED BY <3>1, <3>2, <3>3, <3>4
  <2>2. \A k \in {"timeout", "gather", "wake"} : Task(k, c) # Head(ready)
    BY <1>1, <1>4 DEF Task
  <2>3. ResumeInv OBVIOUS
  <2> HIDE DEF ResumeInv, ProtocolInv, TypeInv, TypeOK
  <2> QED BY <1>2, <1>3, <2>1, <2>2, <2>3, OtherCommands
<1>5. CASE c = d
  <2>1. Pending(d) # {} /\ d \in armed' /\ UNCHANGED fut
    <3>1. CASE RunStart(d) BY <1>5, <3>1 DEF RunStart
    <3>2. CASE RunPublished(d) BY <1>5, <3>2 DEF RunPublished, Finish
    <3>3. CASE RunFailed(d) BY <1>5, <3>3 DEF RunFailed
    <3>4. CASE RunWake(d) BY <1>5, <3>4 DEF RunWake, Finish
    <3> QED BY <3>1, <3>2, <3>3, <3>4
  <2>2. Pending(d)' # {} BY <1>2, <2>1 DEF Pending
  <2> QED BY <1>5, <2>1, <2>2 DEF WillResume
<1> QED BY <1>4, <1>5

LEMMA BatchResumes ==
    ASSUME ResumeInv, RunBatch, NEW c \in Cmds, pc'[c] = "waiting"
    PROVE  WillResume(c)'
<1>1. TypeInv /\ ready # <<>> /\ Head(ready).kind = "batch"
  BY DEF RunBatch, ResumeInv, ProtocolInv
<1>2. PICK batch \in Seq(Reports) : batch = Head(ready).batch
  BY <1>1, TailType, CallbackFields DEF TypeInv, TypeOK
<1>3. ready' = Tail(ready) \o Dispatches(batch) BY <1>2 DEF RunBatch
<1>4. Dispatches(batch) \in Seq(Callbacks) BY <1>2, DispatchesType
<1>5. UNCHANGED <<pc, req, fut, armed>> BY DEF RunBatch
<1>6. \A kind \in {"timeout", "gather", "wake"} : Task(kind, c) # Head(ready)
  BY <1>1 DEF Task
<1> QED BY <1>1, <1>3, <1>4, <1>5, <1>6, OtherCommands

LEMMA ResumeStep == ResumeInv /\ [Next]_vars => ResumeInv'
<1> SUFFICES ASSUME ResumeInv, [Next]_vars
             PROVE  \A c \in Cmds : pc'[c] = "waiting" => WillResume(c)'
  BY ProtocolStep DEF ResumeInv
<1>1. TypeInv BY DEF ResumeInv, ProtocolInv
<1> DEFINE Goal == \A c \in Cmds : pc'[c] = "waiting" => WillResume(c)'
<1>2. ASSUME UNCHANGED <<pc, req, fut, armed>>,
             UNCHANGED ready \/ \E cb \in Callbacks : ready' = Append(ready, cb)
      PROVE  Goal
  BY <1>2, AppendingStep
<1>3. ASSUME NEW c \in Cmds, NEW topic \in Topics, NEW chan \in Channels,
             NEW strategy \in Sids \cup {AllStrategies},
             Issue(c, topic, chan, strategy), NEW d \in Cmds, pc'[d] = "waiting"
      PROVE  WillResume(d)'
  <2>1. d # c /\ pc[d] = "waiting" /\ req'[d] = req[d]
    BY <1>1, <1>3 DEF Issue, TypeInv, TypeOK
  <2>2. Pending(d)' = Pending(d) BY <1>3, <2>1 DEF Issue, Pending
  <2>3. Task("start", c) \in Callbacks BY TaskType DEF TaskKinds
  <2>4. ASSUME NEW kind, InQueue(kind, d) PROVE InQueue(kind, d)'
    BY <1>1, <1>3, <2>3, <2>4, KeptByAppend DEF Issue
  <2>5. UNCHANGED armed BY <1>3 DEF Issue
  <2> QED BY <2>1, <2>2, <2>4, <2>5, StillResumed
<1>4. ASSUME NEW c \in Cmds, NEW s \in Sids, PublishOne(c, s) \/ PublishFails(c, s)
      PROVE  Goal
  BY <1>2, <1>4, TaskType DEF PublishOne, PublishFails, TaskKinds, loopVars
<1>5. ASSUME NEW c \in Cmds, PublishesReturn(c) PROVE Goal
  BY <1>2, <1>5, TaskType DEF PublishesReturn, TaskKinds
<1>6. ASSUME NEW c \in Cmds, TimerFires(c) PROVE Goal
  <2>1. Task("timeout", c) \in Callbacks BY TaskType DEF TaskKinds
  <2>2. ready' = Append(ready, Task("timeout", c)) BY <1>6 DEF TimerFires
  <2>3. InQueue("timeout", c)' BY <1>1, <2>1, <2>2, Scheduled DEF InQueue, Task
  <2>4. \A d \in Cmds : d \in armed => d \in armed' \/ InQueue("timeout", d)'
    BY <1>6, <2>3 DEF TimerFires
  <2>5. UNCHANGED <<pc, req, fut>> BY <1>6 DEF TimerFires
  <2> QED BY <2>1, <2>2, <2>4, <2>5, AppendingStep
<1>7. ASSUME NEW s \in Sids, PodReplies(s) \/ PodDrops(s) PROVE Goal
  BY <1>2, <1>7 DEF PodReplies, PodDrops, loopVars
<1>8. ASSUME NEW s \in Sids, NEW topic \in PeriodicTopics, PodPeriodic(s, topic)
      PROVE  Goal
  BY <1>2, <1>8 DEF PodPeriodic, loopVars
<1>9. ASSUME XreadReturns PROVE Goal
  <2>1. [kind |-> "batch", batch |-> stream] \in Callbacks
    BY <1>1 DEF TypeInv, TypeOK, Callbacks
  <2>2. \E cb \in Callbacks : ready' = Append(ready, cb) BY <1>9, <2>1 DEF XreadReturns
  <2> QED BY <1>2, <1>9, <2>2 DEF XreadReturns
<1>10. ASSUME NEW c \in Cmds, RunStart(c) \/ RunPublished(c) \/ RunFailed(c) \/ RunWake(c)
       PROVE  Goal
  BY <1>10, OwnStepResumes
<1>11. ASSUME NEW c \in Cmds, RunTimeout(c) PROVE Goal
  BY <1>11, TimeoutResumes
<1>12. ASSUME NEW c \in Cmds, RunGather(c) PROVE Goal
  BY <1>12, GatherResumes
<1>13. ASSUME RunBatch PROVE Goal
  BY <1>13, BatchResumes
<1>14. ASSUME RunDispatch PROVE Goal
  BY <1>14, DispatchResumes
<1>15. ASSUME UNCHANGED vars PROVE Goal
  BY <1>2, <1>15 DEF vars
<1> HIDE DEF Goal
<1>16. Goal
  <2>1. ASSUME NEW c \in Cmds, NEW topic \in Topics, NEW chan \in Channels,
               NEW strategy \in Sids \cup {AllStrategies},
               Issue(c, topic, chan, strategy)
        PROVE  Goal
    BY <2>1, <1>3 DEF Goal
  <2> QED
    BY <2>1, <1>4, <1>5, <1>6, <1>7, <1>8, <1>9, <1>10, <1>11, <1>12, <1>13, <1>14,
       <1>15 DEF Next, RunLoop
<1> QED BY <1>16 DEF Goal

\* No command hangs in await: what resumes it is armed or queued, whatever reports,
\* timers and other commands do meanwhile.
THEOREM WaitersAreResumed == Spec => []AlwaysResumable
<1>1. Init => ResumeInv
  BY ProtocolInit DEF ResumeInv, Init
<1>2. ResumeInv => AlwaysResumable
  BY DEF ResumeInv, WillResume, InQueue, Queued, AlwaysResumable, Range
<1> QED BY <1>1, <1>2, ResumeStep, PTL DEF Spec

-----------------------------------------------------------------------------
(* What a leak takes.                                                      *)

\* No publish has failed, and none is reported to have.
Unfailed ==
    /\ \A c \in Cmds : pc[c] # "crashed"
    /\ \A cb \in Range(ready) : cb.kind # "failed"

\* Running the head or scheduling callbacks reports no failure by itself.
LEMMA UnfailedQueue ==
    ASSUME TypeInv, \A cb \in Range(ready) : cb.kind # "failed",
           NEW more \in Seq(Callbacks), \A i \in DOMAIN more : more[i].kind # "failed",
           \/ ready' = ready \o more
           \/ ready # <<>> /\ ready' = Tail(ready) \o more
    PROVE  \A cb \in Range(ready') : cb.kind # "failed"
<1>1. ready \in Seq(Callbacks) BY DEF TypeInv, TypeOK
<1>2. Range(ready') \subseteq Range(ready) \cup Range(more)
  <2>1. CASE ready' = ready \o more BY <1>1, <2>1, Appended
  <2>2. CASE ready # <<>> /\ ready' = Tail(ready) \o more BY <1>1, <2>2, Advanced
  <2> QED BY <2>1, <2>2
<1>3. \A cb \in Range(more) : cb.kind # "failed" BY DEF Range
<1> QED BY <1>2, <1>3

LEMMA UnfailedOne ==
    ASSUME TypeInv, \A cb \in Range(ready) : cb.kind # "failed",
           NEW cb \in Callbacks, cb.kind # "failed",
           \/ ready' = Append(ready, cb)
           \/ ready # <<>> /\ ready' = Append(Tail(ready), cb)
           \/ ready # <<>> /\ ready' = Tail(ready) \o <<cb>>
    PROVE  \A other \in Range(ready') : other.kind # "failed"
<1>1. ready \in Seq(Callbacks) BY DEF TypeInv, TypeOK
<1>2. <<cb>> \in Seq(Callbacks) /\ \A i \in DOMAIN <<cb>> : <<cb>>[i].kind # "failed" OBVIOUS
<1>3. \/ ready' = ready \o <<cb>>
      \/ ready # <<>> /\ ready' = Tail(ready) \o <<cb>>
  BY <1>1
<1> QED BY <1>2, <1>3, UnfailedQueue

LEMMA UnfailedTail ==
    ASSUME TypeInv, \A cb \in Range(ready) : cb.kind # "failed",
           ready # <<>>, ready' = Tail(ready)
    PROVE  \A other \in Range(ready') : other.kind # "failed"
<1>1. ready \in Seq(Callbacks) BY DEF TypeInv, TypeOK
<1>2. <<>> \in Seq(Callbacks) /\ DOMAIN <<>> = {} /\ ready' = Tail(ready) \o <<>> BY <1>1
<1> QED BY <1>2, UnfailedQueue

LEMMA UnfailedFinish ==
    ASSUME TypeInv, Unfailed, NEW c \in Cmds, ready # <<>>, Finish(c)
    PROVE  Unfailed'
<1>1. PICK order \in SetToSeqs(Replies(c)) : ready' = Tail(ready) \o Dispatches(order)
  BY DEF Finish
<1>2. order \in Seq(Reports)
  <2>1. Replies(c) \subseteq Reports /\ IsFiniteSet(Replies(c)) BY RepliesType
  <2>2. order \in Seq(Replies(c)) BY <2>1, EnumerationType
  <2> QED BY <2>1, <2>2
<1>3. /\ Dispatches(order) \in Seq(Callbacks)
      /\ \A i \in DOMAIN Dispatches(order) : Dispatches(order)[i].kind # "failed"
  BY <1>2, DispatchesType
<1>4. \A cb \in Range(ready') : cb.kind # "failed" BY <1>1, <1>3, UnfailedQueue DEF Unfailed
<1>5. \A d \in Cmds : pc'[d] # "crashed" BY DEF Finish, Unfailed, TypeInv, TypeOK
<1> QED BY <1>4, <1>5 DEF Unfailed

LEMMA UnfailedStep ==
    ASSUME ~PublishMayFail, TypeInv, Unfailed, [Next]_vars
    PROVE  Unfailed'
<1>1. /\ pc \in [Cmds -> PcValues] /\ ready \in Seq(Callbacks)
      /\ \A c \in Cmds : pc[c] # "crashed"
      /\ \A cb \in Range(ready) : cb.kind # "failed"
  BY DEF TypeInv, TypeOK, Unfailed
<1>2. ASSUME UNCHANGED pc, \A cb \in Range(ready') : cb.kind # "failed" PROVE Unfailed'
  BY <1>1, <1>2 DEF Unfailed
<1>3. ASSUME NEW kind \in TaskKinds \ {"failed"}, NEW c \in Cmds
      PROVE  Task(kind, c) \in Callbacks /\ Task(kind, c).kind # "failed"
  BY <1>3, TaskType DEF Task
<1>4. ASSUME NEW c \in Cmds, NEW topic \in Topics, NEW chan \in Channels,
             NEW strategy \in Sids \cup {AllStrategies}, Issue(c, topic, chan, strategy)
      PROVE  Unfailed'
  <2>1. ready' = Append(ready, Task("start", c)) /\ pc' = [pc EXCEPT ![c] = "issued"]
    BY <1>4 DEF Issue
  <2>2. \A cb \in Range(ready') : cb.kind # "failed"
    BY <1>1, <1>3, <2>1, UnfailedOne DEF TaskKinds
  <2> QED BY <1>1, <2>1, <2>2 DEF Unfailed
<1>5. ASSUME NEW c \in Cmds, NEW s \in Sids, PublishOne(c, s) \/ PublishFails(c, s)
      PROVE  Unfailed'
  BY <1>2, <1>5, <1>1 DEF PublishOne, PublishFails, loopVars
<1>6. ASSUME NEW c \in Cmds, PublishesReturn(c) \/ TimerFires(c) PROVE Unfailed'
  <2>1. /\ UNCHANGED pc
        /\ \/ ready' = Append(ready, Task("published", c))
           \/ ready' = Append(ready, Task("timeout", c))
    BY <1>6 DEF PublishesReturn, TimerFires
  <2>2. \A cb \in Range(ready') : cb.kind # "failed"
    BY <1>1, <1>3, <2>1, UnfailedOne DEF TaskKinds
  <2> QED BY <1>2, <2>1, <2>2
<1>7. ASSUME NEW s \in Sids, \/ PodReplies(s) \/ PodDrops(s)
                             \/ \E topic \in PeriodicTopics : PodPeriodic(s, topic)
      PROVE  Unfailed'
  BY <1>1, <1>2, <1>7 DEF PodReplies, PodDrops, PodPeriodic, loopVars
<1>8. ASSUME XreadReturns PROVE Unfailed'
  <2>1. PICK cb \in Callbacks : cb.kind # "failed" /\ ready' = Append(ready, cb)
    BY <1>8 DEF XreadReturns, TypeInv, TypeOK, Callbacks
  <2>2. \A other \in Range(ready') : other.kind # "failed" BY <1>1, <2>1, UnfailedOne
  <2> QED BY <1>2, <1>8, <2>2 DEF XreadReturns
<1>9. ASSUME NEW c \in Cmds, RunStart(c) PROVE Unfailed'
  <2>1. ready # <<>> /\ ready' = Tail(ready) BY <1>9 DEF RunStart, Running
  <2>2. \A cb \in Range(ready') : cb.kind # "failed" BY <1>1, <2>1, UnfailedTail
  <2>3. \A d \in Cmds : pc'[d] # "crashed" BY <1>1, <1>9 DEF RunStart
  <2> QED BY <2>2, <2>3 DEF Unfailed
<1>10. ASSUME NEW c \in Cmds, RunPublished(c) PROVE Unfailed'
  <2>1. ready # <<>> BY <1>10 DEF RunPublished, Running
  <2>2. CASE pc' = [pc EXCEPT ![c] = "waiting"] /\ ready' = Tail(ready)
    <3>1. \A cb \in Range(ready') : cb.kind # "failed" BY <1>1, <2>1, <2>2, UnfailedTail
    <3> QED BY <1>1, <2>2, <3>1 DEF Unfailed
  <2>3. CASE Finish(c) BY <2>1, <2>3, UnfailedFinish
  <2> QED BY <1>10, <2>2, <2>3 DEF RunPublished
<1>11. ASSUME NEW c \in Cmds, RunFailed(c) PROVE FALSE
  <2>1. ready # <<>> /\ Head(ready).kind = "failed" BY <1>11 DEF RunFailed, Running, Task
  <2>2. Head(ready) \in Range(ready) BY <1>1, <2>1 DEF Range
  <2> QED BY <1>1, <2>1, <2>2
<1>12. ASSUME NEW c \in Cmds, RunTimeout(c) PROVE Unfailed'
  <2>1. ready # <<>> /\ UNCHANGED pc BY <1>12 DEF RunTimeout, Running
  <2>2. \/ ready' = Tail(ready) \o <<Task("gather", c)>>
        \/ ready' = Tail(ready)
    BY <1>1, <1>12, <2>1 DEF RunTimeout
  <2>3. \A cb \in Range(ready') : cb.kind # "failed"
    BY <1>1, <1>3, <2>1, <2>2, UnfailedOne, UnfailedTail DEF TaskKinds
  <2> QED BY <1>2, <2>1, <2>3
<1>13. ASSUME NEW c \in Cmds, RunGather(c) PROVE Unfailed'
  <2>1. ready # <<>> /\ ready' = Append(Tail(ready), Task("wake", c)) /\ UNCHANGED pc
    BY <1>13 DEF RunGather, Running
  <2>2. \A cb \in Range(ready') : cb.kind # "failed"
    BY <1>1, <1>3, <2>1, UnfailedOne DEF TaskKinds
  <2> QED BY <1>2, <2>1, <2>2
<1>14. ASSUME NEW c \in Cmds, RunWake(c) PROVE Unfailed'
  BY <1>14, UnfailedFinish DEF RunWake, Running
<1>15. ASSUME RunBatch PROVE Unfailed'
  <2>1. PICK batch \in Seq(Reports) : batch = Head(ready).batch
    BY <1>1, <1>15, TailType, CallbackFields DEF RunBatch
  <2>2. ready # <<>> /\ ready' = Tail(ready) \o Dispatches(batch) /\ UNCHANGED pc
    BY <1>15, <2>1 DEF RunBatch
  <2>3. /\ Dispatches(batch) \in Seq(Callbacks)
        /\ \A i \in DOMAIN Dispatches(batch) : Dispatches(batch)[i].kind # "failed"
    BY <2>1, DispatchesType
  <2>4. \A cb \in Range(ready') : cb.kind # "failed" BY <1>1, <2>2, <2>3, UnfailedQueue
  <2> QED BY <1>2, <2>2, <2>4
<1>16. ASSUME RunDispatch PROVE Unfailed'
  <2> DEFINE rep == Head(ready).rep
             complete == {c \in Takers(rep) : pc[c] = "waiting" /\ Pending(c) = {rep.sid}}
  <2>1. ready # <<>> /\ rep \in Reports
    BY <1>1, <1>16, TailType, CallbackFields DEF RunDispatch
  <2>2. complete \subseteq Cmds BY <2>1, KeyType DEF Takers, TypeInv, TypeOK
  <2>3. PICK order \in SetToSeqs(complete) : ready' = Tail(ready) \o Gathers(order)
    BY <1>16 DEF RunDispatch
  <2>4. order \in Seq(Cmds)
    <3>1. IsFiniteSet(complete) BY <2>2, ConstAssumption, FS_Subset
    <3>2. order \in Seq(complete) BY <3>1, EnumerationType
    <3> QED BY <2>2, <3>2
  <2>5. /\ Gathers(order) \in Seq(Callbacks)
        /\ \A i \in DOMAIN Gathers(order) : Gathers(order)[i].kind # "failed"
    BY <2>4, GathersType DEF Gathers, Task
  <2>6. \A cb \in Range(ready') : cb.kind # "failed"
    BY <1>1, <2>1, <2>3, <2>5, UnfailedQueue
  <2> QED BY <1>2, <1>16, <2>6 DEF RunDispatch
<1>17. ASSUME UNCHANGED vars PROVE Unfailed' BY <1>1, <1>2, <1>17 DEF vars
<1> QED BY <1>4, <1>5, <1>6, <1>7, <1>8, <1>9, <1>10, <1>11, <1>12, <1>13, <1>14, <1>15,
           <1>16, <1>17 DEF Next, RunLoop

\* A publish that raises is the one way to leak a listener slot: without one, dead
\* pods, timeouts and unsolicited reports leave slots only to suspended commands.
THEOREM LeaksTakeAFailedPublish ==
    ASSUME ~PublishMayFail
    PROVE  Spec => []NoListenerLeak
<1>1. Init => ProtocolInv /\ Unfailed
  BY ProtocolInit DEF Init, Unfailed, Range
<1>2. ProtocolInv /\ Unfailed /\ [Next]_vars => ProtocolInv' /\ Unfailed'
  BY ProtocolStep, UnfailedStep DEF ProtocolInv
<1>3. ProtocolInv /\ Unfailed => NoListenerLeak
  BY DEF ProtocolInv, SlotsOwned, Unfailed, NoListenerLeak, Active, TypeInv, TypeOK
<1> QED BY <1>1, <1>2, <1>3, PTL DEF Spec
=============================================================================
