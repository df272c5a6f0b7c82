------------------------------- MODULE Control -------------------------------
(***************************************************************************)
(* The commands nobody waits for: /pause, /resume, /flatten and /ping of   *)
(* the notifier, the subcommands of the CLI, and the BridgeActor that      *)
(* carries them out in the strategy's pod.                                 *)
(*                                                                         *)
(* A slash command is checked against the registry and then published by a *)
(* worker thread; pods are replaced, announces arrive and other commands   *)
(* run in between.  The CLI asks no registry; without a strategy it        *)
(* addresses whoever announced lately.                                     *)
(***************************************************************************)
EXTENDS Naturals, Sequences, FiniteSets, SequencesExt, Channels

CONSTANTS
    Sids,        \* strategies, by control handle; each has one container
    Deployments, \* boots a pod may make: [sid, mode, told, loaded]: does its announce
                 \* succeed, does it load its strategy
    Past,        \* boots of pods that ended before, announced and heard of
    Requests,    \* commands operators may issue: [who, action, to], who: channel or CLI
    FanOut,      \* announces a fan-out of the CLI reads, 1000 in the code
    MaxBoots,    \* bound on the boots of all pods
    MaxCmds,     \* bound on the commands
    All          \* a fan-out's target

Lifecycle == {"pause", "resume", "flatten"}
Reports == {"report", "fills", "orders"}
Modes == {"sandbox", "live"}
Pods == [sid : Sids, mode : Modes, told : BOOLEAN, loaded : BOOLEAN]
Issuers == ChannelModes \cup {NoChannel, "cli"}

ASSUME ControlAssumption ==
    /\ All \notin Sids
    /\ Deployments \subseteq Pods
    /\ Past \in Seq(Pods) /\ \A i \in DOMAIN Past : Past[i].told
    /\ Requests \subseteq [who : Issuers, to : Sids \cup {All},
                           action : Lifecycle \cup Reports \cup {"ping"}]
    /\ \A r \in Requests :
          /\ r.to = All => r.who = "cli" /\ r.action \in Reports
          /\ r.action \in Reports => r.who = "cli"
    /\ FanOut \in Nat /\ MaxBoots \in Nat /\ Len(Past) <= MaxBoots /\ MaxCmds \in Nat

VARIABLES
    boots,       \* every boot of a pod so far
    heard,       \* boots whose announce the notifier's registry includes
    proc,        \* strategy -> boot of the process that runs, 0: none
    up,          \* strategies whose bridge has subscribed
    strat,       \* strategy -> state of the strategy in its process
    control,     \* strategy -> commands in its control stream
    cursor,      \* strategy -> entries its process has read or does not read
    since,       \* strategy -> entries its stream had when its bridge subscribed
    cmds,        \* every command so far
    applied      \* every command a bridge carried out: [cmd, sid, boot]

vars == <<boots, heard, proc, up, strat, control, cursor, since, cmds, applied>>

-----------------------------------------------------------------------------
Told == {i \in DOMAIN boots : boots[i].told}

\* The announce among A that decides the mode of s in the registry.
Newest(A, s) == CHOOSE i \in A : boots[i].sid = s /\ \A j \in A : boots[j].sid = s => j <= i
\* Mutant of Registry: the first announce of a strategy sticks.
RegistryOfFirst(A) ==
    [s \in {boots[i].sid : i \in A} |->
        boots[CHOOSE i \in A : boots[i].sid = s /\ \A j \in A : boots[j].sid = s => j >= i].mode]

\* The notifier's registry after the announces A.  Handles that only the fallback
\* scan found are left out: the guards take an unknown handle for sandbox too.
Registry(A) == [s \in {boots[i].sid : i \in A} |-> boots[Newest(A, s)].mode]

\* The newest FanOut announces up to boot n.
Recent(n) == {i \in Told : i <= n /\ Cardinality({j \in Told : i < j /\ j <= n}) < FanOut}

\* The newest announce of each strategy among A.
NewestOfEach(A) == {i \in A : \A j \in A : boots[j].sid = boots[i].sid => j <= i}

\* The strategies of the announces A, newest announce first: a set of one sequence.
Listed(A) ==
    {[k \in DOMAIN q |-> boots[q[k]].sid] :
        q \in {f \in [1 .. Cardinality(A) -> A] : \A i, j \in DOMAIN f : i < j => f[i] > f[j]}}

\* Mutants of FanOutTargets: XRANGE reads the oldest entries; a strategy that
\* announced twice is listed twice.
FanOutTargetsOldest ==
    Listed(NewestOfEach({k \in Told : Cardinality({j \in Told : j < k}) < FanOut}))
FanOutTargetsRepeated == Listed(Recent(Len(boots)))

\* _fan_out_command: the strategies of the newest announces, newest first, once each.
FanOutTargets == Listed(NewestOfEach(Recent(Len(boots))))

\* The commands whose outcome the operators know.
Ended == {c \in DOMAIN cmds : cmds[c].pc # "publishing"}

\* stop_strategy_from_id, start_strategy_from_id, market_exit_strategy_from_id;
\* without a strategy there is nothing to act on.
Effect(action, state) ==
    IF state = "none" \/ action \notin Lifecycle THEN state
    ELSE IF action = "resume" THEN "running" ELSE "stopped"

-----------------------------------------------------------------------------
Init ==
    /\ boots = Past /\ heard = DOMAIN Past
    /\ proc = [s \in Sids |-> 0] /\ up = {}
    /\ strat = [s \in Sids |-> "none"]
    /\ control = [s \in Sids |-> <<>>]
    /\ cursor = [s \in Sids |-> 0] /\ since = [s \in Sids |-> 0]
    /\ cmds = <<>> /\ applied = <<>>

(* Pods.                                                                   *)

\* The container is started: announce, best effort, then build the node.  It reads
\* what is added to its control stream from now on.
Boot(b) ==
    /\ proc[b.sid] = 0 /\ Len(boots) < MaxBoots
    /\ boots' = Append(boots, b)
    /\ proc' = [proc EXCEPT ![b.sid] = Len(boots')]
    /\ cursor' = [cursor EXCEPT ![b.sid] = Len(control[b.sid])]
    /\ UNCHANGED <<heard, up, strat, control, since, cmds, applied>>

\* BridgeActor.on_start subscribes, then the strategy starts, if one was loaded.
\* What was read before that is lost.
OnStart(s) ==
    /\ proc[s] # 0 /\ s \notin up
    /\ up' = up \cup {s}
    /\ \E n \in cursor[s] .. Len(control[s]) : cursor' = [cursor EXCEPT ![s] = n]
    /\ since' = [since EXCEPT ![s] = Len(control[s])]
    /\ strat' = [strat EXCEPT ![s] = IF boots[proc[s]].loaded THEN "running" ELSE "none"]
    /\ UNCHANGED <<boots, heard, proc, control, cmds, applied>>

\* BridgeActor._on_command: a ping is answered in any case, everything else only
\* if a strategy is loaded.
OnCommand(s) ==
    /\ s \in up /\ cursor[s] < Len(control[s])
    /\ LET c == control[s][cursor[s] + 1]
       IN  /\ strat' = [strat EXCEPT ![s] = Effect(cmds[c].action, @)]
           /\ applied' = IF cmds[c].action = "ping" \/ strat[s] # "none"
                         THEN Append(applied, [cmd |-> c, sid |-> s, boot |-> proc[s]])
                         ELSE applied
    /\ cursor' = [cursor EXCEPT ![s] = @ + 1]
    /\ UNCHANGED <<boots, heard, proc, up, control, since, cmds>>

\* Mutant of Gone: the strategy's state outlives its process.
GoneKeepingStrategy(s) ==
    /\ proc[s] # 0
    /\ proc' = [proc EXCEPT ![s] = 0]
    /\ cursor' = [cursor EXCEPT ![s] = 0]
    /\ since' = [since EXCEPT ![s] = 0]
    /\ UNCHANGED <<boots, heard, up, strat, control, cmds, applied>>

\* The container is removed, or its process ends by itself.
Gone(s) ==
    /\ proc[s] # 0
    /\ proc' = [proc EXCEPT ![s] = 0]
    /\ up' = up \ {s}
    /\ strat' = [strat EXCEPT ![s] = "none"]
    /\ cursor' = [cursor EXCEPT ![s] = 0]
    /\ since' = [since EXCEPT ![s] = 0]
    /\ UNCHANGED <<boots, heard, control, cmds, applied>>

-----------------------------------------------------------------------------
(* The notifier and the CLI.                                               *)

\* The autodiscover loop applies the next announce.
Hear ==
    /\ \E i \in Told \ heard :
          /\ \A j \in Told : j < i => j \in heard
          /\ heard' = heard \cup {i}
    /\ UNCHANGED <<boots, proc, up, strat, control, cursor, since, cmds, applied>>

\* The notifier restarts: it replays the announces and the commands its threads
\* had not published are lost.
Restart ==
    /\ heard' = Told
    /\ cmds' = [c \in DOMAIN cmds |->
                  IF c \notin Ended /\ cmds[c].who # "cli"
                  THEN [cmds[c] EXCEPT !.pc = "failed", !.todo = <<>>] ELSE cmds[c]]
    /\ <<heard', cmds'>> # <<heard, cmds>>
    /\ UNCHANGED <<boots, proc, up, strat, control, cursor, since, applied>>

\* A command begins: to whom it will be published, and what was known by then,
\* to the registry and to the operators.
Issue(r, todo) ==
    /\ Len(cmds) < MaxCmds
    /\ cmds' = Append(cmds, [who |-> r.who, action |-> r.action, to |-> r.to, todo |-> todo,
                             pc |-> IF todo = <<>> THEN "sent" ELSE "publishing",
                             knew |-> IF r.who = "cli" THEN {} ELSE heard,
                             at |-> IF r.to = All THEN Len(boots) ELSE 0,
                             before |-> IF r.action \in Lifecycle THEN Ended ELSE {}])
    /\ UNCHANGED <<boots, heard, proc, up, strat, control, cursor, since, applied>>

\* _command: unless the channel is refused the XADD goes to a worker thread.
Slash(r) ==
    /\ r.who \in ChannelModes /\ CommandAllowed(Registry(heard), r.to, r.who)
    /\ Issue(r, <<r.to>>)

\* A subcommand of the CLI, for one strategy or for everybody who announced lately.
Cli(r) ==
    /\ r.who = "cli"
    /\ \E todo \in IF r.to = All THEN FanOutTargets ELSE {<<r.to>>} : Issue(r, todo)

\* Mutant of Xadd: the operator is answered without waiting for the thread.
XaddUnawaited(c) ==
    /\ cmds[c].todo # <<>>
    /\ \/ /\ cmds[c].pc = "publishing"
          /\ cmds' = [cmds EXCEPT ![c].pc = "sent"]
          /\ UNCHANGED control
       \/ /\ cmds[c].pc = "sent"
          /\ LET s == Head(cmds[c].todo)
             IN  control' = [control EXCEPT ![s] = Append(@, c)]
          /\ cmds' = [cmds EXCEPT ![c].todo = Tail(@)]
    /\ UNCHANGED <<boots, heard, proc, up, strat, cursor, since, applied>>

\* The next XADD of a command returns; after the last one the operator is told that
\* the command was sent.
Xadd(c) ==
    /\ cmds[c].pc = "publishing"
    /\ LET s == Head(cmds[c].todo)
       IN  control' = [control EXCEPT ![s] = Append(@, c)]
    /\ cmds' = [cmds EXCEPT ![c].todo = Tail(@),
                            ![c].pc = IF Tail(cmds[c].todo) = <<>> THEN "sent" ELSE @]
    /\ UNCHANGED <<boots, heard, proc, up, strat, cursor, since, applied>>

\* It raises instead, with or without effect: the command ends there, and what a
\* fan-out had left to publish is never published.
XaddFails(c) ==
    /\ cmds[c].pc = "publishing"
    /\ LET s == Head(cmds[c].todo)
       IN  control' \in {control, [control EXCEPT ![s] = Append(@, c)]}
    /\ cmds' = [cmds EXCEPT ![c].pc = "failed", ![c].todo = <<>>]
    /\ UNCHANGED <<boots, heard, proc, up, strat, cursor, since, applied>>

Next ==
    \/ \E b \in Deployments : Boot(b)
    \/ \E s \in Sids : OnStart(s) \/ OnCommand(s) \/ Gone(s)
    \/ Hear \/ Restart
    \/ \E r \in Requests : Slash(r) \/ Cli(r)
    \/ \E c \in DOMAIN cmds : Xadd(c) \/ XaddFails(c)

Spec == Init /\ [][Next]_vars

\* Running pods read their control streams, threads and the CLI finish.
Fairness ==
    /\ \A s \in Sids : WF_vars(OnCommand(s))
    /\ \A c \in 1 .. MaxCmds : WF_vars(c \in DOMAIN cmds /\ Xadd(c))

FairSpec == Spec /\ Fairness

-----------------------------------------------------------------------------
Commands ==
    [who : Issuers, action : Lifecycle \cup Reports \cup {"ping"}, to : Sids \cup {All},
     todo : Seq(Sids), pc : {"publishing", "sent", "failed"},
     knew : SUBSET (1 .. MaxBoots), at : 0 .. MaxBoots, before : SUBSET (1 .. MaxCmds)]

TypeOK ==
    /\ boots \in Seq(Pods) /\ Len(boots) <= MaxBoots
    /\ heard \subseteq Told
    /\ proc \in [Sids -> 0 .. Len(boots)]
    /\ up \subseteq {s \in Sids : proc[s] # 0}
    /\ strat \in [Sids -> {"none", "running", "stopped"}]
    /\ control \in [Sids -> Seq(DOMAIN cmds)]
    /\ cursor \in [Sids -> Nat] /\ since \in [Sids -> Nat]
    /\ \A s \in Sids : cursor[s] <= Len(control[s]) /\ since[s] <= Len(control[s])
    /\ cmds \in Seq(Commands) /\ Len(cmds) <= MaxCmds
    /\ applied \in Seq([cmd : DOMAIN cmds, sid : Sids, boot : DOMAIN boots])

\* A command that crosses the sandbox/live boundary was let through in good faith:
\* a pod of the other mode carries out a command of a channel only if that pod's
\* own announce had not reached the registry when the channel was checked.
CrossingsExplained ==
    \A k \in DOMAIN applied :
        LET cmd == cmds[applied[k].cmd]
        IN  cmd.who # "cli" /\ cmd.who # boots[applied[k].boot].mode
                => applied[k].boot \notin cmd.knew

\* Commands issued one after the other's outcome was known act in that order: when
\* a pod has read its control stream, its strategy is in the state that the last
\* pause, resume or flatten sent since its bridge subscribed asks for.
LastWordHolds ==
    \A s \in Sids, c \in DOMAIN cmds :
        /\ s \in up /\ cursor[s] = Len(control[s]) /\ strat[s] # "none"
        /\ cmds[c].pc = "sent" /\ cmds[c].to = s /\ cmds[c].action \in Lifecycle
        /\ Contains(SubSeq(control[s], since[s] + 1, Len(control[s])), c)
        /\ \A d \in DOMAIN cmds \ {c} :
              cmds[d].to = s /\ cmds[d].action \in Lifecycle => d \in cmds[c].before
        => strat[s] = IF cmds[c].action = "resume" THEN "running" ELSE "stopped"

\* No command is carried out twice for a strategy: not by a fan-out that knows it
\* from several announces, and not again after a restart of its pod.
AppliedOnce ==
    \A k, l \in DOMAIN applied :
        applied[k].cmd = applied[l].cmd /\ applied[k].sid = applied[l].sid => k = l

\* Command c is for strategy s: by name, or by one of the FanOut announces that
\* were the newest when it was issued.
Addressed(c, s) ==
    \/ cmds[c].to = s
    \/ cmds[c].to = All /\ \E i \in Recent(cmds[c].at) : boots[i].sid = s

\* Command c is under way to strategy s and still has to reach its stream.
Awaited(c, s) ==
    /\ c \in DOMAIN cmds /\ cmds[c].pc = "publishing" /\ Addressed(c, s)
    /\ ~Contains(control[s], c)

\* A command under way to a pod whose bridge runs is carried out, unless an XADD of
\* it fails, the pod goes away or has no strategy; a ping is answered even then.
CommandsTakeEffect ==
    \A c \in 1 .. MaxCmds, s \in Sids :
        (/\ Awaited(c, s) /\ s \in up
         /\ cmds[c].action = "ping" \/ strat[s] # "none")
        ~> (\/ s \notin up
            \/ \E k \in DOMAIN applied : applied[k].cmd = c /\ applied[k].sid = s
            \/ c \in DOMAIN cmds /\ cmds[c].pc = "failed")
=============================================================================
