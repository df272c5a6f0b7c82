---------------------------- MODULE ReportService ----------------------------
(***************************************************************************)
(* What /positions, /pnl, /fills and /orders promise an operator, without  *)
(* the event loop, the listener table, the streams and the timers that     *)
(* keep the promise: a command is refused at once, or it stays open and    *)
(* collects at most one report of the wanted topic per addressed strategy, *)
(* and it closes when everyone has replied or when its deadline is over.   *)
(* ReportRequests implements it.                                           *)
(***************************************************************************)
CONSTANTS
    Cmds,       \* slash-command invocations
    Sids,       \* control handles
    Topics,     \* report topics
    Reports     \* [topic, sid, ...]: the reports pods may publish

VARIABLES
    outcome,   \* command -> "none", "asked", "open", "refused", "answered", "failed"
    asked,     \* command -> [topic, targets]: what it was asked
    got,       \* command -> the reports it has collected
    late       \* commands whose deadline is over

svars == <<outcome, asked, got, late>>

\* A report answers a command that is open, still in time and without a reply of
\* that strategy.
Answers(rep, c) ==
    /\ outcome[c] = "open" /\ c \notin late
    /\ rep.topic = asked[c].topic /\ rep.sid \in asked[c].targets
    /\ \A r \in got[c] : r.sid # rep.sid

\* Every strategy the command addresses has replied.
Complete(c) == \A s \in asked[c].targets : \E r \in got[c] : r.sid = s

-----------------------------------------------------------------------------
Init ==
    /\ outcome = [c \in Cmds |-> "none"]
    /\ asked \in [Cmds -> [topic : Topics, targets : {{}}]]
    /\ got = [c \in Cmds |-> {}]
    /\ late = {}

\* An operator runs a command.
Ask(c, topic, targets) ==
    /\ outcome[c] = "none"
    /\ outcome' = [outcome EXCEPT ![c] = "asked"]
    /\ asked' = [asked EXCEPT ![c] = [topic |-> topic, targets |-> targets]]
    /\ UNCHANGED <<got, late>>

\* There is someone to ask: from now on the command misses no reply.
Accept(c) ==
    /\ outcome[c] = "asked" /\ asked[c].targets # {}
    /\ outcome' = [outcome EXCEPT ![c] = "open"]
    /\ UNCHANGED <<asked, got, late>>

\* The channel may not address the strategy, or there is none to address.
Refuse(c) ==
    /\ outcome[c] = "asked"
    /\ outcome' = [outcome EXCEPT ![c] = "refused"]
    /\ UNCHANGED <<asked, got, late>>

\* One report reaches every command it answers, all of them at once.
Deliver(rep) ==
    /\ got' = [c \in Cmds |-> IF Answers(rep, c) THEN got[c] \cup {rep} ELSE got[c]]
    /\ UNCHANGED <<outcome, asked, late>>

\* The deadline of an open command passes: what it has is what it will show.
DeadlinePasses(c) ==
    /\ outcome[c] = "open"
    /\ late' = late \cup {c}
    /\ UNCHANGED <<outcome, asked, got>>

\* The operator gets the receipt.
Answer(c) ==
    /\ outcome[c] = "open"
    /\ c \in late \/ Complete(c)
    /\ outcome' = [outcome EXCEPT ![c] = "answered"]
    /\ UNCHANGED <<asked, got, late>>

\* Asking a strategy failed: the command ends without a receipt.
Fail(c) ==
    /\ outcome[c] = "open" /\ c \notin late
    /\ outcome' = [outcome EXCEPT ![c] = "failed"]
    /\ got' = [got EXCEPT ![c] = {}]
    /\ UNCHANGED <<asked, late>>

Next ==
    \/ \E c \in Cmds : \/ \E topic \in Topics, targets \in SUBSET Sids :
                              Ask(c, topic, targets)
                       \/ Accept(c) \/ Refuse(c)
                       \/ DeadlinePasses(c) \/ Answer(c) \/ Fail(c)
    \/ \E rep \in Reports : Deliver(rep)

Spec == Init /\ [][Next]_svars
=============================================================================
