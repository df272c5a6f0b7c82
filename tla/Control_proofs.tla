--------------------------- MODULE Control_proofs ---------------------------
(***************************************************************************)
(* Proofs about Control, for any strategies, deployments, requests and     *)
(* bounds.  The first part shows that commands cross the boundary of       *)
(* sandbox and live in good faith only; what a fan-out publishes plays no  *)
(* part in that.  The second part is about the order and the number of     *)
(* deliveries, and about the state a strategy ends up in.                  *)
(***************************************************************************)
EXTENDS Control, FiniteSetTheorems, SequenceTheorems, TLAPS

\* The fields of a command; a todo list is whatever it is.
Shaped(c) ==
    c \in [who : Issuers, action : Lifecycle \cup Reports \cup {"ping"}, to : Sids \cup {All},
           todo : {c.todo}, pc : {"publishing", "sent", "failed"},
           knew : SUBSET Nat, at : Nat, before : SUBSET Nat]

\* The processes that run are the last boots of their strategies.
BootsInv ==
    /\ boots \in Seq(Pods) /\ heard \subseteq DOMAIN boots
    /\ proc \in [Sids -> {0} \cup DOMAIN boots]
    /\ up \subseteq {s \in Sids : proc[s] # 0}
    /\ \A s \in Sids : proc[s] # 0 =>
          /\ boots[proc[s]].sid = s
          /\ \A i \in DOMAIN boots : boots[i].sid = s => i <= proc[s]

CmdsShaped ==
    /\ Len(cmds) \in Nat /\ DOMAIN cmds = 1 .. Len(cmds) /\ cmds \in Seq({cmds[c] : c \in DOMAIN cmds})
    /\ \A c \in DOMAIN cmds : Shaped(cmds[c])

StreamsInv ==
    /\ control \in [Sids -> Seq(DOMAIN cmds)]
    /\ cursor \in [Sids -> Nat]
    /\ applied \in Seq([cmd : Nat, sid : Sids, boot : Nat])
    /\ \A k \in DOMAIN applied :
          applied[k].cmd \in DOMAIN cmds /\ applied[k].boot \in DOMAIN boots

\* A slash command is for one strategy, and was let through because the last boot
\* of it that the registry knew had announced the channel's mode.
InGoodFaith(cmd) ==
    /\ cmd.to \in Sids /\ (cmd.pc = "publishing" => cmd.todo = <<cmd.to>>)
    /\ cmd.knew \subseteq DOMAIN boots
    /\ \A b \in cmd.knew :
          /\ boots[b].sid = cmd.to
          /\ \A j \in cmd.knew : boots[j].sid = cmd.to => j <= b
          => boots[b].mode = cmd.who

SlashInGoodFaith == \A c \in DOMAIN cmds : cmds[c].who # "cli" => InGoodFaith(cmds[c])

\* Slash commands are in the control streams of their own strategies only.
StreamsApart ==
    \A s \in Sids : \A k \in DOMAIN control[s] :
        cmds[control[s][k]].who # "cli" => cmds[control[s][k]].to = s

CrossInv ==
    /\ BootsInv /\ CmdsShaped /\ StreamsInv
    /\ SlashInGoodFaith /\ StreamsApart /\ CrossingsExplained

-----------------------------------------------------------------------------
LEMMA AppendLemma ==
    ASSUME NEW S, NEW q \in Seq(S), NEW e
    PROVE  /\ Append(q, e) \in Seq(S \cup {e})
           /\ e \in S => Append(q, e) \in Seq(S)
           /\ Len(Append(q, e)) = Len(q) + 1 /\ Len(q) \in Nat
           /\ DOMAIN q = 1 .. Len(q)
           /\ DOMAIN Append(q, e) = 1 .. Len(q) + 1
           /\ \A i \in DOMAIN q : Append(q, e)[i] = q[i]
           /\ Append(q, e)[Len(q) + 1] = e
<1>1. q \in Seq(S \cup {e}) OBVIOUS
<1>2. e \in S \cup {e} OBVIOUS
<1> QED BY <1>1, <1>2

LEMMA SeqLemma ==
    ASSUME NEW S, NEW q \in Seq(S)
    PROVE  /\ Len(q) \in Nat /\ DOMAIN q = 1 .. Len(q)
           /\ \A k \in DOMAIN q : q[k] \in S
OBVIOUS

LEMMA CrossInit == Init => CrossInv
<1> SUFFICES ASSUME Init PROVE CrossInv
  OBVIOUS
<1>1. BootsInv BY ControlAssumption DEF Init, BootsInv
<1>2. CmdsShaped BY DEF Init, CmdsShaped
<1>3. StreamsInv BY DEF Init, StreamsInv
<1>4. SlashInGoodFaith BY DEF Init, SlashInGoodFaith
<1>5. StreamsApart BY DEF Init, StreamsApart
<1>6. CrossingsExplained BY DEF Init, CrossingsExplained
<1> QED BY <1>1, <1>2, <1>3, <1>4, <1>5, <1>6 DEF CrossInv

-----------------------------------------------------------------------------
(* Pods.                                                                   *)

LEMMA CrossBoot == ASSUME CrossInv, NEW b \in Deployments, Boot(b) PROVE CrossInv'
<1> USE DEF CrossInv, BootsInv
<1>1. b \in Pods /\ b.sid \in Sids BY ControlAssumption DEF Pods
<1>2. /\ boots' \in Seq(Pods) /\ Len(boots') = Len(boots) + 1 /\ Len(boots) \in Nat
      /\ DOMAIN boots = 1 .. Len(boots) /\ DOMAIN boots' = 1 .. Len(boots) + 1
      /\ \A i \in DOMAIN boots : boots'[i] = boots[i]
      /\ boots'[Len(boots) + 1] = b
  BY <1>1 DEF Boot
<1>3. DOMAIN boots \subseteq DOMAIN boots' BY <1>2
<1>4. UNCHANGED <<heard, up, control, cmds, applied>> BY DEF Boot
<1>5. proc' = [proc EXCEPT ![b.sid] = Len(boots) + 1] /\ proc[b.sid] = 0
  BY <1>2 DEF Boot
<1>6. BootsInv'
  <2>1. boots' \in Seq(Pods) /\ heard' \subseteq DOMAIN boots' BY <1>2, <1>3, <1>4
  <2>2. proc' \in [Sids -> {0} \cup DOMAIN boots']
    <3>1. proc \in [Sids -> {0} \cup DOMAIN boots'] BY <1>3
    <3>2. Len(boots) + 1 \in DOMAIN boots' BY <1>2
    <3> QED BY <1>5, <3>1, <3>2
  <2>3. up' \subseteq {s \in Sids : proc'[s] # 0} BY <1>1, <1>4, <1>5
  <2>4. ASSUME NEW s \in Sids, proc'[s] # 0
        PROVE  /\ boots'[proc'[s]].sid = s
               /\ \A i \in DOMAIN boots' : boots'[i].sid = s => i <= proc'[s]
    <3>1. CASE s = b.sid BY <1>1, <1>2, <1>5, <3>1
    <3>2. CASE s # b.sid
      <4>1. proc'[s] = proc[s] /\ proc[s] \in DOMAIN boots BY <1>5, <2>4, <3>2
      <4> QED BY <1>2, <2>4, <3>2, <4>1
    <3> QED BY <3>1, <3>2
  <2> QED BY <2>1, <2>2, <2>3, <2>4
<1>7. CmdsShaped' BY <1>4 DEF CmdsShaped
<1>8. StreamsInv'
  <2>1. cursor' \in [Sids -> Nat] BY <1>1 DEF Boot, StreamsInv
  <2> QED BY <1>3, <1>4, <2>1 DEF StreamsInv
<1>9. SlashInGoodFaith' BY <1>2, <1>3, <1>4 DEF SlashInGoodFaith, InGoodFaith
<1>10. StreamsApart' BY <1>4 DEF StreamsApart
<1>11. CrossingsExplained'
  <2>1. \A k \in DOMAIN applied : applied[k].boot \in DOMAIN boots BY DEF StreamsInv
  <2> QED BY <1>2, <1>4, <2>1 DEF CrossingsExplained
<1> QED BY <1>6, <1>7, <1>8, <1>9, <1>10, <1>11

LEMMA CrossStart == ASSUME CrossInv, NEW s \in Sids, OnStart(s) PROVE CrossInv'
<1> USE DEF CrossInv
<1>1. UNCHANGED <<boots, heard, proc, control, cmds, applied>> BY DEF OnStart
<1>2. BootsInv' BY <1>1 DEF OnStart, BootsInv
<1>3. cursor' \in [Sids -> Nat]
  <2>1. PICK n \in cursor[s] .. Len(control[s]) : cursor' = [cursor EXCEPT ![s] = n]
    BY DEF OnStart
  <2>2. n \in Nat BY DEF StreamsInv
  <2> QED BY <2>1, <2>2 DEF StreamsInv
<1> QED BY <1>1, <1>2, <1>3 DEF CmdsShaped, StreamsInv, SlashInGoodFaith, InGoodFaith,
        StreamsApart, CrossingsExplained

LEMMA CrossGone == ASSUME CrossInv, NEW s \in Sids, Gone(s) PROVE CrossInv'
<1> USE DEF CrossInv
<1>1. UNCHANGED <<boots, heard, control, cmds, applied>> BY DEF Gone
<1>2. BootsInv' BY <1>1 DEF Gone, BootsInv
<1>3. cursor' \in [Sids -> Nat] BY DEF Gone, StreamsInv
<1> QED BY <1>1, <1>2, <1>3 DEF CmdsShaped, StreamsInv, SlashInGoodFaith, InGoodFaith,
        StreamsApart, CrossingsExplained

\* The bridge carries out a slash command of its own strategy, in the strategy's last
\* boot: had the registry known that boot, it would have asked for its mode.
LEMMA CrossCommand == ASSUME CrossInv, NEW s \in Sids, OnCommand(s) PROVE CrossInv'
<1> USE DEF CrossInv
<1> DEFINE c == control[s][cursor[s] + 1]
           new == [cmd |-> c, sid |-> s, boot |-> proc[s]]
<1>1. UNCHANGED <<boots, heard, proc, up, control, since, cmds>> BY DEF OnCommand
<1>2. proc[s] \in DOMAIN boots BY DEF OnCommand, BootsInv
<1>3. cursor[s] + 1 \in DOMAIN control[s] /\ c \in DOMAIN cmds
  BY DEF OnCommand, StreamsInv
<1>4. cursor' \in [Sids -> Nat] BY DEF OnCommand, StreamsInv
<1>5. new \in [cmd : Nat, sid : Sids, boot : Nat]
  BY <1>2, <1>3 DEF BootsInv, CmdsShaped
<1>6. applied' = applied \/ applied' = Append(applied, new) BY DEF OnCommand
<1>7. cmds[c].who # "cli" /\ cmds[c].who # boots[proc[s]].mode => proc[s] \notin cmds[c].knew
  <2> SUFFICES ASSUME cmds[c].who # "cli", proc[s] \in cmds[c].knew
               PROVE  boots[proc[s]].mode = cmds[c].who
    OBVIOUS
  <2>1. InGoodFaith(cmds[c]) BY <1>3 DEF SlashInGoodFaith
  <2>2. cmds[c].to = s BY <1>3 DEF StreamsApart
  <2>3. /\ boots[proc[s]].sid = s
        /\ \A i \in DOMAIN boots : boots[i].sid = s => i <= proc[s]
    BY DEF OnCommand, BootsInv
  <2> QED BY <2>1, <2>2, <2>3 DEF InGoodFaith
<1>8. applied' \in Seq([cmd : Nat, sid : Sids, boot : Nat])
  <2>1. applied \in Seq([cmd : Nat, sid : Sids, boot : Nat]) BY DEF StreamsInv
  <2>2. CASE applied' = applied BY <2>1, <2>2
  <2>3. CASE applied' = Append(applied, new) BY <1>5, <2>1, <2>3, AppendLemma
  <2> QED BY <1>6, <2>2, <2>3
<1>9. \A k \in DOMAIN applied' :
          (k \in DOMAIN applied /\ applied'[k] = applied[k]) \/ applied'[k] = new
  <2>1. applied \in Seq([cmd : Nat, sid : Sids, boot : Nat]) BY DEF StreamsInv
  <2>2. CASE applied' = applied BY <2>2
  <2>3. CASE applied' = Append(applied, new)
    <3>1. /\ DOMAIN applied = 1 .. Len(applied) /\ Len(applied) \in Nat
          /\ DOMAIN Append(applied, new) = 1 .. Len(applied) + 1
          /\ \A i \in DOMAIN applied : Append(applied, new)[i] = applied[i]
          /\ Append(applied, new)[Len(applied) + 1] = new
      BY <2>1, AppendLemma
    <3> HIDE DEF new
    <3> QED BY <2>3, <3>1
  <2> QED BY <1>6, <2>2, <2>3
<1>10. \A k \in DOMAIN applied' :
          applied'[k].cmd \in DOMAIN cmds /\ applied'[k].boot \in DOMAIN boots
  <2>1. new.cmd \in DOMAIN cmds /\ new.boot \in DOMAIN boots BY <1>2, <1>3
  <2> HIDE DEF new
  <2> QED BY <1>9, <2>1 DEF StreamsInv
<1>11. CrossingsExplained'
  <2>1. cmds[new.cmd].who # "cli" /\ cmds[new.cmd].who # boots[new.boot].mode
          => new.boot \notin cmds[new.cmd].knew
    <3>1. new.cmd = c /\ new.boot = proc[s] OBVIOUS
    <3> HIDE DEF c, new
    <3> QED BY <1>7, <3>1
  <2> HIDE DEF new
  <2> QED BY <1>1, <1>9, <2>1 DEF CrossingsExplained
<1>12. StreamsInv' BY <1>1, <1>4, <1>8, <1>10 DEF StreamsInv
<1> QED BY <1>1, <1>11, <1>12 DEF BootsInv, CmdsShaped, SlashInGoodFaith, InGoodFaith,
        StreamsApart

-----------------------------------------------------------------------------
(* The notifier and the CLI.                                               *)

\* A step that only moves commands on: no fields change but todo and pc, and a slash
\* command that still has to be published is as it was.
Moved(c) ==
    /\ Shaped(cmds'[c])
    /\ cmds'[c].who = cmds[c].who /\ cmds'[c].to = cmds[c].to /\ cmds'[c].knew = cmds[c].knew
    /\ cmds[c].who # "cli" /\ cmds'[c].pc = "publishing" =>
          cmds[c].pc = "publishing" /\ cmds'[c].todo = cmds[c].todo

LEMMA MovedOn ==
    ASSUME CrossInv, UNCHANGED <<boots, proc, up, cursor, applied>>, heard' \subseteq DOMAIN boots,
           Len(cmds') = Len(cmds), DOMAIN cmds' = DOMAIN cmds,
           cmds' \in Seq({cmds'[c] : c \in DOMAIN cmds'}),
           \A c \in DOMAIN cmds : Moved(c),
           control' \in [Sids -> Seq(DOMAIN cmds)],
           StreamsApart'
    PROVE  CrossInv'
<1> USE DEF CrossInv
<1>1. BootsInv' BY DEF BootsInv
<1>2. CmdsShaped' BY DEF CmdsShaped, Moved
<1>3. StreamsInv' BY DEF StreamsInv
<1>4. SlashInGoodFaith'
  <2> SUFFICES ASSUME NEW c \in DOMAIN cmds, cmds'[c].who # "cli"
               PROVE  InGoodFaith(cmds[c])'
    BY DEF SlashInGoodFaith
  <2>1. InGoodFaith(cmds[c]) /\ Moved(c) BY DEF SlashInGoodFaith, Moved
  <2> QED BY <2>1 DEF InGoodFaith, Moved
<1>5. CrossingsExplained'
  <2>1. \A k \in DOMAIN applied : applied[k].cmd \in DOMAIN cmds BY DEF StreamsInv
  <2> QED BY <2>1 DEF CrossingsExplained, Moved
<1> QED BY <1>1, <1>2, <1>3, <1>4, <1>5

LEMMA FunctionIsSeq ==
    ASSUME NEW n \in Nat, NEW S, NEW f \in [1 .. n -> S]
    PROVE  f \in Seq(S) /\ Len(f) = n
OBVIOUS

\* The same for the two ways such a step is written.
LEMMA OneMoved ==
    ASSUME CrossInv, NEW c \in DOMAIN cmds, NEW e, cmds' = [cmds EXCEPT ![c] = e],
           Shaped(e), e.who = cmds[c].who, e.to = cmds[c].to, e.knew = cmds[c].knew,
           cmds[c].who # "cli" => e.pc # "publishing"
    PROVE  /\ Len(cmds') = Len(cmds) /\ DOMAIN cmds' = DOMAIN cmds
           /\ cmds' \in Seq({cmds'[d] : d \in DOMAIN cmds'})
           /\ \A d \in DOMAIN cmds : Moved(d)
<1> USE DEF CrossInv, CmdsShaped
<1>1. DOMAIN cmds' = 1 .. Len(cmds) OBVIOUS
<1>2. cmds' \in [1 .. Len(cmds) -> {cmds'[d] : d \in DOMAIN cmds'}] BY <1>1
<1>3. Len(cmds') = Len(cmds) /\ cmds' \in Seq({cmds'[d] : d \in DOMAIN cmds'})
  BY <1>2, FunctionIsSeq
<1>4. \A d \in DOMAIN cmds : Moved(d)
  <2> TAKE d \in DOMAIN cmds
  <2>1. CASE d = c
    <3>1. cmds'[d] = e BY <2>1
    <3> QED BY <2>1, <3>1 DEF Moved
  <2>2. CASE d # c
    <3>1. cmds'[d] = cmds[d] /\ Shaped(cmds[d]) BY <2>2
    <3> QED BY <3>1 DEF Moved
  <2> QED BY <2>1, <2>2
<1> QED BY <1>1, <1>3, <1>4

LEMMA CrossHear == ASSUME CrossInv, Hear PROVE CrossInv'
<1> USE DEF CrossInv
<1>1. UNCHANGED <<boots, proc, up, strat, control, cursor, since, cmds, applied>>
  BY DEF Hear
<1>2. heard' \subseteq DOMAIN boots BY DEF Hear, Told, BootsInv
<1>3. BootsInv' BY <1>1, <1>2 DEF BootsInv
<1> QED BY <1>1, <1>3 DEF CmdsShaped, StreamsInv, SlashInGoodFaith, InGoodFaith,
        StreamsApart, CrossingsExplained

LEMMA CrossRestart == ASSUME CrossInv, Restart PROVE CrossInv'
<1> USE DEF CrossInv
<1>1. UNCHANGED <<boots, proc, up, control, cursor, applied>> BY DEF Restart
<1>2. heard' \subseteq DOMAIN boots BY DEF Restart, Told
<1>3. DOMAIN cmds = 1 .. Len(cmds) /\ Len(cmds) \in Nat BY DEF CmdsShaped
<1>4. /\ DOMAIN cmds' = DOMAIN cmds
      /\ cmds' \in [1 .. Len(cmds) -> {cmds'[d] : d \in DOMAIN cmds'}]
  BY <1>3 DEF Restart
<1>5. Len(cmds') = Len(cmds) /\ cmds' \in Seq({cmds'[d] : d \in DOMAIN cmds'})
  BY <1>3, <1>4, FunctionIsSeq
<1>6. ASSUME NEW c \in DOMAIN cmds PROVE Moved(c)
  <2>1. Shaped(cmds[c]) BY DEF CmdsShaped
  <2>2. CASE cmds'[c] = cmds[c] BY <2>1, <2>2 DEF Moved
  <2>3. CASE cmds'[c] = [cmds[c] EXCEPT !.pc = "failed", !.todo = <<>>]
    BY <2>1, <2>3 DEF Moved, Shaped
  <2> QED BY <2>2, <2>3 DEF Restart
<1>7. StreamsInv /\ StreamsApart'
  <2>1. \A s \in Sids : \A k \in DOMAIN control[s] : control[s][k] \in DOMAIN cmds
    BY DEF StreamsInv
  <2> QED BY <1>1, <1>6, <2>1 DEF StreamsApart, Moved
<1>8. control' \in [Sids -> Seq(DOMAIN cmds)] BY <1>1 DEF StreamsInv
<1> QED BY <1>1, <1>2, <1>4, <1>5, <1>6, <1>7, <1>8, MovedOn

\* What an XADD of c does to the streams.
LEMMA Published ==
    ASSUME CrossInv, NEW c \in DOMAIN cmds, cmds[c].pc = "publishing",
           control' \in {control, [control EXCEPT ![Head(cmds[c].todo)] =
                                      Append(control[Head(cmds[c].todo)], c)]},
           \A d \in DOMAIN cmds : Moved(d)
    PROVE  control' \in [Sids -> Seq(DOMAIN cmds)] /\ StreamsApart'
<1> USE DEF CrossInv
<1> DEFINE h == Head(cmds[c].todo)
<1>1. control \in [Sids -> Seq(DOMAIN cmds)] BY DEF StreamsInv
<1>2. \A s \in Sids : \A k \in DOMAIN control[s] : control[s][k] \in DOMAIN cmds
  BY <1>1
<1>3. CASE control' = control BY <1>1, <1>2, <1>3 DEF StreamsApart, Moved
<1>4. CASE control' = [control EXCEPT ![h] = Append(control[h], c)]
  <2>1. cmds[c].who # "cli" => h = cmds[c].to
    BY DEF SlashInGoodFaith, InGoodFaith
  <2> HIDE DEF h
  <2>2. \A s \in Sids : s # h => control'[s] = control[s] BY <1>1, <1>4
  <2>3. ASSUME h \in Sids
        PROVE  /\ control'[h] \in Seq(DOMAIN cmds)
               /\ \A k \in DOMAIN control'[h] :
                     \/ k \in DOMAIN control[h] /\ control'[h][k] = control[h][k]
                     \/ control'[h][k] = c
    <3>1. control'[h] = Append(control[h], c) BY <1>1, <1>4, <2>3
    <3>2. control[h] \in Seq(DOMAIN cmds) BY <1>1, <2>3
    <3> QED BY <3>1, <3>2, AppendLemma
  <2>4. control' \in [Sids -> Seq(DOMAIN cmds)]
    <3>1. CASE h \in Sids BY <1>1, <1>4, <2>3, <3>1
    <3>2. CASE h \notin Sids BY <1>1, <1>4, <3>2
    <3> QED BY <3>1, <3>2
  <2>5. StreamsApart'
    <3> SUFFICES ASSUME NEW s \in Sids, NEW k \in DOMAIN control'[s],
                        cmds'[control'[s][k]].who # "cli"
                 PROVE  cmds'[control'[s][k]].to = s
      BY DEF StreamsApart
    <3>1. CASE control'[s][k] = c /\ s = h BY <2>1, <3>1 DEF Moved
    <3>2. CASE k \in DOMAIN control[s] /\ control'[s][k] = control[s][k]
      BY <1>2, <3>2 DEF StreamsApart, Moved
    <3> QED BY <2>2, <2>3, <3>1, <3>2
  <2> QED BY <2>4, <2>5
<1> QED BY <1>3, <1>4

LEMMA CrossXadd == ASSUME CrossInv, NEW c \in DOMAIN cmds, Xadd(c) PROVE CrossInv'
<1> USE DEF CrossInv
<1> DEFINE e == [cmds[c] EXCEPT !.todo = Tail(@),
                                !.pc = IF Tail(cmds[c].todo) = <<>> THEN "sent" ELSE @]
<1>1. /\ UNCHANGED <<boots, heard, proc, up, cursor, applied>>
      /\ cmds[c].pc = "publishing" /\ cmds' = [cmds EXCEPT ![c] = e]
      /\ control' = [control EXCEPT ![Head(cmds[c].todo)] =
                        Append(control[Head(cmds[c].todo)], c)]
  <2>1. cmds' = [cmds EXCEPT ![c] = e] BY DEF Xadd
  <2>2. control' = [control EXCEPT ![Head(cmds[c].todo)] =
                        Append(control[Head(cmds[c].todo)], c)] BY DEF Xadd
  <2> QED BY <2>1, <2>2 DEF Xadd
<1>2. Shaped(cmds[c]) BY DEF CmdsShaped
<1>3. /\ Shaped(e)
      /\ e.who = cmds[c].who /\ e.to = cmds[c].to /\ e.knew = cmds[c].knew
  BY <1>2 DEF Shaped
<1>4. cmds[c].who # "cli" => e.pc # "publishing"
  <2>1. cmds[c].who # "cli" => Tail(cmds[c].todo) = <<>>
    <3> SUFFICES ASSUME cmds[c].who # "cli" PROVE Tail(cmds[c].todo) = <<>>
      OBVIOUS
    <3>1. InGoodFaith(cmds[c]) BY DEF SlashInGoodFaith
    <3>2. cmds[c].todo = <<cmds[c].to>> BY <1>1, <3>1 DEF InGoodFaith
    <3> QED BY <3>2
  <2>2. e.pc = IF Tail(cmds[c].todo) = <<>> THEN "sent" ELSE cmds[c].pc
    BY <1>2 DEF Shaped
  <2> QED BY <2>1, <2>2
<1>5. /\ Len(cmds') = Len(cmds) /\ DOMAIN cmds' = DOMAIN cmds
      /\ cmds' \in Seq({cmds'[d] : d \in DOMAIN cmds'})
      /\ \A d \in DOMAIN cmds : Moved(d)
  <2> HIDE DEF e
  <2> QED BY <1>1, <1>3, <1>4, OneMoved
<1>6. control' \in [Sids -> Seq(DOMAIN cmds)] /\ StreamsApart' BY <1>1, <1>5, Published
<1>7. heard' \subseteq DOMAIN boots BY <1>1 DEF BootsInv
<1> QED BY <1>1, <1>5, <1>6, <1>7, MovedOn

LEMMA CrossXaddFails == ASSUME CrossInv, NEW c \in DOMAIN cmds, XaddFails(c) PROVE CrossInv'
<1> USE DEF CrossInv
<1> DEFINE e == [cmds[c] EXCEPT !.pc = "failed", !.todo = <<>>]
<1>1. /\ UNCHANGED <<boots, heard, proc, up, cursor, applied>>
      /\ cmds[c].pc = "publishing" /\ cmds' = [cmds EXCEPT ![c] = e]
      /\ control' \in {control, [control EXCEPT ![Head(cmds[c].todo)] =
                                    Append(control[Head(cmds[c].todo)], c)]}
  <2>1. cmds' = [cmds EXCEPT ![c] = e] BY DEF XaddFails
  <2>2. control' \in {control, [control EXCEPT ![Head(cmds[c].todo)] =
                                    Append(control[Head(cmds[c].todo)], c)]}
    BY DEF XaddFails
  <2> QED BY <2>1, <2>2 DEF XaddFails
<1>2. Shaped(cmds[c]) BY DEF CmdsShaped
<1>3. /\ Shaped(e) /\ e.pc # "publishing"
      /\ e.who = cmds[c].who /\ e.to = cmds[c].to /\ e.knew = cmds[c].knew
  BY <1>2 DEF Shaped
<1>4. /\ Len(cmds') = Len(cmds) /\ DOMAIN cmds' = DOMAIN cmds
      /\ cmds' \in Seq({cmds'[d] : d \in DOMAIN cmds'})
      /\ \A d \in DOMAIN cmds : Moved(d)
  <2> HIDE DEF e
  <2> QED BY <1>1, <1>3, OneMoved
<1>5. control' \in [Sids -> Seq(DOMAIN cmds)] /\ StreamsApart' BY <1>1, <1>4, Published
<1>6. heard' \subseteq DOMAIN boots BY <1>1 DEF BootsInv
<1> QED BY <1>1, <1>4, <1>5, <1>6, MovedOn

\* The guard looks at the mode of the last boot it knows of.
LEMMA GuardedByNewest ==
    ASSUME CrossInv, NEW r \in Requests, r.who \in ChannelModes,
           CommandAllowed(Registry(heard), r.to, r.who),
           NEW b \in heard, boots[b].sid = r.to,
           \A j \in heard : boots[j].sid = r.to => j <= b
    PROVE  boots[b].mode = r.who
<1> USE DEF CrossInv
<1>1. heard \subseteq Nat /\ \A i \in heard : boots[i].mode \in Modes
  <2>1. heard \subseteq DOMAIN boots /\ boots \in Seq(Pods) BY DEF BootsInv
  <2>2. \A i \in DOMAIN boots : i \in Nat /\ boots[i] \in Pods BY <2>1
  <2> QED BY <2>1, <2>2 DEF Pods
<1>2. Newest(heard, r.to) = b
  <2>1. \A i \in heard : boots[i].sid = r.to
            /\ (\A j \in heard : boots[j].sid = r.to => j <= i) => i = b
    BY <1>1
  <2> QED BY <2>1 DEF Newest
<1>3. /\ r.to \in DOMAIN Registry(heard)
      /\ Registry(heard)[r.to] = boots[b].mode
  BY <1>2 DEF Registry
<1> QED BY <1>1, <1>3 DEF CommandAllowed, EffectiveMode, Modes, ChannelModes

LEMMA CrossIssue ==
    ASSUME CrossInv, NEW r \in Requests, NEW todo, Issue(r, todo),
           r.who # "cli" => /\ todo = <<r.to>> /\ r.who \in ChannelModes
                            /\ CommandAllowed(Registry(heard), r.to, r.who)
    PROVE  CrossInv'
<1> USE DEF CrossInv
<1> DEFINE e == [who |-> r.who, action |-> r.action, to |-> r.to, todo |-> todo,
                 pc |-> IF todo = <<>> THEN "sent" ELSE "publishing",
                 knew |-> IF r.who = "cli" THEN {} ELSE heard,
                 at |-> IF r.to = All THEN Len(boots) ELSE 0,
                 before |-> IF r.action \in Lifecycle THEN Ended ELSE {}]
<1>1. /\ cmds' = Append(cmds, e)
      /\ UNCHANGED <<boots, heard, proc, up, strat, control, cursor, since, applied>>
  BY DEF Issue
<1>2. /\ r.who \in Issuers /\ r.to \in Sids \cup {All}
      /\ r.action \in Lifecycle \cup Reports \cup {"ping"}
      /\ r.to = All => r.who = "cli"
  <2>1. r \in [who : Issuers, to : Sids \cup {All},
              action : Lifecycle \cup Reports \cup {"ping"}]
    BY ControlAssumption
  <2>2. r.to = All => r.who = "cli" BY ControlAssumption
  <2> QED BY <2>1, <2>2
<1>3. Shaped(e)
  <2>1. heard \in SUBSET Nat /\ Len(boots) \in Nat BY DEF BootsInv
  <2>2. Ended \in SUBSET Nat BY DEF Ended, CmdsShaped
  <2> QED BY <1>2, <2>1, <2>2 DEF Shaped
<1>4. /\ cmds' \in Seq({cmds[c] : c \in DOMAIN cmds} \cup {e})
      /\ Len(cmds') = Len(cmds) + 1 /\ Len(cmds) \in Nat
      /\ DOMAIN cmds = 1 .. Len(cmds) /\ DOMAIN cmds' = 1 .. Len(cmds) + 1
      /\ \A c \in DOMAIN cmds : cmds'[c] = cmds[c]
      /\ cmds'[Len(cmds) + 1] = e
  <2> HIDE DEF e
  <2>1. cmds \in Seq({cmds[c] : c \in DOMAIN cmds}) BY DEF CmdsShaped
  <2> QED BY <1>1, <2>1, AppendLemma
<1>5. InGoodFaith(e) \/ e.who = "cli"
  <2> SUFFICES ASSUME r.who # "cli" PROVE InGoodFaith(e)
    OBVIOUS
  <2>1. e.to = r.to /\ r.to \in Sids /\ e.todo = <<e.to>> /\ e.knew = heard /\ e.who = r.who
    BY <1>2
  <2>2. heard \subseteq DOMAIN boots BY DEF BootsInv
  <2> HIDE DEF e
  <2> QED BY <2>1, <2>2, GuardedByNewest DEF InGoodFaith
<1> HIDE DEF e
<1>6. \A c \in DOMAIN cmds' : (c \in DOMAIN cmds /\ cmds'[c] = cmds[c]) \/ cmds'[c] = e
  BY <1>4
<1>7. DOMAIN cmds \subseteq DOMAIN cmds' BY <1>4
<1>8. BootsInv' BY <1>1 DEF BootsInv
<1>9. CmdsShaped'
  <2>1. cmds' \in [1 .. Len(cmds') -> {cmds'[c] : c \in DOMAIN cmds'}] BY <1>4
  <2>2. cmds' \in Seq({cmds'[c] : c \in DOMAIN cmds'}) BY <1>4, <2>1, FunctionIsSeq
  <2> QED BY <1>3, <1>4, <1>6, <2>2 DEF CmdsShaped
<1>10. StreamsInv'
  <2>1. \A s \in Sids : control[s] \in Seq(DOMAIN cmds') BY <1>7 DEF StreamsInv
  <2> QED BY <1>1, <1>7, <2>1 DEF StreamsInv
<1>11. SlashInGoodFaith'
  <2> SUFFICES ASSUME NEW c \in DOMAIN cmds', cmds'[c].who # "cli"
               PROVE  InGoodFaith(cmds[c])'
    BY DEF SlashInGoodFaith
  <2>1. CASE cmds'[c] = e BY <1>1, <1>5, <2>1 DEF InGoodFaith
  <2>2. CASE c \in DOMAIN cmds /\ cmds'[c] = cmds[c]
    BY <1>1, <2>2 DEF SlashInGoodFaith, InGoodFaith
  <2> QED BY <1>6, <2>1, <2>2
<1>12. StreamsApart'
  <2>1. \A s \in Sids : \A k \in DOMAIN control[s] : control[s][k] \in DOMAIN cmds
    BY DEF StreamsInv
  <2> QED BY <1>1, <1>4, <2>1 DEF StreamsApart
<1>13. CrossingsExplained' BY <1>1, <1>4 DEF StreamsInv, CrossingsExplained
<1> QED BY <1>8, <1>9, <1>10, <1>11, <1>12, <1>13

LEMMA CrossRequest == ASSUME CrossInv, NEW r \in Requests, Slash(r) \/ Cli(r) PROVE CrossInv'
<1>1. CASE Slash(r)
  <2>1. r.who # "cli" BY <1>1 DEF Slash, ChannelModes
  <2> QED BY <1>1, CrossIssue DEF Slash
<1>2. CASE Cli(r)
  <2>1. r.who = "cli" BY <1>2 DEF Cli
  <2>2. PICK todo \in IF r.to = All THEN FanOutTargets ELSE {<<r.to>>} : Issue(r, todo)
    BY <1>2 DEF Cli
  <2> QED BY <2>1, <2>2, CrossIssue
<1> QED BY <1>1, <1>2

-----------------------------------------------------------------------------
LEMMA CrossStep == CrossInv /\ [Next]_vars => CrossInv'
<1> SUFFICES ASSUME CrossInv, [Next]_vars PROVE CrossInv'
  OBVIOUS
<1>1. CASE UNCHANGED vars
  BY <1>1 DEF vars, CrossInv, BootsInv, CmdsShaped, StreamsInv, SlashInGoodFaith,
      InGoodFaith, StreamsApart, CrossingsExplained
<1>2. CASE \E b \in Deployments : Boot(b) BY <1>2, CrossBoot
<1>3. CASE \E s \in Sids : OnStart(s) \/ OnCommand(s) \/ Gone(s)
  BY <1>3, CrossStart, CrossCommand, CrossGone
<1>4. CASE Hear \/ Restart BY <1>4, CrossHear, CrossRestart
<1>5. CASE \E r \in Requests : Slash(r) \/ Cli(r) BY <1>5, CrossRequest
<1>6. CASE \E c \in DOMAIN cmds : Xadd(c) \/ XaddFails(c)
  BY <1>6, CrossXadd, CrossXaddFails
<1> QED BY <1>1, <1>2, <1>3, <1>4, <1>5, <1>6 DEF Next

\* A pod of the other mode carries out a command of a channel (_command in runner.py,
\* _on_command in bridge_actor.py) only if its announce had not reached the registry
\* when the channel was checked: for any pods, operators and interleaving.
THEOREM OnlyUnheardBootsAreCrossed == Spec => []CrossingsExplained
<1>1. CrossInv => CrossingsExplained BY DEF CrossInv
<1> QED BY <1>1, CrossInit, CrossStep, PTL DEF Spec

-----------------------------------------------------------------------------
(* Deliveries: once each, in the order the operators saw them end.         *)

\* What TypeOK says beyond the first part's invariant.
TypeInv ==
    /\ Len(boots) <= MaxBoots /\ heard \subseteq Told
    /\ strat \in [Sids -> {"none", "running", "stopped"}]
    /\ since \in [Sids -> Nat]
    /\ \A s \in Sids : cursor[s] <= Len(control[s]) /\ since[s] <= Len(control[s])
    /\ Len(cmds) <= MaxCmds /\ \A c \in DOMAIN cmds : cmds[c] \in Commands

\* A command has as many XADDs to come as strategies are left: each strategy once,
\* none that has it already, and for a lifecycle command its own strategy only.
TodoOf(c) ==
    /\ cmds[c].pc = "publishing" <=> cmds[c].todo # <<>>
    /\ \A i, j \in DOMAIN cmds[c].todo : cmds[c].todo[i] = cmds[c].todo[j] => i = j
    /\ \A i \in DOMAIN cmds[c].todo :
          \A k \in DOMAIN control[cmds[c].todo[i]] : control[cmds[c].todo[i]][k] # c
    /\ cmds[c].action \in Lifecycle =>
          \A i \in DOMAIN cmds[c].todo : cmds[c].todo[i] = cmds[c].to
    /\ cmds[c].before \subseteq Ended

TodoInv == \A c \in DOMAIN cmds : TodoOf(c)

\* A stream has a command once, after those whose outcome was known when it was
\* issued, and the lifecycle commands of its own strategy only.
OrderOf(q) ==
    /\ \A i, j \in DOMAIN q : q[i] = q[j] => i = j
    /\ \A i, j \in DOMAIN q : q[i] \in cmds[q[j]].before => i < j

OrderInv ==
    \A s \in Sids :
        /\ OrderOf(control[s])
        /\ \A i \in DOMAIN control[s] :
              cmds[control[s][i]].action \in Lifecycle => cmds[control[s][i]].to = s

\* What was carried out is in the stream, behind the cursor of a process that runs.
AppliedAt(k, p) ==
    LET s == applied[k].sid
    IN  /\ p \in DOMAIN control[s] /\ control[s][p] = applied[k].cmd
        /\ proc[s] # 0 => p <= cursor[s]

AppliedInv == \A k \in DOMAIN applied : \E p \in Nat : AppliedAt(k, p)

\* The last pause, resume or flatten read since the bridge subscribed decides.
Acts(s, p) == cmds[control[s][p]].action \in Lifecycle

EffectInv ==
    \A s \in up : strat[s] # "none" =>
        \A p \in Nat :
            /\ since[s] < p /\ p <= cursor[s] /\ Acts(s, p)
            /\ \A q \in Nat : p < q /\ q <= cursor[s] => ~Acts(s, q)
            => strat[s] = Effect(cmds[control[s][p]].action, "running")

DeliveryInv ==
    CrossInv /\ TypeInv /\ TodoInv /\ OrderInv /\ AppliedInv /\ AppliedOnce /\ EffectInv

-----------------------------------------------------------------------------
LEMMA TypesHold == CrossInv /\ TypeInv => TypeOK
<1> SUFFICES ASSUME CrossInv, TypeInv PROVE TypeOK
  OBVIOUS
<1> USE DEF CrossInv
<1>1. boots \in Seq(Pods) /\ DOMAIN boots = 1 .. Len(boots) /\ Len(boots) \in Nat
  BY DEF BootsInv
<1>2. proc \in [Sids -> 0 .. Len(boots)]
  <2>1. {0} \cup DOMAIN boots \subseteq 0 .. Len(boots) BY <1>1
  <2> QED BY <2>1 DEF BootsInv
<1>3. cmds \in Seq(Commands)
  <2>1. cmds \in Seq({cmds[c] : c \in DOMAIN cmds}) BY DEF CmdsShaped
  <2>2. {cmds[c] : c \in DOMAIN cmds} \subseteq Commands BY DEF TypeInv
  <2> QED BY <2>1, <2>2
<1>4. applied \in Seq([cmd : DOMAIN cmds, sid : Sids, boot : DOMAIN boots])
  <2>1. applied \in Seq([cmd : Nat, sid : Sids, boot : Nat]) BY DEF StreamsInv
  <2>2. DOMAIN applied = 1 .. Len(applied) /\ Len(applied) \in Nat BY <2>1
  <2>3. \A k \in DOMAIN applied :
            applied[k] \in [cmd : DOMAIN cmds, sid : Sids, boot : DOMAIN boots]
    <3> TAKE k \in DOMAIN applied
    <3>1. applied[k] \in [cmd : Nat, sid : Sids, boot : Nat] BY <2>1, SeqLemma
    <3>2. applied[k].cmd \in DOMAIN cmds /\ applied[k].boot \in DOMAIN boots
      BY DEF StreamsInv
    <3> QED BY <3>1, <3>2
  <2>4. applied \in [1 .. Len(applied) -> [cmd : DOMAIN cmds, sid : Sids, boot : DOMAIN boots]]
    BY <2>1, <2>2, <2>3
  <2> QED BY <2>2, <2>4, FunctionIsSeq
<1> QED BY <1>1, <1>2, <1>3, <1>4 DEF TypeOK, TypeInv, BootsInv, StreamsInv

LEMMA DeliveryInit == Init => DeliveryInv
<1> SUFFICES ASSUME Init PROVE DeliveryInv
  OBVIOUS
<1>1. CrossInv BY CrossInit
<1>2. TypeInv BY ControlAssumption DEF Init, TypeInv, Told
<1>3. TodoInv BY DEF Init, TodoInv
<1>4. OrderInv BY DEF Init, OrderInv, OrderOf
<1>5. AppliedInv /\ AppliedOnce BY DEF Init, AppliedInv, AppliedOnce
<1>6. EffectInv BY DEF Init, EffectInv
<1> QED BY <1>1, <1>2, <1>3, <1>4, <1>5, <1>6 DEF DeliveryInv

\* The shapes that the steps below need again and again.
LEMMA Shapes ==
    ASSUME CrossInv
    PROVE  /\ Len(boots) \in Nat /\ DOMAIN boots = 1 .. Len(boots) /\ boots \in Seq(Pods)
           /\ Len(cmds) \in Nat /\ DOMAIN cmds = 1 .. Len(cmds)
           /\ Len(applied) \in Nat /\ DOMAIN applied = 1 .. Len(applied)
           /\ \A k \in DOMAIN applied : applied[k].sid \in Sids /\ applied[k].cmd \in DOMAIN cmds
           /\ \A s \in Sids : /\ control[s] \in Seq(DOMAIN cmds) /\ Len(control[s]) \in Nat
                              /\ DOMAIN control[s] = 1 .. Len(control[s])
                              /\ \A k \in DOMAIN control[s] : control[s][k] \in DOMAIN cmds
                              /\ cursor[s] \in Nat
<1> USE DEF CrossInv
<1>1. Len(boots) \in Nat /\ DOMAIN boots = 1 .. Len(boots) /\ boots \in Seq(Pods)
  BY DEF BootsInv
<1>2. applied \in Seq([cmd : Nat, sid : Sids, boot : Nat]) BY DEF StreamsInv
<1>3. Len(applied) \in Nat /\ DOMAIN applied = 1 .. Len(applied)
      /\ \A k \in DOMAIN applied : applied[k] \in [cmd : Nat, sid : Sids, boot : Nat]
  BY <1>2, SeqLemma
<1>4. \A k \in DOMAIN applied : applied[k].sid \in Sids /\ applied[k].cmd \in DOMAIN cmds
  BY <1>3 DEF StreamsInv
<1>5. \A s \in Sids : control[s] \in Seq(DOMAIN cmds) /\ cursor[s] \in Nat BY DEF StreamsInv
<1>6. \A s \in Sids : /\ Len(control[s]) \in Nat /\ DOMAIN control[s] = 1 .. Len(control[s])
                      /\ \A k \in DOMAIN control[s] : control[s][k] \in DOMAIN cmds
  BY <1>5
<1> QED BY <1>1, <1>3, <1>4, <1>5, <1>6 DEF CmdsShaped

-----------------------------------------------------------------------------
(* Pods: the commands and the streams stay as they are.                    *)

LEMMA CommandsRest ==
    ASSUME TodoInv, OrderInv, UNCHANGED <<cmds, control>>
    PROVE  TodoInv' /\ OrderInv'
<1>1. Ended' = Ended BY DEF Ended
<1>2. TodoInv' BY <1>1 DEF TodoInv, TodoOf
<1> QED BY <1>2 DEF OrderInv, OrderOf

LEMMA DeliveryBoot == ASSUME DeliveryInv, NEW b \in Deployments, Boot(b) PROVE DeliveryInv'
<1> USE DEF DeliveryInv
<1>1. CrossInv' BY CrossBoot
<1>2. b \in Pods /\ b.sid \in Sids BY ControlAssumption DEF Pods
<1>3. /\ UNCHANGED <<heard, up, strat, control, since, cmds, applied>>
      /\ proc[b.sid] = 0 /\ Len(boots) < MaxBoots /\ boots' = Append(boots, b)
      /\ cursor' = [cursor EXCEPT ![b.sid] = Len(control[b.sid])]
      /\ proc' = [proc EXCEPT ![b.sid] = Len(boots')]
  BY DEF Boot
<1>4. \A s \in Sids : s # b.sid => cursor'[s] = cursor[s] /\ proc'[s] = proc[s]
  BY <1>3 DEF CrossInv, BootsInv, StreamsInv
<1>5. cursor'[b.sid] = Len(control[b.sid]) BY <1>2, <1>3 DEF CrossInv, StreamsInv
<1>6. TypeInv'
  <2>1. Len(boots') <= MaxBoots /\ heard' \subseteq Told'
    <3>1. /\ Len(boots') = Len(boots) + 1 /\ Len(boots) \in Nat
          /\ DOMAIN boots = 1 .. Len(boots) /\ DOMAIN boots' = 1 .. Len(boots) + 1
          /\ \A i \in DOMAIN boots : boots'[i] = boots[i]
      BY <1>2, <1>3, Shapes, AppendLemma
    <3> QED BY <1>3, <3>1, ControlAssumption DEF TypeInv, Told
  <2>2. \A s \in Sids : cursor'[s] <= Len(control[s])
    <3>1. \A s \in Sids : Len(control[s]) \in Nat BY Shapes
    <3> QED BY <1>4, <1>5, <3>1 DEF TypeInv
  <2> QED BY <1>3, <2>1, <2>2 DEF TypeInv
<1>7. TodoInv' /\ OrderInv' BY <1>3, CommandsRest
<1>8. AppliedInv'
  <2> SUFFICES ASSUME NEW k \in DOMAIN applied PROVE \E p \in Nat : AppliedAt(k, p)'
    BY <1>3 DEF AppliedInv
  <2>1. PICK p \in Nat : AppliedAt(k, p) BY DEF AppliedInv
  <2>2. applied[k].sid \in Sids BY Shapes
  <2>3. AppliedAt(k, p)'
    <3>1. CASE applied[k].sid = b.sid
      BY <1>2, <1>3, <1>5, <2>1, <3>1, Shapes DEF AppliedAt
    <3>2. CASE applied[k].sid # b.sid BY <1>3, <1>4, <2>1, <2>2, <3>2 DEF AppliedAt
    <3> QED BY <3>1, <3>2
  <2> QED BY <2>3
<1>9. AppliedOnce' BY <1>3 DEF AppliedOnce
<1>10. EffectInv'
  <2>1. b.sid \notin up /\ up \subseteq Sids BY <1>3 DEF CrossInv, BootsInv
  <2>2. \A s \in up : cursor'[s] = cursor[s] BY <1>4, <2>1
  <2> QED BY <1>3, <2>2 DEF EffectInv, Acts
<1> QED BY <1>1, <1>6, <1>7, <1>8, <1>9, <1>10

LEMMA DeliveryStart == ASSUME DeliveryInv, NEW s \in Sids, OnStart(s) PROVE DeliveryInv'
<1> USE DEF DeliveryInv
<1>1. CrossInv' BY CrossStart
<1>2. /\ UNCHANGED <<boots, heard, proc, control, cmds, applied>>
      /\ s \notin up /\ up' = up \cup {s}
      /\ since' = [since EXCEPT ![s] = Len(control[s])]
      /\ strat' = [strat EXCEPT ![s] = IF boots[proc[s]].loaded THEN "running" ELSE "none"]
  BY DEF OnStart
<1>3. PICK n \in cursor[s] .. Len(control[s]) : cursor' = [cursor EXCEPT ![s] = n]
  BY DEF OnStart
<1>4. /\ cursor'[s] \in Nat /\ cursor[s] <= cursor'[s] /\ cursor'[s] <= Len(control[s])
      /\ \A t \in Sids : t # s => cursor'[t] = cursor[t]
  BY <1>3, Shapes DEF CrossInv, StreamsInv
<1>5. since'[s] = Len(control[s]) /\ \A t \in Sids : t # s => since'[t] = since[t]
  BY <1>2 DEF TypeInv
<1>6. TypeInv'
  <2>1. \A t \in Sids : cursor'[t] <= Len(control[t]) /\ since'[t] <= Len(control[t])
    <3>1. \A t \in Sids : Len(control[t]) \in Nat BY Shapes
    <3> QED BY <1>4, <1>5, <3>1 DEF TypeInv
  <2>2. since' \in [Sids -> Nat] /\ strat' \in [Sids -> {"none", "running", "stopped"}]
    BY <1>2, Shapes DEF TypeInv
  <2>3. Told' = Told BY <1>2 DEF Told
  <2> QED BY <1>2, <2>1, <2>2, <2>3 DEF TypeInv
<1>7. TodoInv' /\ OrderInv' BY <1>2, CommandsRest
<1>8. AppliedInv'
  <2> SUFFICES ASSUME NEW k \in DOMAIN applied PROVE \E p \in Nat : AppliedAt(k, p)'
    BY <1>2 DEF AppliedInv
  <2>1. PICK p \in Nat : AppliedAt(k, p) BY DEF AppliedInv
  <2>2. applied[k].sid \in Sids BY Shapes
  <2>3. cursor[applied[k].sid] <= cursor'[applied[k].sid] /\ cursor'[applied[k].sid] \in Nat
        /\ cursor[applied[k].sid] \in Nat
    <3>1. \A t \in Sids : cursor[t] \in Nat BY Shapes
    <3>2. \A t \in Sids : cursor[t] <= cursor'[t] /\ cursor'[t] \in Nat BY <1>4, <3>1
    <3> QED BY <2>2, <3>1, <3>2
  <2>4. AppliedAt(k, p)' BY <1>2, <2>1, <2>3 DEF AppliedAt
  <2> QED BY <2>4
<1>9. AppliedOnce' BY <1>2 DEF AppliedOnce
<1>10. EffectInv'
  <2> SUFFICES ASSUME NEW t \in up', strat'[t] # "none", NEW p \in Nat,
                      since'[t] < p, p <= cursor'[t], Acts(t, p)',
                      \A q \in Nat : p < q /\ q <= cursor'[t] => ~Acts(t, q)'
               PROVE  strat'[t] = Effect(cmds'[control'[t][p]].action, "running")
    BY DEF EffectInv
  <2>1. t # s BY <1>4, <1>5, Shapes
  <2>2. t \in up /\ t \in Sids BY <1>2, <2>1 DEF CrossInv, BootsInv
  <2>3. cursor'[t] = cursor[t] /\ since'[t] = since[t] /\ strat'[t] = strat[t]
    BY <1>2, <1>4, <1>5, <2>1, <2>2 DEF TypeInv
  <2> QED BY <1>2, <2>2, <2>3 DEF EffectInv, Acts
<1> QED BY <1>1, <1>6, <1>7, <1>8, <1>9, <1>10

LEMMA DeliveryGone == ASSUME DeliveryInv, NEW s \in Sids, Gone(s) PROVE DeliveryInv'
<1> USE DEF DeliveryInv
<1>1. CrossInv' BY CrossGone
<1>2. /\ UNCHANGED <<boots, heard, control, cmds, applied>>
      /\ proc' = [proc EXCEPT ![s] = 0] /\ up' = up \ {s}
      /\ strat' = [strat EXCEPT ![s] = "none"]
      /\ cursor' = [cursor EXCEPT ![s] = 0] /\ since' = [since EXCEPT ![s] = 0]
  BY DEF Gone
<1>3. \A t \in Sids : t # s => /\ cursor'[t] = cursor[t] /\ since'[t] = since[t]
                               /\ strat'[t] = strat[t] /\ proc'[t] = proc[t]
  BY <1>2 DEF TypeInv, CrossInv, BootsInv, StreamsInv
<1>4. cursor'[s] = 0 /\ since'[s] = 0 /\ proc'[s] = 0
  BY <1>2 DEF TypeInv, CrossInv, BootsInv, StreamsInv
<1>5. TypeInv'
  <2>1. \A t \in Sids : cursor'[t] <= Len(control[t]) /\ since'[t] <= Len(control[t])
    <3>1. \A t \in Sids : Len(control[t]) \in Nat BY Shapes
    <3> QED BY <1>3, <1>4, <3>1 DEF TypeInv
  <2>2. since' \in [Sids -> Nat] /\ strat' \in [Sids -> {"none", "running", "stopped"}]
    BY <1>2 DEF TypeInv
  <2>3. Told' = Told BY <1>2 DEF Told
  <2> QED BY <1>2, <2>1, <2>2, <2>3 DEF TypeInv
<1>6. TodoInv' /\ OrderInv' BY <1>2, CommandsRest
<1>7. AppliedInv'
  <2> SUFFICES ASSUME NEW k \in DOMAIN applied PROVE \E p \in Nat : AppliedAt(k, p)'
    BY <1>2 DEF AppliedInv
  <2>1. PICK p \in Nat : AppliedAt(k, p) BY DEF AppliedInv
  <2>2. applied[k].sid \in Sids BY Shapes
  <2>3. AppliedAt(k, p)'
    <3>1. CASE applied[k].sid = s BY <1>2, <1>4, <2>1, <3>1 DEF AppliedAt
    <3>2. CASE applied[k].sid # s BY <1>2, <1>3, <2>1, <2>2, <3>2 DEF AppliedAt
    <3> QED BY <3>1, <3>2
  <2> QED BY <2>3
<1>8. AppliedOnce' BY <1>2 DEF AppliedOnce
<1>9. EffectInv'
  <2>1. up' \subseteq up /\ \A t \in up' : t \in Sids /\ t # s
    BY <1>2 DEF CrossInv, BootsInv
  <2>2. \A t \in up' : cursor'[t] = cursor[t] /\ since'[t] = since[t] /\ strat'[t] = strat[t]
    BY <1>3, <2>1
  <2> QED BY <1>2, <2>1, <2>2 DEF EffectInv, Acts
<1> QED BY <1>1, <1>5, <1>6, <1>7, <1>8, <1>9

\* The bridge reads one command further.  Had it carried that out before, the command
\* would be at an earlier place of the stream too.
LEMMA DeliveryCommand == ASSUME DeliveryInv, NEW s \in Sids, OnCommand(s) PROVE DeliveryInv'
<1> USE DEF DeliveryInv
<1> DEFINE n == cursor[s] + 1
           c == control[s][n]
           new == [cmd |-> c, sid |-> s, boot |-> proc[s]]
<1>1. CrossInv' BY CrossCommand
<1>2. /\ UNCHANGED <<boots, heard, proc, up, control, since, cmds>>
      /\ s \in up /\ cursor[s] < Len(control[s])
      /\ cursor' = [cursor EXCEPT ![s] = @ + 1]
      /\ strat' = [strat EXCEPT ![s] = Effect(cmds[c].action, @)]
      /\ applied' = applied \/ applied' = Append(applied, new)
  BY DEF OnCommand
<1>3. /\ cursor[s] \in Nat /\ Len(control[s]) \in Nat /\ DOMAIN control[s] = 1 .. Len(control[s])
      /\ n \in DOMAIN control[s]
  <2>1. cursor[s] \in Nat /\ Len(control[s]) \in Nat /\ DOMAIN control[s] = 1 .. Len(control[s])
    BY Shapes
  <2> QED BY <1>2, <2>1
<1>4. cursor'[s] = n /\ \A t \in Sids : t # s => cursor'[t] = cursor[t]
  BY <1>2 DEF CrossInv, StreamsInv
<1>5. proc[s] # 0 BY <1>2 DEF CrossInv, BootsInv
<1>6. /\ strat'[s] = Effect(cmds[c].action, strat[s])
      /\ \A t \in Sids : t # s => strat'[t] = strat[t]
      /\ strat' \in [Sids -> {"none", "running", "stopped"}]
  <2>1. strat[s] \in {"none", "running", "stopped"} BY DEF TypeInv
  <2>2. Effect(cmds[c].action, strat[s]) \in {"none", "running", "stopped"}
    BY <2>1 DEF Effect
  <2> HIDE DEF c
  <2> QED BY <1>2, <2>2 DEF TypeInv
<1> HIDE DEF n, c
<1>7. TypeInv'
  <2>1. \A t \in Sids : cursor'[t] <= Len(control[t])
    BY <1>2, <1>3, <1>4 DEF TypeInv, n
  <2>2. Told' = Told BY <1>2 DEF Told
  <2> QED BY <1>2, <1>6, <2>1, <2>2 DEF TypeInv
<1>8. TodoInv' /\ OrderInv' BY <1>2, CommandsRest
<1>9. /\ Len(applied) \in Nat /\ DOMAIN applied = 1 .. Len(applied)
      /\ DOMAIN applied \subseteq DOMAIN applied'
      /\ \A k \in DOMAIN applied' :
            \/ k \in DOMAIN applied /\ applied'[k] = applied[k]
            \/ k = Len(applied) + 1 /\ applied'[k] = new
  <2>1. applied \in Seq([cmd : Nat, sid : Sids, boot : Nat]) BY DEF CrossInv, StreamsInv
  <2>2. /\ DOMAIN applied = 1 .. Len(applied) /\ Len(applied) \in Nat
        /\ DOMAIN Append(applied, new) = 1 .. Len(applied) + 1
        /\ \A i \in DOMAIN applied : Append(applied, new)[i] = applied[i]
        /\ Append(applied, new)[Len(applied) + 1] = new
    BY <2>1, AppendLemma
  <2> HIDE DEF new
  <2>3. CASE applied' = applied BY <2>2, <2>3
  <2>4. CASE applied' = Append(applied, new) BY <2>2, <2>4
  <2> QED BY <1>2, <2>3, <2>4
<1>10. \A k \in DOMAIN applied :
          \E p \in Nat : /\ p \in DOMAIN control[applied[k].sid]
                         /\ control[applied[k].sid][p] = applied[k].cmd
                         /\ proc[applied[k].sid] # 0 => p <= cursor[applied[k].sid]
  BY DEF AppliedInv, AppliedAt
<1>11. new.cmd = c /\ new.sid = s BY DEF new
<1> HIDE DEF new
<1>12. AppliedInv'
  <2> SUFFICES ASSUME NEW k \in DOMAIN applied' PROVE \E p \in Nat : AppliedAt(k, p)'
    BY DEF AppliedInv
  <2>1. CASE k \in DOMAIN applied /\ applied'[k] = applied[k]
    <3>1. PICK p \in Nat : /\ p \in DOMAIN control[applied[k].sid]
                           /\ control[applied[k].sid][p] = applied[k].cmd
                           /\ proc[applied[k].sid] # 0 => p <= cursor[applied[k].sid]
      BY <1>10, <2>1
    <3>2. applied[k].sid \in Sids BY <2>1, Shapes
    <3>3. cursor'[applied[k].sid] = cursor[applied[k].sid]
          \/ (applied[k].sid = s /\ cursor'[s] = cursor[s] + 1)
      BY <1>4, <3>2 DEF n
    <3>4. proc[applied[k].sid] # 0 => p <= cursor'[applied[k].sid] BY <1>3, <3>1, <3>3
    <3>5. AppliedAt(k, p)' BY <1>2, <2>1, <3>1, <3>4 DEF AppliedAt
    <3> QED BY <3>5
  <2>2. CASE applied'[k] = new
    <3>1. n \in Nat /\ n \in DOMAIN control[s] /\ control[s][n] = c
      BY <1>3 DEF c, n
    <3>2. applied'[k].sid = s /\ applied'[k].cmd = c BY <1>11, <2>2
    <3>3. PICK p \in Nat : p = n BY <3>1
    <3>4. AppliedAt(k, p)' BY <1>2, <1>4, <3>1, <3>2, <3>3 DEF AppliedAt
    <3> QED BY <3>4
  <2> QED BY <1>9, <2>1, <2>2
<1>13. \A k \in DOMAIN applied : ~(applied[k].cmd = c /\ applied[k].sid = s)
  <2> SUFFICES ASSUME NEW k \in DOMAIN applied, applied[k].cmd = c, applied[k].sid = s
               PROVE  FALSE
    OBVIOUS
  <2>1. PICK p \in Nat : p \in DOMAIN control[s] /\ control[s][p] = c /\ p <= cursor[s]
    BY <1>5, <1>10
  <2>2. p = n BY <1>3, <2>1 DEF OrderInv, OrderOf, c
  <2> QED BY <1>3, <2>1, <2>2 DEF n
<1>14. AppliedOnce'
  <2> SUFFICES ASSUME NEW k \in DOMAIN applied', NEW l \in DOMAIN applied',
                      applied'[k].cmd = applied'[l].cmd, applied'[k].sid = applied'[l].sid
               PROVE  k = l
    BY DEF AppliedOnce
  <2>1. CASE k \in DOMAIN applied /\ l \in DOMAIN applied
             /\ applied'[k] = applied[k] /\ applied'[l] = applied[l]
    BY <2>1 DEF AppliedOnce
  <2>2. CASE applied'[k] = new /\ l \in DOMAIN applied /\ applied'[l] = applied[l]
    BY <1>11, <1>13, <2>2
  <2>3. CASE applied'[l] = new /\ k \in DOMAIN applied /\ applied'[k] = applied[k]
    BY <1>11, <1>13, <2>3
  <2>4. CASE k = Len(applied) + 1 /\ l = Len(applied) + 1 BY <2>4
  <2> QED BY <1>9, <2>1, <2>2, <2>3, <2>4
<1>15. EffectInv'
  <2> SUFFICES ASSUME NEW t \in up, strat'[t] # "none", NEW p \in Nat,
                      since[t] < p, p <= cursor'[t], Acts(t, p),
                      \A q \in Nat : p < q /\ q <= cursor'[t] => ~Acts(t, q)
               PROVE  strat'[t] = Effect(cmds[control[t][p]].action, "running")
    BY <1>2 DEF EffectInv, Acts
  <2>1. t \in Sids BY DEF CrossInv, BootsInv
  <2>2. CASE t # s
    BY <1>4, <1>6, <2>1, <2>2 DEF EffectInv
  <2>3. CASE t = s /\ p = n
    <3>1. cmds[c].action \in Lifecycle BY <2>3 DEF Acts, c
    <3>2. strat'[s] = Effect(cmds[c].action, strat[s]) BY <1>6
    <3>3. Effect(cmds[c].action, strat[s]) = Effect(cmds[c].action, "running")
      BY <2>3, <3>1, <3>2 DEF Effect
    <3> QED BY <2>3, <3>2, <3>3 DEF c
  <2>4. CASE t = s /\ p # n
    <3>1. p <= cursor[s] /\ p < n /\ n \in Nat BY <1>3, <1>4, <2>4 DEF n
    <3>2. ~Acts(s, n) BY <1>3, <1>4, <2>4, <3>1
    <3>3. cmds[c].action \notin Lifecycle BY <3>2 DEF Acts, c
    <3>4. strat'[s] = strat[s] BY <1>6, <3>3 DEF Effect
    <3>5. \A q \in Nat : p < q /\ q <= cursor[s] => ~Acts(s, q) BY <1>3, <1>4, <2>4 DEF n
    <3> QED BY <1>2, <2>4, <3>1, <3>4, <3>5 DEF EffectInv
  <2> QED BY <2>2, <2>3, <2>4
<1> QED BY <1>1, <1>7, <1>8, <1>12, <1>14, <1>15

-----------------------------------------------------------------------------
(* The notifier and the CLI.                                               *)

LEMMA DeliveryHear == ASSUME DeliveryInv, Hear PROVE DeliveryInv'
<1> USE DEF DeliveryInv
<1>1. CrossInv' BY CrossHear
<1>2. UNCHANGED <<boots, proc, up, strat, control, cursor, since, cmds, applied>> BY DEF Hear
<1>3. TypeInv'
  <2>1. PICK i \in Told \ heard : heard' = heard \cup {i} BY DEF Hear
  <2>2. Told' = Told BY <1>2 DEF Told
  <2> QED BY <1>2, <2>1, <2>2 DEF TypeInv
<1>4. TodoInv' /\ OrderInv' BY <1>2, CommandsRest
<1> QED BY <1>1, <1>2, <1>3, <1>4 DEF AppliedInv, AppliedAt, AppliedOnce, EffectInv, Acts

\* A step of commands under way: each keeps what it is, an ended one stays ended.
Advanced(d) ==
    /\ cmds'[d] \in Commands
    /\ cmds'[d].action = cmds[d].action /\ cmds'[d].to = cmds[d].to
    /\ cmds'[d].before = cmds[d].before
    /\ cmds[d].pc # "publishing" => cmds'[d].pc # "publishing"

\* Stream s got c, or nothing; c was not in it, and belongs there.
Added(s, c) ==
    \/ control'[s] = control[s]
    \/ /\ control'[s] = Append(control[s], c)
       /\ cmds[c].pc = "publishing"
       /\ \A k \in DOMAIN control[s] : control[s][k] # c
       /\ cmds[c].action \in Lifecycle => cmds[c].to = s

LEMMA DeliveryAdvanced ==
    ASSUME DeliveryInv, CrossInv', UNCHANGED <<boots, proc, up, strat, cursor, since, applied>>,
           heard' \subseteq Told, Len(cmds') = Len(cmds), DOMAIN cmds' = DOMAIN cmds,
           \A d \in DOMAIN cmds : Advanced(d),
           NEW c \in DOMAIN cmds, \A s \in Sids : Added(s, c),
           TodoInv'
    PROVE  DeliveryInv'
<1> USE DEF DeliveryInv
<1>1. ASSUME NEW s \in Sids
      PROVE  /\ Len(control[s]) \in Nat /\ DOMAIN control[s] = 1 .. Len(control[s])
             /\ Len(control'[s]) \in Nat /\ Len(control[s]) <= Len(control'[s])
             /\ DOMAIN control'[s] = 1 .. Len(control'[s])
             /\ \A k \in DOMAIN control[s] : /\ k \in DOMAIN control'[s]
                                             /\ control'[s][k] = control[s][k]
                                             /\ control[s][k] \in DOMAIN cmds
             /\ \A k \in DOMAIN control'[s] :
                   \/ k \in DOMAIN control[s]
                   \/ k = Len(control[s]) + 1 /\ control'[s][k] = c
  <2>1. control[s] \in Seq(DOMAIN cmds) BY Shapes
  <2>2. /\ Len(Append(control[s], c)) = Len(control[s]) + 1 /\ Len(control[s]) \in Nat
        /\ DOMAIN control[s] = 1 .. Len(control[s])
        /\ DOMAIN Append(control[s], c) = 1 .. Len(control[s]) + 1
        /\ \A i \in DOMAIN control[s] : Append(control[s], c)[i] = control[s][i]
        /\ Append(control[s], c)[Len(control[s]) + 1] = c
    BY <2>1, AppendLemma
  <2>3. \A k \in DOMAIN control[s] : control[s][k] \in DOMAIN cmds BY <2>1, SeqLemma
  <2>4. CASE control'[s] = control[s] BY <2>2, <2>3, <2>4
  <2>5. CASE control'[s] = Append(control[s], c) BY <2>2, <2>3, <2>5
  <2> QED BY <2>4, <2>5 DEF Added
<1>2. TypeInv'
  <2>1. \A s \in Sids : cursor[s] <= Len(control'[s]) /\ since[s] <= Len(control'[s])
    <3> TAKE s \in Sids
    <3>1. cursor[s] \in Nat /\ since[s] \in Nat BY Shapes DEF TypeInv
    <3> QED BY <1>1, <3>1 DEF TypeInv
  <2>2. \A d \in DOMAIN cmds' : cmds'[d] \in Commands BY DEF Advanced
  <2>3. Told' = Told BY DEF Told
  <2> QED BY <2>1, <2>2, <2>3 DEF TypeInv
<1>3. \A d \in DOMAIN cmds : cmds[d].before \subseteq Ended BY DEF TodoInv, TodoOf
<1>4. OrderInv'
  <2> SUFFICES ASSUME NEW s \in Sids
               PROVE  /\ OrderOf(control[s])'
                      /\ \A i \in DOMAIN control'[s] :
                            cmds'[control'[s][i]].action \in Lifecycle =>
                                cmds'[control'[s][i]].to = s
    BY DEF OrderInv
  <2>1. OrderOf(control[s]) BY DEF OrderInv
  <2>2. c \notin Ended \/ control'[s] = control[s] BY DEF Added, Ended
  <2>3. ASSUME NEW i \in DOMAIN control'[s], NEW j \in DOMAIN control'[s],
               control'[s][i] = control'[s][j]
        PROVE  i = j
    <3>1. CASE control'[s] = control[s] BY <2>1, <2>3, <3>1 DEF OrderOf
    <3>2. CASE \A k \in DOMAIN control[s] : control[s][k] # c
      BY <1>1, <2>1, <2>3, <3>2 DEF OrderOf
    <3> QED BY <3>1, <3>2 DEF Added
  <2>4. ASSUME NEW i \in DOMAIN control'[s], NEW j \in DOMAIN control'[s],
               control'[s][i] \in cmds'[control'[s][j]].before
        PROVE  i < j
    <3>1. control'[s][j] \in DOMAIN cmds BY <1>1
    <3>2. cmds'[control'[s][j]].before = cmds[control'[s][j]].before
          /\ cmds[control'[s][j]].before \subseteq Ended
      BY <1>3, <3>1 DEF Advanced
    <3>3. CASE i \in DOMAIN control[s] /\ j \in DOMAIN control[s]
      BY <1>1, <2>1, <2>4, <3>2, <3>3 DEF OrderOf
    <3>4. CASE i \notin DOMAIN control[s]
      <4>1. control'[s][i] = c /\ control'[s] # control[s] BY <1>1, <3>4
      <4> QED BY <2>2, <2>4, <3>2, <4>1
    <3>5. CASE i \in DOMAIN control[s] /\ j \notin DOMAIN control[s]
      BY <1>1, <3>5
    <3> QED BY <3>3, <3>4, <3>5
  <2>5. ASSUME NEW i \in DOMAIN control'[s], cmds'[control'[s][i]].action \in Lifecycle
        PROVE  cmds'[control'[s][i]].to = s
    <3>1. control'[s][i] \in DOMAIN cmds BY <1>1
    <3>2. /\ cmds'[control'[s][i]].to = cmds[control'[s][i]].to
          /\ cmds[control'[s][i]].action \in Lifecycle
      BY <2>5, <3>1 DEF Advanced
    <3>3. CASE i \in DOMAIN control[s] BY <1>1, <3>2, <3>3 DEF OrderInv
    <3>4. CASE i \notin DOMAIN control[s]
      <4>1. control'[s][i] = c /\ control'[s] # control[s] BY <1>1, <3>4
      <4> QED BY <3>2, <4>1 DEF Added
    <3> QED BY <3>3, <3>4
  <2> QED BY <2>3, <2>4, <2>5 DEF OrderOf
<1>5. AppliedInv'
  <2> SUFFICES ASSUME NEW k \in DOMAIN applied PROVE \E p \in Nat : AppliedAt(k, p)'
    BY DEF AppliedInv
  <2>1. PICK p \in Nat : AppliedAt(k, p) BY DEF AppliedInv
  <2>2. applied[k].sid \in Sids BY Shapes
  <2>3. AppliedAt(k, p)' BY <1>1, <2>1, <2>2 DEF AppliedAt
  <2> QED BY <2>3
<1>6. AppliedOnce' BY DEF AppliedOnce
<1>7. EffectInv'
  <2>1. ASSUME NEW s \in up, NEW p \in Nat, 0 < p, p <= cursor[s]
        PROVE  /\ control'[s][p] = control[s][p] /\ Acts(s, p)' = Acts(s, p)
               /\ cmds'[control[s][p]].action = cmds[control[s][p]].action
    <3>1. s \in Sids BY DEF CrossInv, BootsInv
    <3>2. cursor[s] \in Nat BY <3>1, Shapes
    <3>3. p \in DOMAIN control[s] BY <1>1, <2>1, <3>1, <3>2 DEF TypeInv
    <3>4. /\ control'[s][p] = control[s][p]
          /\ cmds'[control[s][p]].action = cmds[control[s][p]].action
      BY <1>1, <3>1, <3>3 DEF Advanced
    <3> QED BY <3>4 DEF Acts
  <2> SUFFICES ASSUME NEW s \in up, strat[s] # "none", NEW p \in Nat,
                      since[s] < p, p <= cursor[s], Acts(s, p)',
                      \A q \in Nat : p < q /\ q <= cursor[s] => ~Acts(s, q)'
               PROVE  strat[s] = Effect(cmds'[control'[s][p]].action, "running")
    BY DEF EffectInv
  <2>2. since[s] \in Nat BY DEF CrossInv, BootsInv, TypeInv
  <2>3. /\ control'[s][p] = control[s][p] /\ Acts(s, p)
        /\ cmds'[control[s][p]].action = cmds[control[s][p]].action
    BY <2>1, <2>2
  <2>4. \A q \in Nat : p < q /\ q <= cursor[s] => ~Acts(s, q)
    BY <2>1
  <2> QED BY <2>3, <2>4 DEF EffectInv
<1> QED BY <1>2, <1>4, <1>5, <1>6, <1>7

\* What a restart or a failing XADD leaves of a command.
LEMMA FailedIsCommand ==
    ASSUME NEW d \in Commands, NEW e, e = [d EXCEPT !.pc = "failed", !.todo = <<>>]
    PROVE  /\ e \in Commands /\ e.todo = <<>> /\ e.pc = "failed"
           /\ e.action = d.action /\ e.to = d.to /\ e.before = d.before
<1>1. <<>> \in Seq(Sids) OBVIOUS
<1>2. e = [who |-> d.who, action |-> d.action, to |-> d.to, todo |-> <<>>, pc |-> "failed",
           knew |-> d.knew, at |-> d.at, before |-> d.before]
  BY DEF Commands
<1> QED BY <1>1, <1>2 DEF Commands

LEMMA DeliveryRestart == ASSUME DeliveryInv, Restart PROVE DeliveryInv'
<1> USE DEF DeliveryInv
<1>1. CrossInv' BY CrossRestart
<1>2. /\ UNCHANGED <<boots, proc, up, strat, control, cursor, since, applied>>
      /\ heard' = Told
  BY DEF Restart
<1>3. DOMAIN cmds' = DOMAIN cmds /\ Len(cmds') = Len(cmds)
  <2>1. DOMAIN cmds' = DOMAIN cmds BY DEF Restart
  <2>2. /\ DOMAIN cmds = 1 .. Len(cmds) /\ Len(cmds) \in Nat
        /\ DOMAIN cmds' = 1 .. Len(cmds') /\ Len(cmds') \in Nat
    BY <1>1, Shapes DEF CrossInv, CmdsShaped
  <2> QED BY <2>1, <2>2
<1>4. ASSUME NEW c \in DOMAIN cmds
      PROVE  /\ Advanced(c)
             /\ cmds'[c] = cmds[c] \/ (cmds'[c].pc # "publishing" /\ cmds'[c].todo = <<>>)
  <2>1. cmds[c] \in Commands BY DEF TypeInv
  <2>2. CASE cmds'[c] = cmds[c] BY <2>1, <2>2 DEF Advanced
  <2>3. CASE cmds'[c] = [cmds[c] EXCEPT !.pc = "failed", !.todo = <<>>]
    BY <2>1, <2>3, FailedIsCommand DEF Advanced
  <2> QED BY <2>2, <2>3 DEF Restart
<1>5. Ended \subseteq Ended' BY <1>3, <1>4 DEF Ended, Advanced
<1>6. TodoInv'
  <2> SUFFICES ASSUME NEW c \in DOMAIN cmds PROVE TodoOf(c)'
    BY <1>3 DEF TodoInv
  <2>1. TodoOf(c) /\ cmds'[c].before = cmds[c].before BY <1>4 DEF TodoInv, Advanced
  <2>2. CASE cmds'[c] = cmds[c] BY <1>2, <1>5, <2>1, <2>2 DEF TodoOf
  <2>3. CASE cmds'[c].pc # "publishing" /\ cmds'[c].todo = <<>>
    BY <1>5, <2>1, <2>3 DEF TodoOf
  <2> QED BY <1>4, <2>2, <2>3
<1>7. CASE DOMAIN cmds = {}
  <2>1. cmds' = cmds
    BY <1>1, <1>3, <1>7 DEF CrossInv, CmdsShaped
  <2>2. TypeInv' BY <1>2, <1>7, <2>1 DEF TypeInv, Told
  <2> QED BY <1>1, <1>2, <1>6, <2>1, <2>2 DEF OrderInv, OrderOf, AppliedInv, AppliedAt,
          AppliedOnce, EffectInv, Acts
<1>8. CASE DOMAIN cmds # {}
  <2>1. PICK c \in DOMAIN cmds : TRUE BY <1>8
  <2>2. \A s \in Sids : Added(s, c) BY <1>2 DEF Added
  <2> QED BY <1>1, <1>2, <1>3, <1>4, <1>6, <2>2, DeliveryAdvanced
<1> QED BY <1>7, <1>8

\* The command whose XADD returns or raises: c goes to its first strategy, or nowhere.
LEMMA FirstOfTodo ==
    ASSUME DeliveryInv, NEW c \in DOMAIN cmds, cmds[c].pc = "publishing"
    PROVE  LET todo == cmds[c].todo
           IN  /\ todo \in Seq(Sids) /\ todo # <<>> /\ Head(todo) \in Sids
               /\ Len(todo) \in Nat \ {0} /\ DOMAIN todo = 1 .. Len(todo) /\ todo[1] = Head(todo)
               /\ \A k \in DOMAIN control[Head(todo)] : control[Head(todo)][k] # c
               /\ cmds[c].action \in Lifecycle => cmds[c].to = Head(todo)
<1> DEFINE todo == cmds[c].todo
<1>1. todo \in Seq(Sids) BY DEF DeliveryInv, TypeInv, Commands
<1>2. TodoOf(c) BY DEF DeliveryInv, TodoInv
<1>3. todo # <<>> BY <1>2 DEF TodoOf
<1>4. /\ Head(todo) \in Sids /\ todo[1] = Head(todo)
      /\ Len(todo) \in Nat \ {0} /\ DOMAIN todo = 1 .. Len(todo)
  <2> HIDE DEF todo
  <2> QED BY <1>1, <1>3
<1>5. 1 \in DOMAIN todo
  <2> HIDE DEF todo
  <2> QED BY <1>4
<1>6. \A i \in DOMAIN todo : \A k \in DOMAIN control[todo[i]] : control[todo[i]][k] # c
  BY <1>2 DEF TodoOf
<1>7. cmds[c].action \in Lifecycle => \A i \in DOMAIN todo : todo[i] = cmds[c].to
  BY <1>2 DEF TodoOf
<1> HIDE DEF todo
<1>8. /\ \A k \in DOMAIN control[Head(todo)] : control[Head(todo)][k] # c
      /\ cmds[c].action \in Lifecycle => cmds[c].to = Head(todo)
  BY <1>4, <1>5, <1>6, <1>7
<1> QED BY <1>1, <1>3, <1>4, <1>8 DEF todo

LEMMA TailLemma ==
    ASSUME NEW S, NEW q \in Seq(S), q # <<>>
    PROVE  /\ Tail(q) \in Seq(S) /\ Len(q) \in Nat /\ DOMAIN q = 1 .. Len(q)
           /\ DOMAIN Tail(q) = 1 .. Len(q) - 1
           /\ \A i \in DOMAIN Tail(q) : i + 1 \in DOMAIN q /\ Tail(q)[i] = q[i + 1]
OBVIOUS

\* One command moved on: the others have to be looked at only where they may have
\* been added to a stream, which they were not.
LEMMA DeliveryMoved ==
    ASSUME DeliveryInv, CrossInv', NEW c \in DOMAIN cmds, cmds[c].pc = "publishing",
           UNCHANGED <<boots, heard, proc, up, strat, cursor, since, applied>>,
           NEW e \in Commands, cmds' = [cmds EXCEPT ![c] = e],
           e.action = cmds[c].action, e.to = cmds[c].to, e.before = cmds[c].before,
           control' \in {control, [control EXCEPT ![Head(cmds[c].todo)] =
                                      Append(control[Head(cmds[c].todo)], c)]},
           e.pc = "publishing" <=> e.todo # <<>>,
           \A i, j \in DOMAIN e.todo : e.todo[i] = e.todo[j] => i = j,
           \A i \in DOMAIN e.todo :
              e.todo[i] # Head(cmds[c].todo) /\ \E j \in DOMAIN cmds[c].todo : e.todo[i] = cmds[c].todo[j]
    PROVE  DeliveryInv'
<1> USE DEF DeliveryInv
<1> DEFINE h == Head(cmds[c].todo)
<1>1. /\ h \in Sids /\ \A k \in DOMAIN control[h] : control[h][k] # c
      /\ cmds[c].action \in Lifecycle => cmds[c].to = h
  BY FirstOfTodo
<1>2. /\ DOMAIN cmds' = DOMAIN cmds /\ cmds'[c] = e
      /\ \A d \in DOMAIN cmds : d # c => cmds'[d] = cmds[d]
  OBVIOUS
<1>3. Len(cmds') = Len(cmds) BY <1>2, Shapes DEF CrossInv, CmdsShaped
<1>4. \A d \in DOMAIN cmds : Advanced(d)
  <2> TAKE d \in DOMAIN cmds
  <2>1. cmds[d] \in Commands BY DEF TypeInv
  <2>2. CASE d = c BY <1>2, <2>2 DEF Advanced
  <2>3. CASE d # c BY <1>2, <2>1, <2>3 DEF Advanced
  <2> QED BY <2>2, <2>3
<1>5. \A s \in Sids : s # h => control'[s] = control[s]
  BY DEF CrossInv, StreamsInv
<1>6. control'[h] = control[h] \/ control'[h] = Append(control[h], c)
  <2>1. control \in [Sids -> Seq(DOMAIN cmds)] BY DEF CrossInv, StreamsInv
  <2> QED BY <1>1, <2>1
<1>7. \A s \in Sids : Added(s, c)
  <2> TAKE s \in Sids
  <2> HIDE DEF h
  <2>1. CASE s = h BY <1>1, <1>6, <2>1 DEF Added
  <2>2. CASE s # h BY <1>5, <2>2 DEF Added
  <2> QED BY <2>1, <2>2
<1> HIDE DEF h
<1>8. Ended \subseteq Ended' BY <1>2, <1>4 DEF Ended, Advanced
<1>9. ASSUME NEW s \in Sids, NEW d \in DOMAIN cmds, d # c,
             \A k \in DOMAIN control[s] : control[s][k] # d
      PROVE  \A k \in DOMAIN control'[s] : control'[s][k] # d
  <2>1. control[s] \in Seq(DOMAIN cmds) BY Shapes
  <2>2. /\ DOMAIN control[s] = 1 .. Len(control[s]) /\ Len(control[s]) \in Nat
        /\ DOMAIN Append(control[s], c) = 1 .. Len(control[s]) + 1
        /\ \A i \in DOMAIN control[s] : Append(control[s], c)[i] = control[s][i]
        /\ Append(control[s], c)[Len(control[s]) + 1] = c
    BY <2>1, AppendLemma
  <2>3. CASE control'[s] = control[s] BY <1>9, <2>3
  <2>4. CASE control'[s] = Append(control[s], c) BY <1>9, <2>2, <2>4
  <2> QED BY <1>5, <1>6, <2>3, <2>4
<1>10. TodoInv'
  <2> SUFFICES ASSUME NEW d \in DOMAIN cmds PROVE TodoOf(d)'
    BY <1>2 DEF TodoInv
  <2>1. TodoOf(d) BY DEF TodoInv
  <2>2. CASE d = c
    <3>1. TodoOf(c) BY DEF TodoInv
    <3>2. \A i \in DOMAIN e.todo : \A k \in DOMAIN control'[e.todo[i]] : control'[e.todo[i]][k] # c
      <4> TAKE i \in DOMAIN e.todo
      <4>1. PICK j \in DOMAIN cmds[c].todo : e.todo[i] = cmds[c].todo[j] OBVIOUS
      <4>2. \A k \in DOMAIN control[e.todo[i]] : control[e.todo[i]][k] # c
        BY <3>1, <4>1 DEF TodoOf
      <4>3. e.todo[i] \in Sids /\ e.todo[i] # h
        <5>1. e.todo \in Seq(Sids) BY DEF Commands
        <5> QED BY <5>1, SeqLemma DEF h
      <4> QED BY <1>5, <4>2, <4>3
    <3>3. e.action \in Lifecycle => \A i \in DOMAIN e.todo : e.todo[i] = e.to
      BY <3>1 DEF TodoOf
    <3>4. e.before \subseteq Ended' BY <1>8, <3>1 DEF TodoOf
    <3> QED BY <1>2, <2>2, <3>2, <3>3, <3>4 DEF TodoOf
  <2>3. CASE d # c
    <3>1. cmds'[d] = cmds[d] /\ cmds[d].todo \in Seq(Sids) BY <1>2, <2>3 DEF TypeInv, Commands
    <3>2. \A i \in DOMAIN cmds[d].todo : cmds[d].todo[i] \in Sids BY <3>1, SeqLemma
    <3>3. \A i \in DOMAIN cmds[d].todo : \A k \in DOMAIN control'[cmds[d].todo[i]] :
              control'[cmds[d].todo[i]][k] # d
      BY <1>9, <2>1, <2>3, <3>2 DEF TodoOf
    <3>4. cmds'[d].before \subseteq Ended' BY <1>8, <2>1, <3>1 DEF TodoOf
    <3>5. /\ cmds'[d].pc = "publishing" <=> cmds'[d].todo # <<>>
          /\ \A i, j \in DOMAIN cmds'[d].todo : cmds'[d].todo[i] = cmds'[d].todo[j] => i = j
          /\ cmds'[d].action \in Lifecycle =>
                \A i \in DOMAIN cmds'[d].todo : cmds'[d].todo[i] = cmds'[d].to
      BY <2>1, <3>1 DEF TodoOf
    <3>6. \A i \in DOMAIN cmds'[d].todo : \A k \in DOMAIN control'[cmds'[d].todo[i]] :
              control'[cmds'[d].todo[i]][k] # d
      <4> TAKE i \in DOMAIN cmds'[d].todo
      <4>1. i \in DOMAIN cmds[d].todo /\ cmds'[d].todo[i] = cmds[d].todo[i] BY <3>1
      <4>2. \A k \in DOMAIN control'[cmds[d].todo[i]] : control'[cmds[d].todo[i]][k] # d
        BY <3>3, <4>1
      <4> QED BY <4>1, <4>2
    <3> QED BY <3>4, <3>5, <3>6 DEF TodoOf
  <2> QED BY <2>2, <2>3
<1>11. heard' \subseteq Told BY DEF TypeInv
<1> QED BY <1>2, <1>3, <1>4, <1>7, <1>10, <1>11, DeliveryAdvanced

LEMMA DeliveryXadd == ASSUME DeliveryInv, NEW c \in DOMAIN cmds, Xadd(c) PROVE DeliveryInv'
<1> DEFINE todo == cmds[c].todo
           e == [cmds[c] EXCEPT !.todo = Tail(@),
                                !.pc = IF Tail(cmds[c].todo) = <<>> THEN "sent" ELSE @]
<1>1. CrossInv' BY CrossXadd DEF DeliveryInv
<1>2. /\ UNCHANGED <<boots, heard, proc, up, strat, cursor, since, applied>>
      /\ cmds[c].pc = "publishing"
  BY DEF Xadd
<1>3. cmds' = [cmds EXCEPT ![c] = e] BY DEF Xadd
<1>4. control' = [control EXCEPT ![Head(cmds[c].todo)] = Append(control[Head(cmds[c].todo)], c)]
  BY DEF Xadd
<1>5. cmds[c] \in Commands BY DEF DeliveryInv, TypeInv
<1>6. /\ todo \in Seq(Sids) /\ todo # <<>> /\ todo[1] = Head(todo)
      /\ Len(todo) \in Nat \ {0} /\ DOMAIN todo = 1 .. Len(todo)
  BY <1>2, FirstOfTodo
<1>7. /\ Tail(todo) \in Seq(Sids) /\ DOMAIN Tail(todo) = 1 .. Len(todo) - 1
      /\ \A i \in DOMAIN Tail(todo) : i + 1 \in DOMAIN todo /\ Tail(todo)[i] = todo[i + 1]
  <2> HIDE DEF todo
  <2> QED BY <1>6, TailLemma
<1>8. /\ e.todo = Tail(todo) /\ e \in Commands
      /\ e.action = cmds[c].action /\ e.to = cmds[c].to /\ e.before = cmds[c].before
      /\ e.pc = IF Tail(todo) = <<>> THEN "sent" ELSE "publishing"
  BY <1>2, <1>5, <1>7 DEF Commands
<1>9. \A i, j \in DOMAIN todo : todo[i] = todo[j] => i = j
  BY DEF DeliveryInv, TodoInv, TodoOf
<1> HIDE DEF todo, e
<1>10. /\ \A i, j \in DOMAIN e.todo : e.todo[i] = e.todo[j] => i = j
       /\ \A i \in DOMAIN e.todo : /\ e.todo[i] # Head(todo)
                                   /\ \E j \in DOMAIN todo : e.todo[i] = todo[j]
  <2>1. ASSUME NEW i \in DOMAIN e.todo, NEW j \in DOMAIN e.todo, e.todo[i] = e.todo[j]
        PROVE  i = j
    <3>1. i \in Int /\ j \in Int /\ i + 1 = j + 1 BY <1>6, <1>7, <1>8, <1>9, <2>1
    <3> QED BY <3>1
  <2>2. ASSUME NEW i \in DOMAIN e.todo
        PROVE  e.todo[i] # Head(todo) /\ \E j \in DOMAIN todo : e.todo[i] = todo[j]
    <3>1. i \in Nat \ {0} /\ i + 1 \in DOMAIN todo /\ e.todo[i] = todo[i + 1]
      BY <1>6, <1>7, <1>8
    <3>2. 1 \in DOMAIN todo /\ i + 1 # 1 BY <1>6, <3>1
    <3> QED BY <1>6, <1>9, <3>1, <3>2
  <2> QED BY <2>1, <2>2
<1>11. e.pc = "publishing" <=> e.todo # <<>> BY <1>8
<1> QED BY <1>1, <1>2, <1>3, <1>4, <1>8, <1>10, <1>11, DeliveryMoved DEF todo

LEMMA DeliveryXaddFails ==
    ASSUME DeliveryInv, NEW c \in DOMAIN cmds, XaddFails(c) PROVE DeliveryInv'
<1> DEFINE e == [cmds[c] EXCEPT !.pc = "failed", !.todo = <<>>]
<1>1. CrossInv' BY CrossXaddFails DEF DeliveryInv
<1>2. /\ UNCHANGED <<boots, heard, proc, up, strat, cursor, since, applied>>
      /\ cmds[c].pc = "publishing"
  BY DEF XaddFails
<1>3. cmds' = [cmds EXCEPT ![c] = e] BY DEF XaddFails
<1>4. control' \in {control, [control EXCEPT ![Head(cmds[c].todo)] =
                                  Append(control[Head(cmds[c].todo)], c)]}
  BY DEF XaddFails
<1>5. cmds[c] \in Commands BY DEF DeliveryInv, TypeInv
<1>6. /\ e \in Commands /\ e.todo = <<>> /\ e.pc = "failed"
      /\ e.action = cmds[c].action /\ e.to = cmds[c].to /\ e.before = cmds[c].before
  BY <1>5, FailedIsCommand
<1> HIDE DEF e
<1>7. DOMAIN e.todo = {} BY <1>6
<1> QED BY <1>1, <1>2, <1>3, <1>4, <1>6, <1>7, DeliveryMoved

\* The strategies a fan-out lists: each once.
LEMMA ListedOnce ==
    ASSUME CrossInv, NEW A \in SUBSET DOMAIN boots,
           \A i, j \in A : boots[i].sid = boots[j].sid => i = j,
           NEW todo \in Listed(A)
    PROVE  /\ todo \in Seq(Sids)
           /\ \A i, j \in DOMAIN todo : todo[i] = todo[j] => i = j
<1>1. boots \in Seq(Pods) /\ DOMAIN boots = 1 .. Len(boots) /\ Len(boots) \in Nat BY Shapes
<1>2. \A i \in DOMAIN boots : boots[i].sid \in Sids
  <2>1. \A i \in DOMAIN boots : boots[i] \in Pods BY <1>1, SeqLemma
  <2> QED BY <2>1 DEF Pods
<1>3. Cardinality(A) \in Nat
  <2>1. IsFiniteSet(1 .. Len(boots)) BY <1>1, FS_Interval
  <2>2. IsFiniteSet(A) BY <1>1, <2>1, FS_Subset
  <2> QED BY <2>2, FS_CardinalityType
<1>4. PICK f \in [1 .. Cardinality(A) -> A] :
          /\ \A i, j \in DOMAIN f : i < j => f[i] > f[j]
          /\ todo = [k \in DOMAIN f |-> boots[f[k]].sid]
  BY DEF Listed
<1>5. todo \in [1 .. Cardinality(A) -> Sids] BY <1>2, <1>4
<1>6. todo \in Seq(Sids) BY <1>3, <1>5, FunctionIsSeq
<1>7. ASSUME NEW i \in DOMAIN todo, NEW j \in DOMAIN todo, todo[i] = todo[j] PROVE i = j
  <2>1. i \in 1 .. Cardinality(A) /\ j \in 1 .. Cardinality(A) BY <1>4
  <2>2. f[i] \in A /\ f[j] \in A BY <2>1
  <2>3. f[i] = f[j] BY <1>4, <1>7, <2>1, <2>2
  <2>4. f[i] \in Nat BY <1>1, <2>2
  <2> QED BY <1>3, <1>4, <2>1, <2>3, <2>4
<1> QED BY <1>6, <1>7

LEMMA FanOutOnce ==
    ASSUME CrossInv, NEW todo \in FanOutTargets
    PROVE  /\ todo \in Seq(Sids)
           /\ \A i, j \in DOMAIN todo : todo[i] = todo[j] => i = j
<1> DEFINE A == NewestOfEach(Recent(Len(boots)))
<1>1. A \subseteq DOMAIN boots BY DEF NewestOfEach, Recent, Told
<1>2. \A i, j \in A : boots[i].sid = boots[j].sid => i = j
  <2>1. \A i \in DOMAIN boots : i \in Nat BY Shapes
  <2> SUFFICES ASSUME NEW i \in A, NEW j \in A, boots[i].sid = boots[j].sid PROVE i = j
    OBVIOUS
  <2>2. i <= j /\ j <= i BY DEF NewestOfEach
  <2> QED BY <1>1, <2>1, <2>2
<1>3. todo \in Listed(A) BY DEF FanOutTargets
<1> HIDE DEF A
<1> QED BY <1>1, <1>2, <1>3, ListedOnce

\* A command that begins is in no stream yet, and everything known to have ended by
\* then is done with.
LEMMA DeliveryIssue ==
    ASSUME DeliveryInv, CrossInv', NEW r \in Requests, NEW todo \in Seq(Sids), Issue(r, todo),
           \A i, j \in DOMAIN todo : todo[i] = todo[j] => i = j,
           r.to # All => todo = <<r.to>>
    PROVE  DeliveryInv'
<1> USE DEF DeliveryInv
<1> DEFINE e == [who |-> r.who, action |-> r.action, to |-> r.to, todo |-> todo,
                 pc |-> IF todo = <<>> THEN "sent" ELSE "publishing",
                 knew |-> IF r.who = "cli" THEN {} ELSE heard,
                 at |-> IF r.to = All THEN Len(boots) ELSE 0,
                 before |-> IF r.action \in Lifecycle THEN Ended ELSE {}]
           n == Len(cmds) + 1
<1>1. /\ cmds' = Append(cmds, e) /\ Len(cmds) < MaxCmds
      /\ UNCHANGED <<boots, heard, proc, up, strat, control, cursor, since, applied>>
  BY DEF Issue
<1>2. /\ r.who \in Issuers /\ r.to \in Sids \cup {All}
      /\ r.action \in Lifecycle \cup Reports \cup {"ping"}
      /\ r.to = All => r.action \in Reports
  <2>1. r \in [who : Issuers, to : Sids \cup {All},
              action : Lifecycle \cup Reports \cup {"ping"}]
    BY ControlAssumption
  <2>2. r.to = All => r.action \in Reports BY ControlAssumption
  <2> QED BY <2>1, <2>2
<1>3. e \in Commands
  <2>1. Len(boots) \in Nat /\ Len(boots) <= MaxBoots /\ DOMAIN boots = 1 .. Len(boots)
    BY Shapes DEF TypeInv
  <2>2. heard \subseteq 1 .. MaxBoots
    BY <2>1, ControlAssumption DEF CrossInv, BootsInv
  <2>3. Len(cmds) \in Nat /\ DOMAIN cmds = 1 .. Len(cmds) /\ Len(cmds) <= MaxCmds
    BY Shapes DEF TypeInv
  <2>4. Ended \subseteq 1 .. MaxCmds BY <2>3, ControlAssumption DEF Ended
  <2> QED BY <1>2, <2>1, <2>2, <2>4, ControlAssumption DEF Commands
<1>4. /\ Len(cmds') = n /\ Len(cmds) \in Nat
      /\ DOMAIN cmds = 1 .. Len(cmds) /\ DOMAIN cmds' = 1 .. n
      /\ \A c \in DOMAIN cmds : cmds'[c] = cmds[c]
      /\ cmds'[n] = e
  <2> HIDE DEF e
  <2>1. cmds \in Seq({cmds[c] : c \in DOMAIN cmds}) BY DEF CrossInv, CmdsShaped
  <2> QED BY <1>1, <2>1, AppendLemma
<1>5. /\ e.todo = todo /\ e.pc = (IF todo = <<>> THEN "sent" ELSE "publishing")
      /\ e.action = r.action /\ e.to = r.to /\ e.before \subseteq Ended
  OBVIOUS
<1> HIDE DEF e
<1>6. \A c \in DOMAIN cmds' : (c \in DOMAIN cmds /\ cmds'[c] = cmds[c]) \/ (c = n /\ cmds'[c] = e)
  BY <1>4
<1>7. \A s \in Sids : \A k \in DOMAIN control[s] :
          /\ control[s][k] \in DOMAIN cmds /\ control[s][k] # n
          /\ cmds'[control[s][k]] = cmds[control[s][k]]
  <2>1. \A s \in Sids : \A k \in DOMAIN control[s] : control[s][k] \in DOMAIN cmds BY Shapes
  <2> QED BY <1>4, <2>1
<1>8. Ended \subseteq Ended' BY <1>4 DEF Ended
<1>9. TypeInv'
  <2>1. Told' = Told BY <1>1 DEF Told
  <2>2. \A c \in DOMAIN cmds' : cmds'[c] \in Commands BY <1>3, <1>6 DEF TypeInv
  <2>3. Len(cmds') <= MaxCmds BY <1>1, <1>4, ControlAssumption
  <2> QED BY <1>1, <2>1, <2>2, <2>3 DEF TypeInv
<1>10. TodoInv'
  <2> SUFFICES ASSUME NEW c \in DOMAIN cmds' PROVE TodoOf(c)'
    BY DEF TodoInv
  <2>1. CASE c \in DOMAIN cmds /\ cmds'[c] = cmds[c]
    <3>1. TodoOf(c) BY <2>1 DEF TodoInv
    <3> QED BY <1>1, <1>8, <2>1, <3>1 DEF TodoOf
  <2>2. CASE c = n /\ cmds'[c] = e
    <3>1. \A i \in DOMAIN todo : todo[i] \in Sids BY SeqLemma
    <3>2. \A i \in DOMAIN todo : \A k \in DOMAIN control'[todo[i]] : control'[todo[i]][k] # n
      BY <1>1, <1>7, <3>1
    <3>3. e.action \in Lifecycle => \A i \in DOMAIN todo : todo[i] = e.to
      <4>1. e.action \in Lifecycle => r.to # All BY <1>2, <1>5 DEF Lifecycle, Reports
      <4>2. r.to # All => \A i \in DOMAIN todo : todo[i] = r.to OBVIOUS
      <4> QED BY <1>5, <4>1, <4>2
    <3> QED BY <1>5, <1>8, <2>2, <3>2, <3>3 DEF TodoOf
  <2> QED BY <1>6, <2>1, <2>2
<1>11. OrderInv'
  <2> SUFFICES ASSUME NEW s \in Sids
               PROVE  /\ OrderOf(control[s])'
                      /\ \A i \in DOMAIN control[s] :
                            cmds'[control[s][i]].action \in Lifecycle => cmds'[control[s][i]].to = s
    BY <1>1 DEF OrderInv
  <2>1. OrderOf(control[s]) BY DEF OrderInv
  <2>2. OrderOf(control[s])' BY <1>1, <1>7, <2>1 DEF OrderOf
  <2> QED BY <1>7, <2>2 DEF OrderInv
<1>12. AppliedInv' /\ AppliedOnce' BY <1>1 DEF AppliedInv, AppliedAt, AppliedOnce
<1>13. EffectInv'
  <2>1. ASSUME NEW s \in up, NEW p \in Nat, 0 < p, p <= cursor[s]
        PROVE  Acts(s, p)' = Acts(s, p) /\ cmds'[control[s][p]] = cmds[control[s][p]]
    <3>1. s \in Sids BY DEF CrossInv, BootsInv
    <3>2. cursor[s] \in Nat /\ Len(control[s]) \in Nat /\ DOMAIN control[s] = 1 .. Len(control[s])
      BY <3>1, Shapes
    <3>3. p \in DOMAIN control[s] BY <2>1, <3>1, <3>2 DEF TypeInv
    <3> QED BY <1>1, <1>7, <3>1, <3>3 DEF Acts
  <2> SUFFICES ASSUME NEW s \in up, strat[s] # "none", NEW p \in Nat,
                      since[s] < p, p <= cursor[s], Acts(s, p)',
                      \A q \in Nat : p < q /\ q <= cursor[s] => ~Acts(s, q)'
               PROVE  strat[s] = Effect(cmds'[control[s][p]].action, "running")
    BY <1>1 DEF EffectInv
  <2>2. since[s] \in Nat BY DEF CrossInv, BootsInv, TypeInv
  <2>3. Acts(s, p) /\ cmds'[control[s][p]] = cmds[control[s][p]] BY <2>1, <2>2
  <2>4. \A q \in Nat : p < q /\ q <= cursor[s] => ~Acts(s, q) BY <2>1
  <2> QED BY <2>3, <2>4 DEF EffectInv
<1> QED BY <1>9, <1>10, <1>11, <1>12, <1>13

LEMMA DeliveryRequest ==
    ASSUME DeliveryInv, NEW r \in Requests, Slash(r) \/ Cli(r) PROVE DeliveryInv'
<1>1. CrossInv /\ CrossInv' BY CrossRequest DEF DeliveryInv
<1>2. \/ /\ r.to # All /\ Issue(r, <<r.to>>)
      \/ \E todo \in FanOutTargets : r.to = All /\ Issue(r, todo)
  <2>1. CASE Slash(r)
    <3>1. r.to # All BY <2>1, ControlAssumption DEF Slash, ChannelModes
    <3> QED BY <2>1, <3>1 DEF Slash
  <2>2. CASE Cli(r) BY <2>2 DEF Cli
  <2> QED BY <2>1, <2>2
<1>3. CASE r.to # All /\ Issue(r, <<r.to>>)
  <2>1. r.to \in Sids BY <1>3, ControlAssumption
  <2>2. <<r.to>> \in Seq(Sids) /\ \A i, j \in DOMAIN <<r.to>> : i = j BY <2>1
  <2> QED BY <1>1, <1>3, <2>2, DeliveryIssue
<1>4. CASE \E todo \in FanOutTargets : r.to = All /\ Issue(r, todo)
  <2>1. PICK todo \in FanOutTargets : r.to = All /\ Issue(r, todo) BY <1>4
  <2>2. /\ todo \in Seq(Sids)
        /\ \A i, j \in DOMAIN todo : todo[i] = todo[j] => i = j
    BY <1>1, FanOutOnce
  <2> QED BY <1>1, <2>1, <2>2, DeliveryIssue
<1> QED BY <1>2, <1>3, <1>4

-----------------------------------------------------------------------------
LEMMA DeliveryStep == DeliveryInv /\ [Next]_vars => DeliveryInv'
<1> SUFFICES ASSUME DeliveryInv, [Next]_vars PROVE DeliveryInv'
  OBVIOUS
<1>1. CASE UNCHANGED vars
  <2>1. CrossInv' BY <1>1, CrossStep DEF DeliveryInv
  <2>2. Told' = Told BY <1>1 DEF vars, Told
  <2>3. TodoInv' /\ OrderInv' BY <1>1, CommandsRest DEF vars, DeliveryInv
  <2> QED BY <1>1, <2>1, <2>2, <2>3 DEF vars, DeliveryInv, TypeInv, AppliedInv, AppliedAt,
          AppliedOnce, EffectInv, Acts
<1>2. CASE \E b \in Deployments : Boot(b) BY <1>2, DeliveryBoot
<1>3. CASE \E s \in Sids : OnStart(s) \/ OnCommand(s) \/ Gone(s)
  BY <1>3, DeliveryStart, DeliveryCommand, DeliveryGone
<1>4. CASE Hear \/ Restart BY <1>4, DeliveryHear, DeliveryRestart
<1>5. CASE \E r \in Requests : Slash(r) \/ Cli(r) BY <1>5, DeliveryRequest
<1>6. CASE \E c \in DOMAIN cmds : Xadd(c) \/ XaddFails(c)
  BY <1>6, DeliveryXadd, DeliveryXaddFails
<1> QED BY <1>1, <1>2, <1>3, <1>4, <1>5, <1>6 DEF Next

LEMMA DeliveryInvariant == Spec => []DeliveryInv
BY DeliveryInit, DeliveryStep, PTL DEF Spec

\* Registry, streams and command records keep their types: in particular no cursor of
\* a bridge is ever beyond its stream, and the operators' bounds hold.
THEOREM TypeCorrect == Spec => []TypeOK
<1>1. DeliveryInv => TypeOK BY TypesHold DEF DeliveryInv
<1> QED BY <1>1, DeliveryInvariant, PTL

\* No bridge carries a command out twice (_on_command in bridge_actor.py): neither a
\* fan-out of the CLI over repeated announces (_fan_out_command in cli.py) nor a
\* restart of the pod repeats one, whatever fails and in whatever order.
THEOREM CommandsAppliedOnce == Spec => []AppliedOnce
<1>1. DeliveryInv => AppliedOnce BY DEF DeliveryInv
<1> QED BY <1>1, DeliveryInvariant, PTL

LEMMA SubSeqLemma ==
    ASSUME NEW S, NEW q \in Seq(S), NEW m \in Nat, m <= Len(q)
    PROVE  /\ Len(SubSeq(q, m + 1, Len(q))) = Len(q) - m
           /\ \A i \in 1 .. Len(q) - m : SubSeq(q, m + 1, Len(q))[i] = q[m + i]
<1>1. Len(q) \in Nat /\ DOMAIN q = 1 .. Len(q) OBVIOUS
<1>2. \A i \in m + 1 .. Len(q) : q[i] \in S OBVIOUS
<1>3. /\ Len(SubSeq(q, m + 1, Len(q))) =
             IF m + 1 <= Len(q) THEN Len(q) - (m + 1) + 1 ELSE 0
      /\ \A i \in 1 .. Len(q) - (m + 1) + 1 :
             SubSeq(q, m + 1, Len(q))[i] = q[(m + 1) + i - 1]
  BY <1>1, <1>2, SubSeqProperties
<1> DEFINE t == SubSeq(q, m + 1, Len(q))
<1> HIDE DEF t
<1>4. Len(t) = Len(q) - m
  <2>1. Len(t) = IF m + 1 <= Len(q) THEN Len(q) - (m + 1) + 1 ELSE 0 BY <1>3 DEF t
  <2>2. CASE m + 1 <= Len(q) BY <1>1, <2>1, <2>2
  <2>3. CASE m = Len(q)
    <3>1. ~(m + 1 <= Len(q)) BY <1>1, <2>3
    <3>2. Len(t) = 0 BY <2>1, <3>1
    <3> QED BY <1>1, <2>3, <3>2
  <2>4. Len(q) \in Nat /\ m \in Nat /\ m <= Len(q) BY <1>1
  <2>5. m + 1 <= Len(q) \/ m = Len(q) BY <2>4
  <2> QED BY <2>2, <2>3, <2>5
<1>5. ASSUME NEW i \in 1 .. Len(q) - m PROVE t[i] = q[m + i]
  <2>1. i \in 1 .. Len(q) - (m + 1) + 1 /\ (m + 1) + i - 1 = m + i BY <1>1
  <2>2. t[i] = q[(m + 1) + i - 1] BY <1>3, <2>1 DEF t
  <2> QED BY <2>1, <2>2
<1> QED BY <1>4, <1>5 DEF t

\* The command that every other lifecycle command preceded is the last of them in the
\* stream, because a stream keeps the order in which outcomes were known.
LEMMA LastCommandDecides == DeliveryInv => LastWordHolds
<1> SUFFICES ASSUME DeliveryInv, NEW s \in Sids, NEW c \in DOMAIN cmds,
                    s \in up, cursor[s] = Len(control[s]), strat[s] # "none",
                    cmds[c].to = s, cmds[c].action \in Lifecycle,
                    Contains(SubSeq(control[s], since[s] + 1, Len(control[s])), c),
                    \A d \in DOMAIN cmds \ {c} :
                        cmds[d].to = s /\ cmds[d].action \in Lifecycle => d \in cmds[c].before
             PROVE  strat[s] = IF cmds[c].action = "resume" THEN "running" ELSE "stopped"
  BY DEF LastWordHolds
<1> USE DEF DeliveryInv
<1> DEFINE q == control[s]
<1>1. /\ q \in Seq(DOMAIN cmds) /\ Len(q) \in Nat /\ DOMAIN q = 1 .. Len(q)
      /\ \A k \in DOMAIN q : q[k] \in DOMAIN cmds
      /\ since[s] \in Nat /\ since[s] <= Len(q)
  BY Shapes DEF TypeInv
<1>2. /\ \A i, j \in DOMAIN q : q[i] \in cmds[q[j]].before => i < j
      /\ \A i \in DOMAIN q : cmds[q[i]].action \in Lifecycle => cmds[q[i]].to = s
  BY DEF OrderInv, OrderOf
<1>3. Contains(SubSeq(q, since[s] + 1, Len(q)), c) OBVIOUS
<1>4. \A i, j \in DOMAIN q : q[i] = q[j] => i = j BY DEF OrderInv, OrderOf
<1>5. cursor[s] = Len(q) OBVIOUS
<1> HIDE DEF q
<1>6. PICK p \in Nat : since[s] < p /\ p <= Len(q) /\ q[p] = c
  <2> DEFINE t == SubSeq(q, since[s] + 1, Len(q))
  <2>1. Len(t) = Len(q) - since[s] /\ \A i \in 1 .. Len(q) - since[s] : t[i] = q[since[s] + i]
    BY <1>1, SubSeqLemma
  <2>2. PICK i \in 1 .. Len(t) : t[i] = c BY <1>3 DEF Contains
  <2> HIDE DEF t
  <2>3. i \in 1 .. Len(q) - since[s] /\ q[since[s] + i] = c BY <2>1, <2>2
  <2>4. since[s] + i \in Nat /\ since[s] < since[s] + i /\ since[s] + i <= Len(q)
    BY <1>1, <2>3
  <2> QED BY <2>3, <2>4
<1>7. Acts(s, p) BY <1>6 DEF Acts, q
<1>8. ASSUME NEW k \in Nat, p < k, k <= cursor[s] PROVE ~Acts(s, k)
  <2> SUFFICES ASSUME Acts(s, k) PROVE FALSE
    OBVIOUS
  <2>1. k \in DOMAIN q /\ p \in DOMAIN q BY <1>1, <1>5, <1>6, <1>8
  <2>2. q[k] \in DOMAIN cmds /\ cmds[q[k]].action \in Lifecycle /\ cmds[q[k]].to = s
    BY <1>1, <1>2, <2>1 DEF Acts, q
  <2>3. q[k] # c BY <1>4, <1>6, <1>8, <2>1
  <2>4. q[k] \in cmds[q[p]].before BY <1>6, <2>2, <2>3
  <2>5. k < p BY <1>2, <2>1, <2>4
  <2> QED BY <1>8, <2>5
<1>9. strat[s] = Effect(cmds[c].action, "running")
  <2>1. cmds[control[s][p]].action = cmds[c].action BY <1>6 DEF q
  <2> QED BY <1>5, <1>6, <1>7, <1>8, <2>1 DEF EffectInv
<1> QED BY <1>9 DEF Effect

\* What the operators asked for last, each command sent after the outcome of the one
\* before was known, is what a strategy does once its bridge has read its stream
\* (_command in runner.py, _on_command in bridge_actor.py).
THEOREM LastWord == Spec => []LastWordHolds
BY LastCommandDecides, DeliveryInvariant, PTL
=============================================================================
