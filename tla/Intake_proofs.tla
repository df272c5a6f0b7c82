---------------------------- MODULE Intake_proofs ----------------------------
(***************************************************************************)
(* Proofs about Intake, for any pods, handles, announces and faults.       *)
(***************************************************************************)
EXTENDS Intake, FiniteSetTheorems, WellFoundedInduction, TLAPS

-----------------------------------------------------------------------------
(* Newest announces.                                                       *)

\* A nonempty set of positive numbers that has a bound has a greatest element.
LEMMA GreatestExists ==
    ASSUME NEW n \in Nat, NEW S \in SUBSET (1 .. n), S # {}
    PROVE  \E m \in S : \A j \in S : j <= m
<1> DEFINE T == {k \in Nat : n - k \in S}
<1>1. T \subseteq Nat OBVIOUS
<1>2. T # {}
  <2>1. PICK i \in S : TRUE OBVIOUS
  <2>2. n - i \in Nat /\ n - (n - i) = i BY <2>1
  <2> QED BY <2>1, <2>2
<1> DEFINE R == OpToRel(<, Nat)
<1>3. PICK k \in T : \A l \in T : ~(<<l, k>> \in R)
  BY <1>1, <1>2, NatLessThanWellFounded, WFMin
<1>4. \A l \in T : k <= l
  <2>1. \A l \in T : ~(l < k) BY <1>3 DEF OpToRel
  <2>2. k \in Nat /\ \A l \in T : l \in Nat OBVIOUS
  <2> HIDE DEF R, T
  <2> QED BY <2>1, <2>2
<1>5. ASSUME NEW j \in S PROVE j <= n - k
  <2>1. n - j \in T
    <3>1. n - j \in Nat /\ n - (n - j) = j OBVIOUS
    <3> QED BY <3>1
  <2> QED BY <1>4, <2>1
<1> QED BY <1>3, <1>5

LEMMA MaxIsGreatest ==
    ASSUME NEW n \in Nat, NEW S \in SUBSET (1 .. n), S # {}
    PROVE  Max(S) \in S /\ \A j \in S : j <= Max(S)
<1>1. \E m \in S : \A j \in S : m >= j BY GreatestExists
<1> QED BY <1>1 DEF Max

\* The newest of a strategy's announces is the one no other is newer than.
LEMMA NewestUnique ==
    ASSUME NEW A \in SUBSET Nat, NEW s, NEW m \in A, announces[m].sid = s,
           \A j \in A : announces[j].sid = s => j <= m
    PROVE  Newest(A, s) = m
<1> DEFINE own == {i \in A : announces[i].sid = s}
<1>1. m \in own /\ \A j \in own : j <= m OBVIOUS
<1>2. \A i \in own : (\A j \in own : j <= i) => i = m BY <1>1
<1>3. Newest(A, s) = CHOOSE i \in own : \A j \in own : j <= i BY <1>1 DEF Newest
<1> HIDE DEF own
<1> QED BY <1>1, <1>2, <1>3

LEMMA NewestNone ==
    ASSUME NEW A, NEW s, \A i \in A : announces[i].sid # s
    PROVE  Newest(A, s) = 0
BY DEF Newest

LEMMA NewestSome ==
    ASSUME NEW n \in Nat, NEW A \in SUBSET (1 .. n), NEW s, NEW k \in A, announces[k].sid = s
    PROVE  /\ Newest(A, s) \in A /\ announces[Newest(A, s)].sid = s /\ Newest(A, s) # 0
           /\ \A j \in A : announces[j].sid = s => j <= Newest(A, s)
<1> DEFINE own == {i \in A : announces[i].sid = s}
<1>1. own \in SUBSET (1 .. n) /\ own # {} OBVIOUS
<1>2. PICK m \in own : \A j \in own : j <= m BY <1>1, GreatestExists
<1>3. Newest(A, s) = m BY <1>2, NewestUnique
<1> QED BY <1>2, <1>3

\* Announces that are all newer than those before: what they say wins.
LEMMA NewestUnion ==
    ASSUME NEW n \in Nat, NEW A \in SUBSET (1 .. n), NEW B \in SUBSET (1 .. n),
           \A i \in A, j \in B : i < j, NEW s
    PROVE  Newest(A \cup B, s) = IF Newest(B, s) = 0 THEN Newest(A, s) ELSE Newest(B, s)
<1>1. CASE \E k \in B : announces[k].sid = s
  <2>1. PICK k \in B : announces[k].sid = s BY <1>1
  <2>2. /\ Newest(B, s) \in B /\ announces[Newest(B, s)].sid = s /\ Newest(B, s) # 0
        /\ \A j \in B : announces[j].sid = s => j <= Newest(B, s)
    BY <2>1, NewestSome
  <2>3. PICK m \in B : m = Newest(B, s) BY <2>2, Zenon
  <2>4. \A j \in A \cup B : announces[j].sid = s => j <= m
    <3>1. \A j \in A : j < m BY <2>2, <2>3
    <3> QED BY <2>2, <2>3, <3>1
  <2>5. A \cup B \in SUBSET Nat /\ m \in A \cup B /\ announces[m].sid = s
    BY <2>2, <2>3
  <2>6. Newest(A \cup B, s) = m BY <2>4, <2>5, NewestUnique
  <2> QED BY <2>2, <2>3, <2>6
<1>2. CASE ~\E k \in B : announces[k].sid = s
  <2>1. Newest(B, s) = 0 BY <1>2, NewestNone
  <2> DEFINE union == {i \in A \cup B : announces[i].sid = s}
             own == {i \in A : announces[i].sid = s}
  <2>2. union = own BY <1>2
  <2>3. /\ Newest(A \cup B, s)
             = IF union = {} THEN 0 ELSE CHOOSE i \in union : \A j \in union : j <= i
        /\ Newest(A, s) = IF own = {} THEN 0 ELSE CHOOSE i \in own : \A j \in own : j <= i
    BY DEF Newest
  <2> HIDE DEF union, own
  <2>4. Newest(A \cup B, s) = Newest(A, s) BY <2>2, <2>3
  <2> QED BY <2>1, <2>4
<1> QED BY <1>1, <1>2

\* What is announced later does not change which announce is the newest of A.
LEMMA NewestKept ==
    ASSUME NEW A, NEW s, \A i \in A : announces'[i] = announces[i]
    PROVE  Newest(A, s)' = Newest(A, s)
<1> DEFINE own == {i \in A : announces[i].sid = s}
           then == {i \in A : announces'[i].sid = s}
<1>1. own = then OBVIOUS
<1>2. /\ Newest(A, s) = IF own = {} THEN 0 ELSE CHOOSE i \in own : \A j \in own : j <= i
      /\ Newest(A, s)' = IF then = {} THEN 0 ELSE CHOOSE i \in then : \A j \in then : j <= i
  BY DEF Newest
<1> HIDE DEF own, then
<1> QED BY <1>1, <1>2

-----------------------------------------------------------------------------
(* The autodiscovery: types, the announce cursor, registry and warnings.   *)

\* The announce cursor: at or past everything heard, before the batch to apply.
AutoOrder ==
    /\ apc # "applying" => batchA = {}
    /\ \A i \in heard : i <= cursorA
    /\ \A i \in batchA : i > cursorA
    /\ booted <= cursorA

\* What was warned about is what drifted since the start, each handshake once.
Warned ==
    /\ DOMAIN warnings = {Handshake(b) : b \in Boots}
    /\ warned = Drifted({i \in heard : i > booted})
    /\ \A h \in DOMAIN warnings : warnings[h] = IF h \in warned THEN 1 ELSE 0

AutoInv == AutoTypes /\ AutoOrder /\ RegistryNewest /\ Warned

LEMMA HeardBelow ==
    ASSUME RedisTypes, AutoTypes
    PROVE  /\ Len(announces) \in Nat
           /\ heard \in SUBSET (1 .. Len(announces)) /\ batchA \in SUBSET (1 .. Len(announces))
BY DEF RedisTypes, AutoTypes

\* RegistryNewest after a step that leaves the announces as they are.
LEMMA RegistryNewestNext ==
    ASSUME UNCHANGED announces, NEW H, H = heard',
           \A i \in H : announces[i].sid \in DOMAIN registry',
           \A s \in DOMAIN registry' :
              registry'[s] = IF Newest(H, s) = 0 THEN "sandbox"
                             ELSE announces[Newest(H, s)].mode
    PROVE  RegistryNewest'
<1>1. \A s : Newest(H, s)' = Newest(H, s) BY NewestKept
<1> QED BY <1>1 DEF RegistryNewest

\* Warned after a step that leaves the announces as they are.
LEMMA WarnedNext ==
    ASSUME UNCHANGED announces, NEW S, S = {i \in heard' : i > booted'},
           DOMAIN warnings' = {Handshake(b) : b \in Boots},
           warned' = Drifted(S),
           \A h \in DOMAIN warnings' : warnings'[h] = IF h \in warned' THEN 1 ELSE 0
    PROVE  Warned'
<1>1. Drifted(S)' = Drifted(S) BY DEF Drifted
<1>2. Drifted({i \in heard : i > booted})' = Drifted(S)'
  OBVIOUS
<1> QED BY <1>1, <1>2 DEF Warned, Handshake

\* More announces, nothing else of the autodiscovery.
LEMMA AutoKept ==
    ASSUME RedisTypes, AutoInv, UNCHANGED <<registry, autoVars>>,
           announces' \in Seq(Boots), Len(announces) <= Len(announces'),
           \A i \in DOMAIN announces : announces'[i] = announces[i]
    PROVE  AutoInv'
<1> USE DEF autoVars
<1>1. DOMAIN announces \subseteq DOMAIN announces' BY DEF RedisTypes
<1>2. AutoTypes' /\ AutoOrder' BY <1>1 DEF AutoInv, AutoTypes, AutoOrder
<1>3. heard \subseteq DOMAIN announces BY DEF AutoInv, AutoTypes
<1>4. RegistryNewest'
  <2>1. \A s : Newest(heard, s)' = Newest(heard, s)
    <3>1. \A s, A : A = heard => Newest(A, s)' = Newest(A, s) BY <1>3, NewestKept
    <3>2. PICK H : H = heard OBVIOUS
    <3>3. \A s : Newest(heard, s)' = Newest(H, s)' BY <3>2
    <3> QED BY <3>1, <3>2, <3>3
  <2>2. \A s : Newest(heard, s) = 0 \/ Newest(heard, s) \in heard
    BY HeardBelow, NewestSome, NewestNone DEF AutoInv
  <2>3. \A i \in heard : announces'[i] = announces[i] BY <1>3
  <2> QED BY <2>1, <2>2, <2>3 DEF AutoInv, RegistryNewest
<1>5. Warned'
  <2> DEFINE S == {i \in heard : i > booted}
  <2>1. {j \in S : announces'[j].proto # Expected} = {j \in S : announces[j].proto # Expected}
    BY <1>3
  <2>2. \A i \in S : announces'[i] = announces[i] BY <1>3
  <2>3. Drifted(S)' = Drifted(S)
    <3>1. Drifted(S) = {Handshake(announces[i]) : i \in {j \in S : announces[j].proto # Expected}}
      BY DEF Drifted
    <3>2. Drifted(S)' = {Handshake(announces'[i]) : i \in {j \in S : announces'[j].proto # Expected}}
      BY DEF Drifted, Handshake
    <3>3. \A i \in {j \in S : announces[j].proto # Expected} :
             Handshake(announces'[i]) = Handshake(announces[i])
      BY <2>2 DEF Handshake
    <3> QED BY <2>1, <3>1, <3>2, <3>3
  <2> QED BY <2>3 DEF AutoInv, Warned, Handshake
<1> QED BY <1>2, <1>4, <1>5 DEF AutoInv

\* Announces newer than all that were heard are applied.
LEMMA AppliedNewest ==
    ASSUME RedisTypes, AutoInv
    PROVE  LET reg == Replayed(registry, batchA)
               H == heard \cup batchA
           IN  /\ DOMAIN reg \subseteq Sids /\ \A s \in DOMAIN reg : reg[s] \in Modes
               /\ \A i \in H : announces[i].sid \in DOMAIN reg
               /\ \A s \in DOMAIN reg :
                     reg[s] = IF Newest(H, s) = 0 THEN "sandbox"
                              ELSE announces[Newest(H, s)].mode
<1> DEFINE reg == Replayed(registry, batchA)
           H == heard \cup batchA
<1>1. /\ Len(announces) \in Nat
      /\ heard \in SUBSET (1 .. Len(announces)) /\ batchA \in SUBSET (1 .. Len(announces))
  BY HeardBelow DEF AutoInv
<1>2. \A i \in heard, j \in batchA : i < j
  <2>1. cursorA \in Nat BY DEF AutoInv, AutoTypes
  <2> QED BY <1>1, <2>1 DEF AutoInv, AutoOrder
<1>3. \A s : Newest(H, s) = IF Newest(batchA, s) = 0 THEN Newest(heard, s) ELSE Newest(batchA, s)
  BY <1>1, <1>2, NewestUnion
<1>4. /\ DOMAIN reg = DOMAIN registry \cup {announces[i].sid : i \in batchA}
      /\ \A s \in DOMAIN reg :
            reg[s] = IF Newest(batchA, s) = 0 THEN registry[s] ELSE announces[Newest(batchA, s)].mode
  BY DEF Replayed
<1>5. \A s : Newest(batchA, s) = 0 \/ Newest(batchA, s) \in batchA
  BY <1>1, NewestSome, NewestNone
<1>6. \A s \in DOMAIN reg : Newest(batchA, s) = 0 => s \in DOMAIN registry
  <2>1. \A i \in batchA : Newest(batchA, announces[i].sid) # 0 BY <1>1, NewestSome
  <2> QED BY <1>4, <2>1
<1>7. \A i \in DOMAIN announces : announces[i] \in Boots BY DEF RedisTypes
<1> HIDE DEF reg, H
<1>8. DOMAIN reg \subseteq Sids /\ \A s \in DOMAIN reg : reg[s] \in Modes
  <2>1. \A i \in batchA : announces[i].sid \in Sids /\ announces[i].mode \in Modes
    BY <1>1, <1>7, IntakeAssumption
  <2>2. DOMAIN registry \subseteq Sids /\ \A s \in DOMAIN registry : registry[s] \in Modes
    BY DEF AutoInv, AutoTypes
  <2>3. DOMAIN reg \subseteq Sids BY <1>4, <2>1, <2>2
  <2> QED BY <1>4, <1>5, <1>6, <2>1, <2>2, <2>3
<1>9. \A i \in H : announces[i].sid \in DOMAIN reg
  BY <1>4 DEF AutoInv, RegistryNewest, H
<1>10. \A s \in DOMAIN reg :
          reg[s] = IF Newest(H, s) = 0 THEN "sandbox" ELSE announces[Newest(H, s)].mode
  BY <1>3, <1>4, <1>6 DEF AutoInv, RegistryNewest
<1> QED BY <1>8, <1>9, <1>10 DEF reg, H

LEMMA DriftedUnion ==
    ASSUME NEW A, NEW B
    PROVE  Drifted(A \cup B) = Drifted(A) \cup Drifted(B)
BY DEF Drifted

LEMMA DriftedHandshakes ==
    ASSUME NEW A, A \subseteq DOMAIN announces, announces \in Seq(Boots)
    PROVE  Drifted(A) \subseteq {Handshake(b) : b \in Boots}
<1>1. \A i \in A : announces[i] \in Boots OBVIOUS
<1> QED BY <1>1 DEF Drifted

LEMMA AutoApplied ==
    ASSUME RedisTypes, AutoInv, AnnouncesApplied
    PROVE  AutoInv'
<1> USE DEF redisVars
<1>1. /\ Len(announces) \in Nat
      /\ heard \in SUBSET (1 .. Len(announces)) /\ batchA \in SUBSET (1 .. Len(announces))
  BY HeardBelow DEF AutoInv
<1>2. PICK H : H = heard \cup batchA OBVIOUS
<1>3. H = heard' /\ registry' = Replayed(registry, batchA) /\ UNCHANGED <<announces, booted>>
  BY <1>2 DEF AnnouncesApplied
<1>4. /\ DOMAIN registry' \subseteq Sids /\ \A s \in DOMAIN registry' : registry'[s] \in Modes
      /\ \A i \in H : announces[i].sid \in DOMAIN registry'
      /\ \A s \in DOMAIN registry' :
            registry'[s] = IF Newest(H, s) = 0 THEN "sandbox"
                           ELSE announces[Newest(H, s)].mode
  BY <1>2, <1>3, AppliedNewest
<1>5. RegistryNewest' BY <1>3, <1>4, RegistryNewestNext
<1>6. cursorA' \in Nat /\ cursorA' >= cursorA /\ \A i \in heard' : i <= cursorA'
  <2>1. cursorA \in Nat BY DEF AutoInv, AutoTypes
  <2>2. CASE batchA = {} BY <2>1, <2>2 DEF AnnouncesApplied, AutoInv, AutoOrder
  <2>3. CASE batchA # {}
    <3>1. PICK m : m = Max(batchA) OBVIOUS
    <3>2. m \in batchA /\ \A j \in batchA : j <= m BY <1>1, <2>3, <3>1, MaxIsGreatest
    <3>3. cursorA' = m BY <2>3, <3>1 DEF AnnouncesApplied
    <3>4. m > cursorA /\ m \in Nat BY <1>1, <3>2 DEF AutoInv, AutoOrder
    <3>5. \A i \in heard : i <= m BY <1>1, <2>1, <3>4 DEF AutoInv, AutoOrder
    <3>6. \A i \in heard' : i <= m BY <1>2, <1>3, <3>2, <3>5
    <3>7. m >= cursorA BY <2>1, <3>4
    <3> QED BY <3>3, <3>4, <3>6, <3>7
  <2> QED BY <2>2, <2>3
<1>7. Warned'
  <2> DEFINE S == {i \in heard : i > booted}
             T == {i \in H : i > booted}
  <2>1. T = S \cup batchA
    <3>1. booted \in Nat /\ cursorA \in Nat BY DEF AutoInv, AutoTypes
    <3>2. \A i \in batchA : i > booted BY <1>1, <3>1 DEF AutoInv, AutoOrder
    <3> QED BY <1>2, <3>2
  <2>2. Drifted(T) = Drifted(S) \cup Drifted(batchA) BY <2>1, DriftedUnion
  <2>3. warned = Drifted(S) /\ warned' = Drifted(T)
    BY <2>2 DEF AutoInv, Warned, AnnouncesApplied
  <2>4. T = {i \in heard' : i > booted'} BY <1>3
  <2>5. DOMAIN warnings' = {Handshake(b) : b \in Boots}
    BY DEF AutoInv, Warned, AnnouncesApplied
  <2>6. \A h \in DOMAIN warnings' : warnings'[h] = IF h \in warned' THEN 1 ELSE 0
    BY <2>2, <2>3 DEF AutoInv, Warned, AnnouncesApplied
  <2> HIDE DEF S, T
  <2> QED BY <1>3, <2>3, <2>4, <2>5, <2>6, WarnedNext
<1>8. AutoTypes'
  <2>1. heard' \subseteq DOMAIN announces' /\ batchA' \subseteq DOMAIN announces'
    BY <1>1, <1>2, <1>3 DEF AnnouncesApplied, AutoInv, AutoTypes
  <2>2. /\ booted' \in Nat /\ scan' \subseteq Sids
        /\ apc' \in {"reading", "applying", "scanning", "adding"}
    BY DEF AnnouncesApplied, AutoInv, AutoTypes
  <2>3. Drifted(batchA) \subseteq {Handshake(b) : b \in Boots}
    BY DriftedHandshakes DEF RedisTypes, AutoInv, AutoTypes
  <2>4. warned' \subseteq DOMAIN warnings' /\ \A h \in DOMAIN warnings' : warnings'[h] \in Nat
    BY <2>3 DEF AnnouncesApplied, AutoInv, AutoTypes, Warned
  <2> QED BY <1>4, <1>6, <2>1, <2>2, <2>4 DEF AutoTypes
<1>9. AutoOrder'
  <2>1. booted' <= cursorA'
    BY <1>6 DEF AnnouncesApplied, AutoInv, AutoTypes, AutoOrder
  <2> QED BY <1>6, <2>1 DEF AnnouncesApplied, AutoOrder
<1> QED BY <1>5, <1>7, <1>8, <1>9 DEF AutoInv

\* The registry after the scan's thread added handles.
LEMMA AutoScanned ==
    ASSUME RedisTypes, AutoInv, NEW s \in scan, registry' = WithScanned(registry, {s}),
           UNCHANGED <<redisVars, heard, cursorA, booted, apc, batchA, warned, warnings>>,
           scan' = scan \ {s}
    PROVE  AutoInv'
<1> USE DEF redisVars
<1>1. DOMAIN registry' = DOMAIN registry \cup {s}
      /\ \A p \in DOMAIN registry' :
            registry'[p] = IF p \in DOMAIN registry THEN registry[p] ELSE "sandbox"
  BY DEF WithScanned
<1>2. AutoTypes' /\ AutoOrder' BY <1>1 DEF AutoInv, AutoTypes, AutoOrder, Modes
<1>3. RegistryNewest'
  <2>1. PICK H : H = heard OBVIOUS
  <2>2. \A i \in H : announces[i].sid \in DOMAIN registry'
    BY <1>1, <2>1 DEF AutoInv, RegistryNewest
  <2>3. s \notin DOMAIN registry => Newest(H, s) = 0
    <3>1. s \notin DOMAIN registry => \A i \in H : announces[i].sid # s
      BY <2>1 DEF AutoInv, RegistryNewest
    <3> QED BY <3>1, NewestNone
  <2>4. \A p \in DOMAIN registry' :
           registry'[p] = IF Newest(H, p) = 0 THEN "sandbox" ELSE announces[Newest(H, p)].mode
    <3> SUFFICES ASSUME NEW p \in DOMAIN registry'
                 PROVE  registry'[p] = IF Newest(H, p) = 0 THEN "sandbox"
                                       ELSE announces[Newest(H, p)].mode
      OBVIOUS
    <3>1. CASE p \in DOMAIN registry BY <1>1, <2>1, <3>1 DEF AutoInv, RegistryNewest
    <3>2. CASE p \notin DOMAIN registry BY <1>1, <2>3, <3>2
    <3> QED BY <3>1, <3>2
  <2> QED BY <2>1, <2>2, <2>4, RegistryNewestNext
<1>4. Warned'
  <2>1. PICK S : S = {i \in heard : i > booted} OBVIOUS
  <2> QED BY <2>1, WarnedNext DEF AutoInv, Warned
<1> QED BY <1>2, <1>3, <1>4 DEF AutoInv

\* A new process: its registry and its cursor come from the replay.
LEMMA AutoRestarted ==
    ASSUME RedisTypes, AutoInv, Restart
    PROVE  AutoInv'
<1> USE DEF redisVars
<1>1. PICK H : H = heard' OBVIOUS
<1>2. /\ H = StoredAnnounces /\ UNCHANGED <<announces, controls>>
      /\ cursorA' = (IF H = {} THEN 0 ELSE Max(H)) /\ booted' = cursorA'
      /\ apc' = "reading" /\ batchA' = {} /\ scan' = {}
  BY <1>1 DEF Restart
<1>3. registry' = WithScanned(Replayed(NoEntries, H), controls)
  BY <1>1 DEF Restart
<1>4. H \in SUBSET (1 .. Len(announces)) /\ Len(announces) \in Nat
  BY <1>2 DEF RedisTypes, StoredAnnounces
<1>5. cursorA' \in Nat /\ \A i \in H : i <= cursorA'
  <2>1. CASE H = {} BY <1>2, <2>1
  <2>2. CASE H # {}
    <3>1. PICK m : m = Max(H) OBVIOUS
    <3>2. m \in H /\ \A j \in H : j <= m BY <1>4, <2>2, <3>1, MaxIsGreatest
    <3> QED BY <1>2, <1>4, <2>2, <3>1, <3>2
  <2> QED BY <2>1, <2>2
<1>6. AutoOrder' BY <1>1, <1>2, <1>5 DEF AutoOrder
<1> DEFINE replay == Replayed(NoEntries, H)
<1>7. /\ DOMAIN replay = {announces[i].sid : i \in H}
      /\ \A s \in DOMAIN replay : Newest(H, s) # 0 => replay[s] = announces[Newest(H, s)].mode
  BY DEF Replayed, NoEntries
<1>8. \A s : Newest(H, s) # 0 <=> s \in {announces[i].sid : i \in H}
  BY <1>4, NewestSome, NewestNone
<1>9. /\ DOMAIN registry' = DOMAIN replay \cup controls
      /\ \A s \in DOMAIN registry' :
            registry'[s] = IF s \in DOMAIN replay THEN replay[s] ELSE "sandbox"
  BY <1>3 DEF WithScanned
<1> HIDE DEF replay
<1>10. \A s \in DOMAIN registry' :
          registry'[s] = IF Newest(H, s) = 0 THEN "sandbox" ELSE announces[Newest(H, s)].mode
  BY <1>7, <1>8, <1>9
<1>11. RegistryNewest'
  <2>1. \A i \in H : announces[i].sid \in DOMAIN registry' BY <1>7, <1>9
  <2> QED BY <1>1, <1>2, <1>10, <2>1, RegistryNewestNext
<1>12. DOMAIN warnings' = {Handshake(b) : b \in Boots} /\ warned' = {}
       /\ \A h \in DOMAIN warnings' : warnings'[h] = 0
  BY DEF Restart, AutoInv, Warned
<1>13. Warned'
  <2>1. PICK S : S = {i \in heard' : i > booted'} OBVIOUS
  <2>2. \A i \in H : ~(i > cursorA') BY <1>4, <1>5
  <2>3. S = {} BY <1>1, <1>2, <2>1, <2>2
  <2>4. Drifted(S) = {} BY <2>3 DEF Drifted
  <2> QED BY <1>2, <1>12, <2>1, <2>4, WarnedNext
<1>14. AutoTypes'
  <2>1. \A i \in H : announces[i] \in Boots BY <1>4 DEF RedisTypes
  <2>2. \A i \in H : announces[i].sid \in Sids /\ announces[i].mode \in Modes
    BY <2>1, IntakeAssumption
  <2>3. DOMAIN registry' \subseteq Sids
    BY <1>7, <1>9, <2>2, IntakeAssumption DEF RedisTypes
  <2>4. \A s : Newest(H, s) # 0 => Newest(H, s) \in H BY <1>4, NewestSome, NewestNone
  <2>5. \A s \in DOMAIN registry' : registry'[s] \in Modes
    BY <1>10, <2>2, <2>4 DEF Modes
  <2>6. heard' \subseteq DOMAIN announces' BY <1>1, <1>2, <1>4 DEF RedisTypes
  <2> QED BY <1>2, <1>5, <1>12, <2>3, <2>5, <2>6 DEF AutoTypes
<1> QED BY <1>6, <1>11, <1>13, <1>14 DEF AutoInv

LEMMA AutoInit == ASSUME Init PROVE AutoInv
<1>1. AutoTypes /\ AutoOrder /\ RegistryNewest BY DEF Init, AutoTypes, AutoOrder, RegistryNewest, NoEntries
<1>2. Warned BY DEF Init, Warned, Drifted
<1> QED BY <1>1, <1>2 DEF AutoInv

LEMMA RedisNext == ASSUME RedisTypes, [Next]_vars PROVE RedisTypes'
<1> USE DEF RedisTypes, redisVars
<1>1. ASSUME NEW b \in Boots, Announce(b) PROVE RedisTypes'
  BY <1>1 DEF Announce
<1>2. ASSUME NEW s \in Sids, NEW kind \in Kinds[s], Publish(s, kind) PROVE RedisTypes'
  <2>1. kind \in AllKinds BY IntakeAssumption
  <2>2. events' = [events EXCEPT ![s] = Append(events[s], kind)] BY <1>2 DEF Publish
  <2>3. Append(events[s], kind) \in Seq(AllKinds) BY <2>1
  <2>4. events' \in [Sids -> Seq(AllKinds)] BY <2>2, <2>3
  <2>5. \A p \in Sids : Len(events'[p]) >= Len(events[p]) BY <2>2, <2>3
  <2>6. \A p \in Sids : lost'[p] <= Len(events'[p])
    <3>1. \A p \in Sids : Len(events[p]) \in Nat /\ Len(events'[p]) \in Nat BY <2>4
    <3>2. UNCHANGED lost BY <1>2 DEF Publish
    <3>3. \A p \in Sids : lost[p] \in Nat /\ lost[p] <= Len(events[p]) OBVIOUS
    <3> HIDE DEF RedisTypes
    <3> QED BY <2>5, <3>1, <3>2, <3>3
  <2> QED BY <1>2, <2>4, <2>6 DEF Publish
<1>3. ASSUME NEW s \in Commanded, Command(s) PROVE RedisTypes'
  BY <1>3 DEF Command
<1>4. ASSUME Flush PROVE RedisTypes'
  BY <1>4 DEF Flush
<1>5. CASE UNCHANGED redisVars BY <1>5
<1>6. AutoStep \/ StreamStep \/ (\E s \in Sids : ForwardRaises(s))
        \/ StreamRedisFails \/ AutoRedisFails \/ Restart => UNCHANGED redisVars
  BY DEF AutoStep, StreamStep, AnnouncesRead, AnnouncesApplied, ScanLists, ScanAdds, ScanReturns,
         Top, GlobReturns, TailReturns, Discovered, XreadReturns, XreadTimesOut, ForwardNext,
         ForwardRaises, StreamRedisFails, AutoRedisFails, Restart
<1> QED BY <1>1, <1>2, <1>3, <1>4, <1>5, <1>6 DEF Next, vars

LEMMA AutoNext == ASSUME RedisTypes, AutoInv, [Next]_vars PROVE AutoInv'
<1>1. RedisTypes' BY RedisNext
<1>2. ASSUME UNCHANGED <<announces, registry, autoVars>> PROVE AutoInv'
  BY <1>2, AutoKept DEF RedisTypes
<1>3. ASSUME NEW b \in Boots, Announce(b) PROVE AutoInv'
  BY <1>3, AutoKept DEF Announce, RedisTypes
<1>4. ASSUME AnnouncesRead PROVE AutoInv'
  <2>1. AutoTypes' /\ AutoOrder'
    BY <1>4 DEF AnnouncesRead, AutoInv, AutoTypes, AutoOrder, RedisTypes, StoredAnnounces, redisVars
  <2>2. PICK H : H = heard' OBVIOUS
  <2>3. RegistryNewest'
    BY <1>4, <2>2, RegistryNewestNext DEF AnnouncesRead, AutoInv, RegistryNewest, redisVars
  <2>4. PICK S : S = {i \in heard' : i > booted'} OBVIOUS
  <2>5. Warned' BY <1>4, <2>4, WarnedNext DEF AnnouncesRead, AutoInv, Warned, redisVars
  <2> QED BY <2>1, <2>3, <2>5 DEF AutoInv
<1>5. ASSUME UNCHANGED <<announces, controls, registry, heard, cursorA, booted, batchA, warned, warnings>>,
             apc' \in {"reading", "adding"}, apc # "applying", scan' \subseteq Sids
      PROVE  AutoInv'
  <2>1. AutoTypes' /\ AutoOrder' BY <1>5 DEF AutoInv, AutoTypes, AutoOrder
  <2>2. PICK H : H = heard' OBVIOUS
  <2>3. RegistryNewest' BY <1>5, <2>2, RegistryNewestNext DEF AutoInv, RegistryNewest
  <2>4. PICK S : S = {i \in heard' : i > booted'} OBVIOUS
  <2>5. Warned' BY <1>5, <2>4, WarnedNext DEF AutoInv, Warned
  <2> QED BY <2>1, <2>3, <2>5 DEF AutoInv
<1>6. ScanLists \/ ScanReturns \/ AutoRedisFails => AutoInv'
  <2>1. scan \subseteq Sids /\ controls \subseteq Sids
    BY IntakeAssumption DEF AutoInv, AutoTypes, RedisTypes
  <2> QED BY <1>5, <2>1 DEF ScanLists, ScanReturns, AutoRedisFails, redisVars
<1>7. ASSUME NEW s \in Sids, ScanAdds(s) \/ ForwardRaises(s) PROVE AutoInv'
  BY <1>7, AutoScanned DEF ScanAdds, ForwardRaises
<1>8. (\E s \in Sids : \E kind \in Kinds[s] : Publish(s, kind)) \/ (\E s \in Commanded : Command(s))
        \/ StreamStep \/ StreamRedisFails \/ Flush => UNCHANGED <<announces, registry, autoVars>>
  BY DEF Publish, Command, StreamStep, StreamRedisFails, Flush, Top, GlobReturns, TailReturns,
         Discovered, XreadReturns, XreadTimesOut, ForwardNext, redisVars
<1>9. AnnouncesApplied => AutoInv' BY AutoApplied
<1>10. Restart => AutoInv' BY AutoRestarted
<1> QED BY <1>2, <1>3, <1>4, <1>6, <1>7, <1>8, <1>9, <1>10 DEF Next, AutoStep, vars, redisVars

-----------------------------------------------------------------------------
(* The event streams: cursors, the response being forwarded, what went out. *)

\* What is left of a batch lies past the cursor of its stream, at most lost
\* entries before it.
Ahead(b) ==
    /\ b.sid \in DOMAIN cursors
    /\ cursors[b.sid] < b.next /\ b.next <= b.last /\ b.last <= Len(events[b.sid])
    /\ \A n \in cursors[b.sid] + 1 .. b.next - 1 : n <= lost[b.sid]

StreamOrder ==
    /\ found \cap DOMAIN cursors = {}
    /\ \A i \in DOMAIN response : Ahead(response[i])
    /\ \A i, j \in DOMAIN response : i # j => response[i].sid # response[j].sid

StreamInv == StreamTypes /\ StreamOrder /\ EveryEntryOnce

\* An entry at or below a cursor is accounted for.
Passed(s, n) ==
    \/ n \in Forwarded(s)
    \/ events[s][n] = "noise" \/ n <= lost[s]
    \/ [sid |-> s, id |-> n] \in raised

LEMMA EventsLen ==
    ASSUME RedisTypes, NEW s \in Sids
    PROVE  Len(events[s]) \in Nat /\ events[s] \in Seq(AllKinds) /\ lost[s] \in Nat
           /\ DOMAIN events[s] = 1 .. Len(events[s])
BY DEF RedisTypes

\* Pods publish and Redis loses; the notifier's loop does nothing.
LEMMA StreamKept ==
    ASSUME RedisTypes, RedisTypes', StreamInv, UNCHANGED streamVars,
           \A s \in Sids : /\ Len(events[s]) <= Len(events'[s]) /\ lost[s] <= lost'[s]
                           /\ \A n \in DOMAIN events[s] : events'[s][n] = events[s][n]
    PROVE  StreamInv'
<1> USE DEF streamVars
<1>1. \A s \in Sids : /\ Len(events[s]) \in Nat /\ Len(events'[s]) \in Nat
                      /\ lost[s] \in Nat /\ lost'[s] \in Nat
                      /\ DOMAIN events[s] = 1 .. Len(events[s])
  BY DEF RedisTypes
<1>2. StreamTypes'
  <2>1. DOMAIN cursors \subseteq Sids /\ DOMAIN start = DOMAIN cursors BY DEF StreamInv, StreamTypes
  <2>2. ASSUME NEW s \in DOMAIN cursors PROVE cursors[s] \in 0 .. Len(events'[s])
    BY <1>1, <2>1 DEF StreamInv, StreamTypes
  <2> QED BY <2>2 DEF StreamInv, StreamTypes
<1>3. StreamOrder'
  <2>1. ASSUME NEW i \in DOMAIN response PROVE Ahead(response[i])'
    <3>1. PICK b : b = response[i] OBVIOUS
    <3>2. b \in Batches /\ Ahead(b) BY <3>1 DEF StreamInv, StreamTypes, StreamOrder
    <3>3. b.sid \in Sids /\ b.last \in Nat BY <3>2 DEF Batches
    <3>4. b.last <= Len(events'[b.sid]) BY <1>1, <3>2, <3>3 DEF Ahead
    <3>5. cursors[b.sid] \in Nat BY <1>1, <3>2, <3>3 DEF StreamInv, StreamTypes, Ahead
    <3>6. \A n \in cursors[b.sid] + 1 .. b.next - 1 : n <= lost'[b.sid]
      <4>1. b.next \in Nat BY <3>2 DEF Batches
      <4>2. \A n \in cursors[b.sid] + 1 .. b.next - 1 : n \in Nat /\ n <= lost[b.sid]
        BY <3>2, <3>5, <4>1 DEF Ahead
      <4> QED BY <1>1, <3>3, <4>2
    <3> QED BY <3>1, <3>2, <3>4, <3>6 DEF Ahead
  <2> QED BY <2>1 DEF StreamInv, StreamOrder
<1>4. EveryEntryOnce'
  <2>1. \A s \in Sids : Forwarded(s)' = Forwarded(s) BY DEF Forwarded
  <2>2. ASSUME NEW s \in Sids, s \in DOMAIN cursors, NEW n \in start[s] + 1 .. cursors[s]
        PROVE  Passed(s, n)'
    <3>1. Passed(s, n) BY <2>2 DEF StreamInv, EveryEntryOnce, Passed
    <3>2. n \in Nat /\ n \in DOMAIN events[s]
      <4>1. cursors[s] \in 0 .. Len(events[s]) /\ start[s] \in 0 .. cursors[s]
        BY <2>2 DEF StreamInv, StreamTypes
      <4> QED BY <1>1, <2>2, <4>1
    <3>3. events'[s][n] = events[s][n] BY <3>2
    <3>4. n <= lost[s] => n <= lost'[s] BY <1>1, <3>2
    <3> QED BY <2>1, <3>1, <3>3, <3>4 DEF Passed
  <2> QED BY <2>1, <2>2 DEF StreamInv, EveryEntryOnce, Passed
<1> QED BY <1>2, <1>3, <1>4 DEF StreamInv

\* Steps of the loop that move no cursor and forward nothing.
LEMMA StreamIdle ==
    ASSUME RedisTypes, StreamInv,
           UNCHANGED <<redisVars, cursors, start, response, out, raised>>,
           found' \subseteq Sids, found' \cap DOMAIN cursors = {}, due' \in BOOLEAN,
           epc' \in {"top", "globbing", "tails", "reading", "returned", "forwarding"},
           (response # <<>>) = (epc' \in {"returned", "forwarding"})
    PROVE  StreamInv'
<1> USE DEF redisVars
<1>1. StreamTypes' BY DEF StreamInv, StreamTypes
<1>2. StreamOrder' BY DEF StreamInv, StreamOrder, Ahead
<1>3. EveryEntryOnce' BY DEF StreamInv, EveryEntryOnce, Forwarded
<1> QED BY <1>1, <1>2, <1>3 DEF StreamInv

\* A discovered stream is watched from its end.
LEMMA StreamWatched ==
    ASSUME RedisTypes, StreamInv, NEW s \in Sids, TailReturns(s)
    PROVE  StreamInv'
<1> USE DEF redisVars
<1>1. UNCHANGED <<events, lost, epc, due, response, out, raised>> /\ found' = found \ {s}
  BY DEF TailReturns
<1>2. s \notin DOMAIN cursors BY DEF TailReturns, StreamInv, StreamOrder
<1>3. /\ DOMAIN cursors' = DOMAIN cursors \cup {s} /\ DOMAIN start' = DOMAIN start \cup {s}
      /\ cursors'[s] = Len(events[s]) /\ start'[s] = Len(events[s])
      /\ \A p \in DOMAIN cursors : cursors'[p] = cursors[p]
      /\ \A p \in DOMAIN start : start'[p] = start[p]
  <2>1. DOMAIN start = DOMAIN cursors BY DEF StreamInv, StreamTypes
  <2> QED BY <1>2, <2>1 DEF TailReturns, TailCursor
<1>4. Len(events[s]) \in Nat BY EventsLen
<1>5. StreamTypes'
  <2>1. DOMAIN cursors' \subseteq Sids /\ DOMAIN start' = DOMAIN cursors'
    BY <1>3 DEF StreamInv, StreamTypes
  <2>2. ASSUME NEW p \in DOMAIN cursors'
        PROVE  cursors'[p] \in 0 .. Len(events[p]) /\ start'[p] \in 0 .. cursors'[p]
    <3>1. CASE p = s BY <1>3, <1>4, <3>1
    <3>2. CASE p # s
      <4>1. p \in DOMAIN cursors /\ p \in DOMAIN start BY <1>3, <3>2 DEF StreamInv, StreamTypes
      <4> QED BY <1>3, <4>1 DEF StreamInv, StreamTypes
    <3> QED BY <3>1, <3>2
  <2> QED BY <1>1, <2>1, <2>2 DEF StreamInv, StreamTypes
<1>6. StreamOrder'
  <2>1. ASSUME NEW i \in DOMAIN response PROVE Ahead(response[i])'
    <3>1. PICK b : b = response[i] OBVIOUS
    <3>2. Ahead(b) BY <3>1 DEF StreamInv, StreamOrder
    <3>3. cursors'[b.sid] = cursors[b.sid] BY <1>3, <3>2 DEF Ahead
    <3> QED BY <1>1, <1>3, <3>1, <3>2, <3>3 DEF Ahead
  <2>2. found' \cap DOMAIN cursors' = {} BY <1>1, <1>3 DEF StreamInv, StreamOrder
  <2> QED BY <1>1, <2>1, <2>2 DEF StreamInv, StreamOrder
<1>7. EveryEntryOnce'
  <2> SUFFICES ASSUME NEW p \in Sids
               PROVE  /\ \A i, j \in DOMAIN out[p] : i < j => out[p][i].id < out[p][j].id
                      /\ p \notin DOMAIN cursors' => out[p] = <<>>
                      /\ p \in DOMAIN cursors' =>
                           /\ Forwarded(p) \subseteq start'[p] + 1 .. cursors'[p]
                           /\ \A n \in start'[p] + 1 .. cursors'[p] : Passed(p, n)
    BY <1>1 DEF EveryEntryOnce, Forwarded, Passed
  <2>1. /\ \A i, j \in DOMAIN out[p] : i < j => out[p][i].id < out[p][j].id
        /\ p \notin DOMAIN cursors' => out[p] = <<>>
    BY <1>3 DEF StreamInv, EveryEntryOnce
  <2>2. CASE p = s
    <3>1. out[p] = <<>> BY <1>2, <2>2 DEF StreamInv, EveryEntryOnce
    <3>2. Forwarded(p) = {} BY <3>1 DEF Forwarded
    <3>3. start'[p] + 1 .. cursors'[p] = {} BY <1>3, <1>4, <2>2
    <3> QED BY <2>1, <3>2, <3>3
  <2>3. CASE p # s
    <3>1. p \in DOMAIN cursors' => p \in DOMAIN cursors /\ p \in DOMAIN start
      BY <1>3, <2>3 DEF StreamInv, StreamTypes
    <3> QED BY <1>3, <2>1, <3>1 DEF StreamInv, EveryEntryOnce, Passed
  <2> QED BY <2>2, <2>3
<1> QED BY <1>5, <1>6, <1>7 DEF StreamInv

\* An XREAD response: what each stream with unread entries still holds of them.
LEMMA StreamReadReturned ==
    ASSUME RedisTypes, StreamInv, XreadReturns
    PROVE  StreamInv'
<1> USE DEF redisVars
<1> DEFINE ready == {s \in DOMAIN cursors : Unread(s, cursors[s]) # {}}
<1>1. PICK order \in SetToSeqs(ready) :
         response' = [i \in DOMAIN order |->
            [sid |-> order[i], next |-> Oldest(order[i], cursors[order[i]]),
             last |-> Len(events[order[i]])]]
  BY DEF XreadReturns
<1>2. ready # {} /\ epc' = "returned"
      /\ UNCHANGED <<events, lost, due, found, cursors, start, out, raised>>
  BY DEF XreadReturns
<1>3. ready \subseteq Sids BY DEF StreamInv, StreamTypes
<1>4. IsFiniteSet(ready) BY <1>3, FS_Subset, IntakeAssumption
<1>5. Cardinality(ready) \in Nat \ {0} BY <1>2, <1>4, FS_CardinalityType, FS_EmptySet
<1> DEFINE n == Cardinality(ready)
<1>6. order \in [1 .. n -> ready] /\ \A i, j \in 1 .. n : i # j => order[i] # order[j]
  BY <1>1 DEF SetToSeqs
<1> HIDE DEF n
<1>7. ASSUME NEW i \in 1 .. n
      PROVE  /\ response'[i] \in Batches /\ response'[i].sid = order[i]
             /\ Ahead(response'[i])
  <2>1. PICK s \in ready : s = order[i] BY <1>6
  <2>2. /\ response'[i].sid = s /\ response'[i].next = Oldest(s, cursors[s])
        /\ response'[i].last = Len(events[s])
        /\ response'[i] = [sid |-> s, next |-> Oldest(s, cursors[s]), last |-> Len(events[s])]
    BY <1>1, <1>6, <2>1
  <2>3. /\ s \in Sids /\ s \in DOMAIN cursors /\ Unread(s, cursors[s]) # {} BY <1>3
  <2>4. cursors[s] \in Nat /\ Len(events[s]) \in Nat /\ lost[s] \in Nat
    BY <2>3, EventsLen DEF StreamInv, StreamTypes
  <2>5. /\ Oldest(s, cursors[s]) \in Nat /\ cursors[s] < Oldest(s, cursors[s])
        /\ \A k \in cursors[s] + 1 .. Oldest(s, cursors[s]) - 1 : k <= lost[s]
    BY <2>4 DEF Oldest
  <2>6. Oldest(s, cursors[s]) <= Len(events[s])
    BY <2>3, <2>4, <2>5 DEF Unread
  <2> QED BY <2>1, <2>2, <2>3, <2>4, <2>5, <2>6 DEF Ahead, Batches
<1>8. response' \in Seq(Batches) /\ DOMAIN response' = 1 .. n /\ response' # <<>>
  <2>1. DOMAIN response' = 1 .. n BY <1>1, <1>6
  <2>2. response' = [i \in 1 .. n |-> response'[i]] BY <1>1, <1>6
  <2>3. n \in Nat /\ 1 \in 1 .. n BY <1>5 DEF n
  <2>4. response' \in [1 .. n -> Batches] BY <1>7, <2>2
  <2>5. response' \in Seq(Batches) BY <2>3, <2>4
  <2>6. response' # <<>> BY <2>1, <2>3
  <2> QED BY <2>1, <2>5, <2>6
<1>9. StreamTypes' BY <1>2, <1>8 DEF StreamInv, StreamTypes
<1>10. StreamOrder'
  <2>1. \A i \in DOMAIN response' : Ahead(response[i])'
    BY <1>2, <1>7, <1>8 DEF Ahead
  <2>2. \A i, j \in DOMAIN response' : i # j => response'[i].sid # response'[j].sid
    BY <1>6, <1>7, <1>8
  <2> QED BY <1>2, <2>1, <2>2 DEF StreamInv, StreamOrder
<1>11. EveryEntryOnce' BY <1>2 DEF StreamInv, EveryEntryOnce, Forwarded
<1> QED BY <1>9, <1>10, <1>11 DEF StreamInv

\* A cursor moves to an entry of the response; what is passed on the way was
\* lost, and the entry itself was forwarded, is noise, or raised.
LEMMA CursorMoved ==
    ASSUME RedisTypes, StreamInv, UNCHANGED <<events, lost, start>>,
           NEW b \in Batches, Ahead(b), cursors' = [cursors EXCEPT ![b.sid] = b.next],
           raised \subseteq raised',
           \A p \in Sids : p # b.sid => out'[p] = out[p],
           \A i, j \in DOMAIN out'[b.sid] : i < j => out'[b.sid][i].id < out'[b.sid][j].id,
           Forwarded(b.sid) \subseteq Forwarded(b.sid)',
           Forwarded(b.sid)' \subseteq Forwarded(b.sid) \cup {b.next},
           Passed(b.sid, b.next)'
    PROVE  EveryEntryOnce'
<1>1. b.sid \in Sids /\ b.next \in Nat /\ b.last \in Nat BY DEF Batches
<1>2. /\ DOMAIN cursors' = DOMAIN cursors /\ b.sid \in DOMAIN cursors
      /\ cursors'[b.sid] = b.next /\ \A p \in DOMAIN cursors : p # b.sid => cursors'[p] = cursors[p]
  BY DEF Ahead
<1>3. /\ cursors[b.sid] \in Nat /\ start[b.sid] \in 0 .. cursors[b.sid] /\ cursors[b.sid] < b.next
      /\ lost[b.sid] \in Nat
  BY <1>1, <1>2, EventsLen DEF StreamInv, StreamTypes, Ahead
<1> SUFFICES ASSUME NEW p \in Sids
             PROVE  /\ \A i, j \in DOMAIN out'[p] : i < j => out'[p][i].id < out'[p][j].id
                    /\ p \notin DOMAIN cursors => out'[p] = <<>>
                    /\ p \in DOMAIN cursors =>
                         /\ Forwarded(p)' \subseteq start[p] + 1 .. cursors'[p]
                         /\ \A n \in start[p] + 1 .. cursors'[p] : Passed(p, n)'
  BY <1>2 DEF EveryEntryOnce, Passed
<1>4. CASE p = b.sid
  <2>1. Forwarded(b.sid) \subseteq start[b.sid] + 1 .. cursors[b.sid]
    BY <1>1, <1>2 DEF StreamInv, EveryEntryOnce
  <2>2. Forwarded(b.sid)' \subseteq start[b.sid] + 1 .. b.next
    BY <1>1, <1>3, <2>1
  <2>3. ASSUME NEW n \in start[b.sid] + 1 .. b.next PROVE Passed(b.sid, n)'
    <3>1. CASE n <= cursors[b.sid]
      <4>1. n \in start[b.sid] + 1 .. cursors[b.sid] BY <1>3, <3>1
      <4>2. Passed(b.sid, n)
        BY <1>1, <1>2, <4>1 DEF StreamInv, EveryEntryOnce, Passed
      <4> QED BY <4>2 DEF Passed
    <3>2. CASE n > cursors[b.sid] /\ n # b.next
      <4>1. n \in cursors[b.sid] + 1 .. b.next - 1 BY <1>1, <1>3, <3>2
      <4> QED BY <4>1 DEF Ahead, Passed
    <3>3. CASE n = b.next BY <3>3
    <3> QED BY <1>1, <1>3, <3>1, <3>2, <3>3
  <2> QED BY <1>2, <1>4, <2>2, <2>3
<1>5. CASE p # b.sid
  <2>1. out'[p] = out[p] BY <1>5
  <2>2. Forwarded(p)' = Forwarded(p) BY <2>1 DEF Forwarded
  <2>3. p \in DOMAIN cursors => cursors'[p] = cursors[p] BY <1>2, <1>5
  <2> QED BY <2>1, <2>2, <2>3 DEF StreamInv, EveryEntryOnce, Passed
<1> QED BY <1>4, <1>5

LEMMA CursorTypes ==
    ASSUME RedisTypes, StreamTypes, NEW b \in Batches, Ahead(b),
           cursors' = [cursors EXCEPT ![b.sid] = b.next], UNCHANGED <<events, start>>
    PROVE  /\ DOMAIN cursors' \subseteq Sids /\ DOMAIN start' = DOMAIN cursors'
           /\ \A s \in DOMAIN cursors' : /\ cursors'[s] \in 0 .. Len(events'[s])
                                         /\ start'[s] \in 0 .. cursors'[s]
<1>1. b.sid \in Sids /\ b.next \in Nat /\ b.last \in Nat BY DEF Batches
<1>2. Len(events[b.sid]) \in Nat BY <1>1, EventsLen
<1>3. b.next <= Len(events[b.sid]) /\ cursors[b.sid] \in Nat /\ cursors[b.sid] < b.next
  BY <1>1, <1>2 DEF Ahead, StreamTypes
<1>4. ASSUME NEW s \in DOMAIN cursors
      PROVE  cursors'[s] \in 0 .. Len(events[s]) /\ start[s] \in 0 .. cursors'[s]
  <2>1. CASE s = b.sid
    <3>1. cursors'[s] = b.next BY <2>1
    <3>2. start[s] \in 0 .. cursors[b.sid] BY <2>1 DEF StreamTypes
    <3> QED BY <1>1, <1>2, <1>3, <2>1, <3>1, <3>2
  <2>2. CASE s # b.sid BY <2>2 DEF StreamTypes
  <2> QED BY <2>1, <2>2
<1> QED BY <1>4 DEF StreamTypes

LEMMA ResponseHead ==
    ASSUME StreamInv, epc \in {"returned", "forwarding"}
    PROVE  /\ response # <<>> /\ response \in Seq(Batches) /\ Len(response) \in Nat \ {0}
           /\ DOMAIN response = 1 .. Len(response) /\ 1 \in DOMAIN response
           /\ Head(response) = response[1] /\ Head(response) \in Batches /\ Ahead(Head(response))
<1>1. response # <<>> /\ response \in Seq(Batches) BY DEF StreamInv, StreamTypes
<1>2. Len(response) \in Nat \ {0} /\ DOMAIN response = 1 .. Len(response) /\ Head(response) = response[1]
  BY <1>1
<1>3. 1 \in DOMAIN response BY <1>2
<1>4. Ahead(response[1]) /\ response[1] \in Batches BY <1>1, <1>3 DEF StreamInv, StreamOrder
<1> QED BY <1>1, <1>2, <1>3, <1>4

LEMMA TailShape ==
    ASSUME NEW S, NEW q \in Seq(S), Len(q) # 0
    PROVE  /\ Tail(q) \in Seq(S) /\ DOMAIN Tail(q) = 1 .. Len(q) - 1
           /\ \A i \in DOMAIN Tail(q) : Tail(q)[i] = q[i + 1]
OBVIOUS

LEMMA LenType == ASSUME NEW S, NEW q \in Seq(S) PROVE Len(q) \in Nat
OBVIOUS

\* The response without its first entry.
LEMMA ResponseMoved ==
    ASSUME RedisTypes, StreamInv, epc \in {"returned", "forwarding"},
           UNCHANGED <<events, lost, found>>,
           NEW b, b = Head(response), cursors' = [cursors EXCEPT ![b.sid] = b.next],
           response' = IF b.next = b.last THEN Tail(response)
                       ELSE [response EXCEPT ![1].next = b.next + 1]
    PROVE  response' \in Seq(Batches) /\ StreamOrder'
<1>1. /\ response \in Seq(Batches) /\ Len(response) \in Nat \ {0}
      /\ DOMAIN response = 1 .. Len(response) /\ 1 \in DOMAIN response
      /\ b = response[1] /\ b \in Batches /\ Ahead(b)
  BY ResponseHead
<1>2. b.sid \in Sids /\ b.next \in Nat /\ b.last \in Nat BY <1>1 DEF Batches
<1>3. /\ DOMAIN cursors' = DOMAIN cursors /\ cursors'[b.sid] = b.next
      /\ \A p \in DOMAIN cursors : p # b.sid => cursors'[p] = cursors[p]
  BY <1>1 DEF Ahead
<1>4. \A i, j \in DOMAIN response : i # j => response[i].sid # response[j].sid
  BY DEF StreamInv, StreamOrder
<1>5. \A i \in DOMAIN response : Ahead(response[i]) BY DEF StreamInv, StreamOrder
<1>6. ASSUME NEW i \in DOMAIN response, i # 1
      PROVE  /\ response[i].sid \in DOMAIN cursors' /\ cursors'[response[i].sid] = cursors[response[i].sid]
             /\ cursors'[response[i].sid] < response[i].next /\ response[i].next <= response[i].last
             /\ response[i].last <= Len(events'[response[i].sid])
             /\ \A n \in cursors'[response[i].sid] + 1 .. response[i].next - 1 : n <= lost'[response[i].sid]
  <2>1. response[i].sid # b.sid BY <1>1, <1>4, <1>6
  <2>2. Ahead(response[i]) BY <1>5
  <2>3. response[i].sid \in DOMAIN cursors /\ cursors'[response[i].sid] = cursors[response[i].sid]
    BY <1>3, <2>1, <2>2 DEF Ahead
  <2> QED BY <1>3, <2>2, <2>3 DEF Ahead
<1>7. found' \cap DOMAIN cursors' = {} BY <1>3 DEF StreamInv, StreamOrder
<1>8. CASE b.next = b.last
  <2>1. response' = Tail(response) BY <1>8
  <2>2. /\ response' \in Seq(Batches) /\ DOMAIN response' = 1 .. Len(response) - 1
        /\ \A i \in DOMAIN response' : response'[i] = response[i + 1]
    <3>1. /\ Tail(response) \in Seq(Batches) /\ DOMAIN Tail(response) = 1 .. Len(response) - 1
          /\ \A i \in DOMAIN Tail(response) : Tail(response)[i] = response[i + 1]
      BY <1>1, TailShape
    <3> QED BY <2>1, <3>1
  <2>3. \A i \in DOMAIN response' : i + 1 \in DOMAIN response /\ i + 1 # 1
    BY <1>1, <2>2
  <2>4. ASSUME NEW i \in DOMAIN response' PROVE Ahead(response[i])'
    <3>1. PICK j \in DOMAIN response : j = i + 1 /\ j # 1 BY <2>3
    <3>2. response'[i] = response[j] BY <2>2, <3>1
    <3> QED BY <1>6, <3>1, <3>2 DEF Ahead
  <2>5. \A i, j \in DOMAIN response' : i # j => response'[i].sid # response'[j].sid
    <3>1. ASSUME NEW i \in DOMAIN response', NEW j \in DOMAIN response', i # j
          PROVE  response'[i].sid # response'[j].sid
      <4>1. i + 1 # j + 1 BY <2>2, <3>1
      <4> QED BY <1>4, <2>2, <2>3, <4>1
    <3> QED BY <3>1
  <2> QED BY <1>7, <2>2, <2>4, <2>5 DEF StreamOrder
<1>9. CASE b.next # b.last
  <2>1. response' = [response EXCEPT ![1].next = b.next + 1] BY <1>9
  <2> DEFINE rest == [b EXCEPT !.next = b.next + 1]
  <2>2. /\ rest.sid = b.sid /\ rest.next = b.next + 1 /\ rest.last = b.last /\ rest \in Batches
    BY <1>1, <1>2 DEF Batches
  <2>3. response' = [response EXCEPT ![1] = rest] BY <1>1, <2>1
  <2> HIDE DEF rest
  <2>4. /\ response' \in Seq(Batches) /\ DOMAIN response' = DOMAIN response
        /\ response'[1] = rest /\ \A i \in DOMAIN response : i # 1 => response'[i] = response[i]
    BY <1>1, <2>2, <2>3
  <2>5. ASSUME NEW i \in DOMAIN response' PROVE Ahead(response[i])'
    <3>1. CASE i = 1
      <4>1. Len(events[b.sid]) \in Nat BY <1>2, EventsLen
      <4>2. b.next <= b.last /\ b.last <= Len(events[b.sid]) /\ b.sid \in DOMAIN cursors
        BY <1>1 DEF Ahead
      <4>3. b.next + 1 <= b.last /\ b.next < b.next + 1 /\ b.next + 1 .. (b.next + 1) - 1 = {}
        BY <1>2, <1>9, <4>2
      <4> QED BY <1>3, <2>2, <2>4, <3>1, <4>2, <4>3 DEF Ahead
    <3>2. CASE i # 1
      <4>1. i \in DOMAIN response /\ response'[i] = response[i] BY <2>4, <3>2
      <4> QED BY <1>6, <3>2, <4>1 DEF Ahead
    <3> QED BY <3>1, <3>2
  <2>6. \A i \in DOMAIN response : response'[i].sid = response[i].sid
    BY <1>1, <2>2, <2>4
  <2>7. \A i, j \in DOMAIN response' : i # j => response'[i].sid # response'[j].sid
    BY <1>4, <2>4, <2>6
  <2> QED BY <1>7, <2>4, <2>5, <2>7 DEF StreamOrder
<1> QED BY <1>8, <1>9

LEMMA RouteMode ==
    ASSUME NEW reg, NEW s, NEW kind
    PROVE  Route(reg, s, kind) \in ChannelModes
BY DEF Route, EffectiveMode, ChannelModes

\* Appending an entry newer than all before.
LEMMA AppendEntry ==
    ASSUME NEW q \in Seq([id : Nat, chan : ChannelModes]),
           NEW e \in [id : Nat, chan : ChannelModes],
           \A i, j \in DOMAIN q : i < j => q[i].id < q[j].id,
           \A i \in DOMAIN q : q[i].id < e.id,
           NEW r, r = Append(q, e)
    PROVE  /\ r \in Seq([id : Nat, chan : ChannelModes])
           /\ \A i, j \in DOMAIN r : i < j => r[i].id < r[j].id
           /\ {r[i].id : i \in DOMAIN r} = {q[i].id : i \in DOMAIN q} \cup {e.id}
<1>1. /\ r \in Seq([id : Nat, chan : ChannelModes])
      /\ Len(q) \in Nat /\ DOMAIN q = 1 .. Len(q) /\ DOMAIN r = 1 .. Len(q) + 1
      /\ r[Len(q) + 1] = e /\ \A i \in 1 .. Len(q) : r[i] = q[i]
  OBVIOUS
<1>2. ASSUME NEW i \in DOMAIN r, NEW j \in DOMAIN r, i < j PROVE r[i].id < r[j].id
  <2>1. i \in 1 .. Len(q) BY <1>1, <1>2
  <2>2. CASE j \in 1 .. Len(q) BY <1>1, <1>2, <2>1, <2>2
  <2>3. CASE j = Len(q) + 1 BY <1>1, <2>1, <2>3
  <2> QED BY <1>1, <2>2, <2>3
<1>3. {r[i].id : i \in DOMAIN r} = {q[i].id : i \in DOMAIN q} \cup {e.id}
  <2>1. \A i \in DOMAIN r : r[i].id \in {q[k].id : k \in DOMAIN q} \cup {e.id}
    <3>1. \A i \in DOMAIN r : i \in 1 .. Len(q) \/ i = Len(q) + 1 BY <1>1
    <3> QED BY <1>1, <3>1
  <2>2. \A k \in DOMAIN q : k \in DOMAIN r /\ r[k].id = q[k].id BY <1>1
  <2>3. Len(q) + 1 \in DOMAIN r /\ r[Len(q) + 1].id = e.id BY <1>1
  <2> QED BY <2>1, <2>2, <2>3
<1> QED BY <1>1, <1>2, <1>3

LEMMA StreamForwarded ==
    ASSUME RedisTypes, StreamInv, ForwardNext
    PROVE  StreamInv'
<1> USE DEF redisVars
<1>1. PICK b : b = Head(response) OBVIOUS
<1>2. PICK kind : kind = events[b.sid][b.next] OBVIOUS
<1> DEFINE e == [id |-> b.next, chan |-> Route(registry, b.sid, kind)]
<1>3. /\ epc \in {"returned", "forwarding"}
      /\ cursors' = [cursors EXCEPT ![b.sid] = b.next]
      /\ UNCHANGED <<events, lost, found, start, due, raised>>
  BY <1>1, Zenon DEF ForwardNext
<1>4. out' = IF kind = "noise" THEN out ELSE [out EXCEPT ![b.sid] = Append(out[b.sid], e)]
  BY <1>1, <1>2 DEF ForwardNext
<1>5. response' = IF b.next = b.last THEN Tail(response)
                  ELSE [response EXCEPT ![1].next = b.next + 1]
  BY <1>1 DEF ForwardNext
<1>6. epc' = IF response' = <<>> THEN "top" ELSE "forwarding" BY DEF ForwardNext
<1>7. b \in Batches /\ Ahead(b) BY <1>1, <1>3, ResponseHead
<1>8. b.sid \in Sids /\ b.next \in Nat BY <1>7 DEF Batches
<1>9. response' \in Seq(Batches) /\ StreamOrder' BY <1>1, <1>3, <1>5, ResponseMoved
<1>10. e \in [id : Nat, chan : ChannelModes] BY <1>8, RouteMode
<1>11. out[b.sid] \in Seq([id : Nat, chan : ChannelModes]) /\ out \in [Sids -> Seq([id : Nat, chan : ChannelModes])]
  BY <1>8 DEF StreamInv, StreamTypes
<1>12. b.sid \in DOMAIN cursors /\ cursors[b.sid] \in Nat /\ cursors[b.sid] < b.next
       /\ start[b.sid] \in Nat
  BY <1>7, <1>8, EventsLen DEF Ahead, StreamInv, StreamTypes
<1>13. \A i \in DOMAIN out[b.sid] : out[b.sid][i].id < b.next
  <2>1. Forwarded(b.sid) \subseteq start[b.sid] + 1 .. cursors[b.sid]
    BY <1>8, <1>12 DEF StreamInv, EveryEntryOnce
  <2>2. \A n \in Forwarded(b.sid) : n < b.next BY <1>8, <1>12, <2>1
  <2> QED BY <2>2 DEF Forwarded
<1>14. \A i, j \in DOMAIN out[b.sid] : i < j => out[b.sid][i].id < out[b.sid][j].id
  BY <1>8 DEF StreamInv, EveryEntryOnce
<1>15. CASE kind = "noise"
  <2>1. out' = out BY <1>4, <1>15
  <2>2. Forwarded(b.sid)' = Forwarded(b.sid) BY <2>1 DEF Forwarded
  <2>3. Passed(b.sid, b.next)' BY <1>2, <1>3, <1>15 DEF Passed
  <2>4. EveryEntryOnce'
    BY <1>3, <1>7, <1>14, <2>1, <2>2, <2>3, CursorMoved
  <2>5. StreamTypes'
    <3>1. /\ DOMAIN cursors' \subseteq Sids /\ DOMAIN start' = DOMAIN cursors'
          /\ \A s \in DOMAIN cursors' : /\ cursors'[s] \in 0 .. Len(events'[s])
                                        /\ start'[s] \in 0 .. cursors'[s]
      BY <1>3, <1>7, CursorTypes DEF StreamInv
    <3>2. /\ epc' \in {"top", "globbing", "tails", "reading", "returned", "forwarding"}
          /\ (response' # <<>>) = (epc' \in {"returned", "forwarding"})
      BY <1>6
    <3>3. found' \subseteq Sids /\ due' \in BOOLEAN /\ raised' \subseteq Entries
      BY <1>3 DEF StreamInv, StreamTypes
    <3> QED BY <1>9, <1>11, <2>1, <3>1, <3>2, <3>3 DEF StreamTypes
  <2> QED BY <1>9, <2>4, <2>5 DEF StreamInv
<1>16. CASE kind # "noise"
  <2>1. out' = [out EXCEPT ![b.sid] = Append(out[b.sid], e)] BY <1>4, <1>16
  <2>2. e.id = b.next OBVIOUS
  <2> HIDE DEF e
  <2>3. /\ out'[b.sid] = Append(out[b.sid], e)
        /\ \A p \in Sids : p # b.sid => out'[p] = out[p]
    BY <1>8, <1>11, <2>1
  <2>4. PICK r : r = Append(out[b.sid], e) OBVIOUS
  <2>5. /\ r \in Seq([id : Nat, chan : ChannelModes])
        /\ \A i, j \in DOMAIN r : i < j => r[i].id < r[j].id
        /\ {r[i].id : i \in DOMAIN r} = {out[b.sid][i].id : i \in DOMAIN out[b.sid]} \cup {e.id}
    <3>1. PICK q : q = out[b.sid] OBVIOUS
    <3>2. /\ q \in Seq([id : Nat, chan : ChannelModes])
          /\ \A i, j \in DOMAIN q : i < j => q[i].id < q[j].id
          /\ \A i \in DOMAIN q : q[i].id < e.id
          /\ r = Append(q, e)
      BY <1>11, <1>13, <1>14, <2>2, <2>4, <3>1
    <3>3. /\ r \in Seq([id : Nat, chan : ChannelModes])
          /\ \A i, j \in DOMAIN r : i < j => r[i].id < r[j].id
          /\ {r[i].id : i \in DOMAIN r} = {q[i].id : i \in DOMAIN q} \cup {e.id}
      BY <1>10, <3>2, AppendEntry
    <3> QED BY <3>1, <3>3
  <2>6. out'[b.sid] = r BY <2>3, <2>4
  <2>7. Forwarded(b.sid)' = Forwarded(b.sid) \cup {b.next}
    BY <2>2, <2>5, <2>6 DEF Forwarded
  <2>8. Passed(b.sid, b.next)' BY <2>7 DEF Passed
  <2>9. \A i, j \in DOMAIN out'[b.sid] : i < j => out'[b.sid][i].id < out'[b.sid][j].id
    BY <2>5, <2>6
  <2>10. Forwarded(b.sid) \subseteq Forwarded(b.sid)'
         /\ Forwarded(b.sid)' \subseteq Forwarded(b.sid) \cup {b.next}
    BY <2>7
  <2>11. EveryEntryOnce'
    BY <1>3, <1>7, <2>3, <2>8, <2>9, <2>10, CursorMoved
  <2>12. StreamTypes'
    <3>1. /\ DOMAIN cursors' \subseteq Sids /\ DOMAIN start' = DOMAIN cursors'
          /\ \A s \in DOMAIN cursors' : /\ cursors'[s] \in 0 .. Len(events'[s])
                                        /\ start'[s] \in 0 .. cursors'[s]
      BY <1>3, <1>7, CursorTypes DEF StreamInv
    <3>2. out' \in [Sids -> Seq([id : Nat, chan : ChannelModes])]
      BY <1>11, <2>1, <2>4, <2>5
    <3>3. /\ epc' \in {"top", "globbing", "tails", "reading", "returned", "forwarding"}
          /\ (response' # <<>>) = (epc' \in {"returned", "forwarding"})
      BY <1>6
    <3>4. found' \subseteq Sids /\ due' \in BOOLEAN /\ raised' \subseteq Entries
      BY <1>3 DEF StreamInv, StreamTypes
    <3> QED BY <1>9, <3>1, <3>2, <3>3, <3>4 DEF StreamTypes
  <2> QED BY <1>9, <2>11, <2>12 DEF StreamInv
<1> QED BY <1>15, <1>16

LEMMA StreamRaised ==
    ASSUME RedisTypes, StreamInv, NEW s \in Sids, ForwardRaises(s)
    PROVE  StreamInv'
<1> USE DEF redisVars
<1>1. PICK b : b = Head(response) OBVIOUS
<1>2. /\ epc \in {"returned", "forwarding"}
      /\ cursors' = [cursors EXCEPT ![b.sid] = b.next]
      /\ raised' = raised \cup {[sid |-> b.sid, id |-> b.next]}
      /\ response' = <<>> /\ epc' = "top"
      /\ UNCHANGED <<events, lost, found, start, due, out>>
  BY <1>1 DEF ForwardRaises
<1>3. b \in Batches /\ Ahead(b) BY <1>1, <1>2, ResponseHead
<1>4. b.sid \in Sids /\ b.next \in Nat BY <1>3 DEF Batches
<1>5. Passed(b.sid, b.next)' BY <1>2 DEF Passed
<1>6. Forwarded(b.sid)' = Forwarded(b.sid) BY <1>2 DEF Forwarded
<1>7. \A i, j \in DOMAIN out[b.sid] : i < j => out[b.sid][i].id < out[b.sid][j].id
  BY <1>4 DEF StreamInv, EveryEntryOnce
<1>8. EveryEntryOnce' BY <1>2, <1>3, <1>5, <1>6, <1>7, CursorMoved
<1>9. StreamTypes'
  <2>1. /\ DOMAIN cursors' \subseteq Sids /\ DOMAIN start' = DOMAIN cursors'
        /\ \A p \in DOMAIN cursors' : /\ cursors'[p] \in 0 .. Len(events'[p])
                                      /\ start'[p] \in 0 .. cursors'[p]
    BY <1>2, <1>3, CursorTypes DEF StreamInv
  <2>2. raised' \subseteq Entries BY <1>2, <1>4 DEF Entries, StreamInv, StreamTypes
  <2>3. /\ epc' \in {"top", "globbing", "tails", "reading", "returned", "forwarding"}
        /\ (response' # <<>>) = (epc' \in {"returned", "forwarding"})
        /\ response' \in Seq(Batches)
    BY <1>2
  <2>4. /\ found' \subseteq Sids /\ due' \in BOOLEAN
        /\ out' \in [Sids -> Seq([id : Nat, chan : ChannelModes])]
    BY <1>2 DEF StreamInv, StreamTypes
  <2> QED BY <2>1, <2>2, <2>3, <2>4 DEF StreamTypes
<1>10. StreamOrder'
  <2>1. DOMAIN cursors' = DOMAIN cursors BY <1>2
  <2> QED BY <1>2, <2>1 DEF StreamInv, StreamOrder
<1> QED BY <1>8, <1>9, <1>10 DEF StreamInv

LEMMA StreamEmpty ==
    ASSUME RedisTypes, response = <<>>, cursors = NoEntries, start = NoEntries, found = {},
           epc = "top", due = TRUE, raised = {}, out = [s \in Sids |-> <<>>]
    PROVE  StreamInv
<1>1. StreamTypes BY DEF StreamTypes, NoEntries
<1>2. StreamOrder BY DEF StreamOrder
<1>3. EveryEntryOnce BY DEF EveryEntryOnce, NoEntries
<1> QED BY <1>1, <1>2, <1>3 DEF StreamInv

LEMMA StreamNext == ASSUME RedisTypes, StreamInv, [Next]_vars PROVE StreamInv'
<1> USE DEF redisVars
<1>1. RedisTypes' BY RedisNext
<1>2. \A s \in Sids : Len(events[s]) \in Nat /\ lost[s] \in Nat /\ lost[s] <= Len(events[s])
  BY DEF RedisTypes
<1>3. UNCHANGED <<events, lost, streamVars>> => StreamInv' BY <1>1, <1>2, StreamKept
<1>4. ASSUME NEW s \in Sids, NEW kind \in Kinds[s], Publish(s, kind) PROVE StreamInv'
  <2>1. events' = [events EXCEPT ![s] = Append(events[s], kind)] /\ UNCHANGED <<lost, streamVars>>
    BY <1>4 DEF Publish
  <2>2. kind \in AllKinds /\ events[s] \in Seq(AllKinds) BY IntakeAssumption, EventsLen
  <2>3. Len(Append(events[s], kind)) = Len(events[s]) + 1
        /\ \A n \in DOMAIN events[s] : Append(events[s], kind)[n] = events[s][n]
    BY <2>2
  <2>4. ASSUME NEW p \in Sids
        PROVE  /\ Len(events[p]) <= Len(events'[p]) /\ lost[p] <= lost'[p]
               /\ \A n \in DOMAIN events[p] : events'[p][n] = events[p][n]
    <3>1. CASE p = s
      <4>1. events'[p] = Append(events[s], kind) BY <2>1, <3>1 DEF RedisTypes
      <4> QED BY <1>2, <2>1, <2>3, <3>1, <4>1
    <3>2. CASE p # s
      <4>1. events'[p] = events[p] BY <2>1, <3>2
      <4> QED BY <1>2, <2>1, <4>1
    <3> QED BY <3>1, <3>2
  <2> QED BY <1>1, <2>1, <2>4, StreamKept
<1>5. ASSUME Flush PROVE StreamInv'
  <2>1. UNCHANGED <<events, streamVars>> /\ lost' = [s \in Sids |-> Len(events[s])]
    BY <1>5 DEF Flush
  <2> QED BY <1>1, <1>2, <2>1, StreamKept
<1>6. ASSUME Top \/ GlobReturns \/ Discovered \/ XreadTimesOut \/ StreamRedisFails
      PROVE  StreamInv'
  <2>1. UNCHANGED <<redisVars, cursors, start, response, out, raised>>
    BY <1>6 DEF Top, GlobReturns, Discovered, XreadTimesOut, StreamRedisFails
  <2>2. found' \subseteq Sids /\ found' \cap DOMAIN cursors = {}
    BY <1>6 DEF Top, GlobReturns, Discovered, XreadTimesOut, StreamRedisFails, NewStreams,
                StreamInv, StreamTypes, StreamOrder
  <2>3. /\ due' \in BOOLEAN /\ epc' \in {"top", "globbing", "tails", "reading"}
        /\ epc \in {"top", "globbing", "tails", "reading"}
    BY <1>6 DEF Top, GlobReturns, Discovered, XreadTimesOut, StreamRedisFails, ReadOrIdle,
                StreamInv, StreamTypes
  <2>4. response = <<>> BY <2>3 DEF StreamInv, StreamTypes
  <2> QED BY <2>1, <2>2, <2>3, <2>4, StreamIdle
<1>7. ASSUME Restart PROVE StreamInv'
  <2>1. /\ response' = <<>> /\ cursors' = NoEntries /\ start' = NoEntries /\ found' = {}
        /\ epc' = "top" /\ due' = TRUE /\ raised' = {} /\ out' = [s \in Sids |-> <<>>]
    BY <1>7 DEF Restart
  <2>2. StreamTypes' BY <2>1 DEF StreamTypes, NoEntries
  <2>3. StreamOrder' BY <2>1 DEF StreamOrder
  <2>4. EveryEntryOnce' BY <2>1 DEF EveryEntryOnce, NoEntries
  <2> QED BY <2>2, <2>3, <2>4 DEF StreamInv
<1>8. (\E b \in Boots : Announce(b)) \/ (\E s \in Commanded : Command(s)) \/ AutoStep \/ AutoRedisFails
        => UNCHANGED <<events, lost, streamVars>>
  BY DEF Announce, Command, AutoStep, AutoRedisFails, AnnouncesRead, AnnouncesApplied, ScanLists,
         ScanAdds, ScanReturns
<1>9. UNCHANGED vars => UNCHANGED <<events, lost, streamVars>> BY DEF vars
<1>10. XreadReturns => StreamInv' BY StreamReadReturned
<1>11. ForwardNext => StreamInv' BY StreamForwarded
<1>12. \A s \in Sids : TailReturns(s) => StreamInv' BY StreamWatched
<1>13. \A s \in Sids : ForwardRaises(s) => StreamInv' BY StreamRaised
<1> QED BY <1>3, <1>4, <1>5, <1>6, <1>7, <1>8, <1>9, <1>10, <1>11, <1>12, <1>13 DEF Next, StreamStep

-----------------------------------------------------------------------------
(* The theorems.                                                           *)

IntakeInv == RedisTypes /\ AutoInv /\ StreamInv /\ faults \in 0 .. MaxFaults

LEMMA IntakeInit == ASSUME Init PROVE IntakeInv
<1>1. RedisTypes BY DEF Init, RedisTypes
<1>2. AutoInv BY AutoInit
<1>3. StreamInv BY <1>1, StreamEmpty DEF Init
<1>4. faults \in 0 .. MaxFaults BY IntakeAssumption DEF Init
<1> QED BY <1>1, <1>2, <1>3, <1>4 DEF IntakeInv

LEMMA IntakeNext == ASSUME IntakeInv, [Next]_vars PROVE IntakeInv'
<1>1. RedisTypes' /\ AutoInv' /\ StreamInv' BY RedisNext, AutoNext, StreamNext DEF IntakeInv
<1>2. UNCHANGED faults \/ Fault
  BY DEF Next, vars, Announce, Publish, Command, AutoStep, StreamStep, AnnouncesRead, AnnouncesApplied,
         ScanLists, ScanAdds, ScanReturns, Top, GlobReturns, TailReturns, Discovered, XreadReturns,
         XreadTimesOut, ForwardNext, ForwardRaises, StreamRedisFails, AutoRedisFails, Flush, Restart
<1>3. faults' \in 0 .. MaxFaults BY <1>2, IntakeAssumption DEF IntakeInv, Fault
<1> QED BY <1>1, <1>3 DEF IntakeInv

LEMMA Invariance == Spec => []IntakeInv
<1>1. Init => IntakeInv BY IntakeInit
<1>2. IntakeInv /\ [Next]_vars => IntakeInv' BY IntakeNext
<1> QED BY <1>1, <1>2, PTL DEF Spec

\* Every variable has its type in every reachable state, whatever the pods,
\* operators and faults.
THEOREM TypeCorrect == Spec => []TypeOK
<1>1. IntakeInv => TypeOK BY DEF IntakeInv, AutoInv, StreamInv, TypeOK
<1> QED BY <1>1, Invariance, PTL

\* The registry holds the newest mode heard of each strategy: the announce
\* cursor is never behind what was heard, so each batch is newer than all that
\* the registry already tells.
THEOREM RegistryIsNewest == Spec => []RegistryNewest
<1>1. IntakeInv => RegistryNewest BY DEF IntakeInv, AutoInv
<1> QED BY <1>1, Invariance, PTL

\* Every drifted handshake heard since the start is warned about exactly once.
THEOREM WarnedOnce == Spec => []DriftWarnedOnce
<1>1. IntakeInv => DriftWarnedOnce BY DEF IntakeInv, AutoInv, Warned, DriftWarnedOnce
<1> QED BY <1>1, Invariance, PTL

\* Watched streams are read without gaps and without repetition.
THEOREM EntriesOnce == Spec => []EveryEntryOnce
<1>1. IntakeInv => EveryEntryOnce BY DEF IntakeInv, StreamInv
<1> QED BY <1>1, Invariance, PTL

\* A handle that is registered resolves to itself.
LEMMA ResolveKnown ==
    ASSUME NEW reg, NEW s \in Sids, s \in DOMAIN reg
    PROVE  Resolve(reg, s) = s
<1>1. /\ HandlesOf[s] \in Seq(Sids) /\ HandlesOf[s] # <<>> /\ Head(HandlesOf[s]) = s
  BY IntakeAssumption
<1>2. 1 \in DOMAIN HandlesOf[s] /\ HandlesOf[s][1] = s /\ DOMAIN HandlesOf[s] = 1 .. Len(HandlesOf[s])
  BY <1>1
<1>3. 1 \in Known(reg, s) /\ \A i \in Known(reg, s) : i \in Nat /\ 1 <= i
  BY <1>2 DEF Known
<1>4. Min(Known(reg, s)) = 1
  <2> DEFINE K == Known(reg, s)
  <2> HIDE DEF K
  <2>1. 1 \in K /\ \A i \in K : i \in Nat /\ 1 <= i BY <1>3 DEF K
  <2>2. \A i \in K : (\A j \in K : i <= j) => i = 1 BY <2>1
  <2>3. Min(K) = CHOOSE i \in K : \A j \in K : i <= j BY DEF Min
  <2>4. Min(K) = 1 BY <2>1, <2>2, <2>3
  <2> QED BY <2>4 DEF K
<1> QED BY <1>2, <1>3, <1>4 DEF Resolve

\* A trade event goes where its pod's newest announce says.
THEOREM EventsRouted == Spec => RoutedAsAnnounced
<1> DEFINE Routed ==
      \A s \in Sids :
          Len(out'[s]) > Len(out[s]) /\ Newest(heard, s) # 0
            /\ events[s][Last(out'[s]).id] = "trade"
          => Last(out'[s]).chan = announces[Newest(heard, s)].mode
<1>1. ASSUME IntakeInv, ForwardNext, NEW s \in Sids, Len(out'[s]) > Len(out[s]),
             Newest(heard, s) # 0, events[s][Last(out'[s]).id] = "trade"
      PROVE  Last(out'[s]).chan = announces[Newest(heard, s)].mode
  <2>1. PICK b : b = Head(response) OBVIOUS
  <2>2. PICK kind : kind = events[b.sid][b.next] OBVIOUS
  <2>3. out' = IF kind = "noise" THEN out
               ELSE [out EXCEPT ![b.sid] =
                  Append(out[b.sid], [id |-> b.next, chan |-> Route(registry, b.sid, kind)])]
    BY <1>1, <2>1, <2>2 DEF ForwardNext
  <2>4. out[s] \in Seq([id : Nat, chan : ChannelModes]) /\ Len(out[s]) \in Nat
        /\ out \in [Sids -> Seq([id : Nat, chan : ChannelModes])]
    <3>1. out \in [Sids -> Seq([id : Nat, chan : ChannelModes])]
      BY <1>1 DEF IntakeInv, StreamInv, StreamTypes
    <3>2. out[s] \in Seq([id : Nat, chan : ChannelModes]) BY <3>1
    <3>3. Len(out[s]) \in Nat BY <3>2, LenType
    <3> QED BY <3>1, <3>2, <3>3
  <2>5. s = b.sid /\ kind # "noise" BY <1>1, <2>3, <2>4
  <2> DEFINE e == [id |-> b.next, chan |-> Route(registry, b.sid, kind)]
  <2>6. out'[s] = Append(out[s], e) BY <2>3, <2>4, <2>5
  <2>7. e.id = b.next /\ e.chan = Route(registry, b.sid, kind) OBVIOUS
  <2> HIDE DEF e
  <2>8. Last(out'[s]) = e
    <3>1. e \in [id : Nat, chan : ChannelModes]
      <4>1. b \in Batches BY <1>1, <2>1, ResponseHead DEF IntakeInv, ForwardNext
      <4> QED BY <4>1, RouteMode DEF Batches, e
    <3> QED BY <2>4, <2>6, <3>1 DEF Last
  <2>9. kind = "trade" BY <1>1, <2>2, <2>5, <2>7, <2>8
  <2>10. s \in DOMAIN registry
    <3>1. \E i \in heard : announces[i].sid = s BY <1>1, NewestNone
    <3> QED BY <1>1, <3>1 DEF IntakeInv, AutoInv, RegistryNewest
  <2>11. registry[s] = announces[Newest(heard, s)].mode /\ registry[s] \in Modes
    BY <1>1, <2>10 DEF IntakeInv, AutoInv, AutoTypes, RegistryNewest
  <2>12. Resolve(registry, s) = s BY <2>10, ResolveKnown
  <2>13. Route(registry, s, kind) = registry[s]
    BY <2>9, <2>10, <2>11, <2>12 DEF Route, EffectiveMode, Modes
  <2> QED BY <2>5, <2>7, <2>8, <2>11, <2>13
<1>2. ASSUME IntakeInv, [Next]_vars, ~ForwardNext PROVE Routed
  <2>1. UNCHANGED out \/ out' = [s \in Sids |-> <<>>]
    BY <1>2 DEF Next, vars, streamVars, Announce, Publish, Command, AutoStep, StreamStep,
         AnnouncesRead, AnnouncesApplied, ScanLists, ScanAdds, ScanReturns, Top, GlobReturns,
         TailReturns, Discovered, XreadReturns, XreadTimesOut, ForwardRaises, StreamRedisFails,
         AutoRedisFails, Flush, Restart
  <2>2. \A s \in Sids : Len(out[s]) \in Nat BY <1>2 DEF IntakeInv, StreamInv, StreamTypes
  <2>3. \A s \in Sids : ~(Len(out'[s]) > Len(out[s])) BY <2>1, <2>2
  <2> QED BY <2>3
<1>3. IntakeInv /\ [Next]_vars => Routed BY <1>1, <1>2
<1> QED BY <1>3, Invariance, PTL DEF Spec, RoutedAsAnnounced
=============================================================================
