----------------------- MODULE SandboxRecovery_proofs -----------------------
(***************************************************************************)
(* Proofs about SandboxRecovery, for any pods, orders, venues, settings    *)
(* and number of boots.  The inductive invariant relates the three places  *)
(* a pod's truth is kept in: on a clean venue without a fill since the     *)
(* boot the snapshot agrees with the cache in Redis, the account agrees    *)
(* with the cache in memory, and so a replay restores what was lost.       *)
(***************************************************************************)
EXTENDS SandboxRecovery, TLAPS

Up == {"running", "stopped"}
\* The fill of an order as the cache in Redis has it.
StoredFill(o) == IF disk[o] = "filled" THEN 1 ELSE 0

\* A process that is not running has no memory of its own.
DownIsEmpty(p) ==
    phase[p] \in {"down", "built"} =>
        live[p] = {} /\ dirty[p] = {} /\ saved[p] = {} /\ bal[p] = FreshBalance

\* The engines only work on open orders of their pod.
LiveIsOpen(p) == \A o \in live[p] : Owner[o] = p /\ status[o] = "open"

\* OpenOrdersWork, until the process ends.
OpenWork(p) == phase[p] \in Up /\ conf[p].persist => live[p] = Rehydrated(p)

\* An order missing in the cache in memory is missing in Redis.
GoneIsGone(p) ==
    \A o \in Own(p) :
        phase[p] # "down" /\ conf[p].cache /\ status[o] = "gone" => disk[o] = "none"

\* Only a snapshot of a recovering pod counts as saved.
SavedIsStopped(p) ==
    saved[p] # {} => phase[p] = "stopped" /\ conf[p].persist /\ conf[p].cache

PodInv(p) ==
    DownIsEmpty(p) /\ LiveIsOpen(p) /\ OpenWork(p) /\ GoneIsGone(p) /\ SavedIsStopped(p)
MemoryInv == TypeOK /\ \A p \in Pods : PodInv(p)

-----------------------------------------------------------------------------
LEMMA KeyType == \A p \in Pods, v \in Venues : BalanceKey(p, v) \in BalanceKeys
  BY DEF BalanceKey, BalanceKeys

LEMMA RestoredType == TypeOK => \A p \in Pods : Restored(p) \in [Orders -> Nat]
<1> SUFFICES ASSUME TypeOK, NEW p \in Pods PROVE Restored(p) \in [Orders -> Nat]
  OBVIOUS
<1> SUFFICES ASSUME NEW o \in Orders
             PROVE  (IF snap[BalanceKey(p, VenueOf[o])] = NoSnap THEN 0
                     ELSE snap[BalanceKey(p, VenueOf[o])][o]) \in Nat
  BY DEF Restored
<1>1. VenueOf[o] \in Venues BY ConstAssumption
<1>2. BalanceKey(p, VenueOf[o]) \in BalanceKeys BY <1>1, KeyType
<1>3. snap[BalanceKey(p, VenueOf[o])] \in {NoSnap} \cup [Orders -> Nat]
  BY <1>2 DEF TypeOK
<1> QED BY <1>3

LEMMA TypeInit == Init => TypeOK
<1> SUFFICES ASSUME Init PROVE TypeOK
  OBVIOUS
<1>1. (CHOOSE c \in Configs : TRUE) \in Configs BY ConstAssumption
<1> QED BY <1>1, ConstAssumption DEF Init, TypeOK, Phases, Statuses, FreshBalance

LEMMA TypeBuild == TypeOK /\ (\E p \in Pods, c \in Configs : Build(p, c)) => TypeOK'
<1> SUFFICES ASSUME TypeOK, NEW p \in Pods, NEW c \in Configs, Build(p, c)
             PROVE  TypeOK'
  OBVIOUS
<1> USE DEF TypeOK
<1>1. phase' \in [Pods -> Phases] BY DEF Build, Phases
<1>2. conf' \in [Pods -> Configs] BY DEF Build
<1>3. boots' \in 0 .. MaxBoots BY ConstAssumption DEF Build
<1>4. disk' \in [Orders -> Statuses \ {"gone"}] BY DEF Build, Statuses
<1>5. status' \in [Orders -> Statuses]
  <2>1. status' = Loaded(p, c, disk') BY DEF Build
  <2> QED BY <1>4, <2>1 DEF Loaded, Statuses
<1>6. snap' \in [BalanceKeys -> {NoSnap} \cup [Orders -> Nat]] BY DEF Build
<1>7. clean' \in [Pods -> SUBSET Venues]
  <2>1. CASE UNCHANGED clean BY <2>1
  <2>2. CASE clean' = [clean EXCEPT ![p] = {v \in Venues : snap[BalanceKey(p, v)] = NoSnap}]
    <3>1. {v \in Venues : snap[BalanceKey(p, v)] = NoSnap} \in SUBSET Venues OBVIOUS
    <3> QED BY <2>2, <3>1
  <2>3. CASE clean' = [q \in Pods |-> IF q = p THEN Venues ELSE {}] BY <2>3
  <2> QED BY <2>1, <2>2, <2>3 DEF Build
<1>8. UNCHANGED <<live, bal, dirty, saved>> BY DEF Build
<1> QED BY <1>1, <1>2, <1>3, <1>4, <1>5, <1>6, <1>7, <1>8

LEMMA TypeStart == TypeOK /\ (\E p \in Pods : OnStart(p) \/ OnStartFails(p)) => TypeOK'
<1> SUFFICES ASSUME TypeOK, NEW p \in Pods, OnStart(p) \/ OnStartFails(p)
             PROVE  TypeOK'
  OBVIOUS
<1>1. Restored(p) \in [Orders -> Nat] BY RestoredType
<1>2. Rehydrated(p) \in SUBSET Orders BY DEF Rehydrated, Own
<1>3. phase' \in [Pods -> Phases] BY DEF TypeOK, OnStart, OnStartFails, Phases
<1>4. bal' \in [Pods -> [Orders -> Nat]] BY <1>1 DEF TypeOK, OnStart, OnStartFails
<1>5. live' \in [Pods -> SUBSET Orders] BY <1>2 DEF TypeOK, OnStart, OnStartFails
<1>6. UNCHANGED <<conf, boots, status, disk, snap, dirty, saved, clean>>
  BY DEF OnStart, OnStartFails
<1> QED BY <1>3, <1>4, <1>5, <1>6 DEF TypeOK

LEMMA TypeOrder ==
    TypeOK /\ (\E o \in Orders : Place(o, "open") \/ Place(o, "emulated")
                                 \/ Trigger(o) \/ Fill(o)) => TypeOK'
<1> SUFFICES ASSUME TypeOK, NEW o \in Orders,
                    Place(o, "open") \/ Place(o, "emulated") \/ Trigger(o) \/ Fill(o)
             PROVE  TypeOK'
  OBVIOUS
<1> USE DEF TypeOK
<1>1. Owner[o] \in Pods /\ VenueOf[o] \in Venues BY ConstAssumption
<1>2. status' \in [Orders -> Statuses] BY DEF Place, Trigger, Fill, Statuses
<1>3. live' \in [Pods -> SUBSET Orders] BY <1>1 DEF Place, Trigger, Fill
<1>4. bal' \in [Pods -> [Orders -> Nat]]
  <2>1. CASE UNCHANGED bal BY <2>1
  <2>2. CASE bal' = [bal EXCEPT ![Owner[o]][o] = @ + 1] BY <1>1, <2>2
  <2> QED BY <2>1, <2>2 DEF Place, Trigger, Fill
<1>5. dirty' \in [Pods -> SUBSET Venues] /\ saved' \in [Pods -> SUBSET Venues]
  <2>1. CASE UNCHANGED <<dirty, saved>> BY <2>1
  <2>2. CASE /\ dirty' = [dirty EXCEPT ![Owner[o]] = @ \cup {VenueOf[o]}]
             /\ saved' = [saved EXCEPT ![Owner[o]] = @ \ {VenueOf[o]}]
    BY <1>1, <2>2
  <2> QED BY <2>1, <2>2 DEF Place, Trigger, Fill
<1>7. UNCHANGED <<phase, conf, boots, disk, snap, clean>>
  BY DEF Place, Trigger, Fill
<1> QED BY <1>2, <1>3, <1>4, <1>5, <1>7

LEMMA TypeWrite ==
    TypeOK /\ (\E p \in Pods : WriteBehind(p) \/ Exit(p) \/ Kill(p)) => TypeOK'
<1> SUFFICES ASSUME TypeOK, NEW p \in Pods, WriteBehind(p) \/ Exit(p) \/ Kill(p)
             PROVE  TypeOK'
  OBVIOUS
<1> USE DEF TypeOK
<1>1. Written(p) \in [Orders -> Statuses \ {"gone"}] BY DEF Written, Statuses
<1>2. FreshBalance \in [Orders -> Nat] BY DEF FreshBalance
<1>3. disk' \in [Orders -> Statuses \ {"gone"}] BY <1>1 DEF WriteBehind, Exit, Kill
<1>4. phase' \in [Pods -> Phases] BY DEF WriteBehind, Exit, Kill, Gone, Phases
<1>5. live' \in [Pods -> SUBSET Orders] BY DEF WriteBehind, Exit, Kill, Gone
<1>6. bal' \in [Pods -> [Orders -> Nat]] BY <1>2 DEF WriteBehind, Exit, Kill, Gone
<1>7. dirty' \in [Pods -> SUBSET Venues] /\ saved' \in [Pods -> SUBSET Venues]
  BY DEF WriteBehind, Exit, Kill, Gone
<1>8. clean' \in [Pods -> SUBSET Venues] BY DEF WriteBehind, Exit, Kill
<1>9. UNCHANGED <<conf, boots, status, snap>> BY DEF WriteBehind, Exit, Kill
<1> QED BY <1>3, <1>4, <1>5, <1>6, <1>7, <1>8, <1>9

LEMMA TypeStop == TypeOK /\ (\E p \in Pods, done \in SUBSET Venues : OnStop(p, done)) => TypeOK'
<1> SUFFICES ASSUME TypeOK, NEW p \in Pods, NEW done \in SUBSET Venues, OnStop(p, done)
             PROVE  TypeOK'
  OBVIOUS
<1> USE DEF TypeOK
<1>1. phase' \in [Pods -> Phases] BY DEF OnStop, Phases
<1>2. saved' \in [Pods -> SUBSET Venues] BY DEF OnStop
<1>3. snap' \in [BalanceKeys -> {NoSnap} \cup [Orders -> Nat]]
  <2> SUFFICES ASSUME NEW k \in BalanceKeys
               PROVE  [o \in Orders |-> IF VenueOf[o] = k[2] THEN bal[p][o] ELSE 0]
                         \in [Orders -> Nat]
    BY DEF OnStop
  <2> QED OBVIOUS
<1>4. UNCHANGED <<conf, boots, status, disk, live, bal, dirty, clean>> BY DEF OnStop
<1> QED BY <1>1, <1>2, <1>3, <1>4

LEMMA TypeStep == TypeOK /\ [Next]_vars => TypeOK'
<1> SUFFICES ASSUME TypeOK, [Next]_vars PROVE TypeOK'
  OBVIOUS
<1>1. CASE UNCHANGED vars BY <1>1 DEF vars, TypeOK
<1>2. CASE Next BY <1>2, TypeBuild, TypeStart, TypeOrder, TypeWrite, TypeStop DEF Next
<1> QED BY <1>1, <1>2

\* Every variable keeps its type, whatever is deployed, killed and written when.
THEOREM TypeCorrect == Spec => []TypeOK
<1> QED BY TypeInit, TypeStep, PTL DEF Spec

-----------------------------------------------------------------------------
(* The pod's memory: engines, cache and what is known to be saved.         *)

\* A step of one pod leaves what the others have in memory alone; in Redis it can
\* at most erase their orders.
OthersKept(p) ==
    /\ \A q \in Pods \ {p} :
          /\ phase'[q] = phase[q] /\ conf'[q] = conf[q] /\ live'[q] = live[q]
          /\ bal'[q] = bal[q] /\ dirty'[q] = dirty[q] /\ saved'[q] = saved[q]
    /\ \A o \in Orders \ Own(p) : status'[o] = status[o] /\ disk'[o] \in {disk[o], "none"}

LEMMA OthersPodInv ==
    ASSUME NEW p \in Pods, NEW q \in Pods \ {p}, TypeOK, PodInv(q), OthersKept(p)
    PROVE  PodInv(q)'
<1>1. /\ phase'[q] = phase[q] /\ conf'[q] = conf[q] /\ live'[q] = live[q]
      /\ bal'[q] = bal[q] /\ dirty'[q] = dirty[q] /\ saved'[q] = saved[q]
  BY DEF OthersKept
<1>2. \A o \in Orders : Owner[o] = q =>
         status'[o] = status[o] /\ disk'[o] \in {disk[o], "none"}
  BY DEF OthersKept, Own
<1>3. DownIsEmpty(q)' BY <1>1 DEF PodInv, DownIsEmpty
<1>4. LiveIsOpen(q)'
  <2>1. live[q] \subseteq Orders BY DEF TypeOK
  <2> QED BY <1>1, <1>2, <2>1 DEF PodInv, LiveIsOpen
<1>5. Rehydrated(q)' = Rehydrated(q) BY <1>1, <1>2 DEF Rehydrated, Own
<1>6. OpenWork(q)' BY <1>1, <1>5 DEF PodInv, OpenWork
<1>7. GoneIsGone(q)' BY <1>1, <1>2 DEF PodInv, GoneIsGone, Own
<1>8. SavedIsStopped(q)' BY <1>1 DEF PodInv, SavedIsStopped
<1> QED BY <1>3, <1>4, <1>6, <1>7, <1>8 DEF PodInv

\* Whose step it is.
LEMMA StepKeepsOthers ==
    ASSUME TypeOK, NEW p \in Pods,
           \/ \E c \in Configs : Build(p, c)
           \/ OnStart(p) \/ OnStartFails(p) \/ WriteBehind(p) \/ Exit(p) \/ Kill(p)
           \/ \E done \in SUBSET Venues : OnStop(p, done)
           \/ \E o \in Own(p) : Place(o, "open") \/ Place(o, "emulated")
                                \/ Trigger(o) \/ Fill(o)
    PROVE  OthersKept(p)
<1> USE DEF TypeOK
<1>1. ASSUME NEW c \in Configs, Build(p, c) PROVE OthersKept(p)
  <2>1. \A o \in Orders \ Own(p) : status'[o] = status[o]
    BY <1>1 DEF Build, Loaded
  <2>2. \A o \in Orders \ Own(p) : disk'[o] \in {disk[o], "none"}
    BY <1>1 DEF Build
  <2>3. \A q \in Pods \ {p} : phase'[q] = phase[q] /\ conf'[q] = conf[q]
    BY <1>1 DEF Build
  <2>4. UNCHANGED <<live, bal, dirty, saved>> BY <1>1 DEF Build
  <2> QED BY <2>1, <2>2, <2>3, <2>4 DEF OthersKept
<1>2. CASE OnStart(p) BY <1>2 DEF OnStart, OthersKept
<1>3. CASE OnStartFails(p) BY <1>3 DEF OnStartFails, OthersKept
<1>4. CASE WriteBehind(p) BY <1>4 DEF WriteBehind, Written, OthersKept
<1>5. CASE Exit(p) BY <1>5 DEF Exit, Gone, Written, OthersKept
<1>6. CASE Kill(p) BY <1>6 DEF Kill, Gone, OthersKept
<1>7. ASSUME NEW done \in SUBSET Venues, OnStop(p, done) PROVE OthersKept(p)
  BY <1>7 DEF OnStop, OthersKept
<1>8. ASSUME NEW o \in Own(p),
             Place(o, "open") \/ Place(o, "emulated") \/ Trigger(o) \/ Fill(o)
      PROVE  OthersKept(p)
  <2>1. o \in Orders /\ Owner[o] = p BY DEF Own
  <2>2. \A u \in Orders \ Own(p) : status'[u] = status[u] /\ disk'[u] = disk[u]
    BY <1>8, <2>1 DEF Place, Trigger, Fill
  <2>3. \A q \in Pods \ {p} : live'[q] = live[q]
    BY <1>8, <2>1 DEF Place, Trigger, Fill
  <2>4. \A q \in Pods \ {p} : bal'[q] = bal[q]
    BY <1>8, <2>1 DEF Place, Trigger, Fill
  <2>5. \A q \in Pods \ {p} : dirty'[q] = dirty[q] /\ saved'[q] = saved[q]
    BY <1>8, <2>1 DEF Place, Trigger, Fill
  <2>6. UNCHANGED <<phase, conf>> BY <1>8 DEF Place, Trigger, Fill
  <2> QED BY <2>2, <2>3, <2>4, <2>5, <2>6 DEF OthersKept
<1> QED BY <1>1, <1>2, <1>3, <1>4, <1>5, <1>6, <1>7, <1>8

LEMMA MemoryBuild ==
    ASSUME TypeOK, NEW p \in Pods, PodInv(p), NEW c \in Configs, Build(p, c)
    PROVE  PodInv(p)'
<1> USE DEF TypeOK
<1>1. /\ phase[p] = "down" /\ phase'[p] = "built" /\ conf'[p] = c
      /\ UNCHANGED <<live, bal, dirty, saved>>
  BY DEF Build
<1>2. DownIsEmpty(p)' BY <1>1 DEF PodInv, DownIsEmpty
<1>3. live'[p] = {} /\ saved'[p] = {} BY <1>1 DEF PodInv, DownIsEmpty
<1>4. LiveIsOpen(p)' /\ OpenWork(p)' /\ SavedIsStopped(p)'
  BY <1>1, <1>3 DEF LiveIsOpen, OpenWork, SavedIsStopped, Up
<1>5. GoneIsGone(p)'
  <2>1. status' = Loaded(p, c, disk') BY DEF Build
  <2>2. \A o \in Orders : disk'[o] # "gone" BY TypeBuild
  <2> QED BY <1>1, <2>1, <2>2 DEF GoneIsGone, Loaded, Own
<1> QED BY <1>2, <1>4, <1>5 DEF PodInv

LEMMA MemoryStart ==
    ASSUME TypeOK, NEW p \in Pods, PodInv(p), OnStart(p)
    PROVE  PodInv(p)'
<1> USE DEF TypeOK
<1>1. /\ phase[p] = "built" /\ phase'[p] = "running"
      /\ UNCHANGED <<conf, status, disk, dirty, saved>>
      /\ IF conf[p].persist THEN live'[p] = Rehydrated(p) ELSE live'[p] = live[p]
  BY DEF OnStart
<1>2. live[p] = {} /\ saved[p] = {} BY <1>1 DEF PodInv, DownIsEmpty
<1>3. Rehydrated(p)' = Rehydrated(p) BY <1>1 DEF Rehydrated, Own
<1>4. LiveIsOpen(p)' BY <1>1, <1>2 DEF LiveIsOpen, Rehydrated, Own
<1> QED BY <1>1, <1>2, <1>3, <1>4
        DEF PodInv, DownIsEmpty, OpenWork, GoneIsGone, SavedIsStopped, Up

LEMMA MemoryOrder ==
    ASSUME TypeOK, NEW p \in Pods, PodInv(p), NEW o \in Own(p),
           Place(o, "open") \/ Place(o, "emulated") \/ Trigger(o) \/ Fill(o)
    PROVE  PodInv(p)'
<1> USE DEF TypeOK
<1>1. o \in Orders /\ Owner[o] = p /\ VenueOf[o] \in Venues BY ConstAssumption DEF Own
<1>2. /\ phase[p] \in Up /\ UNCHANGED <<phase, conf, disk>>
      /\ \A u \in Orders \ {o} : status'[u] = status[u]
  BY <1>1 DEF Place, Trigger, Fill, Up
<1>3. \/ /\ status'[o] = "open" /\ live'[p] = live[p] \cup {o} /\ o \in conf[p].listed
         /\ UNCHANGED saved
      \/ /\ status[o] = "none" /\ status'[o] = "emulated" /\ live'[p] = live[p]
         /\ UNCHANGED saved
      \/ /\ status'[o] = "filled" /\ live'[p] = live[p] \ {o}
         /\ saved'[p] = saved[p] \ {VenueOf[o]}
  BY <1>1 DEF Place, Trigger, Fill
<1>4. DownIsEmpty(p)' BY <1>2 DEF DownIsEmpty, Up
<1>5. LiveIsOpen(p)'
  BY <1>1, <1>2, <1>3 DEF PodInv, LiveIsOpen
<1>6. OpenWork(p)'
  <2>1. \A u \in Orders : u \in Rehydrated(p)' <=>
           Owner[u] = p /\ status'[u] = "open" /\ u \in conf[p].listed
    BY <1>2 DEF Rehydrated, Own
  <2>2. \A u \in Orders : u \in Rehydrated(p) <=>
           Owner[u] = p /\ status[u] = "open" /\ u \in conf[p].listed
    BY DEF Rehydrated, Own
  <2>3. Rehydrated(p)' \subseteq Orders BY <1>2 DEF Rehydrated, Own
  <2>4. CASE ~conf[p].persist BY <1>2, <2>4 DEF OpenWork
  <2>5. CASE conf[p].persist
    <3>1. live[p] = Rehydrated(p) BY <1>2, <2>5 DEF PodInv, OpenWork
    <3>2. live'[p] = Rehydrated(p)'
      <4>1. live'[p] \subseteq Orders BY <1>1, <1>3
      <4>2. \A u \in Orders : u \in live'[p] <=> u \in Rehydrated(p)'
        BY <1>1, <1>2, <1>3, <2>1, <2>2, <3>1
      <4> QED BY <2>3, <4>1, <4>2
    <3> QED BY <3>2 DEF OpenWork
  <2> QED BY <2>4, <2>5
<1>7. GoneIsGone(p)' BY <1>1, <1>2, <1>3 DEF PodInv, GoneIsGone, Own
<1>8. SavedIsStopped(p)' BY <1>2, <1>3 DEF PodInv, SavedIsStopped
<1> QED BY <1>4, <1>5, <1>6, <1>7, <1>8 DEF PodInv

LEMMA MemoryStop ==
    ASSUME TypeOK, NEW p \in Pods, PodInv(p), NEW done \in SUBSET Venues, OnStop(p, done)
    PROVE  PodInv(p)'
<1> USE DEF TypeOK
<1>1. /\ phase[p] = "running" /\ phase'[p] = "stopped"
      /\ UNCHANGED <<conf, status, disk, live, bal, dirty>>
      /\ saved'[p] # {} => conf[p].persist /\ conf[p].cache
  BY DEF OnStop
<1>2. Rehydrated(p)' = Rehydrated(p) BY <1>1 DEF Rehydrated, Own
<1> QED BY <1>1, <1>2
        DEF PodInv, DownIsEmpty, LiveIsOpen, OpenWork, GoneIsGone, SavedIsStopped, Up

LEMMA MemoryWrite ==
    ASSUME TypeOK, NEW p \in Pods, PodInv(p), WriteBehind(p)
    PROVE  PodInv(p)'
<1> USE DEF TypeOK
<1>1. /\ UNCHANGED <<phase, conf, status, live, bal, dirty, saved>>
      /\ disk' = Written(p)
  BY DEF WriteBehind
<1>2. Rehydrated(p)' = Rehydrated(p) BY <1>1 DEF Rehydrated, Own
<1>3. GoneIsGone(p)' BY <1>1 DEF PodInv, GoneIsGone, Written, Own
<1> QED BY <1>1, <1>2, <1>3
        DEF PodInv, DownIsEmpty, LiveIsOpen, OpenWork, SavedIsStopped

LEMMA MemoryGone ==
    ASSUME TypeOK, NEW p \in Pods, PodInv(p), Exit(p) \/ Kill(p) \/ OnStartFails(p)
    PROVE  PodInv(p)'
<1> USE DEF TypeOK
<1>1. phase'[p] = "down" BY DEF Exit, Kill, OnStartFails, Gone
<1>2. live'[p] = {} /\ dirty'[p] = {} /\ saved'[p] = {} /\ bal'[p] = FreshBalance
  <2>1. CASE Exit(p) \/ Kill(p) BY <2>1 DEF Exit, Kill, Gone
  <2>2. CASE OnStartFails(p) BY <2>2 DEF OnStartFails, PodInv, DownIsEmpty
  <2> QED BY <2>1, <2>2
<1> QED BY <1>1, <1>2
        DEF PodInv, DownIsEmpty, LiveIsOpen, OpenWork, GoneIsGone, SavedIsStopped, Up

\* The steps of Next, by the pod that takes them.
LEMMA NextByPod ==
    ASSUME Next
    PROVE  \E p \in Pods :
              \/ \E c \in Configs : Build(p, c)
              \/ OnStart(p) \/ OnStartFails(p) \/ WriteBehind(p) \/ Exit(p) \/ Kill(p)
              \/ \E done \in SUBSET Venues : OnStop(p, done)
              \/ \E o \in Own(p) : Place(o, "open") \/ Place(o, "emulated")
                                   \/ Trigger(o) \/ Fill(o)
<1>1. \A o \in Orders : Owner[o] \in Pods /\ o \in Own(Owner[o])
  BY ConstAssumption DEF Own
<1> QED BY <1>1 DEF Next

LEMMA MemoryInit == Init => MemoryInv
<1> SUFFICES ASSUME Init PROVE MemoryInv
  OBVIOUS
<1>1. TypeOK BY TypeInit
<1>2. ASSUME NEW p \in Pods PROVE PodInv(p)
  BY <1>2 DEF Init, PodInv, DownIsEmpty, LiveIsOpen, OpenWork, GoneIsGone,
              SavedIsStopped, Up
<1> QED BY <1>1, <1>2 DEF MemoryInv

LEMMA MemoryStep == MemoryInv /\ [Next]_vars => MemoryInv'
<1> SUFFICES ASSUME MemoryInv, [Next]_vars PROVE MemoryInv'
  OBVIOUS
<1>1. TypeOK' BY TypeStep DEF MemoryInv
<1>2. CASE UNCHANGED vars
  <2>1. ASSUME NEW p \in Pods PROVE PodInv(p)'
    BY <1>2 DEF MemoryInv, PodInv, DownIsEmpty, LiveIsOpen, OpenWork, GoneIsGone,
                SavedIsStopped, Rehydrated, Own, vars
  <2> QED BY <1>1, <2>1 DEF MemoryInv
<1>3. CASE Next
  <2>1. PICK p \in Pods :
           \/ \E c \in Configs : Build(p, c)
           \/ OnStart(p) \/ OnStartFails(p) \/ WriteBehind(p) \/ Exit(p) \/ Kill(p)
           \/ \E done \in SUBSET Venues : OnStop(p, done)
           \/ \E o \in Own(p) : Place(o, "open") \/ Place(o, "emulated")
                                \/ Trigger(o) \/ Fill(o)
    BY <1>3, NextByPod
  <2>2. PodInv(p)'
    BY <2>1, MemoryBuild, MemoryStart, MemoryOrder, MemoryStop, MemoryWrite, MemoryGone
       DEF MemoryInv
  <2>3. \A q \in Pods \ {p} : PodInv(q)'
    BY <2>1, StepKeepsOthers, OthersPodInv DEF MemoryInv
  <2> QED BY <1>1, <2>2, <2>3 DEF MemoryInv
<1> QED BY <1>2, <1>3

\* A recovered pod's engines work on exactly the open, released orders of its
\* cache whose instrument it lists.
THEOREM OpenOrdersAreLive == Spec => []OpenOrdersWork
<1>1. MemoryInv => OpenOrdersWork
  BY DEF MemoryInv, PodInv, OpenWork, OpenOrdersWork, Rehydrated, Up
<1> QED BY <1>1, MemoryInit, MemoryStep, PTL DEF Spec

-----------------------------------------------------------------------------
(* The balance: account, snapshot and cache, when trader ids are distinct.  *)

\* A saved balance includes fills of the key's own pod and venue only.
SnapIsOwn(p) ==
    \A v \in Venues, o \in Orders :
        LET s == snap[BalanceKey(p, v)]
        IN  s # NoSnap /\ s[o] > 0 => Owner[o] = p /\ VenueOf[o] = v
BalIsOwn(p) == \A o \in Orders : bal[p][o] > 0 => Owner[o] = p

\* Until it is saved again, a balance includes what was replayed.
NeverBelow(p) ==
    phase[p] = "running" /\ conf[p].persist => \A o \in Orders : Restored(p)[o] <= bal[p][o]

\* The order o of a clean venue.  Without a fill since the boot the snapshot, the
\* cache in Redis, the cache in memory and the account agree; with one, account
\* and memory do, and so do account and snapshot once it is saved.
Agree(p, o) ==
    /\ phase[p] \in Up /\ conf[p].persist /\ conf[p].cache => bal[p][o] = Booked(o)
    /\ VenueOf[o] \in saved[p] => Restored(p)[o] = bal[p][o]
    /\ VenueOf[o] \notin dirty[p] =>
          /\ Restored(p)[o] = StoredFill(o)
          /\ phase[p] # "down" /\ conf[p].cache => Booked(o) = StoredFill(o)
          /\ phase[p] \in Up /\ conf[p].persist => bal[p][o] = Restored(p)[o]

MoneyOf(p) ==
    /\ SnapIsOwn(p) /\ BalIsOwn(p) /\ NeverBelow(p)
    /\ \A o \in Own(p) : VenueOf[o] \in clean[p] => Agree(p, o)
MoneyInv == MemoryInv /\ \A p \in Pods : MoneyOf(p)

LEMMA KeysDiffer ==
    ASSUME DistinctTraders, NEW p \in Pods, NEW q \in Pods, p # q,
           NEW v \in Venues, NEW w \in Venues
    PROVE  BalanceKey(p, v) # BalanceKey(q, w)
  BY DEF DistinctTraders, BalanceKey

\* A step of one pod leaves the others' keys alone, or it has flushed Redis: then
\* nothing is clean for them any more.
LEMMA OthersMoney ==
    ASSUME NEW p \in Pods, NEW q \in Pods \ {p}, TypeOK, TypeOK', MoneyOf(q), OthersKept(p),
           \/ /\ \A v \in Venues : snap'[BalanceKey(q, v)] = snap[BalanceKey(q, v)]
              /\ clean'[q] = clean[q]
              /\ \A o \in Own(q) : disk'[o] = disk[o]
           \/ /\ \A v \in Venues : snap'[BalanceKey(q, v)] = NoSnap
              /\ clean'[q] = {}
    PROVE  MoneyOf(q)'
<1>1. /\ phase'[q] = phase[q] /\ conf'[q] = conf[q] /\ bal'[q] = bal[q]
      /\ dirty'[q] = dirty[q] /\ saved'[q] = saved[q]
      /\ \A o \in Own(q) : status'[o] = status[o]
  BY DEF OthersKept, Own
<1>2. \A o \in Orders : VenueOf[o] \in Venues BY ConstAssumption
<1>3. bal[q] \in [Orders -> Nat] BY DEF TypeOK
<1>4. BalIsOwn(q)' BY <1>1 DEF MoneyOf, BalIsOwn
<1>5. CASE /\ \A v \in Venues : snap'[BalanceKey(q, v)] = snap[BalanceKey(q, v)]
           /\ clean'[q] = clean[q]
           /\ \A o \in Own(q) : disk'[o] = disk[o]
  <2>1. SnapIsOwn(q)' BY <1>5 DEF MoneyOf, SnapIsOwn, BalanceKey
  <2>2. Restored(q)' = Restored(q) BY <1>2, <1>5 DEF Restored, BalanceKey
  <2>3. NeverBelow(q)' BY <1>1, <2>2 DEF MoneyOf, NeverBelow
  <2>4. ASSUME NEW o \in Own(q), VenueOf[o] \in clean'[q] PROVE Agree(q, o)'
    <3>1. Agree(q, o) BY <1>5, <2>4 DEF MoneyOf
    <3>2. Booked(o)' = Booked(o) /\ StoredFill(o)' = StoredFill(o)
      BY <1>1, <1>5 DEF Booked, StoredFill
    <3> QED BY <1>1, <2>2, <3>1, <3>2 DEF Agree
  <2>5. Own(q)' = Own(q) BY DEF Own
  <2> QED BY <1>4, <2>1, <2>3, <2>4, <2>5 DEF MoneyOf
<1>6. CASE /\ \A v \in Venues : snap'[BalanceKey(q, v)] = NoSnap
           /\ clean'[q] = {}
  <2>1. SnapIsOwn(q)' BY <1>6 DEF SnapIsOwn, BalanceKey
  <2>2. \A o \in Orders : Restored(q)'[o] = 0 BY <1>2, <1>6 DEF Restored, BalanceKey
  <2>3. NeverBelow(q)' BY <1>1, <1>3, <2>2 DEF NeverBelow
  <2> QED BY <1>4, <1>6, <2>1, <2>3 DEF MoneyOf
<1> QED BY <1>5, <1>6

LEMMA MoneyBuild ==
    ASSUME TypeOK, TypeOK', NEW p \in Pods, PodInv(p), MoneyOf(p),
           NEW c \in Configs, Build(p, c)
    PROVE  MoneyOf(p)'
<1> USE DEF TypeOK
<1>1. /\ phase[p] = "down" /\ phase'[p] = "built" /\ conf'[p] = c
      /\ UNCHANGED <<bal, dirty, saved>> /\ status' = Loaded(p, c, disk')
  BY DEF Build
<1>2. bal[p] = FreshBalance /\ dirty[p] = {} /\ saved[p] = {}
  BY <1>1 DEF PodInv, DownIsEmpty
<1>3. \A o \in Orders : VenueOf[o] \in Venues BY ConstAssumption
<1>4. BalIsOwn(p)' BY <1>1, <1>2 DEF BalIsOwn, FreshBalance
<1>5. NeverBelow(p)' BY <1>1 DEF NeverBelow
<1>6. \A o \in Own(p) : c.cache => Booked(o)' = StoredFill(o)'
  BY <1>1 DEF Loaded, Booked, StoredFill, Own
<1>7. ASSUME NEW o \in Own(p), VenueOf[o] \in clean'[p],
             Restored(p)'[o] = StoredFill(o)'
      PROVE  Agree(p, o)'
  BY <1>1, <1>2, <1>6, <1>7 DEF Agree, Up
<1>8. CASE UNCHANGED <<disk, snap, clean>>
  <2>1. SnapIsOwn(p)' BY <1>8 DEF MoneyOf, SnapIsOwn, BalanceKey
  <2>2. ASSUME NEW o \in Own(p), VenueOf[o] \in clean'[p]
        PROVE  Restored(p)'[o] = StoredFill(o)'
    <3>1. Agree(p, o) BY <1>8, <2>2 DEF MoneyOf
    <3>2. Restored(p)[o] = StoredFill(o) BY <1>2, <3>1 DEF Agree
    <3> QED BY <1>8, <3>2 DEF Restored, StoredFill, BalanceKey
  <2> QED BY <1>4, <1>5, <1>7, <2>1, <2>2 DEF MoneyOf, Own
<1>9. CASE /\ \A o \in Own(p) : disk'[o] = "none"
           /\ UNCHANGED snap
           /\ clean' = [clean EXCEPT ![p] = {v \in Venues : snap[BalanceKey(p, v)] = NoSnap}]
  <2>1. SnapIsOwn(p)' BY <1>9 DEF MoneyOf, SnapIsOwn, BalanceKey
  <2>2. ASSUME NEW o \in Own(p), VenueOf[o] \in clean'[p]
        PROVE  Restored(p)'[o] = StoredFill(o)'
    <3>1. o \in Orders BY DEF Own
    <3>2. snap'[BalanceKey(p, VenueOf[o])] = NoSnap BY <1>9, <2>2
    <3> QED BY <1>9, <3>1, <3>2 DEF Restored, StoredFill, BalanceKey
  <2> QED BY <1>4, <1>5, <1>7, <2>1, <2>2 DEF MoneyOf, Own
<1>10. CASE /\ disk' = [o \in Orders |-> "none"]
            /\ snap' = [k \in BalanceKeys |-> NoSnap]
  <2>1. \A v \in Venues : snap'[BalanceKey(p, v)] = NoSnap BY <1>10, KeyType
  <2>2. SnapIsOwn(p)' BY <2>1 DEF SnapIsOwn, BalanceKey
  <2>3. \A o \in Own(p) : Restored(p)'[o] = StoredFill(o)'
    BY <1>3, <1>10, <2>1 DEF Restored, StoredFill, BalanceKey, Own
  <2> QED BY <1>4, <1>5, <1>7, <2>2, <2>3 DEF MoneyOf, Own
<1> QED BY <1>8, <1>9, <1>10 DEF Build, Own

LEMMA MoneyStart ==
    ASSUME TypeOK, NEW p \in Pods, PodInv(p), MoneyOf(p), OnStart(p)
    PROVE  MoneyOf(p)'
<1> USE DEF TypeOK
<1>1. /\ phase[p] = "built" /\ phase'[p] = "running"
      /\ UNCHANGED <<conf, status, disk, snap, dirty, saved, clean>>
      /\ IF conf[p].persist THEN bal'[p] = Restored(p) ELSE bal'[p] = bal[p]
  BY DEF OnStart
<1>2. dirty[p] = {} /\ saved[p] = {} BY <1>1 DEF PodInv, DownIsEmpty
<1>3. Restored(p)' = Restored(p) BY <1>1 DEF Restored, BalanceKey
<1>4. SnapIsOwn(p)' BY <1>1 DEF MoneyOf, SnapIsOwn, BalanceKey
<1>5. \A o \in Orders : VenueOf[o] \in Venues BY ConstAssumption
<1>6. BalIsOwn(p)'
  <2>1. CASE ~conf[p].persist BY <1>1, <2>1 DEF MoneyOf, BalIsOwn
  <2>2. CASE conf[p].persist
    <3>1. \A o \in Orders : Restored(p)[o] > 0 => Owner[o] = p
      BY <1>5 DEF MoneyOf, SnapIsOwn, Restored
    <3> QED BY <1>1, <2>2, <3>1 DEF BalIsOwn
  <2> QED BY <2>1, <2>2
<1>7. NeverBelow(p)'
  <2>1. \A o \in Orders : Restored(p)[o] <= Restored(p)[o] BY RestoredType
  <2> QED BY <1>1, <1>3, <2>1 DEF NeverBelow
<1>8. ASSUME NEW o \in Own(p), VenueOf[o] \in clean'[p] PROVE Agree(p, o)'
  <2>1. Agree(p, o) BY <1>1, <1>8 DEF MoneyOf
  <2>2. Booked(o)' = Booked(o) /\ StoredFill(o)' = StoredFill(o)
    BY <1>1 DEF Booked, StoredFill
  <2>3. conf[p].persist => bal'[p][o] = Restored(p)[o] BY <1>1
  <2> QED BY <1>1, <1>2, <1>3, <2>1, <2>2, <2>3 DEF Agree, Up
<1> QED BY <1>4, <1>6, <1>7, <1>8 DEF MoneyOf, Own

LEMMA MoneyOrder ==
    ASSUME TypeOK, NEW p \in Pods, PodInv(p), MoneyOf(p), NEW o \in Own(p),
           Place(o, "open") \/ Place(o, "emulated") \/ Trigger(o) \/ Fill(o)
    PROVE  MoneyOf(p)'
<1> USE DEF TypeOK
<1>1. o \in Orders /\ Owner[o] = p /\ VenueOf[o] \in Venues BY ConstAssumption DEF Own
<1>2. /\ UNCHANGED <<phase, conf, disk, snap, clean>>
      /\ \A u \in Orders \ {o} : status'[u] = status[u]
  BY <1>1 DEF Place, Trigger, Fill
<1>3. Restored(p)' = Restored(p) BY <1>2 DEF Restored, BalanceKey
<1>4. SnapIsOwn(p)' BY <1>2 DEF MoneyOf, SnapIsOwn, BalanceKey
<1>5. \A u \in Orders : StoredFill(u)' = StoredFill(u) BY <1>2 DEF StoredFill
<1>6. CASE /\ UNCHANGED <<bal, dirty, saved>>
           /\ status[o] # "filled" /\ status'[o] # "filled"
  <2>1. \A u \in Orders : Booked(u)' = Booked(u) BY <1>2, <1>6 DEF Booked
  <2>2. BalIsOwn(p)' /\ NeverBelow(p)'
    BY <1>2, <1>3, <1>6 DEF MoneyOf, BalIsOwn, NeverBelow
  <2>3. ASSUME NEW u \in Own(p), VenueOf[u] \in clean'[p] PROVE Agree(p, u)'
    <3>1. Agree(p, u) /\ u \in Orders BY <1>2, <2>3 DEF MoneyOf, Own
    <3> QED BY <1>2, <1>3, <1>5, <1>6, <2>1, <3>1 DEF Agree
  <2> QED BY <1>4, <2>2, <2>3 DEF MoneyOf, Own
<1>7. CASE Fill(o)
  <2>1. /\ o \in live[p] /\ status'[o] = "filled"
        /\ dirty'[p] = dirty[p] \cup {VenueOf[o]} /\ saved'[p] = saved[p] \ {VenueOf[o]}
        /\ bal' = [bal EXCEPT ![p][o] = @ + 1]
    BY <1>1, <1>7 DEF Fill
  <2>2. status[o] = "open" BY <2>1 DEF PodInv, LiveIsOpen
  <2>3. /\ bal'[p][o] = bal[p][o] + 1 /\ bal[p][o] \in Nat
        /\ \A u \in Orders : u # o => bal'[p][u] = bal[p][u]
    BY <1>1, <2>1
  <2>4. BalIsOwn(p)' BY <1>1, <2>3 DEF MoneyOf, BalIsOwn
  <2>5. NeverBelow(p)'
    <3>1. Restored(p) \in [Orders -> Nat] /\ bal[p] \in [Orders -> Nat] BY RestoredType
    <3> SUFFICES ASSUME phase[p] = "running", conf[p].persist, NEW u \in Orders
                 PROVE  Restored(p)[u] <= bal'[p][u]
      BY <1>2, <1>3 DEF NeverBelow
    <3>2. Restored(p)[u] <= bal[p][u] BY DEF MoneyOf, NeverBelow
    <3> QED BY <1>1, <2>3, <3>1, <3>2
  <2>6. ASSUME NEW u \in Own(p), VenueOf[u] \in clean'[p] PROVE Agree(p, u)'
    <3>1. Agree(p, u) /\ u \in Orders BY <1>2, <2>6 DEF MoneyOf, Own
    <3>2. CASE u = o
      <4>1. Booked(o) = 0 /\ Booked(o)' = 1 BY <2>1, <2>2 DEF Booked
      <4> QED BY <1>2, <2>1, <2>3, <3>1, <3>2, <4>1 DEF Agree
    <3>3. CASE u # o
      <4>1. Booked(u)' = Booked(u) BY <1>2, <3>1, <3>3 DEF Booked
      <4>2. bal'[p][u] = bal[p][u] BY <2>3, <3>1, <3>3
      <4> QED BY <1>2, <1>3, <1>5, <2>1, <3>1, <4>1, <4>2 DEF Agree
    <3> QED BY <3>2, <3>3
  <2> QED BY <1>4, <2>4, <2>5, <2>6 DEF MoneyOf, Own
<1> QED BY <1>6, <1>7 DEF Place, Trigger

LEMMA MoneyStop ==
    ASSUME TypeOK, NEW p \in Pods, PodInv(p), MoneyOf(p),
           NEW done \in SUBSET Venues, OnStop(p, done)
    PROVE  MoneyOf(p)'
<1> USE DEF TypeOK
<1>1. /\ phase[p] = "running" /\ phase'[p] = "stopped"
      /\ UNCHANGED <<conf, status, disk, bal, dirty, clean>>
      /\ done # {} => conf[p].persist
      /\ saved'[p] = IF conf[p].cache THEN done ELSE {}
  BY DEF OnStop
<1>2. \A o \in Orders : VenueOf[o] \in Venues BY ConstAssumption
<1>3. \A v \in Venues :
         snap'[BalanceKey(p, v)] =
            IF v \in done THEN [o \in Orders |-> IF VenueOf[o] = v THEN bal[p][o] ELSE 0]
            ELSE snap[BalanceKey(p, v)]
  BY KeyType DEF OnStop, BalanceKey
<1>4. \A v \in done : [o \in Orders |-> IF VenueOf[o] = v THEN bal[p][o] ELSE 0] # NoSnap
  <2> SUFFICES ASSUME NEW v \in done
               PROVE  [o \in Orders |-> IF VenueOf[o] = v THEN bal[p][o] ELSE 0]
                         \in [Orders -> Nat]
    BY ConstAssumption
  <2> QED OBVIOUS
<1>5. \A o \in Orders :
         Restored(p)'[o] = IF VenueOf[o] \in done THEN bal[p][o] ELSE Restored(p)[o]
  BY <1>2, <1>3, <1>4 DEF Restored, BalanceKey
<1>6. SnapIsOwn(p)'
  <2> SUFFICES ASSUME NEW v \in Venues, NEW o \in Orders,
                      snap'[BalanceKey(p, v)] # NoSnap, snap'[BalanceKey(p, v)][o] > 0
               PROVE  Owner[o] = p /\ VenueOf[o] = v
    BY DEF SnapIsOwn, BalanceKey
  <2>1. CASE v \in done
    <3>1. snap'[BalanceKey(p, v)][o] = IF VenueOf[o] = v THEN bal[p][o] ELSE 0
      BY <1>3, <2>1
    <3> QED BY <3>1 DEF MoneyOf, BalIsOwn
  <2>2. CASE v \notin done BY <1>3, <2>2 DEF MoneyOf, SnapIsOwn
  <2> QED BY <2>1, <2>2
<1>7. BalIsOwn(p)' /\ NeverBelow(p)' BY <1>1 DEF MoneyOf, BalIsOwn, NeverBelow
<1>8. ASSUME NEW o \in Own(p), VenueOf[o] \in clean'[p] PROVE Agree(p, o)'
  <2>1. Agree(p, o) /\ o \in Orders BY <1>1, <1>8 DEF MoneyOf, Own
  <2>2. Booked(o)' = Booked(o) /\ StoredFill(o)' = StoredFill(o)
    BY <1>1 DEF Booked, StoredFill
  <2>3. VenueOf[o] \in saved'[p] => Restored(p)'[o] = bal[p][o] BY <1>1, <1>5, <2>1
  <2>4. VenueOf[o] \notin dirty[p] => Restored(p)'[o] = Restored(p)[o]
    BY <1>1, <1>5, <2>1 DEF Agree, Up
  <2> QED BY <1>1, <2>1, <2>2, <2>3, <2>4 DEF Agree, Up
<1> QED BY <1>6, <1>7, <1>8 DEF MoneyOf, Own

\* What the writer puts in Redis agrees with the memory.
LEMMA WrittenFills ==
    ASSUME TypeOK, NEW p \in Pods, PodInv(p), NEW o \in Own(p), disk' = Written(p)
    PROVE  IF phase[p] # "down" /\ conf[p].cache THEN StoredFill(o)' = Booked(o)
           ELSE conf[p].cache \/ StoredFill(o)' = StoredFill(o)
<1>1. o \in Orders BY DEF Own
<1>2. disk'[o] = IF conf[p].cache /\ status[o] # "gone" THEN status[o] ELSE disk[o]
  BY <1>1 DEF Written
<1>3. phase[p] # "down" /\ conf[p].cache /\ status[o] = "gone" => disk[o] = "none"
  BY DEF PodInv, GoneIsGone
<1> QED BY <1>2, <1>3 DEF StoredFill, Booked

LEMMA MoneyWrite ==
    ASSUME TypeOK, NEW p \in Pods, PodInv(p), MoneyOf(p), WriteBehind(p)
    PROVE  MoneyOf(p)'
<1> USE DEF TypeOK
<1>1. /\ UNCHANGED <<phase, conf, status, bal, snap, dirty, saved, clean>>
      /\ disk' = Written(p) /\ phase[p] # "down"
  BY DEF WriteBehind
<1>2. Restored(p)' = Restored(p) BY <1>1 DEF Restored, BalanceKey
<1>3. SnapIsOwn(p)' /\ BalIsOwn(p)' /\ NeverBelow(p)'
  BY <1>1, <1>2 DEF MoneyOf, SnapIsOwn, BalIsOwn, NeverBelow, BalanceKey
<1>4. ASSUME NEW o \in Own(p), VenueOf[o] \in clean'[p] PROVE Agree(p, o)'
  <2>1. Agree(p, o) BY <1>1, <1>4 DEF MoneyOf
  <2>2. Booked(o)' = Booked(o) BY <1>1 DEF Booked
  <2>3. IF conf[p].cache THEN StoredFill(o)' = Booked(o)
        ELSE StoredFill(o)' = StoredFill(o)
    BY <1>1, WrittenFills
  <2> QED BY <1>1, <1>2, <2>1, <2>2, <2>3 DEF Agree
<1> QED BY <1>3, <1>4 DEF MoneyOf, Own

LEMMA MoneyGone ==
    ASSUME TypeOK, NEW p \in Pods, PodInv(p), MoneyOf(p),
           Exit(p) \/ Kill(p) \/ OnStartFails(p)
    PROVE  MoneyOf(p)'
<1> USE DEF TypeOK
<1>1. phase'[p] = "down" /\ UNCHANGED <<conf, status, snap>>
  BY DEF Exit, Kill, OnStartFails, Gone
<1>2. dirty'[p] = {} /\ saved'[p] = {} /\ bal'[p] = FreshBalance
  <2>1. CASE Exit(p) \/ Kill(p) BY <2>1 DEF Exit, Kill, Gone
  <2>2. CASE OnStartFails(p) BY <2>2 DEF OnStartFails, PodInv, DownIsEmpty
  <2> QED BY <2>1, <2>2
<1>3. Restored(p)' = Restored(p) BY <1>1 DEF Restored, BalanceKey
<1>4. SnapIsOwn(p)' /\ BalIsOwn(p)' /\ NeverBelow(p)'
  BY <1>1, <1>2 DEF MoneyOf, SnapIsOwn, BalIsOwn, NeverBelow, BalanceKey, FreshBalance
<1>5. ASSUME NEW o \in Own(p), VenueOf[o] \in clean'[p]
      PROVE  Restored(p)[o] = StoredFill(o)'
  <2>1. CASE Exit(p)
    <3>1. /\ disk' = Written(p) /\ phase[p] = "stopped"
          /\ clean'[p] = clean[p] \ (dirty[p] \ saved[p])
      BY <2>1 DEF Exit
    <3>2. Agree(p, o) BY <1>5, <3>1 DEF MoneyOf
    <3>3. IF conf[p].cache THEN StoredFill(o)' = Booked(o)
          ELSE StoredFill(o)' = StoredFill(o)
      BY <3>1, WrittenFills
    <3>4. CASE VenueOf[o] \notin dirty[p] BY <3>1, <3>2, <3>3, <3>4 DEF Agree
    <3>5. CASE VenueOf[o] \in saved[p]
      <4>1. conf[p].persist /\ conf[p].cache BY <3>5 DEF PodInv, SavedIsStopped
      <4> QED BY <3>1, <3>2, <3>3, <3>5, <4>1 DEF Agree, Up
    <3> QED BY <1>5, <3>1, <3>4, <3>5
  <2>2. CASE Kill(p)
    <3>1. UNCHANGED disk /\ clean'[p] = clean[p] \ dirty[p] BY <2>2 DEF Kill
    <3>2. Agree(p, o) /\ VenueOf[o] \notin dirty[p] BY <1>5, <3>1 DEF MoneyOf
    <3> QED BY <3>1, <3>2 DEF Agree, StoredFill
  <2>3. CASE OnStartFails(p)
    <3>1. UNCHANGED <<disk, clean>> /\ dirty[p] = {}
      BY <2>3 DEF OnStartFails, PodInv, DownIsEmpty
    <3>2. Agree(p, o) BY <1>5, <3>1 DEF MoneyOf
    <3> QED BY <3>1, <3>2 DEF Agree, StoredFill
  <2> QED BY <2>1, <2>2, <2>3
<1>6. ASSUME NEW o \in Own(p), VenueOf[o] \in clean'[p] PROVE Agree(p, o)'
  BY <1>1, <1>2, <1>3, <1>5, <1>6 DEF Agree, Up
<1> QED BY <1>4, <1>6 DEF MoneyOf, Own

LEMMA StepKeepsOthersMoney ==
    ASSUME DistinctTraders, TypeOK, TypeOK', NEW p \in Pods, NEW q \in Pods \ {p},
           \/ \E c \in Configs : Build(p, c)
           \/ OnStart(p) \/ OnStartFails(p) \/ WriteBehind(p) \/ Exit(p) \/ Kill(p)
           \/ \E done \in SUBSET Venues : OnStop(p, done)
           \/ \E o \in Own(p) : Place(o, "open") \/ Place(o, "emulated")
                                \/ Trigger(o) \/ Fill(o),
           MoneyOf(q)
    PROVE  MoneyOf(q)'
<1> USE DEF TypeOK
<1>1. OthersKept(p) BY StepKeepsOthers
<1>2. CASE UNCHANGED <<snap, clean>> /\ \A o \in Own(q) : disk'[o] = disk[o]
  BY <1>1, <1>2, OthersMoney
<1>3. ASSUME NEW c \in Configs, Build(p, c) PROVE MoneyOf(q)'
  <2>1. CASE /\ UNCHANGED snap /\ clean'[q] = clean[q]
             /\ \A o \in Own(q) : disk'[o] = disk[o]
    BY <1>1, <2>1, OthersMoney
  <2>2. CASE /\ snap' = [k \in BalanceKeys |-> NoSnap]
             /\ clean' = [r \in Pods |-> IF r = p THEN Venues ELSE {}]
    BY <1>1, <2>2, KeyType, OthersMoney
  <2> QED BY <1>3, <2>1, <2>2 DEF Build, Own
<1>4. ASSUME NEW done \in SUBSET Venues, OnStop(p, done) PROVE MoneyOf(q)'
  <2>1. \A v \in Venues : snap'[BalanceKey(q, v)] = snap[BalanceKey(q, v)]
    BY <1>4, KeyType, KeysDiffer DEF OnStop
  <2>2. UNCHANGED <<clean, disk>> BY <1>4 DEF OnStop
  <2> QED BY <1>1, <2>1, <2>2, OthersMoney
<1>5. CASE WriteBehind(p)
  <2>1. \A o \in Own(q) : disk'[o] = disk[o] BY <1>5 DEF WriteBehind, Written, Own
  <2> QED BY <1>2, <1>5, <2>1 DEF WriteBehind
<1>6. CASE Exit(p)
  <2>1. \A o \in Own(q) : disk'[o] = disk[o] BY <1>6 DEF Exit, Written, Own
  <2>2. UNCHANGED snap /\ clean'[q] = clean[q] BY <1>6 DEF Exit
  <2> QED BY <1>1, <2>1, <2>2, OthersMoney
<1>7. CASE Kill(p)
  <2>1. UNCHANGED <<snap, disk>> /\ clean'[q] = clean[q] BY <1>7 DEF Kill
  <2> QED BY <1>1, <2>1, OthersMoney
<1>8. CASE OnStart(p) \/ OnStartFails(p) BY <1>2, <1>8 DEF OnStart, OnStartFails
<1>9. ASSUME NEW o \in Own(p),
             Place(o, "open") \/ Place(o, "emulated") \/ Trigger(o) \/ Fill(o)
      PROVE  MoneyOf(q)'
  BY <1>2, <1>9 DEF Place, Trigger, Fill
<1> QED BY <1>3, <1>4, <1>5, <1>6, <1>7, <1>8, <1>9

LEMMA MoneyInit == Init => MoneyInv
<1> SUFFICES ASSUME Init PROVE MoneyInv
  OBVIOUS
<1>1. MemoryInv BY MemoryInit
<1>2. \A o \in Orders : VenueOf[o] \in Venues BY ConstAssumption
<1>3. ASSUME NEW p \in Pods PROVE MoneyOf(p)
  <2>1. \A v \in Venues : snap[BalanceKey(p, v)] = NoSnap BY KeyType DEF Init
  <2>2. \A o \in Orders : Restored(p)[o] = 0 BY <1>2, <2>1 DEF Restored
  <2>3. bal[p] = FreshBalance /\ phase[p] = "down" /\ saved[p] = {} BY DEF Init
  <2>4. \A o \in Orders : StoredFill(o) = 0 BY DEF Init, StoredFill
  <2>5. \A o \in Own(p) : Agree(p, o) BY <2>2, <2>3, <2>4 DEF Agree, Own, Up
  <2> QED BY <2>1, <2>3, <2>5 DEF MoneyOf, SnapIsOwn, BalIsOwn, NeverBelow, FreshBalance
<1> QED BY <1>1, <1>3 DEF MoneyInv

LEMMA MoneyStep == DistinctTraders /\ MoneyInv /\ [Next]_vars => MoneyInv'
<1> SUFFICES ASSUME DistinctTraders, MoneyInv, [Next]_vars PROVE MoneyInv'
  OBVIOUS
<1>1. MemoryInv' BY MemoryStep DEF MoneyInv
<1>2. TypeOK /\ TypeOK' BY <1>1 DEF MoneyInv, MemoryInv
<1>3. CASE UNCHANGED vars
  <2>1. \A p \in Pods : MoneyOf(p)'
    BY <1>3 DEF MoneyInv, MoneyOf, SnapIsOwn, BalIsOwn, NeverBelow, Agree, Restored,
                BalanceKey, StoredFill, Booked, Own, vars
  <2> QED BY <1>1, <2>1 DEF MoneyInv
<1>4. CASE Next
  <2>1. PICK p \in Pods :
           \/ \E c \in Configs : Build(p, c)
           \/ OnStart(p) \/ OnStartFails(p) \/ WriteBehind(p) \/ Exit(p) \/ Kill(p)
           \/ \E done \in SUBSET Venues : OnStop(p, done)
           \/ \E o \in Own(p) : Place(o, "open") \/ Place(o, "emulated")
                                \/ Trigger(o) \/ Fill(o)
    BY <1>4, NextByPod
  <2>2. PodInv(p) /\ MoneyOf(p) BY DEF MoneyInv, MemoryInv
  <2>3. MoneyOf(p)'
    BY <1>2, <2>1, <2>2, MoneyBuild, MoneyStart, MoneyOrder, MoneyStop, MoneyWrite,
       MoneyGone
  <2>4. \A q \in Pods \ {p} : MoneyOf(q)'
    BY <1>2, <2>1, StepKeepsOthersMoney DEF MoneyInv
  <2> QED BY <1>1, <2>3, <2>4 DEF MoneyInv
<1> QED BY <1>3, <1>4

\* A saved balance is written over by one that includes it.
LEMMA SavesGrow ==
    ASSUME DistinctTraders, MoneyInv, [Next]_vars
    PROVE  \A k \in BalanceKeys :
              snap[k] # NoSnap /\ snap'[k] # NoSnap =>
                 \A o \in Orders : snap[k][o] <= snap'[k][o]
<1> SUFFICES ASSUME NEW k \in BalanceKeys, snap[k] # NoSnap, snap'[k] # NoSnap,
                    NEW o \in Orders
             PROVE  snap[k][o] <= snap'[k][o]
  OBVIOUS
<1> USE DEF MoneyInv, MemoryInv
<1>1. snap[k][o] \in Nat BY DEF TypeOK
<1>2. CASE snap'[k] = snap[k] BY <1>1, <1>2
<1>3. ASSUME NEW p \in Pods, NEW done \in SUBSET Venues, OnStop(p, done),
             snap'[k] # snap[k]
      PROVE  snap[k][o] <= snap'[k][o]
  <2>1. PICK v \in done : k = BalanceKey(p, v) BY <1>3 DEF OnStop
  <2>2. snap'[k][o] = IF VenueOf[o] = v THEN bal[p][o] ELSE 0
    BY <1>3, <2>1 DEF OnStop, BalanceKey
  <2>3. phase[p] = "running" /\ conf[p].persist BY <1>3, <2>1 DEF OnStop
  <2>4. CASE VenueOf[o] = v
    <3>1. Restored(p)[o] = snap[k][o] BY <2>1, <2>4 DEF Restored
    <3>2. Restored(p)[o] <= bal[p][o] BY <2>3 DEF MoneyOf, NeverBelow
    <3> QED BY <2>2, <2>4, <3>1, <3>2
  <2>5. CASE VenueOf[o] # v
    <3>1. ~(snap[k][o] > 0) BY <2>1, <2>5 DEF MoneyOf, SnapIsOwn
    <3> QED BY <1>1, <2>2, <2>5, <3>1
  <2> QED BY <2>4, <2>5
<1>4. \/ snap'[k] = snap[k] \/ snap'[k] = NoSnap
      \/ \E p \in Pods, done \in SUBSET Venues : OnStop(p, done)
  BY DEF Next, Build, OnStart, OnStartFails, WriteBehind, Exit, Kill, Place, Trigger,
         Fill, vars
<1> QED BY <1>2, <1>3, <1>4

\* If no two pods share a trader id, a recovering pod's balance and the orders of
\* its cache tell the same story on every clean venue, after any restarts.
THEOREM RestartsKeepMoney ==
    ASSUME DistinctTraders
    PROVE  Spec => []BalancesFollowFills
<1>1. MoneyInv => BalancesFollowFills
  BY DEF MoneyInv, MoneyOf, Agree, BalancesFollowFills, Recovering, Up
<1>2. MoneyInv /\ [Next]_vars => MoneyInv' BY MoneyStep
<1> QED BY <1>1, <1>2, MoneyInit, PTL DEF Spec

\* If no two pods share a trader id, no pod boots with another's money.
THEOREM BalancesArePrivate ==
    ASSUME DistinctTraders
    PROVE  Spec => []OwnBalances
<1>1. MoneyInv => OwnBalances BY DEF MoneyInv, MoneyOf, BalIsOwn, OwnBalances
<1>2. MoneyInv /\ [Next]_vars => MoneyInv' BY MoneyStep
<1> QED BY <1>1, <1>2, MoneyInit, PTL DEF Spec

\* If no two pods share a trader id, nothing but a flush takes a fill out of a
\* saved balance.
THEOREM SavedMoneyStays ==
    ASSUME DistinctTraders
    PROVE  Spec => SnapshotsNeverShrink
<1>1. MoneyInv /\ [Next]_vars =>
         [\A k \in BalanceKeys :
             snap[k] # NoSnap /\ snap'[k] # NoSnap =>
                \A o \in Orders : snap[k][o] <= snap'[k][o]]_vars
  BY SavesGrow
<1>2. MoneyInv /\ [Next]_vars => MoneyInv' BY MoneyStep
<1> QED BY <1>1, <1>2, MoneyInit, PTL DEF Spec, SnapshotsNeverShrink
=============================================================================
