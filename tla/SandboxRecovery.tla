--------------------------- MODULE SandboxRecovery ---------------------------
(***************************************************************************)
(* Restart recovery of sandbox pods: what a pod finds again after a stop,  *)
(* a kill, a failed start or a change of its [sandbox] / [cache] settings. *)
(*                                                                         *)
(* A pod's truth lives in three places that are written at different       *)
(* times: the cache NautilusTrader keeps in Redis (orders and positions,   *)
(* written in the background), the private snapshot of the balance (one    *)
(* key per trader id and venue, written by on_stop only) and the memory of *)
(* the simulated exchange (the account and the orders it works on, empty   *)
(* on every boot).  A balance is represented by the fills it includes: how *)
(* often the fill of each order has been booked.                           *)
(***************************************************************************)
EXTENDS Naturals, FiniteSets

CONSTANTS
    Pods, Orders, Venues,
    Owner,       \* order -> the pod whose strategy places it
    VenueOf,     \* order -> venue
    TraderId,    \* pod -> trader_id of its TOML, or the default
    Configs,     \* the settings an operator may deploy a pod with
    MaxBoots,    \* bound on the boots of all pods together
    NoSnap       \* no usable snapshot under a key

ASSUME ConstAssumption ==
    /\ IsFiniteSet(Orders)
    /\ Owner \in [Orders -> Pods] /\ VenueOf \in [Orders -> Venues]
    /\ DOMAIN TraderId = Pods
    /\ Configs # {}
    /\ Configs \subseteq [persist : BOOLEAN, cache : BOOLEAN,
                          flush : {"default", "true", "false"},
                          listed : SUBSET Orders]
    /\ MaxBoots \in Nat
    /\ NoSnap \notin [Orders -> Nat]

VARIABLES
    phase,    \* pod -> where its process is
    conf,     \* pod -> the settings of its current or last boot
    boots,    \* boots so far
    status,   \* order -> its state in the owner's cache in memory
    disk,     \* order -> its state in the owner's cache in Redis
    live,     \* pod -> the orders its matching engines work on
    bal,      \* pod -> order -> times its fill is in the simulated account
    snap,     \* balance key -> NoSnap, or the totals last saved there
    dirty,    \* pod -> venues with a fill since its boot
    saved,    \* pod -> venues whose fills a snapshot of this boot includes
    clean     \* pod -> venues nothing has happened to that loses a fill

vars == <<phase, conf, boots, status, disk, live, bal, snap, dirty, saved, clean>>

Phases == {"down", "built", "running", "stopped"}
\* "gone": placed once, but not in the cache any more.
Statuses == {"none", "emulated", "open", "filled", "gone"}

\* One key per trader id and venue.
BalanceKeys == {TraderId[p] : p \in Pods} \X Venues
\* Mutant of BalanceKey: the venue is not part of the key.
BalanceKeyPerTrader(p, v) == <<TraderId[p], CHOOSE w \in Venues : TRUE>>

BalanceKey(p, v) == <<TraderId[p], v>>

Own(p) == {o \in Orders : Owner[o] = p}
\* The fills of the orders in the cache: positions and orders agree on them.
Booked(o) == IF status[o] = "filled" THEN 1 ELSE 0
FreshBalance == [o \in Orders |-> 0]

\* An explicit flush_on_start wins; a sandbox pod defaults to flushing unless it
\* persists.  Without a [cache] section there is nothing to flush.
FlushOnStart(c) ==
    c.cache /\ (c.flush = "true" \/ (c.flush = "default" /\ ~c.persist))

-----------------------------------------------------------------------------
Init ==
    /\ phase = [p \in Pods |-> "down"]
    /\ conf = [p \in Pods |-> CHOOSE c \in Configs : TRUE]
    /\ boots = 0
    /\ status = [o \in Orders |-> "none"]
    /\ disk = [o \in Orders |-> "none"]
    /\ live = [p \in Pods |-> {}]
    /\ bal = [p \in Pods |-> FreshBalance]
    /\ snap = [k \in BalanceKeys |-> NoSnap]
    /\ dirty = [p \in Pods |-> {}]
    /\ saved = [p \in Pods |-> {}]
    /\ clean = [p \in Pods |-> Venues]

\* What NT's load_cache finds: an order is as the cache in Redis has it; one it
\* does not have is gone if it was ever placed.  Each pod has a cache of its own
\* here; NT's is keyed by the trader id.
Loaded(p, c, stored) ==
    [o \in Orders |->
        IF o \notin Own(p) THEN status[o]
        ELSE IF c.cache /\ stored[o] # "none" THEN stored[o]
        ELSE IF status[o] = "none" THEN "none" ELSE "gone"]

\* The pod is deployed: node.build() flushes or loads the cache, creates empty
\* matching engines and overwrites the account with starting_balances.  Whether
\* the flush also takes the private keys and the other pods' is left open.
Build(p, c) ==
    /\ phase[p] = "down" /\ boots < MaxBoots
    /\ phase' = [phase EXCEPT ![p] = "built"]
    /\ conf' = [conf EXCEPT ![p] = c]
    /\ boots' = boots + 1
    /\ UNCHANGED <<live, bal, dirty, saved>>
    /\ \/ /\ ~FlushOnStart(c)
          /\ UNCHANGED <<disk, snap, clean>>
       \/ /\ FlushOnStart(c)
          /\ disk' = [o \in Orders |-> IF o \in Own(p) THEN "none" ELSE disk[o]]
          /\ clean' = [clean EXCEPT ![p] = {v \in Venues : snap[BalanceKey(p, v)] = NoSnap}]
          /\ UNCHANGED snap
       \/ /\ FlushOnStart(c)
          /\ disk' = [o \in Orders |-> "none"]
          /\ snap' = [k \in BalanceKeys |-> NoSnap]
          /\ clean' = [q \in Pods |-> IF q = p THEN Venues ELSE {}]
    /\ status' = Loaded(p, c, disk')

\* deserialize_balances of the snapshot under each venue's key; without one the
\* venue keeps its starting balance.
Restored(p) ==
    [o \in Orders |-> LET s == snap[BalanceKey(p, VenueOf[o])]
                      IN  IF s = NoSnap THEN 0 ELSE s[o]]

\* Mutant of Rehydrated: emulated orders are processed too.
RehydratedEmulated(p) ==
    {o \in Own(p) : status[o] \in {"open", "emulated"}} \cap conf[p].listed

\* The open orders to process again: not the emulated ones, and only where the
\* venue has a matching engine for the instrument.
Rehydrated(p) == {o \in Own(p) : status[o] = "open"} \cap conf[p].listed

\* Mutant of OnStart: a Redis failure is taken for a missing snapshot.
OnStartDegrading(p) ==
    /\ phase[p] = "built"
    /\ phase' = [phase EXCEPT ![p] = "running"]
    /\ \/ /\ conf[p].persist
          /\ \/ bal' = [bal EXCEPT ![p] = Restored(p)]
             \/ UNCHANGED bal
          /\ live' = [live EXCEPT ![p] = Rehydrated(p)]
       \/ /\ ~conf[p].persist
          /\ UNCHANGED <<bal, live>>
    /\ UNCHANGED <<conf, boots, status, disk, snap, dirty, saved, clean>>

\* BridgeActor.on_start, before any strategy starts: with persist replay the
\* saved totals over the fresh account and process the open orders again.
OnStart(p) ==
    /\ phase[p] = "built"
    /\ phase' = [phase EXCEPT ![p] = "running"]
    /\ \/ /\ conf[p].persist
          /\ bal' = [bal EXCEPT ![p] = Restored(p)]
          /\ live' = [live EXCEPT ![p] = Rehydrated(p)]
       \/ /\ ~conf[p].persist
          /\ UNCHANGED <<bal, live>>
    /\ UNCHANGED <<conf, boots, status, disk, snap, dirty, saved, clean>>

\* redis.get raises, or the account refuses the replay: on_start fails and the
\* process ends without on_stop.
OnStartFails(p) ==
    /\ phase[p] = "built" /\ conf[p].persist
    /\ phase' = [phase EXCEPT ![p] = "down"]
    /\ UNCHANGED <<conf, boots, status, disk, live, bal, snap, dirty, saved, clean>>

-----------------------------------------------------------------------------
(* The running pod.                                                        *)

\* The strategy places an order, with the sim or with NT's emulator.
Place(o, state) ==
    /\ phase[Owner[o]] = "running" /\ status[o] = "none"
    /\ o \in conf[Owner[o]].listed
    /\ status' = [status EXCEPT ![o] = state]
    /\ live' = IF state = "open" THEN [live EXCEPT ![Owner[o]] = @ \cup {o}] ELSE live
    /\ UNCHANGED <<phase, conf, boots, disk, bal, snap, dirty, saved, clean>>

\* The emulator releases an order to the sim.
Trigger(o) ==
    /\ phase[Owner[o]] = "running" /\ status[o] = "emulated"
    /\ o \in conf[Owner[o]].listed
    /\ status' = [status EXCEPT ![o] = "open"]
    /\ live' = [live EXCEPT ![Owner[o]] = @ \cup {o}]
    /\ UNCHANGED <<phase, conf, boots, disk, bal, snap, dirty, saved, clean>>

\* The sim fills an order it works on: the account and the cache both book it.
\* Events still arrive between on_stop and the end of the process.
Fill(o) ==
    LET p == Owner[o]
    IN  /\ phase[p] \in {"running", "stopped"} /\ o \in live[p]
        /\ status' = [status EXCEPT ![o] = "filled"]
        /\ live' = [live EXCEPT ![p] = @ \ {o}]
        /\ bal' = [bal EXCEPT ![p][o] = @ + 1]
        /\ dirty' = [dirty EXCEPT ![p] = @ \cup {VenueOf[o]}]
        /\ saved' = [saved EXCEPT ![p] = @ \ {VenueOf[o]}]
        /\ UNCHANGED <<phase, conf, boots, disk, snap, clean>>

\* Mutant of Written: an order the cache has lost is written all the same.
WrittenGone(p) ==
    [o \in Orders |-> IF o \in Own(p) /\ conf[p].cache THEN status[o] ELSE disk[o]]

\* The cache in Redis once NT's writer has caught up with the memory.
Written(p) ==
    [o \in Orders |-> IF o \in Own(p) /\ conf[p].cache /\ status[o] # "gone"
                      THEN status[o] ELSE disk[o]]

\* The background writer empties its buffer.
WriteBehind(p) ==
    /\ phase[p] # "down" /\ Written(p) # disk
    /\ disk' = Written(p)
    /\ UNCHANGED <<phase, conf, boots, status, live, bal, snap, dirty, saved, clean>>

-----------------------------------------------------------------------------
(* The end of a process.                                                   *)

\* SIGTERM: BridgeActor.on_stop saves the totals of one venue after another;
\* done are those it wrote before redis.set raised, all of them if it did not.
OnStop(p, done) ==
    /\ phase[p] = "running"
    /\ phase' = [phase EXCEPT ![p] = "stopped"]
    /\ done \subseteq (IF conf[p].persist THEN Venues ELSE {})
    /\ snap' = [k \in BalanceKeys |->
                  IF \E v \in done : k = BalanceKey(p, v)
                  THEN [o \in Orders |-> IF VenueOf[o] = k[2] THEN bal[p][o] ELSE 0]
                  ELSE snap[k]]
    /\ saved' = [saved EXCEPT ![p] = IF conf[p].cache THEN done ELSE {}]
    /\ UNCHANGED <<conf, boots, status, disk, live, bal, dirty, clean>>

\* The process and its memory are gone: the next one starts with empty matching
\* engines, the starting balances and no orders but those it loads.
Gone(p) ==
    /\ phase' = [phase EXCEPT ![p] = "down"]
    /\ live' = [live EXCEPT ![p] = {}]
    /\ bal' = [bal EXCEPT ![p] = FreshBalance]
    /\ dirty' = [dirty EXCEPT ![p] = {}]
    /\ saved' = [saved EXCEPT ![p] = {}]

\* node.dispose() closes the cache after its writer has caught up.
Exit(p) ==
    /\ phase[p] = "stopped"
    /\ Gone(p)
    /\ disk' = Written(p)
    /\ clean' = [clean EXCEPT ![p] = @ \ (dirty[p] \ saved[p])]
    /\ UNCHANGED <<conf, boots, status, snap>>

\* docker rm -f, which make deploy and make restart use on a running pod, or a
\* crash: no on_stop, and what the writer still buffered is lost.
Kill(p) ==
    /\ phase[p] # "down"
    /\ Gone(p)
    /\ clean' = [clean EXCEPT ![p] = @ \ dirty[p]]
    /\ UNCHANGED <<conf, boots, status, disk, snap>>

Next ==
    \/ \E p \in Pods, c \in Configs : Build(p, c)
    \/ \E p \in Pods : \/ OnStart(p) \/ OnStartFails(p) \/ WriteBehind(p)
                       \/ Exit(p) \/ Kill(p)
    \/ \E p \in Pods, done \in SUBSET Venues : OnStop(p, done)
    \/ \E o \in Orders : Place(o, "open") \/ Place(o, "emulated")
                         \/ Trigger(o) \/ Fill(o)

Spec == Init /\ [][Next]_vars

-----------------------------------------------------------------------------
\* What the comment above balance_key takes for granted and nothing enforces: no
\* two pods run under one trader id.
DistinctTraders == \A p, q \in Pods : TraderId[p] = TraderId[q] => p = q

TypeOK ==
    /\ phase \in [Pods -> Phases]
    /\ conf \in [Pods -> Configs]
    /\ boots \in 0 .. MaxBoots
    /\ status \in [Orders -> Statuses]
    /\ disk \in [Orders -> Statuses \ {"gone"}]
    /\ live \in [Pods -> SUBSET Orders]
    /\ bal \in [Pods -> [Orders -> Nat]]
    /\ snap \in [BalanceKeys -> {NoSnap} \cup [Orders -> Nat]]
    /\ dirty \in [Pods -> SUBSET Venues]
    /\ saved \in [Pods -> SUBSET Venues]
    /\ clean \in [Pods -> SUBSET Venues]

\* The pod was booted the way restart recovery asks for.
Recovering(p) == phase[p] = "running" /\ conf[p].persist /\ conf[p].cache

\* Across any number of restarts a recovering pod's balance includes the fill of
\* every order its cache holds as filled, once, and no other: money is lost or
\* doubled only on a venue with a fill that a kill, a failed save, a fill after
\* on_stop, or a boot with other settings kept out of one of the two stores.
BalancesFollowFills ==
    \A p \in Pods : Recovering(p) =>
        \A o \in Own(p) : VenueOf[o] \in clean[p] => bal[p][o] = Booked(o)

\* While a recovering pod runs, its matching engines work on the open orders of
\* its cache, restored ones and new ones, and on no other: none sits in the cache
\* unable to fill, and no emulated order can be executed twice.
OpenOrdersWork ==
    \A p \in Pods : phase[p] = "running" /\ conf[p].persist =>
        live[p] = {o \in Own(p) : status[o] = "open"} \cap conf[p].listed

\* A saved balance is replaced only by one that includes every fill it had: no
\* failed start, ephemeral boot or unread snapshot resets the record of a
\* venue's money; only a flush of Redis removes it.
SnapshotsNeverShrink ==
    [][\A k \in BalanceKeys :
          snap[k] # NoSnap /\ snap'[k] # NoSnap =>
              \A o \in Orders : snap[k][o] <= snap'[k][o]]_vars

\* A pod never trades with the money of another pod's snapshot.
OwnBalances ==
    \A p \in Pods, o \in Orders : bal[p][o] > 0 => Owner[o] = p
=============================================================================
