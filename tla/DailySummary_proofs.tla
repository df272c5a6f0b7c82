------------------------ MODULE DailySummary_proofs ------------------------
(***************************************************************************)
(* How far the one flaw of the daily summary reaches, for every calendar:  *)
(* a day without summary comes after a month end the process has lived to  *)
(* see.  Nothing else in the loop skips a day, and no day is skipped up to *)
(* and including that month end.                                           *)
(***************************************************************************)
EXTENDS DailySummary, Integers, TLAPS

-----------------------------------------------------------------------------
\* _parse_hh_mm returns a time of day; days are counted from the first midnight.
LawfulCalendar ==
    Hours \in Nat \ {0} /\ When \in 0 .. Hours - 1 /\ MonthEnds \subseteq Nat

\* The days whose time came while the process ran, up to and including time t.
DueBy(t) == {day \in Nat : since < Due(day) /\ Due(day) <= t}

\* A day passed over by the present process is later than some month end of
\* that process: the only days _daily_summary_loop leaves without summary.
SkipsFollowMonthEnds ==
    task # "none" =>
        \A day \in DueBy(now) :
            \/ Due(day) = now
            \/ day \in tried
            \/ \E last \in MonthEnds : Day(since) <= last /\ last < day

\* A task about to schedule has handled every time that came, a sleeping one waits
\* for the first that has not, and one that died handled all up to its month end.
LoopInv ==
    /\ now \in Nat /\ since \in Nat /\ since <= now
    /\ task \in {"none", "scheduling", "sleeping", "dead"}
    /\ task = "scheduling" => DueBy(now) \subseteq tried
    /\ task = "sleeping" =>
        /\ now <= target
        /\ \E day \in Nat : target = Due(day)
        /\ \A day \in DueBy(target) : day \in tried \/ Due(day) = target
    /\ task = "dead" =>
        \E last \in MonthEnds :
            /\ Day(since) <= last /\ Due(last) <= now
            /\ \A day \in DueBy(now) : day <= last => day \in tried

-----------------------------------------------------------------------------
(* Calendar arithmetic. *)

LEMMA DayBounds ==
    ASSUME LawfulCalendar, NEW t \in Nat
    PROVE  Day(t) \in Nat /\ Day(t) * Hours <= t /\ t < Day(t) * Hours + Hours
BY DEF LawfulCalendar, Day

LEMMA Multiples ==
    ASSUME LawfulCalendar, NEW d \in Nat, NEW e \in Nat, d < e
    PROVE  d * Hours + Hours <= e * Hours
<1> DEFINE k == e - d - 1
<1>1. k \in Nat /\ e = d + 1 + k OBVIOUS
<1>2. Hours \in Nat BY DEF LawfulCalendar
<1>3. k * Hours \in Nat BY <1>1, <1>2
<1>4. (d + 1 + k) * Hours = d * Hours + Hours + k * Hours BY <1>1, <1>2
<1> QED BY <1>1, <1>2, <1>3, <1>4

\* Later days are due later.
LEMMA DueOrder ==
    ASSUME LawfulCalendar, NEW d \in Nat, NEW e \in Nat
    PROVE  /\ Due(d) \in Nat
           /\ Due(d) < Due(e) <=> d < e
           /\ Due(d) = Due(e) <=> d = e
<1>1. Hours \in Nat \ {0} /\ When \in Nat BY DEF LawfulCalendar
<1>2. d * Hours \in Nat /\ e * Hours \in Nat BY <1>1
<1>3. CASE d < e BY <1>1, <1>2, <1>3, Multiples DEF Due
<1>4. CASE e < d BY <1>1, <1>2, <1>4, Multiples DEF Due
<1>5. CASE d = e BY <1>1, <1>2, <1>5 DEF Due
<1> QED BY <1>3, <1>4, <1>5

\* The day of its time is the day it is due.
LEMMA DayOfDue ==
    ASSUME LawfulCalendar, NEW d \in Nat
    PROVE  Day(Due(d)) = d
<1>1. Due(d) \in Nat BY DueOrder
<1> DEFINE e == Day(Due(d))
<1>2. e \in Nat /\ e * Hours <= Due(d) /\ Due(d) < e * Hours + Hours BY <1>1, DayBounds
<1>3. Hours \in Nat \ {0} /\ When \in Nat /\ When < Hours BY DEF LawfulCalendar
<1>4. d * Hours \in Nat /\ e * Hours \in Nat BY <1>2, <1>3
<1> HIDE DEF e
<1>5. ~ (e < d)
  <2> SUFFICES ASSUME e < d PROVE FALSE OBVIOUS
  <2>1. e * Hours + Hours <= d * Hours BY <1>2, Multiples
  <2> QED BY <1>2, <1>3, <1>4, <2>1 DEF Due
<1>6. ~ (d < e)
  <2> SUFFICES ASSUME d < e PROVE FALSE OBVIOUS
  <2>1. d * Hours + Hours <= e * Hours BY <1>2, Multiples
  <2> QED BY <1>2, <1>3, <1>4, <2>1 DEF Due
<1>7. e = d BY <1>2, <1>5, <1>6
<1> QED BY <1>7 DEF e

LEMMA DayMonotone ==
    ASSUME LawfulCalendar, NEW s \in Nat, NEW t \in Nat, s <= t
    PROVE  Day(s) <= Day(t)
<1>1. /\ Day(s) \in Nat /\ Day(s) * Hours <= s
      /\ Day(t) \in Nat /\ t < Day(t) * Hours + Hours
  BY DayBounds
<1>2. Hours \in Nat /\ Day(s) * Hours \in Nat /\ Day(t) * Hours \in Nat
  BY <1>1 DEF LawfulCalendar
<1>3. ~ (Day(t) < Day(s))
  <2> SUFFICES ASSUME Day(t) < Day(s) PROVE FALSE OBVIOUS
  <2>1. Day(t) * Hours + Hours <= Day(s) * Hours BY <1>1, Multiples
  <2> QED BY <1>1, <1>2, <2>1
<1> QED BY <1>1, <1>3

\* What is due between the time of today and the next: every earlier day is due by
\* now, and so is today once its time is past.
LEMMA DueAround ==
    ASSUME LawfulCalendar, NEW t \in Nat, NEW d \in Nat
    PROVE  /\ d < Day(t) => Due(d) <= t
           /\ t < Due(Day(t) + 1)
<1>1. Day(t) \in Nat /\ Day(t) * Hours <= t /\ t < Day(t) * Hours + Hours BY DayBounds
<1>2. Hours \in Nat /\ When \in Nat /\ When < Hours BY DEF LawfulCalendar
<1>3. d * Hours \in Nat /\ Day(t) * Hours \in Nat BY <1>1, <1>2
<1>4. (Day(t) + 1) * Hours = Day(t) * Hours + Hours BY <1>1, <1>2
<1>5. d < Day(t) => d * Hours + Hours <= Day(t) * Hours BY <1>1, Multiples
<1> QED BY <1>1, <1>2, <1>3, <1>4, <1>5 DEF Due

-----------------------------------------------------------------------------
(* The loop. *)

LEMMA LoopInit == Init => LoopInv
BY DEF Init, LoopInv

LEMMA LoopSchedule ==
    ASSUME LawfulCalendar, LoopInv, Schedule
    PROVE  LoopInv'
<1>1. /\ now \in Nat /\ since \in Nat /\ since <= now /\ task = "scheduling"
      /\ DueBy(now) \subseteq tried
      /\ now' = now /\ since' = since /\ tried' = tried /\ task' = "sleeping"
  BY DEF LoopInv, Schedule
<1>2. Day(now) \in Nat BY <1>1, DayBounds
<1>3. PICK next \in Nat : /\ target' = Due(next)
                          /\ now <= Due(next)
                          /\ \A day \in Nat : day < next => Due(day) <= now
  <2>1. CASE Due(Day(now)) > now /\ target' = Due(Day(now))
    <3>1. Due(Day(now)) \in Nat BY <1>2, DueOrder
    <3>2. \A day \in Nat : day < Day(now) => Due(day) <= now BY <1>1, DueAround
    <3> QED BY <1>1, <1>2, <2>1, <3>1, <3>2
  <2>2. CASE Due(Day(now)) <= now /\ target' = Due(Day(now) + 1)
    <3>1. Due(Day(now) + 1) \in Nat BY <1>2, DueOrder
    <3>2. now < Due(Day(now) + 1) BY <1>1, <1>2, DueAround
    <3>3. ASSUME NEW day \in Nat, day < Day(now) + 1 PROVE Due(day) <= now
      <4>1. day < Day(now) \/ day = Day(now) BY <1>2, <3>3
      <4> QED BY <1>1, <2>2, <4>1, DueAround
    <3> QED BY <1>1, <1>2, <2>2, <3>1, <3>2, <3>3
  <2> QED BY <2>1, <2>2 DEF Schedule
<1>4. ASSUME NEW day \in Nat, since < Due(day), Due(day) <= Due(next)
      PROVE  day \in tried \/ Due(day) = Due(next)
  <2>1. Due(day) \in Nat /\ Due(next) \in Nat BY DueOrder
  <2>2. Due(day) = Due(next) \/ day < next BY <1>4, <2>1, DueOrder
  <2> QED BY <1>1, <1>3, <1>4, <2>2 DEF DueBy
<1> QED BY <1>1, <1>3, <1>4 DEF LoopInv, DueBy

LEMMA LoopPost ==
    ASSUME LawfulCalendar, LoopInv, Post
    PROVE  LoopInv'
<1>1. /\ now \in Nat /\ since \in Nat /\ since <= now
      /\ now <= target /\ target <= now
      /\ \A day \in DueBy(target) : day \in tried \/ Due(day) = target
      /\ now' = now /\ since' = since /\ task' = "scheduling"
      /\ tried' = tried \cup {Day(target)}
  BY DEF LoopInv, Post
<1>2. PICK next \in Nat : target = Due(next) BY DEF LoopInv, Post
<1>3. target \in Nat /\ target = now BY <1>1, <1>2, DueOrder
<1>4. ASSUME NEW day \in Nat, since < Due(day), Due(day) <= now
      PROVE  day \in tried'
  <2>1. day \in tried \/ Due(day) = target BY <1>1, <1>3, <1>4 DEF DueBy
  <2>2. Day(Due(day)) = day BY DayOfDue
  <2> QED BY <1>1, <2>1, <2>2
<1> QED BY <1>1, <1>4 DEF LoopInv, DueBy

\* Time passes a sleeping task only up to its target, and a dead one freely.
LEMMA LoopTick ==
    ASSUME LawfulCalendar, LoopInv, Tick
    PROVE  LoopInv'
<1>1. /\ now \in Nat /\ since \in Nat /\ since <= now
      /\ task # "scheduling" /\ ~(task = "sleeping" /\ target <= now)
      /\ now' = now + 1 /\ since' = since /\ tried' = tried
      /\ task' = task /\ target' = target
      /\ task \in {"none", "scheduling", "sleeping", "dead"}
  BY DEF LoopInv, Tick
<1>2. CASE task = "sleeping"
  <2>1. PICK next \in Nat : target = Due(next) BY <1>2 DEF LoopInv
  <2>2. target \in Nat BY <2>1, DueOrder
  <2>3. \A day \in DueBy(target) : day \in tried \/ Due(day) = target
    BY <1>2 DEF LoopInv
  <2>4. now' <= target BY <1>1, <1>2, <2>2
  <2> QED BY <1>1, <1>2, <2>1, <2>3, <2>4 DEF LoopInv, DueBy
<1>3. CASE task = "dead"
  <2>1. PICK last \in MonthEnds :
            /\ Day(since) <= last /\ Due(last) <= now
            /\ \A day \in DueBy(now) : day <= last => day \in tried
    BY <1>3 DEF LoopInv
  <2>2. last \in Nat BY DEF LawfulCalendar
  <2>3. ASSUME NEW day \in Nat, since < Due(day), day <= last PROVE day \in tried
    <3>1. Due(day) \in Nat /\ Due(last) \in Nat BY <2>2, DueOrder
    <3>2. Due(day) <= Due(last) BY <2>2, <2>3, <3>1, DueOrder
    <3> QED BY <1>1, <2>1, <2>3, <3>1, <3>2 DEF DueBy
  <2>4. Due(last) <= now' BY <1>1, <2>1, <2>2, DueOrder
  <2> QED BY <1>1, <1>3, <2>1, <2>3, <2>4 DEF LoopInv, DueBy, Day
<1>4. CASE task = "none" BY <1>1, <1>4 DEF LoopInv
<1> QED BY <1>1, <1>2, <1>3, <1>4

\* The loop dies on the last day of a month, with that day handled.
LEMMA LoopDies ==
    ASSUME LawfulCalendar, LoopInv, ScheduleRaises
    PROVE  LoopInv'
<1>1. /\ now \in Nat /\ since \in Nat /\ since <= now
      /\ DueBy(now) \subseteq tried
      /\ Due(Day(now)) <= now /\ Day(now) \in MonthEnds
      /\ task' = "dead" /\ now' = now /\ since' = since /\ tried' = tried
  BY DEF LoopInv, ScheduleRaises
<1>2. Day(since) <= Day(now) BY <1>1, DayMonotone
<1> QED BY <1>1, <1>2 DEF LoopInv, DueBy, Day

LEMMA LoopStep == LawfulCalendar /\ LoopInv /\ [Next]_vars => LoopInv'
<1> SUFFICES ASSUME LawfulCalendar, LoopInv, [Next]_vars PROVE LoopInv'
  OBVIOUS
<1>1. CASE Tick BY <1>1, LoopTick
<1>2. CASE Start
  <2>1. ASSUME NEW day \in Nat PROVE ~(now < Due(day) /\ Due(day) <= now)
    BY DueOrder DEF LoopInv
  <2> QED BY <1>2, <2>1 DEF Start, LoopInv, DueBy
<1>3. CASE Stop BY <1>3 DEF Stop, LoopInv
<1>4. CASE Schedule BY <1>4, LoopSchedule
<1>5. CASE ScheduleRaises BY <1>5, LoopDies
<1>6. CASE Post BY <1>6, LoopPost
<1>7. CASE UNCHANGED vars BY <1>7 DEF vars, LoopInv, DueBy, Day
<1> QED BY <1>1, <1>2, <1>3, <1>4, <1>5, <1>6, <1>7 DEF Next

LEMMA SkipsExplained == LawfulCalendar /\ LoopInv => SkipsFollowMonthEnds
<1> SUFFICES ASSUME LawfulCalendar, LoopInv, task # "none", NEW day \in DueBy(now),
                    Due(day) # now, day \notin tried
             PROVE  \E last \in MonthEnds : Day(since) <= last /\ last < day
  BY DEF SkipsFollowMonthEnds
<1>1. CASE task = "sleeping"
  <2>1. PICK next \in Nat : target = Due(next) BY <1>1 DEF LoopInv
  <2>2. Due(day) \in Nat /\ target \in Nat BY <2>1, DueOrder DEF DueBy
  <2>3. day \in DueBy(target) /\ Due(day) # target BY <1>1, <2>2 DEF LoopInv, DueBy
  <2> QED BY <1>1, <2>3 DEF LoopInv
<1>2. CASE task = "dead"
  <2>1. PICK last \in MonthEnds :
            Day(since) <= last /\ \A d \in DueBy(now) : d <= last => d \in tried
    BY <1>2 DEF LoopInv
  <2> QED BY <2>1 DEF LawfulCalendar, DueBy
<1> QED BY <1>1, <1>2 DEF LoopInv

\* _daily_summary_loop tries every day whose time a process lives through, except
\* after a month end of that process.
THEOREM SkipsAreMonthEnds ==
    ASSUME LawfulCalendar
    PROVE  Spec => []SkipsFollowMonthEnds
<1>1. Init => LoopInv BY LoopInit
<1>2. LoopInv /\ [Next]_vars => LoopInv' BY LoopStep
<1>3. LoopInv => SkipsFollowMonthEnds BY SkipsExplained
<1> QED BY <1>1, <1>2, <1>3, PTL DEF Spec
=============================================================================
