-------------------------- MODULE EntryTiming_proofs --------------------------
(***************************************************************************)
(* Proofs about EntryTiming where breakouts have to hold: for any candles, *)
(* trends and thresholds and any order of evaluations, a candle yields at  *)
(* most one breakout and one retest, and a breakout is entered only while  *)
(* the earlier candle that announced it stands.                            *)
(*                                                                         *)
(* The structure stop of a decision leaves something to lose, with or      *)
(* without that rule.                                                      *)
(***************************************************************************)
EXTENDS EntryTiming, TLAPS

\* The last candle is beyond its box, whatever the 15 minute trend.
Broken(dir) == \A trend \in Trends : BrokeOut(Faced(dir, trend), Cfg[dir])

\* No breakout waits that could be held by the last candle.
Unheld == pending = NoPending \/ pending.age = 0

\* What is remembered has a direction, and what was decided is counted.
Shape ==
  /\ pending = NoPending \/ ("dir" \in DOMAIN pending /\ pending.dir \in Directions)
  /\ retest = NoRetest \/ ("dir" \in DOMAIN retest /\ retest.dir \in Directions)
  /\ decision.mode = "BREAKOUT" => decision.dir \in Directions
  /\ made \in [{"BREAKOUT", "RETEST"} -> {0, 1}]

\* OncePerCandle is not inductive: it has to be said that what was decided on a candle
\* has used up what the decision rests on.  A retest that is registered once more on the
\* candle comes from a breakout of that very candle, which is no return to the level.
OnceInv ==
  /\ Shape
  /\ made["BREAKOUT"] = 1 => Unheld
  /\ made["RETEST"] = 1 => /\ Unheld
                           /\ decision.mode # "BREAKOUT"
                           /\ retest = NoRetest \/ Broken(retest.dir)

-----------------------------------------------------------------------------
\* A breakout is not a matter of the 15 minute trend.
LEMMA TrendIsNoMatter ==
  ASSUME NEW dir, NEW trend \in Trends
  PROVE  BrokeOut(Faced(dir, trend), Cfg[dir]) => Broken(dir)
<1> SUFFICES ASSUME NEW other \in Trends
             PROVE  BrokeOut(Faced(dir, trend), Cfg[dir]) <=> BrokeOut(Faced(dir, other), Cfg[dir])
  BY DEF Broken
<1>1. /\ Faced(dir, trend).candles = Faced(dir, other).candles
      /\ Faced(dir, trend).box = Faced(dir, other).box
      /\ Faced(dir, trend).atr = Faced(dir, other).atr
  BY DEF Faced, Facing, Context
<1> QED
  BY <1>1 DEF BrokeOut, Beyond, LastOf

\* The retest grows older, or is forgotten; its direction stays.
LEMMA AdvancedKeepsDirection ==
  ASSUME Shape
  PROVE  Advanced = NoRetest \/ ("dir" \in DOMAIN Advanced /\ Advanced.dir = retest.dir
                                   /\ retest # NoRetest /\ Advanced.dir \in Directions)
  BY DEF Advanced, Shape

LEMMA MinOfTwo == Min({1, 2}) = 1
  BY DEF Min

\* The first decision of its mode on a candle.
LEMMA FirstDecision ==
  ASSUME Shape, NEW d, Decides(d), d.mode \in {"BREAKOUT", "RETEST"}, made[d.mode] = 0
  PROVE  made' \in [{"BREAKOUT", "RETEST"} -> {0, 1}]
         /\ \A m \in {"BREAKOUT", "RETEST"} \ {d.mode} : made'[m] = made[m]
<1>1. made' = [made EXCEPT ![d.mode] = Min({made[d.mode] + 1, 2})]
  BY DEF Decides, Shape
<1>2. Min({made[d.mode] + 1, 2}) = 1
  BY MinOfTwo
<1> QED
  BY <1>1, <1>2 DEF Shape

-----------------------------------------------------------------------------
(* The evaluation.                                                         *)

\* Decisions that are no breakout and no retest are not counted.
LEMMA Uncounted ==
  ASSUME Shape, NEW d, Decides(d), d.mode \notin {"BREAKOUT", "RETEST"}
  PROVE  made' = made /\ decision' = d
  BY DEF Decides, Shape

\* A step that counts nothing, and leaves nothing more to be held or returned to.
LEMMA OnceKept ==
  ASSUME OnceInv, Shape', made' = made, bars' = bars, decision'.mode # "BREAKOUT",
         made["BREAKOUT"] = 1 \/ made["RETEST"] = 1 => Unheld',
         made["RETEST"] = 1
           => retest' = NoRetest \/ Broken(retest'.dir) \/ (retest'.dir = retest.dir /\ retest # NoRetest)
  PROVE  OnceInv'
<1>1. \A dir : Broken(dir)' <=> Broken(dir)
  BY DEF Broken, Faced, Context, Box, Candles
<1> QED
  BY <1>1 DEF OnceInv

LEMMA EvaluationOnce ==
  ASSUME RequireHold, OnceInv, NEW dir \in Directions, NEW trend \in Trends, Evaluate(dir, trend)
  PROVE  OnceInv'
<1> DEFINE x == Faced(dir, trend)
<1>0. Shape /\ bars' = bars
  BY DEF Evaluate, OnceInv, Waits, Holds, HoldFails, BreaksOut, BreaksOutUnhealthy, Retests, Scouts
<1>a. NoDecision.mode = "NONE" /\ "dir" \in DOMAIN NoPending /\ NoPending.dir = "NONE"
  BY DEF NoDecision, NoPending
<1>b. \A level : "dir" \in DOMAIN Registered(dir, level) /\ Registered(dir, level).dir = dir
  BY DEF Registered
<1>c. Advanced = NoRetest \/ ("dir" \in DOMAIN Advanced /\ Advanced.dir = retest.dir
                                /\ retest # NoRetest /\ Advanced.dir \in Directions)
  BY <1>0, AdvancedKeepsDirection
<1>1. CASE Waits(dir)
  <2>1. made' = made /\ decision' = NoDecision
    BY <1>0, <1>1, <1>a, Uncounted DEF Waits
  <2>2. pending' = pending /\ retest' = Advanced /\ pending.age = 0
    BY <1>1, <1>a DEF Waits, Kept
  <2>3. Shape' /\ Unheld'
    BY <1>0, <1>a, <1>c, <2>1, <2>2 DEF Shape, Unheld
  <2> QED
    BY <1>0, <1>a, <1>c, <2>1, <2>2, <2>3, OnceKept
<1>2. CASE Holds(dir, x)
  <2>1. pending # NoPending /\ pending.age > 0 /\ ~Unheld
    BY <1>2, <1>a DEF Holds, Kept, Unheld
  <2>2. made["BREAKOUT"] = 0 /\ made["RETEST"] = 0
    BY <1>0, <2>1 DEF OnceInv, Shape
  <2>3. decision'.mode = "BREAKOUT" /\ decision'.dir = dir
    BY <1>2 DEF Holds, Decides, BreakoutDecision, Decision
  <2>4. made' \in [{"BREAKOUT", "RETEST"} -> {0, 1}] /\ made'["RETEST"] = 0
    BY <1>0, <1>2, <2>2, <2>3, FirstDecision DEF Holds, BreakoutDecision, Decision
  <2>5. pending' = NoPending /\ retest' = Advanced
    BY <1>2 DEF Holds, Forgets
  <2> QED
    BY <1>c, <2>3, <2>4, <2>5 DEF OnceInv, Shape, Unheld
<1>3. CASE HoldFails(dir, x)
  <2>1. pending # NoPending /\ pending.age > 0 /\ ~Unheld
    BY <1>3, <1>a DEF HoldFails, Kept, Unheld
  <2>2. made["RETEST"] = 0
    BY <1>0, <2>1 DEF OnceInv, Shape
  <2>3. made' = made /\ decision' = NoDecision
    BY <1>0, <1>3, <1>a, Uncounted DEF HoldFails
  <2>4. pending' = NoPending
    BY <1>3 DEF HoldFails, Forgets
  <2>5. retest' = NoRetest \/ ("dir" \in DOMAIN retest' /\ retest'.dir \in Directions)
    BY <1>3, <1>b, <1>c DEF HoldFails, Remembers
  <2> QED
    BY <1>0, <1>a, <2>2, <2>3, <2>4, <2>5 DEF OnceInv, Shape, Unheld
<1>4. CASE BreaksOut(dir, x)
  <2>1. made' = made /\ decision' = NoDecision
    BY <1>0, <1>4, <1>a, Uncounted DEF BreaksOut
  <2>2. pending'.dir = dir /\ "dir" \in DOMAIN pending' /\ pending'.age = 0 /\ retest' = Advanced
    BY <1>4 DEF BreaksOut
  <2>3. Shape' /\ Unheld'
    BY <1>0, <1>a, <1>c, <2>1, <2>2 DEF Shape, Unheld
  <2> QED
    BY <1>0, <1>a, <1>c, <2>1, <2>2, <2>3, OnceKept
<1>5. CASE BreaksOutUnhealthy(dir, x)
  <2>1. made' = made /\ decision' = NoDecision
    BY <1>0, <1>5, <1>a, Uncounted DEF BreaksOutUnhealthy
  <2>2. pending' = NoPending
    BY <1>5 DEF BreaksOutUnhealthy, Forgets
  <2>3. Broken(dir)
    BY <1>5, TrendIsNoMatter DEF BreaksOutUnhealthy
  <2>4. \/ retest' = Advanced
        \/ "dir" \in DOMAIN retest' /\ retest'.dir = dir
    BY <1>5, <1>b DEF BreaksOutUnhealthy, Remembers
  <2>5. Shape' /\ Unheld'
    BY <1>0, <1>a, <1>c, <2>1, <2>2, <2>4 DEF Shape, Unheld
  <2> QED
    BY <1>0, <1>a, <1>c, <2>1, <2>2, <2>3, <2>4, <2>5, OnceKept
<1>6. CASE Retests(dir, x)
  <2>1. ~BrokeOut(x, Cfg[dir]) /\ Advanced.dir = dir
    BY <1>6 DEF Retests, Inside, Returns
  <2>2. retest # NoRetest /\ retest.dir = dir
    BY <1>c, <2>1 DEF NoRetest, Directions
  <2>3. ~Broken(retest.dir)
    BY <2>1, <2>2 DEF Broken
  <2>4. made["RETEST"] = 0
    BY <1>0, <2>2, <2>3 DEF OnceInv, Shape
  <2>5. decision'.mode = "RETEST"
    BY <1>6 DEF Retests, Decides, RetestDecision, Decision
  <2>6. made' \in [{"BREAKOUT", "RETEST"} -> {0, 1}] /\ made'["BREAKOUT"] = made["BREAKOUT"]
    BY <1>0, <1>6, <2>4, FirstDecision DEF Retests, RetestDecision, Decision
  <2>7. pending' = NoPending /\ retest' = NoRetest
    BY <1>6 DEF Retests, Forgets
  <2> QED
    BY <2>5, <2>6, <2>7 DEF OnceInv, Shape, Unheld
<1>7. CASE Scouts(dir, x)
  <2>1. made' = made /\ decision'.mode \in {"NONE", "SCOUT"}
    BY <1>0, <1>7, <1>a, Uncounted DEF Scouts, ScoutDecision, Decision
  <2>2. pending' = NoPending /\ retest' = Advanced
    BY <1>7 DEF Scouts, Forgets
  <2>3. Shape' /\ Unheld'
    BY <1>0, <1>c, <2>1, <2>2 DEF Shape, Unheld
  <2> QED
    BY <1>0, <1>c, <2>1, <2>2, <2>3, OnceKept
<1> QED
  BY <1>1, <1>2, <1>3, <1>4, <1>5, <1>6, <1>7 DEF Evaluate

-----------------------------------------------------------------------------
(* What goes on between evaluations.                                       *)

LEMMA UnfilledOnce ==
  ASSUME OnceInv, NEW trend \in Trends, OrderUnfilled(trend)
  PROVE  OnceInv'
<1>1. decision' = NoDecision /\ NoDecision.mode = "NONE" /\ made' = made /\ pending' = pending
  BY DEF OrderUnfilled, NoDecision
<1>2. decision.dir \in Directions /\ made["RETEST"] = 0
  BY DEF OrderUnfilled, OnceInv, Shape
<1>3. "dir" \in DOMAIN retest' /\ retest'.dir = decision.dir
  BY DEF OrderUnfilled, Registered
<1> QED
  BY <1>1, <1>2, <1>3 DEF OnceInv, Shape, Unheld

LEMMA NewCandleOnce ==
  ASSUME OnceInv, NEW bar, CandleCloses(bar)
  PROVE  OnceInv'
<1>1. made' = NothingMade /\ decision' = NoDecision /\ NoDecision.mode = "NONE"
  BY DEF CandleCloses, NoDecision
<1>2. ASSUME NEW p, p = NoPending \/ ("dir" \in DOMAIN p /\ p.dir \in Directions)
      PROVE  Older(p) = NoPending \/ ("dir" \in DOMAIN Older(p) /\ Older(p).dir \in Directions)
  BY <1>2 DEF Older, NoPending
<1>3. NoRetest = NoPending
  BY DEF NoRetest, NoPending
<1> QED
  BY <1>1, <1>2, <1>3 DEF CandleCloses, OnceInv, Shape, NothingMade

LEMMA NextOnce == ASSUME RequireHold, OnceInv, [Next]_vars PROVE OnceInv'
<1>1. ASSUME NEW dir \in Directions, NEW trend \in Trends, Evaluate(dir, trend) PROVE OnceInv'
  BY <1>1, EvaluationOnce
<1>2. ASSUME NEW trend \in Trends, OrderUnfilled(trend) PROVE OnceInv'
  BY <1>2, UnfilledOnce
<1>3. ASSUME NEW bar \in Bars, CandleCloses(bar) PROVE OnceInv'
  BY <1>3, NewCandleOnce
<1>4. CASE Reload
  BY <1>4 DEF Reload, OnceInv, Shape, Unheld, NoDecision
<1>5. CASE UNCHANGED vars
  BY <1>5 DEF vars, OnceInv, Shape, Unheld, Broken, Faced, Context, Box, Candles
<1> QED
  BY <1>1, <1>2, <1>3, <1>4, <1>5 DEF Next

LEMMA OnceInvCorrect == ASSUME RequireHold PROVE Spec => []OnceInv
<1>1. Init => OnceInv
  BY DEF Init, OnceInv, Shape, Unheld, NoDecision, NothingMade
<1>2. OnceInv /\ [Next]_vars => OnceInv'
  BY NextOnce
<1> QED
  BY <1>1, <1>2, PTL DEF Spec

\* Where a breakout has to hold, a candle yields at most one breakout and one retest,
\* however often it is evaluated and whatever happens to the orders.
THEOREM OneEntryPerCandle == ASSUME RequireHold PROVE Spec => []OncePerCandle
<1>1. OnceInv => OncePerCandle
  BY DEF OnceInv, Shape, OncePerCandle
<1> QED
  BY <1>1, OnceInvCorrect, PTL

-----------------------------------------------------------------------------
\* What is remembered of a breakout: the stream has shown it, on this candle or an earlier
\* one, and no evaluation faced the other direction since.
Mark(seen) == [dir |-> pending.dir, seen |-> seen]

StaleInv ==
  pending # NoPending =>
    /\ pending.dir \in Directions
    /\ "age" \in DOMAIN pending /\ pending.age \in Nat
    /\ IF pending.age = 0 THEN Mark("now") \in breaks ELSE Mark("earlier") \in breaks

\* An evaluation remembers a breakout where it sees one, or keeps the one of its direction.
LEMMA EvaluationStale ==
  ASSUME StaleInv, NEW dir \in Directions, NEW trend \in Trends, Evaluate(dir, trend)
  PROVE  StaleInv'
<1> DEFINE x == Faced(dir, trend)
<1>0. Observes(dir, x)
  BY DEF Evaluate
<1>1. CASE Waits(dir)
  <2>1. pending' = pending /\ pending # NoPending /\ pending.dir = dir /\ pending.age = 0
    BY <1>1 DEF Waits, Kept
  <2>2. Mark("now") \in breaks /\ Mark("now").dir = dir
    BY <2>1 DEF StaleInv, Mark
  <2>3. Mark("now") \in breaks'
    BY <1>0, <2>2 DEF Observes
  <2> QED
    BY <2>1, <2>3 DEF StaleInv, Mark
<1>2. CASE BreaksOut(dir, x)
  <2>1. CASE RequireHold
    <3>1. pending' = [dir |-> dir, level |-> x.box, age |-> 0]
      BY <1>2, <2>1 DEF BreaksOut
    <3>2. [dir |-> dir, seen |-> "now"] \in breaks'
      BY <1>0, <1>2 DEF BreaksOut, Observes
    <3> QED
      BY <3>1, <3>2 DEF StaleInv, Mark
  <2>2. CASE ~RequireHold
    BY <1>2, <2>2 DEF BreaksOut, Forgets, StaleInv
  <2> QED
    BY <2>1, <2>2
<1>3. CASE Holds(dir, x) \/ HoldFails(dir, x) \/ BreaksOutUnhealthy(dir, x)
           \/ Retests(dir, x) \/ Scouts(dir, x)
  BY <1>3 DEF Holds, HoldFails, BreaksOutUnhealthy, Retests, Scouts, Forgets, StaleInv
<1> QED
  BY <1>1, <1>2, <1>3 DEF Evaluate

LEMMA NewCandleStale ==
  ASSUME StaleInv, NEW bar, CandleCloses(bar)
  PROVE  StaleInv'
<1>1. CASE pending = NoPending
  BY <1>1 DEF CandleCloses, Older, NoPending, StaleInv
<1>2. CASE pending # NoPending
  <2>1. pending.dir \in Directions /\ pending.age \in Nat /\ pending.dir # "NONE"
    BY <1>2 DEF StaleInv, Directions
  <2>2. pending' = [pending EXCEPT !.age = Min({pending.age + 1, MaxAge})]
    BY <2>1 DEF CandleCloses, Older
  <2>3. Min({pending.age + 1, MaxAge}) \in Nat \ {0}
    <3>1. pending.age + 1 \in Nat \ {0} /\ MaxAge \in Nat \ {0}
      BY <2>1, TimingAssumption
    <3>2. \E m \in {pending.age + 1, MaxAge} : \A n \in {pending.age + 1, MaxAge} : m <= n
      BY <3>1
    <3> QED
      BY <3>1, <3>2 DEF Min
  <2>4. PICK b \in breaks : b = Mark("now") \/ b = Mark("earlier")
    BY <1>2 DEF StaleInv
  <2>5. [b EXCEPT !.seen = "earlier"] \in breaks'
    BY DEF CandleCloses
  <2>6. [dir |-> pending.dir, seen |-> "earlier"] \in breaks'
    BY <2>4, <2>5 DEF Mark
  <2>7. pending'.dir = pending.dir /\ "age" \in DOMAIN pending'
        /\ pending'.age = Min({pending.age + 1, MaxAge})
    BY <1>2, <2>2 DEF StaleInv
  <2> QED
    BY <2>1, <2>3, <2>6, <2>7 DEF StaleInv, Mark
<1> QED
  BY <1>1, <1>2

LEMMA NextStale == ASSUME StaleInv, [Next]_vars PROVE StaleInv'
<1>1. ASSUME NEW dir \in Directions, NEW trend \in Trends, Evaluate(dir, trend) PROVE StaleInv'
  BY <1>1, EvaluationStale
<1>2. ASSUME NEW trend \in Trends, OrderUnfilled(trend) PROVE StaleInv'
  BY <1>2 DEF OrderUnfilled, StaleInv, Mark
<1>3. ASSUME NEW bar \in Bars, CandleCloses(bar) PROVE StaleInv'
  BY <1>3, NewCandleStale
<1>4. CASE Reload
  BY <1>4 DEF Reload, StaleInv
<1>5. CASE UNCHANGED vars
  BY <1>5 DEF vars, StaleInv, Mark
<1> QED
  BY <1>1, <1>2, <1>3, <1>4, <1>5 DEF Next

LEMMA EntersOnlyHeld ==
  ASSUME RequireHold, OnceInv, StaleInv, Next, Enters("BREAKOUT")
  PROVE  [dir |-> decision'.dir, seen |-> "earlier"] \in breaks
<1>0. decision'.mode = "BREAKOUT" /\ made'["BREAKOUT"] > made["BREAKOUT"]
      /\ made["BREAKOUT"] \in {0, 1} /\ NoDecision.mode = "NONE"
  BY DEF Enters, OnceInv, Shape, NoDecision
<1>1. ASSUME NEW trend \in Trends, OrderUnfilled(trend) PROVE FALSE
  BY <1>0, <1>1 DEF OrderUnfilled
<1>2. ASSUME NEW bar \in Bars, CandleCloses(bar) PROVE FALSE
  BY <1>0, <1>2 DEF CandleCloses
<1>3. ~Reload
  BY <1>0 DEF Reload
<1>4. PICK dir \in Directions, trend \in Trends : Evaluate(dir, trend)
  BY <1>1, <1>2, <1>3 DEF Next
<1>5. Holds(dir, Faced(dir, trend))
  BY <1>0, <1>4 DEF Evaluate, Waits, HoldFails, BreaksOut, BreaksOutUnhealthy, Retests, Scouts,
                    Decides, RetestDecision, ScoutDecision, Decision
<1>6. pending.dir = dir /\ pending # NoPending /\ pending.age > 0 /\ decision'.dir = dir
  BY <1>5 DEF Holds, Kept, Decides, BreakoutDecision, Decision
<1> QED
  BY <1>6 DEF StaleInv, Mark

\* Where a breakout has to hold, one is entered only if an earlier candle of the stream has
\* announced it and no evaluation faced the other direction since.
THEOREM BreakoutsAreFresh == ASSUME RequireHold PROVE Spec => BreakoutNeverStale
<1>1. Init => StaleInv
  BY DEF Init, StaleInv
<1>2. StaleInv /\ [Next]_vars => StaleInv'
  BY NextStale
<1>3. OnceInv /\ StaleInv /\ [Next]_vars
        => [Enters("BREAKOUT") => [dir |-> decision'.dir, seen |-> "earlier"] \in breaks]_vars
  BY EntersOnlyHeld
<1> QED
  BY <1>1, <1>2, <1>3, OnceInvCorrect, PTL DEF Spec, BreakoutNeverStale

-----------------------------------------------------------------------------
(* Structure stops.                                                        *)

Candle == [open : Int, high : Int, low : Int, close : Int]

Ordered(c) ==
  c.low <= c.close /\ c.close <= c.high /\ c.low <= c.open /\ c.open <= c.high

\* What an exchange reports, an ATR without which the engine decides nothing, and a setting
\* under which a scout's stop leaves something to lose although its candle may close at its
\* low: a buffer, or the chase filter.
Sound ==
  /\ \A b \in Bars : b.candle \in Candle /\ Ordered(b.candle) /\ b.atr \in Nat \ {0}
  /\ \A d \in Directions :
       /\ Cfg[d].minClose \in Nat
       /\ Cfg[d].buffer > 0 \/ (Cfg[d].antiChase /\ Cfg[d].minClose > 0)

\* One of at most five numbers is the least.
LEMMA LeastOfFive ==
  ASSUME NEW m \in Int, NEW n \in Int, m <= n, n <= m + 4, NEW f, \A i \in m..n : f[i] \in Int
  PROVE  \E i \in m..n : \A j \in m..n : f[i] <= f[j]
<1> DEFINE Least(k) == \E i \in m..k : \A j \in m..k : f[i] <= f[j]
<1>1. ASSUME NEW k \in m..n, Least(k), k + 1 <= n PROVE Least(k + 1)
  <2>1. PICK i \in m..k : \A j \in m..k : f[i] <= f[j]
    BY <1>1
  <2>2. f[i] \in Int /\ f[k + 1] \in Int /\ i \in m..(k + 1) /\ k + 1 \in m..(k + 1)
    BY <1>1
  <2>3. \A j \in m..(k + 1) : j = k + 1 \/ j \in m..k
    BY <1>1
  <2>4. CASE f[i] <= f[k + 1]
    BY <2>1, <2>2, <2>3, <2>4
  <2>5. CASE f[k + 1] < f[i]
    <3>1. \A j \in m..(k + 1) : f[k + 1] <= f[j]
      <4> SUFFICES ASSUME NEW j \in m..(k + 1) PROVE f[k + 1] <= f[j]
        OBVIOUS
      <4>1. f[j] \in Int
        BY <1>1
      <4> QED
        BY <2>1, <2>2, <2>3, <2>5, <4>1
    <3> QED
      BY <2>2, <3>1
  <2> QED
    BY <2>2, <2>4, <2>5
<1>2. Least(m)
  BY DEF Least
<1> HIDE DEF Least
<1>3. n >= m + 1 => Least(m + 1)
  BY <1>1, <1>2
<1>4. n >= m + 2 => Least(m + 2)
  <2> SUFFICES ASSUME n >= m + 2 PROVE Least(m + 2)
    OBVIOUS
  <2>1. m + 1 \in m..n /\ (m + 1) + 1 = m + 2 /\ Least(m + 1)
    BY <1>3
  <2>2. Least((m + 1) + 1)
    BY <1>1, <2>1
  <2> QED
    BY <2>1, <2>2
<1>5. n >= m + 3 => Least(m + 3)
  <2> SUFFICES ASSUME n >= m + 3 PROVE Least(m + 3)
    OBVIOUS
  <2>1. m + 2 \in m..n /\ (m + 2) + 1 = m + 3 /\ Least(m + 2)
    BY <1>4
  <2>2. Least((m + 2) + 1)
    BY <1>1, <2>1
  <2> QED
    BY <2>1, <2>2
<1>6. n >= m + 4 => Least(m + 4)
  <2> SUFFICES ASSUME n >= m + 4 PROVE Least(m + 4)
    OBVIOUS
  <2>1. m + 3 \in m..n /\ (m + 3) + 1 = m + 4 /\ Least(m + 3)
    BY <1>5
  <2>2. Least((m + 3) + 1)
    BY <1>1, <2>1
  <2> QED
    BY <2>1, <2>2
<1>7. n = m \/ n = m + 1 \/ n = m + 2 \/ n = m + 3 \/ n = m + 4
  OBVIOUS
<1>8. Least(n)
  BY <1>2, <1>3, <1>4, <1>5, <1>6, <1>7
<1> QED
  BY <1>8 DEF Least

\* The greatest of two.
LEMMA GreatestOfTwo ==
  ASSUME NEW a \in Int, NEW b \in Int
  PROVE  Max({a, b}) \in {a, b} /\ a <= Max({a, b}) /\ b <= Max({a, b})
<1>1. \E x \in {a, b} : \A y \in {a, b} : x >= y
  OBVIOUS
<1> QED
  BY <1>1 DEF Max

LEMMA LeastOfTwo ==
  ASSUME NEW a \in Int, NEW b \in Int
  PROVE  Min({a, b}) \in {a, b} /\ Min({a, b}) <= a /\ Min({a, b}) <= b
<1>1. \E x \in {a, b} : \A y \in {a, b} : x <= y
  OBVIOUS
<1> QED
  BY <1>1 DEF Min

LEMMA MirrorKeeps ==
  ASSUME NEW c \in Candle, Ordered(c)
  PROVE  Mirrored(c) \in Candle /\ Ordered(Mirrored(c))
  BY DEF Candle, Ordered, Mirrored

\* The candles as either direction faces them.
LEMMA FacedCandles ==
  ASSUME Sound, bars \in Seq(Bars), bars # << >>, NEW dir \in Directions, NEW trend
  PROVE  LET x == Faced(dir, trend)
         IN  /\ x.candles \in Seq(Candle) /\ Len(x.candles) = Len(bars)
             /\ LastOf(x) = x.candles[Len(bars)] /\ LastOf(x) \in Candle /\ Ordered(LastOf(x))
             /\ LastOf(x) = IF dir = "LONG" THEN Last(bars).candle ELSE Mirrored(Last(bars).candle)
             /\ x.atr \in Nat \ {0}
<1> DEFINE x == Faced(dir, trend)
           Seen(i) == IF dir = "LONG" THEN bars[i].candle ELSE Mirrored(bars[i].candle)
<1>0. /\ Len(bars) \in Nat \ {0} /\ Len(bars) \in 1..Len(bars) /\ DOMAIN bars = 1..Len(bars)
      /\ \A i \in 1..Len(bars) : bars[i] \in Bars
  OBVIOUS
<1>1. ASSUME NEW i \in 1..Len(bars)
      PROVE  Seen(i) \in Candle /\ Ordered(Seen(i))
  BY <1>0, MirrorKeeps DEF Sound
<1>2. x.candles = [i \in 1..Len(bars) |-> Seen(i)]
  BY <1>0 DEF Faced, Facing, Context, Candles
<1>3. x.atr = bars[Len(bars)].atr
  BY DEF Faced, Facing, Context, Last
<1>7. Seen(Len(bars)) = IF dir = "LONG" THEN Last(bars).candle ELSE Mirrored(Last(bars).candle)
  BY DEF Last
<1> HIDE DEF Seen, x
<1>4. x.candles \in Seq(Candle) /\ Len(x.candles) = Len(bars)
  BY <1>0, <1>1, <1>2
<1>5. LastOf(x) = x.candles[Len(bars)]
  BY <1>4 DEF LastOf, Last
<1>6. LastOf(x) = Seen(Len(bars))
  BY <1>0, <1>2, <1>5
<1> QED
  BY <1>0, <1>1, <1>3, <1>4, <1>5, <1>6, <1>7 DEF Sound, x

\* The lowest of the last five lows is not above the last one.
LEMMA LowestOfFive ==
  ASSUME NEW s \in Seq(Candle), s # << >>
  PROVE  LET lows == {c.low : c \in ToSet(Recent(s, 5))}
         IN  Min(lows) \in Int /\ Min(lows) <= s[Len(s)].low
<1> DEFINE n == Len(s)
           m == Max({1, n - 5 + 1})
           low == [i \in m..n |-> s[i].low]
           lows == {c.low : c \in ToSet(Recent(s, 5))}
<1>1. n \in Nat \ {0} /\ \A i \in 1..n : s[i] \in Candle
  OBVIOUS
<1>2. m \in Int /\ 1 <= m /\ m <= n /\ n <= m + 4
  <2>1. 1 \in Int /\ n - 5 + 1 \in Int
    BY <1>1
  <2>2. m \in {1, n - 5 + 1} /\ 1 <= m /\ n - 5 + 1 <= m
    BY <2>1, GreatestOfTwo
  <2> HIDE DEF m
  <2> QED
    BY <1>1, <2>1, <2>2
<1>3. Recent(s, 5) = SubSeq(s, m, n)
  BY DEF Recent
<1> HIDE DEF m
<1>4. lows = {s[i].low : i \in m..n}
  <2>1. /\ DOMAIN SubSeq(s, m, n) = 1..(n - m + 1)
        /\ \A i \in 1..(n - m + 1) : SubSeq(s, m, n)[i] = s[m + i - 1]
    BY <1>1, <1>2
  <2>2. ToSet(SubSeq(s, m, n)) = {s[i] : i \in m..n}
    <3>1. ASSUME NEW i \in m..n PROVE s[i] \in ToSet(SubSeq(s, m, n))
      <4>1. i - m + 1 \in 1..(n - m + 1) /\ m + (i - m + 1) - 1 = i
        BY <1>1, <1>2
      <4> QED
        BY <2>1, <4>1 DEF ToSet
    <3>2. ASSUME NEW j \in 1..(n - m + 1) PROVE m + j - 1 \in m..n
      BY <1>1, <1>2
    <3>3. ToSet(SubSeq(s, m, n)) = {s[m + j - 1] : j \in 1..(n - m + 1)}
      BY <2>1 DEF ToSet
    <3>4. \A e \in ToSet(SubSeq(s, m, n)) : e \in {s[i] : i \in m..n}
      BY <3>2, <3>3
    <3>5. \A e \in {s[i] : i \in m..n} : e \in ToSet(SubSeq(s, m, n))
      BY <3>1
    <3> QED
      BY <3>4, <3>5
  <2> QED
    BY <1>3, <2>2
<1>5. ASSUME NEW i \in m..n PROVE low[i] = s[i].low /\ low[i] \in Int
  <2>1. i \in 1..n
    BY <1>1, <1>2
  <2>2. s[i] \in Candle
    BY <1>1, <2>1
  <2> QED
    BY <2>2 DEF Candle
<1> HIDE DEF low, lows, n
<1>6. \E i \in m..n : \A j \in m..n : low[i] <= low[j]
  <2>1. n \in Int /\ \A i \in m..n : low[i] \in Int
    BY <1>1, <1>5
  <2> QED
    BY <1>2, <2>1, LeastOfFive
<1>7. \E x \in lows : \A y \in lows : x <= y
  <2>1. PICK i \in m..n : \A j \in m..n : low[i] <= low[j]
    BY <1>6
  <2>2. \A y \in lows : s[i].low <= y
    BY <1>4, <1>5, <2>1
  <2> QED
    BY <1>4, <2>2
<1>8. Min(lows) \in lows /\ \A y \in lows : Min(lows) <= y
  BY <1>7 DEF Min
<1>9. n \in m..n
  BY <1>1, <1>2
<1> QED
  BY <1>4, <1>5, <1>8, <1>9 DEF lows, n

\* A structure stop leaves something to lose, where the candle closes above its low or
\* the buffer is not empty.
LEMMA StopLoses ==
  ASSUME Sound, bars \in Seq(Bars), bars # << >>, NEW dir \in Directions, NEW trend,
         \/ Cfg[dir].buffer > 0
         \/ LastOf(Faced(dir, trend)).low < LastOf(Faced(dir, trend)).close
  PROVE  StructureStop(Faced(dir, trend), Cfg[dir]) < LastOf(Faced(dir, trend)).close * 100
<1> DEFINE x == Faced(dir, trend)
           k == Cfg[dir]
           lowest == Min({c.low : c \in ToSet(Recent(x.candles, 5))})
<1>1. /\ x.candles \in Seq(Candle) /\ x.candles # << >>
      /\ LastOf(x) = x.candles[Len(x.candles)] /\ LastOf(x) \in Candle
      /\ LastOf(x).low <= LastOf(x).close /\ x.atr \in Nat \ {0}
  <2>1. Len(bars) # 0
    OBVIOUS
  <2> QED
    BY <2>1, FacedCandles DEF Ordered
<1>2. k.buffer \in Nat
  BY RulesAssumption DEF RulesAssumption
<1>3. StructureStop(x, k) = lowest * 100 - k.buffer * x.atr
  BY DEF StructureStop
<1>4. k.buffer > 0 \/ LastOf(x).low < LastOf(x).close
  OBVIOUS
<1> HIDE DEF x, k
<1>5. lowest \in Int /\ lowest <= LastOf(x).low
  BY <1>1, LowestOfFive
<1> HIDE DEF lowest
<1>6. LastOf(x).low \in Int /\ LastOf(x).close \in Int
  BY <1>1 DEF Candle
<1>7. ASSUME NEW a \in Nat, NEW b \in Nat \ {0}
      PROVE  a * b \in Nat /\ (a > 0 => a * b > 0)
  BY Z3
<1>8. k.buffer * x.atr \in Nat /\ (k.buffer > 0 => k.buffer * x.atr > 0)
  BY <1>1, <1>2, <1>7
<1> DEFINE cut == k.buffer * x.atr
<1>9. cut \in Nat /\ (k.buffer > 0 => cut > 0)
  BY <1>8
<1> HIDE DEF cut
<1>10. lowest * 100 - cut < LastOf(x).close * 100
  BY <1>1, <1>4, <1>5, <1>6, <1>9
<1> QED
  BY <1>3, <1>10 DEF x, k, cut

\* A retest closes above its low, and so does a scout where the chase filter is on.
LEMMA ClosesAboveLow ==
  ASSUME Sound, bars \in Seq(Bars), bars # << >>, NEW dir \in Directions, NEW trend,
         Valid(Last(bars).candle), Cfg[dir].buffer = 0,
         \/ \E level : RetestConfirmed(Faced(dir, trend), level, Cfg[dir])
         \/ ScoutAllowed(Faced(dir, trend), Cfg[dir])
  PROVE  LastOf(Faced(dir, trend)).low < LastOf(Faced(dir, trend)).close
<1> DEFINE x == Faced(dir, trend)
           k == Cfg[dir]
           c == LastOf(x)
<1>1. c \in Candle /\ Ordered(c)
  BY FacedCandles
<1>2. Last(bars).candle \in Candle /\ (c = Last(bars).candle \/ c = Mirrored(Last(bars).candle))
  <2>1. Last(bars) \in Bars
    BY DEF Last
  <2> QED
    BY <2>1, FacedCandles DEF Sound
<1>3. Span(c) > 0
  BY <1>2 DEF Valid, Span, Mirrored, Candle
<1> HIDE DEF x, k
<1>4. CASE \E level : RetestConfirmed(x, level, k)
  <2>1. LowerWick(c) * 100 >= WickThreshold * Span(c) \/ c.close > c.open
    BY <1>4 DEF RetestConfirmed
  <2> HIDE DEF c
  <2>2. {c.open, c.close, c.low, c.high} \subseteq Int
    BY <1>1 DEF Candle
  <2>3. CASE LowerWick(c) * 100 >= WickThreshold * Span(c)
    <3> DEFINE least == Min({c.open, c.close})
    <3>1. LowerWick(c) = least - c.low
      BY DEF LowerWick
    <3>2. least \in Int /\ least <= c.close
      BY <2>2, LeastOfTwo
    <3> HIDE DEF least
    <3>3. c.low < c.close
      BY <1>3, <2>2, <2>3, <3>1, <3>2 DEF WickThreshold, Span
    <3> QED
      BY <3>3 DEF c, x
  <2>4. CASE c.close > c.open
    <3>1. c.low < c.close
      BY <1>1, <2>2, <2>4 DEF Ordered
    <3> QED
      BY <3>1 DEF c, x
  <2> QED
    BY <2>1, <2>3, <2>4
<1>5. CASE ScoutAllowed(x, k)
  <2>1. k.antiChase /\ k.minClose \in Nat \ {0}
    BY DEF Sound, k
  <2>2. ~WeakClose(x, k)
    BY <1>5, <2>1 DEF ScoutAllowed, ScoutConditions, Chases
  <2>3. ~((c.close - c.low) * 100 < k.minClose * Span(c))
    BY <2>2 DEF WeakClose
  <2> HIDE DEF c
  <2>4. {c.open, c.close, c.low, c.high} \subseteq Int /\ Span(c) \in Int
    BY <1>1 DEF Candle, Span
  <2>5. ASSUME NEW a \in Nat \ {0}, NEW b \in Nat \ {0}
        PROVE  a * b \in Int /\ a * b > 0
    BY Z3
  <2>6. k.minClose * Span(c) \in Int /\ k.minClose * Span(c) > 0
    BY <1>3, <2>1, <2>4, <2>5
  <2> DEFINE least == k.minClose * Span(c)
  <2>7. least \in Int /\ least > 0 /\ ~((c.close - c.low) * 100 < least)
    BY <2>3, <2>6
  <2> HIDE DEF least
  <2>8. c.low < c.close
    BY <2>4, <2>7
  <2> QED
    BY <2>8 DEF c, x
<1> QED
  BY <1>4, <1>5 DEF x, k

\* Which way the 15 minute trend goes is no matter for the last candle.
LEMMA SameClose ==
  ASSUME Sound, bars \in Seq(Bars), bars # << >>, NEW dir \in Directions, NEW trend, NEW other
  PROVE  LastOf(Faced(dir, trend)) = LastOf(Faced(dir, other))
<1>1. ASSUME NEW t
      PROVE  LastOf(Faced(dir, t))
               = IF dir = "LONG" THEN Last(bars).candle ELSE Mirrored(Last(bars).candle)
  BY FacedCandles
<1> QED
  BY <1>1

\* StructureStopLoses is not inductive: the stop is that of candles which are there.
LosesInv == bars \in Seq(Bars) /\ bars # << >> /\ StructureStopLoses

LEMMA DecidedStopLoses ==
  ASSUME Sound, bars \in Seq(Bars), bars # << >>, Valid(Last(bars).candle),
         NEW dir \in Directions, NEW trend,
         \/ \E level : RetestConfirmed(Faced(dir, trend), level, Cfg[dir])
         \/ ScoutAllowed(Faced(dir, trend), Cfg[dir]),
         NEW other
  PROVE  StructureStop(Faced(dir, trend), Cfg[dir]) < LastOf(Faced(dir, other)).close * 100
<1> DEFINE x == Faced(dir, trend)
<1>1. Cfg[dir].buffer > 0 \/ LastOf(x).low < LastOf(x).close
  <2>1. Cfg[dir].buffer \in Nat
    BY RulesAssumption DEF RulesAssumption
  <2>2. CASE Cfg[dir].buffer = 0
    BY <2>2, ClosesAboveLow
  <2>3. CASE Cfg[dir].buffer # 0
    BY <2>1, <2>3
  <2> QED
    BY <2>2, <2>3
<1>2. StructureStop(x, Cfg[dir]) < LastOf(x).close * 100
  BY <1>1, StopLoses
<1> QED
  BY <1>2, SameClose

\* What an evaluation decides.
LEMMA EvaluationDecides ==
  ASSUME NEW dir \in Directions, NEW trend \in Trends, Evaluate(dir, trend)
  PROVE  /\ bars' = bars
         /\ LET x == Faced(dir, trend)
            IN  \/ decision' = NoDecision
                \/ decision' = BreakoutDecision(dir, Cfg[dir])
                \/ /\ \E level : RetestConfirmed(x, level, Cfg[dir])
                   /\ decision' = RetestDecision(x, dir, Cfg[dir])
                \/ ScoutAllowed(x, Cfg[dir]) /\ decision' = ScoutDecision(x, dir, Cfg[dir])
<1> DEFINE x == Faced(dir, trend)
<1>1. \/ Waits(dir) \/ Holds(dir, x) \/ HoldFails(dir, x)
      \/ BreaksOut(dir, x) \/ BreaksOutUnhealthy(dir, x)
      \/ Retests(dir, x) \/ Scouts(dir, x)
  BY DEF Evaluate
<1> HIDE DEF x
<1>2. CASE Waits(dir) \/ HoldFails(dir, x) \/ BreaksOutUnhealthy(dir, x)
  BY <1>2 DEF Waits, HoldFails, BreaksOutUnhealthy, Decides, x
<1>3. CASE Holds(dir, x)
  BY <1>3 DEF Holds, Decides, x
<1>4. CASE BreaksOut(dir, x)
  BY <1>4 DEF BreaksOut, Decides, x
<1>5. CASE Retests(dir, x)
  BY <1>5 DEF Retests, Returns, Decides, x
<1>6. CASE Scouts(dir, x)
  <2>1. bars' = bars /\ \/ decision' = NoDecision
                        \/ ScoutAllowed(x, Cfg[dir]) /\ decision' = ScoutDecision(x, dir, Cfg[dir])
    BY <1>6 DEF Scouts, Decides
  <2> QED
    BY <2>1 DEF x
<1> QED
  BY <1>1, <1>2, <1>3, <1>4, <1>5, <1>6

LEMMA EvaluationLoses ==
  ASSUME Sound, LosesInv, NEW dir \in Directions, NEW trend \in Trends, Evaluate(dir, trend)
  PROVE  LosesInv'
<1> DEFINE x == Faced(dir, trend)
           any == CHOOSE t \in Trends : TRUE
<1>1. bars' = bars /\ bars \in Seq(Bars) /\ bars # << >> /\ Valid(Last(bars).candle)
  BY EvaluationDecides DEF LosesInv, Evaluate
<1>2. LastOf(Faced(dir, any))' = LastOf(Faced(dir, any))
  BY <1>1 DEF LastOf, Faced, Context, Candles, Box
<1>3. ASSUME \/ \E level : RetestConfirmed(x, level, Cfg[dir])
             \/ ScoutAllowed(x, Cfg[dir])
      PROVE  StructureStop(x, Cfg[dir]) < LastOf(Faced(dir, any)).close * 100
  BY <1>1, <1>3, DecidedStopLoses
<1>4. \/ decision'.mode \notin {"RETEST", "SCOUT"} \/ decision'.structure = None
      \/ /\ decision'.dir = dir
         /\ decision'.structure < LastOf(Faced(dir, any)).close * 100
  <2>1. CASE decision' = NoDecision \/ decision' = BreakoutDecision(dir, Cfg[dir])
    BY <2>1 DEF NoDecision, BreakoutDecision, Decision
  <2>2. CASE /\ \E level : RetestConfirmed(x, level, Cfg[dir])
             /\ decision' = RetestDecision(x, dir, Cfg[dir])
    <3>1. decision'.dir = dir /\ decision'.structure \in {StructureStop(x, Cfg[dir]), None}
      BY <2>2 DEF RetestDecision, Decision
    <3> QED
      BY <1>3, <2>2, <3>1
  <2>3. CASE ScoutAllowed(x, Cfg[dir]) /\ decision' = ScoutDecision(x, dir, Cfg[dir])
    <3>1. decision'.dir = dir /\ decision'.structure \in {StructureStop(x, Cfg[dir]), None}
      BY <2>3 DEF ScoutDecision, Decision
    <3> QED
      BY <1>3, <2>3, <3>1
  <2> QED
    BY <2>1, <2>2, <2>3, EvaluationDecides
<1> HIDE DEF x
<1>5. StructureStopLoses'
  BY <1>1, <1>2, <1>4 DEF StructureStopLoses
<1> QED
  BY <1>1, <1>5 DEF LosesInv

\* A new candle joins those that are kept.
LEMMA CandlesKept ==
  ASSUME bars \in Seq(Bars), NEW bar \in Bars
  PROVE  /\ Recent(Append(bars, bar), HistoryLength) \in Seq(Bars)
         /\ Recent(Append(bars, bar), HistoryLength) # << >>
<1> DEFINE s == Append(bars, bar)
           m == Max({1, Len(s) - HistoryLength + 1})
<1>1. s \in Seq(Bars) /\ Len(s) \in Nat \ {0}
  OBVIOUS
<1>2. HistoryLength \in Nat \ {0}
  BY TimingAssumption DEF TimingAssumption
<1> HIDE DEF s
<1>3. m \in Int /\ 1 <= m /\ m <= Len(s)
  <2>1. 1 \in Int /\ Len(s) - HistoryLength + 1 \in Int
    BY <1>1, <1>2
  <2>2. m \in {1, Len(s) - HistoryLength + 1} /\ 1 <= m
    BY <2>1, GreatestOfTwo
  <2> HIDE DEF m
  <2> QED
    BY <1>1, <1>2, <2>1, <2>2
<1>4. Recent(s, HistoryLength) = SubSeq(s, m, Len(s))
  BY DEF Recent
<1> HIDE DEF m
<1>5. SubSeq(s, m, Len(s)) \in Seq(Bars) /\ Len(SubSeq(s, m, Len(s))) = Len(s) - m + 1
  <2>1. \A i \in m..Len(s) : s[i] \in Bars
    BY <1>1, <1>3
  <2> QED
    BY <1>1, <1>3, <2>1
<1>6. Recent(s, HistoryLength) \in Seq(Bars) /\ Len(Recent(s, HistoryLength)) # 0
  BY <1>1, <1>3, <1>4, <1>5
<1>7. Recent(s, HistoryLength) # << >>
  BY <1>6
<1> QED
  BY <1>6, <1>7 DEF s

LEMMA NextLoses == ASSUME Sound, LosesInv, [Next]_vars PROVE LosesInv'
<1>1. ASSUME decision' = NoDecision PROVE StructureStopLoses'
  BY <1>1 DEF StructureStopLoses, NoDecision
<1>2. CASE \E dir \in Directions, trend \in Trends : Evaluate(dir, trend)
  BY <1>2, EvaluationLoses
<1>3. CASE (\E trend \in Trends : OrderUnfilled(trend)) \/ Reload
  <2>1. bars' = bars /\ decision' = NoDecision
    BY <1>3 DEF OrderUnfilled, Reload
  <2> QED
    BY <1>1, <2>1 DEF LosesInv
<1>4. CASE \E bar \in Bars : CandleCloses(bar)
  <2>1. PICK bar \in Bars : CandleCloses(bar)
    BY <1>4
  <2>2. bars' = Recent(Append(bars, bar), HistoryLength) /\ decision' = NoDecision
    BY <2>1 DEF CandleCloses
  <2>3. bars' \in Seq(Bars) /\ bars' # << >>
    BY <2>2, CandlesKept DEF LosesInv
  <2> QED
    BY <1>1, <2>2, <2>3 DEF LosesInv
<1>5. CASE UNCHANGED vars
  BY <1>5 DEF vars, LosesInv, StructureStopLoses, LastOf, Faced, Context, Candles, Box
<1> QED
  BY <1>2, <1>3, <1>4, <1>5 DEF Next

\* In every direction and mode, from whichever candles it is taken: the structure stop
\* that RiskManager compares with the ATR stop is beyond the last close.
THEOREM StructureStopsLose == ASSUME Sound PROVE Spec => []StructureStopLoses
<1>1. Init => LosesInv
  <2> SUFFICES ASSUME Init PROVE LosesInv
    OBVIOUS
  <2>1. PICK b \in Bars : bars = <<b>>
    BY DEF Init
  <2>2. bars \in Seq(Bars) /\ bars # << >>
    BY <2>1
  <2> QED
    BY <2>2 DEF Init, LosesInv, StructureStopLoses, NoDecision
<1>2. LosesInv /\ [Next]_vars => LosesInv'
  BY NextLoses
<1>3. LosesInv => StructureStopLoses
  BY DEF LosesInv
<1> QED
  BY <1>1, <1>2, <1>3, PTL DEF Spec

=============================================================================
