------------------------ MODULE ManagedPosition_proofs ------------------------
(***************************************************************************)
(* Proofs about ManagedPosition and the rules of PositionManager that it   *)
(* executes, for every setting of the rules, every price and candle: the   *)
(* stop of a position never loosens within one process, neither in the     *)
(* record nor on the exchange; a position is cut once for each reason; no  *)
(* position is CLOSING without an exit.                                    *)
(*                                                                         *)
(* A rule maps a step record to a step record, so one lemma per rule says  *)
(* what it makes of a step on which nothing is decided (Outcome): nothing, *)
(* or one action together with its entry in the books, the field that      *)
(* keeps the rule from deciding it again.  evaluate composes the rules,    *)
(* and OutcomeUnless composes their lemmas.                                *)
(***************************************************************************)
EXTENDS ManagedPosition, TLAPS

Counts(cap) == [n : 0..cap, seen : BOOLEAN]

Statuses == {"ACTIVE", "CLOSING", "CLOSED"}
ScoutStates == {"NONE", "PENDING", "WARNING", "ACTIVE_TREND"}
ActKinds == Closings \cup {"TRAIL_UPDATE", "RUNNER_TRAIL", "LOG"}

Position ==
  [status : Statuses, mode : Modes, stop : Int, risk : Int, old : BOOLEAN,
   bars : Counts(BarCap), best : Int, partial : BOOLEAN, trailing : BOOLEAN,
   runner : BOOLEAN, strength : Strengths, red : 0..MaxDefensive, warned : 0..BarCap,
   scout : ScoutStates]

Track ==
  [maxR : Int, stag : BOOLEAN, recovery : 0..3, reclaim : 0..ReclaimBars,
   broken : 0..WeakBars, weak : Counts(WeakBars), reduced : BOOLEAN, level : Counts(2),
   scout : Counts(2)]

Reasons == Reductions \cup {"NONE", "MAX_HOLDING_TIME", "RUNNER_SCENARIO_INVALID",
                           "TRAILING_STOP", "RUNNER_TRAILING_STOP"}
Action == [kind : ActKinds, reason : Reasons, stop : Int]
Step == [p : Position, t : Track, acts : Seq(Action), done : BOOLEAN]
ClosedCandle == [facts : SUBSET CandleFacts, high : Int]

\* The books: what evaluate writes of a decision before its order is sent.  All but
\* one entry are what they were.
KeepsBut(entry, s, u) ==
  /\ entry = "status" \/ u.p.status = s.p.status
  /\ entry = "stop" \/ u.p.stop = s.p.stop
  /\ entry = "partial" \/ u.p.partial = s.p.partial
  /\ entry = "red" \/ u.p.red = s.p.red
  /\ entry = "stag" \/ u.t.stag = s.t.stag
  /\ entry = "reduced" \/ u.t.reduced = s.t.reduced

Keeps(s, u) == KeepsBut("none", s, u)

\* No rule of evaluate touches these.
Framed(s, u) ==
  /\ u.p.mode = s.p.mode /\ u.p.risk = s.p.risk /\ u.p.runner = s.p.runner
  /\ u.p.best = s.p.best /\ u.t.maxR = s.t.maxR
  /\ u.p.trailing => s.p.trailing \/ s.t.maxR >= TrailR
  /\ u.p.scout # "NONE" => s.p.scout # "NONE"

\* The one action of an evaluation, and its entry in the books.
Decides(s, u) ==
  \/ /\ \E r \in Reasons : u.acts = <<Act("EXIT", r)>>
     /\ u.p.status = "CLOSING" /\ KeepsBut("status", s, u)
  \/ /\ u.acts = <<Act("PARTIAL_TP", "PARTIAL_TAKE_PROFIT")>>
     /\ ~s.p.partial /\ u.p.partial /\ KeepsBut("partial", s, u)
  \/ /\ u.acts = <<Act("REDUCE", "STAGNATION")>>
     /\ ~s.t.stag /\ u.t.stag /\ KeepsBut("stag", s, u)
  \/ /\ u.acts = <<Act("REDUCE", "SCENARIO_INVALID")>>
     /\ ~s.t.reduced /\ u.t.reduced /\ KeepsBut("reduced", s, u)
  \/ /\ \E r \in {"SCOUT_DEFENSIVE", "SCOUT_CATASTROPHIC"} : u.acts = <<Act("REDUCE", r)>>
     /\ s.p.red < MaxDefensive /\ u.p.red = s.p.red + 1 /\ KeepsBut("red", s, u)
  \/ /\ u.acts = <<Trail(-((-s.p.stop) \div 2))>>
     /\ s.t.maxR < 1 /\ ~s.p.runner /\ Keeps(s, u)

\* What one rule makes of a step on which no rule has decided.
Outcome(s, u) ==
  /\ u \in Step
  /\ Framed(s, u)
  /\ \/ u.acts = << >> /\ Keeps(s, u)
     \/ u.done /\ Decides(s, u)

Undecided(s) == s \in Step /\ s.acts = << >> /\ s.p.status = "ACTIVE"

-----------------------------------------------------------------------------
(* The helpers.                                                            *)

LEMMA MaxOfTwo ==
  ASSUME NEW a \in Int, NEW b \in Int
  PROVE  Max({a, b}) = IF a >= b THEN a ELSE b
  BY DEF Max

LEMMA ActTyped ==
  /\ \A kind \in ActKinds, r \in Reasons : Act(kind, r) \in Action
  /\ \A x \in Int : Trail(x) \in Action
<1>1. ASSUME NEW kind \in ActKinds, NEW r \in Reasons
      PROVE  Act(kind, r) \in Action
  BY DEF Act, Action
<1>2. ASSUME NEW x \in Int
      PROVE  Trail(x) \in Action
  BY DEF Trail, Action, ActKinds, Reasons
<1> QED
  BY <1>1, <1>2

\* A step that returns has exactly the action it returns with.
LEMMA ReturnsOne ==
  ASSUME NEW s \in Step, s.acts = << >>, NEW a \in Action
  PROVE  /\ Returns(s, a) \in Step
         /\ Returns(s, a).p = s.p /\ Returns(s, a).t = s.t
         /\ Returns(s, a).acts = <<a>> /\ Returns(s, a).done
<1>1. Append(s.acts, a) = <<a>> /\ <<a>> \in Seq(Action)
  OBVIOUS
<1> QED
  BY <1>1 DEF Returns, Step

LEMMA CountedTyped ==
  ASSUME NEW cap \in Nat, NEW c \in Counts(cap)
  PROVE  Counted(c, cap) \in Counts(cap)
  BY DEF Counted, Counts, Capped

LEMMA ExitsDecides ==
  ASSUME NEW s, Undecided(s), NEW r \in Reasons
  PROVE  Outcome(s, Exits(s, r))
<1> DEFINE q == [s EXCEPT !.p.status = "CLOSING"]
<1>1. q \in Step /\ q.acts = << >> /\ q.p = [s.p EXCEPT !.status = "CLOSING"] /\ q.t = s.t
  BY DEF Undecided, Step, Position, Statuses
<1>2. Act("EXIT", r) \in Action
  BY ActTyped DEF ActKinds, Closings
<1>3. /\ Exits(s, r) \in Step
      /\ Exits(s, r).p = q.p /\ Exits(s, r).t = q.t
      /\ Exits(s, r).acts = <<Act("EXIT", r)>> /\ Exits(s, r).done
  BY <1>1, <1>2, ReturnsOne DEF Exits
<1> HIDE DEF q
<1>4. Framed(s, Exits(s, r))
  BY <1>1, <1>3 DEF Framed, Undecided, Step, Position
<1>5. Exits(s, r).p.status = "CLOSING" /\ KeepsBut("status", s, Exits(s, r))
  BY <1>1, <1>3 DEF KeepsBut, Undecided, Step, Position
<1> QED
  BY <1>3, <1>4, <1>5 DEF Outcome, Decides

LEMMA BoundsAreNat ==
  /\ WeakBars \in Nat \ {0} /\ ReclaimBars \in Nat \ {0} /\ MaxDefensive \in Nat
  /\ TrailR \in Nat /\ BarCap \in Nat
<1> DEFINE A == {GraceBars, MinHold, RetestGrace + 1}
           B == {StagnantBars[m] : m \in Modes}
           C == {SlowBars[m] : m \in Modes}
<1>1. /\ WeakBars \in Nat \ {0} /\ ReclaimBars \in Nat \ {0} /\ MaxDefensive \in Nat
      /\ GraceBars \in Nat /\ MinHold \in Nat /\ RetestGrace \in Nat /\ WarnBars \in Nat
      /\ TrailR \in Nat
  BY RulesAssumption
<1>2. \E x \in A : x \in Nat /\ \A y \in A : x >= y
  BY <1>1
<1>3. B = {StagnantBars["SCOUT"], StagnantBars["BREAKOUT"], StagnantBars["RETEST"]}
  BY DEF Modes
<1>4. StagnantBars["SCOUT"] \in Nat /\ StagnantBars["BREAKOUT"] \in Nat
      /\ StagnantBars["RETEST"] \in Nat
  BY RulesAssumption DEF Modes
<1>5. \E x \in B : x \in Nat /\ \A y \in B : x >= y
  <2> HIDE DEF B
  <2> QED BY <1>3, <1>4
<1>6. C = {SlowBars["SCOUT"], SlowBars["BREAKOUT"], SlowBars["RETEST"]}
  BY DEF Modes
<1>7. SlowBars["SCOUT"] \in Nat /\ SlowBars["BREAKOUT"] \in Nat /\ SlowBars["RETEST"] \in Nat
  BY RulesAssumption DEF Modes
<1>8. \E x \in C : x \in Nat /\ \A y \in C : x >= y
  <2> HIDE DEF C
  <2> QED BY <1>6, <1>7
<1>9. BarCap = Max(A \cup B \cup C) + WarnBars
  BY DEF BarCap
<1>10. A \subseteq Nat /\ B \subseteq Nat /\ C \subseteq Nat
  <2>1. A \subseteq Nat
    BY <1>1
  <2> HIDE DEF A, B, C
  <2> QED BY <2>1, <1>3, <1>4, <1>6, <1>7
<1> HIDE DEF A, B, C
<1>11. \E x \in A \cup B \cup C : \A y \in A \cup B \cup C : x >= y
  <2>1. PICK a \in A : a \in Nat /\ \A y \in A : a >= y
    BY <1>2
  <2>2. PICK b \in B : b \in Nat /\ \A y \in B : b >= y
    BY <1>5
  <2>3. PICK c \in C : c \in Nat /\ \A y \in C : c >= y
    BY <1>8
  <2>4. CASE a >= b /\ a >= c
    BY <2>1, <2>2, <2>3, <2>4, <1>10
  <2>5. CASE b >= a /\ b >= c
    BY <2>1, <2>2, <2>3, <2>5, <1>10
  <2>6. CASE c >= a /\ c >= b
    BY <2>1, <2>2, <2>3, <2>6, <1>10
  <2> QED
    BY <2>1, <2>2, <2>3, <2>4, <2>5, <2>6
<1>12. Max(A \cup B \cup C) \in A \cup B \cup C
  BY <1>11 DEF Max
<1>13. Max(A \cup B \cup C) \in Nat
  BY <1>10, <1>12
<1> QED
  BY <1>1, <1>9, <1>13

-----------------------------------------------------------------------------
(* The rules, one by one.                                                  *)

LEMMA HoldingOutcome ==
  ASSUME NEW s, Undecided(s)
  PROVE  Outcome(s, HoldingRule(s))
<1>1. Outcome(s, s)
  BY DEF Outcome, Undecided, Framed, Keeps, KeepsBut
<1>2. Outcome(s, Exits(s, "MAX_HOLDING_TIME"))
  BY ExitsDecides DEF Reasons
<1> QED
  BY <1>1, <1>2 DEF HoldingRule

\* What no rule changes on the way to a decision.
TrackKept(t, u) ==
  u \in Track /\ u.maxR = t.maxR /\ u.stag = t.stag /\ u.reduced = t.reduced

PositionKept(p, q) ==
  /\ q \in Position
  /\ q.status = p.status /\ q.stop = p.stop /\ q.partial = p.partial /\ q.red = p.red
  /\ q.mode = p.mode /\ q.risk = p.risk /\ q.runner = p.runner /\ q.best = p.best
  /\ q.trailing = p.trailing /\ (q.scout # "NONE" => p.scout # "NONE")

\* A step that has not decided anything more than s has.
Kept(s, u) ==
  /\ u \in Step /\ u.acts = s.acts
  /\ PositionKept(s.p, u.p) /\ TrackKept(s.t, u.t)

LEMMA KeptOutcome ==
  ASSUME NEW s, Undecided(s), NEW u, Kept(s, u)
  PROVE  Outcome(s, u) /\ Undecided(u)
  BY DEF Kept, PositionKept, TrackKept, Outcome, Framed, Keeps, KeepsBut, Undecided

LEMMA KeptSelf ==
  ASSUME NEW s \in Step
  PROVE  Kept(s, s)
  BY DEF Kept, PositionKept, TrackKept, Step

LEMMA KeptTrans ==
  ASSUME NEW s, NEW u, NEW v, Kept(s, u), Kept(u, v)
  PROVE  Kept(s, v)
  BY DEF Kept, PositionKept, TrackKept

\* To rewrite the track, or the position.
LEMMA TrackChange ==
  ASSUME NEW s \in Step, NEW t, TrackKept(s.t, t)
  PROVE  Kept(s, [s EXCEPT !.t = t])
<1>1. /\ [s EXCEPT !.t = t] \in Step /\ [s EXCEPT !.t = t].p = s.p
      /\ [s EXCEPT !.t = t].t = t /\ [s EXCEPT !.t = t].acts = s.acts
  BY DEF Step, TrackKept
<1>2. PositionKept(s.p, s.p)
  BY DEF Step, PositionKept
<1> QED
  BY <1>1, <1>2 DEF Kept

LEMMA PositionChange ==
  ASSUME NEW s \in Step, NEW p, PositionKept(s.p, p)
  PROVE  Kept(s, [s EXCEPT !.p = p])
<1>1. /\ [s EXCEPT !.p = p] \in Step /\ [s EXCEPT !.p = p].p = p
      /\ [s EXCEPT !.p = p].t = s.t /\ [s EXCEPT !.p = p].acts = s.acts
  BY DEF Step, PositionKept
<1>2. TrackKept(s.t, s.t)
  BY DEF Step, TrackKept
<1> QED
  BY <1>1, <1>2 DEF Kept

LEMMA RunnerTrendKept ==
  ASSUME NEW s \in Step, NEW c \in ClosedCandle, NEW snap
  PROVE  /\ Kept(s, RunnerTrend(s, c, snap).step)
         /\ RunnerTrend(s, c, snap).strength \in Strengths
<1> DEFINE b == IF "ema5" \in snap THEN s.t.broken
                ELSE IF "ema" \in c.facts THEN Capped(s.t.broken + 1, WeakBars) ELSE 0
           t == [s.t EXCEPT !.broken = b]
<1>1. b \in 0..WeakBars
  BY BoundsAreNat DEF Capped, Step, Track
<1>2. RunnerTrend(s, c, snap).step = [s EXCEPT !.t = t]
  BY DEF RunnerTrend
<1>3. TrackKept(s.t, t)
  <2> HIDE DEF b
  <2> QED BY <1>1 DEF TrackKept, Step, Track
<1>4. RunnerTrend(s, c, snap).strength \in Strengths
  BY DEF RunnerTrend, Strengths
<1> HIDE DEF t
<1> QED
  BY <1>2, <1>3, <1>4, TrackChange

LEMMA RunnerOutcome ==
  ASSUME NEW s, Undecided(s), NEW c \in ClosedCandle, NEW snap
  PROVE  Kept(s, RunnerRule(s, c, snap))
<1> DEFINE tr == RunnerTrend(s, c, snap)
           v == tr.step
           weak == Counted(s.t.weak, WeakBars)
           u == RunnerRule(s, c, snap)
<1>0. s \in Step /\ s.t.weak \in Counts(WeakBars)
  BY DEF Undecided, Step, Track
<1>1. Kept(s, v) /\ tr.strength \in Strengths
  BY <1>0, RunnerTrendKept
<1>2. v \in Step /\ v.p \in Position /\ v.t \in Track /\ v.t.weak \in Counts(WeakBars)
  BY <1>1 DEF Kept, Step, Track
<1>3. weak \in Counts(WeakBars) /\ NoCount \in Counts(WeakBars)
  BY <1>0, CountedTyped, BoundsAreNat DEF NoCount, Counts
<1>4. \/ u = s
      \/ u = [v EXCEPT !.t = [v.t EXCEPT !.weak = weak]]
      \/ \E w \in Counts(WeakBars) :
           u = [[v EXCEPT !.p = [v.p EXCEPT !.strength = tr.strength]]
                  EXCEPT !.t = [v.t EXCEPT !.weak = w]]
  <2> HIDE DEF tr, weak
  <2> QED
    BY <1>2, <1>3 DEF RunnerRule, tr, weak, Step
<1>5. \A w \in Counts(WeakBars) : TrackKept(v.t, [v.t EXCEPT !.weak = w])
  <2> HIDE DEF v
  <2> QED BY <1>2 DEF Track, TrackKept
<1>6. PositionKept(v.p, [v.p EXCEPT !.strength = tr.strength])
  <2> HIDE DEF v, tr
  <2> QED BY <1>1, <1>2 DEF Position, PositionKept
<1> DEFINE v2 == [v EXCEPT !.p = [v.p EXCEPT !.strength = tr.strength]]
<1> SUFFICES Kept(s, u)
  OBVIOUS
<1> HIDE DEF tr, weak, u, v
<1>7. Kept(v, v2) /\ v2 \in Step /\ v2.t = v.t
  BY <1>2, <1>6, PositionChange DEF Step, Kept
<1>8. CASE u = s
  BY <1>0, <1>8, KeptSelf
<1>9. CASE u = [v EXCEPT !.t = [v.t EXCEPT !.weak = weak]]
  BY <1>1, <1>2, <1>3, <1>5, <1>9, TrackChange, KeptTrans
<1>10. CASE \E w \in Counts(WeakBars) :
           u = [[v EXCEPT !.p = [v.p EXCEPT !.strength = tr.strength]]
                  EXCEPT !.t = [v.t EXCEPT !.weak = w]]
  <2>1. PICK w \in Counts(WeakBars) : u = [v2 EXCEPT !.t = [v.t EXCEPT !.weak = w]]
    BY <1>10
  <2> HIDE DEF v2
  <2>2. Kept(v2, u)
    BY <1>5, <1>7, <2>1, TrackChange
  <2> QED
    BY <1>1, <1>7, <2>2, KeptTrans
<1> QED
  BY <1>4, <1>8, <1>9, <1>10

LEMMA StagnationOutcome ==
  ASSUME NEW s, Undecided(s), ~s.p.runner \/ s.p.mode # "RETEST"
  PROVE  Outcome(s, StagnationRule(s))
<1>0. s \in Step /\ s.acts = << >> /\ s.p \in Position /\ s.t \in Track
  BY DEF Undecided, Step
<1> DEFINE q == [s EXCEPT !.t.stag = TRUE]
           a == Act("REDUCE", "STAGNATION")
           b == Trail(-((-s.p.stop) \div 2))
           slow == s.p.bars.n >= SlowBars[s.p.mode] /\ s.t.maxR < 1
<1>1. CASE StagnationRule(s) = Exits(s, "STAGNATION")
  BY <1>1, ExitsDecides DEF Reasons, Reductions
<1>2. CASE StagnationRule(s) = s
  BY <1>0, <1>2, KeptSelf, KeptOutcome
<1>3. CASE ~s.t.stag /\ StagnationRule(s) = Returns(q, a)
  <2>1. q \in Step /\ q.p = s.p /\ q.t = [s.t EXCEPT !.stag = TRUE] /\ q.acts = << >>
    BY <1>0 DEF Step, Track
  <2>2. a \in Action
    BY ActTyped DEF ActKinds, Closings, Reasons, Reductions
  <2> DEFINE u == Returns(q, a)
  <2> HIDE DEF q
  <2>3. u \in Step /\ u.p = s.p /\ u.t = [s.t EXCEPT !.stag = TRUE] /\ u.acts = <<a>> /\ u.done
    BY <2>1, <2>2, ReturnsOne
  <2> HIDE DEF u
  <2>4. u.t.stag /\ u.t.reduced = s.t.reduced /\ u.t.maxR = s.t.maxR
    BY <1>0, <2>3 DEF Track
  <2>5. Outcome(s, u)
    BY <1>3, <2>3, <2>4 DEF Outcome, Framed, Decides, KeepsBut
  <2> QED
    BY <1>3, <2>5 DEF u
<1>4. CASE s.p.mode = "RETEST" /\ slow /\ StagnationRule(s) = Returns(s, b)
  <2>1. b \in Action
    <3>1. s.p.stop \in Int
      BY <1>0 DEF Position
    <3>2. -((-s.p.stop) \div 2) \in Int
      BY <3>1
    <3> QED
      BY <3>2, ActTyped
  <2> DEFINE u == Returns(s, b)
  <2>2. u \in Step /\ u.p = s.p /\ u.t = s.t /\ u.acts = <<b>> /\ u.done
    BY <1>0, <2>1, ReturnsOne
  <2> HIDE DEF u
  <2>3. Outcome(s, u)
    BY <1>4, <2>2 DEF Outcome, Framed, Decides, Keeps, KeepsBut
  <2> QED
    BY <1>4, <2>3 DEF u
<1> QED
  BY <1>1, <1>2, <1>3, <1>4 DEF StagnationRule

-----------------------------------------------------------------------------
(* Scouts.                                                                 *)

LEMMA ScoutReducesOutcome ==
  ASSUME NEW s, Undecided(s), s.p.scout # "NONE", s.p.red < MaxDefensive,
         NEW r \in {"SCOUT_DEFENSIVE", "SCOUT_CATASTROPHIC"}
  PROVE  Outcome(s, ScoutReduces(s, r))
<1>0. s \in Step /\ s.acts = << >> /\ s.p \in Position /\ s.t \in Track
  BY DEF Undecided, Step
<1> DEFINE p == [s.p EXCEPT !.red = @ + 1, !.warned = 0, !.scout = "PENDING"]
           q == [s EXCEPT !.p.red = @ + 1, !.p.warned = 0, !.p.scout = "PENDING"]
           a == Act("REDUCE", r)
           u == Returns(q, a)
<1>1. /\ p \in Position
      /\ p.status = s.p.status /\ p.stop = s.p.stop /\ p.partial = s.p.partial
      /\ p.red = s.p.red + 1 /\ p.mode = s.p.mode /\ p.risk = s.p.risk
      /\ p.runner = s.p.runner /\ p.best = s.p.best /\ p.trailing = s.p.trailing
  <2>1. s.p.red + 1 \in 0..MaxDefensive /\ 0 \in 0..BarCap
    BY <1>0, BoundsAreNat DEF Position
  <2> QED
    BY <1>0, <2>1 DEF Position, ScoutStates
<1>2. q = [s EXCEPT !.p = p]
  BY <1>0 DEF Step, Position
<1>3. q \in Step /\ q.p = p /\ q.t = s.t /\ q.acts = << >>
  <2> HIDE DEF p, q
  <2> QED BY <1>0, <1>1, <1>2 DEF Step
<1>4. a \in Action
  BY ActTyped DEF ActKinds, Closings, Reasons, Reductions
<1>5. u \in Step /\ u.p = p /\ u.t = s.t /\ u.acts = <<a>> /\ u.done
  <2> HIDE DEF p, q
  <2> QED BY <1>3, <1>4, ReturnsOne
<1> SUFFICES Outcome(s, u)
  BY DEF ScoutReduces
<1> HIDE DEF p, q, u
<1>6. Framed(s, u)
  BY <1>1, <1>5 DEF Framed
<1>7. Decides(s, u)
  BY <1>1, <1>5 DEF Decides, KeepsBut
<1> QED
  BY <1>5, <1>6, <1>7 DEF Outcome

\* What the look at the weakness of a scout changes is not in the books.
LEMMA ScoutWeaknessKept ==
  ASSUME NEW s \in Step, NEW c \in ClosedCandle, NEW snap
  PROVE  Kept(s, ScoutWeakness(s, c, snap).step)
<1> DEFINE n == IF "mid" \notin c.facts
                THEN IF "ema" \in c.facts THEN Capped(s.t.reclaim + 1, ReclaimBars) ELSE 0
                ELSE s.t.reclaim
           t == [s.t EXCEPT !.reclaim = n]
<1>1. n \in 0..ReclaimBars
  BY BoundsAreNat DEF Capped, Step, Track
<1>2. ScoutWeakness(s, c, snap).step = [s EXCEPT !.t = t]
  BY DEF ScoutWeakness
<1>3. TrackKept(s.t, t)
  <2> HIDE DEF n
  <2> QED BY <1>1 DEF TrackKept, Step, Track
<1> HIDE DEF t
<1> QED
  BY <1>2, <1>3, TrackChange

LEMMA OutcomeAfterKept ==
  ASSUME NEW s, Undecided(s), NEW v, Kept(s, v), NEW u, Outcome(v, u)
  PROVE  Outcome(s, u)
<1>1. CASE u.acts = << >> /\ Keeps(v, u)
  BY <1>1 DEF Kept, PositionKept, TrackKept, Outcome, Framed, Keeps, KeepsBut
<1>2. CASE u.done /\ Decides(v, u)
  <2>1. Decides(s, u)
    BY <1>2 DEF Kept, PositionKept, TrackKept, Decides, Keeps, KeepsBut
  <2>2. Framed(s, u)
    BY DEF Kept, PositionKept, TrackKept, Outcome, Framed
  <2> QED
    BY <1>2, <2>1, <2>2 DEF Outcome
<1> QED
  BY <1>1, <1>2 DEF Outcome

LEMMA HoldsOutcome ==
  ASSUME NEW s, NEW u, Outcome(s, u)
  PROVE  Outcome(s, Holds(u))
<1>1. /\ Holds(u) \in Step /\ Holds(u).p = u.p /\ Holds(u).t = u.t /\ Holds(u).acts = u.acts
      /\ Holds(u).done
  BY DEF Outcome, Holds, Step
<1>2. Framed(s, Holds(u)) /\ (Keeps(s, u) => Keeps(s, Holds(u)))
      /\ (Decides(s, u) => Decides(s, Holds(u)))
  BY <1>1 DEF Outcome, Framed, Keeps, KeepsBut, Decides
<1> QED
  BY <1>1, <1>2 DEF Outcome

LEMMA ScoutPendingOutcome ==
  ASSUME NEW s, Undecided(s), s.p.scout # "NONE", s.p.mode = "SCOUT",
         NEW c \in ClosedCandle, NEW snap
  PROVE  Outcome(s, ScoutPending(s, c, snap))
<1>0. s \in Step /\ s.acts = << >> /\ s.p \in Position /\ s.t \in Track
  BY DEF Undecided, Step
<1> DEFINE look == IF s.p.bars.n < GraceBars THEN [step |-> s, weak |-> FALSE]
                   ELSE ScoutWeakness(s, c, snap)
           v == look.step
           p == [s.p EXCEPT !.scout = "WARNING", !.warned = s.p.bars.n]
           w == [s EXCEPT !.p.scout = "WARNING", !.p.warned = s.p.bars.n]
<1>1. Kept(s, v) /\ v.p.scout = s.p.scout
  <2>1. Kept(s, s) /\ Kept(s, ScoutWeakness(s, c, snap).step)
    BY <1>0, KeptSelf, ScoutWeaknessKept
  <2>2. ScoutWeakness(s, c, snap).step.p = s.p
    BY <1>0 DEF ScoutWeakness, Step
  <2> QED
    BY <2>1, <2>2
<1>2. Undecided(v) /\ v.p.mode = "SCOUT" /\ v.p.red = s.p.red
  BY <1>1, KeptOutcome DEF Kept, PositionKept
<1>3. Kept(s, w)
  <2>1. PositionKept(s.p, p)
    BY <1>0 DEF Position, PositionKept, ScoutStates, Counts
  <2>2. w = [s EXCEPT !.p = p]
    BY <1>0 DEF Step, Position
  <2> HIDE DEF p, w
  <2> QED
    BY <1>0, <2>1, <2>2, PositionChange
<1>4. Outcome(s, Holds(w))
  <2> HIDE DEF w
  <2> QED BY <1>3, KeptOutcome, HoldsOutcome
<1>5. s.p.red < MaxDefensive => Outcome(s, ScoutReduces(v, "SCOUT_DEFENSIVE"))
  <2> HIDE DEF v
  <2> SUFFICES ASSUME s.p.red < MaxDefensive
               PROVE  Outcome(s, ScoutReduces(v, "SCOUT_DEFENSIVE"))
    OBVIOUS
  <2>1. Outcome(v, ScoutReduces(v, "SCOUT_DEFENSIVE"))
    BY <1>1, <1>2, ScoutReducesOutcome
  <2> QED
    BY <1>1, <2>1, OutcomeAfterKept
<1>6. Outcome(s, Holds(StagnationRule(v)))
  <2> HIDE DEF v
  <2>1. Outcome(v, StagnationRule(v))
    BY <1>2, StagnationOutcome
  <2> QED
    BY <1>1, <2>1, OutcomeAfterKept, HoldsOutcome
<1>7. \/ ScoutPending(s, c, snap) = Holds(w)
      \/ s.p.red < MaxDefensive
         /\ ScoutPending(s, c, snap) = ScoutReduces(v, "SCOUT_DEFENSIVE")
      \/ ScoutPending(s, c, snap) = Holds(StagnationRule(v))
  BY DEF ScoutPending
<1> QED
  BY <1>4, <1>5, <1>6, <1>7

LEMMA ScoutWarningOutcome ==
  ASSUME NEW s, Undecided(s), s.p.scout # "NONE", s.p.mode = "SCOUT",
         NEW c \in ClosedCandle, NEW snap
  PROVE  Outcome(s, ScoutWarning(s, c, snap))
<1>0. s \in Step /\ s.acts = << >> /\ s.p \in Position /\ s.t \in Track
  BY DEF Undecided, Step
<1> DEFINE p == [s.p EXCEPT !.warned = 0, !.scout = "PENDING"]
           over == [s EXCEPT !.p.warned = 0, !.p.scout = "PENDING"]
<1>1. PositionKept(s.p, p) /\ p.scout = "PENDING"
  <2>1. 0 \in 0..BarCap
    BY BoundsAreNat
  <2> QED
    BY <1>0, <2>1 DEF Position, PositionKept, ScoutStates
<1>2. over = [s EXCEPT !.p = p] /\ over.p = p
  BY <1>0 DEF Step, Position
<1>3. Kept(s, over) /\ Undecided(over) /\ over.p.scout # "NONE" /\ over.p.mode = "SCOUT"
  <2> HIDE DEF p, over
  <2>1. Kept(s, over)
    BY <1>0, <1>1, <1>2, PositionChange
  <2> QED
    BY <1>1, <1>2, <2>1, KeptOutcome DEF PositionKept
<1> HIDE DEF over
<1>4. Outcome(s, Holds(over)) /\ Outcome(s, Holds(s))
  BY <1>0, <1>3, KeptSelf, KeptOutcome, HoldsOutcome
<1>5. s.p.red < MaxDefensive => Outcome(s, ScoutReduces(s, "SCOUT_DEFENSIVE"))
  BY ScoutReducesOutcome
<1>6. Outcome(s, ScoutPending(over, c, snap))
  BY <1>3, ScoutPendingOutcome, OutcomeAfterKept
<1> QED
  BY <1>4, <1>5, <1>6 DEF ScoutWarning, over

LEMMA ScoutOutcome ==
  ASSUME NEW s, Undecided(s), s.p.scout # "NONE" => s.p.mode = "SCOUT",
         NEW c \in ClosedCandle, NEW snap
  PROVE  Outcome(s, ScoutRule(s, c, snap))
<1>0. s \in Step /\ s.acts = << >> /\ s.p \in Position /\ s.t \in Track
  BY DEF Undecided, Step
<1> DEFINE p == [s.p EXCEPT !.scout = "ACTIVE_TREND", !.warned = 0]
           on == [s EXCEPT !.p.scout = "ACTIVE_TREND", !.p.warned = 0]
<1>1. CASE s.p.scout \in {"NONE", "ACTIVE_TREND"}
  BY <1>0, <1>1, KeptSelf, KeptOutcome DEF ScoutRule
<1>2. CASE s.p.scout \notin {"NONE", "ACTIVE_TREND"}
  <2>1. PositionKept(s.p, p)
    <3>1. 0 \in 0..BarCap
      BY BoundsAreNat
    <3> QED
      BY <1>0, <1>2, <3>1 DEF Position, PositionKept, ScoutStates
  <2>2. on = [s EXCEPT !.p = p]
    BY <1>0 DEF Step, Position
  <2>3. Outcome(s, on)
    <3> HIDE DEF p, on
    <3> QED BY <1>0, <2>1, <2>2, PositionChange, KeptOutcome
  <2> HIDE DEF on
  <2>4. s.p.red < MaxDefensive => Outcome(s, ScoutReduces(s, "SCOUT_CATASTROPHIC"))
    BY <1>2, ScoutReducesOutcome
  <2>5. Outcome(s, ScoutWarning(s, c, snap)) /\ Outcome(s, ScoutPending(s, c, snap))
    BY <1>2, ScoutWarningOutcome, ScoutPendingOutcome
  <2> QED
    BY <1>2, <2>3, <2>4, <2>5 DEF ScoutRule, on
<1> QED
  BY <1>1, <1>2

-----------------------------------------------------------------------------
(* Scenario invalidation.                                                  *)

LEMMA InvalidKept ==
  ASSUME NEW s \in Step, NEW c, NEW snap, NEW counterCandle
  PROVE  Kept(s, Invalid(s, c, snap, counterCandle).step)
<1> DEFINE level == IF "ema5" \in snap THEN s.t.level
                    ELSE IF "level" \in c.facts THEN Counted(s.t.level, 2) ELSE NoCount
           t == [s.t EXCEPT !.level = level]
<1>1. level \in Counts(2)
  <2>1. s.t.level \in Counts(2)
    BY DEF Step, Track
  <2> QED
    BY <2>1, CountedTyped DEF NoCount, Counts
<1>2. Invalid(s, c, snap, counterCandle).step = [s EXCEPT !.t = t]
  BY DEF Invalid
<1>3. TrackKept(s.t, t)
  <2> HIDE DEF level
  <2> QED BY <1>1 DEF TrackKept, Step, Track
<1> HIDE DEF t
<1> QED
  BY <1>2, <1>3, TrackChange

LEMMA ConfirmedKept ==
  ASSUME NEW s \in Step, NEW c
  PROVE  Kept(s, Confirmed(s, c).step)
<1> DEFINE scout == IF s.p.mode # "SCOUT" THEN s.t.scout
                    ELSE IF "level" \in c.facts /\ s.t.level.n = 2 THEN NoCount
                    ELSE Counted(s.t.scout, 2)
           t == [s.t EXCEPT !.scout = scout]
<1>1. scout \in Counts(2)
  <2>1. s.t.scout \in Counts(2)
    BY DEF Step, Track
  <2> QED
    BY <2>1, CountedTyped DEF NoCount, Counts
<1>2. Confirmed(s, c).step = [s EXCEPT !.t = t]
  BY DEF Confirmed
<1>3. TrackKept(s.t, t)
  <2> HIDE DEF scout
  <2> QED BY <1>1 DEF TrackKept, Step, Track
<1> HIDE DEF t
<1> QED
  BY <1>2, <1>3, TrackChange

LEMMA RecoveryKept ==
  ASSUME NEW s \in Step, NEW n \in 0..3
  PROVE  Kept(s, [s EXCEPT !.t.recovery = n])
<1> DEFINE t == [s.t EXCEPT !.recovery = n]
<1>1. TrackKept(s.t, t)
  BY DEF TrackKept, Step, Track
<1>2. [s EXCEPT !.t.recovery = n] = [s EXCEPT !.t = t]
  OBVIOUS
<1> HIDE DEF t
<1> QED
  BY <1>1, <1>2, TrackChange

LEMMA ScenarioReducesOutcome ==
  ASSUME NEW s, Undecided(s), ~s.t.reduced
  PROVE  Outcome(s, ScenarioReduces(s))
<1>0. s \in Step /\ s.acts = << >> /\ s.p \in Position /\ s.t \in Track
  BY DEF Undecided, Step
<1> DEFINE t == [s.t EXCEPT !.recovery = 3, !.reduced = TRUE]
           q == [s EXCEPT !.t.recovery = 3, !.t.reduced = TRUE]
           a == Act("REDUCE", "SCENARIO_INVALID")
           u == Returns(q, a)
<1>1. t \in Track /\ t.stag = s.t.stag /\ t.maxR = s.t.maxR /\ t.reduced
  <2>1. t \in Track
    BY <1>0, 3 \in 0..3, TRUE \in BOOLEAN DEF Track
  <2>2. t.stag = s.t.stag /\ t.maxR = s.t.maxR
    BY <1>0 DEF Track
  <2>3. t.reduced
    BY <1>0 DEF Track
  <2> QED
    BY <2>1, <2>2, <2>3
<1>2. q \in Step /\ q.p = s.p /\ q.t = t /\ q.acts = << >>
  BY <1>0, <1>1 DEF Step, Track
<1>3. a \in Action
  BY ActTyped DEF ActKinds, Closings, Reasons, Reductions
<1>4. u \in Step /\ u.p = s.p /\ u.t = t /\ u.acts = <<a>> /\ u.done
  <2> HIDE DEF q, t
  <2> QED BY <1>2, <1>3, ReturnsOne
<1> SUFFICES Outcome(s, u)
  BY DEF ScenarioReduces
<1> HIDE DEF t, q, u
<1>5. Framed(s, u) /\ Decides(s, u)
  BY <1>1, <1>4 DEF Framed, Decides, KeepsBut
<1> QED
  BY <1>4, <1>5 DEF Outcome

LEMMA ScenarioInvalidOutcome ==
  ASSUME NEW s, Undecided(s), NEW price, NEW c, NEW snap
  PROVE  Outcome(s, ScenarioInvalid(s, price, c, snap))
<1>0. s \in Step
  BY DEF Undecided
<1> DEFINE sure == Confirmed(s, c)
           v == sure.step
           n == IF HalfR(s.p, price) < 1 THEN 3 ELSE s.t.recovery
<1>1. Kept(s, v) /\ Undecided(v)
  BY <1>0, ConfirmedKept, KeptOutcome
<1>2. Outcome(s, s) /\ Outcome(s, Holds(s))
  BY <1>0, KeptSelf, KeptOutcome, HoldsOutcome
<1>3. Outcome(s, Holds(v))
  BY <1>1, KeptOutcome, HoldsOutcome
<1>4. Outcome(s, [s EXCEPT !.t.recovery = n])
  <2>1. n \in 0..3
    BY <1>0 DEF Step, Track
  <2> HIDE DEF n
  <2> QED
    BY <1>0, <2>1, RecoveryKept, KeptOutcome
<1>5. ~s.t.reduced => Outcome(s, ScenarioReduces(v))
  <2> HIDE DEF v
  <2> QED
    BY <1>1, ScenarioReducesOutcome, OutcomeAfterKept DEF Kept, TrackKept
<1>6. \/ ScenarioInvalid(s, price, c, snap) \in {s, Holds(s), Holds(v)}
      \/ ScenarioInvalid(s, price, c, snap) = [s EXCEPT !.t.recovery = n]
      \/ ~s.t.reduced /\ ScenarioInvalid(s, price, c, snap) = ScenarioReduces(v)
  BY DEF ScenarioInvalid
<1> QED
  BY <1>2, <1>3, <1>4, <1>5, <1>6

LEMMA ScenarioOutcome ==
  ASSUME NEW s, Undecided(s), NEW price, NEW c, NEW snap
  PROVE  Outcome(s, ScenarioRule(s, price, c, snap))
<1>0. s \in Step /\ s.t.recovery \in 0..3
  BY DEF Undecided, Step, Track
<1> DEFINE v == Invalid(s, c, snap, TRUE).step
           scout == IF s.p.mode = "SCOUT" THEN NoCount ELSE v.t.scout
           zero == [s EXCEPT !.t.recovery = 0]
           less == [s EXCEPT !.t.recovery = s.t.recovery - 1]
           clear == [v EXCEPT !.t.scout = scout]
<1>1. Kept(s, v) /\ Undecided(v) /\ v \in Step
  BY <1>0, InvalidKept, KeptOutcome DEF Undecided
<1>2. Kept(s, zero) /\ Undecided(zero) /\ Outcome(s, zero)
  <2>1. Kept(s, zero)
    BY <1>0, 0 \in 0..3, RecoveryKept
  <2> HIDE DEF zero
  <2> QED
    BY <2>1, KeptOutcome
<1>3. s.t.recovery > 0 => Outcome(s, less)
  <2>1. s.t.recovery > 0 => s.t.recovery - 1 \in 0..3
    BY <1>0
  <2> QED
    BY <1>0, <2>1, RecoveryKept, KeptOutcome
<1>4. Outcome(s, Exits(zero, "SCENARIO_INVALID"))
  <2> HIDE DEF zero
  <2>1. Outcome(zero, Exits(zero, "SCENARIO_INVALID"))
    BY <1>2, ExitsDecides DEF Reasons, Reductions
  <2> QED
    BY <1>2, <2>1, OutcomeAfterKept
<1>5. Outcome(s, ScenarioInvalid(v, price, c, snap))
  <2> HIDE DEF v
  <2> QED BY <1>1, ScenarioInvalidOutcome, OutcomeAfterKept
<1>6. Outcome(s, clear)
  <2> DEFINE t == [v.t EXCEPT !.scout = scout]
  <2>1. scout \in Counts(2) /\ TrackKept(v.t, t)
    <3> HIDE DEF v
    <3>1. scout \in Counts(2)
      BY <1>1 DEF Step, Track, NoCount, Counts
    <3> HIDE DEF scout
    <3> QED BY <1>1, <3>1 DEF TrackKept, Step, Track
  <2>2. clear = [v EXCEPT !.t = t]
    OBVIOUS
  <2> HIDE DEF v, t, clear
  <2>3. Kept(v, clear)
    BY <1>1, <2>1, <2>2, TrackChange
  <2> QED
    BY <1>1, <2>3, KeptTrans, KeptOutcome
<1>7. \/ ScenarioRule(s, price, c, snap) \in
           {zero, Exits(zero, "SCENARIO_INVALID"), ScenarioInvalid(v, price, c, snap), clear}
      \/ s.t.recovery > 0 /\ ScenarioRule(s, price, c, snap) = less
  BY DEF ScenarioRule
<1> QED
  BY <1>2, <1>3, <1>4, <1>5, <1>6, <1>7

LEMMA RunnerScenarioOutcome ==
  ASSUME NEW s, Undecided(s), NEW c, NEW snap
  PROVE  Outcome(s, RunnerScenarioRule(s, c, snap))
<1> DEFINE v == Invalid(s, c, snap, FALSE).step
<1>1. Kept(s, v) /\ Undecided(v)
  BY InvalidKept, KeptOutcome DEF Undecided
<1> HIDE DEF v
<1>2. Outcome(s, v) /\ Outcome(s, Exits(v, "RUNNER_SCENARIO_INVALID"))
  BY <1>1, KeptOutcome, ExitsDecides, OutcomeAfterKept DEF Reasons
<1> QED
  BY <1>2 DEF RunnerScenarioRule, v

-----------------------------------------------------------------------------
(* Profit and the trailing stop.                                           *)

LEMMA PartialOutcome ==
  ASSUME NEW s, Undecided(s), NEW price
  PROVE  Outcome(s, PartialRule(s, price))
<1>0. s \in Step /\ s.acts = << >> /\ s.p \in Position /\ s.t \in Track
  BY DEF Undecided, Step
<1> DEFINE p == [s.p EXCEPT !.partial = TRUE]
           q == [s EXCEPT !.p.partial = TRUE]
           a == Act("PARTIAL_TP", "PARTIAL_TAKE_PROFIT")
           u == Returns(q, a)
<1>1. p \in Position
  BY <1>0, TRUE \in BOOLEAN DEF Position
<1>2. /\ p.status = s.p.status /\ p.stop = s.p.stop /\ p.red = s.p.red
      /\ p.mode = s.p.mode /\ p.risk = s.p.risk /\ p.runner = s.p.runner
      /\ p.best = s.p.best /\ p.trailing = s.p.trailing /\ p.scout = s.p.scout
  BY <1>0 DEF Position
<1>3. p.partial
  BY <1>0 DEF Position
<1>4. q \in Step /\ q.p = p /\ q.t = s.t /\ q.acts = << >>
  BY <1>0, <1>1 DEF Step, Position
<1>5. a \in Action
  BY ActTyped DEF ActKinds, Closings, Reasons, Reductions
<1>6. u \in Step /\ u.p = p /\ u.t = s.t /\ u.acts = <<a>> /\ u.done
  <2> HIDE DEF q, p
  <2> QED BY <1>4, <1>5, ReturnsOne
<1>7. Outcome(s, s)
  BY <1>0, KeptSelf, KeptOutcome
<1>8. PartialRule(s, price) = s \/ (~s.p.partial /\ PartialRule(s, price) = u)
  BY DEF PartialRule
<1>9. ~s.p.partial => Outcome(s, u)
  <2> HIDE DEF p, q, u
  <2>1. Framed(s, u)
    BY <1>2, <1>6 DEF Framed
  <2>2. ~s.p.partial => Decides(s, u)
    BY <1>2, <1>3, <1>6 DEF Decides, KeepsBut
  <2> QED
    BY <1>6, <2>1, <2>2 DEF Outcome
<1> QED
  BY <1>7, <1>8, <1>9

LEMMA TrailStopTyped ==
  ASSUME NEW p \in Position, NEW maxR \in Int
  PROVE  TrailStop(p, maxR) \in Int
<1> DEFINE k == IF p.runner THEN p.strength
                ELSE IF maxR >= ExtendedR THEN "EXTENDED" ELSE "NORMAL"
<1>1. k \in Strengths \cup {"NORMAL", "EXTENDED"}
  BY DEF Position
<1>2. Distance[k] \in Nat /\ p.best \in Int
  <2> HIDE DEF k
  <2> QED BY <1>1, RulesAssumption DEF Position
<1>3. TrailStop(p, maxR) = p.best - Distance[k]
  BY DEF TrailStop
<1> HIDE DEF k
<1> QED
  BY <1>2, <1>3

\* A price at which a position trails lies above its trailing stop.
Passes(s, price) ==
  s.t.maxR >= TrailR => price > TrailStop(s.p, s.t.maxR)

LEMMA BreachOutcome ==
  ASSUME NEW s, Undecided(s), NEW price \in Int
  PROVE  /\ Outcome(s, BreachRule(s, price))
         /\ ~BreachRule(s, price).done => Passes(BreachRule(s, price), price)
<1>0. s \in Step /\ s.acts = << >> /\ s.p \in Position /\ s.t \in Track
      /\ s.p.stop \in Int /\ s.t.maxR \in Int /\ TrailR \in Int
  <2>1. s \in Step /\ s.acts = << >> /\ s.p \in Position /\ s.t \in Track
    BY DEF Undecided, Step
  <2> QED
    BY <2>1, BoundsAreNat DEF Position, Track
<1>1. CASE s.t.maxR < TrailR
  <2>1. BreachRule(s, price) = s /\ Outcome(s, s)
    BY <1>0, <1>1, KeptSelf, KeptOutcome DEF BreachRule
  <2> QED
    BY <1>0, <1>1, <2>1 DEF Passes
<1>2. CASE s.t.maxR >= TrailR
  <2> DEFINE p == [s.p EXCEPT !.trailing = TRUE]
             on == [s EXCEPT !.p.trailing = TRUE]
             r == IF s.p.runner THEN "RUNNER_TRAILING_STOP" ELSE "TRAILING_STOP"
             stop == TrailStop(s.p, s.t.maxR)
  <2>1. p \in Position
    BY <1>0, TRUE \in BOOLEAN DEF Position
  <2>2. /\ p.status = s.p.status /\ p.stop = s.p.stop /\ p.red = s.p.red
        /\ p.mode = s.p.mode /\ p.risk = s.p.risk /\ p.runner = s.p.runner
        /\ p.best = s.p.best /\ p.partial = s.p.partial /\ p.scout = s.p.scout
        /\ p.strength = s.p.strength
    BY <1>0 DEF Position
  <2>3. on \in Step /\ on.p = p /\ on.t = s.t /\ on.acts = << >>
    BY <1>0, <2>1 DEF Step, Position
  <2> HIDE DEF p, on
  <2>4. Undecided(on)
    BY <2>2, <2>3 DEF Undecided
  <2>5. Outcome(on, Exits(on, r))
    BY <2>4, ExitsDecides DEF Reasons
  <2>6. \A u : Outcome(on, u) => Outcome(s, u)
    <3> SUFFICES ASSUME NEW u, Outcome(on, u)
                 PROVE  Outcome(s, u)
      OBVIOUS
    <3>1. Framed(s, u)
      BY <1>2, <2>2, <2>3 DEF Outcome, Framed
    <3>2. Keeps(on, u) => Keeps(s, u)
      BY <2>2, <2>3 DEF Keeps, KeepsBut
    <3>3. Decides(on, u) => Decides(s, u)
      BY <2>2, <2>3 DEF Decides, Keeps, KeepsBut
    <3> QED
      BY <3>1, <3>2, <3>3 DEF Outcome
  <2>7. Outcome(on, on)
    BY <2>3, <2>4, KeptSelf, KeptOutcome
  <2>8. BreachRule(s, price) = IF price <= Max({s.p.stop, stop}) THEN Exits(on, r) ELSE on
    BY <1>0, <1>2 DEF BreachRule, on
  <2>9. CASE price <= Max({s.p.stop, stop})
    <3>1. BreachRule(s, price) = Exits(on, r) /\ Exits(on, r).done
      BY <2>5, <2>8, <2>9 DEF Exits, Returns, Outcome, Step
    <3> QED
      BY <2>5, <2>6, <3>1
  <2>10. CASE ~(price <= Max({s.p.stop, stop}))
    <3>1. stop \in Int
      BY <1>0, TrailStopTyped
    <3>2. price > stop
      <4> HIDE DEF stop
      <4> QED BY <1>0, <2>10, <3>1, MaxOfTwo
    <3>3. TrailStop(on.p, on.t.maxR) = stop
      BY <2>2, <2>3 DEF TrailStop
    <3> HIDE DEF stop
    <3> QED
      BY <2>6, <2>7, <2>8, <2>10, <3>2, <3>3 DEF Passes
  <2> QED
    BY <2>9, <2>10
<1> QED
  BY <1>0, <1>1, <1>2

\* The ratchet moves the stop, and forward.
Moves(s, u) ==
  u.acts = <<Trail(u.p.stop)>> /\ u.p.stop > s.p.stop /\ KeepsBut("stop", s, u)

LEMMA RatchetedOutcome ==
  ASSUME NEW s \in Step, s.acts = << >>, NEW allowed
  PROVE  LET u == Ratcheted(s, allowed)
         IN  u = s \/ (u \in Step /\ Framed(s, u) /\ u.p.trailing = s.p.trailing
                       /\ u.p.scout = s.p.scout /\ u.t = s.t /\ Moves(s, u)
                       /\ u.p.stop = TrailStop(s.p, s.t.maxR))
<1> DEFINE x == TrailStop(s.p, s.t.maxR)
           p == [s.p EXCEPT !.stop = x]
           q == [s EXCEPT !.p.stop = x]
           u == Does(q, Trail(x))
<1>0. s.p \in Position /\ s.t \in Track /\ s.p.stop \in Int /\ x \in Int
  BY TrailStopTyped DEF Step, Position, Track
<1>1. Ratcheted(s, allowed) = s \/ (x > s.p.stop /\ Ratcheted(s, allowed) = u)
  <2> HIDE DEF x
  <2>1. CASE x > s.p.stop
    <3>1. Ratchet(s.p, x) = {x}
      BY <2>1 DEF Ratchet
    <3>2. (CHOOSE y \in {x} : TRUE) = x
      OBVIOUS
    <3> QED
      BY <2>1, <3>1, <3>2 DEF Ratcheted, x
  <2>2. CASE ~(x > s.p.stop)
    <3>1. Ratchet(s.p, x) = {}
      BY <2>2 DEF Ratchet
    <3> QED
      BY <3>1 DEF Ratcheted, x
  <2> QED
    BY <2>1, <2>2
<1> HIDE DEF x
<1>2. /\ p \in Position /\ p.stop = x
      /\ p.status = s.p.status /\ p.partial = s.p.partial /\ p.red = s.p.red
      /\ p.mode = s.p.mode /\ p.risk = s.p.risk /\ p.runner = s.p.runner
      /\ p.best = s.p.best /\ p.trailing = s.p.trailing /\ p.scout = s.p.scout
  BY <1>0 DEF Position
<1>3. q \in Step /\ q.p = p /\ q.t = s.t /\ q.acts = << >>
  BY <1>0, <1>2 DEF Step, Position
<1>4. Trail(x) \in Action
  BY <1>0, ActTyped
<1> HIDE DEF p, q
<1>5. u \in Step /\ u.p = p /\ u.t = s.t /\ u.acts = <<Trail(x)>>
  <2>1. Append(q.acts, Trail(x)) = <<Trail(x)>> /\ <<Trail(x)>> \in Seq(Action)
    BY <1>3, <1>4
  <2> QED
    BY <1>3, <2>1 DEF Does, Step
<1> HIDE DEF u
<1>6. x > s.p.stop => Framed(s, u) /\ Moves(s, u) /\ u.p.stop = TrailStop(s.p, s.t.maxR)
  BY <1>2, <1>5 DEF Framed, Moves, KeepsBut, x
<1> QED
  BY <1>1, <1>2, <1>5, <1>6

-----------------------------------------------------------------------------
(* evaluate.                                                               *)

LEMMA HalfRTyped ==
  ASSUME NEW p \in Position, NEW price \in Int
  PROVE  HalfR(p, price) \in Int
<1>1. p.risk \in Int
  BY DEF Position
<1>2. p.risk > 0 => (2 * price) \div p.risk \in Int
  BY <1>1
<1> QED
  BY <1>1, <1>2 DEF HalfR

LEMMA ObservedUndecided ==
  ASSUME NEW p \in Position, p.status = "ACTIVE", NEW t \in Track, NEW price \in Int,
         NEW c \in ClosedCandle
  PROVE  LET o == Observed(p, t, price, c)
         IN  /\ Undecided(o) /\ ~o.done
             /\ o.p.stop = p.stop /\ o.p.partial = p.partial /\ o.p.red = p.red
             /\ o.p.mode = p.mode /\ o.p.risk = p.risk /\ o.p.runner = p.runner
             /\ o.p.trailing = p.trailing /\ o.p.scout = p.scout
             /\ o.t.stag = t.stag /\ o.t.reduced = t.reduced
             /\ o.t.maxR >= t.maxR /\ o.t.maxR >= HalfR(p, price)
<1> DEFINE bars == Counted(p.bars, BarCap)
           best == Max({p.best, c.high})
           q == [p EXCEPT !.bars = bars, !.best = best]
           maxR == Max({t.maxR, HalfR(p, price)})
           v == [t EXCEPT !.maxR = maxR]
           o == Observed(p, t, price, c)
<1>1. bars \in Counts(BarCap)
  BY CountedTyped, BoundsAreNat DEF Position
<1>2. best \in Int
  <2>1. p.best \in Int /\ c.high \in Int
    BY DEF Position, ClosedCandle
  <2> QED
    BY <2>1, MaxOfTwo
<1>3. maxR \in Int /\ maxR >= t.maxR /\ maxR >= HalfR(p, price)
  <2>1. t.maxR \in Int /\ HalfR(p, price) \in Int
    BY HalfRTyped DEF Track
  <2> QED
    BY <2>1, MaxOfTwo
<1> HIDE DEF bars, best, maxR
<1>4. /\ q \in Position /\ q.status = "ACTIVE"
      /\ q.stop = p.stop /\ q.partial = p.partial /\ q.red = p.red
      /\ q.mode = p.mode /\ q.risk = p.risk /\ q.runner = p.runner
      /\ q.trailing = p.trailing /\ q.scout = p.scout
  BY <1>1, <1>2 DEF Position
<1>5. v \in Track /\ v.stag = t.stag /\ v.reduced = t.reduced /\ v.maxR = maxR
  BY <1>3 DEF Track
<1>6. o = [p |-> q, t |-> v, acts |-> << >>, done |-> FALSE]
  BY DEF Observed, bars, best, maxR
<1> HIDE DEF q, v, o
<1>7. /\ o \in Step /\ o.p = q /\ o.t = v /\ o.acts = << >> /\ ~o.done
  BY <1>4, <1>5, <1>6 DEF Step
<1>8. Undecided(o)
  BY <1>4, <1>7 DEF Undecided
<1>9. /\ Undecided(o) /\ ~o.done
      /\ o.p.stop = p.stop /\ o.p.partial = p.partial /\ o.p.red = p.red
      /\ o.p.mode = p.mode /\ o.p.risk = p.risk /\ o.p.runner = p.runner
      /\ o.p.trailing = p.trailing /\ o.p.scout = p.scout
      /\ o.t.stag = t.stag /\ o.t.reduced = t.reduced
      /\ o.t.maxR >= t.maxR /\ o.t.maxR >= HalfR(p, price)
  BY <1>3, <1>4, <1>5, <1>7, <1>8
<1> QED
  BY <1>9 DEF o

\* A rule that follows others: whatever they made of the step, the outcome is one
\* action at most.
LEMMA OutcomeUnless ==
  ASSUME NEW o, Undecided(o), NEW s, Outcome(o, s), NEW u, Undecided(s) => Outcome(s, u)
  PROVE  Outcome(o, IF s.done THEN s ELSE u)
<1>1. CASE s.done
  BY <1>1
<1>2. CASE ~s.done
  <2>1. s.acts = << >> /\ Keeps(o, s) /\ s \in Step /\ Framed(o, s)
    BY <1>2 DEF Outcome
  <2>2. Undecided(s)
    BY <2>1 DEF Undecided, Keeps, KeepsBut
  <2>3. Outcome(s, u)
    BY <2>2
  <2>4. u \in Step /\ Framed(o, u)
    BY <2>1, <2>3 DEF Outcome, Framed
  <2>5. Keeps(s, u) => Keeps(o, u)
    BY <2>1 DEF Keeps, KeepsBut
  <2>6. Decides(s, u) => Decides(o, u)
    BY <2>1 DEF Decides, Framed, Keeps, KeepsBut
  <2> QED
    BY <1>2, <2>3, <2>4, <2>5, <2>6 DEF Outcome
<1> QED
  BY <1>1, <1>2

LEMMA EarlyOutcome ==
  ASSUME NEW s, Undecided(s), s.p.scout # "NONE" => s.p.mode = "SCOUT",
         NEW c \in ClosedCandle, NEW snap
  PROVE  Outcome(s, EarlyRules(s, c, snap))
<1> DEFINE a == IF s.done THEN s ELSE HoldingRule(s)
<1>1. EarlyRules(s, c, snap) = IF a.done THEN a ELSE ScoutRule(a, c, snap)
  BY DEF EarlyRules, Unless
<1>2. Outcome(s, s)
  BY KeptSelf, KeptOutcome DEF Undecided
<1>3. Outcome(s, a)
  BY <1>2, HoldingOutcome
<1> HIDE DEF a
<1>4. Framed(s, a)
  BY <1>3 DEF Outcome
<1>5. Undecided(a) => Outcome(a, ScoutRule(a, c, snap))
  BY <1>4, ScoutOutcome DEF Framed
<1> QED
  BY <1>1, <1>3, <1>5, OutcomeUnless

LEMMA ProfitOutcome ==
  ASSUME NEW o, Undecided(o), NEW s, Outcome(o, s),
         NEW price \in Int, NEW c \in ClosedCandle, NEW snap
  PROVE  LET u == ProfitRules(s, price, c, snap)
         IN  Outcome(o, u) /\ (u.done \/ Passes(u, price))
<1> DEFINE d == IF s.done THEN s ELSE RunnerRule(s, c, snap)
           f == IF d.done THEN d ELSE PartialRule(d, price)
           u == IF f.done THEN f ELSE BreachRule(f, price)
<1>1. ProfitRules(s, price, c, snap) = u
  BY DEF ProfitRules, Unless
<1>2. Outcome(o, d)
  BY RunnerOutcome, KeptOutcome, OutcomeUnless
<1> HIDE DEF d
<1>3. Outcome(o, f)
  BY <1>2, PartialOutcome, OutcomeUnless
<1> HIDE DEF f
<1>4. Undecided(f) => Outcome(f, BreachRule(f, price))
  BY BreachOutcome
<1>5. Outcome(o, u)
  BY <1>3, <1>4, OutcomeUnless
<1>6. ~f.done => Undecided(f)
  BY <1>3 DEF Outcome, Undecided, Keeps, KeepsBut
<1>7. u.done \/ Passes(u, price)
  BY <1>6, BreachOutcome
<1> QED
  BY <1>1, <1>5, <1>7

\* What an evaluation decides: nothing, one action with its entry in the books, or a
\* move of the stop; the latter, unless of a runner, to below the price.
LEMMA EvaluationDecides ==
  ASSUME NEW p \in Position, p.status = "ACTIVE", NEW t \in Track, NEW price \in Int,
         NEW c \in ClosedCandle, NEW snap, NEW allowed,
         p.scout # "NONE" => p.mode = "SCOUT", p.trailing => t.maxR >= TrailR
  PROVE  LET o == Observed(p, t, price, c)
             e == Evaluation(p, t, price, c, snap, allowed)
         IN  /\ e \in Step /\ Framed(o, e)
             /\ \/ e.acts = << >> /\ Keeps(o, e)
                \/ Decides(o, e)
                \/ Moves(o, e) /\ (~p.runner => e.p.stop < price)
<1> DEFINE o == Observed(p, t, price, c)
           b == EarlyRules(o, c, snap)
           g == ProfitRules(b, price, c, snap)
           h == IF g.done THEN g ELSE IF g.p.runner THEN RunnerScenarioRule(g, c, snap)
                                      ELSE ScenarioRule(g, price, c, snap)
           i == IF h.done THEN h ELSE IF h.p.runner THEN h ELSE StagnationRule(h)
           e == IF i.done THEN i ELSE IF i.p.trailing THEN Ratcheted(i, allowed) ELSE i
<1>1. Evaluation(p, t, price, c, snap, allowed) = e
  <2>1. Evaluation(p, t, price, c, snap, allowed) = LateRules(g, price, c, snap, allowed)
    BY DEF Evaluation
  <2> HIDE DEF g
  <2> QED
    BY <2>1 DEF LateRules, Unless
<1>2. /\ Undecided(o) /\ o.p.scout = p.scout /\ o.p.mode = p.mode /\ o.p.runner = p.runner
      /\ o.p.trailing = p.trailing /\ o.t.maxR >= t.maxR /\ o.t.maxR \in Int
  BY ObservedUndecided DEF Undecided, Step, Track
<1> SUFFICES /\ e \in Step /\ Framed(o, e)
             /\ \/ e.acts = << >> /\ Keeps(o, e)
                \/ Decides(o, e)
                \/ Moves(o, e) /\ (~p.runner => e.p.stop < price)
  <2> HIDE DEF e, o
  <2> QED BY <1>1 DEF o
<1> HIDE DEF o
<1>3. Outcome(o, b)
  BY <1>2, EarlyOutcome
<1> HIDE DEF b
<1>4. Outcome(o, g) /\ (g.done \/ Passes(g, price))
  BY <1>2, <1>3, ProfitOutcome
<1> HIDE DEF g
<1>5. Undecided(g) => Outcome(g, IF g.p.runner THEN RunnerScenarioRule(g, c, snap)
                                 ELSE ScenarioRule(g, price, c, snap))
  BY RunnerScenarioOutcome, ScenarioOutcome
<1>6. Outcome(o, h)
  BY <1>2, <1>4, <1>5, OutcomeUnless
<1>a. g.done => h.done
  OBVIOUS
<1> HIDE DEF h
<1>7. Undecided(h) => Outcome(h, IF h.p.runner THEN h ELSE StagnationRule(h))
  BY StagnationOutcome, KeptSelf, KeptOutcome DEF Undecided
<1>8. Outcome(o, i)
  BY <1>2, <1>6, <1>7, OutcomeUnless
<1>b. h.done => i.done
  OBVIOUS
<1> HIDE DEF i
<1>9. CASE i.done
  BY <1>8, <1>9 DEF Outcome
<1>10. CASE ~i.done
  <2>1. /\ i.acts = << >> /\ Keeps(o, i) /\ i \in Step /\ Framed(o, i)
        /\ i.p \in Position /\ i.t \in Track
    BY <1>8, <1>10 DEF Outcome, Step
  <2>2. CASE e = i
    BY <2>1, <2>2
  <2> DEFINE u == Ratcheted(i, allowed)
  <2>3. CASE i.p.trailing /\ u # i
    <3>1. e = u
      BY <1>10, <2>3
    <3>2. u \in Step /\ Framed(i, u) /\ u.p.trailing = i.p.trailing /\ u.p.scout = i.p.scout
          /\ u.t = i.t /\ Moves(i, u) /\ u.p.stop = TrailStop(i.p, i.t.maxR)
      BY <2>1, <2>3, RatchetedOutcome
    <3> HIDE DEF u, e
    <3>3. Framed(o, u)
      BY <2>1, <3>2 DEF Framed
    <3>4. Moves(o, u)
      BY <2>1, <3>2 DEF Moves, Keeps, KeepsBut
    <3>5. i.t.maxR >= TrailR
      <4>1. o.p.trailing => o.t.maxR >= TrailR
        BY <1>2, BoundsAreNat DEF Track
      <4> QED
        BY <2>1, <2>3, <4>1 DEF Framed
    <3>6. ~p.runner => u.p.stop < price
      <4> SUFFICES ASSUME ~p.runner
                   PROVE  u.p.stop < price
        OBVIOUS
      <4>1. Passes(g, price)
        BY <1>4, <1>10, <1>a, <1>b
      <4>2. /\ g.p.best = i.p.best /\ g.t.maxR = i.t.maxR /\ g.p.runner = i.p.runner
            /\ ~i.p.runner
        BY <1>2, <1>4, <2>1 DEF Outcome, Framed
      <4>3. TrailStop(g.p, g.t.maxR) = TrailStop(i.p, i.t.maxR)
        BY <4>2 DEF TrailStop
      <4>4. TrailStop(i.p, i.t.maxR) \in Int
        BY <2>1, TrailStopTyped DEF Track
      <4> QED
        BY <3>2, <3>5, <4>1, <4>2, <4>3, <4>4 DEF Passes
    <3> QED
      BY <3>1, <3>2, <3>3, <3>4, <3>6
  <2> QED
    BY <1>10, <2>2, <2>3
<1> QED
  BY <1>9, <1>10

\* The activation of a runner keeps the books; it moves the stop of a runner only,
\* and forward, and has at most one thing to send.
LEMMA ActivatedMoves ==
  ASSUME NEW p \in Position, NEW t \in Track, NEW price \in Int, NEW c \in ClosedCandle,
         NEW snap, NEW allowed
  PROVE  LET on == Activated([p |-> p, t |-> t, acts |-> << >>, done |-> FALSE],
                             price, c, snap, allowed)
         IN  /\ on \in Step
             /\ on.acts = << >> \/ \E x \in Int : on.acts = <<Trail(x)>>
             /\ on.p.status = p.status /\ on.p.partial = p.partial /\ on.p.red = p.red
             /\ on.p.mode = p.mode /\ on.p.risk = p.risk /\ on.p.trailing = p.trailing
             /\ on.p.scout # "NONE" => p.scout # "NONE"
             /\ on.t.maxR = t.maxR /\ on.t.stag = t.stag /\ on.t.reduced = t.reduced
             /\ on.p.stop >= p.stop /\ (p.runner => on.p.runner)
             /\ on.p.stop = p.stop \/ on.p.runner
<1> DEFINE s == [p |-> p, t |-> t, acts |-> << >>, done |-> FALSE]
           b == Max({p.best, c.high})
           q == [p EXCEPT !.best = b]
           best == [s EXCEPT !.p.best = b]
           maxR == Max({t.maxR, HalfR(p, price)})
           up == [best EXCEPT !.t.maxR = maxR]
           trend == RunnerTrend(up, c, snap)
           v == trend.step
           r == [v.p EXCEPT !.runner = TRUE, !.strength = trend.strength]
           w == [v EXCEPT !.p.runner = TRUE, !.p.strength = trend.strength]
           u == Ratcheted(w, allowed)
           z == [u EXCEPT !.t.maxR = t.maxR]
           on == Activated(s, price, c, snap, allowed)
<1>1. s \in Step /\ s.p = p /\ s.t = t /\ s.acts = << >>
  BY DEF Step
<1>2. b \in Int /\ maxR \in Int
  <2>1. p.best \in Int /\ c.high \in Int /\ t.maxR \in Int /\ HalfR(p, price) \in Int
    BY HalfRTyped DEF Position, ClosedCandle, Track
  <2> QED
    BY <2>1, MaxOfTwo
<1>3. on = best \/ on = z
  BY DEF Activated
<1> SUFFICES /\ on \in Step
             /\ on.acts = << >> \/ \E x \in Int : on.acts = <<Trail(x)>>
             /\ on.p.status = p.status /\ on.p.partial = p.partial /\ on.p.red = p.red
             /\ on.p.mode = p.mode /\ on.p.risk = p.risk /\ on.p.trailing = p.trailing
             /\ on.p.scout # "NONE" => p.scout # "NONE"
             /\ on.t.maxR = t.maxR /\ on.t.stag = t.stag /\ on.t.reduced = t.reduced
             /\ on.p.stop >= p.stop /\ (p.runner => on.p.runner)
             /\ on.p.stop = p.stop \/ on.p.runner
  OBVIOUS
<1> HIDE DEF s, b, maxR, on
<1>4. /\ q \in Position
      /\ q.status = p.status /\ q.stop = p.stop /\ q.partial = p.partial /\ q.red = p.red
      /\ q.mode = p.mode /\ q.risk = p.risk /\ q.runner = p.runner
      /\ q.trailing = p.trailing /\ q.scout = p.scout /\ q.stop \in Int
  BY <1>2 DEF Position
<1>5. best \in Step /\ best.p = q /\ best.t = t /\ best.acts = << >>
  BY <1>1, <1>2, <1>4 DEF Step, Position
<1>6. CASE on = best
  <2> HIDE DEF q, best
  <2> QED BY <1>4, <1>5, <1>6
<1>7. CASE on = z
  <2>1. [t EXCEPT !.maxR = maxR] \in Track /\ [t EXCEPT !.maxR = maxR].stag = t.stag
        /\ [t EXCEPT !.maxR = maxR].reduced = t.reduced
    BY <1>2 DEF Track
  <2> HIDE DEF q, best
  <2>2. up \in Step /\ up.p = q /\ up.t = [t EXCEPT !.maxR = maxR] /\ up.acts = << >>
    BY <1>5, <2>1 DEF Step
  <2> HIDE DEF up
  <2>3. Kept(up, v) /\ trend.strength \in Strengths
    BY <2>2, RunnerTrendKept
  <2> HIDE DEF trend
  <2>4. v \in Step /\ v.acts = << >> /\ v.p \in Position /\ v.t \in Track
        /\ PositionKept(q, v.p) /\ v.t.stag = t.stag /\ v.t.reduced = t.reduced
    BY <2>1, <2>2, <2>3 DEF Kept, TrackKept, Step
  <2> HIDE DEF v
  <2>5. r \in Position
    BY <2>3, <2>4, TRUE \in BOOLEAN DEF Position
  <2>6. /\ r.status = v.p.status /\ r.stop = v.p.stop /\ r.partial = v.p.partial
        /\ r.red = v.p.red /\ r.mode = v.p.mode /\ r.risk = v.p.risk
        /\ r.trailing = v.p.trailing /\ r.scout = v.p.scout
    BY <2>4 DEF Position
  <2>7. r.runner
    BY <2>4 DEF Position
  <2>8. w \in Step /\ w.p = r /\ w.t = v.t /\ w.acts = << >>
    BY <2>4, <2>5 DEF Step, Position
  <2> HIDE DEF r, w
  <2>9. u = w \/ (u \in Step /\ Framed(w, u) /\ u.p.trailing = w.p.trailing
                  /\ u.p.scout = w.p.scout /\ u.t = w.t /\ Moves(w, u))
    BY <2>8, RatchetedOutcome
  <2> HIDE DEF u
  <2>10. u \in Step /\ u.t = v.t /\ u.p \in Position
         /\ u.p.stop \in Int /\ w.p.stop \in Int /\ u.p.stop >= w.p.stop
         /\ u.p.status = r.status /\ u.p.partial = r.partial /\ u.p.red = r.red
         /\ u.p.mode = r.mode /\ u.p.risk = r.risk /\ u.p.trailing = r.trailing
         /\ u.p.scout = r.scout /\ u.p.runner
    <3>1. CASE u = w
      BY <2>5, <2>7, <2>8, <3>1 DEF Position
    <3>2. CASE u \in Step /\ Framed(w, u) /\ u.p.trailing = w.p.trailing
                  /\ u.p.scout = w.p.scout /\ u.t = w.t /\ Moves(w, u)
      <4>1. u.p \in Position /\ u.p.stop \in Int /\ w.p.stop \in Int
        BY <2>5, <2>8, <3>2 DEF Step, Position
      <4> QED
        BY <2>7, <2>8, <3>2, <4>1 DEF Framed, Moves, KeepsBut
    <3> QED
      BY <2>9, <3>1, <3>2
  <2>11. u.acts = << >> \/ \E x \in Int : u.acts = <<Trail(x)>>
    BY <2>8, <2>9, <2>10 DEF Moves
  <2>12. [v.t EXCEPT !.maxR = t.maxR] \in Track
         /\ [v.t EXCEPT !.maxR = t.maxR].maxR = t.maxR
         /\ [v.t EXCEPT !.maxR = t.maxR].stag = t.stag
         /\ [v.t EXCEPT !.maxR = t.maxR].reduced = t.reduced
    BY <2>4 DEF Track
  <2>13. z \in Step /\ z.p = u.p /\ z.t = [v.t EXCEPT !.maxR = t.maxR] /\ z.acts = u.acts
    BY <2>10, <2>12 DEF Step
  <2> HIDE DEF z
  <2>14. /\ u.p.stop >= p.stop /\ u.p.status = p.status /\ u.p.partial = p.partial
         /\ u.p.red = p.red /\ u.p.mode = p.mode /\ u.p.risk = p.risk
         /\ u.p.trailing = p.trailing /\ (u.p.scout # "NONE" => p.scout # "NONE")
    BY <1>4, <2>4, <2>6, <2>8, <2>10 DEF PositionKept
  <2> QED
    BY <1>7, <2>10, <2>11, <2>12, <2>13, <2>14
<1> QED
  BY <1>3, <1>6, <1>7

-----------------------------------------------------------------------------
(* The inductive invariant.                                                *)

\* The action that a cycle still has to do, at most one.
SingleAction == todo = << >> \/ \E a \in Action : todo = <<a>>

History ==
  [earned : BOOLEAN, cuts : [Reductions -> Nat], failed : BOOLEAN, dropped : BOOLEAN,
   restarted : BOOLEAN]

Typed ==
  /\ pos \in Position /\ trk \in Track /\ candle \in ClosedCandle
  /\ SingleAction
  /\ input.price \in Int
  /\ exStop \in Int /\ held \in BOOLEAN /\ announcing \in BOOLEAN
  /\ row \in [status : {"ACTIVE", "CLOSED"}, stop : Int, mode : Modes]
  /\ hist \in History

Due(r) == IF Open /\ Decided({"PARTIAL_TP", "REDUCE"}) /\ Head(todo).reason = r THEN 1 ELSE 0

\* A position whose exit was decided awaits it, until it fails or an event before it does;
\* nothing else is to be done for it.
ClosingAwaits ==
  pos.status = "CLOSING" => Decided({"EXIT"}) \/ (Idle /\ (hist.failed \/ hist.dropped))

\* A position that has ended has no history.
EndedIsClean ==
  ~Open => ~hist.restarted /\ \A r \in Reductions : hist.cuts[r] = 0

\* A reduction has a reason that is counted, a partial take profit its own.
ReasonKnown ==
  /\ Decided({"PARTIAL_TP", "REDUCE"}) => Head(todo).reason \in Reductions
  /\ Decided({"PARTIAL_TP"}) => Head(todo).reason = "PARTIAL_TAKE_PROFIT"
  /\ Decided({"REDUCE"}) => Head(todo).reason # "PARTIAL_TAKE_PROFIT"

\* What was cut or is about to be is in the books.
CutsBooked ==
  ~hist.restarted =>
    /\ hist.cuts["PARTIAL_TAKE_PROFIT"] + Due("PARTIAL_TAKE_PROFIT")
         <= IF pos.partial THEN 1 ELSE 0
    /\ hist.cuts["STAGNATION"] + Due("STAGNATION") <= IF trk.stag THEN 1 ELSE 0
    /\ hist.cuts["SCENARIO_INVALID"] + Due("SCENARIO_INVALID") <= IF trk.reduced THEN 1 ELSE 0
    /\ hist.cuts["SCOUT_DEFENSIVE"] + hist.cuts["SCOUT_CATASTROPHIC"]
         + Due("SCOUT_DEFENSIVE") + Due("SCOUT_CATASTROPHIC") <= pos.red

\* Only a position that has reached the threshold trails; only one that was entered as
\* a scout is managed as one; a live position is restored as one.
Tracked ==
  /\ pos.trailing => trk.maxR >= TrailR
  /\ pos.scout # "NONE" => pos.mode = "SCOUT"
  /\ Open => row.status = "ACTIVE"

\* A stop beyond the entry has been earned, so that no tightening would loosen it.
Earned(stop) == stop > 0 /\ ~pos.runner => trk.maxR >= 1

\* The stop of the exchange lags behind that of the record, that of the record behind
\* the one that is about to be written.
StopsAgree ==
  /\ held /\ ~Idle => Open
  /\ Open /\ ~hist.restarted =>
       /\ pos.risk = 2 /\ Earned(pos.stop)
       /\ Decided({"TRAIL_UPDATE"}) => Head(todo).stop >= pos.stop /\ Earned(Head(todo).stop)
       /\ held => exStop <= pos.stop

IInv ==
  /\ Typed /\ ClosingAwaits /\ EndedIsClean /\ ReasonKnown /\ CutsBooked /\ Tracked
  /\ StopsAgree

-----------------------------------------------------------------------------
(* What the actions build.                                                 *)

LEMMA NewPositionTyped ==
  ASSUME NEW mode \in Modes
  PROVE  /\ NewPosition(mode) \in Position /\ NewPosition(mode).status = "ACTIVE"
         /\ NewPosition(mode).stop = -2 /\ NewPosition(mode).risk = 2
         /\ NewPosition(mode).mode = mode /\ ~NewPosition(mode).trailing
         /\ ~NewPosition(mode).runner /\ ~NewPosition(mode).partial
         /\ NewPosition(mode).red = 0
         /\ (NewPosition(mode).scout # "NONE" => mode = "SCOUT")
<1>1. /\ 0 \in 0..MaxDefensive /\ 0 \in 0..BarCap /\ NoPrice \in Int /\ -2 \in Int
      /\ NoCount \in Counts(BarCap)
  BY BoundsAreNat DEF NoPrice, NoCount, Counts
<1>2. NewPosition(mode) \in Position
  BY <1>1 DEF NewPosition, Position, Statuses, ScoutStates, Strengths
<1> QED
  BY <1>2 DEF NewPosition

LEMMA NoTrackTyped == NoTrack \in Track /\ NoTrack.maxR = 0
<1>1. /\ 0 \in 0..3 /\ 0 \in 0..ReclaimBars /\ 0 \in 0..WeakBars
      /\ NoCount \in Counts(WeakBars) /\ NoCount \in Counts(2)
  BY BoundsAreNat DEF NoCount, Counts
<1> QED
  BY <1>1 DEF NoTrack, Track

LEMMA EndedTyped ==
  /\ Ended \in Position /\ Ended.status = "CLOSED" /\ Ended.scout = "NONE"
  /\ ~Ended.trailing /\ ~Ended.partial /\ Ended.red = 0 /\ Ended.mode \in Modes
<1> DEFINE p == NewPosition("BREAKOUT")
<1>1. p \in Position /\ ~p.trailing /\ ~p.partial /\ p.red = 0 /\ p.scout = "NONE"
      /\ p.mode = "BREAKOUT" /\ "BREAKOUT" \in Modes
  <2>1. "BREAKOUT" \in Modes
    BY DEF Modes
  <2> QED
    BY <2>1, NewPositionTyped DEF NewPosition
<1>2. Ended = [p EXCEPT !.status = "CLOSED"]
  BY DEF Ended
<1> HIDE DEF p
<1> QED
  BY <1>1, <1>2 DEF Position, Statuses

LEMMA OneAction ==
  ASSUME NEW a \in Action
  PROVE  Head(<<a>>) = a /\ Tail(<<a>>) = << >> /\ <<a>> # << >>
  OBVIOUS

\* A cycle has nothing to do, or one action.
LEMMA DecidesOne ==
  ASSUME SingleAction
  PROVE  /\ Idle \/ (Head(todo) \in Action /\ Tail(todo) = << >>)
         /\ \A kinds : Decided(kinds) => ~Idle /\ Head(todo).kind \in kinds
  BY OneAction DEF SingleAction, Decided, Idle

LEMMA AwaitsDecided ==
  \A kinds : Awaits(kinds) => Decided(kinds)
  BY DEF Awaits

\* What a step may do to the two stops, of one position in one process.
StopForward == Open /\ Open' /\ ~hist'.restarted => pos'.stop >= pos.stop
ExchangeForward == held /\ held' /\ ~hist'.restarted => exStop' >= exStop

LEMMA InitIInv == Init => IInv
<1> SUFFICES ASSUME Init
             PROVE  IInv
  OBVIOUS
<1>1. /\ pos \in Position /\ pos.status = "CLOSED" /\ pos.scout = "NONE"
      /\ ~pos.trailing /\ ~pos.partial /\ pos.red = 0 /\ pos.mode \in Modes
      /\ pos.stop \in Int
  BY EndedTyped DEF Init, Position
<1>2. Idle /\ ~Open
  BY <1>1 DEF Init, Idle, Open
<1>3. candle \in ClosedCandle
  BY ManagedAssumption DEF Init, ClosedCandle
<1>4. hist \in History
      /\ ~hist.restarted /\ \A r \in Reductions : hist.cuts[r] = 0
  BY DEF Init, NoHistory, History
<1>5. Typed
  <2>1. row \in [status : {"ACTIVE", "CLOSED"}, stop : Int, mode : Modes]
    BY <1>1 DEF Init, Row
  <2>2. input.price \in Int /\ exStop \in Int /\ trk \in Track
    BY NoTrackTyped DEF Init, NoInput, NoPrice
  <2>3. held \in BOOLEAN
    BY DEF Init
  <2> QED
    BY <1>1, <1>3, <1>4, <2>1, <2>2, <2>3 DEF Init, Typed, SingleAction
<1>6. CutsBooked
  <2>1. \A r \in Reductions : Due(r) = 0
    BY <1>2 DEF Due, Decided
  <2> QED
    BY <1>1, <1>4, <2>1 DEF CutsBooked, Reductions
<1> QED
  BY <1>1, <1>2, <1>4, <1>5, <1>6
     DEF IInv, ClosingAwaits, EndedIsClean, ReasonKnown, Tracked, StopsAgree, Decided, Init

-----------------------------------------------------------------------------
(* evaluate, as a step of the cycle.                                       *)

LEMMA NextBarTyped ==
  ASSUME NEW p \in Position, NEW t \in Track, NEW new \in BOOLEAN
  PROVE  LET at == IF new THEN NextBar(p, t) ELSE [p |-> p, t |-> t]
         IN  PositionKept(p, at.p) /\ TrackKept(t, at.t)
<1> DEFINE q == [p EXCEPT !.bars.seen = FALSE]
           v == [t EXCEPT !.weak.seen = FALSE, !.level.seen = FALSE, !.scout.seen = FALSE]
<1>1. PositionKept(p, p) /\ TrackKept(t, t)
  BY DEF PositionKept, TrackKept
<1>2. PositionKept(p, q)
  <2>1. [p.bars EXCEPT !.seen = FALSE] \in Counts(BarCap)
    BY DEF Position, Counts
  <2> QED
    BY <2>1 DEF Position, PositionKept
<1>3. TrackKept(t, v)
  <2>1. [t.weak EXCEPT !.seen = FALSE] \in Counts(WeakBars)
    BY DEF Track, Counts
  <2>2. [t.level EXCEPT !.seen = FALSE] \in Counts(2)
    BY DEF Track, Counts
  <2>3. [t.scout EXCEPT !.seen = FALSE] \in Counts(2)
    BY DEF Track, Counts
  <2> QED
    BY <2>1, <2>2, <2>3 DEF Track, TrackKept
<1> QED
  BY <1>1, <1>2, <1>3 DEF NextBar

\* What an evaluation makes of the record, the track and the actions.
Evaluated(price) ==
  /\ pos' \in Position /\ trk' \in Track /\ todo' \in Seq(Action)
  /\ pos'.mode = pos.mode /\ pos'.risk = pos.risk /\ pos'.runner = pos.runner
  /\ trk'.maxR >= trk.maxR /\ trk'.maxR >= HalfR(pos, price)
  /\ pos'.trailing => trk'.maxR >= TrailR
  /\ pos'.scout # "NONE" => pos.scout # "NONE"
  /\ LET s == [p |-> pos, t |-> [trk EXCEPT !.maxR = trk'.maxR]]
         u == [p |-> pos', t |-> trk', acts |-> todo']
     IN  \/ todo' = << >> /\ Keeps(s, u)
         \/ Decides(s, u)
         \/ Moves(s, u) /\ (~pos.runner => pos'.stop < price)

LEMMA EvaluateEvaluated ==
  ASSUME IInv, NEW price \in Prices, NEW c \in Candles, NEW new \in BOOLEAN,
         NEW snap \in Snapshots, NEW allowed, Evaluate(price, c, new, snap, allowed)
  PROVE  Evaluated(price)
<1> DEFINE at == IF new THEN NextBar(pos, trk) ELSE [p |-> pos, t |-> trk]
           o == Observed(at.p, at.t, price, c)
           e == Evaluation(at.p, at.t, price, c, snap, allowed)
<1>1. price \in Int /\ c \in ClosedCandle
  BY ManagedAssumption DEF ClosedCandle
<1>2. pos \in Position /\ trk \in Track /\ pos.status = "ACTIVE"
      /\ (pos.trailing => trk.maxR >= TrailR) /\ (pos.scout # "NONE" => pos.mode = "SCOUT")
  BY DEF IInv, Typed, Tracked, Evaluate, Active
<1>3. PositionKept(pos, at.p) /\ TrackKept(trk, at.t)
  BY <1>2, NextBarTyped
<1>4. pos' = e.p /\ trk' = e.t /\ todo' = e.acts
  BY DEF Evaluate
<1> HIDE DEF at
<1>5. at.p \in Position /\ at.t \in Track /\ at.p.status = "ACTIVE"
      /\ (at.p.trailing => at.t.maxR >= TrailR) /\ (at.p.scout # "NONE" => at.p.mode = "SCOUT")
  BY <1>2, <1>3 DEF PositionKept, TrackKept
<1>6. /\ e \in Step /\ Framed(o, e)
      /\ \/ e.acts = << >> /\ Keeps(o, e)
         \/ Decides(o, e)
         \/ Moves(o, e) /\ (~at.p.runner => e.p.stop < price)
  BY <1>1, <1>5, EvaluationDecides
<1>7. /\ Undecided(o) /\ ~o.done
      /\ o.p.stop = at.p.stop /\ o.p.partial = at.p.partial /\ o.p.red = at.p.red
      /\ o.p.mode = at.p.mode /\ o.p.risk = at.p.risk /\ o.p.runner = at.p.runner
      /\ o.p.trailing = at.p.trailing /\ o.p.scout = at.p.scout
      /\ o.t.stag = at.t.stag /\ o.t.reduced = at.t.reduced
      /\ o.t.maxR >= at.t.maxR /\ o.t.maxR >= HalfR(at.p, price)
  BY <1>1, <1>5, ObservedUndecided
<1> HIDE DEF o, e
<1>8. /\ o.p.status = pos.status /\ o.p.stop = pos.stop /\ o.p.partial = pos.partial
      /\ o.p.red = pos.red
      /\ o.p.mode = pos.mode /\ o.p.risk = pos.risk /\ o.p.runner = pos.runner
      /\ o.p.trailing = pos.trailing /\ (o.p.scout # "NONE" => pos.scout # "NONE")
      /\ o.t.stag = trk.stag /\ o.t.reduced = trk.reduced /\ at.p.runner = pos.runner
      /\ o.t.maxR >= trk.maxR /\ o.t.maxR >= HalfR(pos, price)
  <2>1. HalfR(at.p, price) = HalfR(pos, price)
    BY <1>3 DEF HalfR, PositionKept
  <2> QED
    BY <1>2, <1>3, <1>7, <2>1 DEF PositionKept, TrackKept, Undecided
<1>9. pos' \in Position /\ trk' \in Track /\ todo' \in Seq(Action)
  BY <1>4, <1>6 DEF Step
<1>10. trk'.maxR = o.t.maxR
  BY <1>4, <1>6 DEF Framed
<1>11. pos'.trailing => trk'.maxR >= TrailR
  <2>1. trk.maxR \in Int /\ o.t.maxR \in Int /\ TrailR \in Int
    BY <1>2, <1>9, <1>10, BoundsAreNat DEF Track
  <2> QED
    BY <1>2, <1>4, <1>6, <1>8, <1>10, <2>1 DEF Framed
<1> DEFINE s == [p |-> pos, t |-> [trk EXCEPT !.maxR = trk'.maxR]]
           u == [p |-> pos', t |-> trk', acts |-> todo']
<1>12. /\ s.p = pos /\ s.t.stag = trk.stag /\ s.t.reduced = trk.reduced
       /\ s.t.maxR = o.t.maxR /\ u.p = e.p /\ u.t = e.t /\ u.acts = e.acts
  BY <1>2, <1>4, <1>10 DEF Track
<1> HIDE DEF s, u
<1>13. /\ Keeps(o, e) => Keeps(s, u)
       /\ Moves(o, e) => Moves(s, u)
  BY <1>8, <1>12 DEF Keeps, KeepsBut, Moves
<1>14. Decides(o, e) => Decides(s, u)
  BY <1>8, <1>12 DEF Keeps, KeepsBut, Decides
<1>15. \/ todo' = << >> /\ Keeps(s, u)
       \/ Decides(s, u)
       \/ Moves(s, u) /\ (~pos.runner => pos'.stop < price)
  BY <1>4, <1>6, <1>8, <1>13, <1>14
<1> QED
  BY <1>4, <1>6, <1>8, <1>9, <1>10, <1>11, <1>15 DEF Evaluated, Framed, s, u

LEMMA EvaluateIInv ==
  ASSUME IInv, NEW price \in Prices, NEW c \in Candles, NEW new \in BOOLEAN,
         NEW snap \in Snapshots, NEW allowed, Evaluate(price, c, new, snap, allowed)
  PROVE  IInv' /\ StopForward /\ ExchangeForward
<1> DEFINE s == [p |-> pos, t |-> [trk EXCEPT !.maxR = trk'.maxR]]
           u == [p |-> pos', t |-> trk', acts |-> todo']
<1>1. Evaluated(price)
  BY EvaluateEvaluated
<1>2. /\ pos \in Position /\ trk \in Track /\ pos' \in Position /\ trk' \in Track
      /\ pos.status = "ACTIVE" /\ Idle /\ todo = << >> /\ Open /\ price \in Int
      /\ c \in ClosedCandle
  BY <1>1, ManagedAssumption
     DEF IInv, Typed, Evaluate, Evaluated, Active, Open, Idle, ClosedCandle
<1>3. /\ hist'.cuts = hist.cuts /\ hist'.restarted = hist.restarted
      /\ hist'.failed = hist.failed /\ hist'.dropped = hist.dropped
      /\ hist' \in History /\ announcing' \in BOOLEAN
      /\ exStop' = exStop /\ held' = held /\ row' = row /\ candle' = c
  <2>1. hist \in History
    BY DEF IInv, Typed
  <2>2. hist' = [hist EXCEPT !.earned = hist.earned \/ HalfR(pos, price) >= TrailR]
    BY DEF Evaluate
  <2>3. (hist.earned \/ HalfR(pos, price) >= TrailR) \in BOOLEAN
    OBVIOUS
  <2>4. announcing' \in BOOLEAN
    BY DEF Evaluate, Announces
  <2> QED
    BY <2>1, <2>2, <2>3, <2>4 DEF Evaluate, History
<1>4. input'.price \in Int
  BY <1>2 DEF Evaluate, NoInput
<1>5. /\ s.p = pos /\ s.t.stag = trk.stag /\ s.t.reduced = trk.reduced
      /\ s.t.maxR = trk'.maxR /\ u.p = pos' /\ u.t = trk' /\ u.acts = todo'
  BY <1>2 DEF Track
<1>6. \/ todo' = << >> /\ Keeps(s, u)
      \/ Decides(s, u)
      \/ Moves(s, u) /\ (~pos.runner => pos'.stop < price)
  BY <1>1 DEF Evaluated
<1> HIDE DEF s, u
\* One action at most, and what it says.
<1>7. \/ todo' = << >>
      \/ \E r \in Reasons : todo' = <<Act("EXIT", r)>>
      \/ \E r \in Reductions : todo' = <<Act("REDUCE", r)>> /\ r # "PARTIAL_TAKE_PROFIT"
      \/ todo' = <<Act("PARTIAL_TP", "PARTIAL_TAKE_PROFIT")>>
      \/ \E x \in Int : todo' = <<Trail(x)>>
  <2>1. pos.stop \in Int /\ pos'.stop \in Int
    BY <1>2 DEF Position
  <2>2. -((-pos.stop) \div 2) \in Int
    BY <2>1
  <2> QED
    BY <1>5, <1>6, <2>1, <2>2 DEF Decides, Moves, Reductions
<1>8. \/ todo' = << >>
      \/ \E a \in Action :
           /\ todo' = <<a>>
           /\ \/ a.kind \in {"EXIT", "TRAIL_UPDATE"}
              \/ a.kind = "REDUCE" /\ a.reason \in Reductions \ {"PARTIAL_TAKE_PROFIT"}
              \/ a.kind = "PARTIAL_TP" /\ a.reason = "PARTIAL_TAKE_PROFIT"
  <2>1. CASE \E r \in Reasons : todo' = <<Act("EXIT", r)>>
    BY <2>1, ActTyped DEF ActKinds, Closings, Act
  <2>2. CASE \E r \in Reductions : todo' = <<Act("REDUCE", r)>> /\ r # "PARTIAL_TAKE_PROFIT"
    <3>1. PICK r \in Reductions : todo' = <<Act("REDUCE", r)>> /\ r # "PARTIAL_TAKE_PROFIT"
      BY <2>2
    <3>2. Act("REDUCE", r) \in Action
      BY ActTyped DEF ActKinds, Closings, Reasons
    <3>3. Act("REDUCE", r).kind = "REDUCE" /\ Act("REDUCE", r).reason = r
      BY DEF Act
    <3> QED
      BY <3>1, <3>2, <3>3
  <2>3. CASE todo' = <<Act("PARTIAL_TP", "PARTIAL_TAKE_PROFIT")>>
    <3>1. Act("PARTIAL_TP", "PARTIAL_TAKE_PROFIT") \in Action
      BY ActTyped DEF ActKinds, Closings, Reasons, Reductions
    <3>2. Act("PARTIAL_TP", "PARTIAL_TAKE_PROFIT").kind = "PARTIAL_TP"
          /\ Act("PARTIAL_TP", "PARTIAL_TAKE_PROFIT").reason = "PARTIAL_TAKE_PROFIT"
      BY DEF Act
    <3> QED
      BY <2>3, <3>1, <3>2
  <2>4. CASE \E x \in Int : todo' = <<Trail(x)>>
    BY <2>4, ActTyped DEF Trail
  <2> QED
    BY <1>7, <2>1, <2>2, <2>3, <2>4
<1>a. SingleAction'
  BY <1>8 DEF SingleAction
<1>9. ReasonKnown'
  <2>1. CASE todo' = << >>
    BY <2>1 DEF ReasonKnown, Decided, Idle
  <2>2. CASE todo' # << >>
    <3>1. PICK a \in Action :
           /\ todo' = <<a>>
           /\ \/ a.kind \in {"EXIT", "TRAIL_UPDATE"}
              \/ a.kind = "REDUCE" /\ a.reason \in Reductions \ {"PARTIAL_TAKE_PROFIT"}
              \/ a.kind = "PARTIAL_TP" /\ a.reason = "PARTIAL_TAKE_PROFIT"
      BY <1>8, <2>2
    <3>2. Head(todo') = a
      BY <3>1
    <3>3. "PARTIAL_TAKE_PROFIT" \in Reductions
      BY DEF Reductions
    <3> QED
      BY <3>1, <3>2, <3>3 DEF ReasonKnown, Decided, Idle
  <2> QED
    BY <2>1, <2>2
<1>10. Typed'
  BY <1>2, <1>3, <1>4, <1>a DEF IInv, Typed
<1>11. EndedIsClean' /\ ClosingAwaits'
  <2>1. pos'.status = "CLOSING" => \E r \in Reasons : todo' = <<Act("EXIT", r)>>
    BY <1>2, <1>5, <1>6 DEF Decides, Moves, Keeps, KeepsBut
  <2>2. pos'.status # "CLOSED"
    BY <1>2, <1>5, <1>6 DEF Decides, Moves, Keeps, KeepsBut
  <2> QED
    BY <2>1, <2>2 DEF EndedIsClean, ClosingAwaits, Open, Decided, Idle, Act
<1>12. Tracked'
  BY <1>1, <1>2, <1>3 DEF Evaluated, Tracked, IInv
\* What an evaluation decides is in the books; the rest is as it was.
<1>13. CutsBooked'
  <2> SUFFICES ASSUME ~hist.restarted
               PROVE  CutsBooked'
    BY <1>3 DEF CutsBooked
  <2>1. /\ hist.cuts["PARTIAL_TAKE_PROFIT"] <= IF pos.partial THEN 1 ELSE 0
        /\ hist.cuts["STAGNATION"] <= IF trk.stag THEN 1 ELSE 0
        /\ hist.cuts["SCENARIO_INVALID"] <= IF trk.reduced THEN 1 ELSE 0
        /\ hist.cuts["SCOUT_DEFENSIVE"] + hist.cuts["SCOUT_CATASTROPHIC"] <= pos.red
    <3>1. \A r \in Reductions : Due(r) = 0
      BY <1>2 DEF Due, Decided, Idle
    <3>2. \A r \in Reductions : hist.cuts[r] \in Nat
      BY DEF IInv, Typed, History
    <3> QED
      BY <3>1, <3>2 DEF IInv, CutsBooked, Reductions
  <2>2. \A r \in Reductions : hist.cuts[r] \in Nat
    BY DEF IInv, Typed, History
  <2>3. pos.red \in Int /\ pos'.red \in Int
    BY <1>2, BoundsAreNat DEF Position
  <2>4. todo' = << >> => \A r \in Reductions : Due(r)' = 0
    BY DEF Due, Decided, Idle
  <2>a. Open'
    BY <1>2, <1>5, <1>6 DEF Decides, Moves, Keeps, KeepsBut, Open
  <2>5. ASSUME NEW kind, NEW reason, todo' = <<Act(kind, reason)>>
        PROVE  \A r \in Reductions :
                 Due(r)' = IF kind \in {"PARTIAL_TP", "REDUCE"} /\ reason = r THEN 1 ELSE 0
    BY <2>5, <2>a DEF Due, Decided, Idle, Act
  <2>6. ASSUME NEW x, todo' = <<Trail(x)>>
        PROVE  \A r \in Reductions : Due(r)' = 0
    BY <2>6 DEF Due, Decided, Idle, Trail
  <2>7. CASE /\ pos'.partial = pos.partial /\ trk'.stag = trk.stag
             /\ trk'.reduced = trk.reduced /\ pos'.red = pos.red
             /\ \A r \in Reductions : Due(r)' = 0
    BY <1>3, <2>1, <2>2, <2>3, <2>7 DEF CutsBooked, Reductions
  <2>8. CASE todo' = << >> /\ Keeps(s, u)
    BY <1>5, <2>4, <2>7, <2>8 DEF Keeps, KeepsBut
  <2>9. CASE (\E r \in Reasons : u.acts = <<Act("EXIT", r)>>) /\ KeepsBut("status", s, u)
    <3>1. PICK r \in Reasons : todo' = <<Act("EXIT", r)>>
      BY <1>5, <2>9
    <3>2. \A x \in Reductions : Due(x)' = 0
      BY <2>5, <3>1
    <3> QED
      BY <1>5, <2>7, <2>9, <3>2 DEF KeepsBut
  <2>10. CASE /\ u.acts = <<Act("PARTIAL_TP", "PARTIAL_TAKE_PROFIT")>>
              /\ ~s.p.partial /\ u.p.partial /\ KeepsBut("partial", s, u)
    <3>1. \A x \in Reductions : Due(x)' = IF x = "PARTIAL_TAKE_PROFIT" THEN 1 ELSE 0
      BY <1>5, <2>5, <2>10
    <3> QED
      BY <1>3, <1>5, <2>1, <2>2, <2>3, <2>10, <3>1 DEF CutsBooked, KeepsBut, Reductions
  <2>11. CASE /\ u.acts = <<Act("REDUCE", "STAGNATION")>>
              /\ ~s.t.stag /\ u.t.stag /\ KeepsBut("stag", s, u)
    <3>1. \A x \in Reductions : Due(x)' = IF x = "STAGNATION" THEN 1 ELSE 0
      BY <1>5, <2>5, <2>11
    <3> QED
      BY <1>3, <1>5, <2>1, <2>2, <2>3, <2>11, <3>1 DEF CutsBooked, KeepsBut, Reductions
  <2>12. CASE /\ u.acts = <<Act("REDUCE", "SCENARIO_INVALID")>>
              /\ ~s.t.reduced /\ u.t.reduced /\ KeepsBut("reduced", s, u)
    <3>1. \A x \in Reductions : Due(x)' = IF x = "SCENARIO_INVALID" THEN 1 ELSE 0
      BY <1>5, <2>5, <2>12
    <3> QED
      BY <1>3, <1>5, <2>1, <2>2, <2>3, <2>12, <3>1 DEF CutsBooked, KeepsBut, Reductions
  <2>13. CASE /\ \E r \in {"SCOUT_DEFENSIVE", "SCOUT_CATASTROPHIC"} :
                    u.acts = <<Act("REDUCE", r)>>
              /\ u.p.red = s.p.red + 1 /\ KeepsBut("red", s, u)
    <3>1. PICK r \in {"SCOUT_DEFENSIVE", "SCOUT_CATASTROPHIC"} : todo' = <<Act("REDUCE", r)>>
      BY <1>5, <2>13
    <3>2. \A x \in Reductions : Due(x)' = IF x = r THEN 1 ELSE 0
      BY <2>5, <3>1
    <3> QED
      BY <1>3, <1>5, <2>1, <2>2, <2>3, <2>13, <3>2 DEF CutsBooked, KeepsBut, Reductions
  <2>14. CASE (\E x \in Int : u.acts = <<Trail(x)>>) /\ KeepsBut("stop", s, u)
    <3>1. \A r \in Reductions : Due(r)' = 0
      BY <1>5, <2>6, <2>14
    <3> QED
      BY <1>5, <2>7, <2>14, <3>1 DEF KeepsBut
  <2>15. CASE Decides(s, u)
    <3>1. KeepsBut("none", s, u) => KeepsBut("stop", s, u)
      BY DEF KeepsBut
    <3>2. -((-s.p.stop) \div 2) \in Int
      BY <1>2, <1>5 DEF Position
    <3> QED
      BY <2>9, <2>10, <2>11, <2>12, <2>13, <2>14, <2>15, <3>1, <3>2 DEF Decides, Keeps
  <2>16. CASE Moves(s, u)
    <3>1. pos'.stop \in Int
      BY <1>2 DEF Position
    <3> QED
      BY <1>5, <2>14, <2>16, <3>1 DEF Moves
  <2> QED
    BY <1>6, <2>8, <2>15, <2>16
\* The stop moves up only; what a tightening will write is no lower either, as a stop
\* beyond the entry belongs to a position that has seen one R.
<1>14. StopsAgree' /\ (~hist'.restarted => pos'.stop >= pos.stop)
  <2>1. pos'.status # "CLOSED" /\ Open'
    BY <1>2, <1>5, <1>6 DEF Decides, Moves, Keeps, KeepsBut, Open
  <2>2. CASE hist.restarted
    BY <1>3, <2>1, <2>2 DEF StopsAgree
  <2> SUFFICES ASSUME ~hist.restarted
               PROVE  StopsAgree' /\ pos'.stop >= pos.stop
    BY <2>2, <1>3
  <2>3. /\ pos.stop \in Int /\ pos'.stop \in Int /\ trk.maxR \in Int /\ trk'.maxR \in Int
        /\ exStop \in Int
    BY <1>2 DEF Position, Track, IInv, Typed
  <2>4. /\ pos.risk = 2 /\ (pos.stop > 0 /\ ~pos.runner => trk.maxR >= 1)
        /\ held => exStop <= pos.stop
    BY <1>2 DEF IInv, StopsAgree, Earned
  <2>5. HalfR(pos, price) = price
    BY <1>2, <2>4 DEF HalfR
  <2>6. /\ pos'.risk = 2 /\ pos'.runner = pos.runner
        /\ trk'.maxR >= trk.maxR /\ trk'.maxR >= price
    BY <1>1, <2>4, <2>5 DEF Evaluated
  <2>7. CASE pos'.stop = pos.stop /\ ~Decided({"TRAIL_UPDATE"})'
    BY <1>3, <2>1, <2>3, <2>4, <2>6, <2>7 DEF StopsAgree, Earned
  <2>8. ASSUME NEW kind, NEW reason, todo' = <<Act(kind, reason)>>, kind # "TRAIL_UPDATE"
        PROVE  ~Decided({"TRAIL_UPDATE"})'
    BY <2>8 DEF Decided, Act
  <2>9. ASSUME NEW x, todo' = <<Trail(x)>>
        PROVE  Head(todo').stop = x
    BY <2>9 DEF Trail
  <2>10. CASE todo' = << >> /\ Keeps(s, u)
    <3>1. ~Decided({"TRAIL_UPDATE"})'
      BY <2>10 DEF Decided, Idle
    <3> QED
      BY <1>5, <2>7, <2>10, <3>1 DEF Keeps, KeepsBut
  <2>11. CASE Moves(s, u) /\ (~pos.runner => pos'.stop < price)
    <3>1. /\ pos'.stop > pos.stop /\ todo' = <<Trail(pos'.stop)>>
      BY <1>5, <2>11 DEF Moves
    <3>2. Head(todo').stop = pos'.stop
      BY <2>9, <3>1
    <3>3. pos'.stop > 0 /\ ~pos'.runner => trk'.maxR >= 1
      BY <1>2, <2>3, <2>6, <2>11
    <3>4. held' => exStop' <= pos'.stop
      BY <1>3, <2>3, <2>4, <3>1
    <3> QED
      BY <2>1, <2>3, <2>6, <3>1, <3>2, <3>3, <3>4 DEF StopsAgree, Earned
  <2>12. CASE /\ todo' = <<Trail(-((-pos.stop) \div 2))>>
              /\ trk'.maxR < 1 /\ ~pos.runner /\ Keeps(s, u)
    <3>1. pos'.stop = pos.stop
      BY <1>5, <2>12 DEF Keeps, KeepsBut
    <3>2. pos.stop <= 0
      BY <2>3, <2>4, <2>6, <2>12
    <3>3. Head(todo').stop = -((-pos.stop) \div 2)
      BY <2>9, <2>12
    <3>4. -((-pos.stop) \div 2) >= pos.stop /\ ~(-((-pos.stop) \div 2) > 0)
      BY <2>3, <3>2
    <3> QED
      BY <1>3, <2>1, <2>3, <2>4, <2>6, <3>1, <3>2, <3>3, <3>4 DEF StopsAgree, Earned
  <2>13. CASE Decides(s, u)
    <3>1. CASE \E kind \in {"EXIT", "PARTIAL_TP", "REDUCE"}, r \in Reasons :
                 todo' = <<Act(kind, r)>> /\ pos'.stop = pos.stop
      BY <2>7, <2>8, <3>1
    <3>2. "PARTIAL_TAKE_PROFIT" \in Reasons /\ "STAGNATION" \in Reasons
          /\ "SCENARIO_INVALID" \in Reasons /\ "SCOUT_DEFENSIVE" \in Reasons
          /\ "SCOUT_CATASTROPHIC" \in Reasons
      BY DEF Reasons, Reductions
    <3> QED
      BY <1>5, <2>12, <2>13, <3>1, <3>2 DEF Decides, KeepsBut
  <2> QED
    BY <1>6, <2>10, <2>11, <2>13
<1>15. StopForward /\ ExchangeForward
  BY <1>3, <1>14 DEF StopForward, ExchangeForward, IInv, Typed
<1> QED
  BY <1>9, <1>10, <1>11, <1>12, <1>13, <1>14, <1>15 DEF IInv

-----------------------------------------------------------------------------
(* The steps of a cycle, and of the world.                                 *)

LEMMA DoneTodo ==
  ASSUME todo' = << >>
  PROVE  /\ Idle' /\ SingleAction' /\ (\A r : Due(r)' = 0)
         /\ \A kinds : ~Decided(kinds)'
  BY DEF Idle, SingleAction, Due, Decided

LEMMA SameTodo ==
  ASSUME todo' = todo, Open' = Open
  PROVE  /\ Idle' = Idle /\ SingleAction' = SingleAction /\ (\A r : Due(r)' = Due(r))
         /\ \A kinds : Decided(kinds)' = Decided(kinds)
  BY DEF Idle, SingleAction, Due, Decided

LEMMA DueTyped ==
  \A r : Due(r) \in 0..1
  BY DEF Due

\* The books are kept as long as no cut is made that was not due.
LEMMA BooksKept ==
  ASSUME IInv, hist'.restarted = hist.restarted,
         hist'.cuts \in [Reductions -> Nat],
         \A r \in Reductions : Due(r)' \in 0..1 /\ hist'.cuts[r] + Due(r)' <= hist.cuts[r] + Due(r),
         pos'.partial = pos.partial, pos'.red = pos.red,
         trk'.stag = trk.stag, trk'.reduced = trk.reduced
  PROVE  CutsBooked'
<1>1. \A r \in Reductions : hist.cuts[r] \in Nat /\ hist'.cuts[r] \in Nat /\ Due(r) \in 0..1
  BY DueTyped DEF IInv, Typed, History
<1>2. pos.red \in Int
  BY BoundsAreNat DEF IInv, Typed, Position
<1>3. SUFFICES ASSUME ~hist.restarted
               PROVE  CutsBooked'
  BY DEF CutsBooked
<1>4. /\ hist.cuts["PARTIAL_TAKE_PROFIT"] + Due("PARTIAL_TAKE_PROFIT")
            <= IF pos.partial THEN 1 ELSE 0
      /\ hist.cuts["STAGNATION"] + Due("STAGNATION") <= IF trk.stag THEN 1 ELSE 0
      /\ hist.cuts["SCENARIO_INVALID"] + Due("SCENARIO_INVALID")
           <= IF trk.reduced THEN 1 ELSE 0
      /\ hist.cuts["SCOUT_DEFENSIVE"] + hist.cuts["SCOUT_CATASTROPHIC"]
           + Due("SCOUT_DEFENSIVE") + Due("SCOUT_CATASTROPHIC") <= pos.red
  BY <1>3 DEF IInv, CutsBooked
<1>5. /\ "PARTIAL_TAKE_PROFIT" \in Reductions /\ "STAGNATION" \in Reductions
      /\ "SCENARIO_INVALID" \in Reductions /\ "SCOUT_DEFENSIVE" \in Reductions
      /\ "SCOUT_CATASTROPHIC" \in Reductions
  BY DEF Reductions
<1> DEFINE due(r) == Due(r)'
<1>6. \A r \in Reductions : due(r) \in 0..1 /\ hist'.cuts[r] + due(r) <= hist.cuts[r] + Due(r)
  OBVIOUS
<1>7. /\ hist'.cuts["PARTIAL_TAKE_PROFIT"] + due("PARTIAL_TAKE_PROFIT")
            <= IF pos'.partial THEN 1 ELSE 0
      /\ hist'.cuts["STAGNATION"] + due("STAGNATION") <= IF trk'.stag THEN 1 ELSE 0
      /\ hist'.cuts["SCENARIO_INVALID"] + due("SCENARIO_INVALID")
           <= IF trk'.reduced THEN 1 ELSE 0
      /\ hist'.cuts["SCOUT_DEFENSIVE"] + hist'.cuts["SCOUT_CATASTROPHIC"]
           + due("SCOUT_DEFENSIVE") + due("SCOUT_CATASTROPHIC") <= pos'.red
  <2> HIDE DEF due
  <2> QED
    BY <1>1, <1>2, <1>4, <1>5, <1>6
<1> QED
  BY <1>7 DEF CutsBooked

\* A step that leaves the record and the track alone, and drops or keeps what the cycle
\* has to do; a cut that was due may be made with it.
Quiet ==
  /\ pos' = pos \/ pos' = [pos EXCEPT !.old = TRUE]
  /\ trk' = trk /\ candle' = candle /\ input'.price \in Int
  /\ todo' = todo \/ todo' = << >>
  /\ \/ held' = held /\ exStop' = exStop
     \/ held' = FALSE /\ exStop' \in Int
  /\ row' = row \/ (row' = Row(pos) /\ pos.status # "CLOSING")
  /\ hist' \in History
  /\ announcing' \in BOOLEAN
  /\ \/ hist'.cuts = hist.cuts
     \/ /\ Open /\ todo' = << >>
        /\ \A r \in Reductions : hist'.cuts[r] <= hist.cuts[r] + Due(r)
  /\ hist'.restarted = hist.restarted
  /\ hist.failed \/ hist.dropped => hist'.failed \/ hist'.dropped
  /\ todo' = todo \/ pos.status # "CLOSING" \/ hist'.failed \/ hist'.dropped

LEMMA QuietStep ==
  ASSUME IInv, Quiet
  PROVE  IInv' /\ StopForward /\ ExchangeForward
<1>a. /\ pos' = pos \/ pos' = [pos EXCEPT !.old = TRUE]
      /\ trk' = trk /\ candle' = candle /\ input'.price \in Int
      /\ todo' = todo \/ todo' = << >>
      /\ row' = row \/ (row' = Row(pos) /\ pos.status # "CLOSING")
      /\ hist' \in History
      /\ announcing' \in BOOLEAN
      /\ \/ hist'.cuts = hist.cuts
         \/ /\ Open /\ todo' = << >>
            /\ \A r \in Reductions : hist'.cuts[r] <= hist.cuts[r] + Due(r)
      /\ hist'.restarted = hist.restarted
      /\ hist.failed \/ hist.dropped => hist'.failed \/ hist'.dropped
      /\ todo' = todo \/ pos.status # "CLOSING" \/ hist'.failed \/ hist'.dropped
  BY DEF Quiet
<1>b. /\ held' \in BOOLEAN /\ exStop' \in Int
      /\ held' => held /\ exStop' = exStop
  <2>1. held \in BOOLEAN /\ exStop \in Int
    BY DEF IInv, Typed
  <2>2. CASE held' = held /\ exStop' = exStop
    BY <2>1, <2>2
  <2>3. CASE held' = FALSE /\ exStop' \in Int
    <3>1. held' \in BOOLEAN /\ ~held'
      BY <2>3
    <3> QED
      BY <2>3, <3>1
  <2> QED
    BY <2>2, <2>3 DEF Quiet
<1>1. /\ pos \in Position /\ trk \in Track /\ candle \in ClosedCandle /\ SingleAction
      /\ exStop \in Int /\ held \in BOOLEAN
      /\ row \in [status : {"ACTIVE", "CLOSED"}, stop : Int, mode : Modes]
      /\ hist.cuts \in [Reductions -> Nat]
  BY DEF IInv, Typed, History
<1>2. /\ pos' \in Position /\ pos'.status = pos.status /\ pos'.mode = pos.mode
      /\ pos'.stop = pos.stop /\ pos'.risk = pos.risk /\ pos'.partial = pos.partial
      /\ pos'.trailing = pos.trailing /\ pos'.runner = pos.runner /\ pos'.red = pos.red
      /\ pos'.scout = pos.scout /\ pos.stop \in Int
  BY <1>a, <1>b, <1>1, TRUE \in BOOLEAN DEF Position
<1>3. /\ row' \in [status : {"ACTIVE", "CLOSED"}, stop : Int, mode : Modes]
      /\ Open' => row'.status = "ACTIVE"
  <2>1. CASE row' = row
    BY <1>a, <1>b, <1>1, <1>2, <2>1 DEF IInv, Tracked, Open
  <2>2. CASE row' = Row(pos) /\ pos.status # "CLOSING"
    BY <1>a, <1>b, <1>1, <1>2, <2>2 DEF Row, Position, Statuses, Open
  <2> QED
    BY <1>a, <1>b, <2>1, <2>2
<1>4. /\ SingleAction' /\ (Idle => Idle') /\ (\A kinds : Decided(kinds)' => Decided(kinds))
      /\ (\A r : Due(r)' \in 0..1 /\ Due(r)' <= Due(r))
      /\ ~Idle' => todo' = todo
  <2>1. \A r : Due(r) \in 0..1
    BY DueTyped
  <2>2. CASE todo' = todo
    <3>1. Open' = Open
      BY <1>2 DEF Open
    <3> QED
      BY <1>a, <1>b, <1>1, <2>1, <2>2, <3>1, SameTodo
  <2>3. CASE todo' = << >>
    BY <1>a, <1>b, <2>1, <2>3, DoneTodo
  <2> QED
    BY <1>a, <1>b, <2>2, <2>3
<1>5. Typed'
  BY <1>a, <1>b, <1>1, <1>2, <1>3, <1>4 DEF Typed
<1>6. ClosingAwaits'
  <2>1. CASE todo' = todo
    <3>1. Open' = Open
      BY <1>2 DEF Open
    <3> QED
      BY <1>a, <1>b, <1>2, <2>1, <3>1, SameTodo DEF IInv, ClosingAwaits
  <2>2. CASE todo' = << >>
    <3>1. todo' = todo => todo = << >>
      BY <1>a, <1>b, <2>2
    <3> QED
      BY <1>a, <1>b, <1>2, <2>1, <2>2, DoneTodo DEF ClosingAwaits
  <2> QED
    BY <1>a, <1>b, <2>1, <2>2
<1>7. EndedIsClean'
  BY <1>a, <1>b, <1>2, <1>4 DEF IInv, EndedIsClean, Open
<1>8. ReasonKnown'
  <2>1. CASE Idle'
    BY <1>a, <1>b, <2>1 DEF ReasonKnown, Decided
  <2>2. CASE todo' = todo
    BY <1>a, <1>b, <2>2 DEF IInv, ReasonKnown, Decided, Idle
  <2> QED
    BY <1>a, <1>b, <1>4, <2>1, <2>2
<1>9. CutsBooked'
  <2>1. \A r \in Reductions : Due(r)' \in 0..1
          /\ hist'.cuts[r] + Due(r)' <= hist.cuts[r] + Due(r)
    <3>1. \A r \in Reductions : hist.cuts[r] \in Nat /\ hist'.cuts[r] \in Nat /\ Due(r) \in 0..1
      BY <1>a, <1>1, DueTyped DEF History
    <3>2. CASE hist'.cuts = hist.cuts
      BY <1>4, <3>1, <3>2
    <3>3. CASE /\ todo' = << >>
               /\ \A r \in Reductions : hist'.cuts[r] <= hist.cuts[r] + Due(r)
      <4>1. \A r : Due(r)' = 0
        BY <3>3, DoneTodo
      <4> QED
        BY <3>1, <3>3, <4>1
    <3> QED
      BY <1>a, <3>2, <3>3
  <2>2. hist'.cuts \in [Reductions -> Nat]
    BY <1>a DEF History
  <2> QED
    BY <1>a, <1>2, <2>1, <2>2, BooksKept
<1>10. Tracked'
  BY <1>a, <1>b, <1>2, <1>3 DEF IInv, Tracked
<1>11. StopsAgree'
  <2>1. Decided({"TRAIL_UPDATE"})' => Decided({"TRAIL_UPDATE"}) /\ todo' = todo
    BY <1>a, <1>b, <1>4 DEF Decided, Idle
  <2> QED
    BY <1>a, <1>b, <1>2, <1>4, <2>1 DEF IInv, StopsAgree, Earned, Open, Idle
<1>12. StopForward /\ ExchangeForward
  BY <1>a, <1>b, <1>1, <1>2 DEF StopForward, ExchangeForward
<1> QED
  BY <1>a, <1>b, <1>5, <1>6, <1>7, <1>8, <1>9, <1>10, <1>11, <1>12 DEF IInv

\* A step that ends the position.
LEMMA EndsStep ==
  ASSUME IInv, Ends, trk' = trk, candle' = candle, input'.price \in Int,
         todo' \in {todo, << >>}, announcing' \in BOOLEAN,
         held' \in BOOLEAN, exStop' \in Int, held' => Idle' /\ exStop' = exStop
  PROVE  IInv' /\ StopForward /\ ExchangeForward
<1>1. /\ trk \in Track /\ candle \in ClosedCandle /\ SingleAction
  BY DEF IInv, Typed
<1>2. /\ pos' \in Position /\ pos'.status = "CLOSED" /\ pos'.scout = "NONE"
      /\ ~pos'.trailing /\ ~pos'.partial /\ pos'.red = 0 /\ pos'.mode \in Modes
      /\ pos'.stop \in Int /\ ~Open'
  BY EndedTyped DEF Ends, Open, Position
<1>3. /\ row' \in [status : {"ACTIVE", "CLOSED"}, stop : Int, mode : Modes]
  <2>1. row \in [status : {"ACTIVE", "CLOSED"}, stop : Int, mode : Modes]
    BY DEF IInv, Typed
  <2> QED
    BY <1>2, <2>1 DEF Ends, Logs, Row
<1>4. /\ hist' \in History
      /\ ~hist'.restarted /\ \A r \in Reductions : hist'.cuts[r] = 0
  BY DEF Ends, NoHistory, History
<1>5. SingleAction' /\ ReasonKnown'
  BY <1>1 DEF SingleAction, ReasonKnown, Decided, Idle, IInv
<1>6. Typed'
  BY <1>1, <1>2, <1>3, <1>4, <1>5 DEF Typed
<1>7. \A r : Due(r)' = 0
  BY <1>2 DEF Due
<1>8. CutsBooked'
  BY <1>2, <1>4, <1>7 DEF CutsBooked, Reductions
<1>9. ClosingAwaits' /\ EndedIsClean' /\ Tracked' /\ StopsAgree'
  BY <1>2, <1>4 DEF ClosingAwaits, EndedIsClean, Tracked, StopsAgree
<1>10. StopForward /\ ExchangeForward
  <2>1. exStop \in Int
    BY DEF IInv, Typed
  <2> QED
    BY <1>2, <2>1 DEF StopForward, ExchangeForward
<1> QED
  BY <1>5, <1>6, <1>8, <1>9, <1>10 DEF IInv

LEMMA EnterStep ==
  ASSUME IInv, NEW mode \in EntryModes, Enter(mode)
  PROVE  IInv' /\ StopForward /\ ExchangeForward
<1> DEFINE p == NewPosition(mode)
<1>1. /\ trk \in Track /\ candle \in ClosedCandle /\ input.price \in Int
      /\ hist \in History
      /\ ~hist.restarted /\ (\A r \in Reductions : hist.cuts[r] = 0) /\ Idle /\ ~Open
      /\ todo' = << >> /\ hist' = hist /\ candle' = candle /\ input' = input
      /\ announcing' \in BOOLEAN
  BY DEF IInv, Typed, EndedIsClean, Enter, Idle
<1>2. pos' = p /\ mode \in Modes
  BY ManagedAssumption DEF Enter
<1>3. /\ p \in Position /\ p.status = "ACTIVE"
      /\ p.stop = -2 /\ p.risk = 2 /\ p.mode = mode /\ ~p.trailing
      /\ ~p.runner /\ ~p.partial /\ p.red = 0 /\ (p.scout # "NONE" => mode = "SCOUT")
  BY <1>2, NewPositionTyped
<1> HIDE DEF p
<1>4. trk' \in Track
  <2>1. NoCount \in Counts(2) /\ FALSE \in BOOLEAN
    BY DEF NoCount, Counts
  <2> QED
    BY <1>1, <2>1 DEF Enter, ForNewPosition, Track
<1>5. exStop' = -2 /\ held' = TRUE /\ row' = Row(p)
  BY <1>2, <1>3 DEF Enter
<1>6. row' \in [status : {"ACTIVE", "CLOSED"}, stop : Int, mode : Modes]
      /\ row'.status = "ACTIVE"
  BY <1>2, <1>3, <1>5 DEF Row
<1>7. Typed'
  <2>1. held' \in BOOLEAN /\ exStop' \in Int
    BY <1>5
  <2> QED
    BY <1>1, <1>2, <1>3, <1>4, <1>6, <2>1, DoneTodo DEF Typed
<1>8. CutsBooked'
  BY <1>1, <1>2, <1>3, DoneTodo DEF CutsBooked, Reductions
<1>9. Open' /\ pos'.stop = -2 /\ pos'.risk = 2
  BY <1>2, <1>3 DEF Open
<1>10. ClosingAwaits' /\ EndedIsClean' /\ ReasonKnown' /\ Tracked' /\ StopsAgree'
  BY <1>1, <1>2, <1>3, <1>5, <1>6, <1>9, DoneTodo
     DEF ClosingAwaits, EndedIsClean, ReasonKnown, Tracked, StopsAgree, Earned
<1>11. StopForward /\ ExchangeForward
  BY <1>1 DEF StopForward, ExchangeForward, Enter
<1> QED
  BY <1>7, <1>8, <1>10, <1>11 DEF IInv

LEMMA RestartStep ==
  ASSUME IInv, Restart
  PROVE  IInv' /\ StopForward /\ ExchangeForward
<1> DEFINE p == NewPosition(row.mode)
           risk == IF row.stop < 0 THEN -row.stop ELSE row.stop
           q == [p EXCEPT !.status = row.status, !.stop = row.stop, !.risk = risk,
                          !.old = pos.old, !.scout = "NONE"]
<1>1. /\ row.stop \in Int /\ row.mode \in Modes /\ row.status = "ACTIVE"
      /\ row \in [status : {"ACTIVE", "CLOSED"}, stop : Int, mode : Modes]
      /\ pos.old \in BOOLEAN /\ exStop \in Int /\ held \in BOOLEAN
      /\ candle \in ClosedCandle
      /\ hist \in History
  BY DEF IInv, Typed, Tracked, Restart, Position
<1>2. p \in Position /\ ~p.trailing /\ p.mode = row.mode
  BY <1>1, NewPositionTyped
<1>3. risk \in Int
  BY <1>1
<1>4. pos' = q
  BY DEF Restart, Restored
<1> HIDE DEF p, risk
<1>5. q \in Position /\ q.status = "ACTIVE" /\ ~q.trailing /\ q.scout = "NONE"
  BY <1>1, <1>2, <1>3 DEF Position, Statuses, ScoutStates
<1> HIDE DEF q
<1>6. /\ hist' \in History
  <2>1. hist' = [hist EXCEPT !.restarted = TRUE] /\ TRUE \in BOOLEAN
    BY DEF Restart
  <2> QED
    BY <1>1, <2>1 DEF History
<1>7. hist'.restarted
  BY <1>1 DEF Restart, History
<1>8. Typed'
  <2>1. trk' \in Track /\ input'.price \in Int /\ todo' = << >>
    BY NoTrackTyped DEF Restart, Goes, NoInput
  <2>2. /\ candle' = candle /\ exStop' = exStop /\ held' = held /\ row' = row
        /\ announcing' = FALSE
    BY DEF Restart, Goes
  <2> QED
    BY <1>1, <1>4, <1>5, <1>6, <2>1, <2>2, DoneTodo DEF Typed
<1>9. Idle' /\ \A kinds : ~Decided(kinds)'
  BY DoneTodo DEF Restart, Goes
<1>10. Open' /\ row'.status = "ACTIVE"
  BY <1>1, <1>4, <1>5 DEF Open, Restart
<1>11. ClosingAwaits' /\ EndedIsClean' /\ ReasonKnown' /\ Tracked' /\ StopsAgree'
       /\ CutsBooked'
  BY <1>4, <1>5, <1>7, <1>9, <1>10
     DEF ClosingAwaits, EndedIsClean, ReasonKnown, Tracked, StopsAgree, CutsBooked
<1>12. StopForward /\ ExchangeForward
  BY <1>7 DEF StopForward, ExchangeForward
<1> QED
  BY <1>8, <1>11, <1>12 DEF IInv

\* A trailing update, taken by the exchange or not.
LEMMA SyncStep ==
  ASSUME IInv, Decided(Trails), pos' = Stopped, todo' \in {Logged, << >>},
         announcing' \in BOOLEAN, input'.price \in Int, UNCHANGED <<trk, candle, held, row, hist>>,
         exStop' = exStop \/ (held /\ exStop' = pos'.stop)
  PROVE  IInv' /\ StopForward /\ ExchangeForward
<1> DEFINE a == Head(todo)
           stop == IF Open /\ a.kind = "TRAIL_UPDATE" THEN a.stop ELSE pos.stop
<1>1. /\ pos \in Position /\ trk \in Track /\ candle \in ClosedCandle /\ SingleAction
      /\ exStop \in Int /\ held \in BOOLEAN
      /\ row \in [status : {"ACTIVE", "CLOSED"}, stop : Int, mode : Modes]
      /\ hist \in History
  BY DEF IInv, Typed
<1>2. a \in Action /\ a.kind \in Trails /\ Tail(todo) = << >> /\ ~Idle
  BY <1>1, DecidesOne
<1>3. stop \in Int
  BY <1>1, <1>2 DEF Action, Position
<1>4. pos' = [pos EXCEPT !.stop = stop]
  BY DEF Stopped
<1> HIDE DEF stop
<1>5. /\ pos' \in Position /\ pos'.stop = stop /\ pos'.status = pos.status
      /\ pos'.mode = pos.mode /\ pos'.risk = pos.risk /\ pos'.partial = pos.partial
      /\ pos'.trailing = pos.trailing /\ pos'.runner = pos.runner /\ pos'.red = pos.red
      /\ pos'.scout = pos.scout
  <2>1. pos' \in Position
    BY <1>1, <1>3, <1>4 DEF Position
  <2>2. /\ pos'.stop = stop /\ pos'.status = pos.status /\ pos'.mode = pos.mode
        /\ pos'.risk = pos.risk /\ pos'.partial = pos.partial
    BY <1>1, <1>4 DEF Position
  <2>3. /\ pos'.trailing = pos.trailing /\ pos'.runner = pos.runner
        /\ pos'.red = pos.red /\ pos'.scout = pos.scout
    BY <1>1, <1>4 DEF Position
  <2> QED
    BY <2>1, <2>2, <2>3
\* What is left is a line of the log, or nothing.
<1>6. todo' = << >> \/ todo' = <<Act("LOG", "NONE")>>
  <2>1. \A x \in Action : <<x>> \o << >> = <<x>>
    OBVIOUS
  <2>2. Act("LOG", "NONE") \in Action
    BY ActTyped DEF ActKinds, Reasons
  <2> QED
    BY <1>2, <2>1, <2>2 DEF Logged
<1>7. /\ SingleAction' /\ ~Decided(Closings)' /\ ~Decided(Trails)'
      /\ ~Decided({"PARTIAL_TP", "REDUCE"})' /\ ~Decided({"PARTIAL_TP"})'
      /\ ~Decided({"REDUCE"})' /\ ~Decided({"TRAIL_UPDATE"})'
  <2>1. CASE todo' = << >>
    BY <2>1, DoneTodo
  <2>2. CASE todo' = <<Act("LOG", "NONE")>>
    <3>1. Act("LOG", "NONE") \in Action
      BY ActTyped DEF ActKinds, Reasons
    <3>2. Act("LOG", "NONE").kind = "LOG"
      BY DEF Act
    <3> QED
      BY <2>2, <3>1, <3>2 DEF SingleAction, Decided, Closings, Trails, Idle
  <2> QED
    BY <1>6, <2>1, <2>2
<1>8. pos.status # "CLOSING"
  BY <1>2 DEF IInv, ClosingAwaits, Decided, Trails
<1>9. /\ Open' = Open /\ hist' = hist /\ held' = held /\ trk' = trk /\ row' = row
      /\ candle' = candle
  BY <1>5 DEF Open
<1>10. Typed'
  <2>1. exStop' \in Int
    BY <1>1, <1>3, <1>5
  <2> QED
    BY <1>1, <1>5, <1>7, <1>9, <2>1 DEF Typed
<1>11. CutsBooked'
  <2>1. \A r \in Reductions : Due(r)' \in 0..1
          /\ hist'.cuts[r] + Due(r)' <= hist.cuts[r] + Due(r)
    <3>1. \A r : Due(r)' = 0
      BY <1>7 DEF Due
    <3>2. \A r \in Reductions : hist.cuts[r] \in Nat /\ Due(r) \in 0..1
      BY <1>1, DueTyped DEF History
    <3> QED
      BY <1>9, <3>1, <3>2
  <2>2. hist'.cuts \in [Reductions -> Nat]
    BY <1>1, <1>9 DEF History
  <2> QED
    BY <1>5, <1>9, <2>1, <2>2, BooksKept
<1>12. ClosingAwaits' /\ EndedIsClean' /\ ReasonKnown' /\ Tracked'
  BY <1>5, <1>7, <1>8, <1>9
     DEF IInv, ClosingAwaits, EndedIsClean, ReasonKnown, Tracked
<1>13. Open /\ ~hist.restarted =>
         /\ stop >= pos.stop /\ (stop > 0 /\ ~pos.runner => trk.maxR >= 1)
         /\ held => exStop <= stop /\ exStop <= pos.stop
  <2>1. a.kind = "TRAIL_UPDATE" => Decided({"TRAIL_UPDATE"})
    BY <1>2 DEF Decided
  <2>2. pos.stop \in Int /\ a.stop \in Int /\ trk.maxR \in Int
    BY <1>1, <1>2 DEF Position, Action, Track
  <2> QED
    BY <1>1, <2>1, <2>2 DEF IInv, StopsAgree, Earned, stop
<1>14. held => Open
  BY <1>2 DEF IInv, StopsAgree
<1>15. StopsAgree'
  <2>1. Open => pos.risk = 2 \/ hist.restarted
    BY DEF IInv, StopsAgree
  <2> QED
    BY <1>1, <1>3, <1>5, <1>7, <1>9, <1>13, <1>14, <2>1 DEF StopsAgree, Earned
<1>16. StopForward /\ ExchangeForward
  BY <1>1, <1>3, <1>5, <1>9, <1>13, <1>14 DEF StopForward, ExchangeForward
<1> QED
  BY <1>10, <1>11, <1>12, <1>15, <1>16 DEF IInv

LEMMA CutCapIsNat == CutCap \in Nat
<1>1. 2 \in Int /\ MaxDefensive + 1 \in Int /\ MaxDefensive \in Nat
  BY BoundsAreNat
<1> QED
  BY <1>1, MaxOfTwo DEF CutCap

\* A reduction that is executed is the one that was due.
LEMMA CutMade ==
  ASSUME IInv, Decided({"PARTIAL_TP", "REDUCE"}), Open,
         hist' = Counting
  PROVE  /\ hist' \in History
         /\ hist'.restarted = hist.restarted /\ hist'.failed = hist.failed
         /\ hist'.dropped = hist.dropped
         /\ \A r \in Reductions : hist'.cuts[r] <= hist.cuts[r] + Due(r)
<1> DEFINE a == Head(todo)
           n == Capped(hist.cuts[a.reason] + 1, CutCap)
<1>1. hist \in History /\ a.reason \in Reductions
  BY DEF IInv, Typed, ReasonKnown
<1>2. hist.cuts[a.reason] \in Nat /\ hist.cuts \in [Reductions -> Nat]
  BY <1>1 DEF History
<1>3. n \in Nat /\ n <= hist.cuts[a.reason] + 1
  BY <1>2, CutCapIsNat DEF Capped
<1>4. hist' = [hist EXCEPT !.cuts[a.reason] = n]
  BY DEF Counting
<1> HIDE DEF n
<1>5. /\ hist'.cuts = [hist.cuts EXCEPT ![a.reason] = n]
      /\ hist'.restarted = hist.restarted /\ hist'.failed = hist.failed
      /\ hist'.dropped = hist.dropped
  BY <1>1, <1>4 DEF History
<1>6. [hist.cuts EXCEPT ![a.reason] = n] \in [Reductions -> Nat]
  BY <1>2, <1>3
<1>7. hist' \in History
  BY <1>1, <1>4, <1>6 DEF History
<1>8. \A r \in Reductions : hist'.cuts[r] <= hist.cuts[r] + Due(r)
  <2> SUFFICES ASSUME NEW r \in Reductions
               PROVE  hist'.cuts[r] <= hist.cuts[r] + Due(r)
    OBVIOUS
  <2>1. CASE r = a.reason
    <3>1. Due(r) = 1
      BY <2>1 DEF Due
    <3>2. hist'.cuts[r] = n
      BY <1>2, <1>5, <2>1
    <3> QED
      BY <1>3, <2>1, <3>1, <3>2
  <2>2. CASE r # a.reason
    <3>1. hist'.cuts[r] = hist.cuts[r] /\ hist.cuts[r] \in Nat
      BY <1>2, <1>5, <2>2
    <3> QED
      BY <3>1, DueTyped
  <2> QED
    BY <2>1, <2>2
<1> QED
  BY <1>5, <1>7, <1>8

LEMMA ReductionStep ==
  ASSUME IInv, NEW allowed \in BOOLEAN, ReductionFills(allowed)
  PROVE  IInv' /\ StopForward /\ ExchangeForward
<1> DEFINE a == Head(todo)
           on == Activated([p |-> pos, t |-> trk, acts |-> << >>, done |-> FALSE],
                           input.price, candle, input.snap, allowed)
<1>1. /\ pos \in Position /\ trk \in Track /\ candle \in ClosedCandle /\ SingleAction
      /\ exStop \in Int /\ held \in BOOLEAN /\ input.price \in Int
      /\ hist \in History
  BY DEF IInv, Typed
<1>2. /\ a \in Action /\ a.kind \in {"PARTIAL_TP", "REDUCE"} /\ Tail(todo) = << >> /\ ~Idle
      /\ Decided({"PARTIAL_TP", "REDUCE"}) /\ a.reason \in Reductions /\ held /\ Open
  BY <1>1, DecidesOne, AwaitsDecided DEF ReductionFills, IInv, ReasonKnown
<1>3. pos.status = "ACTIVE"
  BY <1>1, <1>2 DEF IInv, ClosingAwaits, Decided, Open, Position, Statuses
<1>4. /\ pos' \in Position /\ trk' \in Track /\ pos'.status = pos.status
      /\ pos'.partial = pos.partial /\ pos'.red = pos.red /\ pos'.mode = pos.mode
      /\ pos'.risk = pos.risk /\ pos'.trailing = pos.trailing
      /\ (pos'.scout # "NONE" => pos.scout # "NONE")
      /\ trk'.maxR = trk.maxR /\ trk'.stag = trk.stag /\ trk'.reduced = trk.reduced
      /\ pos'.stop >= pos.stop /\ (pos.runner => pos'.runner)
      /\ pos'.stop = pos.stop \/ pos'.runner
      /\ todo' = << >> \/ \E x \in Int : todo' = <<[Trail(x) EXCEPT !.kind = "RUNNER_TRAIL"]>>
  <2>1. CASE a.kind = "REDUCE"
    <3>1. pos' = pos /\ trk' = trk /\ todo' = << >>
      BY <1>2, <2>1 DEF ReductionFills, Goes
    <3> QED
      BY <1>1, <3>1 DEF Position
  <2>2. CASE a.kind # "REDUCE"
    <3>1. /\ pos' = on.p /\ trk' = on.t
          /\ todo' = [i \in 1..Len(on.acts) |-> [on.acts[i] EXCEPT !.kind = "RUNNER_TRAIL"]]
      BY <2>2 DEF ReductionFills, Goes
    <3>2. /\ on \in Step
          /\ on.acts = << >> \/ \E x \in Int : on.acts = <<Trail(x)>>
          /\ on.p.status = pos.status /\ on.p.partial = pos.partial /\ on.p.red = pos.red
          /\ on.p.mode = pos.mode /\ on.p.risk = pos.risk /\ on.p.trailing = pos.trailing
          /\ on.p.scout # "NONE" => pos.scout # "NONE"
          /\ on.t.maxR = trk.maxR /\ on.t.stag = trk.stag /\ on.t.reduced = trk.reduced
          /\ on.p.stop >= pos.stop /\ (pos.runner => on.p.runner)
          /\ on.p.stop = pos.stop \/ on.p.runner
      BY <1>1, ActivatedMoves
    <3> HIDE DEF on
    <3>3. todo' = << >> \/ \E x \in Int : todo' = <<[Trail(x) EXCEPT !.kind = "RUNNER_TRAIL"]>>
      <4>1. CASE on.acts = << >>
        <5>1. todo' = << >>
          BY <3>1, <4>1
        <5> QED
          BY <5>1
      <4>2. CASE \E x \in Int : on.acts = <<Trail(x)>>
        <5>1. PICK x \in Int : on.acts = <<Trail(x)>>
          BY <4>2
        <5>2. Len(on.acts) = 1 /\ on.acts[1] = Trail(x)
          BY <5>1
        <5>3. todo' = [i \in 1..1 |-> [Trail(x) EXCEPT !.kind = "RUNNER_TRAIL"]]
          BY <3>1, <5>2
        <5>4. todo' = <<[Trail(x) EXCEPT !.kind = "RUNNER_TRAIL"]>>
          BY <5>3
        <5> QED
          BY <5>4
      <4> QED
        BY <3>2, <4>1, <4>2
    <3> QED
      BY <3>1, <3>2, <3>3 DEF Step
  <2> QED
    BY <2>1, <2>2
<1> HIDE DEF on
<1>5. /\ SingleAction' /\ ~Decided(Closings)'
      /\ ~Decided({"PARTIAL_TP", "REDUCE"})' /\ ~Decided({"PARTIAL_TP"})'
      /\ ~Decided({"REDUCE"})' /\ ~Decided({"TRAIL_UPDATE"})'
  <2>1. CASE todo' = << >>
    BY <2>1, DoneTodo
  <2>2. CASE \E x \in Int : todo' = <<[Trail(x) EXCEPT !.kind = "RUNNER_TRAIL"]>>
    <3>1. PICK x \in Int : todo' = <<[Trail(x) EXCEPT !.kind = "RUNNER_TRAIL"]>>
      BY <2>2
    <3> DEFINE b == [Trail(x) EXCEPT !.kind = "RUNNER_TRAIL"]
    <3>2. b \in Action /\ b.kind = "RUNNER_TRAIL"
      BY DEF Trail, Action, ActKinds, Reasons
    <3>3. todo' = <<b>>
      BY <3>1
    <3> HIDE DEF b
    <3> QED
      BY <3>2, <3>3 DEF SingleAction, Decided, Closings, Idle
  <2> QED
    BY <1>4, <2>1, <2>2
\* The cut that was due is made.
<1>6. /\ hist' \in History
      /\ hist'.restarted = hist.restarted /\ hist'.failed = hist.failed
      /\ \A r \in Reductions : hist'.cuts[r] <= hist.cuts[r] + Due(r)
  <2>1. hist' = Counting
    BY DEF ReductionFills
  <2> QED
    BY <1>2, <2>1, CutMade
<1>7. /\ candle' = candle /\ exStop' = exStop /\ held' = held /\ row' = Row(pos)
      /\ input'.price \in Int /\ announcing' \in BOOLEAN
  <2>1. NoInput.price \in Int
    BY DEF NoInput
  <2>2. /\ candle' = candle /\ exStop' = exStop /\ held' = held /\ row' = Row(pos)
        /\ input' = NoInput /\ announcing' = FALSE
    BY DEF ReductionFills, Goes
  <2>3. announcing' \in BOOLEAN
    BY <2>2
  <2> QED
    BY <2>1, <2>2, <2>3
<1>8. /\ row' \in [status : {"ACTIVE", "CLOSED"}, stop : Int, mode : Modes]
      /\ row'.status = "ACTIVE" /\ Open'
  BY <1>1, <1>3, <1>4, <1>7 DEF Row, Position, Open
<1>9. Typed'
  BY <1>1, <1>4, <1>5, <1>6, <1>7, <1>8 DEF Typed
<1>10. CutsBooked'
  <2>1. \A r : Due(r)' = 0
    BY <1>5 DEF Due
  <2>2. \A r \in Reductions : hist'.cuts[r] \in Nat
    BY <1>6 DEF History
  <2>3. \A r \in Reductions : Due(r)' \in 0..1
          /\ hist'.cuts[r] + Due(r)' <= hist.cuts[r] + Due(r)
    BY <1>6, <2>1, <2>2
  <2>4. hist'.cuts \in [Reductions -> Nat]
    BY <1>6 DEF History
  <2> QED
    BY <1>4, <1>6, <2>3, <2>4, BooksKept
<1>11. ClosingAwaits' /\ EndedIsClean' /\ ReasonKnown' /\ Tracked'
  BY <1>3, <1>4, <1>5, <1>8
     DEF IInv, ClosingAwaits, EndedIsClean, ReasonKnown, Tracked
<1>12. pos.stop \in Int /\ pos'.stop \in Int /\ trk.maxR \in Int
  BY <1>1, <1>4 DEF Position, Track
<1>13. StopsAgree'
  BY <1>1, <1>2, <1>4, <1>5, <1>6, <1>7, <1>8, <1>12 DEF IInv, StopsAgree, Earned
<1>14. StopForward /\ ExchangeForward
  BY <1>1, <1>4, <1>7 DEF StopForward, ExchangeForward
<1> QED
  BY <1>9, <1>10, <1>11, <1>13, <1>14 DEF IInv

LEMMA CycleStep ==
  ASSUME IInv, Cycle
  PROVE  IInv' /\ StopForward /\ ExchangeForward
<1>1. /\ SingleAction /\ hist \in History
      /\ exStop \in Int /\ held \in BOOLEAN
  BY DEF IInv, Typed
<1>2. /\ ~Idle => Tail(todo) = << >>
      /\ \A kinds : Decided(kinds) => ~Idle /\ Head(todo).kind \in kinds
  BY <1>1, DecidesOne
<1>3. \A rest : Goes(rest) =>
        todo' = rest /\ input'.price \in Int /\ announcing' \in BOOLEAN
  <2>1. NoInput.price \in Int
    BY DEF NoInput
  <2>2. \A rest : Goes(rest) => todo' = rest /\ input' = NoInput /\ announcing' = FALSE
    BY DEF Goes
  <2>3. announcing' = FALSE => announcing' \in BOOLEAN
    OBVIOUS
  <2> QED
    BY <2>1, <2>2, <2>3
<1>4. \A kinds : Awaits(kinds) => Decided(kinds)
  BY AwaitsDecided
<1>5. pos.status = "CLOSING" => Decided({"EXIT"}) \/ (Idle /\ (hist.failed \/ hist.dropped))
  BY DEF IInv, ClosingAwaits
<1>6. CASE ExitFills
  <2>1. /\ todo' = << >> /\ input'.price \in Int /\ announcing' \in BOOLEAN
        /\ trk' = trk /\ candle' = candle
    BY <1>2, <1>3, <1>4, <1>6 DEF ExitFills
  <2>2. /\ held' \in BOOLEAN /\ exStop' \in Int /\ (held' => exStop' = exStop)
        /\ (held' = held /\ exStop' = exStop) \/ held' = FALSE
    <3>1. CASE Leaves
      <4>1. held' \in BOOLEAN /\ ~held' /\ held' = FALSE
        BY <3>1 DEF Leaves
      <4>2. exStop' \in Int
        BY <3>1 DEF Leaves, NoPrice
      <4> QED
        BY <4>1, <4>2
    <3>2. CASE UNCHANGED <<exStop, held>>
      BY <1>1, <3>2
    <3> QED
      BY <1>6, <3>1, <3>2 DEF ExitFills
  <2>3. CASE Open
    <3>1. Ends
      BY <1>6, <2>3 DEF ExitFills
    <3> QED
      BY <2>1, <2>2, <3>1, DoneTodo, EndsStep
  <2>4. CASE ~Open
    <3>1. UNCHANGED <<pos, row, hist>> /\ pos.status # "CLOSING"
      BY <1>6, <2>4 DEF ExitFills, Open
    <3>2. Quiet
      BY <1>1, <2>1, <2>2, <3>1 DEF Quiet
    <3> QED
      BY <3>2, QuietStep
  <2> QED
    BY <2>3, <2>4
<1>7. CASE CloseFillsNothing \/ CloseRaises
  <2>1. /\ todo' = << >> /\ input'.price \in Int /\ announcing' \in BOOLEAN
        /\ Decided(Closings)
        /\ hist' = [hist EXCEPT !.failed = hist.failed \/ (Open /\ Head(todo).kind = "EXIT")]
        /\ UNCHANGED <<pos, trk, candle, exStop, held, row>>
    BY <1>2, <1>3, <1>4, <1>7 DEF CloseFillsNothing, CloseRaises
  <2> DEFINE failed == hist.failed \/ (Open /\ Head(todo).kind = "EXIT")
  <2>2. failed \in BOOLEAN
    OBVIOUS
  <2>3. pos.status = "CLOSING" => failed \/ hist.dropped
    BY <1>2, <1>5, <2>1 DEF Decided, Open
  <2>4. hist.failed => failed
    OBVIOUS
  <2>5. hist' = [hist EXCEPT !.failed = failed]
    BY <2>1
  <2> HIDE DEF failed
  <2>6. /\ hist' \in History /\ hist'.failed = failed /\ hist'.dropped = hist.dropped
        /\ hist'.cuts = hist.cuts /\ hist'.restarted = hist.restarted
    BY <1>1, <2>2, <2>5 DEF History
  <2>7. Quiet
    BY <2>1, <2>3, <2>4, <2>6 DEF Quiet
  <2> QED
    BY <2>7, QuietStep
<1>8. CASE CloseFlat
  <2>1. /\ todo' = << >> /\ input'.price \in Int /\ announcing' \in BOOLEAN
        /\ UNCHANGED <<trk, candle, exStop, held>>
    BY <1>2, <1>3, <1>4, <1>8 DEF CloseFlat
  <2>2. CASE Open
    <3>1. Ends
      BY <1>8, <2>2 DEF CloseFlat
    <3> QED
      BY <1>1, <2>1, <3>1, DoneTodo, EndsStep
  <2>3. CASE ~Open
    <3>1. UNCHANGED <<pos, row, hist>> /\ pos.status # "CLOSING"
      BY <1>8, <2>3 DEF CloseFlat, Open
    <3>2. Quiet
      BY <1>1, <2>1, <3>1 DEF Quiet
    <3> QED
      BY <3>2, QuietStep
  <2> QED
    BY <2>2, <2>3
<1>9. CASE \E allowed \in BOOLEAN : ReductionFills(allowed)
  BY <1>9, ReductionStep
<1>a. AfterSync => /\ todo' \in {Logged, << >>}
                   /\ input'.price \in Int /\ announcing' \in BOOLEAN
  BY <1>3 DEF AfterSync
<1>10. CASE Sync
  <2>1. /\ Decided(Trails) /\ held /\ pos' = Stopped /\ exStop' = pos'.stop
        /\ AfterSync /\ UNCHANGED <<trk, candle, held, row, hist>>
    BY <1>4, <1>10 DEF Sync
  <2> QED
    BY <1>a, <2>1, SyncStep
<1>11. CASE SyncSkipped
  <2>1. /\ Decided(Trails) /\ pos' = Stopped /\ exStop' = exStop
        /\ AfterSync /\ UNCHANGED <<trk, candle, held, row, hist>>
    BY <1>4, <1>11 DEF SyncSkipped
  <2> QED
    BY <1>a, <2>1, SyncStep
<1>12. CASE SyncRaises
  <2>1. /\ Decided(Trails) /\ pos' = Stopped /\ exStop' = exStop
        /\ todo' = << >> /\ input'.price \in Int /\ announcing' \in BOOLEAN
        /\ UNCHANGED <<trk, candle, held, row, hist>>
    BY <1>3, <1>4, <1>12 DEF SyncRaises
  <2> QED
    BY <2>1, SyncStep
<1>13. CASE LogStop
  <2>1. /\ todo' = << >> /\ input'.price \in Int /\ announcing' \in BOOLEAN
        /\ row' \in {Row(pos), row} /\ Decided({"LOG"})
        /\ UNCHANGED <<pos, trk, candle, exStop, held, hist>>
    BY <1>2, <1>3, <1>4, <1>13 DEF LogStop, Logs
  <2>2. pos.status # "CLOSING"
    BY <1>5, <2>1 DEF Decided
  <2>3. Quiet
    BY <1>1, <2>1, <2>2 DEF Quiet
  <2> QED
    BY <2>3, QuietStep
\* The events that precede an action are published, or one raises.
<1>14. CASE Announced
  <2>1. /\ announcing' = FALSE
        /\ UNCHANGED <<pos, trk, candle, todo, input, exStop, held, row, hist>>
    BY <1>14 DEF Announced
  <2>2. input.price \in Int
    BY DEF IInv, Typed
  <2>3. Quiet
    BY <1>1, <2>1, <2>2 DEF Quiet
  <2> QED
    BY <2>3, QuietStep
<1>15. CASE AnnounceRaises
  <2> DEFINE dropped == hist.dropped \/ (Open /\ Decided({"EXIT"}))
  <2>1. /\ todo' = << >> /\ input'.price \in Int /\ announcing' \in BOOLEAN
        /\ hist' = [hist EXCEPT !.dropped = dropped]
        /\ UNCHANGED <<pos, trk, candle, exStop, held, row>>
    BY <1>3, <1>15 DEF AnnounceRaises
  <2>2. dropped \in BOOLEAN
    OBVIOUS
  <2>3. pos.status = "CLOSING" => hist.failed \/ dropped
    BY <1>5 DEF Open
  <2>4. hist.dropped => dropped
    OBVIOUS
  <2> HIDE DEF dropped
  <2>5. /\ hist' \in History /\ hist'.failed = hist.failed /\ hist'.dropped = dropped
        /\ hist'.cuts = hist.cuts /\ hist'.restarted = hist.restarted
    BY <1>1, <2>1, <2>2 DEF History
  <2>6. Quiet
    BY <2>1, <2>3, <2>4, <2>5 DEF Quiet
  <2> QED
    BY <2>6, QuietStep
<1>16. CASE ReductionUnlogged
  <2>1. /\ todo' = << >> /\ input'.price \in Int /\ announcing' \in BOOLEAN
        /\ Open /\ Decided({"PARTIAL_TP", "REDUCE"})
        /\ hist' = Counting
        /\ UNCHANGED <<pos, trk, candle, exStop, held, row>>
    BY <1>3, <1>4, <1>16 DEF ReductionUnlogged
  <2>2. pos.status # "CLOSING"
    BY <1>2, <1>5, <2>1 DEF Decided
  <2>3. /\ hist' \in History /\ hist'.restarted = hist.restarted
        /\ hist'.failed = hist.failed /\ hist'.dropped = hist.dropped
        /\ \A r \in Reductions : hist'.cuts[r] <= hist.cuts[r] + Due(r)
    BY <2>1, CutMade
  <2>4. Quiet
    BY <2>1, <2>2, <2>3 DEF Quiet
  <2> QED
    BY <2>4, QuietStep
<1> QED
  BY <1>6, <1>7, <1>8, <1>9, <1>10, <1>11, <1>12, <1>13, <1>14, <1>15, <1>16 DEF Cycle

LEMMA NextStep ==
  ASSUME IInv, [Next]_vars
  PROVE  IInv' /\ StopForward /\ ExchangeForward
<1>1. /\ pos \in Position /\ exStop \in Int /\ held \in BOOLEAN /\ input.price \in Int
      /\ hist \in History /\ announcing \in BOOLEAN
  BY DEF IInv, Typed
<1>2. CASE Ages
  <2>1. /\ pos' = [pos EXCEPT !.old = TRUE]
        /\ UNCHANGED <<trk, candle, todo, announcing, input, exStop, held, row, hist>>
    BY <1>2 DEF Ages
  <2>2. Quiet
    BY <1>1, <2>1 DEF Quiet
  <2> QED
    BY <2>2, QuietStep
<1>3. CASE Decide
  <2>1. PICK price \in Prices, c \in Candles, new \in BOOLEAN, snap \in Snapshots,
             allowed \in Allowances : Evaluate(price, c, new, snap, allowed)
    BY <1>3 DEF Decide
  <2> QED
    BY <2>1, EvaluateIInv
<1>4. CASE Cycle
  BY <1>4, CycleStep
<1>5. CASE \E m \in EntryModes : Enter(m)
  BY <1>5, EnterStep
<1>6. CASE FundingReduce
  <2>1. /\ row' \in {Row(pos), row} /\ pos.status # "CLOSING"
        /\ UNCHANGED <<pos, trk, candle, todo, announcing, input, exStop, held, hist>>
    BY <1>6 DEF FundingReduce, Active, Logs
  <2>2. Quiet
    BY <1>1, <2>1 DEF Quiet
  <2> QED
    BY <2>2, QuietStep
<1>7. CASE StopFires
  <2>1. /\ held' = FALSE /\ exStop' \in Int
        /\ UNCHANGED <<pos, trk, candle, todo, announcing, input, row, hist>>
    BY <1>7 DEF StopFires, Leaves, NoPrice
  <2>2. Quiet
    BY <1>1, <2>1 DEF Quiet
  <2> QED
    BY <2>2, QuietStep
<1>8. CASE Gone
  <2>1. /\ Ends /\ ~held
        /\ UNCHANGED <<trk, candle, todo, announcing, input, exStop, held>>
    BY <1>8 DEF Gone
  <2> QED
    BY <1>1, <2>1, EndsStep
<1>9. CASE Restart
  BY <1>9, RestartStep
<1>10. CASE UNCHANGED vars
  <2>1. UNCHANGED <<pos, trk, candle, todo, announcing, input, exStop, held, row, hist>>
    BY <1>10 DEF vars
  <2>2. Quiet
    BY <1>1, <2>1 DEF Quiet
  <2> QED
    BY <2>2, QuietStep
<1> QED
  BY <1>2, <1>3, <1>4, <1>5, <1>6, <1>7, <1>8, <1>9, <1>10 DEF Next

-----------------------------------------------------------------------------
(* The theorems.                                                           *)

\* IInv is inductive: what a cycle is about to do, what the books say of it and where
\* the stop stands agree after every step.
THEOREM Inductive == Spec => []IInv
<1>1. IInv /\ [Next]_vars => IInv'
  BY NextStep
<1> QED
  BY <1>1, InitIInv, PTL DEF Spec

\* Every value that the rules and the cycle leave behind has its type.
THEOREM TypeCorrect == Spec => []TypeOK
<1>1. IInv => TypeOK
  <2> SUFFICES ASSUME IInv
               PROVE  TypeOK
    OBVIOUS
  <2>1. /\ pos \in Position /\ trk \in Track /\ SingleAction /\ held \in BOOLEAN
        /\ row \in [status : {"ACTIVE", "CLOSED"}, stop : Int, mode : Modes]
        /\ announcing \in BOOLEAN
    BY DEF IInv, Typed
  <2>2. Len(todo) <= 2
    <3>1. CASE todo = << >>
      BY <3>1
    <3>2. CASE \E a \in Action : todo = <<a>>
      BY <3>2
    <3> QED
      BY <2>1, <3>1, <3>2 DEF SingleAction
  <2>3. /\ pos.status \in Statuses /\ pos.scout \in ScoutStates /\ pos.strength \in Strengths
        /\ pos.red \in 0..MaxDefensive /\ pos.bars.n \in 0..BarCap
        /\ pos.warned \in 0..BarCap
    BY <2>1 DEF Position, Counts
  <2>4. /\ trk.recovery \in 0..3
        /\ trk.level.n \in 0..2 /\ trk.scout.n \in 0..2 /\ trk.weak.n \in 0..WeakBars
    BY <2>1 DEF Track, Counts
  <2>5. pos.partial \in BOOLEAN /\ pos.trailing \in BOOLEAN /\ pos.runner \in BOOLEAN
    BY <2>1 DEF Position
  <2> QED
    BY <2>1, <2>2, <2>3, <2>4, <2>5 DEF TypeOK, Statuses, ScoutStates
<1> QED
  BY <1>1, Inductive, PTL

\* A position is CLOSING only while its exit is to be done, or after that exit, or an event
\* that precedes it, failed: whatever else is skipped, raises or cannot be written, none is
\* left in a state that no cycle manages.
THEOREM ClosingIsOrdered == Spec => []ClosingHasAnExit
<1>1. IInv => ClosingHasAnExit
  BY DEF IInv, ClosingAwaits, ClosingHasAnExit
<1> QED
  BY <1>1, Inductive, PTL

\* The cuts of one position in one process: each reason once, a scout's as often as it
\* may be reduced; the entry in the books precedes the order, and no rule erases it.
THEOREM CutsAreBounded == Spec => []ReductionsBounded
<1>1. IInv => ReductionsBounded
  <2> SUFFICES ASSUME IInv, ~hist.restarted
               PROVE  /\ \A r \in {"PARTIAL_TAKE_PROFIT", "STAGNATION", "SCENARIO_INVALID"} :
                           hist.cuts[r] <= 1
                      /\ hist.cuts["SCOUT_DEFENSIVE"] + hist.cuts["SCOUT_CATASTROPHIC"]
                           <= MaxDefensive
    BY DEF ReductionsBounded
  <2>1. \A r \in Reductions : hist.cuts[r] \in Nat /\ Due(r) \in 0..1
    BY DueTyped DEF IInv, Typed, History
  <2>2. pos.red \in 0..MaxDefensive /\ MaxDefensive \in Nat
    BY BoundsAreNat DEF IInv, Typed, Position
  <2> QED
    BY <2>1, <2>2 DEF IInv, CutsBooked, Reductions
<1> QED
  BY <1>1, Inductive, PTL

\* No step of one process loosens the stop of a position.
THEOREM StopsOnlyTighten == Spec => StopOnlyTightens
<1>1. IInv /\ [Next]_vars =>
        [Open /\ Open' /\ ~hist'.restarted => pos'.stop >= pos.stop]_vars
  BY NextStep DEF StopForward
<1> QED
  BY <1>1, Inductive, PTL DEF Spec, StopOnlyTightens

\* Nor the stop of the exchange, which follows in a later step or not at all.
THEOREM ExchangeStopsOnlyTighten == Spec => ExchangeStopOnlyTightens
<1>1. IInv /\ [Next]_vars =>
        [held /\ held' /\ ~hist'.restarted => exStop' >= exStop]_vars
  BY NextStep DEF ExchangeForward
<1> QED
  BY <1>1, Inductive, PTL DEF Spec, ExchangeStopOnlyTightens
=============================================================================
