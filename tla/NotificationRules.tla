-------------------------- MODULE NotificationRules --------------------------
(***************************************************************************)
(* The rules by which notifications are held back, repeated and summed up, *)
(* as functions: quiet hours, the time of the next digest, the delay of a  *)
(* retry, and what a digest says of the one before.  Time is local time in *)
(* hours since a Monday, 0:00, without daylight saving; delays are in      *)
(* seconds.                                                                *)
(***************************************************************************)
EXTENDS Integers, FiniteSets, FiniteSetsExt

Day         == 24
Midnight(t) == Day * (t \div Day)
TimeOfDay(t) == t % Day
Weekday(t)  == (t \div Day) % 7

(***************************************************************************)
(* Quiet hours.                                                            *)
(***************************************************************************)
Periods == [days : SUBSET (0..6), start : 0 .. Day - 1, end : 0 .. Day - 1]

DayMatches(p, t) == p.days = {} \/ Weekday(t) \in p.days

InQuietPeriod(p, t) ==
  IF p.start <= p.end
  THEN TimeOfDay(t) \in p.start .. p.end - 1
  ELSE TimeOfDay(t) \notin p.end .. p.start - 1

\* Mutant: the end of a period is taken for today's, even before midnight.
ResumeToday(p, t) == Midnight(t) + p.end

ResumeAt(p, t) ==
  Midnight(t) + p.end + (IF p.start > p.end /\ TimeOfDay(t) >= p.start THEN Day ELSE 0)

Immediately == -1

\* When the policy engine lets a notification go: at once, or at the end of the first
\* period of the schedule that it falls into.
QuietHours(schedule, t) ==
  LET quiet == {i \in DOMAIN schedule :
                  DayMatches(schedule[i], t) /\ InQuietPeriod(schedule[i], t)}
  IN  IF quiet = {} THEN Immediately ELSE ResumeAt(schedule[Min(quiet)], t)

Evaluate(n, schedule, t) ==
  IF n.urgency = "critical" \/ n.event = "threshold_cleared"
  THEN Immediately
  ELSE QuietHours(schedule, t)

(***************************************************************************)
(* The next digest.                                                        *)
(***************************************************************************)
NextDayAtTime(now, time) ==
  Midnight(now) + time + (IF Midnight(now) + time > now THEN 0 ELSE Day)

NextDigestRun(now, time, frequency) ==
  NextDayAtTime(now, time) + (IF frequency = "weekly" THEN 6 * Day ELSE 0)

(***************************************************************************)
(* The next retry.                                                         *)
(***************************************************************************)
RetryPolicies == [webhook |-> [max |-> 3, base |-> 1, most |-> 30, factor |-> 5],
                  email   |-> [max |-> 3, base |-> 1, most |-> 10, factor |-> 2]]

CalculateNextRetry(policy, attempt) ==
  LET delay == policy.base * policy.factor ^ attempt
  IN  IF delay > policy.most THEN policy.most ELSE delay

(***************************************************************************)
(* The comparison of a digest with the one before.  A summary holds the    *)
(* extreme of each variable and whether a period is triggered.             *)
(***************************************************************************)
Variables == {"precip_prob", "precip_mm", "min_temp_c", "max_temp_c"}

Abs(x)        == IF x < 0 THEN -x ELSE x
Larger(x, y)  == IF x < y THEN y ELSE x

IsSignificant(previous, current) ==
  5 * Abs(current - previous) > Larger(Abs(previous), Abs(current))

\* <<variable, whether it grew>>
MaxValueChanges(current, previous) ==
  {<<v, current.value[v] > previous.value[v]>> :
     v \in {w \in Variables : IsSignificant(previous.value[w], current.value[w])}}

ThreatChanges(current, previous) ==
  IF current.threat # previous.threat THEN {<<"threat_status", current.threat>>} ELSE {}

Compare(current, previous) ==
  MaxValueChanges(current, previous) \cup ThreatChanges(current, previous)

\* A lower minimum is worse, and more of anything else.
Worse(change) == change[2] # (change[1] = "min_temp_c")

Direction(changes) ==
  LET worsening == Cardinality({c \in changes : Worse(c)})
      improving == Cardinality(changes) - worsening
  IN  CASE worsening > improving -> "worsening"
        [] improving > worsening -> "improving"
        [] OTHER -> "stable"

\* An empty digest is not sent if the WatchPoint does not want it.
Suppressed(current, previous, sendEmpty) ==
  ~sendEmpty /\ ~current.threat /\ Compare(current, previous) = {}

-----------------------------------------------------------------------------
(***************************************************************************)
(* Properties                                                              *)
(***************************************************************************)
\* Whatever holds a notification back lets it go within a day, at the very end of the
\* quiet hours, those after midnight included.
QuietHoursEnd ==
  \A p \in {q \in Periods : Cardinality(q.days) \in {0, 6}}, t \in 0 .. 8 * Day :
    LET resume == QuietHours(<<p>>, t)
    IN  resume # Immediately =>
          /\ resume > t /\ resume <= t + Day
          /\ \A s \in t .. resume - 1 : InQuietPeriod(p, s)
          /\ ~InQuietPeriod(p, resume)

\* Digests keep their time of day, and their weekday, even if the job is late by less
\* than a day: the time of the next one is computed from when the job runs.
DigestsKeepTime ==
  \A time \in 0 .. Day - 1, now \in 0 .. 2 * Day, late \in 0 .. Day - 1 :
    /\ \A f \in {"daily", "weekly"} :
         LET next == NextDigestRun(now, time, f)
         IN  /\ next > now
             /\ NextDigestRun(next + late, time, f)
                  = next + (IF f = "weekly" THEN 7 * Day ELSE Day)

\* Delays grow up to their limit.
DelaysGrow ==
  \A c \in DOMAIN RetryPolicies : LET p == RetryPolicies[c] IN
    \A a \in 0 .. p.max :
      /\ CalculateNextRetry(p, a) \in p.base .. p.most
      /\ CalculateNextRetry(p, a) <= CalculateNextRetry(p, a + 1)

\* What got worse from one digest to the next gets better on the way back, and a threat
\* that comes or goes is never suppressed.
Extremes == {-5, 0, 5, 6}

ComparisonIsFair ==
  \A v1, v2, v3 \in Extremes, w1, w2, w3 \in Extremes, threat1, threat2 \in BOOLEAN :
    LET a == [value |-> [precip_prob |-> 0, precip_mm |-> v1, min_temp_c |-> v2, max_temp_c |-> v3],
              threat |-> threat1]
        b == [value |-> [precip_prob |-> 0, precip_mm |-> w1, min_temp_c |-> w2, max_temp_c |-> w3],
              threat |-> threat2]
        opposite == [worsening |-> "improving", improving |-> "worsening", stable |-> "stable"]
    IN  /\ Direction(Compare(a, b)) = opposite[Direction(Compare(b, a))]
        /\ Suppressed(a, b, FALSE) => ~b.threat
=============================================================================
