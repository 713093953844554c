---------------------------- MODULE DecayTrend ----------------------------
(***************************************************************************)
(* The verdict of _response_decay (temporal.py) on the weeks of a chat:    *)
(* their health, the trend, the decay score, the closing phase and the     *)
(* turning point.  The chat grows by one week of one of a few kinds.       *)
(*                                                                         *)
(* Scores and health are in thousandths, messages per day and days of      *)
(* silence in tenths, as the code rounds them.                             *)
(***************************************************************************)
EXTENDS Integers, Sequences, FiniteSets, FiniteSetsExt

CONSTANTS Kinds,      \* the weeks that occur: rt, balance, neglect, silence, perDay
          MaxWeeks    \* bound on the chat

KindsAssumption ==
  \A k \in Kinds : /\ {k.rt, k.balance} \subseteq 0..1000
                   /\ {k.neglect, k.silence, k.perDay} \subseteq Nat
MaxWeeksAssumption == MaxWeeks \in Nat

Window == 3          \* _CLOSING_WINDOW_WEEKS
MinBaseline == 4     \* _CLOSING_MIN_BASELINE_WEEKS
TrendDelta == 120    \* _TREND_DELTA
MinDrop == 150       \* _TURNING_POINT_MIN_DROP

VARIABLE weeks

Init == weeks = <<>>
Next == /\ Len(weeks) < MaxWeeks
        /\ \E k \in Kinds : weeks' = Append(weeks, k)
Spec == Init /\ [][Next]_weeks

N == Len(weeks)
Sum(f(_), S) == MapThenSumSet(f, S)
Ratio(a, b) == (a + b \div 2) \div b

NeglectScore(units) == Max({0, 1000 - units \div 3})
SilenceScore(days) == Max({0, 1000 - 50 * Max({0, days - 10})})   \* 1 day to 3 days
Health(i) ==
  LET w == weeks[i]
  IN Ratio(25 * w.rt + 15 * w.balance + 30 * NeglectScore(w.neglect)
             + 30 * SilenceScore(w.silence), 100)
Healths(S) == Sum(LAMBDA i : Health(i), S)

Third == Max({1, N \div 3})
Early == 1..Third
Recent == (N - Third + 1)..N

\* Mutant: the score of the early third.
DecayScoreEarly == 1000 - Ratio(Healths(Early), Third)

DecayScore == 1000 - Ratio(Healths(Recent), Third)
ThirdsTrend == LET delta == Healths(Recent) - Healths(Early)
               IN IF delta < -TrendDelta * Third THEN "deteriorating"
                  ELSE IF delta > TrendDelta * Third THEN "improving" ELSE "stable"

---------------------------------------------------------------------------
(* The closing phase *)

HasBaseline == N - Window >= MinBaseline
Prior == 1..(N - Window)
Last3 == (N - Window + 1)..N

\* The k-th of the messages per day of the baseline, in the order of their size.
Ranked(k) == LET AtLeast(i) == Cardinality({j \in Prior : weeks[j].perDay <= weeks[i].perDay})
             IN Min({weeks[i].perDay : i \in {j \in Prior : AtLeast(j) >= k}})

\* Twice the median of the messages per day of the baseline.
Base2 == LET n == N - Window
         IN Ranked((n + 1) \div 2) + Ranked(n \div 2 + 1)
LongestIn(S) == Max({weeks[i].silence : i \in S})

\* _closing_silence_hit: a day and a half, and twice the longest one before.
SilenceHit(days) == days >= 15 /\ days >= 2 * LongestIn(Prior)
VolumeFell == /\ Base2 > 0
              /\ 4 * Sum(LAMBDA i : weeks[i].perDay, Last3) <= Base2 * Window
Detected == HasBaseline /\ (VolumeFell \/ SilenceHit(LongestIn(Last3)))

\* Mutant: only the volume marks the start.
ShowsVolumeDrop(i) == 20 * weeks[i].perDay <= 7 * Base2

ShowsDrop(i) == \/ 20 * weeks[i].perDay <= 7 * Base2
                \/ SilenceHit(weeks[i].silence)
Start == LET shown == {i \in Last3 : ShowsDrop(i)}
         IN IF shown = {} THEN N - Window + 1 ELSE Min(shown)

Trend == IF Detected THEN "deteriorating" ELSE ThirdsTrend

---------------------------------------------------------------------------
(* The turning point *)

\* The tail that starts here, a fifth of the weeks, is not searched.
Cutoff == Max({1, Ratio(8 * N, 10)})

\* Week i + 1 begins the worse part: the mean before it less the mean after
\* it, times i * (N - i).
Drop(i) == (N - i) * Healths(1..i) - i * Healths((i + 1)..N)
Exceeds(i, j) == Drop(i) * (j * (N - j)) > Drop(j) * (i * (N - i))

\* Mutant: the whole chat is searched.
SearchedAll == 1..(N - 1)

Searched == 1..(Cutoff - 1)
Falls == {i \in Searched : Drop(i) > MinDrop * i * (N - i)}

\* Mutant: the first fall that is large enough.
SteepestFirst == {i \in Falls : \A j \in Falls : i <= j}

\* The largest fall.  The means are floats: which of two equal falls is found
\* is open.
Steepest == {i \in Falls : \A j \in Falls : ~Exceeds(j, i)}

\* The turning points that may be reported, as positions; 0 for none.
TurningPoints == IF Falls # {} THEN {i + 1 : i \in Steepest}
                 ELSE IF Detected THEN {Start} ELSE {0}

---------------------------------------------------------------------------
(* Properties *)

Enough == N >= 2     \* otherwise "insufficient_data"

\* `start` "is the first window week that already shows the drop" (line 452):
\* whenever a fade-out is detected some week of the window does, and the
\* fallback to the first one never names a week that does not.
StartShowsTheDrop ==
  Detected => \/ 20 * weeks[Start].perDay <= 7 * Base2
              \/ SilenceHit(weeks[Start].silence)

\* "health alone is not trusted there" (line 663): a turning point in the last
\* fifth of the weeks is the start of a closing phase.
TailIsNotTrusted ==
  Enough => \A p \in TurningPoints : p > Cutoff => Detected /\ p = Start

\* The week that is reported is where it got worse: it is below the mean of
\* all weeks before it, the week before it above the mean of all after, unless
\* the search ended there.
TurningPointIsWorse ==
  Enough /\ Falls # {} =>
    \A p \in TurningPoints :
      /\ p < Cutoff => (p - 1) * Health(p) < Healths(1..(p - 1))
      /\ p > 2 => (N - p + 1) * Health(p - 1) > Healths(p..N)

\* A trend by thirds is in the score: a deterioration of 0.12 leaves a score of
\* at least that, an improvement leaves as much below 1.
ScoreAgreesWithTrend ==
  Enough => /\ ThirdsTrend = "deteriorating" => DecayScore >= TrendDelta
            /\ ThirdsTrend = "improving" => DecayScore <= 1000 - TrendDelta
            /\ Trend = "improving" => ~Detected
===========================================================================
