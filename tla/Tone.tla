-------------------------------- MODULE Tone --------------------------------
(***************************************************************************)
(* What sentiment.py makes of a scored sample: the dominant tone of each   *)
(* person, the drift between two of them by quarter, and the shift of the  *)
(* most recent stretch.  The sample grows message by message, in the order *)
(* of time (Sampling: Chronological).  Scores are in tenths.               *)
(***************************************************************************)
EXTENDS Integers, Sequences, FiniteSets, FiniteSetsExt, SequencesExt

CONSTANTS People, Scores,         \* who writes, and the scores that occur
          MaxMessages, Steps,     \* bounds on the sample
          QuarterLength,          \* Quarter(t) is the quarter of time t
          Window, MinPoints       \* _RECENT_WINDOW_DAYS, 14; _RECENT_MIN_POINTS, 20

PeopleAssumption == IsFiniteSet(People)
ScoreAssumption == Scores \subseteq -10..10
TimeAssumption == /\ {MaxMessages, MinPoints} \subseteq Nat
                  /\ Steps \subseteq Nat
                  /\ {QuarterLength, Window} \subseteq Nat \ {0}

VARIABLE sample     \* by, at and score of each scored message

Init == sample = <<>>
Next == /\ Len(sample) < MaxMessages
        /\ \E p \in People, s \in Scores, d \in Steps :
             sample' = Append(sample, [by |-> p, score |-> s, at |->
                                       IF sample = <<>> THEN 0 ELSE Last(sample).at + d])
Spec == Init /\ [][Next]_sample

All == DOMAIN sample
Of(p) == {i \in All : sample[i].by = p}
Writers == {sample[i].by : i \in All}
Scored == [i \in All |-> sample[i].score]
Sum(S) == MapThenSumSet(LAMBDA i : Scored[i], S)

---------------------------------------------------------------------------
(* _per_person *)

Positive(p) == Cardinality({i \in Of(p) : sample[i].score > 2})
Negative(p) == Cardinality({i \in Of(p) : sample[i].score < -2})
Neutral(p) == Cardinality(Of(p)) - Positive(p) - Negative(p)

\* Mutant: the neutral share is not compared.
DominantsCharged(p) == IF Positive(p) > Negative(p) THEN {"positive"}
                       ELSE IF Negative(p) > 0 THEN {"negative"} ELSE {"neutral"}

\* The tones that may be reported.  The neutral share is 1.0 less the other
\* two: when it equals one of them the floats decide which is larger.
Dominants(p) ==
  {t \in {"positive", "negative", "neutral"} :
     \/ t = "positive" /\ Positive(p) > Negative(p) /\ Positive(p) >= Neutral(p)
     \/ /\ t = "negative" /\ Negative(p) >= Neutral(p)
        /\ Positive(p) <= Max({Negative(p), Neutral(p)})
     \/ /\ t = "neutral" /\ Negative(p) <= Neutral(p)
        /\ Positive(p) <= Max({Negative(p), Neutral(p)})}

---------------------------------------------------------------------------
(* _emotional_drift *)

Quarter(i) == sample[i].at \div QuarterLength
Wrote(p, q) == {i \in Of(p) : Quarter(i) = q}
InOrder(Q) == [k \in 1..Cardinality(Q) |->
                 CHOOSE q \in Q : Cardinality({r \in Q : r < q}) = k - 1]
AllQuarters == {Quarter(i) : i \in All}
Quarters == InOrder(AllQuarters)

\* Mutant: whoever is silent in a quarter counts as neutral there.
TogetherByAny == AllQuarters

\* The quarters in which both wrote.
Together == {q \in AllQuarters : \A p \in Writers : Wrote(p, q) # {}}
Shared == InOrder(Together)

\* The lead of a over b in quarter q, over the product of their messages.
Lead(a, b, q) == LET m == Cardinality(Wrote(a, q))
                     n == Cardinality(Wrote(b, q))
                 IN <<n * Sum(Wrote(a, q)) - m * Sum(Wrote(b, q)), m * n>>
Divergence(q) == LET a == CHOOSE p \in Writers : TRUE
                     b == CHOOSE p \in Writers \ {a} : TRUE
                     lead == Lead(a, b, q)
                 IN <<IF lead[1] < 0 THEN -lead[1] ELSE lead[1], Max({1, lead[2]})>>

\* Fractions, and the increase of the divergence at the k-th shared quarter.
Less(x, y) == x[1] * y[2] < y[1] * x[2]
Increase(k) == LET x == Divergence(Shared[k])
                   y == Divergence(Shared[k - 1])
               IN <<x[1] * y[2] - y[1] * x[2], x[2] * y[2]>>

\* Mutant: the largest divergence, not the largest increase.
SteepestLevel ==
  {k \in 2..Len(Shared) : \A j \in 2..Len(Shared) :
     ~Less(Divergence(Shared[k]), Divergence(Shared[j]))}

\* The largest increases, more than 0.05; which of equal ones is open.
Steepest == {k \in 2..Len(Shared) : /\ Less(<<1, 2>>, Increase(k))
                                    /\ \A j \in 2..Len(Shared) : ~Less(Increase(k), Increase(j))}

\* The quarters that may be reported: the code indexes all the quarters with
\* the position among the shared ones.
TurningPoints == {Quarters[k] : k \in Steepest}

\* Who is ahead by more than 0.1 in the last shared quarter: at most one.
Ahead == {a \in Writers : \E b \in Writers \ {a}, q \in Together :
            (\A r \in Together : r <= q) /\ Less(<<1, 1>>, Lead(a, b, q))}
Drift == IF Cardinality(Writers) # 2 \/ Together = {} THEN [score |-> <<>>, ahead |-> {}]
         ELSE [score |-> [q \in Together |-> Divergence(q)], ahead |-> Ahead]

---------------------------------------------------------------------------
(* _recent_shift *)

Begin == Last(sample).at - Window

Recent == {i \in All : sample[i].at >= Begin}

\* Mutant: a chat as long as the window is enough.
ReportedEarly == /\ sample # <<>> /\ Last(sample).at - sample[1].at >= Window
                 /\ Cardinality(Recent) >= MinPoints

Reported == /\ sample # <<>> /\ Last(sample).at - sample[1].at >= 2 * Window
            /\ Cardinality(Recent) >= MinPoints
Both == {p \in Writers : Of(p) \cap Recent # {} /\ Of(p) \ Recent # {}}

\* recent - baseline of p, as a fraction.
Delta(p) == LET m == Cardinality(Of(p) \cap Recent)
                n == Cardinality(Of(p) \ Recent)
            IN <<n * Sum(Of(p) \cap Recent) - m * Sum(Of(p) \ Recent), m * n>>

\* The delta of p in the report: to three decimals, so in thousandths. At a tie
\* the floats decide.
Rounded(p) == LET d == Delta(p)
                  floor == (100 * d[1]) \div d[2]
              IN {r \in {floor, floor + 1} : 2 * (100 * d[1] - r * d[2]) \in -d[2]..d[2]}
Deltas == {f \in [Both -> UNION {Rounded(p) : p \in Both}] : \A p \in Both : f[p] \in Rounded(p)}

\* Mutant: everyone's messages are thrown together.
ShiftsPooled ==
  LET m == Cardinality(Recent)
      n == Cardinality(All \ Recent)
      d == n * Sum(Recent) - m * Sum(All \ Recent)
  IN {IF d <= -(m * n) THEN "more_negative" ELSE IF d >= m * n THEN "more_positive" ELSE "stable"}

\* The shifts that may be reported: the mean of the rounded deltas of those who
\* wrote in both periods, at 0.1. When that is the mean of different deltas the
\* floats decide on which side of 0.1 it is.
Shifts ==
  {shift \in {"more_negative", "more_positive", "stable"} :
     \E f \in Deltas :
       LET total == MapThenSumSet(LAMBDA p : f[p], Both)
           limit == 100 * Cardinality(Both)
       IN \/ shift = "more_negative" /\ Both # {} /\ total <= -limit
          \/ shift = "more_positive" /\ Both # {} /\ total >= limit
          \/ /\ shift = "stable"
             /\ \/ Both = {} \/ (-limit < total /\ total < limit)
                \/ total \in {-limit, limit} /\ \E p, q \in Both : f[p] # f[q]}

---------------------------------------------------------------------------
(* Properties *)

\* The tone reported as dominant has no smaller share than the other two,
\* whichever way the floats round, and there is one.
DominantIsLargest ==
  \A p \in Writers :
    LET share == [positive |-> Positive(p), negative |-> Negative(p), neutral |-> Neutral(p)]
    IN /\ Dominants(p) # {}
       /\ \A t \in Dominants(p), u \in DOMAIN share : share[t] >= share[u]

\* The pair were further apart where they parted fastest than when both had
\* last written before. The quarter that is reported for it is never a later
\* one, and it is that one exactly when both wrote in every quarter before it:
\* after a one-sided quarter the code names one too early.
TurnsWhereTheyParted ==
  Cardinality(Writers) = 2 =>
    \A k \in Steepest :
      /\ Less(Divergence(Shared[k - 1]), Divergence(Shared[k]))
      /\ Quarters[k] \in TurningPoints /\ Quarters[k] <= Shared[k]
      /\ Quarters[k] = Shared[k] <=> \A q \in AllQuarters : q < Shared[k] => q \in Together

\* A message in a quarter in which the other one never wrote leaves the drift
\* as it is: silence is not a tone.
SilenceIsNoTone ==
  [][\A a, b \in Writers :
       (/\ a # b /\ Last(sample').by = a
        /\ \A i \in Of(b) : Quarter(i) # Last(sample').at \div QuarterLength)
       => Drift' = Drift]_sample

\* A shift is reported against a baseline that is at least as long as the
\* window, and whichever way the floats round, the report names someone who wrote
\* in both periods and whose delta, as shown, is as large as that.
ShiftHasABaseline ==
  Reported => /\ All \ Recent # {}
              /\ Begin - sample[1].at >= Window
              /\ "more_negative" \in Shifts => \E p \in Both : \E r \in Rounded(p) : r <= -100
              /\ "more_positive" \in Shifts => \E p \in Both : \E r \in Rounded(p) : r >= 100

\* The shift is of people, not of volume: one more recent message at exactly
\* the recent mean of its writer leaves it as it is, however that is rounded.
VolumeDoesNotShift ==
  [][\A p \in Both :
       (/\ Last(sample').by = p /\ Last(sample').at = Last(sample).at
        /\ Last(sample').score * Cardinality(Of(p) \cap Recent) = Sum(Of(p) \cap Recent))
       => Shifts' = Shifts]_sample
=============================================================================
