----------------------------- MODULE Sampling -----------------------------
(***************************************************************************)
(* Which messages and weeks of a long chat the analyzers look at:          *)
(* _sample of sentiment.py (stratified by week, at most max_n) and         *)
(* _weekly_timeline of narrative.py (weeks thinned to a number of points). *)
(* The chat grows message by message, so that TLC evaluates the algorithms *)
(* on every chat within the bounds.                                        *)
(***************************************************************************)
EXTENDS Integers, Sequences, SequencesExt, FiniteSets, FiniteSetsExt

CONSTANTS MaxTime, MaxMessages,   \* bounds on the chat
          WeekLength,             \* Week(t) is the ISO week of time t
          MinPerWeek,             \* _MIN_PER_WEEK
          Budgets,                \* the values of max_n that are tried
          Ordered                 \* is the export in the order of its times?

BoundAssumption == {MaxTime, MaxMessages} \subseteq Nat /\ MinPerWeek \in Nat \ {0}
BudgetAssumption == /\ WeekLength \in Nat \ {0}
                    /\ Budgets \subseteq Nat \ {0}
                    /\ Ordered \in BOOLEAN

VARIABLE chat   \* chat[i]: when message i of the export was sent

Init == chat = <<>>
Next == /\ Len(chat) < MaxMessages
        /\ \E t \in 0..MaxTime : /\ Ordered /\ chat # <<>> => t >= Last(chat)
                               /\ chat' = Append(chat, t)
Spec == Init /\ [][Next]_chat

Week(t) == t \div WeekLength
Weeks == {Week(chat[i]) : i \in DOMAIN chat}
OfWeek(w) == {i \in DOMAIN chat : Week(chat[i]) = w}
Size(w) == Cardinality(OfWeek(w))
InWeek(w) == [k \in 1..Size(w) |->
                CHOOSE i \in OfWeek(w) : Cardinality({j \in OfWeek(w) : j < i}) = k - 1]

\* Python's round of a/b: halves go to the even neighbour.
Round(a, b) == LET q == a \div b
                   r == 2 * (a % b)
               IN IF r < b THEN q ELSE IF r > b THEN q + 1 ELSE q + (q % 2)

\* Mutant: a stride from the start.
SpacedStride(s, k) ==
  IF k >= Len(s) THEN s ELSE [i \in 1..k |-> s[1 + ((i - 1) * Len(s)) \div k]]

Spaced(s, k) ==
  LET n == Len(s)
  IN IF k >= n THEN s
     ELSE IF k = 1 THEN <<s[n]>>
     ELSE [i \in 1..k |-> s[1 + Round((i - 1) * (n - 1), k - 1)]]

Floored(floor) == [w \in Weeks |-> Min({floor, Size(w)})]
Total(f) == MapThenSumSet(LAMBDA w : f[w], DOMAIN f)

\* Mutant: the floor is never lowered.
FloorFixed(max) == MinPerWeek

Floor(max) == IF Total(Floored(MinPerWeek)) > max
              THEN Max({1, max \div Cardinality(Weeks)}) ELSE MinPerWeek

\* Mutants: leftovers go to the smallest fractions; they are not handed out.
RoundedUpSmallest(open, frac, leftover) ==
  {X \in SUBSET open : /\ Cardinality(X) = Min({leftover, Cardinality(open)})
                       /\ \A x \in X, y \in open \ X : frac[x] <= frac[y]}
RoundedUpNone(open, frac, leftover) == {{}}

\* The weeks that get one message more: of those that have one left, the ones
\* with the largest fractional part.  The parts are floats: which of two equal
\* ones is larger is open.
RoundedUp(open, frac, leftover) ==
  {X \in SUBSET open : /\ Cardinality(X) = Min({leftover, Cardinality(open)})
                       /\ \A x \in X, y \in open \ X : frac[x] >= frac[y]}

\* The allocations of max messages to the weeks.
Allocations(max) ==
  LET base == Floored(Floor(max))
      remaining == max - Total(base)
      surplus == [w \in Weeks |-> Size(w) - base[w]]
      all == Total(surplus)
      share(w) == remaining * surplus[w]     \* over all
      frac == [w \in Weeks |-> share(w) % all]
      extra == [w \in Weeks |-> Min({share(w) \div all, surplus[w]})]
      open == {w \in Weeks : extra[w] < surplus[w]}
  IN IF remaining <= 0 \/ all = 0 THEN {base}
     ELSE {[w \in Weeks |-> base[w] + extra[w] + (IF w \in X THEN 1 ELSE 0)] :
             X \in RoundedUp(open, frac, remaining - Total(extra))}

Earlier(i, j) == chat[i] < chat[j] \/ (chat[i] = chat[j] /\ i < j)

Picked(alloc) == UNION {ToSet(Spaced(InWeek(w), alloc[w])) : w \in Weeks}

\* Mutant: the messages of a week stay in the order of the export.
InTimeUnsorted(M) ==
  LET before(j, i) == \/ Week(chat[j]) < Week(chat[i])
                      \/ Week(chat[j]) = Week(chat[i]) /\ j < i
  IN [k \in 1..Cardinality(M) |->
        CHOOSE i \in M : Cardinality({j \in M : before(j, i)}) = k - 1]

\* The stable sort by time.
InTime(M) == [k \in 1..Cardinality(M) |->
                CHOOSE i \in M : Cardinality({j \in M : Earlier(j, i)}) = k - 1]

\* The samples _sample may return, as the positions of the messages.
Sample(max) == IF Len(chat) <= max THEN {[i \in DOMAIN chat |-> i]}
               ELSE {Spaced(InTime(Picked(alloc)), max) : alloc \in Allocations(max)}

\* Mutant: int() instead of round().
TimelineTruncated(n, points) ==
  IF n <= points THEN 1..n
  ELSE {1 + (i * (n - 1)) \div (points - 1) : i \in 0..(points - 1)}

\* _weekly_timeline: the points kept of n weeks, as a set of positions.
Timeline(n, points) ==
  IF n <= points THEN 1..n
  ELSE {1 + Round(i * (n - 1), points - 1) : i \in 0..(points - 1)}

---------------------------------------------------------------------------
(* Properties *)

\* "at most max_n messages" (sentiment.py:526): exactly the budget is used,
\* however the floors, the shares and their rounding fall.
BudgetIsUsed ==
  \A max \in Budgets : \A s \in Sample(max) : Len(s) = Min({Len(chat), max})

\* A sample is chronological and holds no message twice, in whatever order
\* the export was.
Chronological ==
  \A max \in Budgets : Len(chat) > max =>
    \A s \in Sample(max) : \A i \in 2..Len(s) : Earlier(s[i - 1], s[i])

\* As long as there is room for all of them every week is heard: with its
\* floor, and with its last message.
EveryWeekIsHeard ==
  \A max \in Budgets : Len(chat) > max /\ Cardinality(Weeks) <= max =>
    \A s \in Sample(max) : \A w \in Weeks :
      LET mine == {i \in ToSet(s) : Week(chat[i]) = w}
      IN /\ Cardinality(mine) >= Min({MinPerWeek, max \div Cardinality(Weeks), Size(w)})
         /\ Last(InWeek(w)) \in mine

\* "the latest conversation was never scored" (sentiment.py:529) is over: the
\* newest message of an ordered chat is in every sample.
LatestIsHeard ==
  (chat # <<>> /\ \A i \in 2..Len(chat) : chat[i - 1] <= chat[i]) =>
    \A max \in Budgets : \A s \in Sample(max) : Len(chat) \in ToSet(s)

\* A week with more messages never gets a smaller sample than one with fewer.
BusierWeeksGetMore ==
  \A max \in Budgets : Len(chat) > max /\ Cardinality(Weeks) <= max =>
    \A alloc \in Allocations(max) : \A v, w \in Weeks :
      Size(v) < Size(w) => alloc[v] <= alloc[w]

\* The narrative's thinning and the sampler's spacing agree: as many weeks as
\* there are points, the first and the last one included.
TimelineIsSpaced ==
  \A points \in Budgets \ {1} :
    LET n == Len(chat)
    IN Timeline(n, points) = ToSet(Spaced([i \in 1..n |-> i], points))
===========================================================================
