--------------------------- MODULE Conversations ---------------------------
(***************************************************************************)
(* What temporal.py reads out of the times and senders of a chat: the      *)
(* handoffs between turns, response times, conversation blocks cut at a    *)
(* silence that adapts to the pair's rhythm, who opened each block and     *)
(* what became of it.  The chat grows message by message, so that TLC      *)
(* evaluates the metrics on every chat within the bounds, and an action    *)
(* property can say what one more message may change.  Times are hours.    *)
(***************************************************************************)
EXTENDS Integers, Sequences, FiniteSets, FiniteSetsExt

CONSTANTS People,
          MaxMessages, FirstTimes, Steps,   \* bounds: the chats that are tried
          MinMessages,                      \* MIN_MESSAGES, 50 in the code
          MinSample, Pct                    \* 30 gaps and the 95th percentile

PeopleAssumption == IsFiniteSet(People)
TimeAssumption == /\ FirstTimes \subseteq Nat
                         /\ Steps \subseteq Int      \* < 0: out of order
BoundAssumption == /\ {MaxMessages, MinMessages} \subseteq Nat
                          /\ MinSample \in Nat \ {0}
                          /\ Pct \in 0..99

Fallback == 4       \* _INITIATIVE_GAP
Floor == 1          \* _ADAPTIVE_GAP_FLOOR
Ceiling == 6        \* _ADAPTIVE_GAP_CEILING
MaxResponse == 24   \* _MAX_RESPONSE_WINDOW
Delay == 3          \* _DELAY_THRESHOLD

VARIABLE chat       \* chat[i]: who wrote message i, and when

Init == chat = <<>>
Says(p, t) == chat' = Append(chat, [by |-> p, at |-> t])
Next == /\ Len(chat) < MaxMessages
        /\ \E p \in People :
             IF chat = <<>> THEN \E t \in FirstTimes : Says(p, t)
             ELSE \E d \in Steps : Says(p, chat[Len(chat)].at + d)
Spec == Init /\ [][Next]_chat

By(i) == chat[i].by
Later == 2..Len(chat)
Gap(i) == chat[i].at - chat[i - 1].at

---------------------------------------------------------------------------
(* Handoffs and response times *)

\* Mutant: a turn ends where the next message is late.
TurnEndAtPause(i) ==
  Max({j \in i..Len(chat) : \A k \in (i + 1)..j : By(k) = By(i) /\ Gap(k) <= Delay})

TurnEnd(i) == Max({j \in i..Len(chat) : \A k \in i..j : By(k) = By(i)})

\* _iter_turn_handoffs: the messages that answer a turn, turn by turn.
Handoffs ==
  LET from[i \in 1..(Len(chat) + 1)] ==
        IF i > Len(chat) \/ TurnEnd(i) = Len(chat) THEN {}
        ELSE {TurnEnd(i) + 1} \cup from[TurnEnd(i) + 1]
  IN from[1]

\* _response_time walks over neighbouring messages instead.
Responses == {i \in Later : By(i) # By(i - 1) /\ Gap(i) > 0 /\ Gap(i) <= MaxResponse}

\* Mutant: the times as they come.
RankedAsTheyCome(S, k) == Gap(Min({i \in S : Cardinality(S \cap 1..i) >= k}))

\* The k-th of the gaps before the messages of S, in the order of their length.
Ranked(S, k) == LET AtLeast(i) == Cardinality({j \in S : Gap(j) <= Gap(i)})
                IN Min({Gap(i) : i \in {j \in S : AtLeast(j) >= k}})

Answers(p) == {i \in Responses : By(i) = p}
P90(S) == Ranked(S, 1 + Min({(Cardinality(S) * 9) \div 10, Cardinality(S) - 1}))
WithinAnHour(S) == Cardinality({i \in S : Gap(i) <= 1})

\* What _response_decay counts as delayed.
DecayDelays == {i \in Handoffs : Gap(i) > Delay /\ Gap(i) <= MaxResponse}

---------------------------------------------------------------------------
(* Blocks *)

\* The messages that are not out of order, for their gaps.
Rhythm == {i \in Later : Gap(i) >= 0}
Size == Cardinality(Rhythm)
HasRhythm == Size >= MinSample

\* Mutant: one gap lower, the last one below the percentile.
P95OneLower == Ranked(Rhythm, Max({1, (Size * Pct) \div 100}))

P95 == Ranked(Rhythm, 1 + Min({(Size * Pct) \div 100, Size - 1}))

\* Mutant: the band has no ceiling.
ClampToFloor(s) == Max({s, Floor})

Clamp(s) == IF s < Floor THEN Floor ELSE IF s > Ceiling THEN Ceiling ELSE s
AdaptiveGap == IF HasRhythm THEN Clamp(P95) ELSE Fallback
Continuous == HasRhythm /\ P95 < Floor

\* Mutant: a gap as long as the threshold is a break.
StartsAtThreshold == {i \in DOMAIN chat : i = 1 \/ (i > 1 /\ Gap(i) >= AdaptiveGap)}

\* split_into_blocks: where the blocks begin that a silence longer than gap cuts.
Split[gap \in Int] == {i \in DOMAIN chat : i = 1 \/ (i > 1 /\ Gap(i) > gap)}
Starts == Split[AdaptiveGap]
End(s) == Min({t \in Starts : t > s} \cup {Len(chat) + 1}) - 1
Before(s) == Max({t \in Starts : t < s})

\* Mutant: the last word of the chat decides, not that of the block.
SustainedToday(s) == /\ \E i \in s..Len(chat) : By(i) # By(s)
                     /\ By(Len(chat)) = By(s)

\* _block_was_sustained: the other one spoke and the opener had the last word.
Sustained(s) == /\ \E i \in s..End(s) : By(i) # By(s)
                /\ By(End(s)) = By(s)
Opening(s) == IF Sustained(s) THEN "initiative" ELSE "abandoned_open"

\* Mutant: whoever writes after the other one's last word opens.
KindNoLateReply(s) == IF s > 1 /\ By(s) = By(s - 1) THEN "double_text" ELSE Opening(s)

\* _initiative_balance: the bucket of the block that starts at s.
Kind(s) == IF s = 1 THEN Opening(s)
           ELSE IF By(s) = By(s - 1) THEN "double_text"
           ELSE IF By(Before(s)) = By(s - 1) THEN "late_reply"
           ELSE Opening(s)

---------------------------------------------------------------------------
(* Weeks: the inputs of the decay metric *)

Day(t) == t \div 24
Week(t) == Day(t) \div 7
Weeks == {Week(chat[i].at) : i \in DOMAIN chat}
In(w) == {i \in DOMAIN chat : Week(chat[i].at) = w}
FirstDay == Day(chat[1].at)
LastDay == Day(chat[Len(chat)].at)

\* Mutant: the day of the last message is not counted.
CoveredDaysShort(w) ==
  Max({1, Min({7 * w + 6, LastDay - 1}) - Max({7 * w, FirstDay}) + 1})

CoveredDays(w) ==
  Max({1, Min({7 * w + 6, LastDay}) - Max({7 * w, FirstDay}) + 1})

\* Mutant: a silence belongs to the week in which it began.
SilenceWhereItBegan(w) == Max({0} \cup {Gap(i) : i \in {j \in Later : (j - 1) \in In(w)}})

\* The longest silence that a message of the week broke; 0 when there is none.
Silence(w) == Max({0} \cup {Gap(i) : i \in In(w) \ {1}})

\* Mutant: the mean wait of a handoff.
NeglectMean(w) ==
  LET late == DecayDelays \cap In(w)
  IN MapThenSumSet(LAMBDA i : Min({Gap(i), 12}), late)
       \div Max({1, Cardinality(Handoffs \cap In(w))})

\* Neglect units, in twelfths: a delayed answer counts its hours up to twelve.
Neglect(w) == MapThenSumSet(LAMBDA i : Min({Gap(i), 12}), DecayDelays \cap In(w))

\* Mutant: the sign of the difference is kept.
ImbalanceSigned(w, p) ==
  LET all == Starts \cap In(w)
      mine == {s \in all : By(s) = p}
  IN IF Cardinality(all) >= 2 /\ Cardinality({By(i) : i \in DOMAIN chat}) = 2
     THEN <<2 * Cardinality(mine) - Cardinality(all), Cardinality(all)>> ELSE <<1, 1>>

\* How uneven the openings of the week are, over the number of them.
Imbalance(w, p) ==
  LET all == Starts \cap In(w)
      mine == {s \in all : By(s) = p}
      gap == 2 * Cardinality(mine) - Cardinality(all)
  IN IF Cardinality(all) >= 2 /\ Cardinality({By(i) : i \in DOMAIN chat}) = 2
     THEN <<IF gap < 0 THEN -gap ELSE gap, Cardinality(all)>> ELSE <<1, 1>>

\* Mutant: the days are counted as calendar days, the first one too.
SufficientByCalendar == /\ Len(chat) >= MinMessages
                        /\ LastDay - FirstDay + 1 >= 7

\* The guard of TemporalAnalyzer.analyze.
Sufficient == /\ Len(chat) >= MinMessages /\ Len(chat) >= 2
              /\ Day(chat[Len(chat)].at - chat[1].at) >= 7

---------------------------------------------------------------------------
(* Properties *)

InOrder == \A i \in Later : Gap(i) >= 0
Breaks == Starts \ {1}

\* "never split a conversation on a sub-hour lull", "a > 6 h silence always
\* ends a conversation" (temporal.py:28-29), whatever the rhythm is.
SilencesEndConversations ==
  \A i \in Later : /\ Gap(i) > Ceiling => i \in Breaks
                   /\ Gap(i) <= Floor => i \notin Breaks

\* "a new conversation = a silence in the pair's top 5%" (temporal.py:27):
\* unless the ceiling cuts it short, no more gaps than that are breaks.
BreaksAreRare ==
  HasRhythm /\ P95 <= Ceiling =>
    100 * Cardinality(Breaks) <= (100 - Pct) * Size

\* Between two people, whoever is credited with an initiative after the first
\* block also opened the block before: an opening after the other one's
\* opening is their own double text, or a late reply.
InitiativeNeedsAnEarlierOpening ==
  Cardinality(People) = 2 =>
    \A s \in Breaks : Kind(s) \in {"initiative", "abandoned_open"} => By(Before(s)) = By(s)

\* Both ways to find the answers, over turns and over neighbours, agree.
ResponsesAreHandoffs ==
  Responses = {i \in Handoffs : Gap(i) > 0 /\ Gap(i) <= MaxResponse}

\* The 90th percentile is within the hour exactly when more than nine answers
\* in ten are: p90_seconds and consistency_score never tell different stories.
P90AgreesWithConsistency ==
  \A p \in People : LET S == Answers(p)
                    IN S # {} => (P90(S) <= 1 <=> 10 * WithinAnHour(S) > 9 * Cardinality(S))

\* "even their 95th-percentile pause is below the block floor" (temporal.py:763):
\* confidence is lowered exactly when more gaps than that are below the floor.
ContinuousIsJudgedByGaps ==
  HasRhythm => (Continuous <=> 100 * Cardinality({i \in Rhythm : Gap(i) < Floor}) > Pct * Size)

\* The conversation that starts at s is over whatever the threshold becomes:
\* cut off by silences above the ceiling, without a lull above the floor inside.
Settled(s) == /\ s > 1 => Gap(s) > Ceiling
              /\ End(s) < Len(chat) /\ Gap(End(s) + 1) > Ceiling
              /\ \A i \in (s + 1)..End(s) : Gap(i) <= Floor

\* A message leaves a settled conversation whole, with the opening it had, even
\* when it moves the threshold. It reclassifies no other finished one only as
\* long as the threshold stays: a new percentile may cut all of them anew.
FinishedConversationsStand ==
  [][/\ \A s \in Starts : Settled(s) =>
          s \in Starts' /\ End(s)' = End(s) /\ Opening(s)' = Opening(s)
     /\ AdaptiveGap' = AdaptiveGap =>
          \A s \in Starts : End(s) < Len(chat) => s \in Starts' /\ Kind(s)' = Kind(s)]_chat

\* The days a week is said to cover hold all days on which it has messages.
CoveredDaysHoldTheMessages ==
  InOrder => \A w \in Weeks :
    Cardinality({Day(chat[i].at) : i \in In(w)}) <= CoveredDays(w)

\* The longest silence of a chat shows in some week, and the silences of the
\* weeks after the first reach across all weeks without a message.
SilenceIsSeen ==
  InOrder => /\ \A i \in Later : \E w \in Weeks : Silence(w) >= Gap(i)
             /\ \A v, w \in Weeks :
                  v < w /\ Weeks \cap (v + 1)..(w - 1) = {} =>
                    24 * 7 * (w - v - 1) < Silence(w)

\* "a high message volume cannot mask it" (temporal.py:516): no message lowers
\* the neglect that a week already shows.
NeglectIsNotMasked == [][\A w \in Weeks : Neglect(w)' >= Neglect(w)]_chat

\* The balance of a week is the same whichever of the two is participants[0],
\* and it is worst exactly when one of them opened everything or there were too
\* few openings to judge (temporal.py:595-601).
ImbalanceIsMutual ==
  \A p \in People : \A q \in People \ {p} : {By(i) : i \in DOMAIN chat} = {p, q} =>
    \A w \in Weeks :
      LET opened == Starts \cap In(w)
          x == Imbalance(w, p)
      IN /\ x = Imbalance(w, q)
         /\ x[1] = x[2] <=> Cardinality(opened) < 2 \/ Cardinality({By(s) : s \in opened}) < 2

\* A chat that is long enough to be analyzed has the two weeks that the decay
\* metric needs: its own "insufficient_data" (line 576) is never the answer.
EnoughWeeks == Sufficient => Cardinality(Weeks) >= 2
============================================================================
