------------------------------ MODULE Analyzers ------------------------------
(***************************************************************************)
(* The parsers and the analyzers together.  They share nothing but the     *)
(* chat they are given, one after the other, so that each gets chats of    *)
(* its own: a behaviour is a behaviour of one of them, `topic`.            *)
(***************************************************************************)
EXTENDS Integers

CONSTANTS People,
          \* ChatParsing
          Platforms, Heads, Plains, MaxLines, MaxParsed, MaxChars,
          \* Sampling: of a chat in the order of its times, and of a shuffled one
          MinPerWeek,
          MaxTime, MaxSampled, WeekLength, Budgets,
          ShuffledTime, MaxShuffled, ShuffledWeek, ShuffledBudgets,
          \* Conversations
          MaxChat, FirstTimes, ChatSteps, MinMessages, MinSample, Pct,
          \* DecayTrend
          Kinds, MaxWeeks,
          \* Episodes
          LastEventDay, MaxEvents, MinMentions, MinMissedCalls, HighMentions, MaxEpisodes,
          \* Tone
          Scores, MaxScored, ToneSteps, QuarterLength, RecentWindow, MinPoints

VARIABLES topic,
          platform, monthFirst, file,      \* ChatParsing
          times,                           \* Sampling
          chat,                            \* Conversations
          weeks,                           \* DecayTrend
          mentions, missed, blockDays,     \* Episodes
          sample                           \* Tone

P == INSTANCE ChatParsing WITH MaxMessages <- MaxParsed
S == INSTANCE Sampling WITH chat <- times, MaxMessages <- MaxSampled, Ordered <- TRUE
U == INSTANCE Sampling WITH
       chat <- times, MaxTime <- ShuffledTime, MaxMessages <- MaxShuffled,
       WeekLength <- ShuffledWeek, Budgets <- ShuffledBudgets, Ordered <- FALSE
C == INSTANCE Conversations WITH MaxMessages <- MaxChat, Steps <- ChatSteps
D == INSTANCE DecayTrend
E == INSTANCE Episodes WITH LastDay <- LastEventDay
T == INSTANCE Tone WITH MaxMessages <- MaxScored, Steps <- ToneSteps, Window <- RecentWindow

ASSUME ParsingAssumption == /\ P!PlatformAssumption /\ P!HeadAssumption
                            /\ P!PlainAssumption /\ P!BoundAssumption
ASSUME SamplingAssumption == /\ S!BoundAssumption /\ S!BudgetAssumption
                             /\ U!BoundAssumption /\ U!BudgetAssumption
ASSUME ConversationAssumption == /\ C!PeopleAssumption /\ C!TimeAssumption
                                 /\ C!BoundAssumption
ASSUME DecayAssumption == D!KindsAssumption /\ D!MaxWeeksAssumption
ASSUME EpisodeAssumption == E!BoundAssumption /\ E!ThresholdAssumption
ASSUME ToneAssumption == T!PeopleAssumption /\ T!ScoreAssumption /\ T!TimeAssumption

---------------------------------------------------------------------------

parsingVars == <<platform, monthFirst, file>>
episodeVars == <<mentions, missed, blockDays>>
vars == <<topic, parsingVars, times, chat, weeks, episodeVars, sample>>

Init == /\ topic \in {"export", "sample", "shuffled", "conversations", "weeks",
                     "episodes", "tone"}
        /\ P!Init /\ S!Init /\ C!Init /\ D!Init /\ E!Init /\ T!Init
        /\ topic # "export" => platform = "imessage"

Parsing == /\ topic = "export" /\ P!Next
           /\ UNCHANGED <<topic, times, chat, weeks, episodeVars, sample>>
SamplingIt == /\ \/ topic = "sample" /\ S!Next
                 \/ topic = "shuffled" /\ U!Next
              /\ UNCHANGED <<topic, parsingVars, chat, weeks, episodeVars, sample>>
Conversing == /\ topic = "conversations" /\ C!Next
              /\ UNCHANGED <<topic, parsingVars, times, weeks, episodeVars, sample>>
Decaying == /\ topic = "weeks" /\ D!Next
            /\ UNCHANGED <<topic, parsingVars, times, chat, episodeVars, sample>>
Quarrelling == /\ topic = "episodes" /\ E!Next
               /\ UNCHANGED <<topic, parsingVars, times, chat, weeks, sample>>
Toning == /\ topic = "tone" /\ T!Next
          /\ UNCHANGED <<topic, parsingVars, times, chat, weeks, episodeVars>>

Next == Parsing \/ SamplingIt \/ Conversing \/ Decaying \/ Quarrelling \/ Toning
Spec == Init /\ [][Next]_vars

---------------------------------------------------------------------------
(* Properties *)

\* ChatParsing: what the analyzers are given is the export, with true dates and
\* no text lost, in chats and messages that keep their caps exactly.
ExportIsReadTrue ==
  topic = "export" => /\ P!DatesAreTrue /\ P!NothingIsLost
                      /\ P!ChatIsCapped /\ P!CapIsExact

\* Sampling: the sample uses exactly its budget, hears every week and the
\* newest message, favours busier weeks; the narrative's timeline thins alike.
\* A shuffled export is sampled in the order of time.
SampleIsFair ==
  /\ topic = "sample" => /\ S!BudgetIsUsed /\ S!EveryWeekIsHeard /\ S!LatestIsHeard
                         /\ S!BusierWeeksGetMore /\ S!TimelineIsSpaced
  /\ topic = "shuffled" => U!Chronological /\ U!BudgetIsUsed

\* Conversations: where they break follows the pair's silences, and who opened
\* them follows from the one before.
BlocksFollowSilences ==
  topic = "conversations" => /\ C!SilencesEndConversations /\ C!BreaksAreRare
                             /\ C!InitiativeNeedsAnEarlierOpening

\* Conversations: metrics that look at the same answers, gaps and weeks in
\* different ways tell the same story about them.
MetricsAgree ==
  topic = "conversations" =>
    /\ C!ResponsesAreHandoffs /\ C!P90AgreesWithConsistency
    /\ C!ContinuousIsJudgedByGaps /\ C!ImbalanceIsMutual
    /\ C!CoveredDaysHoldTheMessages /\ C!SilenceIsSeen /\ C!EnoughWeeks

\* Conversations, Episodes: what one more message or event leaves as it was: a
\* conversation between silences above the ceiling and without a gap above the
\* floor, any finished conversation while the threshold stays (one that moves may
\* cut them anew), the neglect of a week, episodes.
PastStands == /\ C!FinishedConversationsStand /\ C!NeglectIsNotMasked
              /\ E!EpisodesOnlyGrow

\* DecayTrend: start, turning point, trend and score of one verdict agree with
\* the weeks they name.
VerdictIsInTheWeeks ==
  topic = "weeks" => /\ D!StartShowsTheDrop /\ D!TailIsNotTrusted
                     /\ D!TurningPointIsWorse /\ D!ScoreAgreesWithTrend

\* Episodes: they are the maximal runs of conflict days, count each mention
\* once, and the narrative is given the grave ones.
EpisodesAreWhole == topic = "episodes" => E!EpisodesAreWhole

\* Tone: the dominant tone is a largest one, the pair parted where the drift
\* turns, and the quarter named for it is the right one unless one of them was
\* silent in an earlier one; drift ignores a silent partner, a shift has a
\* baseline and is not moved by volume.
ToneIsOfBoth == /\ [](T!DominantIsLargest /\ T!TurnsWhereTheyParted /\ T!ShiftHasABaseline)
                /\ T!SilenceIsNoTone /\ T!VolumeDoesNotShift
===========================================================================
