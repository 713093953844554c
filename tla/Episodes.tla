------------------------------ MODULE Episodes ------------------------------
(***************************************************************************)
(* The conflict episodes of a chat: _episodes of conflict.py, and the      *)
(* choice of the heaviest ones for the narrative, _conflict_summary of     *)
(* narrative.py.  The chat grows by one mention, missed call or block at a *)
(* time, on any day: exports need not be in order.                         *)
(***************************************************************************)
EXTENDS Integers, FiniteSets, FiniteSetsExt

CONSTANTS LastDay, MaxEvents,     \* bounds on the chat
          MinMentions,            \* _EPISODE_MIN_MENTIONS, 3 in the code
          MinMissedCalls,         \* _EPISODE_MIN_MISSED_CALLS, 8
          HighMentions,           \* _EPISODE_HIGH_MENTIONS, 8
          MaxEpisodes             \* _MAX_EPISODES of the narrative, 15

BoundAssumption == {LastDay, MaxEvents} \subseteq Nat
ThresholdAssumption ==
  {MinMentions, MinMissedCalls, HighMentions, MaxEpisodes} \subseteq Nat \ {0}

MaxGapDays == 2     \* _EPISODE_MAX_GAP_DAYS

Days == 0..LastDay

VARIABLES mentions, missed,   \* how many there are on each day
          blockDays           \* the days with a block event

vars == <<mentions, missed, blockDays>>

Total(f, S) == MapThenSumSet(LAMBDA d : f[d], S)

Init == /\ mentions = [d \in Days |-> 0]
        /\ missed = [d \in Days |-> 0]
        /\ blockDays = {}

Mention(d) == /\ mentions' = [mentions EXCEPT ![d] = @ + 1]
              /\ UNCHANGED <<missed, blockDays>>
MissedCall(d) == /\ missed' = [missed EXCEPT ![d] = @ + 1]
                 /\ UNCHANGED <<mentions, blockDays>>
Block(d) == /\ blockDays' = blockDays \cup {d}
            /\ UNCHANGED <<mentions, missed>>
Next == /\ Total(mentions, Days) + Total(missed, Days) + Cardinality(blockDays) < MaxEvents
        /\ \E d \in Days : Mention(d) \/ MissedCall(d) \/ Block(d)
Spec == Init /\ [][Next]_vars

---------------------------------------------------------------------------

ConflictDays == {d \in Days : \/ mentions[d] >= MinMentions
                              \/ missed[d] >= MinMissedCalls
                              \/ d \in blockDays}

\* Mutant: the distance is measured from the first day of the episode.
EndsMeasuredFromStart(s) ==
  Max({d \in ConflictDays : d >= s /\ d - s <= MaxGapDays})

Starts == {d \in ConflictDays : ConflictDays \cap (d - MaxGapDays)..(d - 1) = {}}

\* The last day of the episode that starts on s: before the next start.
Ends(s) == LET starts == Starts
           IN Max({d \in ConflictDays : d >= s /\ starts \cap (s + 1)..d = {}})

\* Mutant: the conflict days only, not the quiet day that bridged two.
SpanOfConflictDays(s) == ConflictDays \cap s..Ends(s)

Span(s) == s..Ends(s)

Episode(s) ==
  LET n == Total(mentions, Span(s))
      blocked == Span(s) \cap blockDays # {}
  IN [start |-> s, end |-> Ends(s), mentions |-> n,
      missed |-> Total(missed, Span(s)), blocked |-> blocked,
      severity |-> IF n >= HighMentions \/ blocked THEN "high" ELSE "medium"]
AllEpisodes == {Episode(s) : s \in Starts}

\* Mutant: by mentions alone.
HeavierByMentions(e, f) == \/ e.mentions > f.mentions
                           \/ e.mentions = f.mentions /\ e.start < f.start

\* e comes before f when the episodes are sorted by weight; the sort is stable.
Heavier(e, f) == \/ e.blocked /\ ~f.blocked
                 \/ /\ e.blocked = f.blocked
                    /\ \/ e.mentions > f.mentions
                       \/ e.mentions = f.mentions /\ e.start < f.start

\* _conflict_summary: the episodes that the narrative is given.
Kept == LET all == AllEpisodes
        IN {e \in all : Cardinality({f \in all : Heavier(f, e)}) < MaxEpisodes}

---------------------------------------------------------------------------
(* Properties *)

\* "Conflict days at most one quiet day apart merge into one episode"
\* (conflict.py:111): every conflict day is in one episode, no episode holds
\* two quiet days in a row, and two episodes are further apart than that.
EpisodesAreMaximal ==
  LET all == AllEpisodes
      days == ConflictDays
  IN /\ \A d \in days : Cardinality({e \in all : d \in e.start..e.end}) = 1
     /\ \A e \in all : \A d \in e.start..(e.end - 1) : {d, d + 1} \cap days # {}
     /\ \A e, f \in all : e.start < f.start => f.start - e.end > MaxGapDays

\* No mention is counted in two episodes, and none within one is left out.
MentionsCountOnce ==
  LET all == AllEpisodes
  IN MapThenSumSet(LAMBDA e : e.mentions, all)
       = Total(mentions, {d \in Days : \E e \in all : d \in e.start..e.end})

\* One more event never splits, shrinks or plays down an episode: it only ever
\* grows, or merges with another one.
EpisodesOnlyGrow ==
  [][LET after == AllEpisodes'
     IN \A e \in AllEpisodes : \E f \in after :
          /\ f.start <= e.start /\ e.end <= f.end
          /\ f.mentions >= e.mentions /\ f.missed >= e.missed
          /\ e.blocked => f.blocked
          /\ e.severity = "high" => f.severity = "high"]_vars

\* "without losing its worst moments" (narrative.py:312): an episode of high
\* severity is dropped only if all that are kept are of high severity too, and
\* the payload is full whenever something is dropped.
GraveEpisodesAreKept ==
  LET all == AllEpisodes
      kept == Kept
  IN kept # all =>
       /\ Cardinality(kept) = MaxEpisodes
       /\ (\E e \in all \ kept : e.severity = "high")
            => \A e \in kept : e.severity = "high"

\* What the report and the narrative say about conflict is in the chat.
EpisodesAreWhole == EpisodesAreMaximal /\ MentionsCountOnce /\ GraveEpisodesAreKept
=============================================================================
