--------------------------- MODULE AnalyzersProofs --------------------------
(***************************************************************************)
(* Theorems about the parsers and the analyzers, for every chat and any    *)
(* bounds: where the conflict episodes lie, what they count and which of   *)
(* them the narrative is given; that the verdict on a decay is in the      *)
(* weeks it names; that conversations break where the silences are and     *)
(* that the metrics of one chat tell one story; that an export is read     *)
(* true; that the sample of a long chat is fair; whose the tone is; and    *)
(* what one more message or event may change.  One part for each module,   *)
(* and the theorems last.                                                  *)
(***************************************************************************)
EXTENDS Analyzers, FiniteSums, SequenceTheorems

---------------------------------------------------------------------------
(* Runs of days, for any set A of them *)

Begins(A) == {d \in A : A \cap (d - E!MaxGapDays)..(d - 1) = {}}

\* The run of A that begins on s ends on e.
Cut(A, s, e) ==
  /\ s \in Begins(A) /\ e \in A /\ s <= e
  /\ Begins(A) \cap (s + 1)..e = {}
  /\ \A d \in A : s <= d /\ Begins(A) \cap (s + 1)..d = {} => d <= e

LEMMA BeginsAre ==
  ASSUME NEW A \in SUBSET Nat, NEW d \in A
  PROVE  d \in Begins(A) <=> d - 1 \notin A /\ d - 2 \notin A
<1>1. d \in Int /\ (d - 2)..(d - 1) = {d - 2, d - 1}
  OBVIOUS
<1>2. QED
  BY <1>1 DEF Begins, E!MaxGapDays

\* Behind every day of A lies the beginning of its run.
LEMMA RunBegins ==
  ASSUME NEW A \in SUBSET Nat, NEW d \in A
  PROVE  \E s \in Begins(A) : s <= d /\ Begins(A) \cap (s + 1)..d = {}
<1> DEFINE B == {s \in Begins(A) : s <= d}
<1>1. B \in SUBSET (0..d)
  <2>1. d \in Nat /\ Begins(A) \subseteq Nat
    BY DEF Begins
  <2>2. QED
    BY <2>1
<1>2. B # {}
  <2>1. PICK m \in A : \A x \in A : m <= x
    BY LeastNumber
  <2>2. m \in Nat /\ m - 1 \notin A /\ m - 2 \notin A
    <3>1. m \in Nat
      OBVIOUS
    <3>2. ~(m <= m - 1) /\ ~(m <= m - 2)
      BY <3>1
    <3>3. QED
      BY <2>1, <3>1, <3>2
  <2>3. m \in Begins(A) /\ m <= d
    BY <2>1, <2>2, BeginsAre
  <2>4. QED
    BY <2>3
<1>3. PICK s \in B : \A x \in B : x <= s
  <2> HIDE DEF B
  <2>1. d \in Nat
    OBVIOUS
  <2>2. Max(B) \in B /\ \A y \in B : y <= Max(B)
    BY <1>1, <1>2, <2>1, GreatestElement
  <2>3. QED
    BY <2>2
<1>4. Begins(A) \cap (s + 1)..d = {}
  <2> SUFFICES ASSUME NEW x \in Begins(A), x \in (s + 1)..d PROVE FALSE
    OBVIOUS
  <2>1. s \in Int /\ d \in Int /\ x \in Int /\ x <= d /\ s + 1 <= x
    BY DEF Begins
  <2>2. x \in B
    BY <2>1
  <2>3. x <= s
    BY <1>3, <2>2
  <2>4. QED
    BY <2>1, <2>3
<1>5. QED
  BY <1>3, <1>4

\* A run holds no two days outside A in a row.
LEMMA RunIsDense ==
  ASSUME NEW A \in SUBSET Nat, NEW s, NEW e, Cut(A, s, e), NEW d \in s..(e - 1)
  PROVE  d \in A \/ d + 1 \in A
<1> SUFFICES ASSUME d \notin A, d + 1 \notin A PROVE FALSE
  OBVIOUS
<1>1. s \in A /\ e \in A /\ s \in Nat /\ e \in Nat /\ d \in Nat /\ s <= d /\ d + 1 <= e
  BY DEF Cut, Begins
<1> DEFINE R == {x \in A : d < x}
<1>2. e \in R /\ R \in SUBSET Nat
  <2>1. d < e
    BY <1>1
  <2>2. QED
    BY <1>1, <2>1
<1>3. PICK x \in R : \A y \in R : x <= y
  <2> HIDE DEF R
  <2>1. QED
    BY <1>2, LeastNumber
<1>4. x \in A /\ x \in Nat /\ d < x /\ x <= e /\ x # d + 1
  BY <1>2, <1>3
<1>5. x - 1 \notin A
  <2>1. d < x - 1 /\ ~(x <= x - 1)
    BY <1>1, <1>4
  <2>2. QED
    BY <1>3, <2>1
<1>6. x - 2 \notin A
  <2>1. CASE x - 2 = d
    BY <2>1
  <2>2. CASE x - 2 # d
    <3>1. d < x - 2 /\ ~(x <= x - 2)
      BY <1>1, <1>4, <2>2
    <3>2. QED
      BY <1>3, <3>1
  <2>3. QED
    BY <2>1, <2>2
<1>7. x \in Begins(A)
  BY <1>4, <1>5, <1>6, BeginsAre
<1>8. x \in (s + 1)..e
  BY <1>1, <1>4
<1>9. QED
  BY <1>7, <1>8 DEF Cut

\* The next run begins after at least MaxGapDays days outside A.
LEMMA RunsAreApart ==
  ASSUME NEW A \in SUBSET Nat, NEW s, NEW e, Cut(A, s, e),
         NEW t \in Begins(A), s < t
  PROVE  t - e > E!MaxGapDays
<1>1. s \in Nat /\ e \in Nat /\ t \in Nat /\ e \in A /\ t \in A
  BY DEF Cut, Begins
<1>2. e < t
  <2>1. t \notin (s + 1)..e
    BY DEF Cut
  <2>2. QED
    BY <1>1, <2>1
<1>3. t - 1 # e /\ t - 2 # e
  BY <1>1, BeginsAre
<1>4. QED
  BY <1>1, <1>2, <1>3 DEF E!MaxGapDays

\* A day is in one run only.
LEMMA RunsAreDisjoint ==
  ASSUME NEW A \in SUBSET Nat, NEW s, NEW e, Cut(A, s, e), NEW t, NEW f, Cut(A, t, f),
         NEW d \in Nat, d \in s..e, d \in t..f
  PROVE  s = t
<1>1. s \in Begins(A) /\ t \in Begins(A)
  BY DEF Cut
<1>2. s \in Nat /\ e \in Nat /\ t \in Nat /\ f \in Nat
  BY DEF Cut, Begins
<1>3. ~(s < t)
  <2>1. s < t => t - e > 2
    BY <1>1, RunsAreApart DEF E!MaxGapDays
  <2>2. QED
    BY <1>2, <2>1
<1>4. ~(t < s)
  <2>1. t < s => s - f > 2
    BY <1>1, RunsAreApart DEF E!MaxGapDays
  <2>2. QED
    BY <1>2, <2>1
<1>5. QED
  BY <1>2, <1>3, <1>4

\* With more days in the set, a run is within the run that now holds its first.
LEMMA RunsGrow ==
  ASSUME NEW A \in SUBSET Nat, NEW K \in SUBSET Nat, A \subseteq K,
         NEW s, NEW e, Cut(A, s, e), NEW t, NEW f, Cut(K, t, f), t <= s, s <= f
  PROVE  e <= f
<1>1. /\ s \in Nat /\ e \in Nat /\ t \in Nat /\ f \in Nat
      /\ s \in A /\ e \in A /\ s <= e /\ e \in K
  BY DEF Cut, Begins
<1>2. Begins(K) \cap (t + 1)..e = {}
  <2> SUFFICES ASSUME NEW x \in Begins(K), x \in (t + 1)..e PROVE FALSE
    OBVIOUS
  <2>1. x \in Nat /\ t < x /\ x <= e /\ x \in K
    BY <1>1 DEF Begins
  <2>2. x - 1 \notin A /\ x - 2 \notin A
    BY <2>1, BeginsAre
  <2>3. s < x
    <3>1. x \notin (t + 1)..f
      BY DEF Cut
    <3>2. QED
      BY <1>1, <2>1, <3>1
  <2>4. x - 1 # s
    BY <1>1, <2>2
  <2>5. x - 2 \in s..(e - 1) /\ (x - 2) + 1 = x - 1
    BY <1>1, <2>1, <2>3, <2>4
  <2>6. QED
    BY <2>2, <2>5, RunIsDense
<1>3. QED
  BY <1>1, <1>2 DEF Cut

---------------------------------------------------------------------------
(* The episodes of a chat are the runs of its conflict days. *)

Counts == [E!Days -> Nat]
EventsTyped == mentions \in Counts /\ missed \in Counts /\ blockDays \in SUBSET E!Days

LEMMA EventsTypedInit == E!Init => EventsTyped
BY DEF E!Init, EventsTyped, Counts

LEMMA EventsTypedStep == EventsTyped /\ [E!Next]_(E!vars) => EventsTyped'
<1> SUFFICES ASSUME EventsTyped, [E!Next]_(E!vars) PROVE EventsTyped'
  OBVIOUS
<1>1. ASSUME NEW d \in E!Days, E!Mention(d) PROVE EventsTyped'
  BY <1>1 DEF EventsTyped, Counts, E!Mention
<1>2. ASSUME NEW d \in E!Days, E!MissedCall(d) PROVE EventsTyped'
  BY <1>2 DEF EventsTyped, Counts, E!MissedCall
<1>3. ASSUME NEW d \in E!Days, E!Block(d) PROVE EventsTyped'
  BY <1>3 DEF EventsTyped, Counts, E!Block
<1>4. CASE UNCHANGED E!vars
  BY <1>4 DEF EventsTyped, Counts, E!vars
<1>5. QED
  BY <1>1, <1>2, <1>3, <1>4 DEF E!Next

LEMMA DaysAre == E!BoundAssumption => /\ E!Days = 0..LastEventDay /\ LastEventDay \in Nat
                                    /\ IsFiniteSet(E!Days) /\ E!Days \subseteq Nat
<1> SUFFICES ASSUME E!BoundAssumption PROVE IsFiniteSet(E!Days) /\ LastEventDay \in Nat
  BY DEF E!Days
<1>1. LastEventDay \in Nat
  BY DEF E!BoundAssumption
<1>2. QED
  BY <1>1, FS_Interval DEF E!Days

\* Ends(s) as a set and its greatest element.
Reached(s) == {d \in E!ConflictDays : d >= s /\ E!Starts \cap (s + 1)..d = {}}

LEMMA EndsIs == \A s : E!Ends(s) = Max(Reached(s))
BY Zenon DEF E!Ends, Reached, E!Max, Max

LEMMA StartsAre == E!Starts = Begins(E!ConflictDays) /\ E!ConflictDays \subseteq E!Days
BY DEF E!Starts, Begins, E!ConflictDays

EndsAreCuts == \A s \in E!Starts : Cut(E!ConflictDays, s, E!Ends(s))

LEMMA EpisodesCut == E!BoundAssumption => EndsAreCuts
<1> SUFFICES ASSUME E!BoundAssumption, NEW s \in E!Starts
             PROVE  Cut(E!ConflictDays, s, E!Ends(s))
  BY DEF EndsAreCuts
<1>1. s \in E!ConflictDays /\ s \in Nat /\ E!ConflictDays \subseteq Nat /\ Reached(s) \subseteq Nat
  BY DaysAre, StartsAre DEF E!Starts, Reached
<1>2. Reached(s) \in SUBSET (0..LastEventDay) /\ LastEventDay \in Nat
  BY DaysAre, StartsAre DEF Reached
<1>3. s \in Reached(s)
  <2>1. (s + 1)..s = {}
    BY <1>1
  <2>2. QED
    BY <1>1, <2>1 DEF Reached
<1>4. E!Ends(s) \in Reached(s) /\ \A d \in Reached(s) : d <= E!Ends(s)
  <2>1. Reached(s) # {}
    BY <1>3
  <2>2. QED
    BY <1>2, <2>1, EndsIs, GreatestElement
<1>5. E!Ends(s) \in E!ConflictDays /\ s <= E!Ends(s) /\ E!Starts \cap (s + 1)..E!Ends(s) = {}
  BY <1>1, <1>4 DEF Reached
<1>6. ASSUME NEW d \in E!ConflictDays, s <= d, E!Starts \cap (s + 1)..d = {} PROVE d <= E!Ends(s)
  <2>1. d \in Reached(s)
    BY <1>1, <1>6 DEF Reached
  <2>2. QED
    BY <1>4, <2>1
<1>7. QED
  BY <1>5, <1>6, StartsAre DEF Cut

EpisodesCount ==
  \A s : /\ E!Episode(s).start = s /\ E!Episode(s).end = E!Ends(s)
         /\ E!Episode(s).mentions = SumOver(mentions, s..E!Ends(s))
         /\ E!Episode(s).missed = SumOver(missed, s..E!Ends(s))
         /\ E!Episode(s).blocked <=> (s..E!Ends(s)) \cap blockDays # {}
         /\ E!Episode(s).blocked \in BOOLEAN
         /\ E!Episode(s).severity = IF \/ E!Episode(s).mentions >= HighMentions
                                     \/ E!Episode(s).blocked
                                  THEN "high" ELSE "medium"

LEMMA EpisodeIs == EpisodesCount
<1> SUFFICES ASSUME NEW s
             PROVE  /\ E!Episode(s).start = s /\ E!Episode(s).end = E!Ends(s)
                    /\ E!Episode(s).mentions = SumOver(mentions, s..E!Ends(s))
                    /\ E!Episode(s).missed = SumOver(missed, s..E!Ends(s))
                    /\ E!Episode(s).blocked <=> (s..E!Ends(s)) \cap blockDays # {}
                    /\ E!Episode(s).blocked \in BOOLEAN
                    /\ E!Episode(s).severity = IF \/ E!Episode(s).mentions >= HighMentions
                                                \/ E!Episode(s).blocked
                                             THEN "high" ELSE "medium"
  BY DEF EpisodesCount
<1> DEFINE n == SumOver(mentions, s..E!Ends(s))
           b == (s..E!Ends(s)) \cap blockDays # {}
<1>1. \A f, Q : E!Total(f, Q) = SumOver(f, Q)
  BY Zenon DEF E!Total, SumOver, E!MapThenSumSet, MapThenSumSet, E!MapThenFoldSet, MapThenFoldSet
<1>2. E!Span(s) = s..E!Ends(s)
  BY DEF E!Span
<1>3. E!Episode(s) = [start |-> s, end |-> E!Ends(s), mentions |-> n,
                    missed |-> SumOver(missed, s..E!Ends(s)), blocked |-> b,
                    severity |-> IF n >= HighMentions \/ b THEN "high" ELSE "medium"]
  BY <1>1, <1>2, Zenon DEF E!Episode
<1> HIDE DEF n, b
<1>4. /\ E!Episode(s).start = s /\ E!Episode(s).end = E!Ends(s) /\ E!Episode(s).mentions = n
      /\ E!Episode(s).missed = SumOver(missed, s..E!Ends(s)) /\ E!Episode(s).blocked = b
      /\ E!Episode(s).severity = IF n >= HighMentions \/ b THEN "high" ELSE "medium"
  BY <1>3
<1>5. b \in BOOLEAN
  BY DEF b
<1>6. QED
  BY <1>4, <1>5 DEF n, b

\* Every conflict day and no other place has its episode.
AllCovered == \A d \in E!ConflictDays : \E s \in E!Starts : s <= d /\ d <= E!Ends(s)

LEMMA CoveredBy == E!BoundAssumption => AllCovered
<1> SUFFICES ASSUME E!BoundAssumption, NEW d \in E!ConflictDays
             PROVE  \E s \in E!Starts : s <= d /\ d <= E!Ends(s)
  BY DEF AllCovered
<1>1. E!ConflictDays \in SUBSET Nat
  BY DaysAre, StartsAre
<1>2. PICK s \in E!Starts : s <= d /\ E!Starts \cap (s + 1)..d = {}
  BY <1>1, RunBegins, StartsAre
<1>3. Cut(E!ConflictDays, s, E!Ends(s))
  BY EpisodesCut DEF EndsAreCuts
<1>4. d <= E!Ends(s)
  BY <1>2, <1>3, StartsAre DEF Cut
<1>5. QED
  BY <1>2, <1>4

\* The conflict days are covered by episodes that lie apart and are dense.
LEMMA EpisodesMaximal == E!BoundAssumption => E!EpisodesAreMaximal
<1> SUFFICES ASSUME E!BoundAssumption PROVE E!EpisodesAreMaximal
  OBVIOUS
<1>0. E!ConflictDays \in SUBSET Nat
  BY DaysAre, StartsAre
<1>1. ASSUME NEW d \in E!ConflictDays
      PROVE  Cardinality({e \in E!AllEpisodes : d \in e.start..e.end}) = 1
  <2>1. PICK s \in E!Starts : s <= d /\ d <= E!Ends(s)
    BY CoveredBy DEF AllCovered
  <2>2. ASSUME NEW e \in E!AllEpisodes PROVE d \in e.start..e.end <=> e = E!Episode(s)
    <3>1. PICK t \in E!Starts : e = E!Episode(t)
      BY DEF E!AllEpisodes
    <3>2. e.start = t /\ e.end = E!Ends(t)
      BY <3>1, EpisodeIs DEF EpisodesCount
    <3>3. Cut(E!ConflictDays, s, E!Ends(s)) /\ Cut(E!ConflictDays, t, E!Ends(t))
      BY EpisodesCut DEF EndsAreCuts
    <3>4. s \in Nat /\ E!Ends(s) \in Nat /\ t \in Nat /\ E!Ends(t) \in Nat /\ d \in Nat
      BY <1>0, <3>3 DEF Cut, Begins
    <3>5. d \in s..E!Ends(s)
      BY <2>1, <3>4
    <3>6. d \in t..E!Ends(t) => t = s
      BY <1>0, <3>3, <3>4, <3>5, RunsAreDisjoint
    <3>7. e = E!Episode(s) => t = s
      BY <3>2, EpisodeIs DEF EpisodesCount
    <3>8. QED
      BY <3>1, <3>2, <3>5, <3>6, <3>7
  <2>3. E!Episode(s) \in E!AllEpisodes
    BY DEF E!AllEpisodes
  <2>4. {e \in E!AllEpisodes : d \in e.start..e.end} = {E!Episode(s)}
    BY <2>2, <2>3
  <2>5. QED
    BY <2>4, FS_Singleton
<1>2. ASSUME NEW e \in E!AllEpisodes, NEW d \in e.start..(e.end - 1)
      PROVE  {d, d + 1} \cap E!ConflictDays # {}
  <2>1. PICK s \in E!Starts : e = E!Episode(s)
    BY DEF E!AllEpisodes
  <2>2. d \in s..(E!Ends(s) - 1)
    BY <2>1, EpisodeIs DEF EpisodesCount
  <2>3. d \in E!ConflictDays \/ d + 1 \in E!ConflictDays
    BY <1>0, <2>2, EpisodesCut, RunIsDense DEF EndsAreCuts
  <2>4. QED
    BY <2>3
<1>3. ASSUME NEW e \in E!AllEpisodes, NEW f \in E!AllEpisodes, e.start < f.start
      PROVE  f.start - e.end > E!MaxGapDays
  <2>1. PICK s \in E!Starts : e = E!Episode(s)
    BY DEF E!AllEpisodes
  <2>2. PICK t \in E!Starts : f = E!Episode(t)
    BY DEF E!AllEpisodes
  <2>3. t - E!Ends(s) > E!MaxGapDays
    <3>1. s < t /\ t \in Begins(E!ConflictDays)
      BY <1>3, <2>1, <2>2, EpisodeIs, StartsAre DEF EpisodesCount
    <3>2. QED
      BY <1>0, <3>1, EpisodesCut, RunsAreApart DEF EndsAreCuts
  <2>4. QED
    BY <2>1, <2>2, <2>3, EpisodeIs DEF EpisodesCount
<1>4. QED
  BY <1>1, <1>2, <1>3, Zenon DEF E!EpisodesAreMaximal, E!Cardinality, Cardinality

---------------------------------------------------------------------------
(* One more event *)

\* Events are only added.
Grown == /\ \A d \in E!Days : mentions[d] <= mentions'[d] /\ missed[d] <= missed'[d]
         /\ blockDays \subseteq blockDays'

LEMMA ChatGrows == EventsTyped /\ [E!Next]_(E!vars) => Grown
<1> SUFFICES ASSUME EventsTyped, [E!Next]_(E!vars) PROVE Grown
  OBVIOUS
<1>0. /\ mentions \in [E!Days -> Nat] /\ missed \in [E!Days -> Nat]
      /\ \A n \in Nat : n <= n /\ n <= n + 1
  BY DEF EventsTyped, Counts
<1>1. ASSUME NEW d \in E!Days, E!Mention(d) PROVE Grown
  BY <1>0, <1>1 DEF Grown, E!Mention
<1>2. ASSUME NEW d \in E!Days, E!MissedCall(d) PROVE Grown
  BY <1>0, <1>2 DEF Grown, E!MissedCall
<1>3. ASSUME NEW d \in E!Days, E!Block(d) PROVE Grown
  BY <1>0, <1>3 DEF Grown, E!Block
<1>4. CASE UNCHANGED E!vars
  BY <1>0, <1>4 DEF Grown, E!vars
<1>5. QED
  BY <1>1, <1>2, <1>3, <1>4 DEF E!Next

LEMMA ConflictDaysGrow ==
  E!ThresholdAssumption /\ EventsTyped /\ EventsTyped' /\ Grown => E!ConflictDays \subseteq E!ConflictDays'
<1> SUFFICES ASSUME E!ThresholdAssumption, EventsTyped, EventsTyped', Grown, NEW d \in E!ConflictDays
             PROVE  d \in E!ConflictDays'
  OBVIOUS
<1>1. d \in E!Days /\ MinMentions \in Nat /\ MinMissedCalls \in Nat
  BY DEF E!ConflictDays, E!ThresholdAssumption
<1>2. /\ mentions[d] \in Nat /\ mentions'[d] \in Nat /\ mentions[d] <= mentions'[d]
      /\ missed[d] \in Nat /\ missed'[d] \in Nat /\ missed[d] <= missed'[d]
  BY <1>1 DEF EventsTyped, Counts, Grown
<1>3. d \in blockDays => d \in blockDays'
  BY DEF Grown
<1>4. mentions[d] >= MinMentions \/ missed[d] >= MinMissedCalls \/ d \in blockDays
  BY DEF E!ConflictDays
<1>5. mentions'[d] >= MinMentions \/ missed'[d] >= MinMissedCalls \/ d \in blockDays'
  BY <1>1, <1>2, <1>3, <1>4
<1>6. QED
  BY <1>1, <1>5 DEF E!ConflictDays

\* An episode lies within the days of the chat.
SpansAreDays ==
  \A s \in E!Starts : /\ s \in Nat /\ E!Ends(s) \in Nat /\ s <= E!Ends(s)
                    /\ (s..E!Ends(s)) \subseteq E!Days /\ IsFiniteSet(s..E!Ends(s))

LEMMA SpanIs == E!BoundAssumption => SpansAreDays
<1> SUFFICES ASSUME E!BoundAssumption, NEW s \in E!Starts
             PROVE  /\ s \in Nat /\ E!Ends(s) \in Nat /\ s <= E!Ends(s)
                    /\ (s..E!Ends(s)) \subseteq E!Days /\ IsFiniteSet(s..E!Ends(s))
  BY DEF SpansAreDays
<1>1. s \in E!Days /\ E!Ends(s) \in E!Days /\ s <= E!Ends(s)
  BY EpisodesCut, StartsAre DEF Cut, Begins, EndsAreCuts
<1>2. E!Days = 0..LastEventDay /\ LastEventDay \in Nat
  BY DaysAre
<1>3. s \in Nat /\ E!Ends(s) \in Nat /\ E!Ends(s) <= LastEventDay
  BY <1>1, <1>2
<1>4. (s..E!Ends(s)) \subseteq E!Days
  BY <1>2, <1>3
<1>5. QED
  BY <1>1, <1>3, <1>4, FS_Interval

\* The episode f of the longer chat holds the episode e.
Outgrows(f, e) ==
  /\ f.start <= e.start /\ e.end <= f.end
  /\ f.mentions >= e.mentions /\ f.missed >= e.missed
  /\ e.blocked => f.blocked
  /\ e.severity = "high" => f.severity = "high"

LEMMA EpisodeGrows ==
  ASSUME E!BoundAssumption, E!ThresholdAssumption, EventsTyped, EventsTyped', Grown, NEW e \in E!AllEpisodes
  PROVE  \E f \in E!AllEpisodes' : Outgrows(f, e)
<1>0. PICK s \in E!Starts : e = E!Episode(s)
  BY DEF E!AllEpisodes
<1>1. /\ E!ConflictDays \in SUBSET Nat /\ E!ConflictDays' \in SUBSET Nat
      /\ E!ConflictDays \subseteq E!ConflictDays'
  <2>1. E!ConflictDays \subseteq Nat
    BY DaysAre, StartsAre
  <2>2. E!Days' = E!Days
    BY DEF E!Days
  <2>3. E!ConflictDays' \subseteq Nat
    BY <2>2, DaysAre DEF E!ConflictDays
  <2>4. QED
    BY <2>1, <2>3, ConflictDaysGrow
<1>2. s \in E!ConflictDays'
  BY <1>1 DEF E!Starts
<1>3. E!BoundAssumption'
  BY DEF E!BoundAssumption
<1>4. PICK t \in E!Starts' : t <= s /\ s <= E!Ends(t)'
  <2>1. AllCovered'
    BY <1>3, CoveredBy, PTL
  <2>2. QED
    BY <1>2, <2>1 DEF AllCovered
<1>5. Cut(E!ConflictDays, s, E!Ends(s)) /\ Cut(E!ConflictDays', t, E!Ends(t)')
  <2>1. EndsAreCuts'
    BY <1>3, EpisodesCut, PTL
  <2>2. EndsAreCuts' => Cut(E!ConflictDays', t, E!Ends(t)')
    BY DEF EndsAreCuts, Cut, Begins
  <2>3. QED
    BY <2>1, <2>2, EpisodesCut DEF EndsAreCuts
<1>6. E!Ends(s) <= E!Ends(t)'
  BY <1>1, <1>4, <1>5, RunsGrow
<1>7. /\ s \in Nat /\ E!Ends(s) \in Nat /\ (s..E!Ends(s)) \subseteq E!Days
      /\ t \in Nat /\ E!Ends(t)' \in Nat /\ (t..E!Ends(t)') \subseteq E!Days
      /\ IsFiniteSet(t..E!Ends(t)')
  <2>1. SpansAreDays'
    BY <1>3, SpanIs, PTL
  <2>2. E!Days' = E!Days
    BY DEF E!Days
  <2>3. QED
    BY <2>1, <2>2, SpanIs DEF SpansAreDays
<1>8. (s..E!Ends(s)) \in SUBSET (t..E!Ends(t)')
  BY <1>4, <1>6, <1>7
<1>9. /\ SumOver(mentions, s..E!Ends(s)) <= SumOver(mentions', t..E!Ends(t)')
      /\ SumOver(missed, s..E!Ends(s)) <= SumOver(missed', t..E!Ends(t)')
  <2>1. \A d \in t..E!Ends(t)' : /\ mentions[d] \in Nat /\ mentions'[d] \in Nat
                               /\ mentions[d] <= mentions'[d]
    BY <1>7 DEF EventsTyped, Counts, Grown, E!Days
  <2>2. \A d \in t..E!Ends(t)' : /\ missed[d] \in Nat /\ missed'[d] \in Nat
                               /\ missed[d] <= missed'[d]
    BY <1>7 DEF EventsTyped, Counts, Grown, E!Days
  <2>3. SumOver(mentions, s..E!Ends(s)) <= SumOver(mentions', t..E!Ends(t)')
    BY <1>7, <1>8, <2>1, SumWithin
  <2>4. SumOver(missed, s..E!Ends(s)) <= SumOver(missed', t..E!Ends(t)')
    BY <1>7, <1>8, <2>2, SumWithin
  <2>5. QED
    BY <2>3, <2>4
<1>10. PICK f \in E!AllEpisodes' :
         /\ f.start = t /\ f.end = E!Ends(t)'
         /\ f.mentions = SumOver(mentions', t..E!Ends(t)')
         /\ f.missed = SumOver(missed', t..E!Ends(t)')
         /\ f.blocked <=> (t..E!Ends(t)') \cap blockDays' # {}
         /\ f.severity = IF f.mentions >= HighMentions \/ f.blocked THEN "high" ELSE "medium"
  <2>1. EpisodesCount'
    BY EpisodeIs, PTL
  <2>2. E!Episode(t)' \in E!AllEpisodes'
    BY DEF E!AllEpisodes
  <2>3. QED
    BY <2>1, <2>2 DEF EpisodesCount
<1>11. /\ e.start = s /\ e.end = E!Ends(s)
       /\ e.mentions = SumOver(mentions, s..E!Ends(s))
       /\ e.missed = SumOver(missed, s..E!Ends(s))
       /\ e.blocked <=> (s..E!Ends(s)) \cap blockDays # {}
       /\ e.severity = IF e.mentions >= HighMentions \/ e.blocked THEN "high" ELSE "medium"
  BY <1>0, EpisodeIs DEF EpisodesCount
<1>12. e.blocked => f.blocked
  BY <1>8, <1>10, <1>11 DEF Grown
<1>13. f.mentions >= e.mentions /\ f.missed >= e.missed
  BY <1>9, <1>10, <1>11
<1>14. e.severity = "high" => f.severity = "high"
  <2>1. HighMentions \in Int
    BY DEF E!ThresholdAssumption
  <2>2. e.mentions \in Int /\ f.mentions \in Int
    <3>1. \A d \in t..E!Ends(t)' : mentions'[d] \in Int
      BY <1>7 DEF EventsTyped, Counts, E!Days
    <3>2. \A d \in s..E!Ends(s) : mentions[d] \in Int
      BY <1>7 DEF EventsTyped, Counts, E!Days
    <3>3. IsFiniteSet(s..E!Ends(s))
      BY <1>7, FS_Interval
    <3>4. QED
      BY <1>7, <1>10, <1>11, <3>1, <3>2, <3>3, SumType
  <2>3. e.mentions >= HighMentions => f.mentions >= HighMentions
    BY <1>13, <2>1, <2>2
  <2>4. QED
    BY <1>10, <1>11, <1>12, <2>3
<1>15. f.start <= e.start /\ e.end <= f.end
  BY <1>4, <1>6, <1>10, <1>11
<1>16. QED
  BY <1>12, <1>13, <1>14, <1>15 DEF Outgrows

---------------------------------------------------------------------------
(* What the episodes count *)

\* The set of episodes is finite, and an episode is known by its first day.
LEMMA EpisodesAreFinite ==
  ASSUME E!BoundAssumption
  PROVE  /\ IsFiniteSet(E!AllEpisodes)
         /\ \A e, f \in E!AllEpisodes : e.start = f.start => e = f
<1> DEFINE first == [e \in E!AllEpisodes |-> e.start]
<1>1. \A e, f \in E!AllEpisodes : e.start = f.start => e = f
  BY EpisodeIs DEF E!AllEpisodes, EpisodesCount
<1>2. \A e \in E!AllEpisodes : e.start \in E!Starts
  BY EpisodeIs DEF E!AllEpisodes, EpisodesCount
<1>3. first \in Injection(E!AllEpisodes, E!Starts)
  BY <1>1, <1>2 DEF Injection, IsInjective
<1>4. IsFiniteSet(E!Starts)
  <2>1. E!Starts \in SUBSET E!Days
    BY StartsAre DEF Begins
  <2>2. QED
    BY <2>1, DaysAre, FS_Subset
<1>5. QED
  BY <1>1, <1>3, <1>4, FS_Injection

\* The sum of a field over records is the sum of a function on them.
LEMMA SumOfMentions ==
  ASSUME NEW V, IsFiniteSet(V), \A e \in V : e.mentions \in Int
  PROVE  MapThenSumSet(LAMBDA e : e.mentions, V) = SumOver([e \in V |-> e.mentions], V)
<1> DEFINE M == [e \in V |-> e.mentions]
           OneByOne(g) == g = [s \in SUBSET V |->
                                 IF s = {} THEN 0
                                 ELSE LET x == CHOOSE x \in s : TRUE
                                      IN  x.mentions + g[s \ {x}]]
           G == CHOOSE g : OneByOne(g)
<1>1. \A x \in V : M[x] \in Int /\ M[x] = x.mentions
  OBVIOUS
<1>2. ASSUME NEW g PROVE OneByOne(g) <=> Sums(M, V, g)
  <2>1. \A s \in SUBSET V : s # {} => Chosen(s) \in V
    BY DEF Chosen
  <2> HIDE DEF M
  <2>2. [s \in SUBSET V |-> IF s = {} THEN 0 ELSE M[Chosen(s)] + g[s \ {Chosen(s)}]]
          = [s \in SUBSET V |->
               IF s = {} THEN 0 ELSE Chosen(s).mentions + g[s \ {Chosen(s)}]]
    BY <1>1, <2>1
  <2>3. Sums(M, V, g) <=>
          g = [s \in SUBSET V |-> IF s = {} THEN 0 ELSE M[Chosen(s)] + g[s \ {Chosen(s)}]]
    BY Zenon DEF Sums, Chosen
  <2>4. OneByOne(g) <=>
          g = [s \in SUBSET V |->
                 IF s = {} THEN 0 ELSE Chosen(s).mentions + g[s \ {Chosen(s)}]]
    BY Zenon DEF Chosen
  <2>5. QED
    BY <2>2, <2>3, <2>4
<1>3. PICK g \in [SUBSET V -> Int] : Sums(M, V, g) /\ SumOver(M, V) = g[V]
  <2> HIDE DEF M
  <2>1. QED
    BY <1>1, SumOverSums
<1>4. Sums(M, V, G)
  <2> HIDE DEF M, OneByOne
  <2>1. OneByOne(g)
    BY <1>2, <1>3
  <2>2. OneByOne(G)
    BY <2>1, Zenon
  <2>3. QED
    BY <1>2, <2>2
<1>5. G[V] = g[V]
  <2> HIDE DEF M, G
  <2>1. V \in SUBSET V /\ \A x \in V : M[x] = M[x]
    OBVIOUS
  <2>2. QED
    BY <1>3, <1>4, <2>1, SumsAgree
<1>6. MapThenSumSet(LAMBDA e : e.mentions, V) = G[V]
  BY Zenon DEF MapThenSumSet, MapThenFoldSet
<1>7. QED
  <2> HIDE DEF M, G
  <2>1. MapThenSumSet(LAMBDA e : e.mentions, V) = SumOver(M, V)
    BY <1>3, <1>5, <1>6
  <2>2. QED
    BY <2>1 DEF M

DaysIn(V) == {d \in E!Days : \E e \in V : d \in e.start..e.end}

LEMMA EpisodeTypes ==
  ASSUME E!BoundAssumption, EventsTyped, NEW e \in E!AllEpisodes
  PROVE  /\ e.start \in Nat /\ e.end \in Nat /\ (e.start..e.end) \subseteq E!Days
         /\ IsFiniteSet(e.start..e.end)
         /\ e.mentions = SumOver(mentions, e.start..e.end) /\ e.mentions \in Nat
         /\ e.blocked \in BOOLEAN
         /\ e.severity = IF e.mentions >= HighMentions \/ e.blocked THEN "high" ELSE "medium"
<1>1. PICK s \in E!Starts : e = E!Episode(s)
  BY DEF E!AllEpisodes
<1>2. /\ e.start = s /\ e.end = E!Ends(s) /\ e.blocked \in BOOLEAN
      /\ e.mentions = SumOver(mentions, s..E!Ends(s))
      /\ e.severity = IF e.mentions >= HighMentions \/ e.blocked THEN "high" ELSE "medium"
  BY <1>1, EpisodeIs DEF EpisodesCount
<1>3. /\ s \in Nat /\ E!Ends(s) \in Nat /\ (s..E!Ends(s)) \subseteq E!Days
      /\ IsFiniteSet(s..E!Ends(s))
  BY SpanIs DEF SpansAreDays
<1>4. SumOver(mentions, s..E!Ends(s)) \in Nat
  <2>1. \A d \in s..E!Ends(s) : mentions[d] \in Nat /\ mentions[d] <= mentions[d]
    BY <1>3 DEF EventsTyped, Counts, E!Days
  <2>2. QED
    BY <1>3, <2>1, SumGrows
<1>5. QED
  BY <1>2, <1>3, <1>4

\* Two episodes have no day in common.
LEMMA EpisodesAreDisjoint ==
  ASSUME E!BoundAssumption, EventsTyped, NEW e \in E!AllEpisodes, NEW f \in E!AllEpisodes, e # f
  PROVE  (e.start..e.end) \cap (f.start..f.end) = {}
<1>1. PICK s \in E!Starts : e = E!Episode(s)
  BY DEF E!AllEpisodes
<1>2. PICK t \in E!Starts : f = E!Episode(t)
  BY DEF E!AllEpisodes
<1>3. Cut(E!ConflictDays, s, E!Ends(s)) /\ Cut(E!ConflictDays, t, E!Ends(t))
  BY EpisodesCut DEF EndsAreCuts
<1>4. e.start = s /\ e.end = E!Ends(s) /\ f.start = t /\ f.end = E!Ends(t)
  BY <1>1, <1>2, EpisodeIs DEF EpisodesCount
<1>5. E!ConflictDays \in SUBSET Nat
  BY DaysAre, StartsAre
<1>6. ASSUME NEW d \in s..E!Ends(s), d \in t..E!Ends(t) PROVE FALSE
  <2>1. d \in Nat
    BY EpisodeTypes, <1>4 DEF E!Days
  <2>2. s = t
    BY <1>3, <1>5, <1>6, <2>1, RunsAreDisjoint
  <2>3. QED
    BY <1>1, <1>2, <2>2
<1>7. QED
  BY <1>4, <1>6

\* No mention is counted in two episodes, and none within one is left out.
LEMMA MentionsOnce == E!BoundAssumption /\ EventsTyped => E!MentionsCountOnce
<1> SUFFICES ASSUME E!BoundAssumption, EventsTyped PROVE E!MentionsCountOnce
  OBVIOUS
<1> DEFINE M == [e \in E!AllEpisodes |-> e.mentions]
           G == {V \in SUBSET E!AllEpisodes : SumOver(M, V) = SumOver(mentions, DaysIn(V))}
<1>1. IsFiniteSet(E!AllEpisodes) /\ IsFiniteSet(E!Days)
  BY EpisodesAreFinite, DaysAre
<1>2. \A e \in E!AllEpisodes : e.mentions \in Int /\ M[e] = e.mentions
  BY EpisodeTypes
<1>3. \A d \in E!Days : mentions[d] \in Int
  BY DEF EventsTyped, Counts
<1>4. ASSUME NEW V \in SUBSET E!AllEpisodes,
             \A W \in SUBSET E!AllEpisodes : Cardinality(W) < Cardinality(V) => W \in G
      PROVE  V \in G
  <2>1. CASE V = {}
    <3>1. DaysIn(V) = {}
      BY <2>1 DEF DaysIn
    <3>2. SumOver(M, V) = 0 /\ SumOver(mentions, DaysIn(V)) = 0
      <4> HIDE DEF M
      <4>1. QED
        BY <2>1, <3>1, FS_EmptySet, SumZero
    <3>3. QED
      BY <3>2
  <2>2. CASE V # {}
    <3>1. PICK e \in V : TRUE
      BY <2>2
    <3> DEFINE W == V \ {e}
               span == e.start..e.end
    <3>2. /\ W \in SUBSET E!AllEpisodes /\ Cardinality(W) < Cardinality(V)
          /\ IsFiniteSet(W) /\ e \notin W /\ V = W \cup {e} /\ e \in E!AllEpisodes
      <4>1. /\ W \in SUBSET E!AllEpisodes /\ Cardinality(W) = Cardinality(V) - 1
            /\ Cardinality(V) \in Nat
        BY <1>1, SubsetSize
      <4>2. IsFiniteSet(W)
        BY <1>1, <4>1, FS_Subset
      <4>3. QED
        BY <4>1, <4>2
    <3>3. SumOver(M, W) = SumOver(mentions, DaysIn(W))
      BY <1>4, <3>2
    <3>4. SumOver(M, V) = SumOver(M, W) + e.mentions
      <4> HIDE DEF M, W
      <4>1. \A x \in W \cup {e} : M[x] \in Int
        BY <1>2, <3>2
      <4>2. SumOver(M, W \cup {e}) = SumOver(M, W) + M[e]
        BY <3>2, <4>1, SumAdd
      <4>3. QED
        BY <1>2, <3>2, <4>2
    <3>5. /\ DaysIn(V) = DaysIn(W) \cup span /\ DaysIn(W) \cap span = {}
          /\ IsFiniteSet(DaysIn(W)) /\ IsFiniteSet(span)
      <4>1. span \subseteq E!Days /\ IsFiniteSet(span)
        BY <3>2, EpisodeTypes
      <4>2. IsFiniteSet(DaysIn(W))
        <5>1. DaysIn(W) \in SUBSET E!Days
          BY DEF DaysIn
        <5>2. QED
          BY <1>1, <5>1, FS_Subset
      <4>3. \A f \in W : (f.start..f.end) \cap span = {}
        BY <3>2, EpisodesAreDisjoint
      <4> HIDE DEF W, span
      <4>4. DaysIn(W) \cap span = {}
        BY <4>3 DEF DaysIn
      <4>5. DaysIn(V) = DaysIn(W) \cup span
        BY <3>2, <4>1 DEF DaysIn, span
      <4>6. QED
        BY <4>1, <4>2, <4>4, <4>5
    <3>6. SumOver(mentions, DaysIn(V)) = SumOver(mentions, DaysIn(W)) + e.mentions
      <4>1. span \subseteq E!Days /\ e.mentions = SumOver(mentions, span)
        BY <3>2, EpisodeTypes
      <4> HIDE DEF W, span
      <4>2. \A d \in DaysIn(W) \cup span : mentions[d] \in Int
        BY <1>3, <4>1 DEF DaysIn
      <4>3. SumOver(mentions, DaysIn(W) \cup span)
              = SumOver(mentions, DaysIn(W)) + SumOver(mentions, span)
        BY <3>5, <4>2, SumUnion
      <4>4. QED
        BY <3>5, <4>1, <4>3
    <3>7. SumOver(M, V) = SumOver(mentions, DaysIn(V))
      <4> HIDE DEF M, W
      <4>1. QED
        BY <3>3, <3>4, <3>6
    <3>8. QED
      BY <3>7
  <2>3. QED
    BY <2>1, <2>2
<1>5. G = SUBSET E!AllEpisodes
  <2> HIDE DEF G
  <2>1. G \in SUBSET SUBSET E!AllEpisodes
    BY DEF G
  <2>2. QED
    BY <1>1, <1>4, <2>1, SubsetInduction
<1>6. SumOver(M, E!AllEpisodes) = SumOver(mentions, DaysIn(E!AllEpisodes))
  <2>1. E!AllEpisodes \in G
    <3> HIDE DEF G
    <3>1. QED
      BY <1>5
  <2>2. QED
    BY <2>1
<1>7. MapThenSumSet(LAMBDA e : e.mentions, E!AllEpisodes) = SumOver(M, E!AllEpisodes)
  BY <1>1, <1>2, SumOfMentions
<1>8. \A f, Q : E!Total(f, Q) = SumOver(f, Q)
  BY Zenon DEF E!Total, SumOver, E!MapThenSumSet, MapThenSumSet, E!MapThenFoldSet, MapThenFoldSet
<1>9. QED
  <2> HIDE DEF M
  <2>1. MapThenSumSet(LAMBDA e : e.mentions, E!AllEpisodes) = E!Total(mentions, DaysIn(E!AllEpisodes))
    BY <1>6, <1>7, <1>8
  <2>2. QED
    BY <2>1, Zenon DEF E!MentionsCountOnce, DaysIn, E!MapThenSumSet, MapThenSumSet, E!MapThenFoldSet, MapThenFoldSet

---------------------------------------------------------------------------
(* What the narrative is given *)

Weight == {p \in E!AllEpisodes \X E!AllEpisodes : E!Heavier(p[1], p[2])}

LEMMA WeightOrders ==
  ASSUME E!BoundAssumption, EventsTyped
  PROVE  IsOrder(Weight, E!AllEpisodes)
<1>1. \A e, f \in E!AllEpisodes : <<e, f>> \in Weight <=> E!Heavier(e, f)
  BY DEF Weight
<1>2. \A e \in E!AllEpisodes : /\ e.start \in Nat /\ e.mentions \in Nat
                             /\ e.blocked \in BOOLEAN
  BY EpisodeTypes
<1>3. \A e \in E!AllEpisodes : ~E!Heavier(e, e)
  BY <1>2 DEF E!Heavier
<1>4. ASSUME NEW e \in E!AllEpisodes, NEW f \in E!AllEpisodes
      PROVE  e = f \/ E!Heavier(e, f) \/ E!Heavier(f, e)
  <2>1. e.start = f.start => e = f
    BY EpisodesAreFinite
  <2>2. e.start < f.start \/ e.start = f.start \/ f.start < e.start
    BY <1>2
  <2>3. e.mentions > f.mentions \/ e.mentions = f.mentions \/ f.mentions > e.mentions
    BY <1>2
  <2>4. e.blocked = f.blocked \/ (e.blocked /\ ~f.blocked) \/ (f.blocked /\ ~e.blocked)
    BY <1>2
  <2>5. QED
    BY <2>1, <2>2, <2>3, <2>4 DEF E!Heavier
<1>5. ASSUME NEW e \in E!AllEpisodes, NEW f \in E!AllEpisodes, NEW g \in E!AllEpisodes,
             E!Heavier(e, f), E!Heavier(f, g)
      PROVE  E!Heavier(e, g)
  <2>1. /\ e.start \in Nat /\ f.start \in Nat /\ g.start \in Nat
        /\ e.mentions \in Nat /\ f.mentions \in Nat /\ g.mentions \in Nat
        /\ e.blocked \in BOOLEAN /\ f.blocked \in BOOLEAN /\ g.blocked \in BOOLEAN
    BY <1>2
  <2>2. QED
    BY <1>5, <2>1 DEF E!Heavier
<1>6. QED
  BY <1>1, <1>3, <1>4, <1>5 DEF IsOrder

LEMMA KeptAre == E!Kept = FirstOf(Weight, E!AllEpisodes, MaxEpisodes)
<1>1. E!Kept = {e \in E!AllEpisodes :
                Cardinality({f \in E!AllEpisodes : E!Heavier(f, e)}) < MaxEpisodes}
  BY Zenon DEF E!Kept, E!Cardinality, Cardinality
<1>2. \A e \in E!AllEpisodes :
        {f \in E!AllEpisodes : E!Heavier(f, e)} = Above(Weight, E!AllEpisodes, e)
  BY DEF Above, Weight
<1>3. QED
  BY <1>1, <1>2 DEF FirstOf

\* An episode of high severity gives way to such episodes only.
LEMMA GraveAreKept ==
  E!BoundAssumption /\ E!ThresholdAssumption /\ EventsTyped => E!GraveEpisodesAreKept
<1> SUFFICES ASSUME E!BoundAssumption, E!ThresholdAssumption, EventsTyped, E!Kept # E!AllEpisodes
             PROVE  /\ Cardinality(E!Kept) = MaxEpisodes
                    /\ (\E e \in E!AllEpisodes \ E!Kept : e.severity = "high") =>
                         \A e \in E!Kept : e.severity = "high"
  BY Zenon DEF E!GraveEpisodesAreKept, E!Cardinality, Cardinality
<1>1. MaxEpisodes \in Nat /\ HighMentions \in Nat
  BY DEF E!ThresholdAssumption
<1>2. IsFiniteSet(E!AllEpisodes) /\ Cardinality(E!AllEpisodes) \in Nat
  BY EpisodesAreFinite, FS_CardinalityType
<1>3. MaxEpisodes <= Cardinality(E!AllEpisodes)
  BY <1>1, <1>2, WeightOrders, KeptAre, FirstAreAll
<1>4. Cardinality(E!Kept) = MaxEpisodes
  BY <1>1, <1>2, <1>3, WeightOrders, KeptAre, FirstAreMany
<1>5. ASSUME NEW e \in E!AllEpisodes \ E!Kept, e.severity = "high", NEW k \in E!Kept
      PROVE  k.severity = "high"
  <2>1. k \in E!AllEpisodes /\ e \in E!AllEpisodes /\ k # e
    BY KeptAre DEF FirstOf
  <2>2. /\ Cardinality(Above(Weight, E!AllEpisodes, k)) < MaxEpisodes
        /\ ~(Cardinality(Above(Weight, E!AllEpisodes, e)) < MaxEpisodes)
    BY <2>1, KeptAre DEF FirstOf
  <2>3. ~E!Heavier(e, k)
    <3>1. <<e, k>> \in Weight => Cardinality(Above(Weight, E!AllEpisodes, e))
                                   < Cardinality(Above(Weight, E!AllEpisodes, k))
      BY <1>2, <2>1, WeightOrders, AboveIsLess
    <3>2. /\ Cardinality(Above(Weight, E!AllEpisodes, e)) \in Nat
          /\ Cardinality(Above(Weight, E!AllEpisodes, k)) \in Nat
      BY <1>2, AboveType
    <3>3. <<e, k>> \notin Weight
      BY <1>1, <2>2, <3>1, <3>2
    <3>4. QED
      BY <2>1, <3>3 DEF Weight
  <2>4. E!Heavier(k, e)
    <3>1. <<k, e>> \in Weight \/ <<e, k>> \in Weight
      BY <2>1, WeightOrders DEF IsOrder
    <3>2. QED
      BY <2>3, <3>1 DEF Weight
  <2>5. /\ e.mentions \in Nat /\ k.mentions \in Nat
        /\ e.mentions >= HighMentions \/ e.blocked
        /\ k.severity = IF k.mentions >= HighMentions \/ k.blocked THEN "high" ELSE "medium"
    BY <1>5, <2>1, EpisodeTypes
  <2>6. k.blocked \/ (k.mentions >= e.mentions /\ ~e.blocked)
    <3>1. e.blocked \in BOOLEAN /\ k.blocked \in BOOLEAN
      BY <2>1, EpisodeTypes
    <3>2. QED
      BY <2>4, <2>5, <3>1 DEF E!Heavier
  <2>7. QED
    BY <1>1, <2>5, <2>6
<1>6. QED
  BY <1>4, <1>5

LEMMA EpisodesHold ==
  ASSUME E!BoundAssumption, E!ThresholdAssumption, EventsTyped
  PROVE  E!EpisodesAreWhole
BY EpisodesMaximal, MentionsOnce, GraveAreKept DEF E!EpisodesAreWhole


---------------------------------------------------------------------------
(* The weeks *)

Weekly == weeks \in Seq(Kinds)

LEMMA WeeklyInit == D!Init => Weekly
  BY DEF D!Init, Weekly

LEMMA WeeklyStep == Weekly /\ [D!Next]_weeks => Weekly'
<1> SUFFICES ASSUME Weekly, [D!Next]_weeks PROVE Weekly'
  OBVIOUS
<1>1. CASE D!Next
  <2>1. PICK k \in Kinds : weeks' = Append(weeks, k)
    BY <1>1 DEF D!Next
  <2>2. QED
    BY <2>1, AppendProperties DEF Weekly
<1>2. CASE UNCHANGED weeks
  BY <1>2 DEF Weekly
<1>3. QED
  BY <1>1, <1>2

LEMMA WeekTypes ==
  ASSUME D!KindsAssumption, Weekly
  PROVE  /\ D!N \in Nat
         /\ \A i \in 1..D!N : /\ weeks[i].rt \in 0..1000 /\ weeks[i].balance \in 0..1000
                            /\ weeks[i].neglect \in Nat /\ weeks[i].silence \in Nat
                            /\ weeks[i].perDay \in Nat
<1>1. D!N \in Nat /\ \A i \in 1..D!N : weeks[i] \in Kinds
  BY LenProperties, ElementOfSeq DEF Weekly, D!N
<1>2. \A k \in Kinds : /\ k.rt \in 0..1000 /\ k.balance \in 0..1000 /\ k.neglect \in Nat
                       /\ k.silence \in Nat /\ k.perDay \in Nat
  BY DEF D!KindsAssumption
<1>3. QED
  BY <1>1, <1>2

LEMMA DivisionFloor ==
  ASSUME NEW a \in Int, NEW b \in Nat \ {0}
  PROVE  /\ a \div b \in Int
         /\ b * (a \div b) <= a /\ a < b * (a \div b) + b
  OBVIOUS

LEMMA DivisionIs ==
  ASSUME NEW a \in Int, NEW b \in Nat \ {0}, NEW m \in Int
  PROVE  /\ a >= m * b => a \div b >= m
         /\ a < m * b => a \div b < m
<1> DEFINE q == a \div b
<1>1. q \in Int /\ b * q <= a /\ a < b * q + b
  BY DivisionFloor
<1> HIDE DEF q
<1>2. ASSUME a >= m * b PROVE q >= m
  <2>1. b * q + b > b * m
    BY <1>1, <1>2
  <2>2. b * (q + 1) > b * m
    BY <1>1, <2>1
  <2>3. q + 1 > m
    <3>1. SUFFICES ASSUME q + 1 <= m PROVE b * (q + 1) <= b * m
      BY <1>1, <2>2
    <3>2. QED
      BY <1>1, <3>1
  <2>4. QED
    BY <1>1, <2>3
<1>3. ASSUME a < m * b PROVE q < m
  <2>1. b * q < b * m
    BY <1>1, <1>3
  <2>2. SUFFICES ASSUME m <= q PROVE b * m <= b * q
    BY <1>1, <2>1
  <2>3. QED
    BY <1>1, <2>2
<1>4. QED
  BY <1>2, <1>3 DEF q

Thousandths == 0..1000
Share(x) == Max({0, 1000 - x})
Blend(a, b, c, d) == D!Ratio(25 * a + 15 * b + 30 * c + 30 * d, 100)

LEMMA ShareType == \A x \in Nat : Share(x) \in Thousandths
<1> SUFFICES ASSUME NEW x \in Nat PROVE Share(x) \in Thousandths
  OBVIOUS
<1>1. Max({0, 1000 - x}) = IF 0 >= 1000 - x THEN 0 ELSE 1000 - x
  BY MaxOfTwo
<1>2. QED
  BY <1>1, SMT DEF Share, Thousandths

LEMMA BlendType ==
  \A a, b, c, d \in Thousandths : Blend(a, b, c, d) \in Thousandths
<1> SUFFICES ASSUME NEW a \in Thousandths, NEW b \in Thousandths, NEW c \in Thousandths,
                    NEW d \in Thousandths
             PROVE  Blend(a, b, c, d) \in Thousandths
  OBVIOUS
<1> DEFINE x == 25 * a + 15 * b + 30 * c + 30 * d
<1>1. x \in Int /\ 0 <= x /\ x <= 100000
  BY SMT DEF Thousandths
<1> HIDE DEF x
<1>2. (x + 100 \div 2) \div 100 \in Int /\ 0 <= (x + 100 \div 2) \div 100
      /\ (x + 100 \div 2) \div 100 <= 1000
  BY <1>1, SMT
<1>3. QED
  BY <1>2, SMT DEF Blend, D!Ratio, Thousandths, x

\* The part of the health that one score gives is a share of a thousand.
LEMMA ScoreTypes ==
  /\ \A u \in Nat : D!NeglectScore(u) \in Thousandths
  /\ \A d \in Nat : D!SilenceScore(d) \in Thousandths
<1>1. ASSUME NEW u \in Nat PROVE D!NeglectScore(u) \in Thousandths
  <2>1. u \div 3 \in Nat
    OBVIOUS
  <2>2. D!NeglectScore(u) = Share(u \div 3)
    BY Zenon DEF D!NeglectScore, Share, D!Max, Max
  <2>3. QED
    BY <2>1, <2>2, ShareType, Zenon
<1>2. ASSUME NEW d \in Nat PROVE D!SilenceScore(d) \in Thousandths
  <2> DEFINE late == Max({0, d - 10})
  <2>1. late \in Nat
    <3>1. late = IF 0 >= d - 10 THEN 0 ELSE d - 10
      BY MaxOfTwo
    <3>2. QED
      BY <3>1
  <2>2. D!SilenceScore(d) = Share(50 * late)
    BY Zenon DEF D!SilenceScore, Share, D!Max, Max
  <2> HIDE DEF late
  <2>3. 50 * late \in Nat
    BY <2>1
  <2>4. QED
    BY <2>2, <2>3, ShareType, Zenon
<1>3. QED
  BY <1>1, <1>2

LEMMA HealthType ==
  ASSUME D!KindsAssumption, Weekly
  PROVE  \A i \in 1..D!N : D!Health(i) \in Thousandths
<1> SUFFICES ASSUME NEW i \in 1..D!N PROVE D!Health(i) \in Thousandths
  OBVIOUS
<1>1. /\ weeks[i].rt \in Thousandths /\ weeks[i].balance \in Thousandths
      /\ weeks[i].neglect \in Nat /\ weeks[i].silence \in Nat
  BY WeekTypes DEF Thousandths
<1>2. D!NeglectScore(weeks[i].neglect) \in Thousandths /\ D!SilenceScore(weeks[i].silence) \in Thousandths
  BY <1>1, ScoreTypes
<1>3. D!Health(i) = Blend(weeks[i].rt, weeks[i].balance, D!NeglectScore(weeks[i].neglect),
                        D!SilenceScore(weeks[i].silence))
  BY Zenon DEF D!Health, Blend
<1>4. QED
  BY <1>1, <1>2, <1>3, BlendType

HealthOf == [i \in 1..D!N |-> D!Health(i)]

\* Adding up the health of weeks is a sum of a function.
LEMMA HealthsAre ==
  ASSUME D!KindsAssumption, Weekly, NEW W \in SUBSET (1..D!N)
  PROVE  D!Healths(W) = SumOver(HealthOf, W) /\ IsFiniteSet(W)
<1> DEFINE OneByOne(g) == g = [s \in SUBSET W |->
                                 IF s = {} THEN 0
                                 ELSE LET x == CHOOSE x \in s : TRUE
                                      IN  D!Health(x) + g[s \ {x}]]
           G == CHOOSE g : OneByOne(g)
<1>0. IsFiniteSet(W)
  <2>1. IsFiniteSet(1..D!N)
    BY WeekTypes, FS_Interval
  <2>2. QED
    BY <2>1, FS_Subset
<1>1. \A x \in W : HealthOf[x] \in Int /\ HealthOf[x] = D!Health(x)
  <2>1. ASSUME NEW x \in W PROVE HealthOf[x] \in Int /\ HealthOf[x] = D!Health(x)
    <3>1. x \in 1..D!N
      OBVIOUS
    <3>2. D!Health(x) \in Thousandths
      BY <3>1, HealthType
    <3>3. D!Health(x) \in Int
      BY <3>2, SMT DEF Thousandths
    <3>4. HealthOf[x] = D!Health(x)
      BY <3>1, Zenon DEF HealthOf
    <3>5. QED
      BY <3>3, <3>4
  <2>2. QED
    BY <2>1
<1>2. ASSUME NEW g PROVE OneByOne(g) <=> Sums(HealthOf, W, g)
  <2>1. \A s \in SUBSET W : s # {} => Chosen(s) \in W
    BY DEF Chosen
  <2>2. [s \in SUBSET W |-> IF s = {} THEN 0 ELSE HealthOf[Chosen(s)] + g[s \ {Chosen(s)}]]
          = [s \in SUBSET W |-> IF s = {} THEN 0 ELSE D!Health(Chosen(s)) + g[s \ {Chosen(s)}]]
    BY <1>1, <2>1
  <2>3. Sums(HealthOf, W, g) <=>
          g = [s \in SUBSET W |->
                 IF s = {} THEN 0 ELSE HealthOf[Chosen(s)] + g[s \ {Chosen(s)}]]
    BY Zenon DEF Sums, Chosen
  <2>4. OneByOne(g) <=>
          g = [s \in SUBSET W |->
                 IF s = {} THEN 0 ELSE D!Health(Chosen(s)) + g[s \ {Chosen(s)}]]
    BY Zenon DEF Chosen
  <2>5. QED
    BY <2>2, <2>3, <2>4
<1>3. PICK g \in [SUBSET W -> Int] : Sums(HealthOf, W, g) /\ SumOver(HealthOf, W) = g[W]
  BY <1>0, <1>1, SumOverSums
<1>4. Sums(HealthOf, W, G)
  <2> HIDE DEF OneByOne
  <2>1. OneByOne(g)
    BY <1>2, <1>3
  <2>2. OneByOne(G)
    BY <2>1, Zenon
  <2>3. QED
    BY <1>2, <2>2
<1>5. G[W] = g[W]
  <2> HIDE DEF G
  <2>1. W \in SUBSET W /\ \A x \in W : HealthOf[x] = HealthOf[x]
    OBVIOUS
  <2>2. QED
    BY <1>0, <1>3, <1>4, <2>1, SumsAgree
<1>6. D!Healths(W) = G[W]
  BY Zenon DEF D!Healths, D!Sum, MapThenSumSet, MapThenFoldSet, D!MapThenSumSet, D!MapThenFoldSet
<1>7. QED
  <2> HIDE DEF G
  <2>1. QED
    BY <1>0, <1>3, <1>5, <1>6

\* The health of a stretch of weeks: at most a thousand each, and additive.
LEMMA HealthsBound ==
  ASSUME D!KindsAssumption, Weekly, NEW a \in 1..(D!N + 1), NEW b \in 0..D!N, a <= b + 1
  PROVE  /\ D!Healths(a..b) \in Int
         /\ D!Healths(a..b) >= 0
         /\ D!Healths(a..b) <= 1000 * (b - a + 1)
<1>0. D!N \in Nat
  BY WeekTypes
<1>1. (a..b) \in SUBSET (1..D!N) /\ IsFiniteSet(a..b)
  BY <1>0, FS_Interval
<1>2. Cardinality(a..b) = b - a + 1
  <2>1. a \in Int /\ b \in Int
    BY <1>0
  <2>2. Cardinality(a..b) = IF a > b THEN 0 ELSE b - a + 1
    BY <2>1, FS_Interval
  <2>3. QED
    BY <2>1, <2>2
<1>3. \A x \in a..b : HealthOf[x] \in 0..1000
  <2>1. ASSUME NEW x \in a..b PROVE HealthOf[x] \in 0..1000
    <3>1. x \in 1..D!N
      BY <1>1
    <3>2. D!Health(x) \in Thousandths
      BY <3>1, HealthType
    <3>3. HealthOf[x] = D!Health(x)
      BY <3>1, Zenon DEF HealthOf
    <3>4. QED
      BY <3>2, <3>3, SMT DEF Thousandths
  <2>2. QED
    BY <2>1, Zenon
<1>4. D!Healths(a..b) = SumOver(HealthOf, a..b)
  BY <1>1, HealthsAre
<1>5. PICK m \in Nat : m = 1000
  BY SMT
<1>6. \A x \in a..b : HealthOf[x] \in 0..m
  BY <1>3, <1>5
<1>7. SumOver(HealthOf, a..b) \in 0..(m * Cardinality(a..b))
  BY <1>1, <1>6, SumBounds
<1>8. QED
  BY <1>0, <1>2, <1>4, <1>5, <1>7, SMT

LEMMA HealthsSplit ==
  ASSUME D!KindsAssumption, Weekly, NEW a \in Nat, NEW m \in Nat, NEW b \in Nat,
         1 <= a, a <= m + 1, m <= b, b <= D!N
  PROVE  D!Healths(a..b) = D!Healths(a..m) + D!Healths((m + 1)..b)
<1>0. D!N \in Nat
  BY WeekTypes
<1>1. /\ (a..b) \in SUBSET (1..D!N) /\ (a..m) \in SUBSET (1..D!N) /\ ((m + 1)..b) \in SUBSET (1..D!N)
  BY <1>0
<1>2. /\ D!Healths(a..b) = SumOver(HealthOf, a..b)
      /\ D!Healths(a..m) = SumOver(HealthOf, a..m) /\ IsFiniteSet(a..m)
      /\ D!Healths((m + 1)..b) = SumOver(HealthOf, (m + 1)..b) /\ IsFiniteSet((m + 1)..b)
  BY <1>1, HealthsAre
<1>3. (a..m) \cup ((m + 1)..b) = a..b /\ (a..m) \cap ((m + 1)..b) = {}
  OBVIOUS
<1>4. \A x \in (a..m) \cup ((m + 1)..b) : HealthOf[x] \in Int
  <2>1. ASSUME NEW x \in a..b PROVE HealthOf[x] \in Int
    <3>1. x \in 1..D!N
      BY <1>1
    <3>2. D!Health(x) \in Thousandths
      BY <3>1, HealthType
    <3>3. HealthOf[x] = D!Health(x)
      BY <3>1, Zenon DEF HealthOf
    <3>4. QED
      BY <3>2, <3>3, SMT DEF Thousandths
  <2>2. QED
    BY <1>3, <2>1
<1>5. SumOver(HealthOf, (a..m) \cup ((m + 1)..b))
        = SumOver(HealthOf, a..m) + SumOver(HealthOf, (m + 1)..b)
  BY <1>2, <1>3, <1>4, SumUnion
<1>6. QED
  BY <1>2, <1>3, <1>5

LEMMA HealthsOne ==
  ASSUME D!KindsAssumption, Weekly, NEW i \in 1..D!N
  PROVE  D!Healths(i..i) = D!Health(i) /\ D!Health(i) \in Int
<1>0. D!N \in Nat /\ i \in Nat
  BY WeekTypes
<1>1. D!Health(i) \in Thousandths
  BY HealthType
<1>2. HealthOf[i] = D!Health(i) /\ D!Health(i) \in Int
  <2>1. HealthOf[i] = D!Health(i)
    BY Zenon DEF HealthOf
  <2>2. QED
    BY <1>1, <2>1, SMT DEF Thousandths
<1>3. (i..i) \in SUBSET (1..D!N) /\ i..i = {} \cup {i}
  BY <1>0
<1>4. D!Healths(i..i) = SumOver(HealthOf, i..i)
  BY <1>3, HealthsAre
<1>5. SumOver(HealthOf, {} \cup {i}) = SumOver(HealthOf, {}) + HealthOf[i]
  <2>1. IsFiniteSet({}) /\ i \notin {} /\ \A x \in {} \cup {i} : HealthOf[x] \in Int
    BY <1>2, FS_EmptySet
  <2>2. QED
    BY <2>1, SumAdd
<1>6. SumOver(HealthOf, {}) = 0
  BY FS_EmptySet, SumZero
<1>7. QED
  BY <1>2, <1>3, <1>4, <1>5, <1>6

---------------------------------------------------------------------------
(* The trend by thirds and the score *)

LEMMA ThirdIs ==
  ASSUME D!KindsAssumption, Weekly, D!Enough
  PROVE  D!N \in Nat /\ D!Third \in Nat /\ 1 <= D!Third /\ D!Third <= D!N
<1>1. D!N \in Nat /\ D!N >= 2
  BY WeekTypes DEF D!Enough
<1> DEFINE q == D!N \div 3
<1>2. q \in Nat /\ q <= D!N
  BY <1>1
<1> HIDE DEF q
<1>3. Max({1, q}) = IF 1 >= q THEN 1 ELSE q
  BY <1>2, MaxOfTwo
<1>4. D!Third = Max({1, q})
  BY Zenon DEF D!Third, q, D!Max, Max
<1>5. QED
  BY <1>1, <1>2, <1>3, <1>4

LEMMA RatioBounds ==
  ASSUME NEW a \in Nat, NEW b \in Nat \ {0}, NEW m \in Int
  PROVE  /\ D!Ratio(a, b) \in Int
         /\ a >= m * b => D!Ratio(a, b) >= m
         /\ a < m * b => D!Ratio(a, b) <= m
<1> DEFINE h == b \div 2
<1>1. h \in Nat /\ h < b
  OBVIOUS
<1> HIDE DEF h
<1>2. D!Ratio(a, b) = (a + h) \div b
  BY Zenon DEF D!Ratio, h
<1>3. (a + h) \div b \in Int
  BY <1>1, DivisionFloor
<1>4. m * b \in Int /\ (m + 1) * b = m * b + b
  OBVIOUS
<1>5. ASSUME a >= m * b PROVE (a + h) \div b >= m
  <2>1. a + h >= m * b /\ a + h \in Int
    BY <1>1, <1>4, <1>5
  <2>2. QED
    BY <2>1, DivisionIs
<1>6. ASSUME a < m * b PROVE (a + h) \div b <= m
  <2>1. a + h < (m + 1) * b /\ a + h \in Int /\ m + 1 \in Int
    BY <1>1, <1>4, <1>6
  <2>2. (a + h) \div b < m + 1
    BY <2>1, DivisionIs
  <2>3. QED
    BY <1>3, <2>2
<1>7. QED
  BY <1>2, <1>3, <1>5, <1>6

LEMMA TrendIsInTheScore ==
  ASSUME D!KindsAssumption, Weekly
  PROVE  D!ScoreAgreesWithTrend
<1> SUFFICES ASSUME D!Enough
             PROVE  /\ D!ThirdsTrend = "deteriorating" => D!DecayScore >= D!TrendDelta
                    /\ D!ThirdsTrend = "improving" => D!DecayScore <= 1000 - D!TrendDelta
                    /\ D!Trend = "improving" => ~D!Detected
  BY DEF D!ScoreAgreesWithTrend
<1> DEFINE t == D!Third
           early == D!Healths(D!Early)
           late == D!Healths(D!Recent)
<1>1. D!N \in Nat /\ t \in Nat /\ 1 <= t /\ t <= D!N
  BY ThirdIs
<1>2. early \in Int /\ 0 <= early /\ early <= 1000 * t
  <2>1. 1 \in 1..(D!N + 1) /\ t \in 0..D!N /\ 1 <= t + 1
    BY <1>1
  <2>2. D!Healths(1..t) \in Int /\ D!Healths(1..t) >= 0 /\ D!Healths(1..t) <= 1000 * (t - 1 + 1)
    BY <2>1, HealthsBound
  <2>3. QED
    BY <1>1, <2>2, SMT DEF D!Early
<1>3. late \in Int /\ 0 <= late
  <2>1. D!N - t + 1 \in 1..(D!N + 1) /\ D!N \in 0..D!N /\ D!N - t + 1 <= D!N + 1
    BY <1>1
  <2>2. D!Healths((D!N - t + 1)..D!N) \in Int /\ D!Healths((D!N - t + 1)..D!N) >= 0
    BY <2>1, HealthsBound
  <2>3. QED
    BY <2>2, SMT DEF D!Recent
<1>4. D!DecayScore = 1000 - D!Ratio(late, t)
  BY Zenon DEF D!DecayScore
<1>5. D!ThirdsTrend = IF late - early < -D!TrendDelta * t THEN "deteriorating"
                    ELSE IF late - early > D!TrendDelta * t THEN "improving" ELSE "stable"
  BY Zenon DEF D!ThirdsTrend
<1>6. D!Trend = IF D!Detected THEN "deteriorating" ELSE D!ThirdsTrend
  BY Zenon DEF D!Trend
<1> HIDE DEF t, early, late
<1>7. late \in Nat /\ t \in Nat \ {0}
  BY <1>1, <1>3
<1>8. ASSUME late - early < -D!TrendDelta * t PROVE D!DecayScore >= D!TrendDelta
  <2>1. late < 880 * t
    BY <1>1, <1>2, <1>3, <1>8, SMT DEF D!TrendDelta
  <2>2. 880 \in Int
    BY SMT
  <2>3. D!Ratio(late, t) \in Int /\ D!Ratio(late, t) <= 880
    BY <1>7, <2>1, <2>2, RatioBounds, SMT
  <2>4. QED
    BY <1>4, <2>3, SMT DEF D!TrendDelta
<1>9. ASSUME late - early > D!TrendDelta * t PROVE D!DecayScore <= 1000 - D!TrendDelta
  <2>1. late >= 120 * t
    BY <1>1, <1>2, <1>3, <1>9, SMT DEF D!TrendDelta
  <2>2. D!Ratio(late, t) \in Int /\ D!Ratio(late, t) >= 120
    BY <1>7, <2>1, RatioBounds, SMT
  <2>3. QED
    BY <1>4, <2>2, SMT DEF D!TrendDelta
<1>10. QED
  BY <1>5, <1>6, <1>8, <1>9

---------------------------------------------------------------------------
(* The closing phase *)

PerDay == [i \in 1..D!N |-> weeks[i].perDay]
Spell == [i \in 1..D!N |-> weeks[i].silence]

LEMMA PerDayType ==
  ASSUME D!KindsAssumption, Weekly
  PROVE  \A i \in 1..D!N : /\ PerDay[i] = weeks[i].perDay /\ PerDay[i] \in Nat
                         /\ Spell[i] = weeks[i].silence /\ Spell[i] \in Nat
  BY WeekTypes DEF PerDay, Spell

LEMMA VolumeRankIs ==
  ASSUME D!KindsAssumption, Weekly, NEW k
  PROVE  D!Ranked(k) = Kth(PerDay, D!Prior, k)
<1>1. D!Prior \subseteq 1..D!N
  BY WeekTypes, SMT DEF D!Prior, D!Window
<1>2. \A i \in D!Prior : PerDay[i] = weeks[i].perDay
  BY <1>1, PerDayType
<1>3. ASSUME NEW i \in D!Prior
      PROVE  {j \in D!Prior : weeks[j].perDay <= weeks[i].perDay} = AtMost(PerDay, D!Prior, PerDay[i])
  BY <1>2 DEF AtMost
<1>4. {i \in D!Prior : Cardinality({j \in D!Prior : weeks[j].perDay <= weeks[i].perDay}) >= k}
        = Reaching(PerDay, D!Prior, k)
  BY <1>3 DEF Reaching
<1>5. {weeks[i].perDay : i \in Reaching(PerDay, D!Prior, k)}
        = {PerDay[i] : i \in Reaching(PerDay, D!Prior, k)}
  <2>1. Reaching(PerDay, D!Prior, k) \subseteq D!Prior
    BY DEF Reaching
  <2>2. QED
    BY <1>2, <2>1
<1>6. D!Ranked(k)
        = Min({weeks[i].perDay :
                 i \in {i \in D!Prior : Cardinality({j \in D!Prior : weeks[j].perDay <= weeks[i].perDay})
                                        >= k}})
  BY Zenon DEF D!Ranked, D!Min, Min, D!Cardinality, Cardinality
<1>7. QED
  BY <1>4, <1>5, <1>6, Zenon DEF Kth

LEMMA BaseType ==
  ASSUME D!KindsAssumption, Weekly, D!HasBaseline
  PROVE  D!Base2 \in Int /\ D!N \in Nat /\ D!N >= 7
<1>1. D!N \in Nat /\ D!N >= 7
  BY WeekTypes DEF D!HasBaseline, D!Window, D!MinBaseline
<1>2. IsFiniteSet(D!Prior) /\ Cardinality(D!Prior) = D!N - 3 /\ D!Prior \subseteq 1..D!N
  <2>1. IsFiniteSet(1..(D!N - 3)) /\ Cardinality(1..(D!N - 3)) = IF 1 > D!N - 3 THEN 0 ELSE D!N - 3 - 1 + 1
    BY <1>1, FS_Interval
  <2>2. QED
    BY <1>1, <2>1, SMT DEF D!Prior, D!Window
<1>3. \A i \in D!Prior : PerDay[i] \in Int
  BY <1>2, PerDayType
<1>4. ASSUME NEW k \in Nat, 1 <= k, k <= D!N - 3 PROVE D!Ranked(k) \in Int
  <2>1. Kth(PerDay, D!Prior, k) \in Int
    BY <1>2, <1>3, <1>4, KthIs
  <2>2. QED
    BY <2>1, VolumeRankIs
<1> DEFINE k == (D!N - 3 + 1) \div 2
           l == (D!N - 3) \div 2 + 1
<1>5. k \in Nat /\ 1 <= k /\ k <= D!N - 3 /\ l \in Nat /\ 1 <= l /\ l <= D!N - 3
  BY <1>1
<1>6. D!Base2 = D!Ranked(k) + D!Ranked(l)
  BY Zenon DEF D!Base2, D!Window
<1> HIDE DEF k, l
<1>7. QED
  BY <1>1, <1>4, <1>5, <1>6

\* The messages per day of the closing window add up.
LEMMA VolumesAre ==
  ASSUME D!KindsAssumption, Weekly, NEW W \in SUBSET (1..D!N)
  PROVE  D!Sum(LAMBDA i : weeks[i].perDay, W) = SumOver(PerDay, W) /\ IsFiniteSet(W)
<1> DEFINE OneByOne(g) == g = [s \in SUBSET W |->
                                 IF s = {} THEN 0
                                 ELSE LET x == CHOOSE x \in s : TRUE
                                      IN  weeks[x].perDay + g[s \ {x}]]
           G == CHOOSE g : OneByOne(g)
<1>0. IsFiniteSet(W)
  <2>1. IsFiniteSet(1..D!N)
    BY WeekTypes, FS_Interval
  <2>2. QED
    BY <2>1, FS_Subset
<1>1. \A x \in W : PerDay[x] \in Int /\ PerDay[x] = weeks[x].perDay
  BY PerDayType
<1>2. ASSUME NEW g PROVE OneByOne(g) <=> Sums(PerDay, W, g)
  <2>1. \A s \in SUBSET W : s # {} => Chosen(s) \in W
    BY DEF Chosen
  <2>2. [s \in SUBSET W |-> IF s = {} THEN 0 ELSE PerDay[Chosen(s)] + g[s \ {Chosen(s)}]]
          = [s \in SUBSET W |->
               IF s = {} THEN 0 ELSE weeks[Chosen(s)].perDay + g[s \ {Chosen(s)}]]
    BY <1>1, <2>1
  <2>3. Sums(PerDay, W, g) <=>
          g = [s \in SUBSET W |-> IF s = {} THEN 0 ELSE PerDay[Chosen(s)] + g[s \ {Chosen(s)}]]
    BY Zenon DEF Sums, Chosen
  <2>4. OneByOne(g) <=>
          g = [s \in SUBSET W |->
                 IF s = {} THEN 0 ELSE weeks[Chosen(s)].perDay + g[s \ {Chosen(s)}]]
    BY Zenon DEF Chosen
  <2>5. QED
    BY <2>2, <2>3, <2>4
<1>3. PICK g \in [SUBSET W -> Int] : Sums(PerDay, W, g) /\ SumOver(PerDay, W) = g[W]
  BY <1>0, <1>1, SumOverSums
<1>4. Sums(PerDay, W, G)
  <2> HIDE DEF OneByOne
  <2>1. OneByOne(g)
    BY <1>2, <1>3
  <2>2. OneByOne(G)
    BY <2>1, Zenon
  <2>3. QED
    BY <1>2, <2>2
<1>5. G[W] = g[W]
  <2> HIDE DEF G
  <2>1. W \in SUBSET W /\ \A x \in W : PerDay[x] = PerDay[x]
    OBVIOUS
  <2>2. QED
    BY <1>0, <1>3, <1>4, <2>1, SumsAgree
<1>6. D!Sum(LAMBDA i : weeks[i].perDay, W) = G[W]
  BY Zenon DEF D!Sum, MapThenSumSet, MapThenFoldSet, D!MapThenSumSet, D!MapThenFoldSet
<1>7. QED
  <2> HIDE DEF G
  <2>1. QED
    BY <1>0, <1>3, <1>5, <1>6

LEMMA WindowVolume ==
  ASSUME D!KindsAssumption, Weekly, D!HasBaseline
  PROVE  D!Sum(LAMBDA i : weeks[i].perDay, D!Last3)
           = PerDay[D!N - 2] + PerDay[D!N - 1] + PerDay[D!N]
<1> DEFINE a == D!N - 2
           b == D!N - 1
<1>1. D!N \in Nat /\ a \in Nat /\ b \in Nat /\ a # b /\ a # D!N /\ b # D!N
  BY BaseType
<1>2. D!Last3 = {a, b, D!N} /\ D!Last3 \subseteq 1..D!N /\ a \in 1..D!N /\ b \in 1..D!N /\ D!N \in 1..D!N
  BY BaseType, SMT DEF D!Last3, D!Window
<1>3. D!Sum(LAMBDA i : weeks[i].perDay, D!Last3) = SumOver(PerDay, D!Last3)
  BY <1>2, VolumesAre
<1>4. PerDay[a] \in Int /\ PerDay[b] \in Int /\ PerDay[D!N] \in Int
  BY <1>2, PerDayType
<1> HIDE DEF a, b
<1>5. SumOver(PerDay, {}) = 0 /\ IsFiniteSet({})
  BY FS_EmptySet, SumZero
<1>6. SumOver(PerDay, {} \cup {a}) = 0 + PerDay[a] /\ IsFiniteSet({} \cup {a})
  <2>1. a \notin {} /\ \A x \in {} \cup {a} : PerDay[x] \in Int
    BY <1>4
  <2>2. SumOver(PerDay, {} \cup {a}) = SumOver(PerDay, {}) + PerDay[a]
    BY <1>5, <2>1, SumAdd
  <2>3. QED
    BY <1>5, <2>2, FS_AddElement
<1>7. SumOver(PerDay, ({} \cup {a}) \cup {b}) = 0 + PerDay[a] + PerDay[b]
      /\ IsFiniteSet(({} \cup {a}) \cup {b})
  <2> DEFINE A == {} \cup {a}
  <2>1. b \notin A /\ \A x \in A \cup {b} : PerDay[x] \in Int
    BY <1>1, <1>4
  <2>2. IsFiniteSet(A) /\ SumOver(PerDay, A) = 0 + PerDay[a]
    BY <1>6
  <2> HIDE DEF A
  <2>3. SumOver(PerDay, A \cup {b}) = SumOver(PerDay, A) + PerDay[b]
    BY <2>1, <2>2, SumAdd
  <2>4. IsFiniteSet(A \cup {b})
    BY <2>2, FS_AddElement
  <2>5. QED
    BY <2>2, <2>3, <2>4 DEF A
<1>8. SumOver(PerDay, (({} \cup {a}) \cup {b}) \cup {D!N}) = 0 + PerDay[a] + PerDay[b] + PerDay[D!N]
  <2> DEFINE A == ({} \cup {a}) \cup {b}
  <2>1. D!N \notin A /\ \A x \in A \cup {D!N} : PerDay[x] \in Int
    BY <1>1, <1>4
  <2>2. IsFiniteSet(A) /\ SumOver(PerDay, A) = 0 + PerDay[a] + PerDay[b]
    BY <1>7
  <2> HIDE DEF A
  <2>3. SumOver(PerDay, A \cup {D!N}) = SumOver(PerDay, A) + PerDay[D!N]
    BY <2>1, <2>2, SumAdd
  <2>4. QED
    BY <2>2, <2>3 DEF A
<1>9. (({} \cup {a}) \cup {b}) \cup {D!N} = D!Last3
  BY <1>2
<1>10. SumOver(PerDay, D!Last3) = 0 + PerDay[a] + PerDay[b] + PerDay[D!N]
  BY <1>8, <1>9, Zenon
<1>11. QED
  BY <1>3, <1>4, <1>10 DEF a, b

\* A longest silence is the silence of a week.
LEMMA LongestIsOfAWeek ==
  ASSUME D!KindsAssumption, Weekly, NEW W \in SUBSET (1..D!N), W # {}
  PROVE  \E i \in W : D!LongestIn(W) = weeks[i].silence
<1>1. IsFiniteSet(W)
  <2>1. IsFiniteSet(1..D!N)
    BY WeekTypes, FS_Interval
  <2>2. QED
    BY <2>1, FS_Subset
<1>2. \A i \in W : Spell[i] \in Int /\ Spell[i] = weeks[i].silence
  BY PerDayType
<1>3. PICK i \in W : \A j \in W : Spell[j] <= Spell[i]
  BY <1>1, <1>2, Largest
<1> DEFINE Q == {weeks[j].silence : j \in W}
<1>4. weeks[i].silence \in Q /\ \A y \in Q : weeks[i].silence >= y
  BY <1>2, <1>3
<1>5. \E z \in Q : \A y \in Q : z >= y
  BY <1>4
<1>6. Max(Q) \in Q
  <2> HIDE DEF Q
  <2>1. QED
    BY <1>5, Zenon DEF Max
<1>7. D!LongestIn(W) = Max(Q)
  BY Zenon DEF D!LongestIn, D!Max, Max
<1>8. QED
  BY <1>6, <1>7

LEMMA StartIsADrop ==
  ASSUME D!KindsAssumption, Weekly
  PROVE  D!StartShowsTheDrop
<1> SUFFICES ASSUME D!Detected PROVE D!ShowsDrop(D!Start)
  BY DEF D!StartShowsTheDrop, D!ShowsDrop
<1> DEFINE shown == {i \in D!Last3 : D!ShowsDrop(i)}
<1>1. D!HasBaseline /\ (D!VolumeFell \/ D!SilenceHit(D!LongestIn(D!Last3)))
  BY DEF D!Detected
<1>2. D!Base2 \in Int /\ D!N \in Nat /\ D!N >= 7
  BY <1>1, BaseType
<1>3. D!Last3 \in SUBSET (1..D!N) /\ {D!N - 2, D!N - 1, D!N} \subseteq D!Last3 /\ D!Last3 # {}
  <2>1. D!Last3 = (D!N - 2)..D!N
    BY <1>2, SMT DEF D!Last3, D!Window
  <2>2. \A x \in (D!N - 2)..D!N : x \in 1..D!N
    BY <1>2
  <2>3. D!N - 2 \in (D!N - 2)..D!N /\ D!N - 1 \in (D!N - 2)..D!N /\ D!N \in (D!N - 2)..D!N
    BY <1>2
  <2>4. QED
    BY <2>1, <2>2, <2>3
<1>4. shown # {}
  <2>1. CASE D!SilenceHit(D!LongestIn(D!Last3))
    <3>1. PICK i \in D!Last3 : D!LongestIn(D!Last3) = weeks[i].silence
      BY <1>3, LongestIsOfAWeek
    <3>2. D!SilenceHit(weeks[i].silence)
      BY <2>1, <3>1
    <3>3. QED
      BY <3>2 DEF D!ShowsDrop
  <2>2. CASE D!VolumeFell
    <3>1. /\ D!Base2 > 0
          /\ 4 * D!Sum(LAMBDA i : weeks[i].perDay, D!Last3) <= D!Base2 * D!Window
      BY <2>2, Zenon DEF D!VolumeFell
    <3>2. D!Sum(LAMBDA i : weeks[i].perDay, D!Last3) = PerDay[D!N - 2] + PerDay[D!N - 1] + PerDay[D!N]
      BY <1>1, WindowVolume
    <3>3. \A i \in {D!N - 2, D!N - 1, D!N} : PerDay[i] = weeks[i].perDay /\ PerDay[i] \in Nat
      BY <1>3, PerDayType
    <3>4. \E i \in {D!N - 2, D!N - 1, D!N} : 20 * PerDay[i] <= 7 * D!Base2
      <4> SUFFICES ASSUME \A i \in {D!N - 2, D!N - 1, D!N} : ~(20 * PerDay[i] <= 7 * D!Base2)
                   PROVE  FALSE
        OBVIOUS
      <4>1. PICK x, y, z \in Int : /\ x = PerDay[D!N - 2] /\ y = PerDay[D!N - 1] /\ z = PerDay[D!N]
                                   /\ 20 * x > 7 * D!Base2 /\ 20 * y > 7 * D!Base2
                                   /\ 20 * z > 7 * D!Base2
        BY <1>2, <3>3
      <4>2. 4 * (x + y + z) <= D!Base2 * 3
        BY <3>1, <3>2, <4>1 DEF D!Window
      <4>3. QED
        BY <1>2, <3>1, <4>1, <4>2
    <3>5. QED
      BY <1>3, <3>3, <3>4 DEF D!ShowsDrop
  <2>3. QED
    BY <1>1, <2>1, <2>2
<1>5. D!Start = Min(shown)
  BY <1>4, Zenon DEF D!Start, D!Min, Min
<1>6. Min(shown) \in shown
  <2>1. shown \in SUBSET Nat
    <3>1. shown \subseteq D!Last3 /\ (1..D!N) \subseteq Nat
      BY <1>2
    <3>2. QED
      BY <1>3, <3>1
  <2> HIDE DEF shown
  <2>2. QED
    BY <1>4, <2>1, LeastElement
<1>7. QED
  BY <1>5, <1>6

---------------------------------------------------------------------------
(* The turning point *)

LEMMA CutoffIs ==
  ASSUME D!KindsAssumption, Weekly, D!Enough
  PROVE  D!N \in Nat /\ D!N >= 2 /\ D!Cutoff \in Nat /\ 1 <= D!Cutoff /\ D!Cutoff <= D!N
<1>1. D!N \in Nat /\ D!N >= 2
  BY WeekTypes DEF D!Enough
<1> DEFINE r == (8 * D!N + 10 \div 2) \div 10
<1>2. r \in Nat /\ r <= D!N
  BY <1>1
<1> HIDE DEF r
<1>3. Max({1, r}) = IF 1 >= r THEN 1 ELSE r
  BY <1>2, MaxOfTwo
<1>4. D!Cutoff = Max({1, r})
  BY Zenon DEF D!Cutoff, D!Ratio, r, D!Max, Max
<1>5. QED
  BY <1>1, <1>2, <1>3, <1>4

LEMMA TailIsNot ==
  ASSUME D!KindsAssumption, Weekly
  PROVE  D!TailIsNotTrusted
<1> SUFFICES ASSUME D!Enough, NEW p \in D!TurningPoints, p > D!Cutoff
             PROVE  D!Detected /\ p = D!Start
  BY DEF D!TailIsNotTrusted
<1>1. D!N \in Nat /\ D!Cutoff \in Nat /\ 1 <= D!Cutoff
  BY CutoffIs
<1>2. D!Falls = {}
  <2> SUFFICES ASSUME D!Falls # {} PROVE FALSE
    OBVIOUS
  <2>1. PICK i \in D!Steepest : p = i + 1
    BY DEF D!TurningPoints
  <2>2. i \in 1..(D!Cutoff - 1)
    BY DEF D!Steepest, D!Falls, D!Searched
  <2>3. QED
    BY <1>1, <2>1, <2>2
<1>3. D!TurningPoints = IF D!Detected THEN {D!Start} ELSE {0}
  BY <1>2 DEF D!TurningPoints
<1>4. CASE D!Detected
  BY <1>3, <1>4
<1>5. CASE ~D!Detected
  BY <1>1, <1>3, <1>5
<1>6. QED
  BY <1>4, <1>5

\* The drop at i, from what the weeks up to i and all of them add up to.
LEMMA DropIs ==
  ASSUME D!KindsAssumption, Weekly, D!Enough, NEW i \in 1..(D!N - 1)
  PROVE  /\ D!Healths(1..i) \in Int /\ D!Healths((i + 1)..D!N) \in Int /\ D!Healths(1..D!N) \in Int
         /\ D!Healths(1..D!N) = D!Healths(1..i) + D!Healths((i + 1)..D!N)
         /\ D!Drop(i) = D!N * D!Healths(1..i) - i * D!Healths(1..D!N)
         /\ D!Drop(i) = (D!N - i) * D!Healths(1..D!N) - D!N * D!Healths((i + 1)..D!N)
         /\ D!Drop(i) \in Int
<1>1. D!N \in Nat /\ D!N >= 2 /\ i \in Nat /\ 1 <= i /\ i <= D!N - 1
  BY CutoffIs
<1>2. D!Healths(1..i) \in Int /\ D!Healths((i + 1)..D!N) \in Int
  <2>1. /\ 1 \in 1..(D!N + 1) /\ i \in 0..D!N /\ 1 <= i + 1
        /\ i + 1 \in 1..(D!N + 1) /\ D!N \in 0..D!N /\ i + 1 <= D!N + 1
    BY <1>1
  <2>2. QED
    BY <2>1, HealthsBound
<1>3. D!Healths(1..D!N) = D!Healths(1..i) + D!Healths((i + 1)..D!N)
  <2>1. 1 \in Nat /\ i \in Nat /\ D!N \in Nat /\ 1 <= 1 /\ 1 <= i + 1 /\ i <= D!N /\ D!N <= D!N
    BY <1>1
  <2>2. QED
    BY <2>1, HealthsSplit
<1>4. D!Drop(i) = (D!N - i) * D!Healths(1..i) - i * D!Healths((i + 1)..D!N)
  BY Zenon DEF D!Drop
<1>5. ASSUME NEW n \in Int, NEW j \in Int, NEW a \in Int, NEW b \in Int
      PROVE  /\ (n - j) * a - j * b \in Int
             /\ (n - j) * a - j * b = n * a - j * (a + b)
             /\ (n - j) * a - j * b = (n - j) * (a + b) - n * b
  OBVIOUS
<1>6. QED
  <2> DEFINE a == D!Healths(1..i)
             b == D!Healths((i + 1)..D!N)
             c == D!Healths(1..D!N)
  <2>1. a \in Int /\ b \in Int /\ c = a + b /\ D!Drop(i) = (D!N - i) * a - i * b
    BY <1>2, <1>3, <1>4
  <2> HIDE DEF a, b, c
  <2>2. /\ a \in Int /\ b \in Int /\ c \in Int /\ c = a + b /\ D!Drop(i) \in Int
        /\ D!Drop(i) = D!N * a - i * c /\ D!Drop(i) = (D!N - i) * c - D!N * b
    BY <1>1, <1>5, <2>1
  <2>3. QED
    BY <2>2 DEF a, b, c

\* Whether one mean difference is larger than another one, over products.
LEMMA StepForth ==
  ASSUME NEW n \in Nat, NEW i \in Nat, 1 <= i, i <= n - 2,
         NEW d \in Int, NEW e \in Int, i * e >= (i + 1) * d, NEW m \in Nat,
         d > m * i * (n - i)
  PROVE  /\ e > m * (i + 1) * (n - (i + 1))
         /\ e * (i * (n - i)) > d * ((i + 1) * (n - (i + 1)))
  OBVIOUS

LEMMA StepBack ==
  ASSUME NEW n \in Nat, NEW i \in Nat, 2 <= i, i <= n - 1,
         NEW d \in Int, NEW e \in Int, (n - i) * e >= (n - i + 1) * d, NEW m \in Nat,
         d > m * i * (n - i)
  PROVE  /\ e > m * (i - 1) * (n - (i - 1))
         /\ e * (i * (n - i)) > d * ((i - 1) * (n - (i - 1)))
  OBVIOUS

\* Adding a week that is not below the mean before it makes the drop steeper,
LEMMA SteeperForth ==
  ASSUME NEW n \in Nat, NEW i \in Nat, 1 <= i, NEW a \in Int, NEW h \in Int, NEW c \in Int,
         i * h >= a
  PROVE  i * (n * (a + h) - (i + 1) * c) >= (i + 1) * (n * a - i * c)
<1>1. n * (i * h) >= n * a
  OBVIOUS
<1>2. i * (n * (a + h) - (i + 1) * c) = i * n * a + n * (i * h) - i * (i + 1) * c
  OBVIOUS
<1>3. (i + 1) * (n * a - i * c) = i * n * a + n * a - i * (i + 1) * c
  OBVIOUS
<1>4. n * (i * h) \in Int /\ n * a \in Int /\ i * n * a \in Int /\ i * (i + 1) * c \in Int
  OBVIOUS
<1>5. QED
  BY <1>1, <1>2, <1>3, <1>4

\* and so does leaving to the other side one that is not above the mean after it.
LEMMA SteeperBack ==
  ASSUME NEW n \in Nat, NEW m \in Nat, 1 <= m, NEW b \in Int, NEW h \in Int, NEW c \in Int,
         m * h <= b
  PROVE  m * ((m + 1) * c - n * (b + h)) >= (m + 1) * (m * c - n * b)
<1>1. n * (m * h) <= n * b
  OBVIOUS
<1>2. m * ((m + 1) * c - n * (b + h)) = m * (m + 1) * c - m * n * b - n * (m * h)
  OBVIOUS
<1>3. (m + 1) * (m * c - n * b) = m * (m + 1) * c - m * n * b - n * b
  OBVIOUS
<1>4. n * (m * h) \in Int /\ n * b \in Int /\ m * n * b \in Int /\ m * (m + 1) * c \in Int
  OBVIOUS
<1>5. QED
  BY <1>1, <1>2, <1>3, <1>4

LEMMA SteepestIsWorse ==
  ASSUME D!KindsAssumption, Weekly, D!Enough, NEW i \in D!Steepest
  PROVE  /\ i + 1 < D!Cutoff => i * D!Health(i + 1) < D!Healths(1..i)
         /\ i >= 2 => (D!N - i) * D!Health(i) > D!Healths((i + 1)..D!N)
<1>1. D!N \in Nat /\ D!Cutoff \in Nat /\ D!Cutoff <= D!N
  BY CutoffIs
<1>2. /\ i \in D!Falls /\ \A j \in D!Falls : ~D!Exceeds(j, i)
      /\ i \in Nat /\ 1 <= i /\ i <= D!Cutoff - 1
      /\ D!Drop(i) > D!MinDrop * i * (D!N - i)
  BY <1>1 DEF D!Steepest, D!Falls, D!Searched
<1>3. i \in 1..(D!N - 1) /\ i <= D!N - 1
  BY <1>1, <1>2
<1>4. D!MinDrop \in Nat
  BY SMT DEF D!MinDrop
<1>5. D!Drop(i) \in Int
  BY <1>3, DropIs
<1>6. ASSUME i + 1 < D!Cutoff, ~(i * D!Health(i + 1) < D!Healths(1..i)) PROVE FALSE
  <2>1. i + 1 \in 1..D!N /\ i + 1 \in 1..(D!N - 1) /\ i <= D!N - 2 /\ i + 1 \in 1..(D!Cutoff - 1)
    BY <1>1, <1>2, <1>6
  <2>2. D!Health(i + 1) \in Int /\ D!Healths((i + 1)..(i + 1)) = D!Health(i + 1)
    BY <2>1, HealthsOne
  <2>3. D!Healths(1..(i + 1)) = D!Healths(1..i) + D!Health(i + 1)
    <3>1. 1 \in Nat /\ i \in Nat /\ i + 1 \in Nat /\ 1 <= 1 /\ 1 <= i + 1 /\ i <= i + 1 /\ i + 1 <= D!N
      BY <1>1, <1>2, <1>3
    <3>2. D!Healths(1..(i + 1)) = D!Healths(1..i) + D!Healths((i + 1)..(i + 1))
      BY <3>1, HealthsSplit
    <3>3. QED
      BY <2>2, <3>2
  <2>4. /\ D!Healths(1..i) \in Int /\ D!Healths(1..D!N) \in Int
        /\ D!Drop(i) = D!N * D!Healths(1..i) - i * D!Healths(1..D!N)
    BY <1>3, DropIs
  <2>5. D!Drop(i + 1) = D!N * D!Healths(1..(i + 1)) - (i + 1) * D!Healths(1..D!N) /\ D!Drop(i + 1) \in Int
    BY <2>1, DropIs
  <2>6. i * D!Health(i + 1) >= D!Healths(1..i)
    BY <1>2, <1>6, <2>2, <2>4
  <2>7. i * (D!N * (D!Healths(1..i) + D!Health(i + 1)) - (i + 1) * D!Healths(1..D!N))
          >= (i + 1) * (D!N * D!Healths(1..i) - i * D!Healths(1..D!N))
    BY <1>1, <1>2, <2>2, <2>4, <2>6, SteeperForth
  <2>8. i * D!Drop(i + 1) >= (i + 1) * D!Drop(i)
    BY <2>3, <2>4, <2>5, <2>7
  <2>9. /\ D!Drop(i + 1) > D!MinDrop * (i + 1) * (D!N - (i + 1))
        /\ D!Drop(i + 1) * (i * (D!N - i)) > D!Drop(i) * ((i + 1) * (D!N - (i + 1)))
    BY <1>1, <1>2, <1>4, <1>5, <2>1, <2>5, <2>8, StepForth
  <2>10. i + 1 \in D!Falls
    BY <2>1, <2>9 DEF D!Falls, D!Searched
  <2>11. D!Exceeds(i + 1, i)
    BY <2>9 DEF D!Exceeds
  <2>12. QED
    BY <1>2, <2>10, <2>11
<1>7. ASSUME i >= 2, ~((D!N - i) * D!Health(i) > D!Healths((i + 1)..D!N)) PROVE FALSE
  <2>1. /\ i \in 1..D!N /\ i - 1 \in 1..(D!N - 1) /\ i - 1 \in 1..(D!Cutoff - 1)
        /\ D!N - i \in Nat /\ 1 <= D!N - i
    BY <1>1, <1>2, <1>7
  <2>2. D!Health(i) \in Int /\ D!Healths(i..i) = D!Health(i)
    BY <2>1, HealthsOne
  <2>3. D!Healths(i..D!N) = D!Health(i) + D!Healths((i + 1)..D!N)
    <3>1. i \in Nat /\ D!N \in Nat /\ 1 <= i /\ i <= i + 1 /\ i <= D!N /\ D!N <= D!N
      BY <1>1, <1>2, <1>3
    <3>2. D!Healths(i..D!N) = D!Healths(i..i) + D!Healths((i + 1)..D!N)
      BY <3>1, HealthsSplit
    <3>3. QED
      BY <2>2, <3>2
  <2>4. /\ D!Healths((i + 1)..D!N) \in Int /\ D!Healths(1..D!N) \in Int
        /\ D!Drop(i) = (D!N - i) * D!Healths(1..D!N) - D!N * D!Healths((i + 1)..D!N)
    BY <1>3, DropIs
  <2>5. /\ D!Drop(i - 1) = (D!N - (i - 1)) * D!Healths(1..D!N) - D!N * D!Healths(((i - 1) + 1)..D!N)
        /\ D!Drop(i - 1) \in Int
    BY <2>1, DropIs
  <2>6. D!N - (i - 1) = (D!N - i) + 1 /\ (i - 1) + 1 = i
    BY <1>1, <1>2
  <2>7. (D!N - i) * D!Health(i) <= D!Healths((i + 1)..D!N)
    BY <1>1, <1>2, <1>7, <2>2, <2>4
  <2>8. (D!N - i) * (((D!N - i) + 1) * D!Healths(1..D!N) - D!N * (D!Healths((i + 1)..D!N) + D!Health(i)))
          >= ((D!N - i) + 1) * ((D!N - i) * D!Healths(1..D!N) - D!N * D!Healths((i + 1)..D!N))
    BY <1>1, <2>1, <2>2, <2>4, <2>7, SteeperBack
  <2>9. D!Drop(i - 1) = ((D!N - i) + 1) * D!Healths(1..D!N) - D!N * (D!Healths((i + 1)..D!N) + D!Health(i))
    BY <2>2, <2>3, <2>4, <2>5, <2>6
  <2>10. (D!N - i) * D!Drop(i - 1) >= (D!N - i + 1) * D!Drop(i)
    BY <2>4, <2>8, <2>9
  <2>11. /\ D!Drop(i - 1) > D!MinDrop * (i - 1) * (D!N - (i - 1))
         /\ D!Drop(i - 1) * (i * (D!N - i)) > D!Drop(i) * ((i - 1) * (D!N - (i - 1)))
    BY <1>1, <1>2, <1>3, <1>4, <1>5, <1>7, <2>5, <2>10, StepBack
  <2>12. i - 1 \in D!Falls
    BY <2>1, <2>11 DEF D!Falls, D!Searched
  <2>13. D!Exceeds(i - 1, i)
    BY <2>11 DEF D!Exceeds
  <2>14. QED
    BY <1>2, <2>12, <2>13
<1>8. QED
  BY <1>6, <1>7

LEMMA TurnsWhereItGotWorse ==
  ASSUME D!KindsAssumption, Weekly
  PROVE  D!TurningPointIsWorse
<1> SUFFICES ASSUME D!Enough, D!Falls # {}, NEW p \in D!TurningPoints
             PROVE  /\ p < D!Cutoff => (p - 1) * D!Health(p) < D!Healths(1..(p - 1))
                    /\ p > 2 => (D!N - p + 1) * D!Health(p - 1) > D!Healths(p..D!N)
  BY DEF D!TurningPointIsWorse
<1>1. D!N \in Nat /\ D!Cutoff \in Nat
  BY CutoffIs
<1>2. PICK i \in D!Steepest : p = i + 1
  BY DEF D!TurningPoints
<1>3. i \in Int
  BY <1>1 DEF D!Steepest, D!Falls, D!Searched
<1>4. p - 1 = i /\ D!N - p + 1 = D!N - i
  BY <1>1, <1>2, <1>3
<1>5. /\ i + 1 < D!Cutoff => i * D!Health(i + 1) < D!Healths(1..i)
      /\ i >= 2 => (D!N - i) * D!Health(i) > D!Healths((i + 1)..D!N)
  BY SteepestIsWorse
<1>6. QED
  BY <1>2, <1>3, <1>4, <1>5

Verdict == D!StartShowsTheDrop /\ D!TailIsNotTrusted /\ D!TurningPointIsWorse /\ D!ScoreAgreesWithTrend

LEMMA VerdictHolds ==
  ASSUME D!KindsAssumption, Weekly
  PROVE  Verdict
BY StartIsADrop, TailIsNot, TurnsWhereItGotWorse, TrendIsInTheScore DEF Verdict


---------------------------------------------------------------------------
(* The chat *)

Message == [by : People, at : Int]
Chatting == chat \in Seq(Message)

ChatAssumptions == C!PeopleAssumption /\ C!TimeAssumption /\ C!BoundAssumption

LEMMA ChatInit == C!Init => Chatting
  BY DEF C!Init, Chatting

LEMMA SaysIs ==
  ASSUME Chatting, ChatAssumptions, C!Next
  PROVE  \E p \in People, t \in Int : C!Says(p, t)
<1>1. PICK p \in People :
        IF chat = <<>> THEN \E t \in FirstTimes : C!Says(p, t)
        ELSE \E d \in ChatSteps : C!Says(p, chat[Len(chat)].at + d)
  BY DEF C!Next
<1>2. CASE chat = <<>>
  BY <1>1, <1>2 DEF ChatAssumptions, C!TimeAssumption
<1>3. CASE chat # <<>>
  <2>1. PICK d \in ChatSteps : C!Says(p, chat[Len(chat)].at + d)
    BY <1>1, <1>3
  <2>2. d \in Int
    BY DEF ChatAssumptions, C!TimeAssumption
  <2>3. Len(chat) \in 1..Len(chat)
    BY <1>3, EmptySeq, LenProperties DEF Chatting
  <2>4. chat[Len(chat)] \in Message
    BY <2>3, ElementOfSeq DEF Chatting
  <2>5. chat[Len(chat)].at \in Int
    BY <2>4 DEF Message
  <2>6. chat[Len(chat)].at + d \in Int
    BY <2>2, <2>5
  <2>7. QED
    BY <2>1, <2>6
<1>4. QED
  BY <1>2, <1>3

LEMMA ChatStep ==
  ASSUME ChatAssumptions, Chatting, [C!Next]_chat
  PROVE  Chatting'
<1>1. CASE C!Next
  <2>1. PICK p \in People, t \in Int : C!Says(p, t)
    BY <1>1, SaysIs
  <2>2. [by |-> p, at |-> t] \in Message
    BY DEF Message
  <2>3. QED
    BY <2>1, <2>2, AppendProperties DEF Chatting, C!Says
<1>2. CASE UNCHANGED chat
  BY <1>2 DEF Chatting
<1>3. QED
  BY <1>1, <1>2

LEMMA ChatTypes ==
  ASSUME Chatting
  PROVE  /\ Len(chat) \in Nat /\ DOMAIN chat = 1..Len(chat)
         /\ \A i \in 1..Len(chat) : C!By(i) \in People /\ chat[i].at \in Int
         /\ \A i \in C!Later : /\ C!Gap(i) \in Int /\ i \in 1..Len(chat) /\ i - 1 \in 1..Len(chat)
                             /\ C!Gap(i) = chat[i].at - chat[i - 1].at /\ i \in Nat
         /\ IsFiniteSet(C!Later) /\ IsFiniteSet(1..Len(chat))
<1>1. Len(chat) \in Nat /\ DOMAIN chat = 1..Len(chat)
  BY LenProperties DEF Chatting
<1>2. \A i \in 1..Len(chat) : chat[i] \in Message
  BY ElementOfSeq DEF Chatting
<1>3. \A i \in 1..Len(chat) : C!By(i) \in People /\ chat[i].at \in Int
  BY <1>2 DEF Message, C!By
<1>4. \A i \in C!Later : i \in 1..Len(chat) /\ i - 1 \in 1..Len(chat) /\ i \in Nat
  BY <1>1 DEF C!Later
<1>5. \A i \in C!Later : C!Gap(i) \in Int /\ C!Gap(i) = chat[i].at - chat[i - 1].at
  BY <1>3, <1>4 DEF C!Gap
<1>6. IsFiniteSet(C!Later) /\ IsFiniteSet(1..Len(chat))
  <2>1. IsFiniteSet(2..Len(chat)) /\ IsFiniteSet(1..Len(chat))
    BY <1>1, FS_Interval
  <2>2. QED
    BY <2>1 DEF C!Later
<1>7. QED
  BY <1>1, <1>3, <1>4, <1>5, <1>6

---------------------------------------------------------------------------
(* Percentiles of gaps *)

GapOf == [i \in C!Later |-> C!Gap(i)]

LEMMA GapsAre ==
  ASSUME Chatting, NEW s \in SUBSET C!Later
  PROVE  /\ IsFiniteSet(s) /\ \A i \in s : GapOf[i] \in Int /\ GapOf[i] = C!Gap(i)
         /\ \A l : AtMost(GapOf, s, l) = {i \in s : C!Gap(i) <= l}
<1>1. IsFiniteSet(s)
  BY ChatTypes, FS_Subset
<1>2. \A i \in s : GapOf[i] \in Int /\ GapOf[i] = C!Gap(i)
  BY ChatTypes DEF GapOf
<1>3. QED
  BY <1>1, <1>2 DEF AtMost

LEMMA RankedGaps ==
  ASSUME Chatting, NEW s \in SUBSET C!Later, NEW k
  PROVE  C!Ranked(s, k) = Kth(GapOf, s, k)
<1> DEFINE AtLeast(i) == Cardinality({j \in s : C!Gap(j) <= C!Gap(i)})
<1>1. \A i \in s : AtMost(GapOf, s, GapOf[i]) = {j \in s : C!Gap(j) <= C!Gap(i)} /\ GapOf[i] = C!Gap(i)
  BY GapsAre
<1>2. \A i \in s : Cardinality(AtMost(GapOf, s, GapOf[i])) = AtLeast(i)
  BY <1>1
<1>3. Reaching(GapOf, s, k) = {j \in s : AtLeast(j) >= k}
  <2> HIDE DEF AtLeast
  <2>1. QED
    BY <1>2 DEF Reaching
<1>4. {GapOf[i] : i \in Reaching(GapOf, s, k)} = {C!Gap(i) : i \in {j \in s : AtLeast(j) >= k}}
  <2> HIDE DEF AtLeast
  <2>1. \A i \in {j \in s : AtLeast(j) >= k} : GapOf[i] = C!Gap(i)
    BY <1>1
  <2>2. QED
    BY <1>3, <2>1
<1>5. C!Ranked(s, k) = Min({C!Gap(i) : i \in {j \in s : AtLeast(j) >= k}})
  BY Zenon DEF C!Ranked, C!Min, Min, C!Cardinality, Cardinality
<1>6. QED
  BY <1>4, <1>5, Zenon DEF Kth

\* The k-th of the gaps is at most l exactly when k of them are.
LEMMA RankedIs ==
  ASSUME Chatting, NEW s \in SUBSET C!Later, NEW k \in Nat, 1 <= k, k <= Cardinality(s)
  PROVE  /\ C!Ranked(s, k) \in Int
         /\ \A l \in Int : /\ C!Ranked(s, k) <= l <=> Cardinality({i \in s : C!Gap(i) <= l}) >= k
                           /\ Cardinality({i \in s : C!Gap(i) <= l}) \in Nat
<1>1. /\ IsFiniteSet(s) /\ \A i \in s : GapOf[i] \in Int
      /\ \A l : AtMost(GapOf, s, l) = {i \in s : C!Gap(i) <= l}
  BY GapsAre
<1>2. /\ Kth(GapOf, s, k) \in Int
      /\ \A l \in Int : Kth(GapOf, s, k) <= l <=> Cardinality(AtMost(GapOf, s, l)) >= k
  BY <1>1, KthIs
<1>3. \A l \in Int : Cardinality(AtMost(GapOf, s, l)) \in Nat
  BY <1>1, AtMostSize
<1>4. C!Ranked(s, k) = Kth(GapOf, s, k)
  BY RankedGaps
<1>5. QED
  BY <1>1, <1>2, <1>3, <1>4

LEMMA AnswersAgree ==
  ASSUME Chatting
  PROVE  C!P90AgreesWithConsistency
<1> SUFFICES ASSUME NEW p \in People, C!Answers(p) # {}
             PROVE  C!P90(C!Answers(p)) <= 1 <=> 10 * C!WithinAnHour(C!Answers(p)) > 9 * Cardinality(C!Answers(p))
  BY Zenon DEF C!P90AgreesWithConsistency, C!Cardinality, Cardinality
<1> DEFINE s == C!Answers(p)
           n == Cardinality(s)
           k == 1 + (n * 9) \div 10
<1>1. s \in SUBSET C!Later
  BY DEF C!Answers, C!Responses
<1>2. s # {}
  OBVIOUS
<1> HIDE DEF s
<1>3. n \in Nat /\ n >= 1
  <2>1. IsFiniteSet(s)
    BY <1>1, ChatTypes, FS_Subset
  <2>2. Cardinality(s) \in Nat /\ Cardinality(s) # 0
    BY <1>2, <2>1, FS_CardinalityType, FS_EmptySet
  <2>3. QED
    BY <2>2
<1>4. C!P90(s) = C!Ranked(s, 1 + Min({(n * 9) \div 10, n - 1}))
  BY Zenon DEF C!P90, C!Min, Min, C!Cardinality, Cardinality
<1> HIDE DEF n
<1>5. /\ (n * 9) \div 10 <= n - 1 /\ (n * 9) \div 10 \in Nat
      /\ \A m \in Nat : m >= k <=> 10 * m > 9 * n
  BY <1>3
<1>6. Min({(n * 9) \div 10, n - 1}) = (n * 9) \div 10
  BY <1>3, <1>5, MinOfTwo
<1>7. C!P90(s) = C!Ranked(s, k) /\ k \in Nat /\ 1 <= k /\ k <= n
  BY <1>3, <1>4, <1>5, <1>6
<1> HIDE DEF k
<1>8. /\ C!Ranked(s, k) <= 1 <=> Cardinality({i \in s : C!Gap(i) <= 1}) >= k
      /\ Cardinality({i \in s : C!Gap(i) <= 1}) \in Nat
  BY <1>1, <1>7, RankedIs DEF n
<1>9. C!WithinAnHour(s) = Cardinality({i \in s : C!Gap(i) <= 1})
  BY Zenon DEF C!WithinAnHour, C!Cardinality, Cardinality
<1>10. C!P90(s) <= 1 <=> 10 * C!WithinAnHour(s) > 9 * n
  BY <1>5, <1>7, <1>8, <1>9
<1>11. QED
  BY <1>10 DEF s, n

---------------------------------------------------------------------------
(* The threshold *)

LEMMA SizeIs ==
  ASSUME Chatting, ChatAssumptions, C!HasRhythm
  PROVE  /\ C!Rhythm \in SUBSET C!Later /\ C!Size \in Nat /\ C!Size >= 1 /\ C!Size = Cardinality(C!Rhythm)
         /\ \E k \in Nat : /\ 1 <= k /\ k <= C!Size /\ C!P95 = C!Ranked(C!Rhythm, k)
                           /\ \A m \in Nat : m >= k <=> 100 * m > Pct * C!Size
<1>1. C!Rhythm \in SUBSET C!Later /\ C!Size = Cardinality(C!Rhythm)
  BY Zenon DEF C!Rhythm, C!Size, C!Cardinality, Cardinality
<1>2. C!Size \in Nat
  <2>1. IsFiniteSet(C!Rhythm)
    BY <1>1, ChatTypes, FS_Subset
  <2>2. QED
    BY <1>1, <2>1, FS_CardinalityType
<1>3. C!Size >= 1 /\ Pct \in 0..99
  BY <1>2 DEF C!HasRhythm, ChatAssumptions, C!BoundAssumption
<1> DEFINE q == (C!Size * Pct) \div 100
<1>4. q \in Nat /\ q <= C!Size - 1 /\ \A m \in Nat : m >= 1 + q <=> 100 * m > Pct * C!Size
  <2>1. PICK n \in Nat, c \in 0..99 : n = C!Size /\ c = Pct /\ n >= 1
    BY <1>2, <1>3
  <2> DEFINE x == n * c
  <2>2. x \in Nat /\ x < 100 * n /\ c * n = x
    BY <2>1
  <2>3. C!Size * Pct = x /\ Pct * C!Size = x
    BY <2>1, <2>2
  <2> HIDE DEF x
  <2>4. x \div 100 \in Nat /\ x \div 100 <= n - 1 /\ \A m \in Nat : m >= 1 + x \div 100 <=> 100 * m > x
    BY <2>1, <2>2, SMT
  <2>5. QED
    BY <2>1, <2>3, <2>4
<1>5. C!P95 = C!Ranked(C!Rhythm, 1 + Min({q, C!Size - 1}))
  BY Zenon DEF C!P95, C!Min, Min
<1> HIDE DEF q
<1>6. Min({q, C!Size - 1}) = q
  BY <1>2, <1>4, MinOfTwo
<1>7. QED
  <2>1. 1 + q \in Nat /\ 1 <= 1 + q /\ 1 + q <= C!Size /\ C!P95 = C!Ranked(C!Rhythm, 1 + q)
    BY <1>2, <1>4, <1>5, <1>6
  <2>2. QED
    BY <1>1, <1>2, <1>3, <1>4, <2>1

\* How many gaps are within the percentile.
LEMMA PercentileIs ==
  ASSUME Chatting, ChatAssumptions, C!HasRhythm
  PROVE  /\ C!P95 \in Int
         /\ \A l \in Int :
              /\ C!P95 <= l <=> 100 * Cardinality({i \in C!Rhythm : C!Gap(i) <= l}) > Pct * C!Size
              /\ Cardinality({i \in C!Rhythm : C!Gap(i) <= l}) \in Nat
<1>1. /\ C!Rhythm \in SUBSET C!Later /\ C!Size = Cardinality(C!Rhythm)
  BY SizeIs
<1>2. PICK k \in Nat : /\ 1 <= k /\ k <= C!Size /\ C!P95 = C!Ranked(C!Rhythm, k)
                       /\ \A m \in Nat : m >= k <=> 100 * m > Pct * C!Size
  BY SizeIs
<1>3. /\ C!Ranked(C!Rhythm, k) \in Int
      /\ \A l \in Int : /\ C!Ranked(C!Rhythm, k) <= l <=> Cardinality({i \in C!Rhythm : C!Gap(i) <= l}) >= k
                        /\ Cardinality({i \in C!Rhythm : C!Gap(i) <= l}) \in Nat
  BY <1>1, <1>2, RankedIs
<1>4. QED
  BY <1>2, <1>3

LEMMA ContinuousIs ==
  ASSUME Chatting, ChatAssumptions
  PROVE  C!ContinuousIsJudgedByGaps
<1> SUFFICES ASSUME C!HasRhythm
             PROVE  C!Continuous <=> 100 * Cardinality({i \in C!Rhythm : C!Gap(i) < C!Floor}) > Pct * C!Size
  BY Zenon DEF C!ContinuousIsJudgedByGaps, C!Cardinality, Cardinality
<1>1. /\ C!P95 \in Int
      /\ C!P95 <= 0 <=> 100 * Cardinality({i \in C!Rhythm : C!Gap(i) <= 0}) > Pct * C!Size
  BY PercentileIs
<1>2. \A i \in C!Rhythm : C!Gap(i) \in Int
  BY ChatTypes DEF C!Rhythm
<1>3. {i \in C!Rhythm : C!Gap(i) < C!Floor} = {i \in C!Rhythm : C!Gap(i) <= 0}
  BY <1>2 DEF C!Floor
<1>4. C!Continuous <=> C!P95 <= 0
  BY <1>1 DEF C!Continuous, C!Floor
<1>5. QED
  BY <1>1, <1>3, <1>4

LEMMA ClampIs ==
  ASSUME NEW x \in Int
  PROVE  /\ C!Clamp(x) \in Int /\ C!Floor <= C!Clamp(x) /\ C!Clamp(x) <= C!Ceiling
         /\ x <= C!Ceiling => x <= C!Clamp(x)
BY DEF C!Clamp, C!Floor, C!Ceiling

LEMMA AdaptiveGapIs ==
  ASSUME Chatting, ChatAssumptions
  PROVE  C!AdaptiveGap \in Int /\ C!Floor <= C!AdaptiveGap /\ C!AdaptiveGap <= C!Ceiling
<1>1. CASE C!HasRhythm
  BY <1>1, PercentileIs, ClampIs DEF C!AdaptiveGap
<1>2. CASE ~C!HasRhythm
  BY <1>2 DEF C!AdaptiveGap, C!Fallback, C!Floor, C!Ceiling
<1>3. QED
  BY <1>1, <1>2

LEMMA BreaksAre ==
  ASSUME Chatting, ChatAssumptions
  PROVE  /\ C!Breaks = {i \in C!Later : C!Gap(i) > C!AdaptiveGap}
         /\ C!Starts = {i \in 1..Len(chat) : i = 1 \/ (i > 1 /\ C!Gap(i) > C!AdaptiveGap)}
         /\ C!Breaks \in SUBSET C!Later /\ C!Starts \in SUBSET (1..Len(chat))
<1>1. Len(chat) \in Nat /\ DOMAIN chat = 1..Len(chat)
  BY ChatTypes
<1>2. C!Starts = {i \in 1..Len(chat) : i = 1 \/ (i > 1 /\ C!Gap(i) > C!AdaptiveGap)}
  BY <1>1, AdaptiveGapIs DEF C!Starts, C!Split
<1>3. \A i \in 1..Len(chat) : i \in C!Later <=> i > 1
  BY <1>1 DEF C!Later
<1>4. C!Later \subseteq 1..Len(chat)
  BY ChatTypes
<1>5. C!Breaks = {i \in C!Later : C!Gap(i) > C!AdaptiveGap}
  <2>1. ASSUME NEW i PROVE i \in C!Breaks <=> i \in C!Later /\ C!Gap(i) > C!AdaptiveGap
    <3>1. i \in C!Breaks <=> i \in C!Starts /\ i # 1
      BY DEF C!Breaks
    <3>2. i \in C!Later => i # 1
      BY <1>1 DEF C!Later
    <3>3. QED
      BY <1>2, <1>3, <1>4, <3>1, <3>2
  <2>2. QED
    BY <2>1
<1>6. QED
  BY <1>2, <1>5

LEMMA SilencesEnd ==
  ASSUME Chatting, ChatAssumptions
  PROVE  C!SilencesEndConversations
<1> SUFFICES ASSUME NEW i \in C!Later
             PROVE  /\ C!Gap(i) > C!Ceiling => i \in C!Breaks
                    /\ C!Gap(i) <= C!Floor => i \notin C!Breaks
  BY DEF C!SilencesEndConversations
<1>1. C!Gap(i) \in Int
  BY ChatTypes
<1>2. i \in C!Breaks <=> C!Gap(i) > C!AdaptiveGap
  BY BreaksAre
<1>3. C!AdaptiveGap \in Int /\ C!Floor <= C!AdaptiveGap /\ C!AdaptiveGap <= C!Ceiling
  BY AdaptiveGapIs
<1>4. QED
  BY <1>1, <1>2, <1>3 DEF C!Floor, C!Ceiling

LEMMA BreaksAreFew ==
  ASSUME Chatting, ChatAssumptions
  PROVE  C!BreaksAreRare
<1> SUFFICES ASSUME C!HasRhythm, C!P95 <= C!Ceiling
             PROVE  100 * Cardinality(C!Breaks) <= (100 - Pct) * C!Size
  BY Zenon DEF C!BreaksAreRare, C!Cardinality, Cardinality
<1> DEFINE within == {i \in C!Rhythm : C!Gap(i) <= C!P95}
<1>1. /\ C!P95 \in Int /\ Cardinality(within) \in Nat
      /\ 100 * Cardinality(within) > Pct * C!Size
  <2>1. C!P95 \in Int /\ C!P95 <= C!P95
    BY PercentileIs
  <2>2. QED
    BY <2>1, PercentileIs
<1>2. /\ C!Rhythm \in SUBSET C!Later /\ C!Size \in Nat /\ C!Size = Cardinality(C!Rhythm)
  BY SizeIs
<1>3. C!AdaptiveGap \in Int /\ C!Floor <= C!AdaptiveGap /\ C!P95 <= C!AdaptiveGap
  <2>1. C!AdaptiveGap = C!Clamp(C!P95)
    BY DEF C!AdaptiveGap
  <2>2. QED
    BY <1>1, <2>1, ClampIs
<1>4. C!Breaks \in SUBSET (C!Rhythm \ within)
  <2>1. ASSUME NEW i \in C!Breaks PROVE i \in C!Rhythm \ within
    <3>1. i \in C!Later /\ C!Gap(i) > C!AdaptiveGap
      BY BreaksAre
    <3>2. C!Gap(i) \in Int
      BY <3>1, ChatTypes
    <3>3. C!Gap(i) >= 0 /\ ~(C!Gap(i) <= C!P95)
      BY <1>1, <1>3, <3>1, <3>2 DEF C!Floor
    <3>4. QED
      BY <3>1, <3>3 DEF C!Rhythm
  <2>2. QED
    BY <2>1
<1>5. IsFiniteSet(C!Rhythm) /\ IsFiniteSet(within) /\ within \in SUBSET C!Rhythm
  <2>1. IsFiniteSet(C!Rhythm)
    BY <1>2, ChatTypes, FS_Subset
  <2>2. within \in SUBSET C!Rhythm
    OBVIOUS
  <2>3. QED
    BY <2>1, <2>2, FS_Subset
<1> HIDE DEF within
<1>6. Cardinality(C!Rhythm \ within) = C!Size - Cardinality(within)
  <2>1. Cardinality(C!Rhythm \ within) = Cardinality(C!Rhythm) - Cardinality(C!Rhythm \cap within)
    BY <1>5, FS_Difference
  <2>2. C!Rhythm \cap within = within
    BY <1>5
  <2>3. QED
    BY <1>2, <2>1, <2>2
<1>7. Cardinality(C!Breaks) <= Cardinality(C!Rhythm \ within) /\ Cardinality(C!Breaks) \in Nat
  <2>1. IsFiniteSet(C!Rhythm \ within)
    BY <1>5, FS_Difference
  <2>2. IsFiniteSet(C!Breaks) /\ Cardinality(C!Breaks) <= Cardinality(C!Rhythm \ within)
    BY <1>4, <2>1, FS_Subset
  <2>3. QED
    BY <2>2, FS_CardinalityType
<1>8. Pct \in 0..99
  BY DEF ChatAssumptions, C!BoundAssumption
<1>9. PICK b, w, n \in Nat, c \in 0..99 :
        /\ b = Cardinality(C!Breaks) /\ w = Cardinality(within) /\ n = C!Size /\ c = Pct
  BY <1>1, <1>2, <1>7, <1>8
<1>10. b <= n - w /\ 100 * w > c * n
  BY <1>1, <1>6, <1>7, <1>9
<1>11. (100 - c) * n = 100 * n - c * n /\ c * n \in Nat
  BY <1>9
<1>12. 100 * b <= (100 - c) * n
  BY <1>9, <1>10, <1>11
<1>13. QED
  BY <1>9, <1>12

---------------------------------------------------------------------------
(* Handoffs *)

Changes(i) == {j \in (i + 1)..Len(chat) : C!By(j) # C!By(j - 1)}

LEMMA TurnEndIs ==
  ASSUME Chatting, NEW i \in 1..Len(chat)
  PROVE  /\ C!TurnEnd(i) \in i..Len(chat)
         /\ \A k \in i..C!TurnEnd(i) : C!By(k) = C!By(i)
         /\ C!TurnEnd(i) < Len(chat) => C!By(C!TurnEnd(i) + 1) # C!By(i)
<1>0. Len(chat) \in Nat /\ i \in Nat
  BY ChatTypes
<1> DEFINE turn == {j \in i..Len(chat) : \A k \in i..j : C!By(k) = C!By(i)}
<1>1. i \in turn
  BY <1>0
<1>2. turn \in SUBSET (0..Len(chat)) /\ turn # {}
  BY <1>0, <1>1
<1>3. C!TurnEnd(i) = Max(turn)
  BY Zenon DEF C!TurnEnd, C!Max, Max
<1>4. Max(turn) \in turn /\ \A y \in turn : y <= Max(turn)
  <2> HIDE DEF turn
  <2>1. QED
    BY <1>0, <1>2, GreatestElement
<1> DEFINE e == C!TurnEnd(i)
<1>5. /\ e \in i..Len(chat) /\ \A k \in i..e : C!By(k) = C!By(i)
      /\ \A y \in turn : y <= e
  BY <1>3, <1>4
<1> HIDE DEF e
<1>6. ASSUME e < Len(chat), C!By(e + 1) = C!By(i) PROVE FALSE
  <2>1. e + 1 \in i..Len(chat) /\ ~ (e + 1 <= e)
    BY <1>0, <1>5, <1>6
  <2>2. \A k \in i..(e + 1) : k \in i..e \/ k = e + 1
    BY <1>0, <1>5
  <2>3. e + 1 \in turn
    BY <1>5, <1>6, <2>1, <2>2
  <2>4. QED
    BY <1>5, <2>1, <2>3
<1>7. QED
  BY <1>5, <1>6 DEF e

\* The recursion of Handoffs, for a function of the message a turn begins with.
Turns(f) == f = [i \in 1..(Len(chat) + 1) |->
                   IF i > Len(chat) \/ C!TurnEnd(i) = Len(chat) THEN {}
                   ELSE {C!TurnEnd(i) + 1} \cup f[C!TurnEnd(i) + 1]]

\* The changes of the sender follow it,
LEMMA ChangesAreTurns ==
  ASSUME Chatting
  PROVE  Turns([i \in 1..(Len(chat) + 1) |-> Changes(i)])
<1>0. Len(chat) \in Nat
  BY ChatTypes
<1> DEFINE f == [i \in 1..(Len(chat) + 1) |-> Changes(i)]
<1>1. ASSUME NEW i \in 1..(Len(chat) + 1)
      PROVE  Changes(i) = IF i > Len(chat) \/ C!TurnEnd(i) = Len(chat) THEN {}
                          ELSE {C!TurnEnd(i) + 1} \cup f[C!TurnEnd(i) + 1]
  <2>1. CASE i > Len(chat)
    <3>1. (i + 1)..Len(chat) = {}
      BY <1>0, <2>1
    <3>2. QED
      BY <2>1, <3>1 DEF Changes
  <2>2. CASE ~(i > Len(chat))
    <3>1. i \in 1..Len(chat) /\ i \in Nat
      BY <1>0, <2>2
    <3> DEFINE e == C!TurnEnd(i)
    <3>2. /\ e \in i..Len(chat)
          /\ \A k \in i..e : C!By(k) = C!By(i)
          /\ e < Len(chat) => C!By(e + 1) # C!By(i)
      BY <3>1, TurnEndIs
    <3> HIDE DEF e
    <3>3. \A j \in (i + 1)..e : ~(C!By(j) # C!By(j - 1))
      <4>1. \A j \in (i + 1)..e : j \in i..e /\ j - 1 \in i..e
        BY <1>0, <3>1, <3>2
      <4>2. QED
        BY <3>2, <4>1
    <3>4. CASE e = Len(chat)
      <4>1. Changes(i) = {}
        BY <3>3, <3>4 DEF Changes
      <4>2. QED
        BY <3>4, <4>1 DEF e
    <3>5. CASE e # Len(chat)
      <4>1. e < Len(chat) /\ e + 1 \in 1..(Len(chat) + 1) /\ e + 1 \in (i + 1)..Len(chat)
            /\ e \in i..e /\ (e + 1) - 1 = e
        BY <1>0, <3>1, <3>2, <3>5
      <4>2. f[e + 1] = Changes(e + 1)
        BY <4>1
      <4>3. C!By(e + 1) # C!By((e + 1) - 1)
        BY <3>2, <4>1
      <4>4. \A j : j \in (i + 1)..Len(chat)
                     <=> j \in (i + 1)..e \/ j = e + 1 \/ j \in ((e + 1) + 1)..Len(chat)
        BY <1>0, <3>1, <3>2, <4>1
      <4>5. Changes(i) = {e + 1} \cup Changes(e + 1)
        BY <3>3, <4>3, <4>4 DEF Changes
      <4>6. ~(i > Len(chat) \/ C!TurnEnd(i) = Len(chat))
        BY <2>2, <3>5 DEF e
      <4>7. QED
        BY <4>2, <4>5, <4>6 DEF e
    <3>6. QED
      BY <3>4, <3>5
  <2>3. QED
    BY <2>1, <2>2
<1>2. f = [i \in 1..(Len(chat) + 1) |->
             IF i > Len(chat) \/ C!TurnEnd(i) = Len(chat) THEN {}
             ELSE {C!TurnEnd(i) + 1} \cup f[C!TurnEnd(i) + 1]]
  <2> DEFINE g(i) == IF i > Len(chat) \/ C!TurnEnd(i) = Len(chat) THEN {}
                     ELSE {C!TurnEnd(i) + 1} \cup f[C!TurnEnd(i) + 1]
  <2>1. \A i \in 1..(Len(chat) + 1) : Changes(i) = g(i)
    BY <1>1
  <2>2. f = [i \in 1..(Len(chat) + 1) |-> Changes(i)]
    OBVIOUS
  <2>3. [i \in 1..(Len(chat) + 1) |-> Changes(i)] = [i \in 1..(Len(chat) + 1) |-> g(i)]
    <3> HIDE DEF g
    <3>1. QED
      BY <2>1
  <2>4. f = [i \in 1..(Len(chat) + 1) |-> g(i)]
    <3> HIDE DEF g, f
    <3>1. QED
      BY <2>2, <2>3
  <2>5. QED
    <3> HIDE DEF f
    <3>1. QED
      BY <2>4
<1>3. QED
  <2> HIDE DEF f
  <2>1. Turns(f)
    BY <1>2, Zenon DEF Turns
  <2>2. QED
    BY <2>1 DEF f

\* and no other function does.
LEMMA TurnsAgree ==
  ASSUME Chatting, NEW f, Turns(f), NEW g, Turns(g)
  PROVE  f[1] = g[1]
<1>0. Len(chat) \in Nat
  BY ChatTypes
<1> DEFINE n == Len(chat)
           Agree == {k \in Nat : \A i \in 1..(n + 1) : i >= n + 1 - k => f[i] = g[i]}
<1>1. ASSUME NEW i \in 1..(n + 1), NEW h, Turns(h)
      PROVE  h[i] = IF i > n \/ C!TurnEnd(i) = n THEN {}
                    ELSE {C!TurnEnd(i) + 1} \cup h[C!TurnEnd(i) + 1]
  <2>1. h = [m \in 1..(n + 1) |->
               IF m > n \/ C!TurnEnd(m) = n THEN {}
               ELSE {C!TurnEnd(m) + 1} \cup h[C!TurnEnd(m) + 1]]
    BY <1>1, Zenon DEF Turns
  <2>2. QED
    BY <2>1
<1>2. ASSUME NEW i \in 1..(n + 1),
             \A j \in 1..(n + 1) : j > i => f[j] = g[j]
      PROVE  f[i] = g[i]
  <2>1. CASE i > n \/ C!TurnEnd(i) = n
    BY <1>1, <2>1
  <2>2. CASE ~(i > n \/ C!TurnEnd(i) = n)
    <3>1. i \in 1..n
      BY <1>0, <2>2
    <3>2. C!TurnEnd(i) \in i..n
      BY <3>1, TurnEndIs
    <3>3. C!TurnEnd(i) + 1 \in 1..(n + 1) /\ C!TurnEnd(i) + 1 > i
      BY <1>0, <3>1, <3>2
    <3>4. f[C!TurnEnd(i) + 1] = g[C!TurnEnd(i) + 1]
      BY <1>2, <3>3
    <3>5. QED
      BY <1>1, <2>2, <3>4
  <2>3. QED
    BY <2>1, <2>2
<1>3. 0 \in Agree
  <2>1. ASSUME NEW i \in 1..(n + 1), i >= n + 1 - 0 PROVE f[i] = g[i]
    <3>1. \A j \in 1..(n + 1) : j > i => f[j] = g[j]
      BY <1>0, <2>1
    <3>2. QED
      BY <1>2, <3>1
  <2>2. QED
    BY <2>1
<1>4. \A k \in Agree : k + 1 \in Agree
  <2>1. ASSUME NEW k \in Agree, NEW i \in 1..(n + 1), i >= n + 1 - (k + 1)
        PROVE  f[i] = g[i]
    <3>1. \A j \in 1..(n + 1) : j > i => j >= n + 1 - k
      BY <1>0, <2>1
    <3>2. \A j \in 1..(n + 1) : j > i => f[j] = g[j]
      BY <2>1, <3>1
    <3>3. QED
      BY <1>2, <3>2
  <2>2. \A k \in Agree : k + 1 \in Nat
    OBVIOUS
  <2>3. \A k \in Agree : \A i \in 1..(n + 1) : i >= n + 1 - (k + 1) => f[i] = g[i]
    <3> HIDE DEF Agree
    <3>1. QED
      BY <2>1
  <2>4. QED
    BY <2>2, <2>3
<1>5. Agree = Nat
  <2>1. Agree \in SUBSET Nat
    OBVIOUS
  <2> HIDE DEF Agree
  <2>2. QED
    BY <1>3, <1>4, <2>1, NumberInduction
<1>6. n \in Agree /\ 1 \in 1..(n + 1) /\ 1 >= n + 1 - n
  BY <1>0, <1>5
<1>7. QED
  BY <1>6

LEMMA HandoffsAre ==
  ASSUME Chatting
  PROVE  C!Handoffs = {j \in C!Later : C!By(j) # C!By(j - 1)}
<1> DEFINE from == CHOOSE f : Turns(f)
           f == [i \in 1..(Len(chat) + 1) |-> Changes(i)]
<1>0. Len(chat) \in Nat
  BY ChatTypes
<1>1. Turns(f)
  BY ChangesAreTurns
<1>2. Turns(from)
  <2> HIDE DEF f
  <2>1. QED
    BY <1>1, Zenon
<1>3. from[1] = f[1]
  <2> HIDE DEF f, from
  <2>1. QED
    BY <1>1, <1>2, TurnsAgree
<1>4. f[1] = Changes(1)
  BY <1>0
<1>5. C!Handoffs = from[1]
  BY Zenon DEF C!Handoffs, Turns
<1>6. Changes(1) = {j \in C!Later : C!By(j) # C!By(j - 1)}
  BY DEF Changes, C!Later
<1>7. QED
  <2> HIDE DEF f, from
  <2>1. QED
    BY <1>3, <1>4, <1>5, <1>6

LEMMA AnswersAreHandoffs ==
  ASSUME Chatting
  PROVE  C!ResponsesAreHandoffs
BY HandoffsAre DEF C!ResponsesAreHandoffs, C!Responses

---------------------------------------------------------------------------
(* Openings *)

\* Of two people, those who are not a third one are the same.
LEMMA OnlyTwo ==
  ASSUME NEW s, IsFiniteSet(s), Cardinality(s) = 2,
         NEW a \in s, NEW b \in s, NEW c \in s, a # b, c # b
  PROVE  a = c
<1>1. IsFiniteSet(s \ {b}) /\ Cardinality(s \ {b}) = 1
  BY FS_RemoveElement
<1>2. IsFiniteSet((s \ {b}) \ {a}) /\ Cardinality((s \ {b}) \ {a}) = 0
  <2>1. a \in s \ {b}
    OBVIOUS
  <2>2. Cardinality((s \ {b}) \ {a}) = Cardinality(s \ {b}) - 1 /\ IsFiniteSet((s \ {b}) \ {a})
    BY <1>1, <2>1, FS_RemoveElement
  <2>3. QED
    BY <1>1, <2>2
<1>3. (s \ {b}) \ {a} = {}
  BY <1>2, FS_EmptySet
<1>4. QED
  BY <1>3

LEMMA BeforeIs ==
  ASSUME Chatting, ChatAssumptions, NEW s \in C!Breaks
  PROVE  C!Before(s) \in C!Starts /\ C!Before(s) < s /\ \A t \in C!Starts : t < s => t <= C!Before(s)
<1>0. Len(chat) \in Nat /\ s \in 2..Len(chat) /\ C!Starts \in SUBSET (1..Len(chat))
  BY ChatTypes, BreaksAre DEF C!Later
<1> DEFINE earlier == {t \in C!Starts : t < s}
<1>1. 1 \in C!Starts
  BY <1>0, BreaksAre
<1>2. earlier \in SUBSET (0..Len(chat)) /\ earlier # {}
  <2>1. \A t \in 1..Len(chat) : t \in 0..Len(chat)
    BY <1>0
  <2>2. 1 < s
    BY <1>0
  <2>3. 1 \in earlier
    BY <1>1, <2>2
  <2>4. QED
    BY <1>0, <2>1, <2>3
<1>3. Max(earlier) \in earlier /\ \A y \in earlier : y <= Max(earlier)
  <2> HIDE DEF earlier
  <2>1. QED
    BY <1>0, <1>2, GreatestElement
<1>4. C!Before(s) = Max(earlier)
  BY Zenon DEF C!Before, C!Max, Max
<1>5. QED
  BY <1>3, <1>4

LEMMA InitiativeNeeds ==
  ASSUME Chatting, ChatAssumptions
  PROVE  C!InitiativeNeedsAnEarlierOpening
<1> SUFFICES ASSUME Cardinality(People) = 2, NEW s \in C!Breaks,
                    C!Kind(s) \in {"initiative", "abandoned_open"}
             PROVE  C!By(C!Before(s)) = C!By(s)
  BY Zenon DEF C!InitiativeNeedsAnEarlierOpening, C!Cardinality, Cardinality
<1>0. Len(chat) \in Nat /\ s \in 2..Len(chat) /\ C!Starts \in SUBSET (1..Len(chat))
  BY ChatTypes, BreaksAre DEF C!Later
<1>1. C!By(s) # C!By(s - 1) /\ C!By(C!Before(s)) # C!By(s - 1)
  BY <1>0 DEF C!Kind
<1>2. C!By(s) \in People /\ C!By(s - 1) \in People /\ C!By(C!Before(s)) \in People
  <2>1. s \in 1..Len(chat) /\ s - 1 \in 1..Len(chat)
    BY <1>0
  <2>2. C!Before(s) \in C!Starts
    BY BeforeIs
  <2>3. C!Before(s) \in 1..Len(chat)
    BY <1>0, <2>2
  <2>4. QED
    BY <2>1, <2>3, ChatTypes
<1>3. IsFiniteSet(People)
  BY Zenon DEF ChatAssumptions, C!PeopleAssumption, C!IsFiniteSet, IsFiniteSet
<1>4. QED
  BY <1>1, <1>2, <1>3, OnlyTwo

Opened(s, p) == {i \in s : C!By(i) = p}

\* The share of the openings that are not theirs is the other one's.
LEMMA OpeningsSplit ==
  ASSUME Chatting, NEW s \in SUBSET (1..Len(chat)), NEW p, NEW q, p # q,
         \A i \in s : C!By(i) \in {p, q}
  PROVE  /\ IsFiniteSet(s) /\ Cardinality(s) \in Nat
         /\ Cardinality(Opened(s, p)) \in Nat
         /\ Cardinality(Opened(s, q)) \in Nat
         /\ Cardinality(Opened(s, p)) + Cardinality(Opened(s, q)) = Cardinality(s)
<1> DEFINE a == Opened(s, p)
           b == Opened(s, q)
<1>1. IsFiniteSet(s)
  BY ChatTypes, FS_Subset
<1>2. a \in SUBSET s /\ b = s \ a /\ s \cap a = a
  BY DEF Opened
<1>3. IsFiniteSet(a) /\ IsFiniteSet(b)
  BY <1>1, <1>2, FS_Subset
<1> HIDE DEF a, b
<1>4. Cardinality(s \ a) = Cardinality(s) - Cardinality(s \cap a)
  BY <1>1, FS_Difference
<1>5. Cardinality(s) \in Nat /\ Cardinality(a) \in Nat /\ Cardinality(b) \in Nat
  BY <1>1, <1>3, FS_CardinalityType
<1>6. Cardinality(a) + Cardinality(b) = Cardinality(s)
  <2>1. Cardinality(b) = Cardinality(s) - Cardinality(a)
    BY <1>2, <1>4, Zenon
  <2>2. QED
    BY <1>5, <2>1
<1>7. QED
  BY <1>1, <1>5, <1>6 DEF a, b

LEMMA PairSize ==
  ASSUME NEW p, NEW q, p # q
  PROVE  Cardinality({p, q}) = 2
<1>1. IsFiniteSet({p}) /\ Cardinality({p}) = 1
  BY FS_Singleton
<1>2. q \notin {p} /\ {p} \cup {q} = {p, q}
  OBVIOUS
<1>3. Cardinality({p} \cup {q}) = Cardinality({p}) + 1
  BY <1>1, <1>2, FS_AddElement
<1>4. QED
  BY <1>1, <1>2, <1>3

LEMMA OneOpener ==
  ASSUME Chatting, NEW s \in SUBSET (1..Len(chat)), NEW p, NEW q, p # q,
         \A i \in s : C!By(i) \in {p, q}, Cardinality(s) >= 2
  PROVE  Cardinality({C!By(i) : i \in s}) < 2
           <=> Opened(s, p) = {} \/ Opened(s, q) = {}
<1> DEFINE x == {C!By(i) : i \in s}
<1>1. x \in SUBSET {p, q}
  OBVIOUS
<1>2. CASE Opened(s, p) # {} /\ Opened(s, q) # {}
  <2>1. x = {p, q}
    BY <1>1, <1>2 DEF Opened
  <2>2. Cardinality(x) = 2
    BY <2>1, PairSize
  <2>3. QED
    BY <1>2, <2>2
<1>3. ASSUME NEW r, x \in SUBSET {r} PROVE Cardinality(x) < 2
  <2>1. IsFiniteSet({r}) /\ Cardinality({r}) = 1
    BY FS_Singleton
  <2> HIDE DEF x
  <2>2. Cardinality(x) <= Cardinality({r}) /\ IsFiniteSet(x)
    BY <1>3, <2>1, FS_Subset
  <2>3. Cardinality(x) \in Nat
    BY <2>2, FS_CardinalityType
  <2>4. QED
    BY <2>1, <2>2, <2>3
<1>4. CASE Opened(s, p) = {}
  <2>1. x \in SUBSET {q}
    BY <1>1, <1>4 DEF Opened
  <2>2. QED
    BY <1>3, <1>4, <2>1
<1>5. CASE Opened(s, q) = {}
  <2>1. x \in SUBSET {p}
    BY <1>1, <1>5 DEF Opened
  <2>2. QED
    BY <1>3, <1>5, <2>1
<1>6. QED
  BY <1>2, <1>4, <1>5

\* How far from even it is that a of a + b openings are one's own.
Uneven(a, b) == IF a - b < 0 THEN b - a ELSE a - b

LEMMA ImbalanceIs ==
  ASSUME Chatting, ChatAssumptions, NEW p, NEW q, p # q, {C!By(i) : i \in DOMAIN chat} = {p, q}, NEW w
  PROVE  LET opened == C!Starts \cap C!In(w)
             a == Cardinality(Opened(opened, p))
             b == Cardinality(Opened(opened, q))
         IN  C!Imbalance(w, p) = IF Cardinality(opened) >= 2
                               THEN <<Uneven(a, b), Cardinality(opened)>> ELSE <<1, 1>>
<1> DEFINE opened == C!Starts \cap C!In(w)
           a == Cardinality(Opened(opened, p))
           b == Cardinality(Opened(opened, q))
<1>1. opened \in SUBSET (1..Len(chat)) /\ \A i \in opened : C!By(i) \in {p, q}
  <2>1. opened \in SUBSET (1..Len(chat)) /\ DOMAIN chat = 1..Len(chat)
    BY BreaksAre, ChatTypes
  <2>2. QED
    BY <2>1
<1>2. Cardinality(opened) \in Nat /\ a \in Nat /\ b \in Nat /\ a + b = Cardinality(opened)
  <2> HIDE DEF opened
  <2>1. QED
    BY <1>1, OpeningsSplit
<1>3. Cardinality({C!By(i) : i \in DOMAIN chat}) = 2
  <2>1. Cardinality({p, q}) = 2
    BY PairSize
  <2>2. QED
    BY <2>1, Zenon
<1> DEFINE n == Cardinality(opened)
<1>4. C!Imbalance(w, p) = IF n >= 2 /\ Cardinality({C!By(i) : i \in DOMAIN chat}) = 2
                        THEN <<IF 2 * a - n < 0 THEN -(2 * a - n) ELSE 2 * a - n, n>>
                        ELSE <<1, 1>>
  BY Zenon DEF C!Imbalance, Opened, C!Cardinality, Cardinality
<1>5. Uneven(a, b) = IF 2 * a - n < 0 THEN -(2 * a - n) ELSE 2 * a - n
  <2> HIDE DEF a, b, opened, n
  <2>1. n \in Nat /\ a \in Nat /\ b \in Nat /\ a + b = n
    BY <1>2 DEF n
  <2>2. QED
    BY <2>1 DEF Uneven
<1>6. C!Imbalance(w, p) = IF n >= 2 THEN <<Uneven(a, b), n>> ELSE <<1, 1>>
  <2> HIDE DEF a, b, n
  <2>1. QED
    BY <1>3, <1>4, <1>5
<1>7. QED
  BY <1>6

LEMMA ImbalanceIsShared ==
  ASSUME Chatting, ChatAssumptions
  PROVE  C!ImbalanceIsMutual
<1> SUFFICES ASSUME NEW p \in People, NEW q \in People \ {p},
                    {C!By(i) : i \in DOMAIN chat} = {p, q}, NEW w \in C!Weeks
             PROVE  LET opened == C!Starts \cap C!In(w)
                        x == C!Imbalance(w, p)
                    IN /\ x = C!Imbalance(w, q)
                       /\ x[1] = x[2] <=> Cardinality(opened) < 2
                                            \/ Cardinality({C!By(s) : s \in opened}) < 2
  BY Zenon DEF C!ImbalanceIsMutual, C!Cardinality, Cardinality
<1> DEFINE opened == C!Starts \cap C!In(w)
           a == Cardinality(Opened(opened, p))
           b == Cardinality(Opened(opened, q))
           n == Cardinality(opened)
<1>1. p # q /\ {C!By(i) : i \in DOMAIN chat} = {q, p}
  OBVIOUS
<1>2. opened \in SUBSET (1..Len(chat)) /\ \A i \in opened : C!By(i) \in {p, q}
  <2>1. opened \in SUBSET (1..Len(chat)) /\ DOMAIN chat = 1..Len(chat)
    BY BreaksAre, ChatTypes
  <2>2. QED
    BY <2>1
<1>3. C!Imbalance(w, p) = IF n >= 2 THEN <<Uneven(a, b), n>> ELSE <<1, 1>>
  BY <1>1, ImbalanceIs
<1>4. C!Imbalance(w, q) = IF n >= 2 THEN <<Uneven(b, a), n>> ELSE <<1, 1>>
  BY <1>1, ImbalanceIs
<1>5. /\ n \in Nat /\ a \in Nat /\ b \in Nat /\ a + b = n
      /\ a = 0 <=> Opened(opened, p) = {}
      /\ b = 0 <=> Opened(opened, q) = {}
  <2>1. IsFiniteSet(opened) /\ n \in Nat /\ a \in Nat /\ b \in Nat /\ a + b = n
    <3> HIDE DEF opened
    <3>1. QED
      BY <1>1, <1>2, OpeningsSplit
  <2>2. IsFiniteSet(Opened(opened, p)) /\ IsFiniteSet(Opened(opened, q))
    <3> HIDE DEF opened
    <3>1. Opened(opened, p) \in SUBSET opened /\ Opened(opened, q) \in SUBSET opened
      BY DEF Opened
    <3>2. QED
      BY <2>1, <3>1, FS_Subset
  <2>3. /\ a = 0 <=> Opened(opened, p) = {}
        /\ b = 0 <=> Opened(opened, q) = {}
    BY <2>2, FS_EmptySet
  <2>4. QED
    BY <2>1, <2>3
<1>6. n >= 2 => (Cardinality({C!By(s) : s \in opened}) < 2 <=> a = 0 \/ b = 0)
  <2> HIDE DEF opened
  <2>1. n >= 2 => (Cardinality({C!By(s) : s \in opened}) < 2
           <=> Opened(opened, p) = {} \/ Opened(opened, q) = {})
    BY <1>1, <1>2, OneOpener
  <2>2. QED
    BY <1>5, <2>1
<1>7. Uneven(a, b) = Uneven(b, a) /\ (n >= 2 => (Uneven(a, b) = n <=> a = 0 \/ b = 0))
  <2> HIDE DEF a, b, n
  <2>1. QED
    BY <1>5 DEF Uneven
<1>8. CASE n >= 2
  <2> HIDE DEF a, b, n
  <2>1. /\ C!Imbalance(w, p) = <<Uneven(a, b), n>> /\ C!Imbalance(w, q) = <<Uneven(a, b), n>>
    BY <1>3, <1>4, <1>7, <1>8
  <2>2. C!Imbalance(w, p)[1] = Uneven(a, b) /\ C!Imbalance(w, p)[2] = n
    BY <2>1
  <2>3. ~ (n < 2)
    BY <1>5, <1>8
  <2>4. /\ C!Imbalance(w, p) = C!Imbalance(w, q)
        /\ C!Imbalance(w, p)[1] = C!Imbalance(w, p)[2]
             <=> n < 2 \/ Cardinality({C!By(s) : s \in opened}) < 2
    BY <1>6, <1>7, <1>8, <2>1, <2>2, <2>3
  <2>5. QED
    BY <2>4, Zenon DEF n
<1>9. CASE ~(n >= 2)
  <2> HIDE DEF a, b, n
  <2>1. C!Imbalance(w, p) = <<1, 1>> /\ C!Imbalance(w, q) = <<1, 1>> /\ n < 2
    BY <1>3, <1>4, <1>5, <1>9
  <2>2. C!Imbalance(w, p)[1] = C!Imbalance(w, p)[2]
    BY <2>1
  <2>3. QED
    BY <2>1, <2>2, Zenon DEF n
<1>10. QED
  BY <1>8, <1>9

---------------------------------------------------------------------------
(* Weeks *)

LEMMA TimesGrow ==
  ASSUME Chatting, C!InOrder, NEW i \in 1..Len(chat), NEW j \in 1..Len(chat), i <= j
  PROVE  chat[i].at <= chat[j].at
<1>0. Len(chat) \in Nat
  BY ChatTypes
<1> DEFINE n == Len(chat)
           Grows == {k \in Nat : i + k <= n => chat[i].at <= chat[i + k].at}
<1>1. \A m \in 1..n : chat[m].at \in Int
  BY ChatTypes
<1>2. 0 \in Grows
  BY <1>0, <1>1
<1>3. \A k \in Grows : k + 1 \in Grows
  <2>1. ASSUME NEW k \in Grows, i + (k + 1) <= n PROVE chat[i].at <= chat[i + (k + 1)].at
    <3>1. i + (k + 1) \in C!Later /\ i + k <= n /\ (i + (k + 1)) - 1 = i + k
          /\ i + k \in 1..n /\ i + (k + 1) \in 1..n
      BY <1>0, <2>1 DEF C!Later
    <3>2. C!Gap(i + (k + 1)) >= 0 /\ C!Gap(i + (k + 1)) = chat[i + (k + 1)].at - chat[i + k].at
      BY <3>1, ChatTypes DEF C!InOrder
    <3>3. chat[i].at <= chat[i + k].at
      BY <3>1
    <3>4. /\ chat[i].at \in Int /\ chat[i + k].at \in Int /\ chat[i + (k + 1)].at \in Int
      BY <1>1, <3>1
    <3>5. QED
      BY <3>2, <3>3, <3>4
  <2>2. \A k \in Grows : k + 1 \in Nat
    OBVIOUS
  <2>3. \A k \in Grows : i + (k + 1) <= n => chat[i].at <= chat[i + (k + 1)].at
    <3> HIDE DEF Grows
    <3>1. QED
      BY <2>1
  <2>4. QED
    BY <2>2, <2>3
<1>4. Grows = Nat
  <2>1. Grows \in SUBSET Nat
    OBVIOUS
  <2> HIDE DEF Grows
  <2>2. QED
    BY <1>2, <1>3, <2>1, NumberInduction
<1>5. j - i \in Nat /\ i + (j - i) = j /\ j <= n
  BY <1>0
<1>6. j - i \in Grows
  BY <1>4, <1>5
<1>7. QED
  BY <1>5, <1>6

\* Days and weeks are floors of times.
LEMMA DayIs ==
  ASSUME NEW t \in Int
  PROVE  C!Day(t) \in Int /\ 24 * C!Day(t) <= t /\ t < 24 * C!Day(t) + 24
BY DEF C!Day

LEMMA WeekIs ==
  ASSUME NEW t \in Int
  PROVE  /\ C!Week(t) \in Int /\ C!Day(t) \in Int /\ 7 * C!Week(t) <= C!Day(t) /\ C!Day(t) <= 7 * C!Week(t) + 6
         /\ 168 * C!Week(t) <= t /\ t < 168 * C!Week(t) + 168
<1>1. C!Day(t) \in Int /\ 24 * C!Day(t) <= t /\ t < 24 * C!Day(t) + 24
  BY DayIs
<1>2. C!Week(t) \in Int /\ 7 * C!Week(t) <= C!Day(t) /\ C!Day(t) <= 7 * C!Week(t) + 6
  BY <1>1 DEF C!Week
<1>3. QED
  BY <1>1, <1>2, SMT

LEMMA WeeksAre ==
  ASSUME Chatting
  PROVE  /\ \A w \in C!Weeks : w \in Int /\ \E i \in 1..Len(chat) : i \in C!In(w)
         /\ \A i \in 1..Len(chat) : C!Week(chat[i].at) \in C!Weeks /\ i \in C!In(C!Week(chat[i].at))
         /\ \A w : C!In(w) \in SUBSET (1..Len(chat)) /\ \A i \in C!In(w) : C!Week(chat[i].at) = w
<1>1. DOMAIN chat = 1..Len(chat) /\ \A i \in 1..Len(chat) : chat[i].at \in Int
  BY ChatTypes
<1>2. \A i \in 1..Len(chat) : C!Week(chat[i].at) \in Int
  BY <1>1, WeekIs
<1>3. \A w : C!In(w) \in SUBSET (1..Len(chat)) /\ \A i \in C!In(w) : C!Week(chat[i].at) = w
  BY <1>1 DEF C!In
<1>4. \A i \in 1..Len(chat) : C!Week(chat[i].at) \in C!Weeks /\ i \in C!In(C!Week(chat[i].at))
  BY <1>1 DEF C!Weeks, C!In
<1>5. \A w \in C!Weeks : \E i \in 1..Len(chat) : w = C!Week(chat[i].at)
  BY <1>1 DEF C!Weeks
<1>6. \A w \in C!Weeks : w \in Int /\ \E i \in 1..Len(chat) : i \in C!In(w)
  BY <1>2, <1>4, <1>5
<1>7. QED
  BY <1>3, <1>4, <1>6

LEMMA DaysAreCovered ==
  ASSUME Chatting
  PROVE  C!CoveredDaysHoldTheMessages
<1> SUFFICES ASSUME C!InOrder, NEW w \in C!Weeks
             PROVE  Cardinality({C!Day(chat[i].at) : i \in C!In(w)}) <= C!CoveredDays(w)
  BY Zenon DEF C!CoveredDaysHoldTheMessages, C!Cardinality, Cardinality
<1> DEFINE days == {C!Day(chat[i].at) : i \in C!In(w)}
           from == Max({7 * w, C!FirstDay})
           upto == Min({7 * w + 6, C!LastDay})
<1>1. Len(chat) \in Nat /\ \A i \in 1..Len(chat) : chat[i].at \in Int
  BY ChatTypes
<1>2. w \in Int /\ C!In(w) \in SUBSET (1..Len(chat)) /\ C!In(w) # {}
  BY WeeksAre
<1>3. 1 \in 1..Len(chat) /\ Len(chat) \in 1..Len(chat)
  BY <1>1, <1>2
<1>4. C!FirstDay \in Int /\ C!LastDay \in Int
  BY <1>1, <1>3, DayIs DEF C!FirstDay, C!LastDay
<1>5. /\ from = IF 7 * w >= C!FirstDay THEN 7 * w ELSE C!FirstDay
      /\ upto = IF 7 * w + 6 <= C!LastDay THEN 7 * w + 6 ELSE C!LastDay
  BY <1>2, <1>4, MaxOfTwo, MinOfTwo
<1>6. ASSUME NEW i \in C!In(w) PROVE C!Day(chat[i].at) \in from..upto
  <2>1. i \in 1..Len(chat) /\ C!Week(chat[i].at) = w /\ chat[i].at \in Int
    BY <1>1, <1>2, WeeksAre
  <2>2. 7 * w <= C!Day(chat[i].at) /\ C!Day(chat[i].at) <= 7 * w + 6 /\ C!Day(chat[i].at) \in Int
    BY <2>1, WeekIs
  <2>3. chat[1].at <= chat[i].at /\ chat[i].at <= chat[Len(chat)].at
    <3>1. 1 <= i /\ i <= Len(chat)
      BY <2>1
    <3>2. QED
      BY <1>3, <2>1, <3>1, TimesGrow
  <2>4. C!FirstDay <= C!Day(chat[i].at) /\ C!Day(chat[i].at) <= C!LastDay
    <3>1. chat[1].at \in Int /\ chat[Len(chat)].at \in Int
      BY <1>1, <1>3
    <3>2. QED
      BY <2>1, <2>3, <3>1 DEF C!FirstDay, C!LastDay, C!Day
  <2>5. QED
    BY <1>2, <1>4, <1>5, <2>2, <2>4
<1> HIDE DEF from, upto
<1>7. days \in SUBSET (from..upto)
  BY <1>6
<1>8. from \in Int /\ upto \in Int
  BY <1>2, <1>4, <1>5
<1>9. /\ IsFiniteSet(from..upto)
      /\ Cardinality(from..upto) = IF from > upto THEN 0 ELSE upto - from + 1
  BY <1>8, FS_Interval
<1>10. Cardinality(days) <= Cardinality(from..upto) /\ Cardinality(days) \in Nat
  <2> HIDE DEF days
  <2>1. IsFiniteSet(days) /\ Cardinality(days) <= Cardinality(from..upto)
    BY <1>7, <1>9, FS_Subset
  <2>2. QED
    BY <2>1, FS_CardinalityType
<1>11. C!CoveredDays(w) = Max({1, upto - from + 1})
  BY Zenon DEF C!CoveredDays, from, upto, C!Max, Max, C!Min, Min
<1>12. Max({1, upto - from + 1}) = IF 1 >= upto - from + 1 THEN 1 ELSE upto - from + 1
  <2>1. upto - from + 1 \in Int
    BY <1>8
  <2>2. QED
    BY <2>1, MaxOfTwo
<1>13. Cardinality(days) <= C!CoveredDays(w)
  <2> HIDE DEF days
  <2>1. QED
    BY <1>8, <1>9, <1>10, <1>11, <1>12
<1>14. QED
  BY <1>13

\* The silence of a week is at least that before any of its messages.
LEMMA SilenceIs ==
  ASSUME Chatting, NEW w, NEW i \in C!Later, i \in C!In(w)
  PROVE  C!Silence(w) >= C!Gap(i) /\ C!Silence(w) \in Int
<1> DEFINE s == C!In(w) \ {1}
           gaps == {0} \cup {C!Gap(j) : j \in s}
<1>1. s \in SUBSET C!Later
  <2>1. \A j \in 1..Len(chat) : j # 1 => j \in C!Later
    BY ChatTypes DEF C!Later
  <2>2. C!In(w) \in SUBSET (1..Len(chat))
    BY WeeksAre
  <2>3. QED
    BY <2>1, <2>2
<1>2. i \in s
  BY DEF C!Later
<1>3. IsFiniteSet(s) /\ \A j \in s : GapOf[j] \in Int /\ GapOf[j] = C!Gap(j)
  BY <1>1, GapsAre
<1>4. PICK j \in s : \A k \in s : C!Gap(k) <= C!Gap(j)
  <2>1. s # {} /\ \A k \in s : GapOf[k] \in Int
    BY <1>2, <1>3
  <2> HIDE DEF s
  <2>2. \E j \in s : \A k \in s : GapOf[k] <= GapOf[j]
    BY <1>3, <2>1, Largest
  <2>3. QED
    BY <1>3, <2>2
<1>5. C!Gap(j) \in Int /\ \A k \in s : C!Gap(k) \in Int
  BY <1>1, ChatTypes
<1>6. \E x \in gaps : \A y \in gaps : x >= y
  <2>1. CASE C!Gap(j) >= 0
    <3>1. C!Gap(j) \in gaps /\ \A y \in gaps : C!Gap(j) >= y
      BY <1>4, <1>5, <2>1
    <3>2. QED
      BY <3>1
  <2>2. CASE ~(C!Gap(j) >= 0)
    <3>1. 0 \in gaps /\ \A y \in gaps : 0 >= y
      <4>1. \A k \in s : C!Gap(k) <= 0
        BY <1>4, <1>5, <2>2
      <4>2. QED
        BY <4>1
    <3>2. QED
      BY <3>1
  <2>3. QED
    BY <2>1, <2>2
<1>7. Max(gaps) \in gaps /\ \A y \in gaps : Max(gaps) >= y
  <2> HIDE DEF gaps
  <2>1. QED
    BY <1>6, Zenon DEF Max
<1>8. C!Silence(w) = Max(gaps)
  BY Zenon DEF C!Silence, C!Max, Max
<1>9. C!Gap(i) \in gaps /\ \A y \in gaps : y \in Int
  BY <1>2, <1>5
<1>10. QED
  BY <1>7, <1>8, <1>9

LEMMA SilencesShow ==
  ASSUME Chatting
  PROVE  C!SilenceIsSeen
<1> SUFFICES ASSUME C!InOrder
             PROVE  /\ \A i \in C!Later : \E w \in C!Weeks : C!Silence(w) >= C!Gap(i)
                    /\ \A v, w \in C!Weeks :
                         v < w /\ C!Weeks \cap (v + 1)..(w - 1) = {} =>
                           24 * 7 * (w - v - 1) < C!Silence(w)
  BY DEF C!SilenceIsSeen
<1>0. Len(chat) \in Nat /\ \A i \in 1..Len(chat) : chat[i].at \in Int
  BY ChatTypes
<1>1. ASSUME NEW i \in C!Later PROVE \E w \in C!Weeks : C!Silence(w) >= C!Gap(i)
  <2>1. i \in 1..Len(chat)
    BY ChatTypes
  <2>2. C!Week(chat[i].at) \in C!Weeks /\ i \in C!In(C!Week(chat[i].at))
    BY <2>1, WeeksAre
  <2>3. QED
    BY <2>2, SilenceIs
<1>2. ASSUME NEW v \in C!Weeks, NEW w \in C!Weeks, v < w, C!Weeks \cap (v + 1)..(w - 1) = {}
      PROVE  24 * 7 * (w - v - 1) < C!Silence(w)
  <2>1. v \in Int /\ w \in Int /\ C!In(w) \in SUBSET (1..Len(chat)) /\ C!In(w) # {}
        /\ C!In(v) \in SUBSET (1..Len(chat))
    BY WeeksAre
  <2>2. PICK h \in 1..Len(chat) : h \in C!In(v)
    BY WeeksAre
  <2>3. PICK i \in C!In(w) : \A k \in C!In(w) : i <= k
    <3>1. C!In(w) \in SUBSET Nat
      BY <1>0, <2>1
    <3>2. QED
      BY <2>1, <3>1, LeastNumber
  <2>4. i \in 1..Len(chat) /\ i \in Nat /\ h \in Nat
    BY <1>0, <2>1
  <2>5. /\ C!Week(chat[i].at) = w /\ C!Week(chat[h].at) = v
        /\ chat[i].at \in Int /\ chat[h].at \in Int
    BY <1>0, <2>2, <2>4, WeeksAre
  <2>6. h < i
    <3>1. SUFFICES ASSUME i <= h PROVE FALSE
      BY <2>4
    <3>2. chat[i].at <= chat[h].at
      BY <2>4, <3>1, TimesGrow
    <3>3. 168 * w <= chat[i].at /\ chat[h].at < 168 * v + 168
      BY <2>5, WeekIs
    <3>4. QED
      BY <1>2, <2>1, <2>5, <3>2, <3>3, SMT
  <2>7. i \in C!Later /\ i - 1 \in 1..Len(chat) /\ h <= i - 1 /\ i - 1 <= i
    BY <1>0, <2>4, <2>6 DEF C!Later
  <2> DEFINE u == C!Week(chat[i - 1].at)
  <2>8. /\ u \in C!Weeks /\ u \in Int /\ u # w
        /\ chat[i - 1].at \in Int
        /\ 168 * u <= chat[i - 1].at /\ chat[i - 1].at < 168 * u + 168
    <3>1. u \in C!Weeks /\ i - 1 \in C!In(u)
      BY <2>7, WeeksAre
    <3>2. u # w
      <4>1. SUFFICES ASSUME u = w PROVE FALSE
        OBVIOUS
      <4>2. i - 1 \in C!In(w)
        BY <3>1, <4>1
      <4>3. i <= i - 1
        BY <2>3, <4>2
      <4>4. QED
        BY <2>4, <4>3
    <3>3. chat[i - 1].at \in Int
      BY <1>0, <2>7
    <3>4. QED
      BY <3>1, <3>2, <3>3, WeekIs
  <2>9. chat[h].at <= chat[i - 1].at /\ chat[i - 1].at <= chat[i].at
    BY <2>4, <2>7, TimesGrow
  <2>10. /\ 168 * w <= chat[i].at /\ chat[i].at < 168 * w + 168
         /\ 168 * v <= chat[h].at /\ chat[h].at < 168 * v + 168
    BY <2>5, WeekIs
  <2> HIDE DEF u
  <2>11. v <= u /\ u <= w
    <3>1. ASSUME NEW a \in Int, NEW b \in Int, a <= b, NEW x \in Int, NEW y \in Int,
                 168 * x <= a, b < 168 * y + 168
          PROVE  x <= y
      BY <3>1
    <3>2. v <= u
      BY <2>1, <2>5, <2>8, <2>9, <2>10, <3>1, SMTT(30)
    <3>3. u <= w
      <4>1. /\ chat[i - 1].at \in Int /\ chat[i].at \in Int /\ chat[i - 1].at <= chat[i].at
            /\ u \in Int /\ w \in Int
            /\ 168 * u <= chat[i - 1].at /\ chat[i].at < 168 * w + 168
        BY <2>1, <2>5, <2>8, <2>9, <2>10
      <4>2. QED
        BY <3>1, <4>1
    <3>4. QED
      BY <3>2, <3>3
  <2>12. u = v
    <3>1. SUFFICES ASSUME u # v PROVE FALSE
      OBVIOUS
    <3>2. u \in (v + 1)..(w - 1)
      BY <2>1, <2>8, <2>11, <3>1
    <3>3. QED
      BY <1>2, <2>8, <3>2
  <2>13. C!Gap(i) = chat[i].at - chat[i - 1].at /\ C!Gap(i) \in Int
    BY <2>7, ChatTypes
  <2>14. 24 * 7 * (w - v - 1) < C!Gap(i)
    <3>1. ASSUME NEW a \in Int, NEW b \in Int, NEW x \in Int, NEW y \in Int,
                 168 * x <= b, a < 168 * y + 168
          PROVE  24 * 7 * (x - y - 1) < b - a
      BY <3>1
    <3>2. /\ chat[i - 1].at \in Int /\ chat[i].at \in Int /\ w \in Int /\ v \in Int
          /\ 168 * w <= chat[i].at /\ chat[i - 1].at < 168 * v + 168
      BY <2>1, <2>5, <2>8, <2>10, <2>12
    <3>3. 24 * 7 * (w - v - 1) < chat[i].at - chat[i - 1].at
      BY <3>1, <3>2
    <3>4. QED
      BY <2>13, <3>3
  <2>15. C!Silence(w) >= C!Gap(i) /\ C!Silence(w) \in Int
    BY <2>7, SilenceIs
  <2> DEFINE d == 24 * 7 * (w - v - 1)
  <2>16. d \in Int
    BY <2>1
  <2> HIDE DEF d
  <2>17. d < C!Silence(w)
    BY <2>13, <2>14, <2>15, <2>16 DEF d
  <2>18. QED
    BY <2>17 DEF d
<1>3. QED
  BY <1>1, <1>2

LEMMA WeeksSuffice ==
  ASSUME Chatting
  PROVE  C!EnoughWeeks
<1> SUFFICES ASSUME C!Sufficient PROVE Cardinality(C!Weeks) >= 2
  BY Zenon DEF C!EnoughWeeks, C!Cardinality, Cardinality
<1>0. Len(chat) \in Nat /\ DOMAIN chat = 1..Len(chat) /\ IsFiniteSet(1..Len(chat))
  BY ChatTypes
<1>1. 1 \in 1..Len(chat) /\ Len(chat) \in 1..Len(chat)
  BY <1>0 DEF C!Sufficient
<1> DEFINE a == chat[1].at
           b == chat[Len(chat)].at
<1>2. a \in Int /\ b \in Int /\ C!Week(a) \in C!Weeks /\ C!Week(b) \in C!Weeks
  BY <1>1, ChatTypes, WeeksAre
<1>3. C!Day(b - a) >= 7
  BY DEF C!Sufficient
<1> HIDE DEF a, b
<1>4. b - a \in Int
  BY <1>2
<1>5. 24 * C!Day(b - a) <= b - a /\ C!Day(b - a) \in Int
  BY <1>4, DayIs
<1>6. /\ C!Week(a) \in Int /\ 168 * C!Week(a) <= a /\ a < 168 * C!Week(a) + 168
      /\ C!Week(b) \in Int /\ 168 * C!Week(b) <= b /\ b < 168 * C!Week(b) + 168
  BY <1>2, WeekIs
<1>7. C!Week(a) # C!Week(b)
  BY <1>2, <1>3, <1>5, <1>6, SMT
<1>8. Cardinality({C!Week(a), C!Week(b)}) = 2 /\ {C!Week(a), C!Week(b)} \in SUBSET C!Weeks
  BY <1>2, <1>7, PairSize
<1>9. IsFiniteSet(C!Weeks)
  <2>1. C!Weeks = {C!Week(chat[i].at) : i \in 1..Len(chat)}
    BY <1>0 DEF C!Weeks
  <2> DEFINE f == [i \in 1..Len(chat) |-> C!Week(chat[i].at)]
  <2>2. C!Weeks = {f[i] : i \in 1..Len(chat)}
    BY <2>1
  <2>3. QED
    <3> HIDE DEF f
    <3>1. QED
      BY <1>0, <2>2, ImageIsFinite
<1>10. Cardinality({C!Week(a), C!Week(b)}) <= Cardinality(C!Weeks) /\ Cardinality(C!Weeks) \in Nat
  BY <1>8, <1>9, FS_Subset, FS_CardinalityType
<1>11. QED
  BY <1>8, <1>10

---------------------------------------------------------------------------
(* What one more message leaves as it was *)

LEMMA AppendIs ==
  ASSUME Chatting, NEW p \in People, NEW t \in Int, C!Says(p, t)
  PROVE  /\ Len(chat') = Len(chat) + 1 /\ Chatting'
         /\ \A i \in 1..Len(chat) : chat'[i] = chat[i] /\ C!By(i)' = C!By(i)
         /\ \A i \in C!Later : C!Gap(i)' = C!Gap(i)
         /\ C!Later' = 2..(Len(chat) + 1)
<1>1. [by |-> p, at |-> t] \in Message
  BY DEF Message
<1>2. /\ Len(chat') = Len(chat) + 1 /\ chat' \in Seq(Message)
      /\ \A i \in 1..Len(chat) : chat'[i] = chat[i]
  BY <1>1, AppendProperties DEF Chatting, C!Says
<1>3. \A i \in 1..Len(chat) : C!By(i)' = C!By(i)
  BY <1>2 DEF C!By
<1>4. \A i \in C!Later : C!Gap(i)' = C!Gap(i)
  <2>1. \A i \in C!Later : i \in 1..Len(chat) /\ i - 1 \in 1..Len(chat)
    BY ChatTypes
  <2>2. QED
    BY <1>2, <2>1 DEF C!Gap
<1>5. C!Later' = 2..(Len(chat) + 1)
  BY <1>2 DEF C!Later
<1>6. QED
  BY <1>2, <1>3, <1>4, <1>5 DEF Chatting

---------------------------------------------------------------------------
(* Neglect *)

Late(w) == C!DecayDelays \cap C!In(w)
Wait == [i \in C!Later |-> Min({C!Gap(i), 12})]

LEMMA LateIs ==
  ASSUME Chatting, NEW w
  PROVE  /\ Late(w) = {i \in C!Later : /\ C!By(i) # C!By(i - 1) /\ C!Gap(i) > C!Delay
                                     /\ C!Gap(i) <= C!MaxResponse /\ C!Week(chat[i].at) = w}
         /\ IsFiniteSet(Late(w))
         /\ \A i \in Late(w) : Wait[i] \in Nat /\ Wait[i] = Min({C!Gap(i), 12})
<1>1. C!Handoffs = {j \in C!Later : C!By(j) # C!By(j - 1)}
  BY HandoffsAre
<1>2. Late(w) = {i \in C!Later : /\ C!By(i) # C!By(i - 1) /\ C!Gap(i) > C!Delay
                               /\ C!Gap(i) <= C!MaxResponse /\ C!Week(chat[i].at) = w}
  <2>1. \A i \in C!Later : i \in DOMAIN chat
    BY ChatTypes
  <2>2. ASSUME NEW i
        PROVE  i \in Late(w) <=> /\ i \in C!Later /\ C!By(i) # C!By(i - 1) /\ C!Gap(i) > C!Delay
                                 /\ C!Gap(i) <= C!MaxResponse /\ C!Week(chat[i].at) = w
    BY <1>1, <2>1 DEF Late, C!DecayDelays, C!In
  <2>3. QED
    BY <2>2
<1>3. Late(w) \in SUBSET C!Later
  BY <1>2
<1>4. IsFiniteSet(Late(w))
  BY <1>3, ChatTypes, FS_Subset
<1>5. ASSUME NEW i \in Late(w) PROVE Wait[i] \in Nat /\ Wait[i] = Min({C!Gap(i), 12})
  <2>1. i \in C!Later /\ C!Gap(i) > C!Delay /\ C!Gap(i) \in Int
    BY <1>2, ChatTypes
  <2>2. Min({C!Gap(i), 12}) = IF C!Gap(i) <= 12 THEN C!Gap(i) ELSE 12
    BY <2>1, MinOfTwo
  <2>3. Wait[i] = Min({C!Gap(i), 12})
    BY <2>1, Zenon DEF Wait
  <2>4. QED
    BY <2>1, <2>2, <2>3 DEF C!Delay
<1>6. QED
  BY <1>2, <1>4, <1>5

\* The neglect of a week is a sum of a function.
LEMMA NeglectIs ==
  ASSUME Chatting, NEW w
  PROVE  C!Neglect(w) = SumOver(Wait, Late(w))
<1> DEFINE s == Late(w)
<1> DEFINE OneByOne(g) == g = [r \in SUBSET s |->
                                 IF r = {} THEN 0
                                 ELSE LET x == CHOOSE x \in r : TRUE
                                      IN  Min({C!Gap(x), 12}) + g[r \ {x}]]
           h == CHOOSE g : OneByOne(g)
<1>1. IsFiniteSet(s) /\ \A x \in s : Wait[x] \in Int /\ Wait[x] = Min({C!Gap(x), 12})
  BY LateIs
<1>2. C!Neglect(w) = h[s]
  BY Zenon DEF C!Neglect, MapThenSumSet, MapThenFoldSet, Late, C!Min, Min, C!MapThenSumSet, C!MapThenFoldSet
<1> HIDE DEF s
<1>3. ASSUME NEW g PROVE OneByOne(g) <=> Sums(Wait, s, g)
  <2>1. \A r \in SUBSET s : r # {} => Chosen(r) \in s
    BY DEF Chosen
  <2>2. [r \in SUBSET s |-> IF r = {} THEN 0 ELSE Wait[Chosen(r)] + g[r \ {Chosen(r)}]]
          = [r \in SUBSET s |-> IF r = {} THEN 0 ELSE Min({C!Gap(Chosen(r)), 12}) + g[r \ {Chosen(r)}]]
    BY <1>1, <2>1
  <2>3. Sums(Wait, s, g) <=>
          g = [r \in SUBSET s |->
                 IF r = {} THEN 0 ELSE Wait[Chosen(r)] + g[r \ {Chosen(r)}]]
    BY Zenon DEF Sums, Chosen
  <2>4. OneByOne(g) <=>
          g = [r \in SUBSET s |->
                 IF r = {} THEN 0 ELSE Min({C!Gap(Chosen(r)), 12}) + g[r \ {Chosen(r)}]]
    BY Zenon DEF Chosen
  <2>5. QED
    BY <2>2, <2>3, <2>4
<1>4. PICK g \in [SUBSET s -> Int] : Sums(Wait, s, g) /\ SumOver(Wait, s) = g[s]
  BY <1>1, SumOverSums
<1>5. Sums(Wait, s, h)
  <2> HIDE DEF OneByOne
  <2>1. OneByOne(g)
    BY <1>3, <1>4
  <2>2. OneByOne(h)
    BY <2>1, Zenon
  <2>3. QED
    BY <1>3, <2>2
<1>6. h[s] = g[s]
  <2> HIDE DEF h
  <2>1. s \in SUBSET s /\ \A x \in s : Wait[x] = Wait[x]
    OBVIOUS
  <2>2. QED
    BY <1>1, <1>4, <1>5, <2>1, SumsAgree
<1>7. QED
  <2> HIDE DEF h
  <2>1. QED
    BY <1>2, <1>4, <1>6 DEF s

LateAreSummed ==
  \A w : /\ Late(w) = {i \in C!Later : /\ C!By(i) # C!By(i - 1) /\ C!Gap(i) > C!Delay
                                     /\ C!Gap(i) <= C!MaxResponse /\ C!Week(chat[i].at) = w}
         /\ IsFiniteSet(Late(w))
         /\ \A i \in Late(w) : Wait[i] \in Nat /\ Wait[i] = Min({C!Gap(i), 12})
NeglectIsSummed == \A w : C!Neglect(w) = SumOver(Wait, Late(w))

LEMMA NeglectAsSums == Chatting => LateAreSummed /\ NeglectIsSummed
BY LateIs, NeglectIs DEF LateAreSummed, NeglectIsSummed

LEMMA NeglectStep ==
  ASSUME Chatting, ChatAssumptions, C!Next
  PROVE  \A w \in C!Weeks : C!Neglect(w)' >= C!Neglect(w)
<1>1. PICK p \in People, t \in Int : C!Says(p, t)
  BY SaysIs
<1>2. /\ Len(chat') = Len(chat) + 1 /\ Chatting'
      /\ \A i \in 1..Len(chat) : chat'[i] = chat[i] /\ C!By(i)' = C!By(i)
      /\ \A i \in C!Later : C!Gap(i)' = C!Gap(i)
      /\ C!Later' = 2..(Len(chat) + 1)
  BY <1>1, AppendIs
<1>3. LateAreSummed /\ LateAreSummed' /\ NeglectIsSummed /\ NeglectIsSummed'
  <2>1. (Chatting => LateAreSummed /\ NeglectIsSummed)'
    BY NeglectAsSums, PTL
  <2>2. QED
    BY <1>2, <2>1, NeglectAsSums
<1>4. ASSUME NEW w PROVE C!Neglect(w)' >= C!Neglect(w)
  <2> DEFINE a == Late(w)
             b == Late(w)'
             f == Wait
             e == Wait'
  <2>1. ASSUME NEW i \in a PROVE i \in b /\ e[i] = f[i]
    <3>1. /\ i \in C!Later /\ C!By(i) # C!By(i - 1) /\ C!Gap(i) > C!Delay
          /\ C!Gap(i) <= C!MaxResponse /\ C!Week(chat[i].at) = w
          /\ f[i] = Min({C!Gap(i), 12})
      BY <1>3 DEF LateAreSummed
    <3>2. i \in 1..Len(chat) /\ i - 1 \in 1..Len(chat) /\ i \in 2..Len(chat)
      BY <3>1, ChatTypes DEF C!Later
    <3>3. i \in C!Later'
      BY <1>2, <3>2, ChatTypes
    <3>4. /\ C!By(i)' # C!By(i - 1)' /\ C!Gap(i)' = C!Gap(i) /\ C!Week(chat'[i].at) = w
      BY <1>2, <3>1, <3>2
    <3>5. i \in b
      BY <1>3, <3>1, <3>3, <3>4 DEF LateAreSummed
    <3>6. e[i] = Min({C!Gap(i)', 12})
      BY <1>3, <3>5 DEF LateAreSummed
    <3>7. QED
      BY <3>1, <3>4, <3>5, <3>6
  <2>2. a \in SUBSET b
    BY <2>1
  <2>3. IsFiniteSet(b) /\ \A i \in b : e[i] \in Nat
    BY <1>3 DEF LateAreSummed
  <2>4. \A i \in a : f[i] \in Nat
    BY <1>3 DEF LateAreSummed
  <2>5. C!Neglect(w) = SumOver(f, a)
    BY <1>3 DEF NeglectIsSummed
  <2>6. C!Neglect(w)' = SumOver(e, b)
    BY <1>3, Zenon DEF NeglectIsSummed
  <2> HIDE DEF a, b, f, e
  <2>7. SumOver(f, a) = SumOver(e, a)
    <3>1. IsFiniteSet(a)
      BY <2>2, <2>3, FS_Subset
    <3>2. \A x \in a : f[x] \in Int /\ e[x] = f[x]
      BY <2>1, <2>4
    <3>3. SumOver(e, a) = SumOver(f, a)
      BY <3>1, <3>2, SumSame
    <3>4. QED
      BY <3>3
  <2>8. SumOver(e, a) <= SumOver(e, b) /\ SumOver(e, a) \in Nat
    <3>1. \A x \in b : e[x] \in Nat /\ e[x] \in Nat /\ e[x] <= e[x]
      BY <2>3
    <3>2. QED
      BY <2>2, <2>3, <3>1, SumWithin
  <2>9. SumOver(e, b) \in Int
    BY <2>3, SumType
  <2>10. QED
    BY <2>5, <2>6, <2>7, <2>8, <2>9
<1>5. QED
  BY <1>4

---------------------------------------------------------------------------
(* Finished conversations *)

Closes(s, t) == t \in C!Starts /\ t > s /\ \A r \in C!Starts : r > s => t <= r
Precedes(r, s) == r \in C!Starts /\ r < s /\ \A t \in C!Starts : t < s => t <= r

LEMMA EndIs ==
  ASSUME Chatting, ChatAssumptions, NEW s \in C!Starts
  PROVE  /\ C!End(s) < Len(chat) => Closes(s, C!End(s) + 1)
         /\ \A t \in Int : Closes(s, t) => C!End(s) = t - 1
<1>0. Len(chat) \in Nat /\ C!Starts \in SUBSET (1..Len(chat))
  BY ChatTypes, BreaksAre
<1> DEFINE ends == {t \in C!Starts : t > s} \cup {Len(chat) + 1}
<1>1. ends \in SUBSET Nat /\ ends # {}
  <2>1. \A t \in 1..Len(chat) : t \in Nat
    BY <1>0
  <2>2. Len(chat) + 1 \in Nat
    BY <1>0
  <2>3. QED
    BY <1>0, <2>1, <2>2
<1>2. PICK m \in ends : \A y \in ends : m <= y
  <2> HIDE DEF ends
  <2>1. QED
    BY <1>1, LeastNumber
<1>3. Min(ends) \in ends /\ \A y \in ends : Min(ends) =< y
  <2>1. \E x \in ends : \A y \in ends : x =< y
    BY <1>2
  <2> HIDE DEF ends
  <2>2. QED
    BY <2>1, Zenon DEF Min
<1>4. C!End(s) = Min(ends) - 1
  BY Zenon DEF C!End, C!Min, Min
<1> DEFINE e == Min(ends)
<1>5. e \in ends /\ e \in Nat /\ \A y \in ends : e <= y
  <2>1. e \in ends /\ \A y \in ends : e <= y
    BY <1>3
  <2>2. e \in Nat
    <3> HIDE DEF ends, e
    <3>1. QED
      BY <1>1, <2>1
  <2>3. QED
    BY <2>1, <2>2
<1> HIDE DEF e
<1>6. ASSUME e - 1 < Len(chat) PROVE Closes(s, e)
  <2>1. e # Len(chat) + 1
    BY <1>0, <1>5, <1>6
  <2>2. e \in C!Starts /\ e > s
    BY <1>5, <2>1
  <2>3. \A r \in C!Starts : r > s => e <= r
    BY <1>5
  <2>4. QED
    BY <2>2, <2>3 DEF Closes
<1>7. ASSUME NEW t \in Int, Closes(s, t) PROVE e = t
  <2>1. t \in ends /\ t <= Len(chat)
    BY <1>0, <1>7 DEF Closes
  <2>2. e <= t
    BY <1>5, <2>1
  <2>3. e # Len(chat) + 1
    BY <1>0, <1>5, <2>1, <2>2
  <2>4. e \in C!Starts /\ e > s
    BY <1>5, <2>3
  <2>5. t <= e
    BY <1>7, <2>4 DEF Closes
  <2>6. QED
    BY <1>5, <2>2, <2>5
<1>8. (e - 1) + 1 = e
  BY <1>5
<1>9. QED
  BY <1>4, <1>6, <1>7, <1>8 DEF e

LEMMA BeforeOf ==
  ASSUME Chatting, ChatAssumptions, NEW s \in C!Breaks
  PROVE  Precedes(C!Before(s), s) /\ \A r : Precedes(r, s) => C!Before(s) = r
<1>1. Precedes(C!Before(s), s)
  BY BeforeIs DEF Precedes
<1>2. ASSUME NEW r, Precedes(r, s) PROVE C!Before(s) = r
  <2>1. r \in C!Starts /\ C!Before(s) \in C!Starts /\ r <= C!Before(s) /\ C!Before(s) <= r
    BY <1>1, <1>2 DEF Precedes
  <2>2. r \in Int /\ C!Before(s) \in Int
    BY <2>1, BreaksAre, ChatTypes
  <2>3. QED
    BY <2>1, <2>2
<1>3. QED
  BY <1>1, <1>2

EndsClose == \A s \in C!Starts : /\ C!End(s) < Len(chat) => Closes(s, C!End(s) + 1)
                               /\ \A t \in Int : Closes(s, t) => C!End(s) = t - 1
BeforesPrecede == \A s \in C!Breaks : /\ Precedes(C!Before(s), s)
                                    /\ \A r : Precedes(r, s) => C!Before(s) = r
BlocksStart == /\ C!Starts = {i \in 1..Len(chat) : i = 1 \/ (i > 1 /\ C!Gap(i) > C!AdaptiveGap)}
             /\ C!Breaks = {i \in C!Later : C!Gap(i) > C!AdaptiveGap}

LEMMA NeighboursAre == Chatting /\ ChatAssumptions => EndsClose /\ BeforesPrecede /\ BlocksStart
BY EndIs, BeforeOf, BreaksAre DEF EndsClose, BeforesPrecede, BlocksStart

\* Both before and after a message, the conversations are where the silences are.
LEMMA NeighboursStay ==
  ASSUME Chatting, ChatAssumptions, C!Next
  PROVE  /\ Len(chat) \in Nat /\ Len(chat') = Len(chat) + 1
         /\ \A i \in 1..Len(chat) : C!By(i)' = C!By(i)
         /\ \A i \in C!Later : C!Gap(i)' = C!Gap(i)
         /\ EndsClose /\ BeforesPrecede /\ BlocksStart
         /\ EndsClose' /\ BeforesPrecede' /\ BlocksStart'
         /\ C!AdaptiveGap' \in Int /\ C!Floor <= C!AdaptiveGap' /\ C!AdaptiveGap' <= C!Ceiling
<1>1. PICK p \in People, u \in Int : C!Says(p, u)
  BY SaysIs
<1>2. /\ Len(chat') = Len(chat) + 1 /\ Chatting'
      /\ \A i \in 1..Len(chat) : C!By(i)' = C!By(i)
      /\ \A i \in C!Later : C!Gap(i)' = C!Gap(i)
  BY <1>1, AppendIs
<1>3. ChatAssumptions'
  BY DEF ChatAssumptions, C!PeopleAssumption, C!TimeAssumption, C!BoundAssumption
<1>4. (Chatting /\ ChatAssumptions => EndsClose /\ BeforesPrecede /\ BlocksStart)'
  BY NeighboursAre, PTL
<1>5. (Chatting /\ ChatAssumptions =>
         C!AdaptiveGap \in Int /\ C!Floor <= C!AdaptiveGap /\ C!AdaptiveGap <= C!Ceiling)'
  BY AdaptiveGapIs, PTL
<1>6. C!Floor' = C!Floor /\ C!Ceiling' = C!Ceiling
  BY DEF C!Floor, C!Ceiling
<1>7. QED
  BY <1>2, <1>3, <1>4, <1>5, <1>6, NeighboursAre, ChatTypes

\* A finished conversation ends where the next one starts.
LEMMA FinishedEnds ==
  ASSUME Chatting, ChatAssumptions, NEW s \in C!Starts, C!End(s) < Len(chat)
  PROVE  \E e \in Int : /\ e = C!End(s) /\ Closes(s, e + 1)
                        /\ s \in 1..Len(chat) /\ e + 1 \in 1..Len(chat) /\ s < e + 1
<1>1. Closes(s, C!End(s) + 1) /\ \A t \in Int : Closes(s, t) => C!End(s) = t - 1
  BY EndIs
<1>2. Len(chat) \in Nat /\ C!Starts \in SUBSET (1..Len(chat))
  BY BreaksAre, ChatTypes
<1>3. PICK t \in 1..Len(chat) : t = C!End(s) + 1
  BY <1>1, <1>2 DEF Closes
<1>4. t \in Int /\ Closes(s, t)
  BY <1>1, <1>3
<1>5. C!End(s) = t - 1
  BY <1>1, <1>4
<1>6. t - 1 \in Int /\ (t - 1) + 1 = t /\ s < t
  BY <1>4 DEF Closes
<1>7. QED
  BY <1>2, <1>3, <1>4, <1>5, <1>6

\* A conversation that starts and ends where it did has the opening it had.
LEMMA OpeningStays ==
  ASSUME Chatting, ChatAssumptions, C!Next, NEW s \in 1..Len(chat), NEW e \in Int, e = C!End(s),
         e + 1 \in 1..Len(chat), s < e + 1, s \in C!Starts', Closes(s, e + 1)'
  PROVE  C!End(s)' = e /\ C!Opening(s)' = C!Opening(s)
<1>1. Len(chat) \in Nat /\ EndsClose' /\ \A i \in 1..Len(chat) : C!By(i)' = C!By(i)
  BY NeighboursStay
<1>2. C!End(s)' = e
  <2>1. e + 1 \in Int /\ (e + 1) - 1 = e
    OBVIOUS
  <2>2. QED
    BY <1>1, <2>1 DEF EndsClose
<1>3. e \in 1..Len(chat) /\ \A i \in s..e : i \in 1..Len(chat)
  BY <1>1
<1>4. C!Sustained(s) <=> (\E i \in s..e : C!By(i) # C!By(s)) /\ C!By(e) = C!By(s)
  BY Zenon DEF C!Sustained
<1>5. C!Sustained(s)' <=> (\E i \in s..e : C!By(i)' # C!By(s)') /\ C!By(e)' = C!By(s)'
  BY <1>2, Zenon DEF C!Sustained
<1>6. \A i \in s..e : C!By(i)' = C!By(i)
  BY <1>1, <1>3
<1>7. C!By(e)' = C!By(e) /\ C!By(s)' = C!By(s)
  BY <1>1, <1>3
<1>8. C!Sustained(s)' <=> C!Sustained(s)
  BY <1>4, <1>5, <1>6, <1>7
<1>9. QED
  BY <1>2, <1>8 DEF C!Opening

\* Whatever the threshold becomes, it is between the floor and the ceiling.
LEMMA SettledStep ==
  ASSUME Chatting, ChatAssumptions, C!Next, NEW s \in C!Starts, C!Settled(s)
  PROVE  s \in C!Starts' /\ C!End(s)' = C!End(s) /\ C!Opening(s)' = C!Opening(s)
<1>1. /\ s > 1 => C!Gap(s) > C!Ceiling
      /\ C!End(s) < Len(chat) /\ C!Gap(C!End(s) + 1) > C!Ceiling
      /\ \A i \in (s + 1)..C!End(s) : C!Gap(i) <= C!Floor
  BY Zenon DEF C!Settled
<1>2. PICK e \in Int : /\ e = C!End(s) /\ Closes(s, e + 1)
                       /\ s \in 1..Len(chat) /\ e + 1 \in 1..Len(chat) /\ s < e + 1
  BY <1>1, FinishedEnds
<1>3. /\ Len(chat) \in Nat /\ Len(chat') = Len(chat) + 1
      /\ \A i \in C!Later : C!Gap(i)' = C!Gap(i)
      /\ BlocksStart'
      /\ C!AdaptiveGap' \in Int /\ C!Floor <= C!AdaptiveGap' /\ C!AdaptiveGap' <= C!Ceiling
  BY NeighboursStay
<1>4. \A i \in 2..Len(chat) : C!Gap(i)' = C!Gap(i) /\ C!Gap(i) \in Int
  BY <1>3, ChatTypes DEF C!Later
<1>5. \A r : r \in C!Starts' <=> /\ r \in 1..(Len(chat) + 1)
                                 /\ (r = 1 \/ (r > 1 /\ C!Gap(r)' > C!AdaptiveGap'))
  BY <1>3 DEF BlocksStart
<1>6. PICK gap \in Int : gap = C!AdaptiveGap' /\ C!Floor <= gap /\ gap <= C!Ceiling
  BY <1>3
<1>7. \A i \in 2..Len(chat) : C!Gap(i) > C!Ceiling => i \in C!Starts'
  BY <1>3, <1>4, <1>5, <1>6 DEF C!Ceiling
<1>8. \A i \in 2..Len(chat) : C!Gap(i) <= C!Floor => i \notin C!Starts'
  BY <1>3, <1>4, <1>5, <1>6 DEF C!Floor
<1>9. s \in C!Starts'
  <2>1. CASE s = 1
    BY <1>3, <1>5, <2>1
  <2>2. CASE s > 1
    BY <1>1, <1>2, <1>3, <1>7, <2>2
  <2>3. QED
    BY <1>2, <2>1, <2>2
<1>10. Closes(s, e + 1)'
  <2>1. e + 1 \in C!Starts' /\ e + 1 > s
    BY <1>1, <1>2, <1>3, <1>7
  <2>2. ASSUME NEW r \in C!Starts', r > s PROVE e + 1 <= r
    <3>1. r \in Int /\ r >= 1
      BY <1>3, <1>5
    <3>2. SUFFICES ASSUME r <= e PROVE FALSE
      BY <3>1
    <3>3. r \in (s + 1)..e /\ r \in 2..Len(chat)
      BY <1>2, <1>3, <2>2, <3>1, <3>2
    <3>4. C!Gap(r) <= C!Floor
      BY <1>1, <1>2, <3>3
    <3>5. QED
      BY <1>8, <2>2, <3>3, <3>4
  <2>3. QED
    BY <2>1, <2>2 DEF Closes
<1>11. QED
  BY <1>2, <1>9, <1>10, OpeningStays

LEMMA FinishedStep ==
  ASSUME Chatting, ChatAssumptions, C!Next, C!AdaptiveGap' = C!AdaptiveGap,
         NEW s \in C!Starts, C!End(s) < Len(chat)
  PROVE  s \in C!Starts' /\ C!Kind(s)' = C!Kind(s)
<1>2. /\ Len(chat) \in Nat /\ Len(chat') = Len(chat) + 1
      /\ \A i \in 1..Len(chat) : C!By(i)' = C!By(i)
      /\ \A i \in C!Later : C!Gap(i)' = C!Gap(i)
  BY NeighboursStay
<1>3. /\ EndsClose /\ BeforesPrecede /\ BlocksStart
      /\ EndsClose' /\ BeforesPrecede' /\ BlocksStart'
  BY NeighboursStay
<1>0. Len(chat) \in Nat
  BY <1>2
<1>4. C!Starts \in SUBSET (1..Len(chat)) /\ \A r \in C!Starts : r \in Int
  BY <1>0, BreaksAre
<1>5. \A r : r \in C!Starts' <=> r \in C!Starts \/ (r = Len(chat) + 1 /\ r \in C!Starts')
  <2>1. \A r : r \in C!Starts' <=> /\ r \in 1..(Len(chat) + 1)
                                 /\ (r = 1 \/ (r > 1 /\ C!Gap(r)' > C!AdaptiveGap))
    BY <1>2, <1>3 DEF BlocksStart
  <2>2. \A r : r \in C!Starts <=> /\ r \in 1..Len(chat)
                                /\ (r = 1 \/ (r > 1 /\ C!Gap(r) > C!AdaptiveGap))
    BY <1>3 DEF BlocksStart
  <2>3. \A r \in 1..Len(chat) : r > 1 => C!Gap(r)' = C!Gap(r)
    BY <1>0, <1>2 DEF C!Later
  <2>4. \A r : r \in 1..(Len(chat) + 1) <=> r \in 1..Len(chat) \/ r = Len(chat) + 1
    BY <1>0
  <2>5. ~(Len(chat) + 1 \in 1..Len(chat))
    BY <1>0
  <2>6. QED
    BY <2>1, <2>2, <2>3, <2>4, <2>5
<1>6. PICK e \in Int : /\ e = C!End(s) /\ Closes(s, e + 1)
                       /\ s \in 1..Len(chat) /\ e + 1 \in 1..Len(chat) /\ s < e + 1
  BY FinishedEnds
<1>7. s \in 1..Len(chat) /\ s \in Int /\ e + 1 \in 1..Len(chat) /\ s < e + 1
  BY <1>6
<1>8. s \in C!Starts' /\ Closes(s, e + 1)'
  <2>1. Closes(s, e + 1)'
    <3>1. e + 1 \in C!Starts' /\ e + 1 > s
      BY <1>5, <1>6 DEF Closes
    <3>2. ASSUME NEW r \in C!Starts', r > s PROVE e + 1 <= r
      <4>1. CASE r \in C!Starts
        BY <1>6, <3>2, <4>1 DEF Closes
      <4>2. CASE r = Len(chat) + 1
        BY <1>0, <1>7, <4>2
      <4>3. QED
        BY <1>5, <4>1, <4>2
    <3>3. QED
      BY <3>1, <3>2 DEF Closes
  <2>2. QED
    BY <1>5, <2>1
<1>9. C!Opening(s)' = C!Opening(s)
  BY <1>6, <1>8, OpeningStays
<1>10. CASE s = 1
  BY <1>8, <1>9, <1>10 DEF C!Kind
<1>11. CASE s # 1
  <2>1. s \in C!Breaks /\ s - 1 \in 1..Len(chat)
    BY <1>0, <1>7, <1>11 DEF C!Breaks
  <2>2. PICK b \in Int : b = C!Before(s) /\ Precedes(b, s)
    <3>1. Precedes(C!Before(s), s)
      BY <1>3, <2>1 DEF BeforesPrecede
    <3>2. C!Before(s) \in Int
      BY <1>4, <3>1 DEF Precedes
    <3>3. QED
      BY <3>1, <3>2
  <2>3. b \in 1..Len(chat)
    BY <1>4, <2>2 DEF Precedes
  <2>4. C!Before(s)' = b
    <3>1. Precedes(b, s)'
      <4>1. b \in C!Starts' /\ b < s
        BY <1>5, <2>2 DEF Precedes
      <4>2. ASSUME NEW r \in C!Starts', r < s PROVE r <= b
        <5>1. r # Len(chat) + 1
          BY <1>0, <1>7, <4>2
        <5>2. r \in C!Starts
          BY <1>5, <5>1
        <5>3. QED
          BY <2>2, <4>2, <5>2 DEF Precedes
      <4>3. QED
        BY <4>1, <4>2 DEF Precedes
    <3>2. s \in C!Breaks'
      BY <1>8, <1>11 DEF C!Breaks
    <3>3. QED
      BY <1>3, <3>1, <3>2 DEF BeforesPrecede
  <2>5. C!By(s)' = C!By(s) /\ C!By(s - 1)' = C!By(s - 1) /\ C!By(b)' = C!By(b)
    BY <1>2, <1>7, <2>1, <2>3
  <2>6. C!Kind(s) = IF C!By(s) = C!By(s - 1) THEN "double_text"
                  ELSE IF C!By(b) = C!By(s - 1) THEN "late_reply" ELSE C!Opening(s)
    BY <1>11, <2>2, Zenon DEF C!Kind
  <2>7. C!By(C!Before(s))' = C!By(b)'
    BY <2>4 DEF C!By
  <2>8. C!Kind(s)' = IF C!By(s)' = C!By(s - 1)' THEN "double_text"
                   ELSE IF C!By(b)' = C!By(s - 1)' THEN "late_reply" ELSE C!Opening(s)'
    BY <1>11, <2>7, Zenon DEF C!Kind
  <2>9. QED
    BY <1>8, <1>9, <2>5, <2>6, <2>8
<1>12. QED
  BY <1>10, <1>11

---------------------------------------------------------------------------

Blocks == C!SilencesEndConversations /\ C!BreaksAreRare /\ C!InitiativeNeedsAnEarlierOpening
Metrics == /\ C!ResponsesAreHandoffs /\ C!P90AgreesWithConsistency
           /\ C!ContinuousIsJudgedByGaps /\ C!ImbalanceIsMutual
           /\ C!CoveredDaysHoldTheMessages /\ C!SilenceIsSeen /\ C!EnoughWeeks

LEMMA ChatIsRead ==
  ASSUME Chatting, ChatAssumptions
  PROVE  Blocks /\ Metrics
BY SilencesEnd, BreaksAreFew, InitiativeNeeds, AnswersAreHandoffs, AnswersAgree, ContinuousIs,
   ImbalanceIsShared, DaysAreCovered, SilencesShow, WeeksSuffice DEF Blocks, Metrics

---------------------------------------------------------------------------
(* The export *)

Exported == /\ platform \in {"whatsapp", "imessage", "telegram"} /\ monthFirst \in BOOLEAN
            /\ platform # "whatsapp" => ~monthFirst
            /\ file \in Seq(Heads \cup Plains)

ExportAssumptions == /\ P!PlatformAssumption /\ P!HeadAssumption
                     /\ P!PlainAssumption /\ P!BoundAssumption

LEMMA ExportInit == P!Init /\ ExportAssumptions => Exported
<1> SUFFICES ASSUME P!Init, ExportAssumptions PROVE Exported
  OBVIOUS
<1>1. <<>> \in Seq(Heads \cup Plains)
  OBVIOUS
<1>2. QED
  BY <1>1 DEF P!Init, ExportAssumptions, P!PlatformAssumption, Exported

LEMMA ExportStep == Exported /\ [P!Next]_(P!vars) => Exported'
<1> SUFFICES ASSUME Exported, [P!Next]_(P!vars) PROVE Exported'
  OBVIOUS
<1>1. CASE P!Next
  <2>1. PICK l \in Heads \cup Plains : file' = Append(file, l)
    BY <1>1 DEF P!Next
  <2>2. file' \in Seq(Heads \cup Plains)
    BY <2>1 DEF Exported
  <2>3. QED
    BY <1>1, <2>2 DEF P!Next, Exported
<1>2. CASE UNCHANGED P!vars
  BY <1>2 DEF P!vars, Exported
<1>3. QED
  BY <1>1, <1>2

LEMMA DaysOfMonths ==
  ASSUME NEW d
  PROVE  /\ d \in 1..31 \/ d \in 1..12 => d \in Nat
         /\ d \in 1..31 /\ ~(d > 12) => d <= 12
OBVIOUS

LEMMA LinesAre ==
  ASSUME Exported, ExportAssumptions
  PROVE  /\ Len(file) \in Nat /\ DOMAIN file = 1..Len(file)
         /\ \A i \in 1..Len(file) :
              /\ file[i].len \in Nat
              /\ file[i].head => file[i].day \in 1..31 /\ file[i].month \in 1..12
         /\ MaxParsed \in Nat /\ MaxChars \in Nat
<1>1. Len(file) \in Nat /\ DOMAIN file = 1..Len(file)
  BY DEF Exported
<1>2. MaxParsed \in Nat /\ MaxChars \in Nat
  BY DEF ExportAssumptions, P!BoundAssumption
<1>3. ASSUME NEW i \in 1..Len(file)
      PROVE  /\ file[i].len \in Nat
             /\ file[i].head => file[i].day \in 1..31 /\ file[i].month \in 1..12
  <2>1. file[i] \in Heads \cup Plains
    BY <1>1, <1>3 DEF Exported
  <2>2. CASE file[i] \in Heads
    BY <2>2 DEF ExportAssumptions, P!HeadAssumption
  <2>3. CASE file[i] \in Plains
    BY <2>3 DEF ExportAssumptions, P!PlainAssumption
  <2>4. QED
    BY <2>1, <2>2, <2>3
<1>4. QED
  BY <1>1, <1>2, <1>3

---------------------------------------------------------------------------
(* Dates *)

SecondIsLarge == \E j \in P!HeadLines : P!Shown(j)[2] > 12
FirstIsLarge == \E j \in P!HeadLines : P!Shown(j)[1] > 12

LEMMA OrderIs == P!DateOrder = IF SecondIsLarge /\ ~FirstIsLarge THEN "mdy" ELSE "dmy"
BY Zenon DEF P!DateOrder, SecondIsLarge, FirstIsLarge

LEMMA HeadsHaveDates ==
  ASSUME Exported, ExportAssumptions, NEW i \in 1..Len(file), file[i].head
  PROVE  /\ P!DateOf(i) \in Nat \X Nat
         /\ (monthFirst => \E j \in P!HeadLines : file[j].day > 12) =>
              P!DateOf(i) = <<file[i].day, file[i].month>>
<1>1. \A j \in P!HeadLines : file[j].day \in 1..31 /\ file[j].month \in 1..12
  BY LinesAre DEF P!HeadLines
<1>2. i \in P!HeadLines
  BY LinesAre DEF P!HeadLines
<1>3. CASE monthFirst
  <2>1. platform = "whatsapp"
    BY <1>3 DEF Exported
  <2>2. \A j : P!Shown(j) = <<file[j].month, file[j].day>>
    BY <1>3 DEF P!Shown
  <2>3. \A j : P!Shown(j)[1] = file[j].month /\ P!Shown(j)[2] = file[j].day
    BY <2>2
  <2>a. ~FirstIsLarge
    BY <1>1, <2>3 DEF FirstIsLarge
  <2>b. SecondIsLarge <=> \E j \in P!HeadLines : file[j].day > 12
    BY <2>3 DEF SecondIsLarge
  <2>4. P!DateOrder = "mdy" <=> \E j \in P!HeadLines : file[j].day > 12
    BY <2>a, <2>b, OrderIs
  <2>5. P!DateOf(i) = IF P!DateOrder = "mdy" THEN <<file[i].day, file[i].month>>
                      ELSE <<file[i].month, file[i].day>>
    BY <2>1, <2>2 DEF P!DateOf
  <2>6. file[i].day \in Nat /\ file[i].month \in Nat
    BY <1>1, <1>2, DaysOfMonths, Zenon
  <2>7. QED
    BY <1>3, <2>4, <2>5, <2>6
<1>4. CASE ~monthFirst
  <2>1. \A j : P!Shown(j) = <<file[j].day, file[j].month>>
    BY <1>4 DEF P!Shown
  <2>2. \A j : P!Shown(j)[2] = file[j].month
    BY <2>1
  <2>a. ~SecondIsLarge
    BY <1>1, <2>2 DEF SecondIsLarge
  <2>3. P!DateOrder = "dmy"
    BY <2>a, OrderIs
  <2>4. P!DateOf(i) = <<file[i].day, file[i].month>>
    BY <2>1, <2>3 DEF P!DateOf
  <2>5. file[i].day \in Nat /\ file[i].month \in Nat
    BY <1>1, <1>2, DaysOfMonths, Zenon
  <2>6. QED
    BY <2>4, <2>5
<1>5. QED
  BY <1>3, <1>4 DEF Exported

LEMMA HeadsAreValid ==
  ASSUME Exported, ExportAssumptions, NEW i \in 1..Len(file), file[i].head
  PROVE  P!Valid(i)
<1>1. i \in P!HeadLines /\ file[i].day \in 1..31 /\ file[i].month \in 1..12
  BY LinesAre DEF P!HeadLines
<1>2. CASE monthFirst => \E j \in P!HeadLines : file[j].day > 12
  BY <1>1, <1>2, HeadsHaveDates DEF P!Valid
<1>3. CASE monthFirst /\ ~\E j \in P!HeadLines : file[j].day > 12
  <2>1. \A j : P!Shown(j) = <<file[j].month, file[j].day>>
    BY <1>3 DEF P!Shown
  <2>2. ~SecondIsLarge
    <3>1. \A j : P!Shown(j)[2] = file[j].day
      BY <2>1
    <3>2. QED
      BY <1>3, <3>1 DEF SecondIsLarge
  <2>3. P!DateOrder = "dmy"
    BY <2>2, OrderIs
  <2>4. P!DateOf(i) = <<file[i].month, file[i].day>>
    BY <2>1, <2>3 DEF P!DateOf
  <2>5. file[i].day <= 12
    <3>1. ~(file[i].day > 12)
      BY <1>1, <1>3, Zenon
    <3>2. QED
      BY <1>1, <3>1, DaysOfMonths, Zenon
  <2>6. QED
    BY <2>4, <2>5 DEF P!Valid
<1>4. QED
  BY <1>2, <1>3

---------------------------------------------------------------------------
(* The accumulator of the loop over the lines *)

Messages == [line : Nat, date : Nat \X Nat, len : Nat]
Capped(c) == IF c <= MaxChars THEN c ELSE MaxChars

\* The messages m, the last one with x characters of continuation lines.
Joined(m, x) ==
  [k \in 1..Len(m) |->
     IF k = Len(m) THEN [line |-> m[k].line, date |-> m[k].date, len |-> Capped(m[k].len + x)]
     ELSE m[k]]

\* The message that line i begins.
Begun(i) == [line |-> i, date |-> P!DateOf(i), len |-> file[i].len]

LEMMA CappedIs ==
  ASSUME ExportAssumptions, NEW c \in Nat
  PROVE  Capped(c) \in Nat /\ Capped(c) <= MaxChars /\ P!Min({c, MaxChars}) = Capped(c)
<1>1. MaxChars \in Nat
  BY DEF ExportAssumptions, P!BoundAssumption
<1>2. P!Min({c, MaxChars}) = Min({c, MaxChars})
  BY Zenon DEF P!Min, Min
<1>3. Min({c, MaxChars}) = IF c <= MaxChars THEN c ELSE MaxChars
  BY <1>1, MinOfTwo
<1>4. QED
  BY <1>1, <1>2, <1>3 DEF Capped

LEMMA JoinedIs ==
  ASSUME ExportAssumptions, NEW m \in Seq(Messages), NEW x \in Nat
  PROVE  /\ Joined(m, x) \in Seq(Messages) /\ Len(Joined(m, x)) = Len(m)
         /\ \A k \in 1..Len(m) :
              /\ Joined(m, x)[k].line = m[k].line /\ Joined(m, x)[k].date = m[k].date
              /\ k # Len(m) => Joined(m, x)[k].len = m[k].len
              /\ k = Len(m) => Joined(m, x)[k].len = Capped(m[k].len + x)
<1>1. Len(m) \in Nat /\ \A k \in 1..Len(m) : m[k] \in Messages
  OBVIOUS
<1>2. ASSUME NEW k \in 1..Len(m)
      PROVE  Joined(m, x)[k] \in Messages
  <2>1. m[k] \in Messages
    BY <1>1
  <2>2. Capped(m[k].len + x) \in Nat
    <3>1. m[k].len + x \in Nat
      BY <2>1, SMTT(30) DEF Messages
    <3>2. QED
      BY <3>1, CappedIs
  <2>3. QED
    BY <2>1, <2>2 DEF Joined, Messages
<1>3. Joined(m, x) = [k \in 1..Len(m) |-> Joined(m, x)[k]]
  BY DEF Joined
<1>4. \A g : g = [k \in 1..Len(m) |-> g[k]] /\ (\A k \in 1..Len(m) : g[k] \in Messages)
               => g \in Seq(Messages) /\ Len(g) = Len(m)
  BY <1>1
<1>5. Joined(m, x) \in Seq(Messages) /\ Len(Joined(m, x)) = Len(m)
  BY <1>2, <1>3, <1>4
<1>6. QED
  BY <1>1, <1>5, Zenon DEF Joined

LEMMA FlushIs ==
  ASSUME ExportAssumptions, NEW m \in Seq(Messages), NEW x \in Nat, NEW r
  PROVE  P!Flush([messages |-> m, extra |-> x, raised |-> r])
           = [messages |-> IF m = <<>> THEN m ELSE Joined(m, x), extra |-> 0, raised |-> r]
<1>1. CASE m = <<>>
  BY <1>1 DEF P!Flush
<1>2. CASE m # <<>>
  <2>1. Len(m) \in Nat /\ Len(m) \in 1..Len(m) /\ m = [k \in 1..Len(m) |-> m[k]]
        /\ \A k \in 1..Len(m) : m[k] \in Messages
    BY <1>2
  <2> DEFINE n == Len(m)
             cut == P!Min({m[n].len + x, MaxChars})
  <2>2. cut = Capped(m[n].len + x)
    <3>1. m[n].len \in Nat
      BY <2>1 DEF Messages
    <3>2. m[n].len + x \in Nat
      BY <3>1
    <3>3. QED
      BY <3>2, CappedIs
  <2>3. P!Flush([messages |-> m, extra |-> x, raised |-> r])
          = [messages |-> [m EXCEPT ![n].len = cut], extra |-> 0, raised |-> r]
    BY <1>2, Zenon DEF P!Flush
  <2>4. [m EXCEPT ![n].len = cut] = Joined(m, x)
    <3> HIDE DEF cut
    <3>1. [m EXCEPT ![n].len = cut] = [k \in 1..n |-> IF k = n THEN [m[n] EXCEPT !.len = cut] ELSE m[k]]
      BY <2>1
    <3>2. [m[n] EXCEPT !.len = cut] = [line |-> m[n].line, date |-> m[n].date, len |-> cut]
      <4>1. m[n] \in Messages
        BY <2>1
      <4>2. QED
        BY <4>1 DEF Messages
    <3>3. QED
      BY <2>2, <3>1, <3>2 DEF Joined
  <2>5. QED
    BY <1>2, <2>3, <2>4
<1>3. QED
  BY <1>1, <1>2

LEMMA AddIs ==
  ASSUME NEW m \in Seq(Messages), NEW i
  PROVE  P!AddMessage([messages |-> m, extra |-> 0, raised |-> FALSE], i)
           = [messages |-> Append(m, Begun(i)), extra |-> 0, raised |-> Len(m) + 1 > MaxParsed]
<1> DEFINE b == Begun(i)
<1>1. P!AddMessage([messages |-> m, extra |-> 0, raised |-> FALSE], i)
        = [messages |-> Append(m, b), extra |-> 0, raised |-> Len(Append(m, b)) > MaxParsed]
  BY Zenon DEF P!AddMessage, Begun
<1>2. Len(Append(m, b)) = Len(m) + 1
  OBVIOUS
<1> HIDE DEF b
<1>3. QED
  BY <1>1, <1>2, Zenon DEF b

LEMMA ContinueIs ==
  ASSUME NEW m, NEW x, NEW i
  PROVE  P!Continue([messages |-> m, extra |-> x, raised |-> FALSE], i)
           = [messages |-> m, raised |-> FALSE,
              extra |-> IF m # <<>> /\ x < MaxChars THEN x + file[i].len + 1 ELSE x]
BY DEF P!Continue

LEMMA EntryIs ==
  ASSUME NEW m, NEW x, NEW i
  PROVE  P!TelegramEntry([messages |-> m, extra |-> x, raised |-> FALSE], i)
           = IF ~file[i].head \/ file[i].notice
             THEN [messages |-> m, extra |-> x, raised |-> FALSE]
             ELSE [messages |-> Append(m, Begun(i)), extra |-> x, raised |-> FALSE]
BY Zenon DEF P!TelegramEntry, Begun

---------------------------------------------------------------------------
(* The loop over the lines *)

Sent(n) == {i \in 1..n : P!IsMessage(i)}
Texts(a, b) == {j \in a..b : P!IsText(j)}
Chars(a, b) == file[a].len + SumOver(P!Length, Texts(a, b))

\* The first lines of the export make the messages m; what follows the last of
\* them is not joined yet.
Placed(m, n) ==
  /\ m \in Seq(Messages)
  /\ \A k \in 1..Len(m) : m[k].line \in Sent(n) /\ m[k].date = P!DateOf(m[k].line)
  /\ \A j, k \in 1..Len(m) : j < k => m[j].line < m[k].line
  /\ \A k \in 1..Len(m) :
       m[k].len = IF platform = "telegram" \/ k = Len(m) THEN file[m[k].line].len
                  ELSE Capped(Chars(m[k].line, m[k + 1].line - 1))

Whole(m, n) == /\ Sent(n) \subseteq {m[k].line : k \in 1..Len(m)}
               /\ Cardinality(Sent(n)) = Len(m)
               /\ platform # "telegram" => Len(m) <= MaxParsed

\* x characters are held for the last message, or more than it can take.
Held(m, x, n) ==
  LET s == SumOver(P!Length, Texts(m[Len(m)].line, n))
  IN IF m = <<>> \/ platform = "telegram" THEN x = 0
     ELSE x = s \/ (x >= MaxChars /\ s >= MaxChars)

Reading(acc, n) == \E m, x : /\ acc = [messages |-> m, extra |-> x, raised |-> FALSE]
                             /\ x \in Nat /\ Placed(m, n) /\ Whole(m, n) /\ Held(m, x, n)
Stopped(acc, n) == \E m, x : /\ acc = [messages |-> m, extra |-> x, raised |-> TRUE]
                             /\ Placed(m, n) /\ platform # "telegram"
                             /\ Cardinality(Sent(n)) > MaxParsed

LEMMA SentIs ==
  ASSUME Exported, ExportAssumptions, NEW n \in Nat
  PROVE  /\ IsFiniteSet(Sent(n)) /\ Cardinality(Sent(n)) \in Nat
         /\ Sent(n) \subseteq Sent(n + 1) /\ n + 1 \notin Sent(n)
         /\ P!IsMessage(n + 1) => Sent(n + 1) = Sent(n) \cup {n + 1}
         /\ ~P!IsMessage(n + 1) => Sent(n + 1) = Sent(n)
<1>1. \A i : i \in 1..(n + 1) <=> i \in 1..n \/ i = n + 1
  OBVIOUS
<1>2. n + 1 \notin 1..n
  OBVIOUS
<1>3. IsFiniteSet(1..n) /\ Sent(n) \in SUBSET (1..n)
  BY FS_Interval DEF Sent
<1>4. IsFiniteSet(Sent(n)) /\ Cardinality(Sent(n)) \in Nat
  BY <1>3, FS_Subset, FS_CardinalityType
<1>5. Sent(n) \subseteq Sent(n + 1) /\ n + 1 \notin Sent(n)
  BY <1>1, <1>2, Zenon DEF Sent
<1>6. P!IsMessage(n + 1) => Sent(n + 1) = Sent(n) \cup {n + 1}
  BY <1>1, Zenon DEF Sent
<1>7. ~P!IsMessage(n + 1) => Sent(n + 1) = Sent(n)
  BY <1>1, Zenon DEF Sent
<1>8. QED
  BY <1>4, <1>5, <1>6, <1>7

LEMMA TextsAre ==
  ASSUME Exported, ExportAssumptions, NEW a \in Nat, 1 <= a, NEW b \in Nat, b < Len(file), a <= b + 1
  PROVE  /\ IsFiniteSet(Texts(a, b)) /\ SumOver(P!Length, Texts(a, b)) \in Nat
         /\ ~P!IsText(b + 1) => Texts(a, b + 1) = Texts(a, b)
         /\ P!IsText(b + 1) => SumOver(P!Length, Texts(a, b + 1))
                                 = SumOver(P!Length, Texts(a, b)) + file[b + 1].len + 1
<1>1. \A i : i \in a..(b + 1) <=> i \in a..b \/ i = b + 1
  OBVIOUS
<1>2. b + 1 \notin a..b /\ (a..b) \subseteq 1..Len(file) /\ b + 1 \in 1..Len(file)
  BY LinesAre
<1>3. IsFiniteSet(Texts(a, b)) /\ Texts(a, b) \subseteq 1..Len(file) /\ b + 1 \notin Texts(a, b)
  <2>1. IsFiniteSet(a..b)
    BY FS_Interval
  <2>2. Texts(a, b) \in SUBSET (a..b)
    BY Zenon DEF Texts
  <2>3. QED
    BY <1>2, <2>1, <2>2, FS_Subset, Zenon
<1>4. \A i \in 1..Len(file) : P!Length[i] = file[i].len + 1 /\ P!Length[i] \in Nat
  <2>1. \A i \in 1..Len(file) : file[i].len \in Nat
    BY LinesAre
  <2>2. \A i \in 1..Len(file) : P!Length[i] = file[i].len + 1
    BY LinesAre DEF P!Length
  <2>3. QED
    BY <2>1, <2>2
<1>5. SumOver(P!Length, Texts(a, b)) \in Nat
  <2>1. \A i \in Texts(a, b) : P!Length[i] \in Nat /\ P!Length[i] <= P!Length[i]
    BY <1>3, <1>4
  <2>2. QED
    BY <1>3, <2>1, SumGrows
<1>6. ~P!IsText(b + 1) => Texts(a, b + 1) = Texts(a, b)
  BY <1>1, Zenon DEF Texts
<1>7. ASSUME P!IsText(b + 1)
      PROVE  SumOver(P!Length, Texts(a, b + 1)) = SumOver(P!Length, Texts(a, b)) + file[b + 1].len + 1
  <2>1. Texts(a, b + 1) = Texts(a, b) \cup {b + 1}
    BY <1>1, <1>7, Zenon DEF Texts
  <2>2. \A i \in Texts(a, b) \cup {b + 1} : P!Length[i] \in Int
    BY <1>2, <1>3, <1>4
  <2>3. SumOver(P!Length, Texts(a, b) \cup {b + 1}) = SumOver(P!Length, Texts(a, b)) + P!Length[b + 1]
    BY <1>3, <2>2, SumAdd
  <2>4. P!Length[b + 1] = file[b + 1].len + 1 /\ file[b + 1].len \in Nat
    BY <1>2, <1>4, LinesAre
  <2>5. PICK s \in Nat : s = SumOver(P!Length, Texts(a, b))
    BY <1>5
  <2>6. PICK l \in Nat : l = file[b + 1].len
    BY <2>4
  <2>7. s + (l + 1) = s + l + 1
    OBVIOUS
  <2>8. QED
    BY <2>1, <2>3, <2>4, <2>5, <2>6, <2>7, Zenon
<1>8. QED
  BY <1>3, <1>5, <1>6, <1>7

LEMMA TextsSum ==
  ASSUME Exported, ExportAssumptions, NEW a \in Nat, 1 <= a, NEW b \in Nat, b <= Len(file)
  PROVE  SumOver(P!Length, Texts(a, b)) \in Nat
<1>1. IsFiniteSet(Texts(a, b)) /\ Texts(a, b) \subseteq 1..Len(file)
  <2>1. IsFiniteSet(a..b)
    BY FS_Interval
  <2>2. (a..b) \subseteq 1..Len(file)
    BY LinesAre
  <2>3. Texts(a, b) \in SUBSET (a..b)
    BY Zenon DEF Texts
  <2>4. QED
    BY <2>1, <2>2, <2>3, FS_Subset, Zenon
<1>2. \A i \in 1..Len(file) : P!Length[i] \in Nat
  <2>1. \A i \in 1..Len(file) : file[i].len \in Nat
    BY LinesAre
  <2>2. \A i \in 1..Len(file) : P!Length[i] = file[i].len + 1
    BY LinesAre DEF P!Length
  <2>3. QED
    BY <2>1, <2>2
<1>3. \A i \in Texts(a, b) : P!Length[i] \in Nat /\ P!Length[i] <= P!Length[i]
  BY <1>1, <1>2
<1>4. QED
  BY <1>1, <1>3, SumGrows

\* Kinds of lines.
LEMMA KindsOfLines ==
  ASSUME Exported, ExportAssumptions, NEW i \in 1..Len(file)
  PROVE  /\ P!IsMessage(i) => ~P!IsText(i) /\ file[i].head
         /\ platform = "whatsapp" =>
              \A acc : P!WhatsAppLine(acc, i) = IF P!IsMessage(i) THEN P!AddMessage(P!Flush(acc), i)
                                              ELSE IF P!IsText(i) THEN P!Continue(acc, i) ELSE acc
         /\ platform = "imessage" =>
              \A acc : P!IMessageLine(acc, i) = IF P!IsMessage(i) THEN P!AddMessage(P!Flush(acc), i)
                                              ELSE IF P!IsText(i) THEN P!Continue(acc, i) ELSE acc
         /\ platform = "telegram" =>
              /\ P!IsMessage(i) <=> ~(~file[i].head \/ file[i].notice)
              /\ ~P!IsText(i)
<1>0. platform = "whatsapp" => platform # "imessage" /\ platform # "telegram"
  OBVIOUS
<1>1. platform = "imessage" => platform # "telegram"
  OBVIOUS
<1>2. platform = "telegram" => platform # "imessage"
  OBVIOUS
<1>3. file[i].head => P!Valid(i)
  BY HeadsAreValid
<1>4. file[i].len = 0 <=> ~(file[i].len > 0)
  BY LinesAre
<1>5. P!IsMessage(i) => ~P!IsText(i) /\ file[i].head
  BY Zenon DEF P!IsMessage, P!IsText
<1>6. ASSUME platform = "whatsapp", NEW acc
      PROVE  P!WhatsAppLine(acc, i) = IF P!IsMessage(i) THEN P!AddMessage(P!Flush(acc), i)
                                      ELSE IF P!IsText(i) THEN P!Continue(acc, i) ELSE acc
  BY <1>0, <1>3, <1>4, <1>6, Zenon DEF P!IsMessage, P!IsText, P!WhatsAppLine
<1>7. ASSUME platform = "imessage", NEW acc
      PROVE  P!IMessageLine(acc, i) = IF P!IsMessage(i) THEN P!AddMessage(P!Flush(acc), i)
                                      ELSE IF P!IsText(i) THEN P!Continue(acc, i) ELSE acc
  BY <1>1, <1>7, Zenon DEF P!IsMessage, P!IsText, P!IMessageLine
<1>8. platform = "telegram" =>
              /\ P!IsMessage(i) <=> ~(~file[i].head \/ file[i].notice)
              /\ ~P!IsText(i)
  BY <1>2, Zenon DEF P!IsMessage, P!IsText
<1>9. QED
  BY <1>5, <1>6, <1>7, <1>8

LEMMA LineIs ==
  ASSUME Exported, ExportAssumptions, NEW i \in 1..Len(file), NEW m, NEW x, NEW r \in BOOLEAN
  PROVE  LET acc == [messages |-> m, extra |-> x, raised |-> r]
         IN P!Line(acc, i) = IF r THEN acc
                             ELSE IF platform = "telegram" THEN P!TelegramEntry(acc, i)
                             ELSE IF P!IsMessage(i) THEN P!AddMessage(P!Flush(acc), i)
                             ELSE IF P!IsText(i) THEN P!Continue(acc, i) ELSE acc
<1> DEFINE acc == [messages |-> m, extra |-> x, raised |-> r]
<1>1. acc.raised = r
  OBVIOUS
<1>2. platform \in {"whatsapp", "imessage", "telegram"}
  BY DEF Exported
<1> HIDE DEF acc
<1>3. CASE r
  BY <1>1, <1>3, Zenon DEF P!Line, acc
<1>4. CASE ~r
  <2>1. P!Line(acc, i) = CASE platform = "whatsapp" -> P!WhatsAppLine(acc, i)
                           [] platform = "imessage" -> P!IMessageLine(acc, i)
                           [] platform = "telegram" -> P!TelegramEntry(acc, i)
    BY <1>1, <1>4, Zenon DEF P!Line
  <2>2. CASE platform = "whatsapp"
    <3>1. P!Line(acc, i) = P!WhatsAppLine(acc, i) /\ platform # "telegram"
      BY <2>1, <2>2
    <3>2. QED
      BY <1>4, <2>2, <3>1, KindsOfLines, Zenon DEF acc
  <2>3. CASE platform = "imessage"
    <3>1. P!Line(acc, i) = P!IMessageLine(acc, i) /\ platform # "telegram"
      BY <2>1, <2>3
    <3>2. QED
      BY <1>4, <2>3, <3>1, KindsOfLines, Zenon DEF acc
  <2>4. CASE platform = "telegram"
    <3>1. P!Line(acc, i) = P!TelegramEntry(acc, i)
      BY <2>1, <2>4
    <3>2. QED
      BY <1>4, <2>4, <3>1, Zenon DEF acc
  <2>5. QED
    BY <1>2, <2>2, <2>3, <2>4
<1>5. QED
  BY <1>3, <1>4

\* A message of the export, behind the ones that are there.
LEMMA MessageIsPlaced ==
  ASSUME Exported, ExportAssumptions, NEW n \in Nat, n < Len(file), P!IsMessage(n + 1),
         NEW m, NEW x \in Nat, Placed(m, n), Held(m, x, n),
         NEW b, b = IF m = <<>> \/ platform = "telegram" THEN m ELSE Joined(m, x)
  PROVE  /\ Placed(Append(b, Begun(n + 1)), n + 1)
         /\ b \in Seq(Messages) /\ Len(b) = Len(m)
<1>1. m \in Seq(Messages) /\ Len(m) \in Nat
  BY DEF Placed
<1>2. n + 1 \in 1..Len(file) /\ n + 1 \in 1..(n + 1)
  BY LinesAre
<1>3. Begun(n + 1) \in Messages
  <2>1. file[n + 1].head
    BY <1>2, KindsOfLines
  <2>2. P!DateOf(n + 1) \in Nat \X Nat
    BY <1>2, <2>1, HeadsHaveDates
  <2>3. file[n + 1].len \in Nat
    BY <1>2, LinesAre
  <2>4. QED
    BY <2>2, <2>3 DEF Begun, Messages
<1>4. /\ b \in Seq(Messages) /\ Len(b) = Len(m)
      /\ \A k \in 1..Len(m) : b[k].line = m[k].line /\ b[k].date = m[k].date
      /\ \A k \in 1..Len(m) : platform = "telegram" \/ k # Len(m) => b[k].len = m[k].len
      /\ \A k \in 1..Len(m) : platform # "telegram" /\ k = Len(m) =>
           b[k].len = Capped(m[k].len + x)
  <2>1. CASE m = <<>> \/ platform = "telegram"
    <3>1. b = m
      BY <2>1, Zenon
    <3>2. \A k \in 1..Len(m) : platform = "telegram"
      <4>1. \A k \in 1..0 : FALSE
        OBVIOUS
      <4>2. m = <<>> => Len(m) = 0
        OBVIOUS
      <4>3. QED
        BY <2>1, <4>1, <4>2, Zenon
    <3>3. QED
      BY <1>1, <3>1, <3>2, Zenon
  <2>2. CASE ~(m = <<>> \/ platform = "telegram")
    <3>1. b = Joined(m, x)
      BY <2>2, Zenon
    <3>2. /\ Joined(m, x) \in Seq(Messages) /\ Len(Joined(m, x)) = Len(m)
          /\ \A k \in 1..Len(m) :
               /\ Joined(m, x)[k].line = m[k].line /\ Joined(m, x)[k].date = m[k].date
               /\ k # Len(m) => Joined(m, x)[k].len = m[k].len
               /\ k = Len(m) => Joined(m, x)[k].len = Capped(m[k].len + x)
      BY <1>1, JoinedIs
    <3>3. platform # "telegram"
      BY <2>2
    <3>4. QED
      BY <3>1, <3>2, <3>3, Zenon
  <2>3. QED
    BY <2>1, <2>2
<1> DEFINE q == Append(b, Begun(n + 1))
<1>5. /\ q \in Seq(Messages) /\ Len(q) = Len(m) + 1
      /\ \A k \in 1..Len(m) : q[k] = b[k]
      /\ q[Len(m) + 1] = Begun(n + 1)
  BY <1>1, <1>3, <1>4
<1>6. /\ \A k : k \in 1..Len(q) <=> k \in 1..Len(m) \/ k = Len(m) + 1
      /\ Len(m) + 1 \notin 1..Len(m)
      /\ \A k \in 1..Len(m) : k < Len(m) + 1 /\ k # Len(q) /\ k \in Nat
  BY <1>1, <1>5
<1> HIDE DEF q
<1>7. Begun(n + 1).line = n + 1 /\ Begun(n + 1).date = P!DateOf(n + 1)
      /\ Begun(n + 1).len = file[n + 1].len
  BY DEF Begun
<1>8. /\ \A k \in 1..Len(m) : m[k].line \in Sent(n) /\ m[k].date = P!DateOf(m[k].line)
      /\ \A j, k \in 1..Len(m) : j < k => m[j].line < m[k].line
      /\ \A k \in 1..Len(m) :
           m[k].len = IF platform = "telegram" \/ k = Len(m) THEN file[m[k].line].len
                      ELSE Capped(Chars(m[k].line, m[k + 1].line - 1))
  BY DEF Placed
<1>9. n + 1 \in Sent(n + 1) /\ Sent(n) \subseteq Sent(n + 1)
  BY <1>2, SentIs DEF Sent
<1>10. \A k \in 1..Len(q) : q[k].line \in Sent(n + 1) /\ q[k].date = P!DateOf(q[k].line)
  <2>1. ASSUME NEW k \in 1..Len(m)
        PROVE  q[k].line \in Sent(n + 1) /\ q[k].date = P!DateOf(q[k].line)
    <3>1. q[k].line = m[k].line /\ q[k].date = m[k].date
      BY <1>4, <1>5, Zenon
    <3>2. m[k].line \in Sent(n + 1) /\ m[k].date = P!DateOf(m[k].line)
      BY <1>8, <1>9, Zenon
    <3>3. QED
      BY <3>1, <3>2, Zenon
  <2>2. q[Len(m) + 1].line \in Sent(n + 1)
        /\ q[Len(m) + 1].date = P!DateOf(q[Len(m) + 1].line)
    BY <1>5, <1>7, <1>9, Zenon
  <2>3. QED
    BY <1>6, <2>1, <2>2, Zenon
<1>11. \A j, k \in 1..Len(q) : j < k => q[j].line < q[k].line
  <2>1. ASSUME NEW j \in 1..Len(q), NEW k \in 1..Len(q), j < k PROVE q[j].line < q[k].line
    <3>1. j \in 1..Len(m)
      BY <1>1, <1>5, <2>1
    <3>2. CASE k \in 1..Len(m)
      BY <1>4, <1>5, <1>8, <2>1, <3>1, <3>2, Zenon
    <3>3. CASE k = Len(m) + 1
      <4>1. q[j].line = m[j].line /\ m[j].line \in 1..n /\ q[k].line = n + 1
        BY <1>4, <1>5, <1>7, <1>8, <3>1, <3>3, Zenon DEF Sent
      <4>2. QED
        BY <4>1
    <3>4. QED
      BY <1>6, <2>1, <3>2, <3>3
  <2>2. QED
    BY <2>1
<1>12. ASSUME NEW k \in 1..Len(q)
       PROVE  q[k].len = IF platform = "telegram" \/ k = Len(q) THEN file[q[k].line].len
                         ELSE Capped(Chars(q[k].line, q[k + 1].line - 1))
  <2>1. CASE k = Len(m) + 1
    BY <1>5, <1>7, <2>1, Zenon
  <2>2. CASE k \in 1..Len(m) /\ platform = "telegram"
    BY <1>4, <1>5, <1>8, <2>2, Zenon
  <2>3. CASE k \in 1..Len(m) /\ platform # "telegram" /\ k # Len(m)
    <3>1. k + 1 \in 1..Len(m)
      BY <1>1, <2>3
    <3>2. k # Len(q)
      BY <1>6, <2>3
    <3>3. q[k].len = m[k].len /\ q[k].line = m[k].line /\ q[k + 1].line = m[k + 1].line
      BY <1>4, <1>5, <2>3, <3>1, Zenon
    <3>4. QED
      BY <1>8, <2>3, <3>2, <3>3, Zenon
  <2>4. CASE k \in 1..Len(m) /\ platform # "telegram" /\ k = Len(m)
    <3>1. m # <<>>
      BY <2>4
    <3>2. k # Len(q) /\ q[k + 1].line = n + 1 /\ (n + 1) - 1 = n
      BY <1>5, <1>6, <1>7, <2>4
    <3>3. q[k].line = m[k].line /\ q[k].len = Capped(m[k].len + x) /\ m[k].len = file[m[k].line].len
      BY <1>4, <1>5, <1>8, <2>4, Zenon
    <3> DEFINE s == SumOver(P!Length, Texts(m[k].line, n))
    <3>4. x = s \/ (x >= MaxChars /\ s >= MaxChars)
      BY <2>4, <3>1, Zenon DEF Held
    <3>5. s \in Nat /\ m[k].len \in Nat /\ MaxChars \in Nat
      <4>1. m[k].line \in Sent(n)
        BY <1>8, <2>4
      <4>2. m[k].line \in Nat /\ 1 <= m[k].line /\ m[k].line <= n + 1
        BY <4>1 DEF Sent
      <4>3. s \in Nat
        BY <4>2, TextsAre
      <4>4. m[k] \in Messages
        BY <1>1, <2>4
      <4>5. QED
        BY <4>3, <4>4, LinesAre DEF Messages
    <3> HIDE DEF s
    <3>6. Capped(m[k].len + x) = Capped(m[k].len + s)
      BY <3>4, <3>5 DEF Capped
    <3>7. Chars(m[k].line, n) = m[k].len + s
      BY <3>3, Zenon DEF Chars, s
    <3>8. QED
      BY <2>4, <3>2, <3>3, <3>6, <3>7, Zenon
  <2>5. QED
    BY <1>6, <2>1, <2>2, <2>3, <2>4
<1>13. Placed(q, n + 1)
  BY <1>5, <1>10, <1>11, <1>12, Zenon DEF Placed
<1>14. QED
  BY <1>4, <1>13 DEF q

LEMMA PlacedStays ==
  ASSUME Exported, ExportAssumptions, NEW n \in Nat, NEW m, Placed(m, n)
  PROVE  Placed(m, n + 1)
<1>1. \A k \in 1..Len(m) : m[k].line \in Sent(n + 1)
  BY SentIs, Zenon DEF Placed
<1>2. QED
  BY <1>1, Zenon DEF Placed

LEMMA LastIsPlaced ==
  ASSUME NEW n \in Nat, NEW m, Placed(m, n), m # <<>>
  PROVE  LET a == m[Len(m)].line IN a \in Nat /\ 1 <= a /\ a <= n
<1>1. Len(m) \in 1..Len(m)
  BY DEF Placed
<1>2. m[Len(m)].line \in Sent(n)
  BY <1>1, Zenon DEF Placed
<1>3. m[Len(m)].line \in 1..n
  BY <1>2, Zenon DEF Sent
<1>4. QED
  BY <1>3

LEMMA Appended ==
  ASSUME NEW b \in Seq(Messages), NEW e
  PROVE  LET q == Append(b, e)
         IN /\ q # <<>> /\ Len(q) = Len(b) + 1 /\ q[Len(q)] = e
            /\ \A k \in 1..Len(b) : q[k] = b[k] /\ k \in 1..Len(q)
<1>1. b \in Seq(Messages \cup {e}) /\ e \in Messages \cup {e}
  OBVIOUS
<1>2. Len(b) \in Nat
  OBVIOUS
<1> DEFINE q == Append(b, e)
<1>3. /\ q \in Seq(Messages \cup {e}) /\ Len(q) = Len(b) + 1
      /\ \A k \in 1..Len(b) : q[k] = b[k]
      /\ q[Len(b) + 1] = e
  BY <1>1, AppendProperties
<1>4. q # <<>>
  BY <1>2, <1>3
<1>5. QED
  <2> HIDE DEF q
  <2>1. \A k \in 1..Len(b) : k \in 1..Len(q)
    BY <1>2, <1>3
  <2>2. QED
    BY <1>3, <1>4, <2>1 DEF q

\* The line of a message: counted with it, and too many of them end the loop.
LEMMA MessageIsRead ==
  ASSUME Exported, ExportAssumptions, NEW n \in Nat, n < Len(file), P!IsMessage(n + 1),
         NEW m, NEW x \in Nat, Placed(m, n), Whole(m, n), Held(m, x, n)
  PROVE  LET after == P!Line([messages |-> m, extra |-> x, raised |-> FALSE], n + 1)
         IN Reading(after, n + 1) \/ Stopped(after, n + 1)
<1> DEFINE b == IF m = <<>> \/ platform = "telegram" THEN m ELSE Joined(m, x)
           q == Append(b, Begun(n + 1))
           after == P!Line([messages |-> m, extra |-> x, raised |-> FALSE], n + 1)
<1>1. n + 1 \in 1..Len(file)
  BY LinesAre
<1>2. Placed(q, n + 1) /\ b \in Seq(Messages) /\ Len(b) = Len(m)
  BY MessageIsPlaced
<1>3. m \in Seq(Messages) /\ Len(m) \in Nat /\ MaxParsed \in Nat
  BY LinesAre DEF Placed
<1>4. q # <<>> /\ Len(q) = Len(m) + 1 /\ q[Len(q)] = Begun(n + 1)
      /\ \A k \in 1..Len(m) : q[k] = b[k] /\ k \in 1..Len(q)
  <2>1. b \in Seq(Messages) /\ Len(b) = Len(m)
    BY <1>2
  <2> HIDE DEF b
  <2>2. QED
    BY <1>3, <2>1, Appended
<1>5. \A k \in 1..Len(m) : b[k].line = m[k].line
  <2>1. CASE m = <<>> \/ platform = "telegram"
    BY <2>1, Zenon
  <2>2. CASE ~(m = <<>> \/ platform = "telegram")
    <3>1. \A k \in 1..Len(m) : Joined(m, x)[k].line = m[k].line
      BY <1>3, JoinedIs
    <3>2. QED
      BY <2>2, <3>1, Zenon
  <2>3. QED
    BY <2>1, <2>2
<1>6. /\ Sent(n + 1) = Sent(n) \cup {n + 1} /\ n + 1 \notin Sent(n)
      /\ IsFiniteSet(Sent(n)) /\ Cardinality(Sent(n)) \in Nat
  BY SentIs
<1>7. Cardinality(Sent(n + 1)) = Len(m) + 1
  <2>1. Cardinality(Sent(n + 1)) = Cardinality(Sent(n)) + 1
    BY <1>6, FS_AddElement
  <2>2. QED
    BY <2>1 DEF Whole
<1>8. Sent(n + 1) \subseteq {q[k].line : k \in 1..Len(q)}
  <2>1. ASSUME NEW i \in Sent(n) PROVE \E k \in 1..Len(q) : i = q[k].line
    <3>1. PICK k \in 1..Len(m) : i = m[k].line
      BY Zenon DEF Whole
    <3>2. q[k].line = m[k].line /\ k \in 1..Len(q)
      BY <1>4, <1>5, Zenon
    <3>3. QED
      BY <3>1, <3>2, Zenon
  <2>2. \E k \in 1..Len(q) : n + 1 = q[k].line
    <3>1. Begun(n + 1).line = n + 1
      BY DEF Begun
    <3>2. Len(q) \in 1..Len(q)
      BY <1>3, <1>4
    <3>3. QED
      BY <1>4, <3>1, <3>2, Zenon
  <2>3. QED
    BY <1>6, <2>1, <2>2, Zenon
<1>9. Held(q, 0, n + 1)
  <2>1. Begun(n + 1).line = n + 1
    BY DEF Begun
  <2>2. ~P!IsText(n + 1)
    BY <1>1, KindsOfLines
  <2>3. \A j : j \in (n + 1)..(n + 1) => j = n + 1
    OBVIOUS
  <2>4. Texts(n + 1, n + 1) = {}
    BY <2>2, <2>3, Zenon DEF Texts
  <2>5. SumOver(P!Length, {}) = 0
    BY SumZero, FS_EmptySet
  <2>6. QED
    BY <1>4, <2>1, <2>4, <2>5, Zenon DEF Held
<1>10. after = IF platform = "telegram"
               THEN P!TelegramEntry([messages |-> m, extra |-> x, raised |-> FALSE], n + 1)
               ELSE P!AddMessage(P!Flush([messages |-> m, extra |-> x, raised |-> FALSE]), n + 1)
  BY <1>1, LineIs, Zenon
<1>11. CASE platform = "telegram"
  <2>1. x = 0 /\ b = m
    BY <1>11, Zenon DEF Held
  <2>2. ~(~file[n + 1].head \/ file[n + 1].notice)
    BY <1>1, <1>11, KindsOfLines, Zenon
  <2>3. P!TelegramEntry([messages |-> m, extra |-> x, raised |-> FALSE], n + 1)
          = [messages |-> Append(m, Begun(n + 1)), extra |-> x, raised |-> FALSE]
    BY <2>2, EntryIs, Zenon
  <2>4. after = [messages |-> q, extra |-> 0, raised |-> FALSE]
    BY <1>10, <1>11, <2>1, <2>3, Zenon
  <2>5. Whole(q, n + 1)
    BY <1>4, <1>7, <1>8, <1>11, Zenon DEF Whole
  <2>6. Reading(after, n + 1)
    <3> HIDE DEF q, after
    <3>1. 0 \in Nat
      OBVIOUS
    <3>2. QED
      BY <1>2, <1>9, <2>4, <2>5, <3>1, Zenon DEF Reading
  <2>7. QED
    BY <2>6
<1>12. CASE platform # "telegram"
  <2>1. after = P!AddMessage([messages |-> b, extra |-> 0, raised |-> FALSE], n + 1)
    <3>1. P!Flush([messages |-> m, extra |-> x, raised |-> FALSE])
            = [messages |-> IF m = <<>> THEN m ELSE Joined(m, x), extra |-> 0, raised |-> FALSE]
      BY <1>3, FlushIs
    <3>2. b = IF m = <<>> THEN m ELSE Joined(m, x)
      BY <1>12, Zenon
    <3>3. QED
      BY <1>10, <1>12, <3>1, <3>2, Zenon
  <2>2. after = [messages |-> q, extra |-> 0, raised |-> Len(m) + 1 > MaxParsed]
    <3> HIDE DEF b, after
    <3>1. P!AddMessage([messages |-> b, extra |-> 0, raised |-> FALSE], n + 1)
           = [messages |-> Append(b, Begun(n + 1)), extra |-> 0, raised |-> Len(b) + 1 > MaxParsed]
      BY <1>2, AddIs
    <3>2. QED
      BY <1>2, <2>1, <3>1, Zenon
  <2>3. CASE Len(m) + 1 > MaxParsed
    <3>1. Stopped(after, n + 1)
      <4> HIDE DEF q, after
      <4>1. Cardinality(Sent(n + 1)) > MaxParsed
        BY <1>7, <2>3, Zenon
      <4>2. after = [messages |-> q, extra |-> 0, raised |-> TRUE]
        BY <2>2, <2>3, Zenon
      <4>3. QED
        BY <1>2, <1>12, <4>1, <4>2, Zenon DEF Stopped
    <3>2. QED
      BY <3>1
  <2>4. CASE ~(Len(m) + 1 > MaxParsed)
    <3>1. Reading(after, n + 1)
      <4> HIDE DEF q, after
      <4>1. 0 \in Nat
        OBVIOUS
      <4>2. Len(q) <= MaxParsed
        BY <1>3, <1>4, <2>4
      <4>3. Whole(q, n + 1)
        BY <1>4, <1>7, <1>8, <4>2, Zenon DEF Whole
      <4>4. after = [messages |-> q, extra |-> 0, raised |-> FALSE]
        <5>1. (Len(m) + 1 > MaxParsed) = FALSE
          BY <1>3, <2>4
        <5>2. QED
          BY <2>2, <5>1, Zenon
      <4>5. QED
        BY <1>2, <1>9, <4>1, <4>3, <4>4, Zenon DEF Reading
    <3>2. QED
      BY <3>1
  <2>5. QED
    BY <2>3, <2>4
<1>13. QED
  BY <1>11, <1>12

\* A text line: held for the last message.  Any other line changes nothing.
LEMMA OtherIsRead ==
  ASSUME Exported, ExportAssumptions, NEW n \in Nat, n < Len(file), ~P!IsMessage(n + 1),
         NEW m, NEW x \in Nat, Placed(m, n), Whole(m, n), Held(m, x, n)
  PROVE  LET after == P!Line([messages |-> m, extra |-> x, raised |-> FALSE], n + 1)
         IN Reading(after, n + 1)
<1> DEFINE acc == [messages |-> m, extra |-> x, raised |-> FALSE]
           after == P!Line(acc, n + 1)
<1>1. n + 1 \in 1..Len(file)
  BY LinesAre
<1>2. Placed(m, n + 1)
  BY PlacedStays
<1>3. Whole(m, n + 1)
  BY SentIs, Zenon DEF Whole
<1>4. after = IF platform = "telegram" THEN P!TelegramEntry(acc, n + 1)
              ELSE IF P!IsText(n + 1) THEN P!Continue(acc, n + 1) ELSE acc
  BY <1>1, LineIs, Zenon
<1>5. CASE platform = "telegram"
  <2>1. ~file[n + 1].head \/ file[n + 1].notice
    BY <1>1, <1>5, KindsOfLines, Zenon
  <2>2. after = acc
    BY <1>4, <1>5, <2>1, EntryIs, Zenon
  <2>3. Held(m, x, n + 1)
    BY <1>5, Zenon DEF Held
  <2>4. QED
    BY <1>2, <1>3, <2>2, <2>3, Zenon DEF Reading
<1>6. CASE platform # "telegram" /\ ~P!IsText(n + 1)
  <2>1. after = acc
    BY <1>4, <1>6, Zenon
  <2>2. CASE m = <<>>
    <3>1. Held(m, x, n + 1)
      BY <2>2, Zenon DEF Held
    <3>2. QED
      BY <1>2, <1>3, <2>1, <3>1, Zenon DEF Reading
  <2>3. CASE m # <<>>
    <3> DEFINE a == m[Len(m)].line
    <3>1. a \in Nat /\ 1 <= a /\ a <= n + 1
      BY <2>3, LastIsPlaced
    <3> HIDE DEF a
    <3>2. Texts(a, n + 1) = Texts(a, n)
      BY <1>6, <3>1, TextsAre
    <3>3. Held(m, x, n + 1)
      BY <3>2, Zenon DEF Held, a
    <3>4. QED
      BY <1>2, <1>3, <2>1, <3>3, Zenon DEF Reading
  <2>4. QED
    BY <2>2, <2>3
<1>7. CASE platform # "telegram" /\ P!IsText(n + 1)
  <2> DEFINE y == IF m # <<>> /\ x < MaxChars THEN x + file[n + 1].len + 1 ELSE x
  <2>1. after = [messages |-> m, extra |-> y, raised |-> FALSE]
    <3>1. P!Continue(acc, n + 1) = [messages |-> m, raised |-> FALSE, extra |-> y]
      BY ContinueIs, Zenon
    <3>2. [messages |-> m, raised |-> FALSE, extra |-> y]
            = [messages |-> m, extra |-> y, raised |-> FALSE]
      OBVIOUS
    <3>3. QED
      BY <1>4, <1>7, <3>1, <3>2, Zenon
  <2>2. file[n + 1].len \in Nat /\ MaxChars \in Nat
    BY <1>1, LinesAre
  <2>3. y \in Nat
    BY <2>2
  <2>4. CASE m = <<>>
    <3>1. Held(m, y, n + 1)
      BY <2>4, Zenon DEF Held
    <3>2. QED
      BY <1>2, <1>3, <2>1, <2>3, <3>1, Zenon DEF Reading
  <2>5. CASE m # <<>>
    <3> DEFINE a == m[Len(m)].line
               s == SumOver(P!Length, Texts(a, n))
               t == SumOver(P!Length, Texts(a, n + 1))
    <3>1. a \in Nat /\ 1 <= a /\ a <= n + 1
      BY <2>5, LastIsPlaced
    <3>2. x = s \/ (x >= MaxChars /\ s >= MaxChars)
      BY <1>7, <2>5, Zenon DEF Held
    <3> HIDE DEF a
    <3>3. s \in Nat /\ t = s + file[n + 1].len + 1
      BY <1>7, <3>1, TextsAre
    <3>4. y = IF x < MaxChars THEN x + file[n + 1].len + 1 ELSE x
      BY <2>5, Zenon
    <3> HIDE DEF s, t, y
    <3>5. y = t \/ (y >= MaxChars /\ t >= MaxChars)
      BY <2>2, <3>2, <3>3, <3>4
    <3>6. Held(m, y, n + 1)
      BY <1>7, <2>5, <3>5, Zenon DEF Held, a, t
    <3>7. QED
      BY <1>2, <1>3, <2>1, <2>3, <3>6, Zenon DEF Reading
  <2>6. QED
    BY <2>4, <2>5
<1>8. QED
  BY <1>5, <1>6, <1>7

LEMMA LineIsRead ==
  ASSUME Exported, ExportAssumptions, NEW n \in Nat, n < Len(file), NEW acc,
         Reading(acc, n) \/ Stopped(acc, n)
  PROVE  Reading(P!Line(acc, n + 1), n + 1) \/ Stopped(P!Line(acc, n + 1), n + 1)
<1>1. n + 1 \in 1..Len(file)
  BY LinesAre
<1>2. CASE Reading(acc, n)
  <2>1. PICK m, x : /\ acc = [messages |-> m, extra |-> x, raised |-> FALSE]
                    /\ x \in Nat /\ Placed(m, n) /\ Whole(m, n) /\ Held(m, x, n)
    BY <1>2, Zenon DEF Reading
  <2>2. QED
    BY <2>1, MessageIsRead, OtherIsRead, Zenon
<1>3. CASE Stopped(acc, n)
  <2>1. PICK m, x : /\ acc = [messages |-> m, extra |-> x, raised |-> TRUE]
                    /\ Placed(m, n) /\ platform # "telegram"
                    /\ Cardinality(Sent(n)) > MaxParsed
    BY <1>3, Zenon DEF Stopped
  <2>2. P!Line(acc, n + 1) = acc
    <3>2. P!Line([messages |-> m, extra |-> x, raised |-> TRUE], n + 1)
            = [messages |-> m, extra |-> x, raised |-> TRUE]
      BY DEF P!Line
    <3>3. QED
      BY <2>1, <3>2, Zenon
  <2>3. Placed(m, n + 1)
    BY <2>1, PlacedStays
  <2>4. Cardinality(Sent(n + 1)) > MaxParsed
    <3>1. IsFiniteSet(Sent(n + 1))
      BY SentIs
    <3>2. Sent(n) \subseteq Sent(n + 1) /\ Cardinality(Sent(n)) \in Nat
      BY SentIs
    <3>3. Cardinality(Sent(n)) <= Cardinality(Sent(n + 1)) /\ Cardinality(Sent(n + 1)) \in Nat
      BY <3>1, <3>2, FS_Subset, FS_CardinalityType
    <3>4. QED
      BY <2>1, <3>2, <3>3, LinesAre
  <2>5. QED
    BY <2>1, <2>2, <2>3, <2>4, Zenon DEF Stopped
<1>4. QED
  BY <1>2, <1>3

\* The loop, for the first n lines.
Reads(f, n) == f = [i \in 0..n |-> IF i = 0 THEN P!Start ELSE P!Line(f[i - 1], i)]

LEMMA ReadsExist ==
  ASSUME NEW n \in Nat
  PROVE  \E f : Reads(f, n)
<1> DEFINE G == {k \in Nat : \E f : Reads(f, k)}
<1>1. 0 \in G
  <2> DEFINE f == [i \in 0..0 |-> P!Start]
  <2>1. Reads(f, 0)
    <3>1. \A i \in 0..0 : i = 0
      OBVIOUS
    <3>2. QED
      BY <3>1, Zenon DEF Reads
  <2>2. QED
    <3> HIDE DEF f
    <3>1. 0 \in Nat
      OBVIOUS
    <3>2. QED
      BY <2>1, <3>1, Zenon
<1>2. \A k \in G : k + 1 \in G
  <2> SUFFICES ASSUME NEW k \in G PROVE k + 1 \in G
    OBVIOUS
  <2>1. PICK f : Reads(f, k)
    OBVIOUS
  <2>2. k \in Nat /\ k + 1 \in Nat
    OBVIOUS
  <2> DEFINE e == [i \in 0..(k + 1) |-> IF i \in 0..k THEN f[i] ELSE P!Line(f[k], k + 1)]
  <2>3. /\ \A i \in 0..(k + 1) : i \in 0..k \/ i = k + 1
        /\ \A i \in 0..k : i # 0 => i - 1 \in 0..k
        /\ \A i \in 0..k : i \in 0..(k + 1)
        /\ (k + 1) - 1 = k /\ k + 1 # 0 /\ k + 1 \notin 0..k /\ k \in 0..k
        /\ k + 1 \in 0..(k + 1)
    BY <2>2
  <2>4. \A i \in 0..k : e[i] = f[i]
    BY <2>3, Zenon
  <2>5. \A i \in 0..k : e[i] = IF i = 0 THEN P!Start ELSE P!Line(e[i - 1], i)
    <3> HIDE DEF e
    <3>1. \A i \in 0..k : f[i] = IF i = 0 THEN P!Start ELSE P!Line(f[i - 1], i)
      BY <2>1, Zenon DEF Reads
    <3>2. QED
      BY <2>3, <2>4, <3>1, Zenon
  <2>6. e[k + 1] = P!Line(e[k], k + 1)
    <3>1. e[k + 1] = P!Line(f[k], k + 1)
      BY <2>3, Zenon
    <3>2. QED
      BY <2>3, <2>4, <3>1, Zenon
  <2>7. e = [i \in 0..(k + 1) |-> e[i]]
    OBVIOUS
  <2>8. Reads(e, k + 1)
    <3> HIDE DEF e
    <3>1. \A i \in 0..(k + 1) : e[i] = IF i = 0 THEN P!Start ELSE P!Line(e[i - 1], i)
      BY <2>3, <2>5, <2>6, Zenon
    <3>2. QED
      BY <2>7, <3>1, Zenon DEF Reads
  <2>9. QED
    <3> HIDE DEF e
    <3>1. QED
      BY <2>2, <2>8, Zenon
<1>3. G = Nat
  <2>1. G \in SUBSET Nat
    OBVIOUS
  <2> HIDE DEF G
  <2>2. QED
    BY <1>1, <1>2, <2>1, NumberInduction
<1>4. QED
  BY <1>3

LEMMA ExportIsRead ==
  ASSUME Exported, ExportAssumptions
  PROVE  Reading(P!After, Len(file)) \/ Stopped(P!After, Len(file))
<1> DEFINE n == Len(file)
           f == CHOOSE f : Reads(f, n)
           Read(i) == Reading(f[i], i) \/ Stopped(f[i], i)
           G == {i \in Nat : i <= n => Read(i)}
<1>1. n \in Nat
  BY LinesAre
<1>2. Reads(f, n)
  BY <1>1, ReadsExist, Zenon
<1>3. P!After = f[n]
  BY Zenon DEF P!After, Reads
<1> HIDE DEF n, f
<1>4. \A i \in 0..n : f[i] = IF i = 0 THEN P!Start ELSE P!Line(f[i - 1], i)
  BY <1>2, Zenon DEF Reads
<1>5. 0 \in G
  <2>1. f[0] = P!Start
    <3>1. 0 \in 0..n
      BY <1>1
    <3>2. QED
      BY <1>4, <3>1, Zenon
  <2>2. Placed(<<>>, 0)
    <3>1. <<>> \in Seq(Messages) /\ Len(<<>>) = 0 /\ \A k \in 1..0 : FALSE
      OBVIOUS
    <3>2. QED
      BY <3>1, Zenon DEF Placed
  <2>3. Whole(<<>>, 0)
    <3>1. Len(<<>>) = 0 /\ \A k \in 1..0 : FALSE
      OBVIOUS
    <3>2. Sent(0) = {}
      BY <3>1, Zenon DEF Sent
    <3>3. Cardinality(Sent(0)) = 0
      BY <3>2, FS_EmptySet
    <3>4. 0 <= MaxParsed
      BY LinesAre
    <3>5. QED
      BY <3>1, <3>2, <3>3, <3>4, Zenon DEF Whole
  <2>4. Held(<<>>, 0, 0)
    BY Zenon DEF Held
  <2>5. 0 \in Nat
    OBVIOUS
  <2>6. Reading(f[0], 0)
    BY <2>1, <2>2, <2>3, <2>4, <2>5, Zenon DEF Reading, P!Start
  <2>7. QED
    BY <2>5, <2>6, Zenon
<1>6. \A i \in G : i + 1 \in G
  <2> SUFFICES ASSUME NEW i \in G PROVE i + 1 \in G
    OBVIOUS
  <2>1. i \in Nat /\ i + 1 \in Nat
    OBVIOUS
  <2>2. ASSUME i + 1 <= n PROVE Read(i + 1)
    <3>1. i <= n /\ i < n /\ i + 1 \in 0..n /\ i + 1 # 0 /\ (i + 1) - 1 = i
      BY <1>1, <2>1, <2>2
    <3>2. Read(i)
      BY <3>1, Zenon
    <3>3. f[i + 1] = P!Line(f[i], i + 1)
      BY <1>4, <3>1, Zenon
    <3>4. i < Len(file)
      BY <3>1 DEF n
    <3>5. Reading(P!Line(f[i], i + 1), i + 1) \/ Stopped(P!Line(f[i], i + 1), i + 1)
      BY <2>1, <3>2, <3>4, LineIsRead
    <3>6. QED
      BY <3>3, <3>5, Zenon
  <2>3. QED
    BY <2>1, <2>2, Zenon
<1>7. G = Nat
  <2>1. G \in SUBSET Nat
    OBVIOUS
  <2> HIDE DEF G
  <2>2. QED
    BY <1>5, <1>6, <2>1, NumberInduction
<1>8. Read(n)
  <2>1. n <= n
    BY <1>1
  <2>2. QED
    BY <1>1, <1>7, <2>1, Zenon
<1>9. QED
  BY <1>3, <1>8, Zenon DEF n

---------------------------------------------------------------------------
(* What the parser hands on *)

EndOf(m, k) == IF k = Len(m) THEN Len(file) + 1 ELSE m[k + 1].line

HandedOn(m) ==
  /\ m \in Seq(Messages)
  /\ \A k \in 1..Len(m) : m[k].line \in Sent(Len(file)) /\ m[k].date = P!DateOf(m[k].line)
  /\ \A j, k \in 1..Len(m) : j < k => m[j].line < m[k].line
  /\ Whole(m, Len(file))
  /\ \A k \in 1..Len(m) :
       m[k].len = IF platform = "telegram" THEN file[m[k].line].len
                  ELSE Capped(Chars(m[k].line, EndOf(m, k) - 1))

LEMMA LastIsJoined ==
  ASSUME Exported, ExportAssumptions, NEW m, NEW x \in Nat,
         Placed(m, Len(file)), Whole(m, Len(file)), Held(m, x, Len(file)),
         platform # "telegram", m # <<>>
  PROVE  HandedOn(Joined(m, x))
<1> DEFINE n == Len(file)
           b == Joined(m, x)
<1>1. m \in Seq(Messages) /\ Len(m) \in Nat /\ n \in Nat /\ MaxChars \in Nat
  BY LinesAre DEF Placed
<1>2. /\ b \in Seq(Messages) /\ Len(b) = Len(m)
      /\ \A k \in 1..Len(m) :
           /\ b[k].line = m[k].line /\ b[k].date = m[k].date
           /\ k # Len(m) => b[k].len = m[k].len
           /\ k = Len(m) => b[k].len = Capped(m[k].len + x)
  BY <1>1, JoinedIs
<1> HIDE DEF n, b
<1>3. /\ \A k \in 1..Len(m) : m[k].line \in Sent(n) /\ m[k].date = P!DateOf(m[k].line)
      /\ \A j, k \in 1..Len(m) : j < k => m[j].line < m[k].line
      /\ \A k \in 1..Len(m) :
           m[k].len = IF k = Len(m) THEN file[m[k].line].len
                      ELSE Capped(Chars(m[k].line, m[k + 1].line - 1))
  BY Zenon DEF Placed, n
<1>4. /\ \A k \in 1..Len(b) : b[k].line \in Sent(n) /\ b[k].date = P!DateOf(b[k].line)
      /\ \A j, k \in 1..Len(b) : j < k => b[j].line < b[k].line
  BY <1>2, <1>3, Zenon
<1>5. Whole(b, n)
  <2>1. {b[k].line : k \in 1..Len(b)} = {m[k].line : k \in 1..Len(m)}
    BY <1>2, Zenon
  <2>2. QED
    BY <1>2, <2>1, Zenon DEF Whole, n
<1>6. ASSUME NEW k \in 1..Len(b), k # Len(b)
      PROVE  b[k].len = Capped(Chars(b[k].line, EndOf(b, k) - 1))
  <2>1. k \in 1..Len(m) /\ k # Len(m) /\ k + 1 \in 1..Len(m)
    BY <1>1, <1>2, <1>6
  <2>2. EndOf(b, k) = m[k + 1].line
    BY <1>2, <1>6, <2>1, Zenon DEF EndOf
  <2>3. QED
    BY <1>2, <1>3, <2>1, <2>2, Zenon
<1>7. ASSUME NEW k \in 1..Len(b), k = Len(b)
      PROVE  b[k].len = Capped(Chars(b[k].line, EndOf(b, k) - 1))
  <2>1. k \in 1..Len(m) /\ k = Len(m)
    BY <1>2, <1>7
  <2> DEFINE a == m[Len(m)].line
             s == SumOver(P!Length, Texts(a, n))
  <2>2. a \in Nat /\ 1 <= a /\ a <= n
    BY <1>1, LastIsPlaced DEF n
  <2>3. x = s \/ (x >= MaxChars /\ s >= MaxChars)
    BY Zenon DEF Held, n
  <2>4. EndOf(b, k) - 1 = n
    <3>1. EndOf(b, k) = n + 1
      BY <1>7, Zenon DEF EndOf, n
    <3>2. QED
      BY <1>1, <3>1
  <2>5. b[k].line = a /\ b[k].len = Capped(m[k].len + x) /\ m[k].len = file[a].len
    BY <1>2, <1>3, <2>1, Zenon
  <2> HIDE DEF a
  <2>6. s \in Nat
    BY <1>1, <2>2, TextsSum, SMTT(30) DEF n
  <2>7. m[k].len \in Nat
    <3>1. m[k] \in Messages
      BY <1>1, <2>1
    <3>2. QED
      BY <3>1 DEF Messages
  <2> HIDE DEF s
  <2>8. Capped(m[k].len + x) = Capped(m[k].len + s)
    BY <1>1, <2>3, <2>6, <2>7 DEF Capped
  <2>9. QED
    BY <2>4, <2>5, <2>8, Zenon DEF Chars, s
<1>8. QED
  <2>1. \A k \in 1..Len(b) :
          b[k].len = IF platform = "telegram" THEN file[b[k].line].len
                     ELSE Capped(Chars(b[k].line, EndOf(b, k) - 1))
    BY <1>6, <1>7, Zenon
  <2>2. QED
    BY <1>2, <1>4, <1>5, <2>1, Zenon DEF HandedOn, n, b

LEMMA ParsedIs ==
  ASSUME Exported, ExportAssumptions
  PROVE  /\ P!Parsed.raised \in BOOLEAN
         /\ P!Parsed.messages \in Seq(Messages)
         /\ \A k \in 1..Len(P!Parsed.messages) :
              LET o == P!Parsed.messages[k]
              IN o.line \in Sent(Len(file)) /\ o.date = P!DateOf(o.line)
         /\ P!Parsed.raised =>
              platform # "telegram" /\ Cardinality(Sent(Len(file))) > MaxParsed
         /\ ~P!Parsed.raised => HandedOn(P!Parsed.messages)
<1> DEFINE n == Len(file)
           Dated(b) == \A k \in 1..Len(b) : b[k].line \in Sent(n) /\ b[k].date = P!DateOf(b[k].line)
<1>1. CASE Stopped(P!After, n)
  <2>1. PICK m, x : /\ P!After = [messages |-> m, extra |-> x, raised |-> TRUE]
                    /\ Placed(m, n) /\ platform # "telegram"
                    /\ Cardinality(Sent(n)) > MaxParsed
    BY <1>1, Zenon DEF Stopped
  <2>2. P!After.raised /\ P!After.messages = m /\ P!After.raised = TRUE
    BY <2>1
  <2>3. P!Parsed = P!After
    BY <2>2, Zenon DEF P!Parsed
  <2>4. m \in Seq(Messages) /\ Dated(m)
    BY <2>1, Zenon DEF Placed
  <2>5. P!Parsed.raised = TRUE /\ P!Parsed.messages = m
    BY <2>2, <2>3, Zenon
  <2> HIDE DEF n
  <2>6. QED
    BY <2>1, <2>4, <2>5, Zenon DEF n
<1>2. CASE Reading(P!After, n)
  <2>1. PICK m, x : /\ P!After = [messages |-> m, extra |-> x, raised |-> FALSE]
                    /\ x \in Nat /\ Placed(m, n) /\ Whole(m, n) /\ Held(m, x, n)
    BY <1>2, Zenon DEF Reading
  <2>2. m \in Seq(Messages)
    BY <2>1, Zenon DEF Placed
  <2>3. P!After.raised = FALSE /\ P!After.messages = m
    BY <2>1
  <2> DEFINE b == IF platform = "telegram" \/ m = <<>> THEN m ELSE Joined(m, x)
  <2>4. P!Parsed.raised = FALSE /\ P!Parsed.messages = b
    <3>1. P!Parsed = IF platform = "telegram" THEN P!After ELSE P!Flush(P!After)
      BY <2>3, Zenon DEF P!Parsed
    <3>2. CASE platform = "telegram"
      BY <2>3, <3>1, <3>2, Zenon
    <3>3. CASE platform # "telegram"
      <4> DEFINE q == IF m = <<>> THEN m ELSE Joined(m, x)
      <4>1. P!Flush(P!After) = [messages |-> q, extra |-> 0, raised |-> FALSE]
        <5>1. P!Flush([messages |-> m, extra |-> x, raised |-> FALSE])
                = [messages |-> q, extra |-> 0, raised |-> FALSE]
          BY <2>1, <2>2, FlushIs
        <5>2. QED
          BY <2>1, <5>1, Zenon
      <4>2. q = b
        BY <3>3, Zenon
      <4> HIDE DEF q, b
      <4>3. P!Flush(P!After).raised = FALSE /\ P!Flush(P!After).messages = q
        BY <4>1
      <4>4. QED
        BY <3>1, <3>3, <4>2, <4>3, Zenon
    <3>4. QED
      BY <3>2, <3>3
  <2>5. HandedOn(b)
    <3>1. CASE platform = "telegram" \/ m = <<>>
      <4>1. b = m
        BY <3>1, Zenon
      <4>2. \A k \in 1..Len(m) : platform = "telegram"
        <5>1. \A k \in 1..0 : FALSE
          OBVIOUS
        <5>2. m = <<>> => Len(m) = 0
          OBVIOUS
        <5>3. QED
          BY <3>1, <5>1, <5>2, Zenon
      <4>3. HandedOn(m)
        BY <2>1, <4>2, Zenon DEF HandedOn, Placed
      <4> HIDE DEF b
      <4>4. QED
        BY <4>1, <4>3, Zenon
    <3>2. CASE ~(platform = "telegram" \/ m = <<>>)
      <4>1. b = Joined(m, x)
        BY <3>2, Zenon
      <4>2. HandedOn(Joined(m, x))
        BY <2>1, <3>2, LastIsJoined
      <4> HIDE DEF b
      <4>3. QED
        BY <4>1, <4>2, Zenon
    <3>3. QED
      BY <3>1, <3>2
  <2> HIDE DEF b
  <2>6. b \in Seq(Messages) /\ Dated(b)
    BY <2>5, Zenon DEF HandedOn
  <2>7. FALSE \in BOOLEAN
    OBVIOUS
  <2>8. QED
    BY <2>4, <2>5, <2>6, <2>7, Zenon
<1>3. QED
  BY <1>1, <1>2, ExportIsRead

LEMMA DatesAreFound ==
  ASSUME Exported, ExportAssumptions
  PROVE  P!DatesAreTrue
<1> DEFINE q == P!Parsed.messages
<1>1. q \in Seq(Messages)
  BY ParsedIs
<1>2. \A k \in 1..Len(q) : q[k].line \in Sent(Len(file)) /\ q[k].date = P!DateOf(q[k].line)
  BY ParsedIs, Zenon
<1>3. \A o \in P!ToSet(q) : \E k \in 1..Len(q) : o = q[k]
  <2> HIDE DEF q
  <2>1. DOMAIN q = 1..Len(q)
    BY <1>1
  <2>2. QED
    BY <2>1, Zenon DEF P!ToSet
<1> SUFFICES ASSUME monthFirst => \E j \in P!HeadLines : file[j].day > 12
             PROVE  \A o \in P!ToSet(q) : o.date = <<file[o.line].day, file[o.line].month>>
  BY Zenon DEF P!DatesAreTrue
<1> HIDE DEF q
<1>4. ASSUME NEW o \in P!ToSet(q) PROVE o.date = <<file[o.line].day, file[o.line].month>>
  <2>1. PICK k \in 1..Len(q) : o = q[k]
    BY <1>3
  <2>2. o.line \in Sent(Len(file)) /\ o.date = P!DateOf(o.line)
    BY <1>2, <2>1, Zenon
  <2>3. o.line \in 1..Len(file) /\ P!IsMessage(o.line)
    BY <2>2, Zenon DEF Sent
  <2>4. file[o.line].head
    BY <2>3, Zenon DEF P!IsMessage
  <2>5. P!DateOf(o.line) = <<file[o.line].day, file[o.line].month>>
    BY <2>3, <2>4, HeadsHaveDates
  <2>6. QED
    BY <2>2, <2>5, Zenon
<1>5. QED
  BY <1>4

LEMMA AllIsKept ==
  ASSUME Exported, ExportAssumptions
  PROVE  P!NothingIsLost
<1> DEFINE q == P!Parsed.messages
           n == Len(file)
           ends(k) == IF k = Len(q) THEN Len(file) + 1 ELSE q[k + 1].line
           text(k) == {j \in q[k].line..(ends(k) - 1) : P!IsText(j)}
           chars(k) == file[q[k].line].len + P!MapThenSumSet(LAMBDA j : P!Length[j], text(k))
<1> SUFFICES ASSUME ~P!Parsed.raised
             PROVE  /\ {q[k].line : k \in DOMAIN q} = {i \in DOMAIN file : P!IsMessage(i)}
                    /\ \A k \in 2..Len(q) : q[k - 1].line < q[k].line
                    /\ \A k \in DOMAIN q :
                         q[k].len = IF platform = "telegram" THEN chars(k)
                                    ELSE P!Min({chars(k), MaxChars})
  BY Zenon DEF P!NothingIsLost
<1>1. HandedOn(q)
  BY ParsedIs, Zenon
<1>2. \A k : chars(k) = Chars(q[k].line, EndOf(q, k) - 1)
  <2>1. \A k : ends(k) = EndOf(q, k)
    BY Zenon DEF EndOf
  <2>2. \A k : text(k) = Texts(q[k].line, EndOf(q, k) - 1)
    <3> HIDE DEF q, ends
    <3>1. QED
      BY <2>1, Zenon DEF Texts
  <2>3. \A R : P!MapThenSumSet(LAMBDA j : P!Length[j], R) = SumOver(P!Length, R)
    BY Zenon DEF SumOver, P!MapThenSumSet, MapThenSumSet, P!MapThenFoldSet, MapThenFoldSet
  <2>4. QED
    <3> HIDE DEF q, text
    <3>1. QED
      BY <2>2, <2>3, Zenon DEF Chars
<1> HIDE DEF q, chars
<1>3. q \in Seq(Messages) /\ DOMAIN q = 1..Len(q) /\ Len(q) \in Nat
      /\ DOMAIN file = 1..n /\ n \in Nat /\ MaxChars \in Nat
  <2>1. q \in Seq(Messages)
    BY <1>1, Zenon DEF HandedOn
  <2>2. QED
    BY <2>1, LinesAre
<1>4. {q[k].line : k \in DOMAIN q} = {i \in DOMAIN file : P!IsMessage(i)}
  <2>1. Sent(n) \subseteq {q[k].line : k \in 1..Len(q)}
    BY <1>1, Zenon DEF HandedOn, Whole
  <2>2. \A k \in 1..Len(q) : q[k].line \in Sent(n)
    BY <1>1, Zenon DEF HandedOn
  <2>3. {q[k].line : k \in 1..Len(q)} = Sent(n)
    BY <2>1, <2>2, Zenon
  <2>4. QED
    BY <1>3, <2>3, Zenon DEF Sent
<1>5. \A k \in 2..Len(q) : q[k - 1].line < q[k].line
  <2>1. \A k \in 2..Len(q) : k - 1 \in 1..Len(q) /\ k \in 1..Len(q) /\ k - 1 < k
    BY <1>3
  <2>2. QED
    BY <1>1, <2>1, Zenon DEF HandedOn
<1>6. ASSUME NEW k \in DOMAIN q
      PROVE  q[k].len = IF platform = "telegram" THEN chars(k) ELSE P!Min({chars(k), MaxChars})
  <2> DEFINE a == q[k].line
             b == EndOf(q, k) - 1
  <2>1. k \in 1..Len(q) /\ a \in Sent(n)
    BY <1>1, <1>3, Zenon DEF HandedOn
  <2>2. a \in 1..n /\ a \in Nat /\ 1 <= a /\ file[a].len \in Nat
    <3>1. a \in 1..n
      BY <2>1, Zenon DEF Sent
    <3>2. QED
      BY <3>1, LinesAre
  <2>3. q[k].len = IF platform = "telegram" THEN file[a].len ELSE Capped(Chars(a, b))
    BY <1>1, <2>1, Zenon DEF HandedOn
  <2>4. chars(k) = file[a].len + SumOver(P!Length, Texts(a, b))
    BY <1>2, Zenon DEF Chars
  <2>5. b \in Nat /\ b <= Len(file)
    <3>1. CASE k = Len(q)
      <4>1. EndOf(q, k) = n + 1
        BY <3>1, Zenon DEF EndOf
      <4>2. QED
        BY <1>3, <4>1
    <3>2. CASE k # Len(q)
      <4>1. k + 1 \in 1..Len(q)
        BY <1>3, <2>1, <3>2
      <4>2. EndOf(q, k) \in Sent(n)
        BY <1>1, <3>2, <4>1, Zenon DEF EndOf, HandedOn
      <4>3. EndOf(q, k) \in 1..n
        BY <4>2, Zenon DEF Sent
      <4>4. QED
        BY <1>3, <4>3
    <3>3. QED
      BY <3>1, <3>2
  <2> HIDE DEF a, b
  <2>6. SumOver(P!Length, Texts(a, b)) \in Nat
    BY <2>2, <2>5, TextsSum
  <2>7. CASE platform = "telegram"
    <3>1. Texts(a, b) = {}
      BY <2>7, Zenon DEF Texts, P!IsText
    <3>2. SumOver(P!Length, {}) = 0
      BY SumZero, FS_EmptySet
    <3>3. chars(k) = file[a].len + 0
      BY <2>4, <3>1, <3>2, Zenon
    <3>4. PICK l \in Nat : l = file[a].len
      BY <2>2
    <3>5. l + 0 = l
      OBVIOUS
    <3>6. QED
      BY <2>3, <2>7, <3>3, <3>4, <3>5, Zenon
  <2>8. CASE platform # "telegram"
    <3>1. chars(k) \in Nat
      <4>1. PICK l \in Nat : l = file[a].len
        BY <2>2
      <4>2. PICK s \in Nat : s = SumOver(P!Length, Texts(a, b))
        BY <2>6
      <4>3. l + s \in Nat
        OBVIOUS
      <4>4. QED
        BY <2>4, <4>1, <4>2, <4>3, Zenon
    <3>2. P!Min({chars(k), MaxChars}) = Capped(chars(k))
      BY <3>1, CappedIs
    <3>3. Chars(a, b) = chars(k)
      BY <2>4, Zenon DEF Chars
    <3>4. QED
      BY <2>3, <2>8, <3>2, <3>3, Zenon
  <2>9. QED
    BY <2>7, <2>8
<1>7. QED
  BY <1>4, <1>5, <1>6

LEMMA ChatsAreCapped ==
  ASSUME Exported, ExportAssumptions
  PROVE  P!ChatIsCapped
<1> DEFINE q == P!Parsed.messages
<1> SUFFICES ASSUME platform # "telegram", ~P!Parsed.raised
             PROVE  Len(q) <= MaxParsed /\ \A o \in P!ToSet(q) : o.len <= MaxChars
  BY Zenon DEF P!ChatIsCapped
<1>1. HandedOn(q)
  BY ParsedIs, Zenon
<1> HIDE DEF q
<1>2. q \in Seq(Messages) /\ Len(q) <= MaxParsed
  BY <1>1, Zenon DEF HandedOn, Whole
<1>3. DOMAIN q = 1..Len(q)
  BY <1>2
<1>4. ASSUME NEW o \in P!ToSet(q) PROVE o.len <= MaxChars
  <2>1. PICK k \in 1..Len(q) : o = q[k]
    BY <1>3, Zenon DEF P!ToSet
  <2>2. o.len = Capped(Chars(q[k].line, EndOf(q, k) - 1))
    BY <1>1, <2>1, Zenon DEF HandedOn
  <2>3. \A c : Capped(c) <= MaxChars
    BY LinesAre DEF Capped
  <2>4. QED
    BY <2>2, <2>3, Zenon
<1>5. QED
  BY <1>2, <1>4

LEMMA CapsAreExact ==
  ASSUME Exported, ExportAssumptions
  PROVE  P!CapIsExact
<1> SUFFICES ASSUME platform # "telegram"
             PROVE  P!Parsed.raised <=> Cardinality({i \in DOMAIN file : P!IsMessage(i)}) > MaxParsed
  BY Zenon DEF P!CapIsExact, P!Cardinality, Cardinality
<1>1. {i \in DOMAIN file : P!IsMessage(i)} = Sent(Len(file))
  <2>1. DOMAIN file = 1..Len(file)
    BY LinesAre
  <2>2. QED
    BY <2>1, Zenon DEF Sent
<1>2. CASE P!Parsed.raised
  <2>1. Cardinality(Sent(Len(file))) > MaxParsed
    BY <1>2, ParsedIs, Zenon
  <2>2. QED
    BY <1>1, <1>2, <2>1, Zenon
<1>3. CASE ~P!Parsed.raised
  <2>1. HandedOn(P!Parsed.messages)
    BY <1>3, ParsedIs, Zenon
  <2>2. Cardinality(Sent(Len(file))) = Len(P!Parsed.messages) /\ Len(P!Parsed.messages) <= MaxParsed
    BY <2>1, Zenon DEF HandedOn, Whole
  <2>3. P!Parsed.messages \in Seq(Messages)
    BY ParsedIs
  <2>4. ~(Cardinality(Sent(Len(file))) > MaxParsed)
    <3>1. PICK l \in Nat : l = Len(P!Parsed.messages)
      BY <2>3
    <3>2. l <= MaxParsed /\ Cardinality(Sent(Len(file))) = l
      BY <2>2, <3>1, Zenon
    <3>3. QED
      BY <3>2, LinesAre
  <2>5. QED
    BY <1>1, <1>3, <2>4, Zenon
<1>4. QED
  BY <1>2, <1>3

---------------------------------------------------------------------------
(* The scored sample *)

Score == [by : People, score : Int, at : Nat]
Toned == sample \in Seq(Score)
ToneAssumptions == T!PeopleAssumption /\ T!ScoreAssumption /\ T!TimeAssumption

LEMMA ToneInit == T!Init => Toned
<1>1. <<>> \in Seq(Score)
  OBVIOUS
<1>2. QED
  BY <1>1 DEF T!Init, Toned

LEMMA ToneStep == Toned /\ ToneAssumptions /\ [T!Next]_sample => Toned'
<1> SUFFICES ASSUME Toned, ToneAssumptions, [T!Next]_sample PROVE Toned'
  OBVIOUS
<1>1. CASE T!Next
  <2>1. PICK p \in People, s \in Scores, d \in ToneSteps :
          sample' = Append(sample, [by |-> p, score |-> s, at |->
                      IF sample = <<>> THEN 0 ELSE T!Last(sample).at + d])
    BY <1>1, Zenon DEF T!Next
  <2> DEFINE at == IF sample = <<>> THEN 0 ELSE T!Last(sample).at + d
  <2>2. at \in Nat
    <3>1. CASE sample = <<>>
      BY <3>1
    <3>2. CASE sample # <<>>
      <4>1. sample[Len(sample)] \in Score
        BY <3>2 DEF Toned
      <4>2. sample[Len(sample)].at \in Nat
        BY <4>1 DEF Score
      <4>3. d \in Nat
        BY DEF ToneAssumptions, T!TimeAssumption
      <4>4. QED
        BY <3>2, <4>2, <4>3 DEF T!Last
    <3>3. QED
      BY <3>1, <3>2
  <2>3. s \in Int
    BY DEF ToneAssumptions, T!ScoreAssumption
  <2> HIDE DEF at
  <2>4. [by |-> p, score |-> s, at |-> at] \in Score
    BY <2>2, <2>3 DEF Score
  <2>5. sample' = Append(sample, [by |-> p, score |-> s, at |-> at])
    BY <2>1, Zenon DEF at
  <2>6. QED
    BY <2>4, <2>5 DEF Toned
<1>2. CASE UNCHANGED sample
  BY <1>2 DEF Toned
<1>3. QED
  BY <1>1, <1>2

LEMMA SampleTypes ==
  ASSUME Toned
  PROVE  /\ Len(sample) \in Nat /\ T!All = 1..Len(sample) /\ IsFiniteSet(T!All)
         /\ \A i \in T!All : sample[i].score \in Int /\ sample[i].at \in Nat
         /\ \A i \in T!All : T!Scored[i] = sample[i].score
         /\ \A p : T!Of(p) \in SUBSET T!All
<1>1. Len(sample) \in Nat /\ T!All = 1..Len(sample)
  BY DEF Toned, T!All
<1>2. IsFiniteSet(T!All)
  BY <1>1, FS_Interval
<1>3. ASSUME NEW i \in T!All PROVE sample[i].score \in Int /\ sample[i].at \in Nat
  <2>1. sample[i] \in Score
    BY <1>1 DEF Toned
  <2>2. QED
    BY <2>1 DEF Score
<1>4. \A i \in T!All : T!Scored[i] = sample[i].score
  BY DEF T!Scored
<1>5. \A p : T!Of(p) \in SUBSET T!All
  BY Zenon DEF T!Of
<1>6. QED
  BY <1>1, <1>2, <1>3, <1>4, <1>5

LEMMA PartsAreFinite ==
  ASSUME Toned, NEW M \in SUBSET T!All
  PROVE  /\ IsFiniteSet(M) /\ T!Cardinality(M) = Cardinality(M) /\ Cardinality(M) \in Nat
         /\ T!Sum(M) = SumOver(T!Scored, M) /\ T!Sum(M) \in Int
<1>1. IsFiniteSet(M)
  BY SampleTypes, FS_Subset
<1>2. T!Cardinality(M) = Cardinality(M)
  BY Zenon DEF T!Cardinality, Cardinality
<1>3. Cardinality(M) \in Nat
  BY <1>1, FS_CardinalityType
<1>4. T!Sum(M) = SumOver(T!Scored, M)
  BY Zenon DEF T!Sum, SumOver, T!MapThenSumSet, MapThenSumSet, T!MapThenFoldSet, MapThenFoldSet
<1>5. \A i \in M : T!Scored[i] \in Int
  BY SampleTypes
<1>6. SumOver(T!Scored, M) \in Int
  BY <1>1, <1>5, SumType
<1>7. QED
  BY <1>1, <1>2, <1>3, <1>4, <1>6

---------------------------------------------------------------------------
(* The dominant tone *)

LEMMA LargestTone ==
  ASSUME NEW a \in Int, NEW b \in Int, NEW c \in Int, NEW m, m = IF b >= c THEN b ELSE c
  PROVE  /\ (a > b /\ a >= c) \/ (b >= c /\ a <= m) \/ (b <= c /\ a <= m)
         /\ (a > b /\ a >= c) => (a >= a /\ a >= b /\ a >= c)
         /\ (b >= c /\ a <= m) => (b >= a /\ b >= b /\ b >= c)
         /\ (b <= c /\ a <= m) => (c >= a /\ c >= b /\ c >= c)
OBVIOUS

LEMMA DominantsAreLargest ==
  ASSUME Toned
  PROVE  T!DominantIsLargest
<1> SUFFICES ASSUME NEW p \in T!Writers
             PROVE  LET share == [positive |-> T!Positive(p), negative |-> T!Negative(p),
                                  neutral |-> T!Neutral(p)]
                    IN /\ T!Dominants(p) # {}
                       /\ \A t \in T!Dominants(p), u \in DOMAIN share : share[t] >= share[u]
  BY Zenon DEF T!DominantIsLargest
<1>1. PICK a \in Int : a = T!Positive(p)
  <2> DEFINE M == {i \in T!Of(p) : sample[i].score > 2}
  <2>1. M \in SUBSET T!All
    BY SampleTypes
  <2>2. T!Positive(p) = T!Cardinality(M)
    BY Zenon DEF T!Positive
  <2> HIDE DEF M
  <2>3. QED
    BY <2>1, <2>2, PartsAreFinite
<1>2. PICK b \in Int : b = T!Negative(p)
  <2> DEFINE M == {i \in T!Of(p) : sample[i].score < -2}
  <2>1. M \in SUBSET T!All
    BY SampleTypes
  <2>2. T!Negative(p) = T!Cardinality(M)
    BY Zenon DEF T!Negative
  <2> HIDE DEF M
  <2>3. QED
    BY <2>1, <2>2, PartsAreFinite
<1>3. PICK c \in Int : c = T!Neutral(p)
  <2>1. T!Cardinality(T!Of(p)) \in Nat
    BY SampleTypes, PartsAreFinite
  <2>2. QED
    BY <1>1, <1>2, <2>1 DEF T!Neutral
<1> DEFINE m == IF b >= c THEN b ELSE c
<1>4. T!Max({b, c}) = m
  <2>1. T!Max({b, c}) = Max({b, c})
    BY Zenon DEF T!Max, Max
  <2>2. QED
    BY <2>1, MaxOfTwo
<1>5. \A t : t \in T!Dominants(p) <=>
        /\ t \in {"positive", "negative", "neutral"}
        /\ \/ t = "positive" /\ a > b /\ a >= c
           \/ t = "negative" /\ b >= c /\ a <= m
           \/ t = "neutral" /\ b <= c /\ a <= m
  <2> HIDE DEF m
  <2>1. QED
    BY <1>1, <1>2, <1>3, <1>4, Zenon DEF T!Dominants
<1>a. /\ "positive" \in T!Dominants(p) <=> a > b /\ a >= c
      /\ "negative" \in T!Dominants(p) <=> b >= c /\ a <= m
      /\ "neutral" \in T!Dominants(p) <=> b <= c /\ a <= m
  <2> HIDE DEF m
  <2>1. "positive" \in T!Dominants(p) <=> a > b /\ a >= c
    BY <1>5
  <2>2. "negative" \in T!Dominants(p) <=> b >= c /\ a <= m
    BY <1>5
  <2>3. "neutral" \in T!Dominants(p) <=> b <= c /\ a <= m
    BY <1>5
  <2>4. QED
    BY <2>1, <2>2, <2>3
<1>b. T!Dominants(p) \subseteq {"positive", "negative", "neutral"}
  BY <1>5, Zenon
<1> DEFINE share == [positive |-> a, negative |-> b, neutral |-> c]
<1>6. DOMAIN share = {"positive", "negative", "neutral"} /\ share["positive"] = a
      /\ share["negative"] = b /\ share["neutral"] = c
      /\ \A u \in DOMAIN share : share[u] = a \/ share[u] = b \/ share[u] = c
  OBVIOUS
<1>7. /\ (a > b /\ a >= c) \/ (b >= c /\ a <= m) \/ (b <= c /\ a <= m)
      /\ (a > b /\ a >= c) => (a >= a /\ a >= b /\ a >= c)
      /\ (b >= c /\ a <= m) => (b >= a /\ b >= b /\ b >= c)
      /\ (b <= c /\ a <= m) => (c >= a /\ c >= b /\ c >= c)
  BY LargestTone
<1> HIDE DEF m, share
<1>8. T!Dominants(p) # {}
  <2>1. (a > b /\ a >= c) => "positive" \in T!Dominants(p)
    BY <1>a
  <2>2. (b >= c /\ a <= m) => "negative" \in T!Dominants(p)
    BY <1>a
  <2>3. (b <= c /\ a <= m) => "neutral" \in T!Dominants(p)
    BY <1>a
  <2>4. QED
    BY <1>7, <2>1, <2>2, <2>3
<1>9. ASSUME NEW t \in T!Dominants(p), NEW u \in DOMAIN share PROVE share[t] >= share[u]
  <2>1. CASE t = "positive"
    <3>1. a > b /\ a >= c
      BY <1>a, <2>1, Zenon
    <3>2. share[t] = a /\ a >= a /\ a >= b /\ a >= c
      BY <1>6, <1>7, <2>1, <3>1, Zenon
    <3>3. share[u] \in {a, b, c}
      BY <1>6
    <3>4. QED
      BY <3>2, <3>3
  <2>2. CASE t = "negative"
    <3>1. b >= c /\ a <= m
      BY <1>a, <2>2, Zenon
    <3>2. share[t] = b /\ b >= a /\ b >= b /\ b >= c
      BY <1>6, <1>7, <2>2, <3>1, Zenon
    <3>3. share[u] \in {a, b, c}
      BY <1>6
    <3>4. QED
      BY <3>2, <3>3
  <2>3. CASE t = "neutral"
    <3>1. b <= c /\ a <= m
      BY <1>a, <2>3, Zenon
    <3>2. share[t] = c /\ c >= a /\ c >= b /\ c >= c
      BY <1>6, <1>7, <2>3, <3>1, Zenon
    <3>3. share[u] \in {a, b, c}
      BY <1>6
    <3>4. QED
      BY <3>2, <3>3
  <2>4. QED
    BY <1>b, <2>1, <2>2, <2>3
<1>10. QED
  BY <1>1, <1>2, <1>3, <1>8, <1>9, Zenon DEF share

---------------------------------------------------------------------------
(* The operators of Tone for a sample s, so that two samples can be compared *)

OfIn(s, p) == {i \in DOMAIN s : s[i].by = p}
WritersIn(s) == {s[i].by : i \in DOMAIN s}
ScoredIn(s) == [i \in DOMAIN s |-> s[i].score]
SumIn(s, M) == SumOver(ScoredIn(s), M)

\* The difference of the means over M and N, over the product of their sizes.
Apart(s, M, N) ==
  <<Cardinality(N) * SumIn(s, M) - Cardinality(M) * SumIn(s, N),
    Cardinality(M) * Cardinality(N)>>

QuarterIn(s, i) == s[i].at \div QuarterLength
WroteIn(s, p, q) == {i \in OfIn(s, p) : QuarterIn(s, i) = q}
InOrderOf(Q) == [k \in 1..Cardinality(Q) |->
                   CHOOSE q \in Q : Cardinality({r \in Q : r < q}) = k - 1]
TogetherIn(s) == {q \in {QuarterIn(s, i) : i \in DOMAIN s} :
                    \A p \in WritersIn(s) : WroteIn(s, p, q) # {}}
LeadIn(s, a, b, q) == Apart(s, WroteIn(s, a, q), WroteIn(s, b, q))
One(W) == CHOOSE p \in W : TRUE
Other(W) == CHOOSE p \in W \ {One(W)} : TRUE
Absolute(lead) == <<IF lead[1] < 0 THEN -lead[1] ELSE lead[1], Max({1, lead[2]})>>
DivergenceIn(s, q) == Absolute(LeadIn(s, One(WritersIn(s)), Other(WritersIn(s)), q))
AheadIn(s) == {a \in WritersIn(s) : \E b \in WritersIn(s) \ {a}, q \in TogetherIn(s) :
                 /\ \A r \in TogetherIn(s) : r <= q
                 /\ T!Less(<<1, 1>>, LeadIn(s, a, b, q))}
DriftIn(s) == IF Cardinality(WritersIn(s)) # 2 \/ TogetherIn(s) = {}
              THEN [score |-> <<>>, ahead |-> {}]
              ELSE [score |-> [q \in TogetherIn(s) |-> DivergenceIn(s, q)], ahead |-> AheadIn(s)]

BeginIn(s) == s[Len(s)].at - RecentWindow
RecentIn(s) == {i \in DOMAIN s : s[i].at >= BeginIn(s)}
BothIn(s) == {p \in WritersIn(s) : /\ OfIn(s, p) \cap RecentIn(s) # {}
                                   /\ OfIn(s, p) \ RecentIn(s) # {}}
DeltaIn(s, p) == Apart(s, OfIn(s, p) \cap RecentIn(s), OfIn(s, p) \ RecentIn(s))
RoundedOf(a, b) == LET floor == (100 * a) \div b
                   IN {r \in {floor, floor + 1} : 2 * (100 * a - r * b) \in -b..b}
RoundedIn(s, p) == RoundedOf(DeltaIn(s, p)[1], DeltaIn(s, p)[2])
DeltasIn(s) == {f \in [BothIn(s) -> UNION {RoundedIn(s, p) : p \in BothIn(s)}] :
                  \A p \in BothIn(s) : f[p] \in RoundedIn(s, p)}
ShiftFits(shift, B, f, total, limit) ==
  \/ shift = "more_negative" /\ B # {} /\ total <= -limit
  \/ shift = "more_positive" /\ B # {} /\ total >= limit
  \/ /\ shift = "stable"
     /\ \/ B = {} \/ (-limit < total /\ total < limit)
        \/ total \in {-limit, limit} /\ \E p, q \in B : f[p] # f[q]
ShiftsTo(shift, B, f) == ShiftFits(shift, B, f, SumOver(f, B), 100 * Cardinality(B))
ShiftsIn(s) == {shift \in {"more_negative", "more_positive", "stable"} :
                  \E f \in DeltasIn(s) : ShiftsTo(shift, BothIn(s), f)}

LEMMA OperatorsAre ==
  /\ \A p : T!Of(p) = OfIn(sample, p)
  /\ T!Writers = WritersIn(sample)
  /\ \A M : T!Sum(M) = SumIn(sample, M)
  /\ \A p, q : T!Wrote(p, q) = WroteIn(sample, p, q)
  /\ \A Q : T!InOrder(Q) = InOrderOf(Q)
<1>1. \A p : T!Of(p) = OfIn(sample, p)
  BY Zenon DEF T!Of, OfIn, T!All
<1>2. T!Writers = WritersIn(sample)
  BY Zenon DEF T!Writers, WritersIn, T!All
<1>3. \A M : T!Sum(M) = SumIn(sample, M)
  BY Zenon DEF T!Sum, SumIn, SumOver, T!MapThenSumSet, MapThenSumSet,
     T!MapThenFoldSet, MapThenFoldSet, T!Scored, ScoredIn, T!All
<1>4. \A p, q : T!Wrote(p, q) = WroteIn(sample, p, q)
  BY Zenon DEF T!Wrote, WroteIn, T!Of, OfIn, T!All, T!Quarter, QuarterIn
<1>5. \A Q : T!InOrder(Q) = InOrderOf(Q)
  BY Zenon DEF T!InOrder, InOrderOf, T!Cardinality, Cardinality
<1>6. QED
  BY <1>1, <1>2, <1>3, <1>4, <1>5

LEMMA LeadIs == \A a, b, q : T!Lead(a, b, q) = LeadIn(sample, a, b, q)
<1> TAKE a, b, q
<1> DEFINE M == WroteIn(sample, a, q)
           N == WroteIn(sample, b, q)
<1>1. T!Wrote(a, q) = M /\ T!Wrote(b, q) = N
  BY OperatorsAre, Zenon
<1> HIDE DEF M, N
<1>2. T!Sum(T!Wrote(a, q)) = SumIn(sample, M) /\ T!Sum(T!Wrote(b, q)) = SumIn(sample, N)
  BY <1>1, OperatorsAre, Zenon
<1>3. \A R : T!Cardinality(R) = Cardinality(R)
  BY Zenon DEF T!Cardinality, Cardinality
<1>4. T!Cardinality(T!Wrote(a, q)) = Cardinality(M) /\ T!Cardinality(T!Wrote(b, q)) = Cardinality(N)
  BY <1>1, <1>3, Zenon
<1>5. T!Lead(a, b, q) = Apart(sample, M, N)
  BY <1>2, <1>4, Zenon DEF T!Lead, Apart
<1>6. QED
  BY <1>5, Zenon DEF LeadIn, M, N

LEMMA DivergenceIs == \A q : T!Divergence(q) = DivergenceIn(sample, q)
<1> TAKE q
<1>2. T!Divergence(q) = Absolute(T!Lead(One(T!Writers), Other(T!Writers), q))
  BY Zenon DEF T!Divergence, Absolute, One, Other, T!Max, Max
<1>3. QED
  BY <1>2, OperatorsAre, LeadIs, Zenon DEF DivergenceIn

LEMMA TogetherIs == /\ T!AllQuarters = {QuarterIn(sample, i) : i \in DOMAIN sample}
                    /\ T!Together = TogetherIn(sample)
<1>1. T!AllQuarters = {QuarterIn(sample, i) : i \in DOMAIN sample}
  BY Zenon DEF T!AllQuarters, T!Quarter, QuarterIn, T!All
<1>2. QED
  BY <1>1, OperatorsAre, Zenon DEF T!Together, TogetherIn

LEMMA DriftIs == T!Drift = DriftIn(sample)
<1>1. T!Ahead = AheadIn(sample)
  BY TogetherIs, LeadIs, OperatorsAre, Zenon DEF T!Ahead, AheadIn
<1>2. [q \in T!Together |-> T!Divergence(q)] = [q \in TogetherIn(sample) |-> DivergenceIn(sample, q)]
  BY TogetherIs, DivergenceIs, Zenon
<1>3. T!Cardinality(T!Writers) = Cardinality(WritersIn(sample))
  BY OperatorsAre, Zenon DEF T!Cardinality, Cardinality
<1>4. QED
  BY <1>1, <1>2, <1>3, TogetherIs, Zenon DEF T!Drift, DriftIn

LEMMA DriftIsAfter == T!Drift' = DriftIn(sample')
<1>1. (T!Drift = DriftIn(sample))'
  BY DriftIs, PTL
<1>2. QED
  BY <1>1

LEMMA RecentIs == T!Recent = RecentIn(sample) /\ T!Both = BothIn(sample) /\ T!Begin = BeginIn(sample)
<1>1. T!Begin = BeginIn(sample)
  BY Zenon DEF T!Begin, BeginIn, T!Last
<1>2. T!Recent = RecentIn(sample)
  BY <1>1, Zenon DEF T!Recent, RecentIn, T!All
<1>3. T!Both = BothIn(sample)
  BY <1>2, OperatorsAre, Zenon DEF T!Both, BothIn
<1>4. QED
  BY <1>1, <1>2, <1>3

LEMMA DeltaIs == \A p : T!Delta(p) = DeltaIn(sample, p)
<1> TAKE p
<1> DEFINE M == OfIn(sample, p) \cap RecentIn(sample)
           N == OfIn(sample, p) \ RecentIn(sample)
<1>1. T!Of(p) \cap T!Recent = M /\ T!Of(p) \ T!Recent = N
  BY OperatorsAre, RecentIs, Zenon
<1> HIDE DEF M, N
<1>2. T!Sum(T!Of(p) \cap T!Recent) = SumIn(sample, M) /\ T!Sum(T!Of(p) \ T!Recent) = SumIn(sample, N)
  BY <1>1, OperatorsAre, Zenon
<1>3. \A R : T!Cardinality(R) = Cardinality(R)
  BY Zenon DEF T!Cardinality, Cardinality
<1>4. T!Delta(p) = Apart(sample, M, N)
  BY <1>1, <1>2, <1>3, Zenon DEF T!Delta, Apart
<1>5. QED
  BY <1>4, Zenon DEF DeltaIn, M, N

LEMMA ShiftsAre == T!Deltas = DeltasIn(sample) /\ T!Shifts = ShiftsIn(sample)
                   /\ \A p : T!Rounded(p) = RoundedIn(sample, p)
<1>1. \A p : T!Rounded(p) = RoundedIn(sample, p)
  BY DeltaIs, Zenon DEF T!Rounded, RoundedIn, RoundedOf
<1>2. T!Deltas = DeltasIn(sample)
  BY <1>1, RecentIs, Zenon DEF T!Deltas, DeltasIn
<1>3. \A g : T!MapThenSumSet(LAMBDA p : g[p], T!Both) = SumOver(g, T!Both)
  BY Zenon DEF SumOver, T!MapThenSumSet, MapThenSumSet, T!MapThenFoldSet, MapThenFoldSet
<1>4. T!Cardinality(T!Both) = Cardinality(T!Both)
  BY Zenon DEF T!Cardinality, Cardinality
<1>5. T!Shifts = {shift \in {"more_negative", "more_positive", "stable"} :
                    \E g \in T!Deltas : ShiftsTo(shift, T!Both, g)}
  <2>1. T!Shifts = {shift \in {"more_negative", "more_positive", "stable"} :
                      \E g \in T!Deltas :
                        ShiftFits(shift, T!Both, g, T!MapThenSumSet(LAMBDA p : g[p], T!Both),
                                  100 * T!Cardinality(T!Both))}
    BY Zenon DEF T!Shifts, ShiftFits
  <2>2. QED
    BY <1>3, <1>4, <2>1, Zenon DEF ShiftsTo
<1>6. QED
  BY <1>1, <1>2, <1>5, RecentIs, Zenon DEF ShiftsIn

LEMMA ShiftsAreAfter == T!Shifts' = ShiftsIn(sample')
<1>1. (T!Deltas = DeltasIn(sample) /\ T!Shifts = ShiftsIn(sample)
       /\ \A p : T!Rounded(p) = RoundedIn(sample, p))'
  BY ShiftsAre, PTL
<1>2. QED
  BY <1>1

LEMMA SampleIs ==
  ASSUME NEW s \in Seq(Score)
  PROVE  /\ Len(s) \in Nat /\ DOMAIN s = 1..Len(s) /\ IsFiniteSet(DOMAIN s)
         /\ \A i \in DOMAIN s : s[i].score \in Int /\ s[i].at \in Nat
         /\ \A i \in DOMAIN s : ScoredIn(s)[i] = s[i].score
         /\ \A p : OfIn(s, p) \in SUBSET DOMAIN s
         /\ \A p, q : WroteIn(s, p, q) \in SUBSET DOMAIN s
<1>1. Len(s) \in Nat /\ DOMAIN s = 1..Len(s)
  OBVIOUS
<1>2. IsFiniteSet(DOMAIN s)
  BY <1>1, FS_Interval
<1>3. ASSUME NEW i \in DOMAIN s PROVE s[i].score \in Int /\ s[i].at \in Nat
  <2>1. s[i] \in Score
    BY <1>1
  <2>2. QED
    BY <2>1 DEF Score
<1>4. \A i \in DOMAIN s : ScoredIn(s)[i] = s[i].score
  BY DEF ScoredIn
<1>5. \A p : OfIn(s, p) \in SUBSET DOMAIN s
  BY Zenon DEF OfIn
<1>6. \A p, q : WroteIn(s, p, q) \in SUBSET DOMAIN s
  BY <1>5, Zenon DEF WroteIn
<1>7. QED
  BY <1>1, <1>2, <1>3, <1>4, <1>5, <1>6

LEMMA ApartIs ==
  ASSUME NEW s \in Seq(Score), NEW M \in SUBSET DOMAIN s, NEW N \in SUBSET DOMAIN s
  PROVE  /\ SumIn(s, M) \in Int /\ Cardinality(M) \in Nat /\ Cardinality(N) \in Nat
         /\ Apart(s, M, N)[1] = Cardinality(N) * SumIn(s, M) - Cardinality(M) * SumIn(s, N)
         /\ Apart(s, M, N)[2] = Cardinality(M) * Cardinality(N)
         /\ Apart(s, M, N)[1] \in Int /\ Apart(s, M, N)[2] \in Nat
<1>1. \A R \in SUBSET DOMAIN s : /\ IsFiniteSet(R) /\ Cardinality(R) \in Nat
                                 /\ SumIn(s, R) \in Int
  <2> SUFFICES ASSUME NEW R \in SUBSET DOMAIN s
               PROVE  IsFiniteSet(R) /\ Cardinality(R) \in Nat /\ SumIn(s, R) \in Int
    OBVIOUS
  <2>1. IsFiniteSet(R) /\ Cardinality(R) \in Nat
    BY SampleIs, FS_Subset, FS_CardinalityType
  <2>2. \A i \in R : ScoredIn(s)[i] \in Int
    BY SampleIs
  <2>3. SumIn(s, R) \in Int
    BY <2>1, <2>2, SumType DEF SumIn
  <2>4. QED
    BY <2>1, <2>3
<1>2. PICK m \in Nat : m = Cardinality(M)
  BY <1>1
<1>3. PICK n \in Nat : n = Cardinality(N)
  BY <1>1
<1>4. PICK a \in Int : a = SumIn(s, M)
  BY <1>1
<1>5. PICK b \in Int : b = SumIn(s, N)
  BY <1>1
<1>6. Apart(s, M, N) = <<n * a - m * b, m * n>>
  BY <1>2, <1>3, <1>4, <1>5, Zenon DEF Apart
<1>7. n * a - m * b \in Int /\ m * n \in Nat
  OBVIOUS
<1> DEFINE x == n * a - m * b
           y == m * n
<1>8. <<x, y>>[1] = x /\ <<x, y>>[2] = y
  OBVIOUS
<1> HIDE DEF x, y
<1>9. Apart(s, M, N)[1] = x /\ Apart(s, M, N)[2] = y
  BY <1>6, <1>8, Zenon DEF x, y
<1>10. QED
  BY <1>1, <1>2, <1>3, <1>4, <1>5, <1>7, <1>9, Zenon DEF x, y

---------------------------------------------------------------------------
(* The drift *)

LEMMA DivergenceType ==
  ASSUME Toned, NEW q
  PROVE  T!Divergence(q)[1] \in Int /\ T!Divergence(q)[2] \in Positive
<1> DEFINE M == WroteIn(sample, One(WritersIn(sample)), q)
           N == WroteIn(sample, Other(WritersIn(sample)), q)
           lead == Apart(sample, M, N)
<1>1. M \in SUBSET DOMAIN sample /\ N \in SUBSET DOMAIN sample
  BY SampleIs DEF Toned
<1> HIDE DEF M, N
<1>2. PICK a \in Int : a = lead[1]
  BY <1>1, ApartIs DEF Toned
<1>3. PICK b \in Nat : b = lead[2]
  BY <1>1, ApartIs DEF Toned
<1>4. Max({1, b}) = IF 1 >= b THEN 1 ELSE b
  BY MaxOfTwo
<1>5. T!Divergence(q) = Absolute(lead)
  BY DivergenceIs, Zenon DEF DivergenceIn, LeadIn, M, N
<1>6. T!Divergence(q) = <<IF a < 0 THEN -a ELSE a, Max({1, b})>>
  BY <1>2, <1>3, <1>5, Zenon DEF Absolute
<1> HIDE DEF lead
<1>7. QED
  BY <1>4, <1>6 DEF Positive

\* An increase of a fraction by more than half a unit is an increase.
LEMMA IncreaseIsMore ==
  ASSUME NEW x1 \in Int, NEW x2 \in Positive, NEW y1 \in Int, NEW y2 \in Positive,
         x2 * y2 < (x1 * y2 - y1 * x2) * 2
  PROVE  y1 * x2 < x1 * y2
<1>1. PICK a \in Positive : a = x2 * y2
  BY PositiveProduct
<1>2. PICK b \in Int : b = x1 * y2
  BY DEF Positive
<1>3. PICK c \in Int : c = y1 * x2
  BY DEF Positive
<1>4. a < (b - c) * 2
  BY <1>1, <1>2, <1>3, Zenon
<1>5. c < b
  BY <1>4 DEF Positive
<1>6. QED
  BY <1>2, <1>3, <1>5, Zenon

---------------------------------------------------------------------------
(* Numbers in order *)

Below == {o \in Int \X Int : o[1] < o[2]}

LEMMA InOrderIs ==
  ASSUME NEW Q \in SUBSET Int, IsFiniteSet(Q)
  PROVE  IsOrder(Below, Q) /\ InOrderOf(Q) = Listing(Below, Q)
<1>1. \A x, y \in Int : <<x, y>> \in Below <=> x < y
  BY DEF Below
<1>2. IsOrder(Below, Q)
  BY <1>1 DEF IsOrder
<1>3. \A q \in Q : {r \in Q : r < q} = Above(Below, Q, q)
  BY <1>1 DEF Above
<1>4. \A k : (CHOOSE q \in Q : Cardinality({r \in Q : r < q}) = k - 1)
             = (CHOOSE q \in Q : Cardinality(Above(Below, Q, q)) = k - 1)
  BY <1>3, Zenon
<1>5. InOrderOf(Q) = Listing(Below, Q)
  <2> DEFINE f(k) == CHOOSE q \in Q : Cardinality({r \in Q : r < q}) = k - 1
             g(k) == CHOOSE q \in Q : Cardinality(Above(Below, Q, q)) = k - 1
  <2>1. InOrderOf(Q) = [k \in 1..Cardinality(Q) |-> f(k)]
    BY Zenon DEF InOrderOf
  <2>2. Listing(Below, Q) = [k \in 1..Cardinality(Q) |-> g(k)]
    BY Zenon DEF Listing
  <2>3. \A k : f(k) = g(k)
    BY <1>4, Zenon
  <2> HIDE DEF f, g
  <2>4. QED
    BY <2>1, <2>2, <2>3
<1>6. QED
  BY <1>2, <1>5

---------------------------------------------------------------------------
(* The turn *)

\* The elements of Q and of a part G of it that have n elements below them.
LEMMA PartLagsBehind ==
  ASSUME NEW Q \in SUBSET Int, IsFiniteSet(Q), NEW G \in SUBSET Q, NEW x \in G, NEW y \in Q,
         Cardinality({r \in G : r < x}) = Cardinality({r \in Q : r < y})
  PROVE  y <= x /\ (y = x <=> \A q \in Q : q < x => q \in G)
<1> DEFINE A == {r \in G : r < x}
           B == {r \in Q : r < y}
<1>1. x \in Int /\ y \in Int /\ x \in Q /\ \A q \in Q : q \in Int
  OBVIOUS
<1>2. /\ A \in SUBSET Q /\ B \in SUBSET Q /\ IsFiniteSet(A) /\ IsFiniteSet(B)
      /\ Cardinality(A) \in Nat /\ Cardinality(B) = Cardinality(A)
  <2>1. A \in SUBSET Q /\ B \in SUBSET Q
    OBVIOUS
  <2>2. IsFiniteSet(A) /\ IsFiniteSet(B)
    BY <2>1, FS_Subset
  <2>3. QED
    BY <2>1, <2>2, FS_CardinalityType
<1>3. ASSUME x < y PROVE FALSE
  <2>0. \A r \in A : r \in Q /\ r \in Int /\ r < x /\ r < y
    BY <1>1, <1>3
  <2>1. A \cup {x} \subseteq B /\ x \notin A
    <3>1. x \in B /\ x \notin A
      BY <1>1, <1>3
    <3>2. \A r \in A : r \in B
      BY <2>0
    <3> HIDE DEF A, B
    <3>3. QED
      BY <3>1, <3>2
  <2>2. Cardinality(A \cup {x}) = Cardinality(A) + 1
    BY <1>2, <2>1, FS_AddElement
  <2>3. Cardinality(A \cup {x}) <= Cardinality(B)
    BY <1>2, <2>1, FS_Subset
  <2> HIDE DEF A, B
  <2>4. QED
    BY <1>2, <2>2, <2>3
<1>4. ASSUME y = x PROVE \A q \in Q : q < x => q \in G
  <2>1. A \subseteq B
    BY <1>4
  <2>2. A = B
    <3> HIDE DEF A, B
    <3>1. QED
      BY <1>2, <2>1, FS_Subset
  <2>3. QED
    BY <1>4, <2>2
<1>5. ASSUME y < x, \A q \in Q : q < x => q \in G PROVE FALSE
  <2>0. \A r \in B : r \in G /\ r < x
    BY <1>1, <1>5
  <2>1. B \cup {y} \subseteq A /\ y \notin B
    <3>1. y \in A /\ y \notin B
      BY <1>1, <1>5
    <3>2. \A r \in B : r \in A
      BY <2>0
    <3> HIDE DEF A, B
    <3>3. QED
      BY <3>1, <3>2
  <2>2. Cardinality(B \cup {y}) = Cardinality(B) + 1
    BY <1>2, <2>1, FS_AddElement
  <2>3. Cardinality(B \cup {y}) <= Cardinality(A)
    BY <1>2, <2>1, FS_Subset
  <2> HIDE DEF A, B
  <2>4. QED
    BY <1>2, <2>2, <2>3
<1>6. QED
  BY <1>1, <1>3, <1>4, <1>5

LEMMA QuartersAre ==
  ASSUME Toned, ToneAssumptions
  PROVE  /\ T!AllQuarters \in SUBSET Int /\ IsFiniteSet(T!AllQuarters)
         /\ T!Together \in SUBSET T!AllQuarters
         /\ IsFiniteSet(T!Together) /\ Cardinality(T!Together) \in Nat
         /\ Cardinality(T!AllQuarters) \in Nat
         /\ Cardinality(T!Together) <= Cardinality(T!AllQuarters)
<1> DEFINE f == [i \in DOMAIN sample |-> QuarterIn(sample, i)]
<1>1. \A i \in DOMAIN sample : QuarterIn(sample, i) \in Int
  <2>1. QuarterLength \in Nat \ {0}
    BY DEF ToneAssumptions, T!TimeAssumption
  <2>2. \A i \in DOMAIN sample : sample[i].at \in Nat
    BY SampleIs DEF Toned
  <2>3. \A t \in Nat : t \div QuarterLength \in Int
    BY <2>1
  <2>4. QED
    BY <2>2, <2>3, Zenon DEF QuarterIn
<1>2. {f[i] : i \in DOMAIN sample} = T!AllQuarters
  BY TogetherIs
<1>3. IsFiniteSet(DOMAIN sample)
  BY SampleIs DEF Toned
<1> HIDE DEF f
<1>4. IsFiniteSet({f[i] : i \in DOMAIN sample})
  BY <1>3, ImageIsFinite
<1>5. IsFiniteSet(T!AllQuarters)
  BY <1>2, <1>4, Zenon
<1>6. T!AllQuarters \in SUBSET Int
  BY <1>1, TogetherIs
<1>7. T!Together \in SUBSET T!AllQuarters
  BY Zenon DEF T!Together
<1>8. /\ IsFiniteSet(T!Together) /\ Cardinality(T!Together) <= Cardinality(T!AllQuarters)
  BY <1>5, <1>7, FS_Subset
<1>9. QED
  BY <1>5, <1>6, <1>7, <1>8, FS_CardinalityType

\* The k-th of the quarters has k - 1 quarters before it.
LEMMA KthQuarter ==
  ASSUME NEW Q \in SUBSET Int, IsFiniteSet(Q)
  PROVE  /\ Len(InOrderOf(Q)) = Cardinality(Q)
         /\ \A k \in 1..Cardinality(Q) : /\ InOrderOf(Q)[k] \in Q
                                         /\ Cardinality({r \in Q : r < InOrderOf(Q)[k]}) = k - 1
<1>1. IsOrder(Below, Q) /\ InOrderOf(Q) = Listing(Below, Q)
  BY InOrderIs
<1>2. /\ Len(InOrderOf(Q)) = Cardinality(Q)
      /\ \A k \in 1..Cardinality(Q) : /\ InOrderOf(Q)[k] \in Q
                                      /\ Cardinality(Above(Below, Q, InOrderOf(Q)[k])) = k - 1
  BY <1>1, ListingIs
<1>3. \A q \in Q : Above(Below, Q, q) = {r \in Q : r < q}
  BY DEF Above, Below
<1>4. QED
  BY <1>2, <1>3, Zenon

LEMMA TurnsAreTrue ==
  ASSUME Toned, ToneAssumptions
  PROVE  T!TurnsWhereTheyParted
<1> SUFFICES ASSUME NEW k \in T!Steepest
             PROVE  /\ T!Less(T!Divergence(T!Shared[k - 1]), T!Divergence(T!Shared[k]))
                    /\ T!Quarters[k] \in T!TurningPoints /\ T!Quarters[k] <= T!Shared[k]
                    /\ T!Quarters[k] = T!Shared[k]
                         <=> \A q \in T!AllQuarters : q < T!Shared[k] => q \in T!Together
  BY Zenon DEF T!TurnsWhereTheyParted
<1>1. T!Quarters[k] \in T!TurningPoints
  BY Zenon DEF T!TurningPoints
<1>2. k \in 2..Len(T!Shared) /\ T!Less(<<1, 2>>, T!Increase(k))
  BY Zenon DEF T!Steepest
<1>3. T!Quarters = InOrderOf(T!AllQuarters) /\ T!Shared = InOrderOf(T!Together)
  BY OperatorsAre, Zenon DEF T!Quarters, T!Shared
<1>4. /\ T!Quarters[k] <= T!Shared[k]
      /\ T!Quarters[k] = T!Shared[k]
           <=> \A q \in T!AllQuarters : q < T!Shared[k] => q \in T!Together
  <2> DEFINE Q == T!AllQuarters
             G == T!Together
  <2>1. /\ Q \in SUBSET Int /\ IsFiniteSet(Q) /\ G \in SUBSET Q /\ IsFiniteSet(G)
        /\ Cardinality(G) \in Nat /\ Cardinality(Q) \in Nat /\ Cardinality(G) <= Cardinality(Q)
    BY QuartersAre
  <2> HIDE DEF Q, G
  <2>2. G \in SUBSET Int
    BY <2>1
  <2>3. /\ Len(InOrderOf(G)) = Cardinality(G)
        /\ \A j \in 1..Cardinality(G) : /\ InOrderOf(G)[j] \in G
                                        /\ Cardinality({r \in G : r < InOrderOf(G)[j]}) = j - 1
    BY <2>1, <2>2, KthQuarter
  <2>4. \A j \in 1..Cardinality(Q) : /\ InOrderOf(Q)[j] \in Q
                                     /\ Cardinality({r \in Q : r < InOrderOf(Q)[j]}) = j - 1
    BY <2>1, KthQuarter
  <2>5. Len(T!Shared) = Cardinality(G)
    BY <1>3, <2>3, Zenon DEF G
  <2>6. k \in 1..Cardinality(G) /\ k \in 1..Cardinality(Q)
    BY <1>2, <2>1, <2>5
  <2>7. PICK x \in G : x = T!Shared[k] /\ Cardinality({r \in G : r < x}) = k - 1
    BY <1>3, <2>3, <2>6, Zenon DEF G
  <2>8. PICK y \in Q : y = T!Quarters[k] /\ Cardinality({r \in Q : r < y}) = k - 1
    BY <1>3, <2>4, <2>6, Zenon DEF Q
  <2>9. Cardinality({r \in G : r < x}) = Cardinality({r \in Q : r < y})
    BY <2>7, <2>8, Zenon
  <2>10. y <= x /\ (y = x <=> \A q \in Q : q < x => q \in G)
    BY <2>1, <2>9, PartLagsBehind
  <2>11. QED
    BY <2>7, <2>8, <2>10, Zenon DEF Q, G
<1> DEFINE x == T!Divergence(T!Shared[k])
           y == T!Divergence(T!Shared[k - 1])
<1>5. T!Increase(k) = <<x[1] * y[2] - y[1] * x[2], x[2] * y[2]>>
  BY Zenon DEF T!Increase
<1>6. x[1] \in Int /\ x[2] \in Positive /\ y[1] \in Int /\ y[2] \in Positive
  BY DivergenceType
<1> HIDE DEF x, y
<1>7. T!Less(y, x)
  <2>1. PICK x1 \in Int, x2 \in Positive : x1 = x[1] /\ x2 = x[2]
    BY <1>6
  <2>2. PICK y1 \in Int, y2 \in Positive : y1 = y[1] /\ y2 = y[2]
    BY <1>6
  <2> DEFINE a == x1 * y2 - y1 * x2
             b == x2 * y2
  <2>3. T!Increase(k) = <<a, b>>
    BY <1>5, <2>1, <2>2, Zenon
  <2>4. 1 * b < a * 2
    <3> HIDE DEF a, b
    <3>1. <<a, b>>[1] = a /\ <<a, b>>[2] = b /\ <<1, 2>>[1] = 1 /\ <<1, 2>>[2] = 2
      OBVIOUS
    <3>2. QED
      BY <1>2, <2>3, <3>1, Zenon DEF T!Less
  <2>5. b \in Int
    BY DEF Positive
  <2>6. b < a * 2
    <3> HIDE DEF a, b
    <3>1. QED
      BY <2>4, <2>5
  <2>7. y1 * x2 < x1 * y2
    BY <2>6, IncreaseIsMore
  <2>8. QED
    BY <2>1, <2>2, <2>7, Zenon DEF T!Less
<1>8. QED
  BY <1>1, <1>4, <1>7, Zenon DEF x, y

---------------------------------------------------------------------------
(* One more message *)

LEMMA MessageAppended ==
  ASSUME NEW s \in Seq(Score), NEW e \in Score, NEW r, r = Append(s, e), NEW n, n = Len(s) + 1
  PROVE  /\ r \in Seq(Score) /\ Len(r) = n /\ n \in Nat /\ r[n] = e
         /\ n \notin DOMAIN s /\ n \in DOMAIN r
         /\ \A i : i \in DOMAIN r <=> i \in DOMAIN s \/ i = n
         /\ \A i \in DOMAIN s : r[i] = s[i]
<1>1. r \in Seq(Score) /\ Len(r) = n /\ n \in Nat /\ r[n] = e
  OBVIOUS
<1>2. DOMAIN s = 1..Len(s) /\ DOMAIN r = 1..n /\ Len(s) \in Nat
  BY <1>1
<1>3. \A i \in DOMAIN s : r[i] = s[i]
  BY <1>2
<1>4. \A i : i \in DOMAIN r <=> i \in DOMAIN s \/ i = n
  BY <1>2
<1>5. n \notin DOMAIN s
  BY <1>2
<1>6. QED
  BY <1>1, <1>3, <1>4, <1>5

LEMMA SumStays ==
  ASSUME NEW s \in Seq(Score), NEW e \in Score, NEW M \in SUBSET DOMAIN s
  PROVE  SumIn(Append(s, e), M) = SumIn(s, M)
<1> DEFINE r == Append(s, e)
<1>1. r \in Seq(Score) /\ \A i \in M : i \in DOMAIN r /\ i \in DOMAIN s /\ r[i] = s[i]
  BY MessageAppended
<1> HIDE DEF r
<1>2. \A i \in M : ScoredIn(s)[i] \in Int /\ ScoredIn(r)[i] = ScoredIn(s)[i]
  <2>1. \A i \in M : ScoredIn(s)[i] = s[i].score /\ s[i].score \in Int
    BY SampleIs
  <2>2. \A i \in M : ScoredIn(r)[i] = r[i].score
    BY <1>1, SampleIs
  <2>3. QED
    BY <1>1, <2>1, <2>2
<1>3. IsFiniteSet(M)
  BY SampleIs, FS_Subset
<1>4. SumOver(ScoredIn(r), M) = SumOver(ScoredIn(s), M)
  BY <1>2, <1>3, SumSame
<1>5. QED
  BY <1>4, Zenon DEF SumIn, r

LEMMA WriterStays ==
  ASSUME NEW s \in Seq(Score), NEW e \in Score, e.by \in WritersIn(s)
  PROVE  WritersIn(Append(s, e)) = WritersIn(s)
<1> DEFINE r == Append(s, e)
           n == Len(s) + 1
<1>1. /\ r[n] = e /\ \A i : i \in DOMAIN r <=> i \in DOMAIN s \/ i = n
      /\ \A i \in DOMAIN s : r[i] = s[i]
  BY MessageAppended
<1> HIDE DEF r, n
<1>2. \A p : p \in WritersIn(r) <=> p \in WritersIn(s)
  <2> TAKE p
  <2>1. p \in WritersIn(s) => p \in WritersIn(r)
    BY <1>1, Zenon DEF WritersIn
  <2>2. p \in WritersIn(r) => p \in WritersIn(s)
    BY <1>1, Zenon DEF WritersIn
  <2>3. QED
    BY <2>1, <2>2
<1>3. QED
  BY <1>2, Zenon DEF r

LEMMA SilenceKeepsDrift ==
  ASSUME ToneAssumptions, NEW s \in Seq(Score), NEW e \in Score, NEW b \in WritersIn(s),
         e.by \in WritersIn(s), e.by # b,
         \A i \in OfIn(s, b) : QuarterIn(s, i) # e.at \div QuarterLength
  PROVE  DriftIn(Append(s, e)) = DriftIn(s)
<1> DEFINE r == Append(s, e)
           n == Len(s) + 1
           u == e.at \div QuarterLength
<1>1. /\ r[n] = e /\ n \notin DOMAIN s /\ \A i : i \in DOMAIN r <=> i \in DOMAIN s \/ i = n
      /\ \A i \in DOMAIN s : r[i] = s[i]
  BY MessageAppended
<1>2. WritersIn(r) = WritersIn(s)
  BY WriterStays
<1>3. \A M \in SUBSET DOMAIN s : SumIn(r, M) = SumIn(s, M)
  BY SumStays
<1>a. \A i \in OfIn(s, b) : QuarterIn(s, i) # u
  OBVIOUS
<1> HIDE DEF r, n
<1>4. /\ \A i \in DOMAIN s : QuarterIn(r, i) = QuarterIn(s, i)
      /\ QuarterIn(r, n) = u
  BY <1>1, Zenon DEF QuarterIn
<1> HIDE DEF u
<1>5. ASSUME NEW p, NEW q, q # u \/ p = b PROVE WroteIn(r, p, q) = WroteIn(s, p, q)
  <2>1. ASSUME NEW i PROVE i \in WroteIn(r, p, q) <=> i \in WroteIn(s, p, q)
    <3>1. CASE i \in DOMAIN s
      BY <1>1, <1>4, <3>1, Zenon DEF WroteIn, OfIn
    <3>2. CASE i = n
      <4>1. i \notin WroteIn(s, p, q)
        BY <1>1, <3>2, Zenon DEF WroteIn, OfIn
      <4>2. i \notin WroteIn(r, p, q)
        <5>1. CASE q # u
          BY <1>4, <3>2, <5>1, Zenon DEF WroteIn
        <5>2. CASE p = b
          BY <1>1, <3>2, <5>2, Zenon DEF WroteIn, OfIn
        <5>3. QED
          BY <1>5, <5>1, <5>2
      <4>3. QED
        BY <4>1, <4>2
    <3>3. CASE i \notin DOMAIN s /\ i # n
      BY <1>1, <3>3, Zenon DEF WroteIn, OfIn
    <3>4. QED
      BY <3>1, <3>2, <3>3
  <2>2. QED
    BY <2>1, Zenon
<1>6. WroteIn(s, b, u) = {} /\ WroteIn(r, b, u) = {}
  <2>1. WroteIn(s, b, u) = {}
    BY <1>a, Zenon DEF WroteIn
  <2>2. QED
    BY <1>5, <2>1, Zenon
<1>7. u \notin TogetherIn(s) /\ u \notin TogetherIn(r)
  BY <1>2, <1>6, Zenon DEF TogetherIn
<1>8. TogetherIn(r) = TogetherIn(s)
  <2>1. ASSUME NEW q, q # u PROVE q \in TogetherIn(r) <=> q \in TogetherIn(s)
    <3>1. \A p : WroteIn(r, p, q) = WroteIn(s, p, q)
      BY <1>5, <2>1, Zenon
    <3>2. (\E i \in DOMAIN r : q = QuarterIn(r, i)) <=> (\E i \in DOMAIN s : q = QuarterIn(s, i))
      <4>1. (\E i \in DOMAIN r : q = QuarterIn(r, i)) => (\E i \in DOMAIN s : q = QuarterIn(s, i))
        BY <1>1, <1>4, <2>1, Zenon
      <4>2. (\E i \in DOMAIN s : q = QuarterIn(s, i)) => (\E i \in DOMAIN r : q = QuarterIn(r, i))
        BY <1>1, <1>4, Zenon
      <4>3. QED
        BY <4>1, <4>2
    <3>3. QED
      BY <1>2, <3>1, <3>2, Zenon DEF TogetherIn
  <2>2. \A q : q \in TogetherIn(r) <=> q \in TogetherIn(s)
    BY <1>7, <2>1, Zenon
  <2>3. QED
    <3> DEFINE x == TogetherIn(r)
               y == TogetherIn(s)
    <3>1. \A q : q \in x <=> q \in y
      BY <2>2
    <3> HIDE DEF x, y
    <3>2. x = y
      BY <3>1
    <3>3. QED
      BY <3>2 DEF x, y
<1>10. ASSUME NEW q \in TogetherIn(s), NEW x, NEW y PROVE LeadIn(r, x, y, q) = LeadIn(s, x, y, q)
  <2>1. q # u
    BY <1>7
  <2> DEFINE M == WroteIn(s, x, q)
             N == WroteIn(s, y, q)
  <2>2. WroteIn(r, x, q) = M /\ WroteIn(r, y, q) = N
    BY <1>5, <2>1, Zenon
  <2>3. M \in SUBSET DOMAIN s /\ N \in SUBSET DOMAIN s
    BY SampleIs
  <2> HIDE DEF M, N
  <2>4. SumIn(r, M) = SumIn(s, M) /\ SumIn(r, N) = SumIn(s, N)
    BY <1>3, <2>3
  <2>5. Apart(r, M, N) = Apart(s, M, N)
    BY <2>4, Zenon DEF Apart
  <2>6. QED
    BY <2>2, <2>5, Zenon DEF LeadIn, M, N
<1>11. \A q \in TogetherIn(s) : DivergenceIn(r, q) = DivergenceIn(s, q)
  BY <1>2, <1>10, Zenon DEF DivergenceIn
<1>12. [q \in TogetherIn(r) |-> DivergenceIn(r, q)] = [q \in TogetherIn(s) |-> DivergenceIn(s, q)]
  BY <1>8, <1>11
<1>13. AheadIn(r) = AheadIn(s)
  BY <1>2, <1>8, <1>10, Zenon DEF AheadIn
<1>14. QED
  BY <1>2, <1>8, <1>12, <1>13, Zenon DEF DriftIn, r

---------------------------------------------------------------------------
(* The shift *)

LEMMA BothAreFinite ==
  ASSUME NEW s \in Seq(Score)
  PROVE  IsFiniteSet(BothIn(s)) /\ Cardinality(BothIn(s)) \in Nat
<1> DEFINE f == [i \in DOMAIN s |-> s[i].by]
<1>1. IsFiniteSet({f[i] : i \in DOMAIN s})
  <2> HIDE DEF f
  <2>1. QED
    BY SampleIs, ImageIsFinite
<1>2. {f[i] : i \in DOMAIN s} = WritersIn(s)
  BY DEF WritersIn
<1>3. IsFiniteSet(WritersIn(s))
  BY <1>1, <1>2, Zenon
<1>4. BothIn(s) \in SUBSET WritersIn(s)
  BY Zenon DEF BothIn
<1>5. IsFiniteSet(BothIn(s))
  BY <1>3, <1>4, FS_Subset
<1>6. QED
  BY <1>5, FS_CardinalityType

\* The messages of p in the recent window, and those before it.
NewIn(s, p) == OfIn(s, p) \cap RecentIn(s)
OldIn(s, p) == OfIn(s, p) \ RecentIn(s)

LEMMA BothAre ==
  ASSUME NEW s \in Seq(Score), NEW p \in BothIn(s)
  PROVE  /\ NewIn(s, p) \in SUBSET DOMAIN s /\ OldIn(s, p) \in SUBSET DOMAIN s
         /\ Cardinality(NewIn(s, p)) \in Positive /\ Cardinality(OldIn(s, p)) \in Positive
         /\ DeltaIn(s, p) = Apart(s, NewIn(s, p), OldIn(s, p))
         /\ DeltaIn(s, p)[1] \in Int /\ DeltaIn(s, p)[2] \in Positive
<1> DEFINE M == NewIn(s, p)
           N == OldIn(s, p)
<1>1. M \in SUBSET DOMAIN s /\ N \in SUBSET DOMAIN s
  BY SampleIs DEF NewIn, OldIn
<1>2. M # {} /\ N # {}
  BY Zenon DEF BothIn, NewIn, OldIn
<1>3. IsFiniteSet(M) /\ IsFiniteSet(N)
  BY <1>1, SampleIs, FS_Subset
<1>4. Cardinality(M) \in Positive
  BY <1>2, <1>3, FS_EmptySet, FS_CardinalityType DEF Positive
<1>5. Cardinality(N) \in Positive
  BY <1>2, <1>3, FS_EmptySet, FS_CardinalityType DEF Positive
<1>6. DeltaIn(s, p) = Apart(s, M, N)
  BY Zenon DEF DeltaIn, NewIn, OldIn
<1>7. DeltaIn(s, p)[1] \in Int /\ DeltaIn(s, p)[2] = Cardinality(M) * Cardinality(N)
  <2>1. Apart(s, M, N)[1] \in Int /\ Apart(s, M, N)[2] = Cardinality(M) * Cardinality(N)
    BY <1>1, ApartIs
  <2>2. QED
    BY <1>6, <2>1, Zenon
<1>8. DeltaIn(s, p)[2] \in Positive
  BY <1>4, <1>5, <1>7, PositiveProduct
<1>9. QED
  BY <1>1, <1>4, <1>5, <1>6, <1>7, <1>8

LEMMA QuotientAndRest ==
  ASSUME NEW a \in Int, NEW b \in Positive
  PROVE  \E q \in Int, m \in 0..(b - 1) : q = a \div b /\ m = a % b /\ a = b * q + m
<1>1. b \in Int /\ b > 0
  BY DEF Positive
<1>2. PICK q \in Int : q = a \div b
  BY <1>1
<1>3. PICK m \in 0..(b - 1) : m = a % b
  BY <1>1
<1>4. a % b = a - b * (a \div b)
  BY <1>1
<1>5. m = a - b * q
  BY <1>2, <1>3, <1>4, Zenon
<1>6. PICK p \in Int : p = b * q
  BY <1>1
<1>7. m = a - p
  BY <1>5, <1>6, Zenon
<1>8. m \in Int
  BY <1>1
<1>9. a = p + m
  BY <1>7, <1>8
<1>10. a = b * q + m
  BY <1>6, <1>9, Zenon
<1>11. QED
  BY <1>2, <1>3, <1>10, Zenon

\* Rounding takes the nearest, or at a tie one of the two nearest.
LEMMA RoundedIs ==
  ASSUME NEW a \in Int, NEW b \in Positive
  PROVE  \A r : r \in RoundedOf(a, b) <=> /\ r \in Int
                                          /\ 2 * (100 * a - r * b) <= b
                                          /\ -b <= 2 * (100 * a - r * b)
<1>0. b \in Int /\ b >= 1 /\ 100 * a \in Int
  BY DEF Positive
<1>1. PICK q \in Int, m \in 0..(b - 1) : q = (100 * a) \div b /\ 100 * a = b * q + m
  BY <1>0, QuotientAndRest
<1>2. \A r : r \in RoundedOf(a, b) <=> r \in {q, q + 1} /\ 2 * (100 * a - r * b) \in -b..b
  BY <1>1, Zenon DEF RoundedOf
<1>3. \A r \in Int : 2 * (100 * a - r * b) \in Int
  BY <1>0
<1>4. ASSUME NEW r \in Int, 2 * (100 * a - r * b) <= b, -b <= 2 * (100 * a - r * b)
      PROVE  r \in {q, q + 1}
  <2>1. PICK j \in Int : j = r - q
    OBVIOUS
  <2>2. r = q + j
    BY <2>1
  <2>3. PICK u \in Int : u = b * j
    BY <1>0
  <2>4. (q + j) * b = b * q + b * j
    BY <1>0
  <2>5. PICK v \in Int : v = b * q
    BY <1>0
  <2>6. r * b = v + u
    BY <2>2, <2>3, <2>4, <2>5, Zenon
  <2>7. 100 * a - r * b = m - u
    <3>1. 100 * a = v + m
      BY <1>1, <2>5, Zenon
    <3>2. m \in Int
      BY <1>0
    <3>3. (v + m) - (v + u) = m - u
      BY <3>2
    <3>4. QED
      BY <2>6, <3>1, <3>3, Zenon
  <2>8. 2 * (m - u) <= b /\ -b <= 2 * (m - u)
    BY <1>4, <2>7, Zenon
  <2>9. ~(j <= -1)
    <3>1. b * j <= b * (-1) <=> j <= -1
      BY ScaleOrder
    <3>2. ~(u <= -b)
      BY <1>0, <2>8
    <3>3. b * (-1) = -b
      BY <1>0
    <3>4. QED
      BY <2>3, <3>1, <3>2, <3>3, Zenon
  <2>10. ~(2 <= j)
    <3>1. b * 2 <= b * j <=> 2 <= j
      BY ScaleOrder
    <3>2. ~(b * 2 <= u)
      BY <1>0, <2>8
    <3>3. QED
      BY <2>3, <3>1, <3>2, Zenon
  <2>11. j = 0 \/ j = 1
    BY <2>9, <2>10
  <2>12. QED
    BY <2>2, <2>11
<1>5. ASSUME NEW r \in Int
      PROVE  2 * (100 * a - r * b) \in -b..b
               <=> 2 * (100 * a - r * b) <= b /\ -b <= 2 * (100 * a - r * b)
  <2>1. PICK x \in Int : x = 2 * (100 * a - r * b)
    BY <1>3
  <2>2. x \in -b..b <=> x <= b /\ -b <= x
    BY <1>0
  <2>3. QED
    BY <2>1, <2>2, Zenon
<1>6. q \in Int /\ q + 1 \in Int
  OBVIOUS
<1>7. QED
  BY <1>2, <1>4, <1>5, <1>6

\* The rounding of a fraction is that of its value.
LEMMA EqualsRoundAlike ==
  ASSUME NEW m \in Positive, NEW k \in Positive, NEW a \in Int, NEW b \in Positive,
         NEW c \in Int, NEW d \in Positive, m * c = k * a, m * d = k * b
  PROVE  RoundedOf(c, d) = RoundedOf(a, b)
<1>0. m \in Int /\ k \in Int /\ b \in Int /\ d \in Int
  BY DEF Positive
<1>1. ASSUME NEW r \in Int
      PROVE  /\ 2 * (100 * c - r * d) <= d <=> 2 * (100 * a - r * b) <= b
             /\ -d <= 2 * (100 * c - r * d) <=> -b <= 2 * (100 * a - r * b)
  <2>1. m * (2 * (100 * c - r * d)) = 200 * (m * c) - 2 * (r * (m * d))
    BY <1>0
  <2>2. k * (2 * (100 * a - r * b)) = 200 * (k * a) - 2 * (r * (k * b))
    BY <1>0
  <2>3. m * (2 * (100 * c - r * d)) = k * (2 * (100 * a - r * b))
    BY <2>1, <2>2, Zenon
  <2>4. PICK y \in Int : y = 2 * (100 * c - r * d)
    BY <1>0
  <2>5. PICK x \in Int : x = 2 * (100 * a - r * b)
    BY <1>0
  <2>6. m * y = k * x
    BY <2>3, <2>4, <2>5, Zenon
  <2>7. m * (-d) = -(m * d) /\ k * (-b) = -(k * b) /\ -d \in Int /\ -b \in Int
    BY <1>0
  <2>8. m * (-d) = k * (-b)
    BY <2>7, Zenon
  <2>9. (m * y <= m * d <=> y <= d) /\ (m * (-d) <= m * y <=> -d <= y)
    BY <1>0, <2>7, ScaleOrder
  <2>10. (k * x <= k * b <=> x <= b) /\ (k * (-b) <= k * x <=> -b <= x)
    BY <1>0, <2>7, ScaleOrder
  <2>11. (y <= d <=> x <= b) /\ (-d <= y <=> -b <= x)
    BY <2>6, <2>8, <2>9, <2>10, Zenon
  <2>12. QED
    BY <2>4, <2>5, <2>11, Zenon
<1>2. \A r : r \in RoundedOf(c, d) <=> /\ r \in Int
                                       /\ 2 * (100 * c - r * d) <= d
                                       /\ -d <= 2 * (100 * c - r * d)
  BY RoundedIs
<1>3. \A r : r \in RoundedOf(a, b) <=> /\ r \in Int
                                       /\ 2 * (100 * a - r * b) <= b
                                       /\ -b <= 2 * (100 * a - r * b)
  BY RoundedIs
<1>4. \A r : r \in RoundedOf(c, d) <=> r \in RoundedOf(a, b)
  BY <1>1, <1>2, <1>3, Zenon
<1> DEFINE X == RoundedOf(c, d)
           Y == RoundedOf(a, b)
<1>5. \A r : r \in X <=> r \in Y
  BY <1>4
<1> HIDE DEF X, Y
<1>6. X = Y
  BY <1>5
<1>7. QED
  BY <1>6 DEF X, Y

\* A mean beyond the limit has a term beyond it.
LEMMA ShiftIsSomeones ==
  ASSUME NEW s \in Seq(Score)
  PROVE  /\ "more_negative" \in ShiftsIn(s)
              => \E p \in BothIn(s) : \E r \in RoundedIn(s, p) : r <= -100
         /\ "more_positive" \in ShiftsIn(s)
              => \E p \in BothIn(s) : \E r \in RoundedIn(s, p) : r >= 100
<1> DEFINE B == BothIn(s)
           n == Cardinality(B)
<1>1. IsFiniteSet(B) /\ n \in Nat
  BY BothAreFinite
<1>2. ASSUME NEW p \in B, NEW r \in RoundedIn(s, p) PROVE r \in Int
  <2>1. DeltaIn(s, p)[1] \in Int /\ DeltaIn(s, p)[2] \in Positive
    BY BothAre
  <2>2. QED
    BY <1>2, <2>1, RoundedIs DEF RoundedIn
<1>3. \A f \in DeltasIn(s) : \A p \in B : f[p] \in RoundedIn(s, p)
  BY Zenon DEF DeltasIn
<1>4. ASSUME "more_negative" \in ShiftsIn(s)
      PROVE  \E p \in B : \E r \in RoundedIn(s, p) : r <= -100
  <2>1. PICK f \in DeltasIn(s) : ShiftsTo("more_negative", B, f)
    BY <1>4, Zenon DEF ShiftsIn
  <2>2. B # {} /\ SumOver(f, B) <= -(100 * n)
    BY <2>1 DEF ShiftsTo, ShiftFits
  <2> SUFFICES ASSUME \A p \in B : \A r \in RoundedIn(s, p) : ~(r <= -100) PROVE FALSE
    BY Zenon
  <2>3. \A p \in B : f[p] \in Int /\ f[p] > -100
    <3> TAKE p \in B
    <3>1. f[p] \in RoundedIn(s, p)
      BY <1>3
    <3>2. f[p] \in Int /\ ~(f[p] <= -100)
      BY <1>2, <3>1
    <3>3. QED
      BY <3>2
  <2> HIDE DEF B
  <2>4. SumOver(f, B) \in Int /\ SumOver(f, B) > (-100) * n
    <3>1. -100 \in Int
      OBVIOUS
    <3>2. QED
      BY <1>1, <2>2, <2>3, <3>1, SumAbove, Zenon
  <2> HIDE DEF n
  <2>5. QED
    BY <1>1, <2>2, <2>4
<1>5. ASSUME "more_positive" \in ShiftsIn(s)
      PROVE  \E p \in B : \E r \in RoundedIn(s, p) : r >= 100
  <2>1. PICK f \in DeltasIn(s) : ShiftsTo("more_positive", B, f)
    BY <1>5, Zenon DEF ShiftsIn
  <2>2. B # {} /\ SumOver(f, B) >= 100 * n
    BY <2>1 DEF ShiftsTo, ShiftFits
  <2> SUFFICES ASSUME \A p \in B : \A r \in RoundedIn(s, p) : ~(r >= 100) PROVE FALSE
    BY Zenon
  <2>3. \A p \in B : f[p] \in Int /\ f[p] < 100
    <3> TAKE p \in B
    <3>1. f[p] \in RoundedIn(s, p)
      BY <1>3
    <3>2. f[p] \in Int /\ ~(f[p] >= 100)
      BY <1>2, <3>1
    <3>3. QED
      BY <3>2
  <2> DEFINE e == [p \in B |-> -f[p]]
  <2>4. \A p \in B : e[p] \in Int /\ e[p] > -100 /\ e[p] = (-1) * f[p] /\ f[p] \in Int
    BY <2>3
  <2> HIDE DEF B, e
  <2>5. SumOver(e, B) \in Int /\ SumOver(e, B) > (-100) * n
    <3>1. -100 \in Int
      OBVIOUS
    <3>2. QED
      BY <1>1, <2>2, <2>4, <3>1, SumAbove, Zenon
  <2>6. SumOver(e, B) = (-1) * SumOver(f, B) /\ SumOver(f, B) \in Int
    <3>1. -1 \in Int /\ IsFiniteSet(B)
      BY <1>1
    <3>2. SumOver(f, B) \in Int
      BY <2>4, <3>1, SumType, Zenon
    <3>3. SumOver(e, B) = (-1) * SumOver(f, B)
      BY <2>4, <3>1, SumScale, Zenon
    <3>4. QED
      BY <3>2, <3>3
  <2> HIDE DEF n
  <2>7. QED
    BY <1>1, <2>2, <2>5, <2>6
<1>6. QED
  BY <1>4, <1>5

LEMMA ShiftsHaveBaselines ==
  ASSUME Toned, ToneAssumptions
  PROVE  T!ShiftHasABaseline
<1> SUFFICES ASSUME T!Reported
             PROVE  /\ T!All \ T!Recent # {}
                    /\ T!Begin - sample[1].at >= RecentWindow
                    /\ "more_negative" \in T!Shifts => \E p \in T!Both : \E r \in T!Rounded(p) : r <= -100
                    /\ "more_positive" \in T!Shifts => \E p \in T!Both : \E r \in T!Rounded(p) : r >= 100
  BY Zenon DEF T!ShiftHasABaseline
<1>1. /\ sample # <<>> /\ Len(sample) \in Nat /\ T!All = 1..Len(sample)
      /\ T!Last(sample).at - sample[1].at >= 2 * RecentWindow
  BY SampleTypes DEF T!Reported
<1>2. 1 \in T!All /\ Len(sample) \in T!All
  BY <1>1 DEF Toned
<1>3. PICK a \in Nat : a = sample[1].at
  BY <1>2, SampleTypes
<1>4. PICK b \in Nat : b = T!Last(sample).at
  BY <1>2, SampleTypes DEF T!Last
<1>5. RecentWindow \in Nat /\ RecentWindow >= 1
  BY DEF ToneAssumptions, T!TimeAssumption
<1>6. T!Begin = b - RecentWindow /\ b - a >= 2 * RecentWindow
  BY <1>1, <1>3, <1>4, Zenon DEF T!Begin
<1>7. T!Begin - sample[1].at >= RecentWindow
  BY <1>3, <1>5, <1>6
<1>8. ~(sample[1].at >= T!Begin)
  BY <1>3, <1>5, <1>6
<1>9. 1 \notin T!Recent
  BY <1>8, Zenon DEF T!Recent
<1>10. "more_negative" \in T!Shifts => \E p \in T!Both : \E r \in T!Rounded(p) : r <= -100
  BY ShiftsAre, RecentIs, ShiftIsSomeones, Zenon DEF Toned
<1>11. "more_positive" \in T!Shifts => \E p \in T!Both : \E r \in T!Rounded(p) : r >= 100
  BY ShiftsAre, RecentIs, ShiftIsSomeones, Zenon DEF Toned
<1>12. QED
  BY <1>2, <1>7, <1>9, <1>10, <1>11, Zenon

\* The recent window, its writers and their messages after one more message
\* of a recent writer at the same time.
LEMMA RecentGrows ==
  ASSUME ToneAssumptions, NEW s \in Seq(Score), NEW e \in Score, e.by \in BothIn(s),
         e.at = s[Len(s)].at
  PROVE  /\ RecentIn(Append(s, e)) = RecentIn(s) \cup {Len(s) + 1}
         /\ \A q : q # e.by => OfIn(Append(s, e), q) = OfIn(s, q)
         /\ OfIn(Append(s, e), e.by) = OfIn(s, e.by) \cup {Len(s) + 1}
         /\ BothIn(Append(s, e)) = BothIn(s)
<1> DEFINE r == Append(s, e)
           n == Len(s) + 1
<1>1. /\ r \in Seq(Score) /\ Len(r) = n /\ r[n] = e /\ n \notin DOMAIN s /\ n \in DOMAIN r
      /\ \A i : i \in DOMAIN r <=> i \in DOMAIN s \/ i = n
      /\ \A i \in DOMAIN s : r[i] = s[i]
  BY MessageAppended
<1> HIDE DEF r, n
<1>2. e.by \in WritersIn(s)
  BY Zenon DEF BothIn
<1>3. WritersIn(r) = WritersIn(s)
  BY <1>2, WriterStays DEF r
<1>4. BeginIn(r) = BeginIn(s)
  BY <1>1, Zenon DEF BeginIn
<1>5. e.at >= BeginIn(s)
  <2>1. e.at \in Nat
    BY DEF Score
  <2>2. RecentWindow \in Nat
    BY DEF ToneAssumptions, T!TimeAssumption
  <2>3. BeginIn(s) = e.at - RecentWindow
    BY DEF BeginIn
  <2>4. QED
    BY <2>1, <2>2, <2>3
<1>6. \A i : i \in RecentIn(r) <=> i \in RecentIn(s) \/ i = n
  <2> TAKE i
  <2>1. CASE i \in DOMAIN s
    <3>1. i # n
      BY <1>1, <2>1, Zenon
    <3>2. QED
      BY <1>1, <1>4, <2>1, <3>1, Zenon DEF RecentIn
  <2>2. CASE i = n
    BY <1>1, <1>4, <1>5, <2>2, Zenon DEF RecentIn
  <2>3. CASE i \notin DOMAIN s /\ i # n
    BY <1>1, <2>3, Zenon DEF RecentIn
  <2>4. QED
    BY <2>1, <2>2, <2>3
<1>7. \A q, i : i \in OfIn(r, q) <=> i \in OfIn(s, q) \/ (i = n /\ q = e.by)
  <2> TAKE q, i
  <2>1. CASE i \in DOMAIN s
    <3>1. i # n
      BY <1>1, <2>1, Zenon
    <3>2. QED
      BY <1>1, <2>1, <3>1, Zenon DEF OfIn
  <2>2. CASE i = n
    <3>1. i \notin OfIn(s, q) /\ i \in DOMAIN r /\ r[i] = e
      BY <1>1, <2>2, Zenon DEF OfIn
    <3>2. i \in OfIn(r, q) <=> e.by = q
      BY <3>1, Zenon DEF OfIn
    <3>3. QED
      BY <2>2, <3>1, <3>2, Zenon
  <2>3. CASE i \notin DOMAIN s /\ i # n
    BY <1>1, <2>3, Zenon DEF OfIn
  <2>4. QED
    BY <2>1, <2>2, <2>3
<1>8. RecentIn(r) = RecentIn(s) \cup {n}
  <2> DEFINE a == RecentIn(r)
             b == RecentIn(s)
  <2>1. \A i : i \in a <=> i \in b \/ i = n
    BY <1>6, Zenon
  <2> HIDE DEF a, b
  <2>2. a = b \cup {n}
    BY <2>1
  <2>3. QED
    BY <2>2 DEF a, b
<1>9. ASSUME NEW q, q # e.by PROVE OfIn(r, q) = OfIn(s, q)
  <2> DEFINE a == OfIn(r, q)
             b == OfIn(s, q)
  <2>1. \A i : i \in a <=> i \in b
    BY <1>7, <1>9, Zenon
  <2> HIDE DEF a, b
  <2>2. a = b
    BY <2>1
  <2>3. QED
    BY <2>2 DEF a, b
<1>10. OfIn(r, e.by) = OfIn(s, e.by) \cup {n}
  <2> DEFINE a == OfIn(r, e.by)
             b == OfIn(s, e.by)
  <2>1. \A i : i \in a <=> i \in b \/ i = n
    BY <1>7, Zenon
  <2> HIDE DEF a, b
  <2>2. a = b \cup {n}
    BY <2>1
  <2>3. QED
    BY <2>2 DEF a, b
<1>11. n \notin OfIn(s, e.by) /\ \A q : n \notin OfIn(s, q)
  BY <1>1, Zenon DEF OfIn
<1>12. \A q : q \in BothIn(r) <=> q \in BothIn(s)
  <2> TAKE q
  <2> DEFINE A == OfIn(s, q)
             R == RecentIn(s)
             x == OfIn(r, q)
             y == RecentIn(r)
  <2>1. q \in BothIn(r) <=> q \in WritersIn(s) /\ x \cap y # {} /\ x \ y # {}
    BY <1>3, Zenon DEF BothIn
  <2>2. q \in BothIn(s) <=> q \in WritersIn(s) /\ A \cap R # {} /\ A \ R # {}
    BY Zenon DEF BothIn
  <2>3. y = R \cup {n} /\ n \notin A
    BY <1>8, <1>11, Zenon
  <2>4. CASE q # e.by
    <3>1. x = A
      BY <1>9, <2>4, Zenon
    <3> HIDE DEF A, R, x, y
    <3>2. x \cap y = A \cap R /\ x \ y = A \ R
      BY <2>3, <3>1
    <3>3. QED
      BY <2>1, <2>2, <3>2, Zenon
  <2>5. CASE q = e.by
    <3>1. x = A \cup {n}
      BY <1>10, <2>5, Zenon
    <3>2. q \in BothIn(s)
      BY <2>5, Zenon
    <3>3. q \in WritersIn(s) /\ A \cap R # {} /\ A \ R # {}
      BY <2>2, <3>2, Zenon
    <3> HIDE DEF A, R, x, y
    <3>4. x \cap y # {} /\ x \ y # {}
      BY <2>3, <3>1, <3>3
    <3>5. QED
      BY <2>1, <3>2, <3>3, <3>4, Zenon
  <2>6. QED
    BY <2>4, <2>5
<1>13. BothIn(r) = BothIn(s)
  <2> DEFINE a == BothIn(r)
             b == BothIn(s)
  <2>1. \A i : i \in a <=> i \in b
    BY <1>12, Zenon
  <2> HIDE DEF a, b
  <2>2. a = b
    BY <2>1
  <2>3. QED
    BY <2>2 DEF a, b
<1>14. QED
  BY <1>8, <1>9, <1>10, <1>13, Zenon DEF r, n

LEMMA VolumeKeepsShift ==
  ASSUME ToneAssumptions, NEW s \in Seq(Score), NEW e \in Score, e.by \in BothIn(s),
         e.at = s[Len(s)].at,
         e.score * Cardinality(OfIn(s, e.by) \cap RecentIn(s))
           = SumIn(s, OfIn(s, e.by) \cap RecentIn(s))
  PROVE  ShiftsIn(Append(s, e)) = ShiftsIn(s)
<1> DEFINE r == Append(s, e)
           n == Len(s) + 1
           B == BothIn(s)
<1>. PICK p \in B : p = e.by
  OBVIOUS
<1> DEFINE M == OfIn(s, p) \cap RecentIn(s)
           N == OfIn(s, p) \ RecentIn(s)
           K == M \cup {n}
<1>1. r \in Seq(Score) /\ r[n] = e /\ n \notin DOMAIN s /\ n \in DOMAIN r
      /\ \A i : i \in DOMAIN r <=> i \in DOMAIN s \/ i = n
  BY MessageAppended
<1>2. /\ RecentIn(r) = RecentIn(s) \cup {n} /\ OfIn(r, p) = OfIn(s, p) \cup {n}
      /\ \A q : q # p => OfIn(r, q) = OfIn(s, q)
      /\ BothIn(r) = B
  <2>1. /\ RecentIn(r) = RecentIn(s) \cup {n} /\ OfIn(r, e.by) = OfIn(s, e.by) \cup {n}
        /\ \A q : q # e.by => OfIn(r, q) = OfIn(s, q)
        /\ BothIn(r) = BothIn(s)
    BY RecentGrows, Zenon
  <2>2. QED
    BY <2>1, Zenon
<1>3. \A R \in SUBSET DOMAIN s : SumIn(r, R) = SumIn(s, R)
  BY SumStays
<1>a. \A q : n \notin OfIn(s, q)
  BY <1>1, Zenon DEF OfIn
<1>4. OfIn(r, p) \cap RecentIn(r) = K /\ OfIn(r, p) \ RecentIn(r) = N
  <2> DEFINE A == OfIn(s, p)
             R == RecentIn(s)
  <2>1. n \notin A /\ OfIn(r, p) = A \cup {n} /\ RecentIn(r) = R \cup {n}
    BY <1>2, <1>a, Zenon
  <2>2. M = A \cap R /\ N = A \ R
    OBVIOUS
  <2> HIDE DEF A, R, M, N, r, n
  <2>3. QED
    BY <2>1, <2>2
<1>5. ASSUME NEW q \in B, q # p PROVE DeltaIn(r, q) = DeltaIn(s, q)
  <2> DEFINE A == OfIn(s, q)
             R == RecentIn(s)
             F == A \cap R
             G == A \ R
  <2>1. n \notin A /\ OfIn(r, q) = A /\ RecentIn(r) = R \cup {n}
    BY <1>2, <1>5, <1>a, Zenon
  <2>2. F \in SUBSET DOMAIN s /\ G \in SUBSET DOMAIN s
    BY SampleIs
  <2>3. OfIn(r, q) \cap RecentIn(r) = F /\ OfIn(r, q) \ RecentIn(r) = G
    <3> HIDE DEF A, R, r, n
    <3>1. QED
      BY <2>1
  <2>4. DeltaIn(s, q) = Apart(s, F, G)
    BY Zenon DEF DeltaIn
  <2> HIDE DEF F, G, r
  <2>5. DeltaIn(r, q) = Apart(r, F, G)
    BY <2>3, Zenon DEF DeltaIn
  <2>6. SumIn(r, F) = SumIn(s, F) /\ SumIn(r, G) = SumIn(s, G)
    BY <1>3, <2>2
  <2>7. QED
    BY <2>4, <2>5, <2>6, Zenon DEF Apart
<1>6. /\ M \in SUBSET DOMAIN s /\ N \in SUBSET DOMAIN s /\ Cardinality(M) \in Positive
      /\ Cardinality(N) \in Positive /\ DeltaIn(s, p) = Apart(s, M, N)
  BY BothAre, Zenon DEF NewIn, OldIn
<1>7. PICK m \in Positive : m = Cardinality(M)
  BY <1>6
<1>8. PICK k \in Positive : k = Cardinality(N)
  BY <1>6
<1>9. PICK x \in Int : x = e.score
  BY DEF Score
<1>10. PICK y \in Int : y = SumIn(s, N)
  BY <1>6, ApartIs
<1>11. SumIn(s, M) = x * m
  BY <1>7, <1>9, Zenon
<1>12. Cardinality(K) = m + 1
  <2>1. n \notin M /\ IsFiniteSet(M)
    BY <1>1, <1>6, SampleIs, FS_Subset
  <2>2. QED
    BY <1>7, <2>1, FS_AddElement
<1>13. SumIn(r, K) = x * m + x
  <2>1. n \notin M /\ IsFiniteSet(M)
    BY <1>1, <1>6, SampleIs, FS_Subset
  <2>2. M \cup {n} \in SUBSET DOMAIN r
    BY <1>1, <1>6
  <2>3. \A i \in M \cup {n} : ScoredIn(r)[i] \in Int
    BY <1>1, <2>2, SampleIs
  <2>4. SumOver(ScoredIn(r), M \cup {n}) = SumOver(ScoredIn(r), M) + ScoredIn(r)[n]
    BY <2>1, <2>3, SumAdd
  <2>5. ScoredIn(r)[n] = r[n].score
    BY <1>1, SampleIs
  <2>6. ScoredIn(r)[n] = x
    BY <1>1, <1>9, <2>5, Zenon
  <2>7. SumOver(ScoredIn(r), M) = SumIn(s, M)
    BY <1>3, <1>6, Zenon DEF SumIn
  <2>8. QED
    BY <1>11, <2>4, <2>6, <2>7, Zenon DEF SumIn
<1>14. SumIn(r, N) = y
  BY <1>3, <1>6, <1>10
<1> HIDE DEF r, n, B, M, N, K
<1>15. DeltaIn(r, p) = Apart(r, K, N)
  BY <1>4, Zenon DEF DeltaIn
<1>16. DeltaIn(s, p) = <<k * (x * m) - m * y, m * k>>
  BY <1>6, <1>7, <1>8, <1>10, <1>11, Zenon DEF Apart
<1>17. DeltaIn(r, p) = <<k * (x * m + x) - (m + 1) * y, (m + 1) * k>>
  BY <1>8, <1>12, <1>13, <1>14, <1>15, Zenon DEF Apart
<1> DEFINE a1 == k * (x * m) - m * y
           a2 == m * k
           b1 == k * (x * m + x) - (m + 1) * y
           b2 == (m + 1) * k
<1>18. DeltaIn(s, p)[1] = a1 /\ DeltaIn(s, p)[2] = a2 /\ DeltaIn(r, p)[1] = b1 /\ DeltaIn(r, p)[2] = b2
  <2>1. DeltaIn(s, p) = <<a1, a2>> /\ DeltaIn(r, p) = <<b1, b2>>
    BY <1>16, <1>17, Zenon
  <2> HIDE DEF a1, a2, b1, b2
  <2>2. QED
    BY <2>1
<1>19. m * b1 = (m + 1) * a1 /\ m * b2 = (m + 1) * a2
  BY MeanStays
<1> HIDE DEF a1, a2, b1, b2
<1>20. a1 \in Int /\ a2 \in Positive /\ b1 \in Int /\ b2 \in Positive
  <2>1. DeltaIn(s, p)[1] \in Int /\ DeltaIn(s, p)[2] \in Positive
    BY BothAre DEF B
  <2>2. DeltaIn(r, p)[1] \in Int /\ DeltaIn(r, p)[2] \in Positive
    BY <1>1, <1>2, BothAre
  <2>3. QED
    BY <1>18, <2>1, <2>2, Zenon
<1>21. RoundedIn(r, p) = RoundedIn(s, p)
  <2>1. m + 1 \in Positive
    BY DEF Positive
  <2>2. RoundedOf(b1, b2) = RoundedOf(a1, a2)
    BY <1>19, <1>20, <2>1, EqualsRoundAlike
  <2>3. QED
    BY <1>18, <2>2, Zenon DEF RoundedIn
<1>22. \A q \in B : RoundedIn(r, q) = RoundedIn(s, q)
  BY <1>5, <1>21, Zenon DEF RoundedIn
<1>23. UNION {RoundedIn(r, q) : q \in B} = UNION {RoundedIn(s, q) : q \in B}
  <2>1. {RoundedIn(r, q) : q \in B} = {RoundedIn(s, q) : q \in B}
    BY <1>22
  <2>2. QED
    BY <2>1, Zenon
<1>24. DeltasIn(r) = DeltasIn(s)
  <2> DEFINE F == UNION {RoundedIn(s, q) : q \in B}
  <2>1. DeltasIn(r) = {f \in [B -> F] : \A q \in B : f[q] \in RoundedIn(r, q)}
    BY <1>2, <1>23, Zenon DEF DeltasIn
  <2>2. DeltasIn(s) = {f \in [B -> F] : \A q \in B : f[q] \in RoundedIn(s, q)}
    BY Zenon DEF DeltasIn, B
  <2> HIDE DEF F
  <2>3. QED
    BY <1>22, <2>1, <2>2
<1>25. QED
  BY <1>2, <1>24, Zenon DEF ShiftsIn, r, B

LEMMA MessageStep ==
  ASSUME Toned, ToneAssumptions, T!Next
  PROVE  \E e \in Score : /\ sample' = Append(sample, e) /\ T!Last(sample') = e
                          /\ sample \in Seq(Score)
<1>1. PICK p \in People, s \in Scores, d \in ToneSteps :
        sample' = Append(sample, [by |-> p, score |-> s, at |->
                    IF sample = <<>> THEN 0 ELSE T!Last(sample).at + d])
  BY Zenon DEF T!Next
<1> DEFINE at == IF sample = <<>> THEN 0 ELSE T!Last(sample).at + d
           e == [by |-> p, score |-> s, at |-> at]
<1>2. at \in Nat
  <2>1. CASE sample = <<>>
    BY <2>1
  <2>2. CASE sample # <<>>
    <3>1. sample[Len(sample)] \in Score
      BY <2>2 DEF Toned
    <3>2. sample[Len(sample)].at \in Nat
      BY <3>1 DEF Score
    <3>3. d \in Nat
      BY DEF ToneAssumptions, T!TimeAssumption
    <3>4. QED
      BY <2>2, <3>2, <3>3 DEF T!Last
  <2>3. QED
    BY <2>1, <2>2
<1>3. s \in Int
  BY DEF ToneAssumptions, T!ScoreAssumption
<1> HIDE DEF at
<1>4. e \in Score
  BY <1>2, <1>3 DEF Score
<1>5. sample' = Append(sample, e)
  BY <1>1, Zenon DEF at
<1> HIDE DEF e
<1>6. T!Last(sample') = e
  <2>1. Append(sample, e)[Len(Append(sample, e))] = e
    BY <1>4 DEF Toned
  <2>2. QED
    BY <1>5, <2>1, Zenon DEF T!Last
<1>7. QED
  BY <1>4, <1>5, <1>6 DEF Toned

LEMMA SilenceStep ==
  ASSUME Toned, ToneAssumptions, T!Next, NEW a \in T!Writers, NEW b \in T!Writers,
         a # b, T!Last(sample').by = a,
         \A i \in T!Of(b) : T!Quarter(i) # T!Last(sample').at \div QuarterLength
  PROVE  T!Drift' = T!Drift
<1>1. PICK e \in Score : /\ sample' = Append(sample, e) /\ T!Last(sample') = e
                         /\ sample \in Seq(Score)
  BY MessageStep
<1>2. e.by = a /\ a \in WritersIn(sample) /\ b \in WritersIn(sample)
  BY <1>1, OperatorsAre, Zenon
<1>3. \A i \in OfIn(sample, b) : QuarterIn(sample, i) # e.at \div QuarterLength
  BY <1>1, OperatorsAre, Zenon DEF T!Quarter, QuarterIn
<1>4. e.by \in WritersIn(sample) /\ e.by # b
  BY <1>2, Zenon
<1>5. DriftIn(Append(sample, e)) = DriftIn(sample)
  BY <1>1, <1>2, <1>3, <1>4, SilenceKeepsDrift
<1>6. QED
  BY <1>1, <1>5, DriftIs, DriftIsAfter, Zenon

LEMMA VolumeStep ==
  ASSUME Toned, ToneAssumptions, T!Next, NEW p \in T!Both,
         T!Last(sample').by = p, T!Last(sample').at = T!Last(sample).at,
         T!Last(sample').score * T!Cardinality(T!Of(p) \cap T!Recent) = T!Sum(T!Of(p) \cap T!Recent)
  PROVE  T!Shifts' = T!Shifts
<1>1. PICK e \in Score : /\ sample' = Append(sample, e) /\ T!Last(sample') = e
                         /\ sample \in Seq(Score)
  BY MessageStep
<1>2. e.by = p /\ e.by \in BothIn(sample)
  BY <1>1, RecentIs, Zenon
<1>3. e.at = sample[Len(sample)].at
  BY <1>1, Zenon DEF T!Last
<1>4. T!Of(p) \cap T!Recent = OfIn(sample, e.by) \cap RecentIn(sample)
  BY <1>2, OperatorsAre, RecentIs, Zenon
<1>5. \A R : T!Cardinality(R) = Cardinality(R)
  BY Zenon DEF T!Cardinality, Cardinality
<1>6. e.score * Cardinality(OfIn(sample, e.by) \cap RecentIn(sample))
        = SumIn(sample, OfIn(sample, e.by) \cap RecentIn(sample))
  BY <1>1, <1>4, <1>5, OperatorsAre, Zenon
<1>7. ShiftsIn(Append(sample, e)) = ShiftsIn(sample)
  BY <1>1, <1>2, <1>3, <1>6, VolumeKeepsShift
<1>8. QED
  BY <1>1, <1>7, ShiftsAre, ShiftsAreAfter, Zenon

LEMMA ToneInvariant ==
  ASSUME Toned, ToneAssumptions
  PROVE  T!DominantIsLargest /\ T!TurnsWhereTheyParted /\ T!ShiftHasABaseline
BY DominantsAreLargest, TurnsAreTrue, ShiftsHaveBaselines

LEMMA ToneStands ==
  ASSUME Toned, ToneAssumptions, [T!Next]_sample
  PROVE  /\ [\A a, b \in T!Writers :
              (/\ a # b /\ T!Last(sample').by = a
               /\ \A i \in T!Of(b) : T!Quarter(i) # T!Last(sample').at \div QuarterLength)
              => T!Drift' = T!Drift]_sample
         /\ [\A p \in T!Both :
              (/\ T!Last(sample').by = p /\ T!Last(sample').at = T!Last(sample).at
               /\ T!Last(sample').score * T!Cardinality(T!Of(p) \cap T!Recent)
                    = T!Sum(T!Of(p) \cap T!Recent))
              => T!Shifts' = T!Shifts]_sample
<1>1. CASE T!Next
  BY <1>1, SilenceStep, VolumeStep, Zenon
<1>2. CASE UNCHANGED sample
  BY <1>2
<1>3. QED
  BY <1>1, <1>2

---------------------------------------------------------------------------
(* Rounding and spacing *)

LEMMA RoundIs ==
  ASSUME NEW a \in Nat, NEW b \in Positive
  PROVE  /\ S!Round(a, b) \in Int
         /\ 2 * (b * S!Round(a, b)) <= 2 * a + b
         /\ 2 * a <= 2 * (b * S!Round(a, b)) + b
<1>1. PICK q \in Int, m \in 0..(b - 1) : q = a \div b /\ m = a % b /\ a = b * q + m
  BY QuotientAndRest
<1> DEFINE r == S!Round(a, b)
<1>2. r = IF 2 * m < b THEN q ELSE IF 2 * m > b THEN q + 1 ELSE q + (q % 2)
  BY <1>1, Zenon DEF S!Round
<1>3. b \in Int
  BY DEF Positive
<1>4. q % 2 \in {0, 1}
  <2>1. \A x \in Int : x % 2 \in {0, 1}
    OBVIOUS
  <2>2. QED
    BY <1>1, <2>1, Zenon
<1> HIDE DEF r
<1>5. b * q \in Int /\ b * (q + 1) = b * q + b
  BY <1>1, <1>3
<1> DEFINE p == b * q
<1>6. p \in Int /\ a = p + m
  BY <1>1, <1>5
<1>7. CASE r = q /\ 2 * m <= b
  <2>1. b * r = p
    BY <1>7
  <2>2. 2 * p <= 2 * a + b /\ 2 * a <= 2 * p + b
    <3> HIDE DEF p
    <3>1. QED
      BY <1>3, <1>6, <1>7
  <2>3. QED
    BY <1>7, <2>1, <2>2, Zenon DEF r
<1>8. CASE r = q + 1 /\ 2 * m >= b
  <2>1. b * r = p + b
    BY <1>5, <1>8
  <2>2. 2 * (p + b) <= 2 * a + b /\ 2 * a <= 2 * (p + b) + b
    <3> HIDE DEF p
    <3>1. QED
      BY <1>3, <1>6, <1>8
  <2>3. r \in Int
    BY <1>8
  <2>4. QED
    BY <2>1, <2>2, <2>3, Zenon DEF r
<1>9. (r = q /\ 2 * m <= b) \/ (r = q + 1 /\ 2 * m >= b)
  BY <1>2, <1>3, <1>4
<1>10. QED
  BY <1>7, <1>8, <1>9 DEF r

\* Numbers that lie more than one apart are rounded to different ones.
LEMMA RoundGrows ==
  ASSUME NEW a \in Nat, NEW c \in Nat, NEW b \in Positive, a + b < c
  PROVE  S!Round(a, b) < S!Round(c, b)
<1>1. PICK x \in Int : x = S!Round(a, b)
  BY RoundIs
<1>2. PICK y \in Int : y = S!Round(c, b)
  BY RoundIs
<1>3. 2 * (b * x) <= 2 * a + b /\ 2 * c <= 2 * (b * y) + b
  BY <1>1, <1>2, RoundIs
<1>4. b * x \in Int /\ b * y \in Int /\ b \in Int
  BY DEF Positive
<1>5. ~(b * y <= b * x)
  BY <1>3, <1>4
<1>6. ~(y <= x)
  BY <1>5, ScaleOrder
<1>7. QED
  BY <1>1, <1>2, <1>6

LEMMA RoundExact ==
  ASSUME NEW a \in Nat, NEW b \in Positive
  PROVE  S!Round(a * b, b) = a
<1>0. a * b \in Nat /\ b \in Int /\ b >= 1
  BY DEF Positive
<1>1. PICK x \in Int : x = S!Round(a * b, b)
  BY <1>0, RoundIs
<1>2. 2 * (b * x) <= 2 * (a * b) + b /\ 2 * (a * b) <= 2 * (b * x) + b
  BY <1>0, <1>1, RoundIs
<1>3. b * x \in Int /\ a * b = b * a /\ b * (a + 1) = b * a + b /\ b * (x + 1) = b * x + b
  BY <1>0
<1>4. ~(b * (a + 1) <= b * x) /\ ~(b * (x + 1) <= b * a)
  BY <1>0, <1>2, <1>3
<1>5. ~(a + 1 <= x) /\ ~(x + 1 <= a)
  BY <1>4, ScaleOrder
<1>6. QED
  BY <1>1, <1>5

\* Where the i-th of k messages that are spaced over n is.
Place(n, k, i) == IF k >= n THEN i
                  ELSE IF k = 1 THEN n
                  ELSE 1 + S!Round((i - 1) * (n - 1), k - 1)
Fewer(n, k) == IF k >= n THEN n ELSE k

LEMMA PlacesAre ==
  ASSUME NEW n \in Positive, NEW k \in Positive
  PROVE  /\ Fewer(n, k) \in Positive
         /\ \A i \in 1..Fewer(n, k) : Place(n, k, i) \in 1..n
         /\ \A i, j \in 1..Fewer(n, k) : i < j => Place(n, k, i) < Place(n, k, j)
         /\ Place(n, k, Fewer(n, k)) = n
<1>0. n \in Int /\ n >= 1 /\ k \in Int /\ k >= 1
  BY DEF Positive
<1>1. Fewer(n, k) \in Positive
  BY DEF Fewer
<1>2. CASE k >= n
  BY <1>0, <1>1, <1>2 DEF Place, Fewer
<1>3. CASE ~(k >= n) /\ k = 1
  <2>1. Fewer(n, k) = 1 /\ \A i : Place(n, k, i) = n
    BY <1>3, Zenon DEF Place, Fewer
  <2>2. QED
    BY <1>0, <1>1, <2>1
<1>4. CASE ~(k >= n) /\ k # 1
  <2>1. Fewer(n, k) = k /\ \A i : Place(n, k, i) = 1 + S!Round((i - 1) * (n - 1), k - 1)
    BY <1>4, Zenon DEF Place, Fewer
  <2>2. k - 1 \in Positive /\ n - 1 \in Nat /\ k - 1 < n - 1
    BY <1>0, <1>4 DEF Positive
  <2>a. k - 1 \in Nat
    BY <2>2 DEF Positive
  <2> DEFINE b == k - 1
             m == n - 1
             e(i) == S!Round((i - 1) * (n - 1), k - 1)
  <2>3. \A i \in 1..k : (i - 1) * m \in Nat
    <3>1. \A x \in Nat : x * m \in Nat
      BY <2>2
    <3>2. \A i \in 1..k : i - 1 \in Nat
      BY <1>0
    <3> HIDE DEF m
    <3>3. QED
      BY <3>1, <3>2
  <2>4. ASSUME NEW i \in 1..k, NEW j \in 1..k, i < j PROVE e(i) < e(j)
    <3>1. PICK x \in Nat : x = i - 1
      BY <1>0
    <3>2. PICK y \in Nat : y = j - 1
      BY <1>0
    <3>3. x + 1 <= y
      BY <2>4, <3>1, <3>2
    <3>4. x * m + b < y * m
      <4>1. (y - x - 1) * m \in Nat
        <5>1. y - x - 1 \in Nat /\ m \in Nat
          BY <2>2, <3>3
        <5> HIDE DEF m
        <5>2. QED
          BY <5>1
      <4>2. m \in Int /\ b < m /\ b \in Int
        BY <2>2, <1>0
      <4> HIDE DEF m, b
      <4>3. y * m = x * m + m + (y - x - 1) * m /\ x * m \in Int /\ y * m \in Int
        BY <4>2
      <4>4. QED
        BY <4>1, <4>2, <4>3
    <3>5. x * m \in Nat /\ y * m \in Nat
      BY <2>3, <3>1, <3>2
    <3>6. b \in Positive
      BY <2>2
    <3> HIDE DEF m, b
    <3>7. S!Round(x * m, b) < S!Round(y * m, b)
      BY <3>4, <3>5, <3>6, RoundGrows
    <3>8. e(i) = S!Round(x * m, b) /\ e(j) = S!Round(y * m, b)
      BY <3>1, <3>2, Zenon DEF m, b
    <3> HIDE DEF e
    <3>9. QED
      BY <3>7, <3>8, Zenon
  <2>5. e(1) = 0
    <3>1. S!Round(0 * b, b) = 0
      BY <2>2, RoundExact
    <3>2. (1 - 1) * m = 0 /\ 0 * b = 0
      BY <2>2, <2>a
    <3>3. QED
      BY <3>1, <3>2, Zenon
  <2>6. e(k) = m
    <3>1. S!Round(m * b, b) = m
      BY <2>2, RoundExact
    <3>2. (k - 1) * m = m * b
      BY <2>2, <2>a
    <3>3. QED
      BY <3>1, <3>2, Zenon
  <2>7. \A i \in 1..k : e(i) \in Int
    <3> TAKE i \in 1..k
    <3>1. (i - 1) * m \in Nat
      BY <2>3
    <3> HIDE DEF m
    <3>2. S!Round((i - 1) * m, k - 1) \in Int
      BY <2>2, <3>1, RoundIs
    <3>3. QED
      BY <3>2, Zenon DEF m
  <2>8. \A i \in 1..k : e(i) \in 0..m
    <3> TAKE i \in 1..k
    <3>1. 1 \in 1..k /\ k \in 1..k
      BY <1>0
    <3> HIDE DEF e
    <3>2. i = 1 \/ e(1) < e(i)
      BY <2>4, <3>1
    <3>3. i = k \/ e(i) < e(k)
      BY <2>4, <3>1
    <3>4. QED
      BY <2>2, <2>5, <2>6, <2>7, <3>2, <3>3
  <2>9. \A i : Place(n, k, i) = 1 + e(i)
    BY <2>1
  <2>10. k \in 1..k
    BY <1>0
  <2> HIDE DEF e
  <2>11. \A i \in 1..k : Place(n, k, i) \in 1..n
    BY <1>0, <2>8, <2>9
  <2>12. \A i, j \in 1..k : i < j => Place(n, k, i) < Place(n, k, j)
    BY <2>4, <2>7, <2>9
  <2>13. Place(n, k, k) = n
    BY <1>0, <2>6, <2>9
  <2>14. QED
    BY <1>1, <2>1, <2>11, <2>12, <2>13
<1>5. QED
  BY <1>2, <1>3, <1>4

\* A spaced sequence is that sequence at its places.
LEMMA SpacedIs ==
  ASSUME NEW R, NEW s \in Seq(R), NEW k \in Positive, Len(s) \in Positive,
         NEW r, r = S!Spaced(s, k), NEW m, m = Fewer(Len(s), k)
  PROVE  /\ Len(r) = m /\ DOMAIN r = 1..m /\ m \in Positive
         /\ \A i \in 1..m : r[i] = s[Place(Len(s), k, i)]
         /\ r \in Seq(R)
<1> DEFINE n == Len(s)
<1>0. m \in Positive /\ \A i \in 1..m : Place(n, k, i) \in 1..n
  BY PlacesAre
<1>1. n \in Int /\ n >= 1 /\ k \in Int /\ k >= 1 /\ DOMAIN s = 1..n /\ m \in Nat
  BY <1>0 DEF Positive
<1>2. r = [i \in 1..m |-> s[Place(n, k, i)]]
  <2>1. CASE k >= n
    <3>1. r = s /\ m = n /\ \A i : Place(n, k, i) = i
      BY <2>1, Zenon DEF S!Spaced, Place, Fewer
    <3>2. s = [i \in 1..n |-> s[i]]
      BY <1>1
    <3> HIDE DEF n
    <3>3. QED
      BY <3>1, <3>2, Zenon
  <2>2. CASE ~(k >= n) /\ k = 1
    <3>1. r = <<s[n]>> /\ m = 1 /\ \A i : Place(n, k, i) = n
      BY <2>2, Zenon DEF S!Spaced, Place, Fewer
    <3>2. <<s[n]>> = [i \in 1..1 |-> s[n]]
      OBVIOUS
    <3> HIDE DEF n
    <3>3. QED
      BY <3>1, <3>2, Zenon
  <2>3. CASE ~(k >= n) /\ k # 1
    <3>1. /\ r = [i \in 1..k |-> s[1 + S!Round((i - 1) * (n - 1), k - 1)]] /\ m = k
          /\ \A i : Place(n, k, i) = 1 + S!Round((i - 1) * (n - 1), k - 1)
      BY <2>3, Zenon DEF S!Spaced, Place, Fewer
    <3>2. QED
      BY <3>1, Zenon
  <2>4. QED
    BY <2>1, <2>2, <2>3
<1>3. \A i \in 1..m : s[Place(n, k, i)] \in R
  BY <1>0, <1>1
<1> HIDE DEF n
<1> DEFINE f(i) == s[Place(n, k, i)]
<1>4. r = [i \in 1..m |-> f(i)] /\ \A i \in 1..m : f(i) \in R
  BY <1>2, <1>3
<1> HIDE DEF f
<1>5. Len(r) = m /\ DOMAIN r = 1..m /\ r \in Seq(R) /\ \A i \in 1..m : r[i] = f(i)
  BY <1>1, <1>4
<1>6. QED
  BY <1>0, <1>5 DEF f, n

---------------------------------------------------------------------------
(* What is handed out in proportion *)

LEMMA RoundedUpIs ==
  ASSUME NEW X, NEW open, NEW frac, NEW leftover, X \in S!RoundedUp(open, frac, leftover)
  PROVE  /\ X \in SUBSET open /\ Cardinality(X) = Min({leftover, Cardinality(open)})
         /\ \A x \in X, y \in open \ X : frac[x] >= frac[y]
<1>1. \A R : S!Cardinality(R) = Cardinality(R)
  BY Zenon DEF S!Cardinality, Cardinality
<1>2. \A R : S!Min(R) = Min(R)
  BY Zenon DEF S!Min, Min
<1>3. /\ X \in SUBSET open /\ S!Cardinality(X) = S!Min({leftover, S!Cardinality(open)})
      /\ \A x \in X, y \in open \ X : frac[x] >= frac[y]
  BY Zenon DEF S!RoundedUp
<1>4. QED
  BY <1>1, <1>2, <1>3, Zenon

\* The share of one that has s left, when rem are handed out of all that is left.
LEMMA ShareIs ==
  ASSUME NEW s \in Nat, NEW all \in Positive, NEW rem \in Positive, rem < all
  PROVE  \E q \in Nat, m \in 0..(all - 1) :
           /\ q = (rem * s) \div all /\ m = (rem * s) % all /\ rem * s = all * q + m
           /\ q <= s /\ (s > 0 => q < s) /\ (s = 0 => q = 0 /\ m = 0)
<1>0. all \in Int /\ all >= 1 /\ rem \in Int /\ rem >= 1 /\ s \in Int
  BY DEF Positive
<1>1. PICK u \in Nat : u = rem * s
  <2>1. rem \in Nat
    BY DEF Positive
  <2>2. rem * s \in Nat
    BY <2>1
  <2>3. QED
    BY <2>2
<1>2. PICK q \in Int, m \in 0..(all - 1) : q = u \div all /\ m = u % all /\ u = all * q + m
  BY QuotientAndRest
<1>3. PICK p \in Int : p = all * q
  BY <1>0
<1>4. u = p + m
  BY <1>2, <1>3
<1>5. q >= 0
  <2>1. all * (-1) = -all /\ -1 \in Int
    BY <1>0
  <2>2. ~(p <= -all)
    BY <1>0, <1>4
  <2>3. ~(all * q <= all * (-1))
    BY <1>3, <2>1, <2>2
  <2>4. ~(q <= -1)
    BY <2>1, <2>3, ScaleOrder
  <2>5. QED
    BY <2>4
<1>6. s > 0 => q < s
  <2> SUFFICES ASSUME s > 0 PROVE q < s
    OBVIOUS
  <2>1. PICK v \in Int : v = all * s
    BY <1>0
  <2>2. u < v
    <3>1. (all - rem) * s > 0
      <4>1. all - rem \in Positive /\ s \in Positive
        BY <1>0 DEF Positive
      <4>2. (all - rem) * s \in Positive
        BY <4>1, PositiveProduct
      <4>3. QED
        BY <4>2 DEF Positive
    <3>2. (all - rem) * s = all * s - rem * s
      BY <1>0
    <3>3. v - u > 0
      BY <1>1, <2>1, <3>1, <3>2, Zenon
    <3>4. QED
      BY <3>3
  <2>3. ~(v <= p)
    BY <1>0, <1>4, <2>2
  <2>4. ~(all * s <= all * q)
    BY <1>3, <2>1, <2>3, Zenon
  <2>5. ~(s <= q)
    BY <1>0, <2>4, ScaleOrder
  <2>6. QED
    BY <1>0, <2>5
<1>7. s = 0 => q = 0 /\ m = 0
  <2> SUFFICES ASSUME s = 0 PROVE q = 0 /\ m = 0
    OBVIOUS
  <2>1. u = 0
    BY <1>0, <1>1
  <2>2. ~(all <= p)
    BY <1>0, <1>4, <2>1
  <2>3. all * 1 = all
    BY <1>0
  <2>4. ~(all * 1 <= all * q)
    BY <1>3, <2>2, <2>3, Zenon
  <2>5. ~(1 <= q)
    BY <2>4, ScaleOrder
  <2>6. q = 0
    BY <1>5, <2>5
  <2>7. p = 0
    BY <1>0, <1>3, <2>6
  <2>8. QED
    BY <1>4, <2>1, <2>6, <2>7
<1>8. q <= s
  BY <1>0, <1>6, <1>7
<1>9. q \in Nat
  BY <1>5
<1>10. QED
  BY <1>1, <1>2, <1>6, <1>7, <1>8, <1>9, Zenon

\* base, and rem more in proportion to what is left of n.
Apportioned(W, n, base, surplus, all, rem, extra, frac, open, X, alloc) ==
  /\ \A w \in W : n[w] \in Nat /\ base[w] \in Nat /\ base[w] <= n[w]
  /\ \A w \in W : surplus[w] = n[w] - base[w]
  /\ all \in Positive /\ all = SumOver(surplus, W) /\ rem \in Positive /\ rem < all
  /\ \A w \in W : extra[w] = Min({(rem * surplus[w]) \div all, surplus[w]})
  /\ \A w \in W : frac[w] = (rem * surplus[w]) % all
  /\ open = {w \in W : extra[w] < surplus[w]}
  /\ X \in S!RoundedUp(open, frac, rem - SumOver(extra, W))
  /\ \A w \in W : alloc[w] = base[w] + extra[w] + (IF w \in X THEN 1 ELSE 0)

LEMMA ExtrasAre ==
  ASSUME NEW W, NEW n, NEW base, NEW surplus, NEW all, NEW rem, NEW extra, NEW frac,
         NEW open, NEW X, NEW alloc,
         Apportioned(W, n, base, surplus, all, rem, extra, frac, open, X, alloc), NEW w \in W
  PROVE  /\ surplus[w] \in Nat /\ extra[w] \in Nat /\ frac[w] \in 0..(all - 1)
         /\ surplus[w] = n[w] - base[w]
         /\ rem * surplus[w] = all * extra[w] + frac[w]
         /\ extra[w] <= surplus[w]
         /\ w \in open <=> surplus[w] > 0
         /\ w \in open <=> extra[w] < surplus[w]
         /\ w \notin open => frac[w] = 0 /\ extra[w] = 0
<1>1. PICK s \in Nat : s = surplus[w] /\ s = n[w] - base[w]
  <2>1. n[w] \in Nat /\ base[w] \in Nat /\ base[w] <= n[w] /\ surplus[w] = n[w] - base[w]
    BY Zenon DEF Apportioned
  <2>2. QED
    BY <2>1
<1>2. all \in Positive /\ rem \in Positive /\ rem < all
  BY Zenon DEF Apportioned
<1>3. PICK q \in Nat, m \in 0..(all - 1) :
           /\ q = (rem * s) \div all /\ m = (rem * s) % all /\ rem * s = all * q + m
           /\ q <= s /\ (s > 0 => q < s) /\ (s = 0 => q = 0 /\ m = 0)
  BY <1>2, ShareIs
<1>4. extra[w] = Min({(rem * surplus[w]) \div all, surplus[w]}) /\ frac[w] = (rem * surplus[w]) % all
  BY Zenon DEF Apportioned
<1>5. extra[w] = Min({q, s}) /\ frac[w] = m
  BY <1>1, <1>3, <1>4, Zenon
<1>6. Min({q, s}) = q
  <2>1. Min({q, s}) = IF q <= s THEN q ELSE s
    <3>1. q \in Int /\ s \in Int
      OBVIOUS
    <3>2. QED
      BY <3>1, MinOfTwo
  <2>2. QED
    BY <1>3, <2>1, Zenon
<1>7. extra[w] = q
  BY <1>5, <1>6, Zenon
<1>8. w \in open <=> q < s
  <2>1. w \in open <=> extra[w] < surplus[w]
    BY Zenon DEF Apportioned
  <2>2. QED
    BY <1>1, <1>7, <2>1, Zenon
<1>9. w \in open <=> s > 0
  <2>1. s = 0 \/ s > 0
    OBVIOUS
  <2>2. s = 0 => ~(q < s)
    BY <1>3
  <2>3. QED
    BY <1>3, <1>8, <2>1, <2>2
<1>10. w \notin open => m = 0 /\ q = 0
  BY <1>3, <1>9
<1>11. QED
  BY <1>1, <1>3, <1>5, <1>7, <1>8, <1>9, <1>10, Zenon

LEMMA LeftoverIs ==
  ASSUME NEW W, IsFiniteSet(W), NEW n, NEW base, NEW surplus, NEW all, NEW rem, NEW extra, NEW frac,
         NEW open, NEW X, NEW alloc,
         Apportioned(W, n, base, surplus, all, rem, extra, frac, open, X, alloc)
  PROVE  /\ SumOver(extra, W) \in Int
         /\ X \in SUBSET open /\ open \in SUBSET W
         /\ SumOver(extra, W) + Cardinality(X) = rem /\ Cardinality(X) \in Nat
<1>0. all \in Positive /\ rem \in Positive /\ all \in Int /\ all >= 1 /\ rem \in Int
  <2>1. all \in Positive /\ rem \in Positive
    BY Zenon DEF Apportioned
  <2>2. QED
    BY <2>1 DEF Positive
<1>1. \A w \in W : /\ surplus[w] \in Nat /\ extra[w] \in Nat /\ frac[w] \in 0..(all - 1)
                   /\ rem * surplus[w] = all * extra[w] + frac[w]
                   /\ w \notin open => frac[w] = 0
  BY ExtrasAre
<1>2. open \in SUBSET W /\ IsFiniteSet(open)
  <2>1. open \in SUBSET W
    BY Zenon DEF Apportioned
  <2>2. QED
    BY <2>1, FS_Subset
<1>3. PICK e \in Int : e = SumOver(extra, W)
  BY <1>1, SumType
<1>4. PICK f \in Int : f = SumOver(frac, W)
  BY <1>1, SumType
<1>5. rem * all = all * e + f
  <2> DEFINE share == [w \in W |-> rem * surplus[w]]
             part == [w \in W |-> all * extra[w]]
  <2>1. \A w \in W : share[w] = rem * surplus[w] /\ surplus[w] \in Int
    BY <1>1
  <2>2. \A w \in W : part[w] = all * extra[w] /\ extra[w] \in Int
    BY <1>1
  <2>3. \A w \in W : part[w] \in Int
    <3>1. \A x \in Int : all * x \in Int
      BY <1>0
    <3> HIDE DEF part
    <3>2. QED
      BY <2>2, <3>1
  <2> HIDE DEF share, part
  <2>4. SumOver(share, W) = rem * SumOver(surplus, W)
    BY <1>0, <2>1, SumScale
  <2>5. SumOver(part, W) = all * SumOver(extra, W)
    BY <1>0, <2>2, SumScale
  <2>6. \A w \in W : part[w] \in Int /\ frac[w] \in Int /\ share[w] = part[w] + frac[w]
    <3> TAKE w \in W
    <3>1. rem * surplus[w] = all * extra[w] + frac[w]
      BY <1>1
    <3>2. share[w] = part[w] + frac[w]
      BY <2>1, <2>2, <3>1, Zenon
    <3>3. QED
      BY <1>1, <2>3, <3>2
  <2>7. SumOver(share, W) = SumOver(part, W) + SumOver(frac, W)
    BY <2>6, SumPlus
  <2>8. all = SumOver(surplus, W)
    BY Zenon DEF Apportioned
  <2>9. QED
    BY <1>3, <1>4, <2>4, <2>5, <2>7, <2>8, Zenon
<1>6. PICK c \in Nat : c = Cardinality(open)
  BY <1>2, FS_CardinalityType
<1>7. f \in 0..((all - 1) * c)
  <2>1. IsFiniteSet(W \ open) /\ open \cup (W \ open) = W /\ open \cap (W \ open) = {}
    BY <1>2, FS_Subset
  <2>2. \A w \in open \cup (W \ open) : frac[w] \in Int
    BY <1>1, <2>1
  <2>3. SumOver(frac, open \cup (W \ open)) = SumOver(frac, open) + SumOver(frac, W \ open)
    BY <1>2, <2>1, <2>2, SumUnion
  <2>4. SumOver(frac, W \ open) = 0
    BY <1>1, <2>1, SumZero
  <2>5. SumOver(frac, open) \in 0..((all - 1) * Cardinality(open))
    <3>1. all - 1 \in Nat /\ \A w \in open : frac[w] \in 0..(all - 1)
      BY <1>0, <1>1, <1>2
    <3>2. QED
      BY <1>2, <3>1, SumBounds
  <2>6. SumOver(frac, open) \in Int
    BY <1>1, <1>2, SumType
  <2>7. f = SumOver(frac, open)
    <3>1. SumOver(frac, W) = SumOver(frac, open) + SumOver(frac, W \ open)
      BY <2>1, <2>3, Zenon
    <3>2. QED
      BY <1>4, <2>4, <2>6, <3>1
  <2>8. QED
    BY <1>6, <2>5, <2>7, Zenon
<1> DEFINE lo == rem - e
<1>8. all * lo = f /\ lo \in Int
  <2>1. all * lo = rem * all - all * e
    BY <1>0
  <2>2. PICK a \in Int : a = all * e
    BY <1>0
  <2>3. rem * all = a + f
    BY <1>5, <2>2, Zenon
  <2>4. all * lo = (a + f) - a
    BY <2>1, <2>2, <2>3, Zenon
  <2>5. (a + f) - a = f /\ lo \in Int
    BY <1>0
  <2>6. QED
    BY <2>4, <2>5, Zenon
<1> HIDE DEF lo
<1>9. lo >= 0 /\ lo <= c
  <2>1. all * 0 = 0 /\ (all - 1) * c = all * c - c /\ all * c \in Int
    BY <1>0
  <2>2. PICK a \in Int : a = all * c
    BY <2>1
  <2>3. (all - 1) * c = a - c
    BY <2>1, <2>2, Zenon
  <2>4. f \in 0..(a - c)
    BY <1>7, <2>3, Zenon
  <2>5. 0 <= f /\ f <= a
    BY <2>4
  <2>6. all * 0 <= all * lo /\ all * lo <= all * c
    BY <1>8, <2>1, <2>2, <2>5, Zenon
  <2>7. 0 \in Int /\ c \in Int
    OBVIOUS
  <2>a. \A i, j \in Int : all * i <= all * j <=> i <= j
    BY <1>0, ScaleOrder
  <2>8. 0 <= lo /\ lo <= c
    BY <1>8, <2>6, <2>7, <2>a, Zenon
  <2>9. QED
    BY <1>8, <2>8
<1>10. X \in S!RoundedUp(open, frac, rem - SumOver(extra, W))
  BY Zenon DEF Apportioned
<1>11. X \in SUBSET open /\ Cardinality(X) = Min({lo, c})
  <2>1. X \in S!RoundedUp(open, frac, lo)
    BY <1>3, <1>10, Zenon DEF lo
  <2>2. X \in SUBSET open /\ Cardinality(X) = Min({lo, Cardinality(open)})
    BY <2>1, RoundedUpIs
  <2>3. QED
    BY <1>6, <2>2, Zenon
<1>12. Min({lo, c}) = lo
  <2>1. Min({lo, c}) = IF lo <= c THEN lo ELSE c
    BY <1>8, MinOfTwo
  <2>2. QED
    BY <1>9, <2>1
<1>13. Cardinality(X) = lo
  BY <1>11, <1>12, Zenon
<1>14. e + lo = rem
  BY <1>0 DEF lo
<1>15. QED
  BY <1>2, <1>3, <1>8, <1>9, <1>11, <1>13, <1>14

\* All of rem is handed out, and to no one more than there is.
LEMMA AllIsHandedOut ==
  ASSUME NEW W, IsFiniteSet(W), NEW n, NEW base, NEW surplus, NEW all, NEW rem, NEW extra, NEW frac,
         NEW open, NEW X, NEW alloc,
         Apportioned(W, n, base, surplus, all, rem, extra, frac, open, X, alloc)
  PROVE  /\ \A w \in W : alloc[w] \in Nat /\ base[w] <= alloc[w] /\ alloc[w] <= n[w]
         /\ SumOver(alloc, W) = SumOver(base, W) + rem
<1>1. \A w \in W : n[w] \in Nat /\ base[w] \in Nat /\ base[w] <= n[w]
  BY Zenon DEF Apportioned
<1>2. X \in SUBSET open /\ open \in SUBSET W
  BY LeftoverIs
<1>3. ASSUME NEW w \in W PROVE alloc[w] \in Nat /\ base[w] <= alloc[w] /\ alloc[w] <= n[w]
  <2>1. alloc[w] = base[w] + extra[w] + (IF w \in X THEN 1 ELSE 0)
    BY Zenon DEF Apportioned
  <2>2. /\ extra[w] \in Nat /\ surplus[w] \in Nat /\ surplus[w] = n[w] - base[w]
        /\ extra[w] <= surplus[w] /\ (w \in open <=> extra[w] < surplus[w])
    BY ExtrasAre
  <2>3. w \in X => extra[w] < surplus[w]
    BY <1>2, <2>2
  <2>4. QED
    BY <1>1, <2>1, <2>2, <2>3
<1>4. SumOver(alloc, W) = SumOver(base, W) + rem
  <2> DEFINE one == [w \in W |-> IF w \in X THEN 1 ELSE 0]
             more == [w \in W |-> extra[w] + one[w]]
  <2>1. \A w \in W : extra[w] \in Int
    BY ExtrasAre
  <2>2. (\A w \in X : one[w] = 1) /\ (\A w \in W \ X : one[w] = 0) /\ X \in SUBSET W
    BY <1>2
  <2>3. \A w \in W : one[w] \in Int
    OBVIOUS
  <2>4. \A w \in W : alloc[w] = base[w] + extra[w] + one[w]
    <3>1. \A w \in W : alloc[w] = base[w] + extra[w] + (IF w \in X THEN 1 ELSE 0)
      BY Zenon DEF Apportioned
    <3>2. QED
      BY <3>1
  <2> HIDE DEF one
  <2>5. \A w \in W : extra[w] \in Int /\ one[w] \in Int /\ more[w] = extra[w] + one[w]
    BY <2>1, <2>3
  <2> HIDE DEF more
  <2>6. SumOver(one, W) = Cardinality(X)
    BY <2>2, SumCounts
  <2>7. SumOver(more, W) = SumOver(extra, W) + SumOver(one, W)
    BY <2>5, SumPlus
  <2>8. SumOver(more, W) = rem
    <3>1. SumOver(extra, W) + Cardinality(X) = rem
      BY LeftoverIs
    <3>2. QED
      BY <2>6, <2>7, <3>1, Zenon
  <2>9. \A w \in W : base[w] \in Int /\ more[w] \in Int /\ alloc[w] = base[w] + more[w]
    BY <1>1, <2>4, <2>5
  <2>10. SumOver(alloc, W) = SumOver(base, W) + SumOver(more, W)
    BY <2>9, SumPlus
  <2>11. QED
    BY <2>8, <2>10, Zenon
<1>5. QED
  BY <1>3, <1>4

\* Who has more left, and no smaller a base, gets no less.
LEMMA MoreGetMore ==
  ASSUME NEW W, IsFiniteSet(W), NEW n, NEW base, NEW surplus, NEW all, NEW rem, NEW extra, NEW frac,
         NEW open, NEW X, NEW alloc,
         Apportioned(W, n, base, surplus, all, rem, extra, frac, open, X, alloc),
         NEW v \in W, NEW w \in W, base[v] <= base[w], surplus[v] <= surplus[w],
         surplus[v] > 0 => surplus[v] < surplus[w]
  PROVE  alloc[v] <= alloc[w]
<1>0. all \in Positive /\ rem \in Positive /\ all \in Int /\ all >= 1 /\ rem \in Int
  <2>1. all \in Positive /\ rem \in Positive
    BY Zenon DEF Apportioned
  <2>2. QED
    BY <2>1 DEF Positive
<1>1. PICK s \in Nat, q \in Nat, f \in 0..(all - 1) :
        /\ s = surplus[v] /\ q = extra[v] /\ f = frac[v] /\ rem * s = all * q + f
        /\ (v \in open <=> s > 0)
  <2>1. /\ surplus[v] \in Nat /\ extra[v] \in Nat /\ frac[v] \in 0..(all - 1)
        /\ rem * surplus[v] = all * extra[v] + frac[v] /\ (v \in open <=> surplus[v] > 0)
    BY ExtrasAre
  <2>2. QED
    BY <2>1, Zenon
<1>2. PICK t \in Nat, p \in Nat, g \in 0..(all - 1) :
        /\ t = surplus[w] /\ p = extra[w] /\ g = frac[w] /\ rem * t = all * p + g
        /\ (w \in open <=> t > 0)
  <2>1. /\ surplus[w] \in Nat /\ extra[w] \in Nat /\ frac[w] \in 0..(all - 1)
        /\ rem * surplus[w] = all * extra[w] + frac[w] /\ (w \in open <=> surplus[w] > 0)
    BY ExtrasAre
  <2>2. QED
    BY <2>1, Zenon
<1>3. s <= t /\ (s > 0 => s < t)
  BY <1>1, <1>2, Zenon
<1>4. PICK a \in Int, b \in Int : a = all * q /\ b = all * p
  BY <1>0
<1>5. PICK x \in Int, y \in Int : x = rem * s /\ y = rem * t
  BY <1>0
<1>6. x = a + f /\ y = b + g
  BY <1>1, <1>2, <1>4, <1>5, Zenon
<1>7. x <= y /\ (s > 0 => x < y)
  <2>a. \A i, j \in Int : rem * i <= rem * j <=> i <= j
    BY <1>0, ScaleOrder
  <2>b. s \in Int /\ t \in Int
    OBVIOUS
  <2>1. rem * s <= rem * t <=> s <= t
    BY <2>a, <2>b, Zenon
  <2>2. rem * t <= rem * s <=> t <= s
    BY <2>a, <2>b, Zenon
  <2>3. x <= y /\ (y <= x <=> t <= s)
    BY <1>3, <1>5, <2>1, <2>2, Zenon
  <2>4. QED
    BY <1>3, <2>3
<1>8. q <= p
  <2> SUFFICES ASSUME ~(q <= p) PROVE FALSE
    OBVIOUS
  <2>1. p + 1 <= q
    OBVIOUS
  <2>a. \A i, j \in Int : all * i <= all * j <=> i <= j
    BY <1>0, ScaleOrder
  <2>b. p + 1 \in Int /\ q \in Int
    OBVIOUS
  <2>2. all * (p + 1) <= all * q
    BY <2>1, <2>a, <2>b, Zenon
  <2>3. all * (p + 1) = all * p + all
    BY <1>0
  <2>4. b + all <= a
    BY <1>4, <2>2, <2>3, Zenon
  <2>5. QED
    BY <1>0, <1>6, <1>7, <2>4
<1>9. X \in SUBSET open /\ \A i \in X, j \in open \ X : frac[i] >= frac[j]
  <2> DEFINE lo == rem - SumOver(extra, W)
  <2>1. X \in S!RoundedUp(open, frac, lo)
    BY Zenon DEF Apportioned
  <2> HIDE DEF lo
  <2>2. QED
    BY <2>1, RoundedUpIs
<1>10. /\ alloc[v] = base[v] + q + (IF v \in X THEN 1 ELSE 0)
       /\ alloc[w] = base[w] + p + (IF w \in X THEN 1 ELSE 0)
       /\ base[v] \in Nat /\ base[w] \in Nat
  <2>1. /\ alloc[v] = base[v] + extra[v] + (IF v \in X THEN 1 ELSE 0)
        /\ alloc[w] = base[w] + extra[w] + (IF w \in X THEN 1 ELSE 0)
        /\ base[v] \in Nat /\ base[w] \in Nat
    BY Zenon DEF Apportioned
  <2>2. QED
    BY <1>1, <1>2, <2>1, Zenon
<1>11. v \in X /\ w \notin X => q < p
  <2> SUFFICES ASSUME v \in X, w \notin X, ~(q < p) PROVE FALSE
    OBVIOUS
  <2>1. q = p
    BY <1>8
  <2>2. a = b
    BY <1>4, <2>1, Zenon
  <2>3. v \in open
    BY <1>9
  <2>4. s > 0 /\ s < t
    BY <1>1, <1>3, <2>3
  <2>5. w \in open
    BY <1>2, <2>4
  <2>6. frac[v] >= frac[w]
    BY <1>9, <2>5
  <2>7. f >= g
    BY <1>1, <1>2, <2>6, Zenon
  <2>8. x < y
    BY <1>7, <2>4
  <2>9. QED
    BY <1>6, <2>2, <2>7, <2>8
<1>12. QED
  BY <1>8, <1>10, <1>11

---------------------------------------------------------------------------
(* The allocations of max messages to weeks W of n messages *)

Floors(W, n, f) == [w \in W |-> Min({f, n[w]})]
FloorFor(W, n, max) == IF SumOver(Floors(W, n, MinPerWeek), W) > max
                       THEN Max({1, max \div Cardinality(W)}) ELSE MinPerWeek
BaseOf(W, n, max) == Floors(W, n, FloorFor(W, n, max))
LeftOf(W, n, max) == [w \in W |-> n[w] - BaseOf(W, n, max)[w]]
RestOf(W, n, max) == max - SumOver(BaseOf(W, n, max), W)
AllLeft(W, n, max) == SumOver(LeftOf(W, n, max), W)
PartOf(W, n, max) == [w \in W |-> (RestOf(W, n, max) * LeftOf(W, n, max)[w]) % AllLeft(W, n, max)]
ExtraOf(W, n, max) ==
  [w \in W |-> Min({(RestOf(W, n, max) * LeftOf(W, n, max)[w]) \div AllLeft(W, n, max),
                    LeftOf(W, n, max)[w]})]
OpenOf(W, n, max) == {w \in W : ExtraOf(W, n, max)[w] < LeftOf(W, n, max)[w]}
RaisedOf(W, n, max) == S!RoundedUp(OpenOf(W, n, max), PartOf(W, n, max),
                                   RestOf(W, n, max) - SumOver(ExtraOf(W, n, max), W))
With(W, n, max, X) == [w \in W |-> BaseOf(W, n, max)[w] + ExtraOf(W, n, max)[w]
                                   + (IF w \in X THEN 1 ELSE 0)]
AllocationsOf(W, n, max) ==
  IF RestOf(W, n, max) <= 0 \/ AllLeft(W, n, max) = 0 THEN {BaseOf(W, n, max)}
  ELSE {With(W, n, max, X) : X \in RaisedOf(W, n, max)}

SizesS == [w \in S!Weeks |-> S!Size(w)]

LEMMA AllocationsAreS ==
  ASSUME NEW max
  PROVE  S!Allocations(max) = AllocationsOf(S!Weeks, SizesS, max)
<1> DEFINE W == S!Weeks
           n == SizesS
           base == S!Floored(S!Floor(max))
           remaining == max - S!Total(base)
           surplus == [w \in W |-> S!Size(w) - base[w]]
           all == S!Total(surplus)
           share(w) == remaining * surplus[w]
           frac == [w \in W |-> share(w) % all]
           extra == [w \in W |-> S!Min({share(w) \div all, surplus[w]})]
           open == {w \in W : extra[w] < surplus[w]}
           total == S!Total(extra)
<1>1. \A f : S!Floored(f) = Floors(W, n, f)
  <2>1. \A R : S!Min(R) = Min(R)
    BY Zenon DEF S!Min, Min
  <2>2. \A w \in W : n[w] = S!Size(w)
    BY Zenon DEF SizesS
  <2>3. QED
    BY <2>1, <2>2, Zenon DEF Floors, S!Floored
<1>2. \A f : DOMAIN f = W => S!Total(f) = SumOver(f, W)
  BY Zenon DEF S!Total, SumOver, S!MapThenSumSet, MapThenSumSet, S!MapThenFoldSet, MapThenFoldSet
<1>3. \A f : DOMAIN Floors(W, n, f) = W
  BY Zenon DEF Floors
<1>4. S!Floor(max) = FloorFor(W, n, max)
  <2>1. \A R : S!Max(R) = Max(R)
    BY Zenon DEF S!Max, Max
  <2>2. \A R : S!Cardinality(R) = Cardinality(R)
    BY Zenon DEF S!Cardinality, Cardinality
  <2>3. S!Total(S!Floored(MinPerWeek)) = SumOver(Floors(W, n, MinPerWeek), W)
    BY <1>1, <1>2, <1>3, Zenon
  <2>4. QED
    BY <2>1, <2>2, <2>3, Zenon DEF S!Floor, FloorFor
<1>5. base = BaseOf(W, n, max)
  BY <1>1, <1>4, Zenon DEF BaseOf
<1>6. remaining = RestOf(W, n, max)
  BY <1>2, <1>3, <1>5, Zenon DEF RestOf, BaseOf
<1> HIDE DEF base, remaining
<1>7. surplus = LeftOf(W, n, max)
  BY <1>5, Zenon DEF LeftOf, SizesS
<1>8. all = AllLeft(W, n, max)
  <2>1. DOMAIN surplus = W
    BY Zenon
  <2> HIDE DEF surplus, W
  <2>2. QED
    BY <1>2, <1>7, <2>1, Zenon DEF AllLeft
<1> HIDE DEF surplus, all
<1>9. frac = PartOf(W, n, max)
  BY <1>6, <1>7, <1>8, Zenon DEF PartOf
<1>10. extra = ExtraOf(W, n, max)
  <2>1. \A R : S!Min(R) = Min(R)
    BY Zenon DEF S!Min, Min
  <2>2. QED
    BY <1>6, <1>7, <1>8, <2>1, Zenon DEF ExtraOf
<1>11. total = SumOver(ExtraOf(W, n, max), W)
  <2>1. DOMAIN extra = W
    BY Zenon
  <2> HIDE DEF extra, W
  <2>2. QED
    BY <1>2, <1>10, <2>1, Zenon
<1> HIDE DEF frac, extra, total
<1>12. open = OpenOf(W, n, max)
  BY <1>7, <1>10, Zenon DEF OpenOf
<1> HIDE DEF open
<1>13. S!Allocations(max)
         = IF remaining <= 0 \/ all = 0 THEN {base}
           ELSE {[w \in W |-> base[w] + extra[w] + (IF w \in X THEN 1 ELSE 0)] :
                   X \in S!RoundedUp(open, frac, remaining - total)}
  BY Zenon DEF S!Allocations, base, remaining, surplus, all, frac, extra, open, total
<1> HIDE DEF W, n
<1>14. S!RoundedUp(open, frac, remaining - total) = RaisedOf(W, n, max)
  BY <1>6, <1>9, <1>11, <1>12, Zenon DEF RaisedOf
<1>15. \A X : [w \in W |-> base[w] + extra[w] + (IF w \in X THEN 1 ELSE 0)] = With(W, n, max, X)
  BY <1>5, <1>10, Zenon DEF With
<1> DEFINE A == S!RoundedUp(open, frac, remaining - total)
           g(X) == [w \in W |-> base[w] + extra[w] + (IF w \in X THEN 1 ELSE 0)]
<1>16. {g(X) : X \in A} = {With(W, n, max, X) : X \in RaisedOf(W, n, max)}
  <2>1. A = RaisedOf(W, n, max) /\ \A X : g(X) = With(W, n, max, X)
    BY <1>14, <1>15, Zenon
  <2> HIDE DEF A, g
  <2>2. QED
    BY <2>1
<1>17. S!Allocations(max) = AllocationsOf(W, n, max)
  BY <1>5, <1>6, <1>8, <1>13, <1>16, Zenon DEF AllocationsOf
<1>18. QED
  BY <1>17, Zenon DEF W, n

---------------------------------------------------------------------------
LEMMA SameRounding ==
  \A open, frac, leftover : U!RoundedUp(open, frac, leftover) = S!RoundedUp(open, frac, leftover)
<1>1. \A R : U!Cardinality(R) = S!Cardinality(R)
  BY Zenon DEF S!Cardinality, U!Cardinality
<1>2. \A R : U!Min(R) = S!Min(R)
  BY Zenon DEF S!Min, U!Min
<1>3. QED
  BY <1>1, <1>2, Zenon DEF S!RoundedUp, U!RoundedUp

SizesU == [w \in U!Weeks |-> U!Size(w)]

LEMMA AllocationsAreU ==
  ASSUME NEW max
  PROVE  U!Allocations(max) = AllocationsOf(U!Weeks, SizesU, max)
<1> DEFINE W == U!Weeks
           n == SizesU
           base == U!Floored(U!Floor(max))
           remaining == max - U!Total(base)
           surplus == [w \in W |-> U!Size(w) - base[w]]
           all == U!Total(surplus)
           share(w) == remaining * surplus[w]
           frac == [w \in W |-> share(w) % all]
           extra == [w \in W |-> U!Min({share(w) \div all, surplus[w]})]
           open == {w \in W : extra[w] < surplus[w]}
           total == U!Total(extra)
<1>1. \A f : U!Floored(f) = Floors(W, n, f)
  <2>1. \A R : U!Min(R) = Min(R)
    BY Zenon DEF U!Min, Min
  <2>2. \A w \in W : n[w] = U!Size(w)
    BY Zenon DEF SizesU
  <2>3. QED
    BY <2>1, <2>2, Zenon DEF Floors, U!Floored
<1>2. \A f : DOMAIN f = W => U!Total(f) = SumOver(f, W)
  BY Zenon DEF U!Total, SumOver, U!MapThenSumSet, MapThenSumSet, U!MapThenFoldSet, MapThenFoldSet
<1>3. \A f : DOMAIN Floors(W, n, f) = W
  BY Zenon DEF Floors
<1>4. U!Floor(max) = FloorFor(W, n, max)
  <2>1. \A R : U!Max(R) = Max(R)
    BY Zenon DEF U!Max, Max
  <2>2. \A R : U!Cardinality(R) = Cardinality(R)
    BY Zenon DEF U!Cardinality, Cardinality
  <2>3. U!Total(U!Floored(MinPerWeek)) = SumOver(Floors(W, n, MinPerWeek), W)
    BY <1>1, <1>2, <1>3, Zenon
  <2>4. QED
    BY <2>1, <2>2, <2>3, Zenon DEF U!Floor, FloorFor
<1>5. base = BaseOf(W, n, max)
  BY <1>1, <1>4, Zenon DEF BaseOf
<1>6. remaining = RestOf(W, n, max)
  BY <1>2, <1>3, <1>5, Zenon DEF RestOf, BaseOf
<1> HIDE DEF base, remaining
<1>7. surplus = LeftOf(W, n, max)
  BY <1>5, Zenon DEF LeftOf, SizesU
<1>8. all = AllLeft(W, n, max)
  <2>1. DOMAIN surplus = W
    BY Zenon
  <2> HIDE DEF surplus, W
  <2>2. QED
    BY <1>2, <1>7, <2>1, Zenon DEF AllLeft
<1> HIDE DEF surplus, all
<1>9. frac = PartOf(W, n, max)
  BY <1>6, <1>7, <1>8, Zenon DEF PartOf
<1>10. extra = ExtraOf(W, n, max)
  <2>1. \A R : U!Min(R) = Min(R)
    BY Zenon DEF U!Min, Min
  <2>2. QED
    BY <1>6, <1>7, <1>8, <2>1, Zenon DEF ExtraOf
<1>11. total = SumOver(ExtraOf(W, n, max), W)
  <2>1. DOMAIN extra = W
    BY Zenon
  <2> HIDE DEF extra, W
  <2>2. QED
    BY <1>2, <1>10, <2>1, Zenon
<1> HIDE DEF frac, extra, total
<1>12. open = OpenOf(W, n, max)
  BY <1>7, <1>10, Zenon DEF OpenOf
<1> HIDE DEF open
<1>13. U!Allocations(max)
         = IF remaining <= 0 \/ all = 0 THEN {base}
           ELSE {[w \in W |-> base[w] + extra[w] + (IF w \in X THEN 1 ELSE 0)] :
                   X \in U!RoundedUp(open, frac, remaining - total)}
  BY Zenon DEF U!Allocations, base, remaining, surplus, all, frac, extra, open, total
<1> HIDE DEF W, n
<1>14. U!RoundedUp(open, frac, remaining - total) = RaisedOf(W, n, max)
  BY <1>6, <1>9, <1>11, <1>12, SameRounding, Zenon DEF RaisedOf
<1>15. \A X : [w \in W |-> base[w] + extra[w] + (IF w \in X THEN 1 ELSE 0)] = With(W, n, max, X)
  BY <1>5, <1>10, Zenon DEF With
<1> DEFINE A == U!RoundedUp(open, frac, remaining - total)
           g(X) == [w \in W |-> base[w] + extra[w] + (IF w \in X THEN 1 ELSE 0)]
<1>16. {g(X) : X \in A} = {With(W, n, max, X) : X \in RaisedOf(W, n, max)}
  <2>1. A = RaisedOf(W, n, max) /\ \A X : g(X) = With(W, n, max, X)
    BY <1>14, <1>15, Zenon
  <2> HIDE DEF A, g
  <2>2. QED
    BY <2>1
<1>17. U!Allocations(max) = AllocationsOf(W, n, max)
  BY <1>5, <1>6, <1>8, <1>13, <1>16, Zenon DEF AllocationsOf
<1>18. QED
  BY <1>17, Zenon DEF W, n

---------------------------------------------------------------------------
(* What an allocation is worth *)

LEMMA FloorsAre ==
  ASSUME NEW W, IsFiniteSet(W), NEW n, \A w \in W : n[w] \in Positive, NEW f \in Positive
  PROVE  /\ \A w \in W : /\ Floors(W, n, f)[w] \in 1..n[w] /\ Floors(W, n, f)[w] \in 1..f
                         /\ (Floors(W, n, f)[w] = n[w] \/ Floors(W, n, f)[w] = f)
         /\ SumOver(Floors(W, n, f), W) \in 0..(f * Cardinality(W))
<1>0. f \in Nat /\ f >= 1
  BY DEF Positive
<1>1. ASSUME NEW w \in W
      PROVE  /\ Floors(W, n, f)[w] \in 1..n[w] /\ Floors(W, n, f)[w] \in 1..f
             /\ (Floors(W, n, f)[w] = n[w] \/ Floors(W, n, f)[w] = f)
  <2>1. PICK m \in Positive : m = n[w]
    OBVIOUS
  <2>2. Floors(W, n, f)[w] = Min({f, m})
    BY <2>1, Zenon DEF Floors
  <2>3. Min({f, m}) = IF f <= m THEN f ELSE m
    BY <1>0, MinOfTwo DEF Positive
  <2>4. QED
    BY <1>0, <2>1, <2>2, <2>3 DEF Positive
<1>2. \A w \in W : Floors(W, n, f)[w] \in 0..f
  BY <1>0, <1>1
<1>3. SumOver(Floors(W, n, f), W) \in 0..(f * Cardinality(W))
  BY <1>0, <1>2, SumBounds
<1>4. QED
  BY <1>1, <1>3

---------------------------------------------------------------------------
LEMMA FloorForIs ==
  ASSUME NEW W, IsFiniteSet(W), W # {}, NEW n, \A w \in W : n[w] \in Positive,
         NEW max \in Positive, MinPerWeek \in Positive, NEW f, f = FloorFor(W, n, max)
  PROVE  /\ f \in Positive /\ Cardinality(W) \in Positive
         /\ Cardinality(W) <= max => SumOver(Floors(W, n, f), W) <= max
         /\ Cardinality(W) <= max => f = MinPerWeek \/ f = max \div Cardinality(W)
<1>0. max \in Int /\ max >= 1
  BY DEF Positive
<1>1. PICK k \in Positive : k = Cardinality(W)
  <2>1. Cardinality(W) \in Nat /\ Cardinality(W) # 0
    BY FS_CardinalityType, FS_EmptySet
  <2>2. QED
    BY <2>1 DEF Positive
<1>2. k \in Int /\ k >= 1
  BY DEF Positive
<1>3. PICK q \in Int, m \in 0..(k - 1) : q = max \div k /\ m = max % k /\ max = k * q + m
  BY <1>0, QuotientAndRest
<1>4. PICK p \in Int : p = k * q
  BY <1>2
<1>5. max = p + m
  BY <1>3, <1>4, Zenon
<1>6. k <= max => q >= 1
  <2> SUFFICES ASSUME k <= max, ~(q >= 1) PROVE FALSE
    OBVIOUS
  <2>1. q <= 0
    OBVIOUS
  <2>a. \A i, j \in Int : k * i <= k * j <=> i <= j
    BY ScaleOrder
  <2>2. k * q <= k * 0
    BY <2>1, <2>a
  <2>3. k * 0 = 0
    BY <1>2
  <2>4. p <= 0
    BY <1>4, <2>2, <2>3, Zenon
  <2>5. QED
    BY <1>2, <1>5, <2>4
<1>7. SumOver(Floors(W, n, MinPerWeek), W) \in Int
  BY FloorsAre
<1>8. CASE SumOver(Floors(W, n, MinPerWeek), W) > max
  <2>1. f = Max({1, q})
    BY <1>1, <1>3, <1>8, Zenon DEF FloorFor
  <2>2. f = IF 1 >= q THEN 1 ELSE q
    BY <2>1, MaxOfTwo
  <2>3. f \in Positive /\ (k <= max => f = q)
    BY <1>6, <2>2 DEF Positive
  <2>4. k <= max => SumOver(Floors(W, n, f), W) <= max
    <3> SUFFICES ASSUME k <= max PROVE SumOver(Floors(W, n, f), W) <= max
      OBVIOUS
    <3>1. SumOver(Floors(W, n, f), W) \in 0..(f * Cardinality(W))
      BY <2>3, FloorsAre
    <3>2. f * k = k * q
      BY <1>2, <2>3
    <3>3. SumOver(Floors(W, n, f), W) \in 0..p
      BY <1>1, <1>4, <3>1, <3>2, Zenon
    <3>4. QED
      BY <1>0, <1>5, <3>3
  <2>5. QED
    BY <1>1, <1>3, <2>3, <2>4, Zenon
<1>9. CASE ~(SumOver(Floors(W, n, MinPerWeek), W) > max)
  <2>1. f = MinPerWeek
    BY <1>9, Zenon DEF FloorFor
  <2>2. SumOver(Floors(W, n, MinPerWeek), W) <= max
    BY <1>0, <1>7, <1>9
  <2>3. QED
    BY <1>1, <2>1, <2>2, Zenon
<1>10. QED
  BY <1>8, <1>9

\* What an allocation is made of.
LEMMA AllocationCases ==
  ASSUME NEW W, IsFiniteSet(W), W # {}, NEW n, \A w \in W : n[w] \in Positive,
         NEW max \in Positive, MinPerWeek \in Positive, SumOver(n, W) > max,
         NEW alloc \in AllocationsOf(W, n, max), NEW base, base = BaseOf(W, n, max)
  PROVE  /\ SumOver(base, W) \in Int /\ \A w \in W : base[w] \in 1..n[w]
         /\ \/ alloc = base /\ SumOver(base, W) >= max
            \/ /\ SumOver(base, W) < max
               /\ \E X : Apportioned(W, n, base, LeftOf(W, n, max), AllLeft(W, n, max),
                                     RestOf(W, n, max), ExtraOf(W, n, max), PartOf(W, n, max),
                                     OpenOf(W, n, max), X, alloc)
<1>0. max \in Int /\ max >= 1
  BY DEF Positive
<1>1. FloorFor(W, n, max) \in Positive
  BY FloorForIs
<1>2. base = Floors(W, n, FloorFor(W, n, max))
  BY Zenon DEF BaseOf
<1>3. SumOver(base, W) \in Int /\ \A w \in W : base[w] \in 1..n[w]
  <2>1. SumOver(Floors(W, n, FloorFor(W, n, max)), W) \in 0..(FloorFor(W, n, max) * Cardinality(W))
    BY <1>1, FloorsAre
  <2>2. \A w \in W : Floors(W, n, FloorFor(W, n, max))[w] \in 1..n[w]
    BY <1>1, FloorsAre
  <2>3. SumOver(base, W) \in Int
    BY <1>2, <2>1
  <2>4. QED
    BY <1>2, <2>2, <2>3, Zenon
<1> DEFINE s == LeftOf(W, n, max)
           all == AllLeft(W, n, max)
           rem == RestOf(W, n, max)
<1>4. \A w \in W : n[w] \in Int /\ base[w] \in Int /\ s[w] \in Int /\ n[w] = base[w] + s[w]
  <2>1. \A w \in W : s[w] = n[w] - base[w]
    BY Zenon DEF LeftOf
  <2> HIDE DEF s
  <2>2. QED
    BY <1>3, <2>1 DEF Positive
<1>5. all = SumOver(s, W) /\ all \in Int
  <2>1. all = SumOver(s, W)
    BY Zenon DEF AllLeft
  <2> HIDE DEF s, all
  <2>2. SumOver(s, W) \in Int
    BY <1>4, SumType
  <2>3. QED
    BY <2>1, <2>2, Zenon
<1>6. SumOver(n, W) = SumOver(base, W) + all
  <2>1. all = SumOver(s, W)
    BY Zenon DEF AllLeft
  <2> HIDE DEF s, all
  <2>2. SumOver(n, W) = SumOver(base, W) + SumOver(s, W)
    BY <1>4, SumPlus
  <2>3. QED
    BY <2>1, <2>2, Zenon
<1>7. rem = max - SumOver(base, W)
  BY Zenon DEF RestOf
<1> HIDE DEF all, rem
<1>8. rem \in Int /\ rem < all
  <2>1. PICK x \in Int : x = SumOver(base, W)
    BY <1>3
  <2>2. x + all > max
    BY <1>6, <2>1, Zenon
  <2>3. rem = max - x
    BY <1>7, <2>1, Zenon
  <2>4. QED
    BY <1>0, <1>5, <2>2, <2>3
<1>9. alloc \in IF rem <= 0 \/ all = 0 THEN {base}
                ELSE {With(W, n, max, X) : X \in RaisedOf(W, n, max)}
  BY Zenon DEF AllocationsOf, rem, all
<1>10. CASE rem <= 0
  <2>1. alloc = base
    BY <1>9, <1>10
  <2>2. SumOver(base, W) >= max
    BY <1>0, <1>3, <1>7, <1>10
  <2>3. QED
    BY <1>3, <2>1, <2>2, Zenon
<1>11. CASE ~(rem <= 0)
  <2>1. rem \in Positive /\ all \in Positive /\ all # 0
    BY <1>5, <1>8, <1>11 DEF Positive
  <2>2. PICK X \in RaisedOf(W, n, max) : alloc = With(W, n, max, X)
    BY <1>9, <1>11, <2>1
  <2>3. SumOver(base, W) < max
    BY <1>0, <1>3, <1>7, <1>11
  <2>4. \A w \in W : n[w] \in Nat /\ base[w] \in Nat /\ base[w] <= n[w]
    BY <1>3 DEF Positive
  <2>5. \A w \in W : s[w] = n[w] - base[w]
    BY Zenon DEF LeftOf
  <2>6. /\ \A w \in W : ExtraOf(W, n, max)[w] = Min({(rem * s[w]) \div all, s[w]})
        /\ \A w \in W : PartOf(W, n, max)[w] = (rem * s[w]) % all
        /\ OpenOf(W, n, max) = {w \in W : ExtraOf(W, n, max)[w] < s[w]}
        /\ X \in S!RoundedUp(OpenOf(W, n, max), PartOf(W, n, max), rem - SumOver(ExtraOf(W, n, max), W))
    BY Zenon DEF ExtraOf, PartOf, OpenOf, RaisedOf, rem, all
  <2>7. \A w \in W : alloc[w] = base[w] + ExtraOf(W, n, max)[w] + (IF w \in X THEN 1 ELSE 0)
    BY <2>2, Zenon DEF With
  <2> HIDE DEF s
  <2>8. Apportioned(W, n, base, s, all, rem, ExtraOf(W, n, max), PartOf(W, n, max),
                    OpenOf(W, n, max), X, alloc)
    BY <1>5, <1>8, <2>1, <2>4, <2>5, <2>6, <2>7, Zenon DEF Apportioned
  <2>9. QED
    BY <1>3, <2>3, <2>8, Zenon DEF s, all, rem
<1>12. QED
  BY <1>10, <1>11

LEMMA AllocatedIs ==
  ASSUME NEW W, IsFiniteSet(W), W # {}, NEW n, \A w \in W : n[w] \in Positive,
         NEW max \in Positive, MinPerWeek \in Positive, SumOver(n, W) > max,
         NEW alloc \in AllocationsOf(W, n, max)
  PROVE  /\ \A w \in W : alloc[w] \in Positive /\ alloc[w] <= n[w]
         /\ SumOver(alloc, W) \in Int /\ SumOver(alloc, W) >= max
         /\ Cardinality(W) <= max => SumOver(alloc, W) = max
         /\ \A w \in W : BaseOf(W, n, max)[w] <= alloc[w]
<1>0. max \in Int /\ max >= 1
  BY DEF Positive
<1> DEFINE base == BaseOf(W, n, max)
<1>1. SumOver(base, W) \in Int /\ \A w \in W : base[w] \in 1..n[w]
  BY AllocationCases
<1>2. Cardinality(W) <= max => SumOver(base, W) <= max
  BY FloorForIs DEF BaseOf
<1>3. CASE alloc = base /\ SumOver(base, W) >= max
  <2> HIDE DEF base
  <2>1. \A w \in W : alloc[w] \in Positive /\ alloc[w] <= n[w] /\ base[w] <= alloc[w]
    BY <1>1, <1>3 DEF Positive
  <2>2. SumOver(alloc, W) \in Int /\ SumOver(alloc, W) >= max
    BY <1>1, <1>3
  <2>3. Cardinality(W) <= max => SumOver(alloc, W) = max
    BY <1>0, <1>1, <1>2, <1>3
  <2>4. QED
    BY <2>1, <2>2, <2>3 DEF base
<1>4. CASE SumOver(base, W) < max
           /\ \E X : Apportioned(W, n, base, LeftOf(W, n, max), AllLeft(W, n, max),
                                 RestOf(W, n, max), ExtraOf(W, n, max), PartOf(W, n, max),
                                 OpenOf(W, n, max), X, alloc)
  <2> HIDE DEF base
  <2>1. PICK X : Apportioned(W, n, base, LeftOf(W, n, max), AllLeft(W, n, max),
                             RestOf(W, n, max), ExtraOf(W, n, max), PartOf(W, n, max),
                             OpenOf(W, n, max), X, alloc)
    BY <1>4
  <2>2. /\ \A w \in W : alloc[w] \in Nat /\ base[w] <= alloc[w] /\ alloc[w] <= n[w]
        /\ SumOver(alloc, W) = SumOver(base, W) + RestOf(W, n, max)
    BY <2>1, AllIsHandedOut
  <2>3. RestOf(W, n, max) = max - SumOver(base, W)
    BY Zenon DEF RestOf, base
  <2>4. SumOver(alloc, W) = max
    BY <1>0, <1>1, <2>2, <2>3
  <2>5. \A w \in W : alloc[w] \in Positive
    BY <1>1, <2>2 DEF Positive
  <2>6. QED
    BY <1>0, <2>2, <2>4, <2>5 DEF base
<1>5. QED
  <2>1. (alloc = base /\ SumOver(base, W) >= max) \/
        (SumOver(base, W) < max
           /\ \E X : Apportioned(W, n, base, LeftOf(W, n, max), AllLeft(W, n, max),
                                 RestOf(W, n, max), ExtraOf(W, n, max), PartOf(W, n, max),
                                 OpenOf(W, n, max), X, alloc))
    BY AllocationCases
  <2>2. QED
    BY <1>3, <1>4, <2>1, Zenon

\* With room for every week, it gets its floor, and a busier one no less.
LEMMA FloorIsKept ==
  ASSUME NEW W, IsFiniteSet(W), W # {}, NEW n, \A w \in W : n[w] \in Positive,
         NEW max \in Positive, MinPerWeek \in Positive, SumOver(n, W) > max,
         NEW alloc \in AllocationsOf(W, n, max), Cardinality(W) <= max, NEW w \in W
  PROVE  alloc[w] >= Min({MinPerWeek, max \div Cardinality(W), n[w]})
<1>0. max \in Int /\ max >= 1
  BY DEF Positive
<1>1. PICK f \in Positive : /\ f = FloorFor(W, n, max)
                            /\ f = MinPerWeek \/ f = max \div Cardinality(W)
  BY FloorForIs
<1>2. PICK q \in Int : q = max \div Cardinality(W)
  <2>1. Cardinality(W) \in Positive
    BY FloorForIs
  <2>2. QED
    BY <1>0, <2>1, QuotientAndRest
<1>3. PICK m \in Positive : m = n[w]
  OBVIOUS
<1>4. PICK p \in Positive : p = MinPerWeek
  OBVIOUS
<1>5. Min({p, q, m}) \in {p, q, m} /\ \A y \in {p, q, m} : Min({p, q, m}) <= y
  <2>1. {p, q, m} \in SUBSET Int /\ {p, q, m} # {}
    BY DEF Positive
  <2>2. IsFiniteSet({p, q, m})
    <3>1. IsFiniteSet({p}) /\ IsFiniteSet({p} \cup {q}) /\ IsFiniteSet(({p} \cup {q}) \cup {m})
      BY FS_Singleton, FS_AddElement
    <3>2. {p, q, m} = ({p} \cup {q}) \cup {m}
      OBVIOUS
    <3>3. QED
      BY <3>1, <3>2, Zenon
  <2>3. QED
    BY <2>1, <2>2, LeastOf
<1>6. PICK l \in Int : l = Min({p, q, m})
  BY <1>5 DEF Positive
<1>7. l <= p /\ l <= q /\ l <= m
  BY <1>5, <1>6
<1>8. BaseOf(W, n, max)[w] = m \/ BaseOf(W, n, max)[w] = f
  <2>1. Floors(W, n, f)[w] = n[w] \/ Floors(W, n, f)[w] = f
    BY FloorsAre
  <2>2. QED
    BY <1>1, <1>3, <2>1, Zenon DEF BaseOf
<1>9. BaseOf(W, n, max)[w] <= alloc[w] /\ alloc[w] \in Positive
  BY AllocatedIs
<1>10. f = p \/ f = q
  BY <1>1, <1>2, <1>4, Zenon
<1>11. l <= alloc[w]
  BY <1>7, <1>8, <1>9, <1>10 DEF Positive
<1>12. alloc[w] >= l
  BY <1>9, <1>11 DEF Positive
<1>13. QED
  BY <1>2, <1>3, <1>4, <1>6, <1>12, Zenon

LEMMA BusierGetMore ==
  ASSUME NEW W, IsFiniteSet(W), W # {}, NEW n, \A w \in W : n[w] \in Positive,
         NEW max \in Positive, MinPerWeek \in Positive, SumOver(n, W) > max,
         NEW alloc \in AllocationsOf(W, n, max), NEW v \in W, NEW w \in W, n[v] < n[w]
  PROVE  alloc[v] <= alloc[w]
<1> DEFINE base == BaseOf(W, n, max)
<1>1. PICK f \in Positive : f = FloorFor(W, n, max)
  BY FloorForIs
<1>2. \A x \in W : /\ base[x] \in 1..n[x] /\ base[x] \in 1..f
                   /\ (base[x] = n[x] \/ base[x] = f)
  BY <1>1, FloorsAre DEF BaseOf
<1>3. \A x \in W : LeftOf(W, n, max)[x] = n[x] - base[x]
  BY Zenon DEF LeftOf
<1> HIDE DEF base
<1>4. PICK i \in Positive, j \in Positive : i = n[v] /\ j = n[w]
  OBVIOUS
<1>5. i < j
  BY <1>4, Zenon
<1>6. base[v] \in Int /\ base[w] \in Int /\ base[v] <= base[w]
  BY <1>2, <1>4, <1>5 DEF Positive
<1>7. LeftOf(W, n, max)[v] <= LeftOf(W, n, max)[w]
  BY <1>2, <1>3, <1>4, <1>5 DEF Positive
<1>8. LeftOf(W, n, max)[v] > 0 => LeftOf(W, n, max)[v] < LeftOf(W, n, max)[w]
  BY <1>2, <1>3, <1>4, <1>5 DEF Positive
<1>9. CASE alloc = base
  BY <1>6, <1>9
<1>10. CASE \E X : Apportioned(W, n, base, LeftOf(W, n, max), AllLeft(W, n, max),
                               RestOf(W, n, max), ExtraOf(W, n, max), PartOf(W, n, max),
                               OpenOf(W, n, max), X, alloc)
  BY <1>6, <1>7, <1>8, <1>10, MoreGetMore
<1>11. QED
  BY <1>9, <1>10, AllocationCases DEF base

---------------------------------------------------------------------------
(* Spacing over what is listed in an order *)

LEMMA DistinctElements ==
  ASSUME NEW R, NEW s \in Seq(R), \A i, j \in DOMAIN s : i < j => s[i] # s[j]
  PROVE  /\ IsFiniteSet({s[i] : i \in DOMAIN s})
         /\ Cardinality({s[i] : i \in DOMAIN s}) = Len(s)
<1> DEFINE F == {s[i] : i \in DOMAIN s}
           I == DOMAIN s
<1>1. Len(s) \in Nat /\ I = 1..Len(s)
  OBVIOUS
<1>2. IsFiniteSet(I) /\ Cardinality(I) = Len(s)
  BY <1>1, FS_Interval
<1>3. \A i, j \in I : i # j => s[i] # s[j]
  BY <1>1
<1>4. s \in [I -> F]
  OBVIOUS
<1>5. s \in Bijection(I, F)
  <2>1. \A y \in F : \E i \in I : s[i] = y
    OBVIOUS
  <2> HIDE DEF F, I
  <2>2. QED
    BY <1>3, <1>4, <2>1 DEF Bijection, Injection, Surjection, IsInjective
<1> HIDE DEF F, I
<1>6. IsFiniteSet(F) /\ Cardinality(F) = Cardinality(I)
  <2>1. ExistsBijection(I, F)
    BY <1>5 DEF ExistsBijection
  <2>2. QED
    BY <1>2, <2>1, FS_Bijection
<1>7. QED
  BY <1>2, <1>6, Zenon DEF F

LEMMA SpacedListing ==
  ASSUME NEW Q, IsFiniteSet(Q), NEW H, IsOrder(H, Q), NEW a \in Positive,
         Cardinality(Q) \in Positive, NEW r, r = S!Spaced(Listing(H, Q), a)
  PROVE  /\ r \in Seq(Q) /\ Len(r) = Fewer(Cardinality(Q), a) /\ Len(r) \in Positive
         /\ DOMAIN r = 1..Len(r)
         /\ \A i, j \in DOMAIN r : i < j => <<r[i], r[j]>> \in H
         /\ r[Len(r)] = Listing(H, Q)[Cardinality(Q)]
         /\ IsFiniteSet({r[i] : i \in DOMAIN r})
         /\ Cardinality({r[i] : i \in DOMAIN r}) = Len(r)
<1> DEFINE s == Listing(H, Q)
           n == Cardinality(Q)
           m == Fewer(n, a)
<1>1. /\ s \in Seq(Q) /\ Len(s) = n /\ DOMAIN s = 1..n
      /\ \A j, k \in 1..n : j < k => <<s[j], s[k]>> \in H
  BY ListingIs
<1>2. /\ m \in Positive /\ \A i \in 1..m : Place(n, a, i) \in 1..n
      /\ \A i, j \in 1..m : i < j => Place(n, a, i) < Place(n, a, j)
      /\ Place(n, a, m) = n
  BY PlacesAre
<1>3. Len(s) \in Positive /\ m = Fewer(Len(s), a) /\ r = S!Spaced(s, a)
  BY <1>1
<1> HIDE DEF s, m
<1>4. /\ Len(r) = m /\ DOMAIN r = 1..m
      /\ \A i \in 1..m : r[i] = s[Place(Len(s), a, i)]
      /\ r \in Seq(Q)
  BY <1>1, <1>3, SpacedIs
<1> HIDE DEF n
<1>5. \A i \in 1..m : r[i] = s[Place(n, a, i)]
  BY <1>1, <1>4, Zenon
<1>6. \A i, j \in 1..m : i < j => <<r[i], r[j]>> \in H
  <2> SUFFICES ASSUME NEW i \in 1..m, NEW j \in 1..m, i < j PROVE <<r[i], r[j]>> \in H
    OBVIOUS
  <2>1. PICK x \in 1..n : x = Place(n, a, i)
    BY <1>2
  <2>2. PICK y \in 1..n : y = Place(n, a, j)
    BY <1>2
  <2>3. x < y
    BY <1>2, <2>1, <2>2, Zenon
  <2>4. <<s[x], s[y]>> \in H
    BY <1>1, <2>3
  <2>5. r[i] = s[x] /\ r[j] = s[y]
    BY <1>5, <2>1, <2>2, Zenon
  <2>6. QED
    BY <2>4, <2>5, Zenon
<1>7. r[m] = s[n]
  <2>1. m \in 1..m
    BY <1>2 DEF Positive
  <2>2. QED
    BY <1>2, <1>5, <2>1, Zenon
<1>8. \A i \in 1..m : r[i] \in Q
  BY <1>4
<1>9. \A i, j \in DOMAIN r : i < j => r[i] # r[j]
  <2>1. \A e \in Q : <<e, e>> \notin H
    BY Zenon DEF IsOrder
  <2>2. QED
    BY <1>4, <1>6, <1>8, <2>1
<1>10. IsFiniteSet({r[i] : i \in DOMAIN r}) /\ Cardinality({r[i] : i \in DOMAIN r}) = Len(r)
  <2>1. r \in Seq(Q)
    BY <1>4, Zenon
  <2>2. QED
    BY <1>9, <2>1, DistinctElements
<1>11. \A i, j \in DOMAIN r : i < j => <<r[i], r[j]>> \in H
  <2>1. DOMAIN r = 1..m
    BY <1>4
  <2>2. QED
    BY <1>6, <2>1
<1>a. Len(r) \in Positive /\ DOMAIN r = 1..Len(r)
  BY <1>2, <1>4
<1>12. r[Len(r)] = s[n]
  BY <1>4, <1>7
<1>13. Len(r) = Fewer(Cardinality(Q), a)
  BY <1>4, Zenon DEF m, n
<1>14. r[Len(r)] = Listing(H, Q)[Cardinality(Q)]
  BY <1>12, Zenon DEF s, n
<1>15. QED
  BY <1>4, <1>10, <1>11, <1>a, <1>13, <1>14

---------------------------------------------------------------------------
(* The weeks of the chat c that is sampled *)

Mine(c, L, w) == {i \in DOMAIN c : c[i] \div L = w}
WeeksIn(c, L) == {c[i] \div L : i \in DOMAIN c}
WeekSizes(c, L) == [w \in WeeksIn(c, L) |-> Cardinality(Mine(c, L, w))]

LEMMA WeeksOfChat ==
  ASSUME NEW c \in Seq(Nat), NEW L, c # <<>>
  PROVE  /\ DOMAIN c = 1..Len(c) /\ IsFiniteSet(DOMAIN c) /\ Len(c) \in Positive
         /\ IsFiniteSet(WeeksIn(c, L)) /\ WeeksIn(c, L) # {}
         /\ \A w : /\ Mine(c, L, w) \in SUBSET DOMAIN c /\ Mine(c, L, w) \in SUBSET Int
                   /\ IsFiniteSet(Mine(c, L, w))
         /\ \A w \in WeeksIn(c, L) : /\ WeekSizes(c, L)[w] = Cardinality(Mine(c, L, w))
                                     /\ WeekSizes(c, L)[w] \in Positive
         /\ SumOver(WeekSizes(c, L), WeeksIn(c, L)) = Len(c)
<1> DEFINE W == WeeksIn(c, L)
           n == WeekSizes(c, L)
<1>1. Len(c) \in Nat /\ DOMAIN c = 1..Len(c) /\ Len(c) # 0
  OBVIOUS
<1>2. IsFiniteSet(DOMAIN c) /\ Cardinality(DOMAIN c) = Len(c)
  BY <1>1, FS_Interval
<1>3. Len(c) \in Positive
  BY <1>1 DEF Positive
<1>4. IsFiniteSet(W)
  <2> DEFINE f == [i \in DOMAIN c |-> c[i] \div L]
  <2>1. IsFiniteSet({f[i] : i \in DOMAIN c})
    BY <1>2, ImageIsFinite
  <2>2. W = {f[i] : i \in DOMAIN c}
    BY DEF WeeksIn
  <2>3. QED
    BY <2>1, <2>2, Zenon
<1>5. W # {}
  <2>1. 1 \in DOMAIN c
    BY <1>1
  <2>2. c[1] \div L \in W
    BY <2>1, Zenon DEF WeeksIn
  <2>3. QED
    BY <2>2, Zenon
<1>6. \A w : Mine(c, L, w) \in SUBSET DOMAIN c
  BY DEF Mine
<1>7. \A w : IsFiniteSet(Mine(c, L, w)) /\ Mine(c, L, w) \in SUBSET Int
  BY <1>1, <1>2, <1>6, FS_Subset
<1>8. \A w \in W : n[w] = Cardinality(Mine(c, L, w))
  BY Zenon DEF WeekSizes
<1>9. ASSUME NEW w \in W PROVE n[w] \in Positive
  <2>1. PICK i \in DOMAIN c : w = c[i] \div L
    BY DEF WeeksIn
  <2>2. i \in Mine(c, L, w)
    BY <2>1, Zenon DEF Mine
  <2>3. Cardinality(Mine(c, L, w)) \in Nat /\ Cardinality(Mine(c, L, w)) # 0
    BY <1>7, <2>2, FS_CardinalityType, FS_EmptySet
  <2>4. QED
    BY <1>8, <2>3 DEF Positive
<1>10. SumOver(n, W) = Len(c)
  <2> DEFINE F == [w \in W |-> Mine(c, L, w)]
  <2>1. \A w \in W : F[w] = Mine(c, L, w)
    BY Zenon
  <2> HIDE DEF F
  <2>2. \A w \in W : IsFiniteSet(F[w]) /\ n[w] = Cardinality(F[w])
    BY <1>7, <1>8, <2>1, Zenon
  <2>3. \A v, w \in W : v # w => F[v] \cap F[w] = {}
    BY <2>1 DEF Mine
  <2>4. Cardinality(UNION {F[w] : w \in W}) = SumOver(n, W)
    <3> HIDE DEF W, n
    <3>1. QED
      BY <1>4, <2>2, <2>3, UnionSize
  <2>5. \A i : i \in UNION {F[w] : w \in W} => i \in DOMAIN c
    BY <1>6, <2>1
  <2>6. \A i \in DOMAIN c : i \in UNION {F[w] : w \in W}
    <3> TAKE i \in DOMAIN c
    <3>1. c[i] \div L \in W
      BY Zenon DEF WeeksIn
    <3>2. i \in F[c[i] \div L]
      BY <2>1, <3>1, Zenon DEF Mine
    <3> HIDE DEF W
    <3>3. QED
      BY <3>1, <3>2, Zenon
  <2> DEFINE A == UNION {F[w] : w \in W}
  <2> HIDE DEF A
  <2>7. A = DOMAIN c
    <3>1. \A i : i \in A <=> i \in DOMAIN c
      BY <2>5, <2>6, Zenon DEF A
    <3>2. QED
      BY <3>1
  <2>8. QED
    BY <1>2, <2>4, <2>7, Zenon DEF A
<1>11. QED
  BY <1>1, <1>2, <1>3, <1>4, <1>5, <1>6, <1>7, <1>8, <1>9, <1>10, Zenon

---------------------------------------------------------------------------
(* What is picked of a chat c *)

EarlierIn(c) == {o \in Int \X Int : \/ c[o[1]] < c[o[2]]
                                    \/ c[o[1]] = c[o[2]] /\ o[1] < o[2]}
Elems(s) == {s[i] : i \in DOMAIN s}
PickedOfWeek(c, L, alloc, w) == Elems(S!Spaced(InOrderOf(Mine(c, L, w)), alloc[w]))
PickedIn(c, L, alloc) == UNION {PickedOfWeek(c, L, alloc, w) : w \in WeeksIn(c, L)}

LEMMA EarlierIs ==
  ASSUME NEW c \in Seq(Nat)
  PROVE  /\ \A i, j \in DOMAIN c : <<i, j>> \in EarlierIn(c)
                                     <=> c[i] < c[j] \/ (c[i] = c[j] /\ i < j)
         /\ \A M \in SUBSET DOMAIN c : IsOrder(EarlierIn(c), M)
<1>1. \A i \in DOMAIN c : i \in Int /\ c[i] \in Int
  OBVIOUS
<1>2. \A i, j \in DOMAIN c : <<i, j>> \in EarlierIn(c)
                               <=> c[i] < c[j] \/ (c[i] = c[j] /\ i < j)
  BY <1>1 DEF EarlierIn
<1>3. ASSUME NEW M \in SUBSET DOMAIN c PROVE IsOrder(EarlierIn(c), M)
  <2>1. \A i \in M : <<i, i>> \notin EarlierIn(c)
    BY <1>1, <1>2
  <2>2. \A i, j \in M : i = j \/ <<i, j>> \in EarlierIn(c) \/ <<j, i>> \in EarlierIn(c)
    <3> TAKE i \in M, j \in M
    <3>1. i \in DOMAIN c /\ j \in DOMAIN c
      OBVIOUS
    <3>2. i \in Int /\ j \in Int /\ c[i] \in Int /\ c[j] \in Int
      BY <1>1, <3>1
    <3>3. /\ <<i, j>> \in EarlierIn(c) <=> c[i] < c[j] \/ (c[i] = c[j] /\ i < j)
          /\ <<j, i>> \in EarlierIn(c) <=> c[j] < c[i] \/ (c[j] = c[i] /\ j < i)
      BY <1>2, <3>1
    <3>4. QED
      BY <3>2, <3>3
  <2>3. \A i, j, k \in M :
          <<i, j>> \in EarlierIn(c) /\ <<j, k>> \in EarlierIn(c) => <<i, k>> \in EarlierIn(c)
    <3> TAKE i \in M, j \in M, k \in M
    <3>1. i \in DOMAIN c /\ j \in DOMAIN c /\ k \in DOMAIN c
      OBVIOUS
    <3>2. /\ i \in Int /\ j \in Int /\ k \in Int
          /\ c[i] \in Int /\ c[j] \in Int /\ c[k] \in Int
      BY <1>1, <3>1
    <3>3. /\ <<i, j>> \in EarlierIn(c) <=> c[i] < c[j] \/ (c[i] = c[j] /\ i < j)
          /\ <<j, k>> \in EarlierIn(c) <=> c[j] < c[k] \/ (c[j] = c[k] /\ j < k)
          /\ <<i, k>> \in EarlierIn(c) <=> c[i] < c[k] \/ (c[i] = c[k] /\ i < k)
      BY <1>2, <3>1
    <3>4. QED
      BY <3>2, <3>3
  <2>4. QED
    BY <2>1, <2>2, <2>3 DEF IsOrder
<1>4. QED
  BY <1>2, <1>3

LEMMA WeekPicked ==
  ASSUME NEW c \in Seq(Nat), NEW L, c # <<>>, NEW w \in WeeksIn(c, L), NEW alloc,
         alloc[w] \in Positive, alloc[w] <= WeekSizes(c, L)[w],
         NEW R, R = PickedOfWeek(c, L, alloc, w)
  PROVE  /\ R \in SUBSET Mine(c, L, w) /\ IsFiniteSet(R) /\ Cardinality(R) = alloc[w]
         /\ InOrderOf(Mine(c, L, w))[Cardinality(Mine(c, L, w))] \in R
<1>1. PICK Q \in SUBSET Int : Q = Mine(c, L, w) /\ IsFiniteSet(Q)
  BY WeeksOfChat
<1>2. PICK n \in Positive : n = Cardinality(Q) /\ n = WeekSizes(c, L)[w]
  BY <1>1, WeeksOfChat
<1>3. PICK a \in Positive : a = alloc[w] /\ a <= n
  BY <1>2
<1>4. InOrderOf(Q) = Listing(Below, Q) /\ IsOrder(Below, Q)
  BY <1>1, InOrderIs
<1>5. PICK r : r = S!Spaced(Listing(Below, Q), a)
  OBVIOUS
<1>6. R = Elems(r)
  BY <1>1, <1>3, <1>4, <1>5, Zenon DEF PickedOfWeek
<1>7. /\ r \in Seq(Q) /\ Len(r) = Fewer(n, a) /\ Len(r) \in Positive /\ DOMAIN r = 1..Len(r)
      /\ r[Len(r)] = Listing(Below, Q)[n]
      /\ IsFiniteSet(Elems(r)) /\ Cardinality(Elems(r)) = Len(r)
  <2>1. Cardinality(Q) \in Positive
    BY <1>2
  <2>2. /\ r \in Seq(Q) /\ Len(r) = Fewer(Cardinality(Q), a) /\ Len(r) \in Positive
        /\ DOMAIN r = 1..Len(r)
        /\ r[Len(r)] = Listing(Below, Q)[Cardinality(Q)]
        /\ IsFiniteSet({r[i] : i \in DOMAIN r})
        /\ Cardinality({r[i] : i \in DOMAIN r}) = Len(r)
    BY <1>1, <1>4, <1>5, <2>1, SpacedListing
  <2>3. QED
    BY <1>2, <2>2, Zenon DEF Elems
<1>8. Fewer(n, a) = a
  BY <1>3 DEF Fewer, Positive
<1>9. \A i \in DOMAIN r : r[i] \in Q
  BY <1>7
<1>10. Elems(r) \in SUBSET Q
  BY <1>9 DEF Elems
<1>11. r[Len(r)] \in Elems(r)
  BY <1>7 DEF Elems, Positive
<1>12. Listing(Below, Q)[n] \in R
  BY <1>6, <1>7, <1>11, Zenon
<1>13. Cardinality(R) = alloc[w] /\ IsFiniteSet(R)
  BY <1>3, <1>6, <1>7, <1>8, Zenon
<1>14. InOrderOf(Mine(c, L, w))[Cardinality(Mine(c, L, w))] \in R
  BY <1>1, <1>2, <1>4, <1>12, Zenon
<1>15. QED
  BY <1>1, <1>6, <1>10, <1>13, <1>14, Zenon

LEMMA PickedAre ==
  ASSUME NEW c \in Seq(Nat), NEW L, NEW max \in Positive, Len(c) > max,
         MinPerWeek \in Positive,
         NEW alloc \in AllocationsOf(WeeksIn(c, L), WeekSizes(c, L), max),
         NEW M, M = PickedIn(c, L, alloc)
  PROVE  /\ M \in SUBSET DOMAIN c /\ IsFiniteSet(M)
         /\ Cardinality(M) \in Nat /\ Cardinality(M) >= max
         /\ Cardinality(WeeksIn(c, L)) <= max => Cardinality(M) = max
         /\ \A w \in WeeksIn(c, L) :
              /\ {i \in M : c[i] \div L = w} = PickedOfWeek(c, L, alloc, w)
              /\ Cardinality(PickedOfWeek(c, L, alloc, w)) = alloc[w]
              /\ InOrderOf(Mine(c, L, w))[Cardinality(Mine(c, L, w))] \in PickedOfWeek(c, L, alloc, w)
<1> DEFINE W == WeeksIn(c, L)
           n == WeekSizes(c, L)
           F == [w \in W |-> PickedOfWeek(c, L, alloc, w)]
<1>0. c # <<>> /\ max \in Nat
  BY DEF Positive
<1>1. /\ IsFiniteSet(W) /\ W # {} /\ \A w \in W : n[w] \in Positive
      /\ SumOver(n, W) = Len(c)
      /\ \A w : Mine(c, L, w) \in SUBSET DOMAIN c
  BY <1>0, WeeksOfChat
<1>2. SumOver(n, W) > max
  BY <1>1
<1>3. /\ \A w \in W : alloc[w] \in Positive /\ alloc[w] <= n[w]
      /\ SumOver(alloc, W) \in Int /\ SumOver(alloc, W) >= max
      /\ Cardinality(W) <= max => SumOver(alloc, W) = max
  <2> HIDE DEF W, n
  <2>1. alloc \in AllocationsOf(W, n, max)
    BY DEF W, n
  <2>2. QED
    BY <1>1, <1>2, <2>1, AllocatedIs
<1>4. \A w \in W : F[w] = PickedOfWeek(c, L, alloc, w)
  BY Zenon
<1> HIDE DEF F
<1>5. \A w \in W : /\ F[w] \in SUBSET Mine(c, L, w) /\ IsFiniteSet(F[w])
                   /\ Cardinality(F[w]) = alloc[w]
                   /\ InOrderOf(Mine(c, L, w))[Cardinality(Mine(c, L, w))] \in F[w]
  BY <1>0, <1>3, <1>4, WeekPicked
<1>6. \A v, w \in W : v # w => F[v] \cap F[w] = {}
  <2>1. \A v, w \in W : \A i : i \in Mine(c, L, v) /\ i \in Mine(c, L, w) => v = w
    BY Zenon DEF Mine
  <2> HIDE DEF W
  <2>2. QED
    BY <1>5, <2>1
<1>7. M = UNION {F[w] : w \in W}
  <2> DEFINE K == {F[w] : w \in W}
             J == {PickedOfWeek(c, L, alloc, w) : w \in W}
  <2>1. K = J
    <3> HIDE DEF W
    <3>1. QED
      BY <1>4
  <2>2. M = UNION J
    BY Zenon DEF PickedIn
  <2> HIDE DEF K, J
  <2>3. M = UNION K
    BY <2>1, <2>2, Zenon
  <2>4. QED
    BY <2>3, Zenon DEF K
<1>8. IsFiniteSet(M) /\ Cardinality(M) = SumOver(alloc, W)
  <2> HIDE DEF W
  <2>1. \A w \in W : IsFiniteSet(F[w]) /\ alloc[w] = Cardinality(F[w])
    BY <1>5
  <2>2. QED
    BY <1>1, <1>6, <1>7, <2>1, UnionSize
<1>9. \A i : i \in M <=> \E w \in W : i \in F[w]
  <2> HIDE DEF W
  <2>1. QED
    BY <1>7
<1>10. M \in SUBSET DOMAIN c
  BY <1>1, <1>5, <1>9
<1>11. ASSUME NEW w \in W PROVE {i \in M : c[i] \div L = w} = F[w]
  <2>1. \A v \in W : \A i \in F[v] : c[i] \div L = v
    BY <1>5 DEF Mine
  <2> HIDE DEF W
  <2>2. \A i : i \in M /\ c[i] \div L = w <=> i \in F[w]
    BY <1>9, <2>1, Zenon
  <2>3. QED
    BY <2>2
<1>12. Cardinality(M) \in Nat /\ Cardinality(M) >= max
  BY <1>3, <1>8, FS_CardinalityType
<1>13. Cardinality(W) <= max => Cardinality(M) = max
  BY <1>3, <1>8, Zenon
<1>14. QED
  BY <1>4, <1>5, <1>8, <1>10, <1>11, <1>12, <1>13, Zenon

---------------------------------------------------------------------------
(* The samples of a chat c that is longer than max *)

SamplesOf(c, L, max) ==
  {S!Spaced(Listing(EarlierIn(c), PickedIn(c, L, alloc)), max) :
     alloc \in AllocationsOf(WeeksIn(c, L), WeekSizes(c, L), max)}

LEMMA LongSample ==
  ASSUME NEW c \in Seq(Nat), NEW L, NEW max \in Positive, Len(c) > max,
         MinPerWeek \in Positive,
         NEW alloc \in AllocationsOf(WeeksIn(c, L), WeekSizes(c, L), max),
         NEW M, M = PickedIn(c, L, alloc),
         NEW r, r = S!Spaced(Listing(EarlierIn(c), M), max)
  PROVE  /\ r \in Seq(DOMAIN c) /\ Len(r) = max /\ DOMAIN r = 1..max
         /\ \A i, j \in DOMAIN r : i < j => <<r[i], r[j]>> \in EarlierIn(c)
         /\ r[max] = Listing(EarlierIn(c), M)[Cardinality(M)]
         /\ Cardinality(WeeksIn(c, L)) <= max => Elems(r) = M
<1>1. /\ M \in SUBSET DOMAIN c /\ IsFiniteSet(M)
      /\ Cardinality(M) \in Nat /\ Cardinality(M) >= max
      /\ Cardinality(WeeksIn(c, L)) <= max => Cardinality(M) = max
  BY PickedAre
<1>2. Cardinality(M) \in Positive
  BY <1>1 DEF Positive
<1>3. IsOrder(EarlierIn(c), M)
  BY <1>1, EarlierIs
<1> DEFINE H == EarlierIn(c)
<1> HIDE DEF H
<1>4. /\ r \in Seq(M) /\ Len(r) = Fewer(Cardinality(M), max) /\ DOMAIN r = 1..Len(r)
      /\ \A i, j \in DOMAIN r : i < j => <<r[i], r[j]>> \in H
      /\ r[Len(r)] = Listing(H, M)[Cardinality(M)]
      /\ IsFiniteSet({r[i] : i \in DOMAIN r})
      /\ Cardinality({r[i] : i \in DOMAIN r}) = Len(r)
  <2>1. r = S!Spaced(Listing(H, M), max) /\ IsOrder(H, M)
    BY <1>3, Zenon DEF H
  <2>2. QED
    BY <1>1, <1>2, <2>1, SpacedListing
<1>5. Fewer(Cardinality(M), max) = max
  BY <1>1 DEF Fewer, Positive
<1>6. Len(r) = max /\ DOMAIN r = 1..max
  BY <1>4, <1>5
<1>7. r \in Seq(DOMAIN c)
  <2>1. r \in Seq(M)
    BY <1>4, Zenon
  <2>2. \A i \in 1..Len(r) : r[i] \in DOMAIN c
    BY <1>1, <2>1
  <2> DEFINE R == DOMAIN c
  <2>3. \A i \in 1..Len(r) : r[i] \in R
    BY <2>2
  <2> HIDE DEF R
  <2>4. r \in Seq(R)
    BY <2>1, <2>3
  <2>5. QED
    BY <2>4 DEF R
<1>8. Cardinality(WeeksIn(c, L)) <= max => Elems(r) = M
  <2> SUFFICES ASSUME Cardinality(WeeksIn(c, L)) <= max PROVE Elems(r) = M
    OBVIOUS
  <2>1. Cardinality(M) = max
    BY <1>1, Zenon
  <2>2. \A i \in DOMAIN r : r[i] \in M
    <3>1. r \in Seq(M)
      BY <1>4, Zenon
    <3>2. QED
      BY <3>1
  <2>3. Elems(r) \in SUBSET M
    BY <2>2 DEF Elems
  <2>4. Cardinality(Elems(r)) = Len(r)
    BY <1>4, Zenon DEF Elems
  <2>5. Cardinality(M) = Cardinality(Elems(r))
    BY <1>6, <2>1, <2>4
  <2>6. QED
    BY <1>1, <2>3, <2>5, FS_Subset
<1>9. r[max] = Listing(EarlierIn(c), M)[Cardinality(M)]
  BY <1>4, <1>6, Zenon DEF H
<1>10. \A i, j \in DOMAIN r : i < j => <<r[i], r[j]>> \in EarlierIn(c)
  BY <1>4, Zenon DEF H
<1>11. QED
  BY <1>6, <1>7, <1>8, <1>9, <1>10

\* In an ordered chat nothing is later than the last message.
LEMMA LastIsLatest ==
  ASSUME NEW c \in Seq(Nat), \A i \in 2..Len(c) : c[i - 1] <= c[i],
         NEW M \in SUBSET DOMAIN c, IsFiniteSet(M), Len(c) \in M
  PROVE  Listing(EarlierIn(c), M)[Cardinality(M)] = Len(c)
<1>1. PICK l \in Nat : l = Len(c)
  OBVIOUS
<1>2. DOMAIN c = 1..l /\ l \in M /\ \A i \in DOMAIN c : c[i] \in Nat
  BY <1>1
<1>3. \A i \in 1..l : c[i] <= c[l]
  <2> DEFINE G == {k \in Nat : k < l => c[l - k] <= c[l]}
  <2>0. c[l] \in Nat
    BY <1>2
  <2>1. 0 \in G
    BY <2>0
  <2>2. ASSUME NEW k \in G PROVE k + 1 \in G
    <3>0. k \in Nat /\ (k < l => c[l - k] <= c[l])
      OBVIOUS
    <3>1. CASE k + 1 < l
      <4>1. PICK i \in 2..l : i = l - k
        BY <3>0, <3>1
      <4>2. i - 1 \in 1..l /\ i \in 1..l /\ i \in 2..Len(c) /\ l - (k + 1) = i - 1
        BY <1>1, <3>0, <4>1, SMTT(30)
      <4>3. c[i - 1] <= c[i]
        BY <4>2
      <4>4. c[i] <= c[l]
        BY <3>0, <3>1, <4>1
      <4>5. c[i - 1] \in Nat /\ c[i] \in Nat
        BY <1>2, <4>2
      <4>6. c[i - 1] <= c[l]
        BY <2>0, <4>3, <4>4, <4>5
      <4>7. c[l - (k + 1)] <= c[l]
        BY <4>2, <4>6, Zenon
      <4>8. QED
        BY <3>0, <4>7
    <3>2. QED
      BY <3>0, <3>1
  <2> HIDE DEF G
  <2>3. G = Nat
    <3>1. G \in SUBSET Nat
      BY DEF G
    <3>2. QED
      BY <2>1, <2>2, <3>1, NumberInduction
  <2>4. ASSUME NEW i \in 1..l PROVE c[i] <= c[l]
    <3>1. l - i \in Nat /\ l - i < l /\ l - (l - i) = i
      OBVIOUS
    <3>2. l - i \in G
      BY <2>3, <3>1
    <3>3. c[l - (l - i)] <= c[l]
      BY <3>1, <3>2 DEF G
    <3>4. QED
      BY <3>1, <3>3, Zenon
  <2>5. QED
    BY <2>4
<1> DEFINE H == EarlierIn(c)
           s == Listing(H, M)
           n == Cardinality(M)
<1>4. \A i \in M : i # l => <<i, l>> \in H
  <2> TAKE i \in M
  <2>1. i \in DOMAIN c /\ l \in DOMAIN c /\ i \in 1..l
    BY <1>2
  <2>2. c[i] \in Nat /\ c[l] \in Nat /\ c[i] <= c[l]
    BY <1>2, <1>3, <2>1
  <2>3. <<i, l>> \in H <=> c[i] < c[l] \/ (c[i] = c[l] /\ i < l)
    BY <2>1, EarlierIs
  <2>4. QED
    BY <2>1, <2>2, <2>3
<1>5. IsOrder(H, M)
  BY EarlierIs
<1> HIDE DEF H
<1>6. /\ n \in Nat /\ \A k \in 1..n : s[k] \in M
      /\ \A j, k \in 1..n : j < k => <<s[j], s[k]>> \in H
      /\ \E k \in 1..n : l = s[k]
  BY <1>2, <1>5, ListingIs, SMTT(30)
<1>7. PICK k \in 1..n : l = s[k]
  BY <1>6
<1>8. (\A i \in M : <<i, i>> \notin H)
      /\ (\A i, j, g \in M : <<i, j>> \in H /\ <<j, g>> \in H => <<i, g>> \in H)
  BY <1>5, Zenon DEF IsOrder
<1> HIDE DEF s, n
<1>9. s[n] = l
  <2> SUFFICES ASSUME s[n] # l PROVE FALSE
    OBVIOUS
  <2>1. k < n /\ n \in 1..n /\ s[n] \in M
    BY <1>6, <1>7
  <2>2. <<l, s[n]>> \in H
    BY <1>6, <1>7, <2>1
  <2>3. <<s[n], l>> \in H
    BY <1>4, <2>1
  <2>4. <<l, l>> \in H
    BY <1>2, <1>8, <2>1, <2>2, <2>3, Zenon
  <2>5. QED
    BY <1>2, <1>8, <2>4, Zenon
<1>10. QED
  BY <1>1, <1>9 DEF s, n, H

---------------------------------------------------------------------------
(* The sampler of ordered chats, and that of shuffled ones *)

Sampled == times \in Seq(Nat)
SamplingAssumptions == /\ S!BoundAssumption /\ S!BudgetAssumption
                       /\ U!BoundAssumption /\ U!BudgetAssumption

LEMMA SameSpacing == \A s, k : U!Spaced(s, k) = S!Spaced(s, k)
<1>1. \A a, b : U!Round(a, b) = S!Round(a, b)
  BY Zenon DEF U!Round, S!Round
<1>2. QED
  BY <1>1, Zenon DEF U!Spaced, S!Spaced

LEMMA WeeksAreS ==
  /\ S!Weeks = WeeksIn(times, WeekLength)
  /\ \A w : S!OfWeek(w) = Mine(times, WeekLength, w)
  /\ \A w : S!Size(w) = Cardinality(Mine(times, WeekLength, w))
  /\ \A w : S!InWeek(w) = InOrderOf(Mine(times, WeekLength, w))
  /\ SizesS = WeekSizes(times, WeekLength)
<1>1. S!Weeks = WeeksIn(times, WeekLength)
  BY Zenon DEF S!Weeks, S!Week, WeeksIn
<1>2. \A w : S!OfWeek(w) = Mine(times, WeekLength, w)
  BY Zenon DEF S!OfWeek, S!Week, Mine
<1>3. \A R : S!Cardinality(R) = Cardinality(R)
  BY Zenon DEF S!Cardinality, Cardinality
<1>4. \A w : S!Size(w) = Cardinality(Mine(times, WeekLength, w))
  BY <1>2, <1>3, Zenon DEF S!Size
<1>5. \A w : S!InWeek(w) = InOrderOf(Mine(times, WeekLength, w))
  <2> TAKE w
  <2>1. S!InWeek(w) = InOrderOf(S!OfWeek(w))
    BY Zenon DEF S!InWeek, S!Size, InOrderOf, S!Cardinality, Cardinality
  <2>2. QED
    BY <1>2, <2>1, Zenon
<1>6. SizesS = WeekSizes(times, WeekLength)
  BY <1>1, <1>4, Zenon DEF SizesS, WeekSizes
<1>7. QED
  BY <1>1, <1>2, <1>4, <1>5, <1>6, Zenon

LEMMA InTimeIsS ==
  ASSUME Sampled, NEW M \in SUBSET DOMAIN times
  PROVE  S!InTime(M) = Listing(EarlierIn(times), M)
<1>1. \A R : S!Cardinality(R) = Cardinality(R)
  BY Zenon DEF S!Cardinality, Cardinality
<1>2. \A i \in M : {j \in M : S!Earlier(j, i)} = Above(EarlierIn(times), M, i)
  <2> TAKE i \in M
  <2>1. \A j \in M : <<j, i>> \in EarlierIn(times) <=> S!Earlier(j, i)
    <3> TAKE j \in M
    <3>1. i \in DOMAIN times /\ j \in DOMAIN times
      OBVIOUS
    <3>2. <<j, i>> \in EarlierIn(times)
            <=> times[j] < times[i] \/ (times[j] = times[i] /\ j < i)
      BY <3>1, EarlierIs DEF Sampled
    <3>3. QED
      BY <3>2, Zenon DEF S!Earlier
  <2>2. QED
    BY <2>1, Zenon DEF Above
<1>3. \A k : (CHOOSE i \in M : S!Cardinality({j \in M : S!Earlier(j, i)}) = k - 1)
             = (CHOOSE i \in M : Cardinality(Above(EarlierIn(times), M, i)) = k - 1)
  BY <1>1, <1>2, Zenon
<1> DEFINE f(k) == CHOOSE i \in M : S!Cardinality({j \in M : S!Earlier(j, i)}) = k - 1
           g(k) == CHOOSE i \in M : Cardinality(Above(EarlierIn(times), M, i)) = k - 1
<1>4. S!InTime(M) = [k \in 1..Cardinality(M) |-> f(k)]
  BY <1>1, Zenon DEF S!InTime
<1>5. Listing(EarlierIn(times), M) = [k \in 1..Cardinality(M) |-> g(k)]
  BY Zenon DEF Listing
<1>6. \A k : f(k) = g(k)
  BY <1>3, Zenon
<1> HIDE DEF f, g
<1>7. QED
  BY <1>4, <1>5, <1>6

LEMMA PickedIsS ==
  ASSUME NEW alloc
  PROVE  S!Picked(alloc) = PickedIn(times, WeekLength, alloc)
<1>1. \A s : S!ToSet(s) = Elems(s)
  BY Zenon DEF S!ToSet, Elems
<1>2. \A w : S!ToSet(S!Spaced(S!InWeek(w), alloc[w])) = PickedOfWeek(times, WeekLength, alloc, w)
  BY <1>1, WeeksAreS, Zenon DEF PickedOfWeek
<1> DEFINE e(w) == S!ToSet(S!Spaced(S!InWeek(w), alloc[w]))
           d(w) == PickedOfWeek(times, WeekLength, alloc, w)
           K == {e(w) : w \in S!Weeks}
           J == {d(w) : w \in WeeksIn(times, WeekLength)}
<1>3. K = J
  <2>1. \A w : e(w) = d(w)
    BY <1>2, Zenon
  <2>2. S!Weeks = WeeksIn(times, WeekLength)
    BY WeeksAreS, Zenon
  <2> HIDE DEF e, d
  <2>3. QED
    BY <2>1, <2>2
<1>4. S!Picked(alloc) = UNION K
  BY Zenon DEF S!Picked
<1>5. PickedIn(times, WeekLength, alloc) = UNION J
  BY Zenon DEF PickedIn
<1> HIDE DEF K, J
<1>6. QED
  BY <1>3, <1>4, <1>5, Zenon

LEMMA SampleIsS ==
  ASSUME Sampled, SamplingAssumptions, NEW max \in Positive, Len(times) > max,
         NEW r \in S!Sample(max)
  PROVE  \E alloc \in AllocationsOf(WeeksIn(times, WeekLength), WeekSizes(times, WeekLength), max) :
           r = S!Spaced(Listing(EarlierIn(times), PickedIn(times, WeekLength, alloc)), max)
<1>1. ~(Len(times) <= max)
  <2>1. Len(times) \in Int /\ max \in Int
    BY DEF Sampled, Positive
  <2>2. QED
    BY <2>1
<1>2. PICK alloc \in S!Allocations(max) : r = S!Spaced(S!InTime(S!Picked(alloc)), max)
  BY <1>1, Zenon DEF S!Sample
<1>3. alloc \in AllocationsOf(WeeksIn(times, WeekLength), WeekSizes(times, WeekLength), max)
  BY <1>2, AllocationsAreS, WeeksAreS, Zenon
<1>4. MinPerWeek \in Positive /\ times \in Seq(Nat)
  BY DEF SamplingAssumptions, S!BoundAssumption, Positive, Sampled
<1>5. PickedIn(times, WeekLength, alloc) \in SUBSET DOMAIN times
  BY <1>3, <1>4, PickedAre
<1>6. S!InTime(S!Picked(alloc)) = Listing(EarlierIn(times), PickedIn(times, WeekLength, alloc))
  BY <1>5, PickedIsS, InTimeIsS, Zenon
<1>7. QED
  BY <1>2, <1>3, <1>6, Zenon

LEMMA ShortSampleS ==
  ASSUME Sampled, NEW max \in Positive, ~(Len(times) > max), NEW r \in S!Sample(max)
  PROVE  Len(r) = Len(times) /\ \A i \in DOMAIN times : i \in DOMAIN r /\ r[i] = i
<1>1. Len(times) <= max
  <2>1. Len(times) \in Int /\ max \in Int
    BY DEF Sampled, Positive
  <2>2. QED
    BY <2>1
<1>2. r = [i \in DOMAIN times |-> i]
  BY <1>1, Zenon DEF S!Sample
<1>3. DOMAIN times = 1..Len(times) /\ Len(times) \in Nat
  BY DEF Sampled
<1>4. QED
  BY <1>2, <1>3

LEMMA BudgetIsS ==
  ASSUME Sampled, SamplingAssumptions, Budgets \subseteq Positive
  PROVE  S!BudgetIsUsed
<1> SUFFICES ASSUME NEW max \in Budgets, NEW r \in S!Sample(max)
             PROVE  Len(r) = S!Min({Len(times), max})
  BY Zenon DEF S!BudgetIsUsed
<1>0. max \in Positive /\ max \in Int /\ Len(times) \in Int
  BY DEF Positive, Sampled
<1>1. S!Min({Len(times), max}) = IF Len(times) <= max THEN Len(times) ELSE max
  <2>1. \A R : S!Min(R) = Min(R)
    BY Zenon DEF S!Min, Min
  <2>2. Min({Len(times), max}) = IF Len(times) <= max THEN Len(times) ELSE max
    BY <1>0, MinOfTwo
  <2>3. QED
    BY <2>1, <2>2, Zenon
<1>2. CASE Len(times) > max
  <2>1. PICK alloc \in AllocationsOf(WeeksIn(times, WeekLength), WeekSizes(times, WeekLength), max) :
           r = S!Spaced(Listing(EarlierIn(times), PickedIn(times, WeekLength, alloc)), max)
    BY <1>0, <1>2, SampleIsS
  <2>2. MinPerWeek \in Positive /\ times \in Seq(Nat)
    BY DEF SamplingAssumptions, S!BoundAssumption, Positive, Sampled
  <2>3. Len(r) = max
    BY <1>0, <1>2, <2>1, <2>2, LongSample
  <2>4. QED
    BY <1>0, <1>1, <1>2, <2>3
<1>3. CASE ~(Len(times) > max)
  <2>1. Len(r) = Len(times)
    BY <1>0, <1>3, ShortSampleS
  <2>2. QED
    BY <1>0, <1>1, <1>3, <2>1
<1>4. QED
  BY <1>2, <1>3

LEMMA WeeksAreU ==
  /\ U!Weeks = WeeksIn(times, ShuffledWeek)
  /\ \A w : U!OfWeek(w) = Mine(times, ShuffledWeek, w)
  /\ \A w : U!Size(w) = Cardinality(Mine(times, ShuffledWeek, w))
  /\ \A w : U!InWeek(w) = InOrderOf(Mine(times, ShuffledWeek, w))
  /\ SizesU = WeekSizes(times, ShuffledWeek)
<1>1. U!Weeks = WeeksIn(times, ShuffledWeek)
  BY Zenon DEF U!Weeks, U!Week, WeeksIn
<1>2. \A w : U!OfWeek(w) = Mine(times, ShuffledWeek, w)
  BY Zenon DEF U!OfWeek, U!Week, Mine
<1>3. \A R : U!Cardinality(R) = Cardinality(R)
  BY Zenon DEF U!Cardinality, Cardinality
<1>4. \A w : U!Size(w) = Cardinality(Mine(times, ShuffledWeek, w))
  BY <1>2, <1>3, Zenon DEF U!Size
<1>5. \A w : U!InWeek(w) = InOrderOf(Mine(times, ShuffledWeek, w))
  <2> TAKE w
  <2>1. U!InWeek(w) = InOrderOf(U!OfWeek(w))
    BY Zenon DEF U!InWeek, U!Size, InOrderOf, U!Cardinality, Cardinality
  <2>2. QED
    BY <1>2, <2>1, Zenon
<1>6. SizesU = WeekSizes(times, ShuffledWeek)
  BY <1>1, <1>4, Zenon DEF SizesU, WeekSizes
<1>7. QED
  BY <1>1, <1>2, <1>4, <1>5, <1>6, Zenon

LEMMA InTimeIsU ==
  ASSUME Sampled, NEW M \in SUBSET DOMAIN times
  PROVE  U!InTime(M) = Listing(EarlierIn(times), M)
<1>1. \A R : U!Cardinality(R) = Cardinality(R)
  BY Zenon DEF U!Cardinality, Cardinality
<1>2. \A i \in M : {j \in M : U!Earlier(j, i)} = Above(EarlierIn(times), M, i)
  <2> TAKE i \in M
  <2>1. \A j \in M : <<j, i>> \in EarlierIn(times) <=> U!Earlier(j, i)
    <3> TAKE j \in M
    <3>1. i \in DOMAIN times /\ j \in DOMAIN times
      OBVIOUS
    <3>2. <<j, i>> \in EarlierIn(times)
            <=> times[j] < times[i] \/ (times[j] = times[i] /\ j < i)
      BY <3>1, EarlierIs DEF Sampled
    <3>3. QED
      BY <3>2, Zenon DEF U!Earlier
  <2>2. QED
    BY <2>1, Zenon DEF Above
<1>3. \A k : (CHOOSE i \in M : U!Cardinality({j \in M : U!Earlier(j, i)}) = k - 1)
             = (CHOOSE i \in M : Cardinality(Above(EarlierIn(times), M, i)) = k - 1)
  BY <1>1, <1>2, Zenon
<1> DEFINE f(k) == CHOOSE i \in M : U!Cardinality({j \in M : U!Earlier(j, i)}) = k - 1
           g(k) == CHOOSE i \in M : Cardinality(Above(EarlierIn(times), M, i)) = k - 1
<1>4. U!InTime(M) = [k \in 1..Cardinality(M) |-> f(k)]
  BY <1>1, Zenon DEF U!InTime
<1>5. Listing(EarlierIn(times), M) = [k \in 1..Cardinality(M) |-> g(k)]
  BY Zenon DEF Listing
<1>6. \A k : f(k) = g(k)
  BY <1>3, Zenon
<1> HIDE DEF f, g
<1>7. QED
  BY <1>4, <1>5, <1>6

LEMMA PickedIsU ==
  ASSUME NEW alloc
  PROVE  U!Picked(alloc) = PickedIn(times, ShuffledWeek, alloc)
<1>1. \A s : U!ToSet(s) = Elems(s)
  BY Zenon DEF U!ToSet, Elems
<1>2. \A w : U!ToSet(U!Spaced(U!InWeek(w), alloc[w])) = PickedOfWeek(times, ShuffledWeek, alloc, w)
  BY <1>1, WeeksAreU, SameSpacing, Zenon DEF PickedOfWeek
<1> DEFINE e(w) == U!ToSet(U!Spaced(U!InWeek(w), alloc[w]))
           d(w) == PickedOfWeek(times, ShuffledWeek, alloc, w)
           K == {e(w) : w \in U!Weeks}
           J == {d(w) : w \in WeeksIn(times, ShuffledWeek)}
<1>3. K = J
  <2>1. \A w : e(w) = d(w)
    BY <1>2, Zenon
  <2>2. U!Weeks = WeeksIn(times, ShuffledWeek)
    BY WeeksAreU, Zenon
  <2> HIDE DEF e, d
  <2>3. QED
    BY <2>1, <2>2
<1>4. U!Picked(alloc) = UNION K
  BY Zenon DEF U!Picked
<1>5. PickedIn(times, ShuffledWeek, alloc) = UNION J
  BY Zenon DEF PickedIn
<1> HIDE DEF K, J
<1>6. QED
  BY <1>3, <1>4, <1>5, Zenon

LEMMA SampleIsU ==
  ASSUME Sampled, SamplingAssumptions, NEW max \in Positive, Len(times) > max,
         NEW r \in U!Sample(max)
  PROVE  \E alloc \in AllocationsOf(WeeksIn(times, ShuffledWeek), WeekSizes(times, ShuffledWeek), max) :
           r = S!Spaced(Listing(EarlierIn(times), PickedIn(times, ShuffledWeek, alloc)), max)
<1>1. ~(Len(times) <= max)
  <2>1. Len(times) \in Int /\ max \in Int
    BY DEF Sampled, Positive
  <2>2. QED
    BY <2>1
<1>2. PICK alloc \in U!Allocations(max) : r = U!Spaced(U!InTime(U!Picked(alloc)), max)
  BY <1>1, Zenon DEF U!Sample
<1>3. alloc \in AllocationsOf(WeeksIn(times, ShuffledWeek), WeekSizes(times, ShuffledWeek), max)
  BY <1>2, AllocationsAreU, WeeksAreU, Zenon
<1>4. MinPerWeek \in Positive /\ times \in Seq(Nat)
  BY DEF SamplingAssumptions, S!BoundAssumption, Positive, Sampled
<1>5. PickedIn(times, ShuffledWeek, alloc) \in SUBSET DOMAIN times
  BY <1>3, <1>4, PickedAre
<1>6. U!InTime(U!Picked(alloc)) = Listing(EarlierIn(times), PickedIn(times, ShuffledWeek, alloc))
  BY <1>5, PickedIsU, InTimeIsU, Zenon
<1>7. QED
  BY <1>2, <1>3, <1>6, SameSpacing, Zenon

LEMMA ShortSampleU ==
  ASSUME Sampled, NEW max \in Positive, ~(Len(times) > max), NEW r \in U!Sample(max)
  PROVE  Len(r) = Len(times) /\ \A i \in DOMAIN times : i \in DOMAIN r /\ r[i] = i
<1>1. Len(times) <= max
  <2>1. Len(times) \in Int /\ max \in Int
    BY DEF Sampled, Positive
  <2>2. QED
    BY <2>1
<1>2. r = [i \in DOMAIN times |-> i]
  BY <1>1, Zenon DEF U!Sample
<1>3. DOMAIN times = 1..Len(times) /\ Len(times) \in Nat
  BY DEF Sampled
<1>4. QED
  BY <1>2, <1>3

LEMMA BudgetIsU ==
  ASSUME Sampled, SamplingAssumptions, ShuffledBudgets \subseteq Positive
  PROVE  U!BudgetIsUsed
<1> SUFFICES ASSUME NEW max \in ShuffledBudgets, NEW r \in U!Sample(max)
             PROVE  Len(r) = U!Min({Len(times), max})
  BY Zenon DEF U!BudgetIsUsed
<1>0. max \in Positive /\ max \in Int /\ Len(times) \in Int
  BY DEF Positive, Sampled
<1>1. U!Min({Len(times), max}) = IF Len(times) <= max THEN Len(times) ELSE max
  <2>1. \A R : U!Min(R) = Min(R)
    BY Zenon DEF U!Min, Min
  <2>2. Min({Len(times), max}) = IF Len(times) <= max THEN Len(times) ELSE max
    BY <1>0, MinOfTwo
  <2>3. QED
    BY <2>1, <2>2, Zenon
<1>2. CASE Len(times) > max
  <2>1. PICK alloc \in AllocationsOf(WeeksIn(times, ShuffledWeek), WeekSizes(times, ShuffledWeek), max) :
           r = S!Spaced(Listing(EarlierIn(times), PickedIn(times, ShuffledWeek, alloc)), max)
    BY <1>0, <1>2, SampleIsU
  <2>2. MinPerWeek \in Positive /\ times \in Seq(Nat)
    BY DEF SamplingAssumptions, S!BoundAssumption, Positive, Sampled
  <2>3. Len(r) = max
    BY <1>0, <1>2, <2>1, <2>2, LongSample
  <2>4. QED
    BY <1>0, <1>1, <1>2, <2>3
<1>3. CASE ~(Len(times) > max)
  <2>1. Len(r) = Len(times)
    BY <1>0, <1>3, ShortSampleU
  <2>2. QED
    BY <1>0, <1>1, <1>3, <2>1
<1>4. QED
  BY <1>2, <1>3

---------------------------------------------------------------------------
(* The properties of the sampler *)

LEMMA SamplingIs ==
  ASSUME Sampled, SamplingAssumptions
  PROVE  /\ times \in Seq(Nat) /\ MinPerWeek \in Positive
         /\ Budgets \subseteq Positive /\ ShuffledBudgets \subseteq Positive
BY DEF Sampled, SamplingAssumptions, S!BoundAssumption, S!BudgetAssumption, U!BudgetAssumption,
       Positive

LEMMA SamplingInit == S!Init => Sampled
<1>1. <<>> \in Seq(Nat)
  OBVIOUS
<1>2. QED
  BY <1>1 DEF S!Init, Sampled

LEMMA SamplingStep ==
  Sampled /\ SamplingAssumptions /\ [S!Next \/ U!Next]_times => Sampled'
<1> SUFFICES ASSUME Sampled, SamplingAssumptions, [S!Next \/ U!Next]_times PROVE Sampled'
  OBVIOUS
<1>1. CASE S!Next
  <2>1. PICK t \in 0..MaxTime : times' = Append(times, t)
    BY <1>1 DEF S!Next
  <2>2. t \in Nat
    BY DEF SamplingAssumptions, S!BoundAssumption
  <2>3. QED
    BY <2>1, <2>2 DEF Sampled
<1>2. CASE U!Next
  <2>1. PICK t \in 0..ShuffledTime : times' = Append(times, t)
    BY <1>2 DEF U!Next
  <2>2. t \in Nat
    BY DEF SamplingAssumptions, U!BoundAssumption
  <2>3. QED
    BY <2>1, <2>2 DEF Sampled
<1>3. CASE UNCHANGED times
  BY <1>3 DEF Sampled
<1>4. QED
  BY <1>1, <1>2, <1>3

\* Every sample of a long chat, by what is picked of it.
LEMMA LongSampleIs ==
  ASSUME Sampled, SamplingAssumptions, NEW max \in Positive, Len(times) > max,
         NEW r \in S!Sample(max)
  PROVE  \E alloc \in AllocationsOf(WeeksIn(times, WeekLength), WeekSizes(times, WeekLength), max) :
           LET M == PickedIn(times, WeekLength, alloc)
           IN /\ r \in Seq(DOMAIN times) /\ Len(r) = max /\ DOMAIN r = 1..max
              /\ r[max] = Listing(EarlierIn(times), M)[Cardinality(M)]
              /\ Cardinality(WeeksIn(times, WeekLength)) <= max => Elems(r) = M
<1>1. PICK alloc \in AllocationsOf(WeeksIn(times, WeekLength), WeekSizes(times, WeekLength), max) :
         r = S!Spaced(Listing(EarlierIn(times), PickedIn(times, WeekLength, alloc)), max)
  BY SampleIsS
<1>2. MinPerWeek \in Positive /\ times \in Seq(Nat)
  BY SamplingIs
<1> DEFINE M == PickedIn(times, WeekLength, alloc)
<1>3. /\ r \in Seq(DOMAIN times) /\ Len(r) = max /\ DOMAIN r = 1..max
      /\ r[max] = Listing(EarlierIn(times), M)[Cardinality(M)]
      /\ Cardinality(WeeksIn(times, WeekLength)) <= max => Elems(r) = M
  BY <1>1, <1>2, LongSample
<1>4. QED
  BY <1>3, Zenon

LEMMA WeeksHeard ==
  ASSUME Sampled, SamplingAssumptions
  PROVE  S!EveryWeekIsHeard
<1> DEFINE W == WeeksIn(times, WeekLength)
           n == WeekSizes(times, WeekLength)
<1> SUFFICES ASSUME NEW max \in Budgets, Len(times) > max, S!Cardinality(S!Weeks) <= max,
                    NEW r \in S!Sample(max), NEW w \in S!Weeks
             PROVE  LET mine == {i \in S!ToSet(r) : S!Week(times[i]) = w}
                    IN /\ S!Cardinality(mine)
                            >= S!Min({MinPerWeek, max \div S!Cardinality(S!Weeks), S!Size(w)})
                       /\ S!Last(S!InWeek(w)) \in mine
  BY Zenon DEF S!EveryWeekIsHeard
<1>1. (\A R : S!Cardinality(R) = Cardinality(R)) /\ (\A R : S!Min(R) = Min(R))
  BY Zenon DEF S!Cardinality, Cardinality, S!Min, Min
<1>2. S!Weeks = W /\ S!Size(w) = Cardinality(Mine(times, WeekLength, w))
      /\ S!InWeek(w) = InOrderOf(Mine(times, WeekLength, w))
  BY WeeksAreS, Zenon
<1>3. w \in W /\ Cardinality(W) <= max /\ max \in Positive /\ max \in Nat
  BY <1>1, <1>2, SamplingIs DEF Positive
<1>4. times \in Seq(Nat) /\ MinPerWeek \in Positive /\ times # <<>>
  <2>1. times # <<>>
    BY <1>3 DEF Positive
  <2>2. QED
    BY <2>1, SamplingIs
<1>5. PICK alloc \in AllocationsOf(W, n, max) :
         Cardinality(W) <= max => Elems(r) = PickedIn(times, WeekLength, alloc)
  BY <1>3, LongSampleIs
<1>6. PICK M : M = PickedIn(times, WeekLength, alloc)
  OBVIOUS
<1>7. {i \in M : times[i] \div WeekLength = w} = PickedOfWeek(times, WeekLength, alloc, w)
      /\ Cardinality(PickedOfWeek(times, WeekLength, alloc, w)) = alloc[w]
      /\ InOrderOf(Mine(times, WeekLength, w))[Cardinality(Mine(times, WeekLength, w))]
            \in PickedOfWeek(times, WeekLength, alloc, w)
  BY <1>3, <1>4, <1>5, <1>6, PickedAre
<1>8. S!ToSet(r) = M
  BY <1>3, <1>5, <1>6, Zenon DEF S!ToSet, Elems
<1> DEFINE mine == {i \in S!ToSet(r) : S!Week(times[i]) = w}
<1>9. mine = PickedOfWeek(times, WeekLength, alloc, w)
  BY <1>7, <1>8, Zenon DEF S!Week
<1>10. alloc[w] >= Min({MinPerWeek, max \div Cardinality(W), n[w]})
  <2>1. /\ IsFiniteSet(W) /\ W # {} /\ \A v \in W : n[v] \in Positive
        /\ SumOver(n, W) = Len(times)
    BY <1>4, WeeksOfChat
  <2>2. SumOver(n, W) > max
    BY <2>1
  <2> HIDE DEF W, n
  <2>3. QED
    BY <1>3, <1>4, <1>5, <2>1, <2>2, FloorIsKept
<1>11. n[w] = Cardinality(Mine(times, WeekLength, w))
  BY <1>3, <1>4, WeeksOfChat
<1>12. S!Cardinality(mine) >= S!Min({MinPerWeek, max \div S!Cardinality(S!Weeks), S!Size(w)})
  <2> HIDE DEF W, n, mine
  <2>1. S!Cardinality(mine) = alloc[w]
    BY <1>1, <1>7, <1>9, Zenon
  <2>2. S!Min({MinPerWeek, max \div S!Cardinality(S!Weeks), S!Size(w)})
          = Min({MinPerWeek, max \div Cardinality(W), n[w]})
    BY <1>1, <1>2, <1>11, Zenon
  <2>3. QED
    BY <1>10, <2>1, <2>2, Zenon
<1>13. S!Last(S!InWeek(w)) \in mine
  <2>1. IsFiniteSet(Mine(times, WeekLength, w)) /\ Mine(times, WeekLength, w) \in SUBSET Int
    BY <1>4, WeeksOfChat
  <2>2. Len(InOrderOf(Mine(times, WeekLength, w))) = Cardinality(Mine(times, WeekLength, w))
    <3>1. PICK Q \in SUBSET Int : Q = Mine(times, WeekLength, w) /\ IsFiniteSet(Q)
      BY <2>1
    <3>2. InOrderOf(Q) = Listing(Below, Q) /\ IsOrder(Below, Q)
      BY <3>1, InOrderIs
    <3>3. Len(Listing(Below, Q)) = Cardinality(Q)
      BY <3>1, <3>2, ListingIs
    <3>4. QED
      BY <3>1, <3>2, <3>3, Zenon
  <2>3. S!Last(S!InWeek(w))
          = InOrderOf(Mine(times, WeekLength, w))[Cardinality(Mine(times, WeekLength, w))]
    BY <1>2, <2>2, Zenon DEF S!Last
  <2> HIDE DEF mine
  <2>4. QED
    BY <1>7, <1>9, <2>3, Zenon
<1>14. QED
  BY <1>12, <1>13, Zenon

LEMMA LatestHeard ==
  ASSUME Sampled, SamplingAssumptions
  PROVE  S!LatestIsHeard
<1> SUFFICES ASSUME times # <<>>, \A i \in 2..Len(times) : times[i - 1] <= times[i],
                    NEW max \in Budgets, NEW r \in S!Sample(max)
             PROVE  Len(times) \in S!ToSet(r)
  BY Zenon DEF S!LatestIsHeard
<1>1. max \in Positive /\ times \in Seq(Nat) /\ MinPerWeek \in Positive
  BY SamplingIs
<1>2. PICK l \in Nat : l = Len(times) /\ l \in DOMAIN times
  BY <1>1
<1>3. CASE l > max
  <2>1. PICK alloc \in AllocationsOf(WeeksIn(times, WeekLength), WeekSizes(times, WeekLength), max) :
           /\ DOMAIN r = 1..max
           /\ r[max] = Listing(EarlierIn(times), PickedIn(times, WeekLength, alloc))
                         [Cardinality(PickedIn(times, WeekLength, alloc))]
    BY <1>1, <1>2, <1>3, LongSampleIs
  <2>2. PICK M : M = PickedIn(times, WeekLength, alloc)
    OBVIOUS
  <2>3. PICK w \in WeeksIn(times, WeekLength) : w = times[l] \div WeekLength
    BY <1>2 DEF WeeksIn
  <2>4. PICK Q \in SUBSET Int : Q = Mine(times, WeekLength, w) /\ IsFiniteSet(Q)
    BY <1>1, WeeksOfChat
  <2>5. l \in Q /\ \A i \in Q : i \in DOMAIN times
    BY <1>2, <2>3, <2>4, Zenon DEF Mine
  <2>6. \A i \in Q : i <= l
    <3>1. \A i \in DOMAIN times : i <= l
      BY <1>1, <1>2
    <3>2. QED
      BY <2>5, <3>1
  <2>7. M \in SUBSET DOMAIN times /\ IsFiniteSet(M)
        /\ InOrderOf(Q)[Cardinality(Q)] \in PickedOfWeek(times, WeekLength, alloc, w)
        /\ {i \in M : times[i] \div WeekLength = w} = PickedOfWeek(times, WeekLength, alloc, w)
    BY <1>1, <1>2, <1>3, <2>2, <2>4, PickedAre
  <2>8. InOrderOf(Q)[Cardinality(Q)] = l
    <3>1. InOrderOf(Q) = Listing(Below, Q) /\ IsOrder(Below, Q)
      BY <2>4, InOrderIs
    <3> DEFINE s == Listing(Below, Q)
               n == Cardinality(Q)
    <3>2. /\ n \in Nat /\ \A k \in 1..n : s[k] \in Q
          /\ \A j, k \in 1..n : j < k => <<s[j], s[k]>> \in Below
          /\ \A q \in Q : \E k \in 1..n : q = s[k]
      BY <2>4, <3>1, ListingIs, SMTT(30)
    <3> HIDE DEF s, n
    <3>3. PICK k \in 1..n : l = s[k]
      BY <2>5, <3>2
    <3>4. k < n => FALSE
      <4> SUFFICES ASSUME k < n PROVE FALSE
        OBVIOUS
      <4>1. <<l, s[n]>> \in Below /\ s[n] \in Q
        BY <3>2, <3>3
      <4>2. l < s[n] /\ s[n] \in Int
        BY <4>1 DEF Below
      <4>3. s[n] <= l
        BY <2>6, <4>1
      <4>4. QED
        BY <4>2, <4>3
    <3>5. k = n
      BY <3>2, <3>4
    <3>6. QED
      BY <3>1, <3>3, <3>5, Zenon DEF s, n
  <2>9. l \in M
    BY <2>7, <2>8
  <2>10. Listing(EarlierIn(times), M)[Cardinality(M)] = l
    BY <1>1, <1>2, <2>7, <2>9, LastIsLatest
  <2>11. r[max] = l /\ max \in DOMAIN r
    BY <1>1, <2>1, <2>2, <2>10 DEF Positive
  <2>12. QED
    BY <1>2, <2>11, Zenon DEF S!ToSet
<1>4. CASE ~(l > max)
  <2>1. l \in DOMAIN r /\ r[l] = l
    BY <1>1, <1>2, <1>4, ShortSampleS
  <2>2. QED
    BY <1>2, <2>1, Zenon DEF S!ToSet
<1>5. QED
  BY <1>3, <1>4

LEMMA BusierHeardMore ==
  ASSUME Sampled, SamplingAssumptions
  PROVE  S!BusierWeeksGetMore
<1> DEFINE W == WeeksIn(times, WeekLength)
           n == WeekSizes(times, WeekLength)
<1> SUFFICES ASSUME NEW max \in Budgets, Len(times) > max, NEW alloc \in S!Allocations(max),
                    NEW v \in S!Weeks, NEW w \in S!Weeks, S!Size(v) < S!Size(w)
             PROVE  alloc[v] <= alloc[w]
  BY Zenon DEF S!BusierWeeksGetMore
<1>1. max \in Positive /\ times \in Seq(Nat) /\ MinPerWeek \in Positive
  BY SamplingIs
<1>2. times # <<>>
  BY <1>1 DEF Positive
<1>3. v \in W /\ w \in W /\ alloc \in AllocationsOf(W, n, max)
      /\ S!Size(v) = Cardinality(Mine(times, WeekLength, v))
      /\ S!Size(w) = Cardinality(Mine(times, WeekLength, w))
  BY WeeksAreS, AllocationsAreS, Zenon
<1>4. /\ IsFiniteSet(W) /\ W # {} /\ \A u \in W : n[u] \in Positive
      /\ SumOver(n, W) = Len(times)
      /\ \A u \in W : n[u] = Cardinality(Mine(times, WeekLength, u))
  BY <1>1, <1>2, WeeksOfChat
<1>5. SumOver(n, W) > max
  BY <1>4
<1>6. n[v] < n[w]
  BY <1>3, <1>4, Zenon
<1> HIDE DEF W, n
<1>7. QED
  BY <1>1, <1>3, <1>4, <1>5, <1>6, BusierGetMore

LEMMA TimelineSpaced ==
  ASSUME Sampled, SamplingAssumptions
  PROVE  S!TimelineIsSpaced
<1> SUFFICES ASSUME NEW k \in Budgets \ {1}
             PROVE  S!Timeline(Len(times), k) = S!ToSet(S!Spaced([i \in 1..Len(times) |-> i], k))
  BY Zenon DEF S!TimelineIsSpaced
<1>1. PICK n \in Nat : n = Len(times)
  BY SamplingIs
<1>2. k \in Positive /\ k # 1 /\ k \in Int
  BY SamplingIs DEF Positive
<1>3. PICK s : s = [i \in 1..n |-> i]
  OBVIOUS
<1>4. DOMAIN s = 1..n /\ Len(s) = n /\ \A i \in 1..n : s[i] = i
  BY <1>3
<1>5. CASE n <= k
  <2>1. k >= Len(s)
    BY <1>2, <1>4, <1>5
  <2>2. S!Spaced(s, k) = s
    BY <2>1, Zenon DEF S!Spaced
  <2>3. S!Timeline(n, k) = 1..n
    BY <1>5, Zenon DEF S!Timeline
  <2>4. Elems(s) = 1..n
    BY <1>4 DEF Elems
  <2>5. S!Timeline(n, k) = S!ToSet(s)
    BY <2>3, <2>4, Zenon DEF S!ToSet, Elems
  <2>6. s = [i \in 1..Len(times) |-> i]
    BY <1>1, <1>3
  <2>7. S!ToSet(s) = S!ToSet(S!Spaced(s, k))
    BY <2>2
  <2>8. S!Timeline(n, k) = S!ToSet(S!Spaced(s, k))
    BY <2>5, <2>7
  <2>9. QED
    BY <1>1, <2>6, <2>8
<1>6. CASE ~(n <= k)
  <2>1. n \in Positive /\ ~(k >= n) /\ Fewer(n, k) = k
    BY <1>2, <1>6 DEF Positive, Fewer
  <2>2. \A i \in 1..k : Place(n, k, i) \in 1..n
    BY <1>2, <2>1, PlacesAre
  <2> DEFINE e(i) == 1 + S!Round(i * (n - 1), k - 1)
             r == S!Spaced(s, k)
  <2>3. \A i : Place(n, k, i) = e(i - 1)
    BY <1>2, <2>1, Zenon DEF Place
  <2>4. \A i \in 1..k : i - 1 \in 0..(k - 1)
    BY <1>2
  <2>5. \A i \in 0..(k - 1) : i + 1 \in 1..k /\ (i + 1) - 1 = i
    BY <1>2
  <2>6. S!Timeline(n, k) = {e(i) : i \in 0..(k - 1)}
    BY <1>6, Zenon DEF S!Timeline
  <2>7. r = [i \in 1..k |-> s[e(i - 1)]]
    BY <1>2, <1>4, <2>1, Zenon DEF S!Spaced
  <2> HIDE DEF e, r
  <2>8. \A i \in 1..k : s[e(i - 1)] = e(i - 1)
    BY <1>4, <2>2, <2>3
  <2>9. DOMAIN r = 1..k /\ \A i \in 1..k : r[i] = e(i - 1)
    BY <2>7, <2>8
  <2>10. \A x : x \in Elems(r) <=> \E i \in 1..k : x = e(i - 1)
    BY <2>9 DEF Elems
  <2>11. \A x : (\E i \in 1..k : x = e(i - 1)) <=> (\E i \in 0..(k - 1) : x = e(i))
    <3> TAKE x
    <3>1. ASSUME NEW i \in 1..k, x = e(i - 1) PROVE \E j \in 0..(k - 1) : x = e(j)
      BY <2>4, <3>1, Zenon
    <3>2. ASSUME NEW i \in 0..(k - 1), x = e(i) PROVE \E j \in 1..k : x = e(j - 1)
      <4>1. x = e((i + 1) - 1)
        BY <2>5, <3>2, Zenon
      <4>2. QED
        BY <2>5, <4>1, Zenon
    <3>3. QED
      BY <3>1, <3>2, Zenon
  <2> DEFINE A == Elems(r)
             B == {e(i) : i \in 0..(k - 1)}
  <2>12. \A x : x \in A <=> x \in B
    BY <2>10, <2>11, Zenon
  <2> HIDE DEF A, B
  <2>13. A = B
    BY <2>12
  <2>14. QED
    BY <1>1, <1>3, <2>6, <2>13, Zenon DEF A, B, r, S!ToSet, Elems
<1>7. QED
  BY <1>5, <1>6

LEMMA ShuffledChronological ==
  ASSUME Sampled, SamplingAssumptions
  PROVE  U!Chronological
<1> SUFFICES ASSUME NEW max \in ShuffledBudgets, Len(times) > max, NEW r \in U!Sample(max),
                    NEW i \in 2..Len(r)
             PROVE  U!Earlier(r[i - 1], r[i])
  BY Zenon DEF U!Chronological
<1>1. max \in Positive /\ times \in Seq(Nat) /\ MinPerWeek \in Positive
  BY SamplingIs
<1>2. PICK alloc \in AllocationsOf(WeeksIn(times, ShuffledWeek), WeekSizes(times, ShuffledWeek), max) :
         r = S!Spaced(Listing(EarlierIn(times), PickedIn(times, ShuffledWeek, alloc)), max)
  BY <1>1, SampleIsU
<1>3. /\ r \in Seq(DOMAIN times) /\ Len(r) = max /\ DOMAIN r = 1..max
      /\ \A a, b \in DOMAIN r : a < b => <<r[a], r[b]>> \in EarlierIn(times)
  BY <1>1, <1>2, LongSample
<1>4. i \in DOMAIN r /\ i - 1 \in DOMAIN r /\ i - 1 < i
  BY <1>1, <1>3 DEF Positive
<1>5. <<r[i - 1], r[i]>> \in EarlierIn(times) /\ r[i - 1] \in DOMAIN times /\ r[i] \in DOMAIN times
  <2>1. r \in Seq(DOMAIN times)
    BY <1>3, Zenon
  <2>2. \A a \in DOMAIN r : r[a] \in DOMAIN times
    BY <2>1
  <2>3. QED
    BY <1>3, <1>4, <2>2
<1>6. PICK a \in DOMAIN times, b \in DOMAIN times : a = r[i - 1] /\ b = r[i]
  BY <1>5
<1>7. <<a, b>> \in EarlierIn(times) <=> times[a] < times[b] \/ (times[a] = times[b] /\ a < b)
  BY <1>1, EarlierIs
<1>8. QED
  BY <1>5, <1>6, <1>7, Zenon DEF U!Earlier

---------------------------------------------------------------------------
(* The analyzers together: what each is given is as the parsers leave it. *)

Given == /\ EventsTyped /\ Weekly /\ Chatting
         /\ Exported /\ Sampled /\ Toned

LEMMA AssumptionsHold ==
  /\ E!BoundAssumption /\ E!ThresholdAssumption /\ D!KindsAssumption /\ ChatAssumptions
  /\ ExportAssumptions /\ SamplingAssumptions /\ ToneAssumptions
BY EpisodeAssumption, DecayAssumption, ConversationAssumption, ParsingAssumption,
   SamplingAssumption, ToneAssumption
   DEF ChatAssumptions, ExportAssumptions, SamplingAssumptions, ToneAssumptions

LEMMA GivenInit == Init => Given
<1> SUFFICES ASSUME Init PROVE Given
  OBVIOUS
<1>1. P!Init /\ S!Init /\ C!Init /\ D!Init /\ E!Init /\ T!Init
  BY DEF Init
<1>2. EventsTyped /\ Weekly /\ Chatting
  BY <1>1, EventsTypedInit, WeeklyInit, ChatInit
<1>3. Exported /\ Sampled /\ Toned
  BY <1>1, ExportInit, SamplingInit, ToneInit, AssumptionsHold
<1>4. QED
  BY <1>2, <1>3 DEF Given

\* A step is a step of one of them or none.
LEMMA StepsAre ==
  [Next]_vars => /\ [E!Next]_(E!vars) /\ [D!Next]_weeks /\ [C!Next]_chat
                 /\ [P!Next]_(P!vars) /\ [S!Next \/ U!Next]_times /\ [T!Next]_sample
<1> SUFFICES ASSUME [Next]_vars
             PROVE  /\ [E!Next]_(E!vars) /\ [D!Next]_weeks /\ [C!Next]_chat
                    /\ [P!Next]_(P!vars) /\ [S!Next \/ U!Next]_times /\ [T!Next]_sample
  OBVIOUS
<1>1. CASE Parsing
  BY <1>1 DEF Parsing, E!vars, episodeVars
<1>2. CASE SamplingIt
  BY <1>2 DEF SamplingIt, E!vars, episodeVars, P!vars, parsingVars
<1>3. CASE Conversing
  BY <1>3 DEF Conversing, E!vars, episodeVars, P!vars, parsingVars
<1>4. CASE Decaying
  BY <1>4 DEF Decaying, E!vars, episodeVars, P!vars, parsingVars
<1>5. CASE Quarrelling
  BY <1>5 DEF Quarrelling, P!vars, parsingVars
<1>6. CASE Toning
  BY <1>6 DEF Toning, E!vars, episodeVars, P!vars, parsingVars
<1>7. CASE UNCHANGED vars
  BY <1>7 DEF vars, E!vars, episodeVars, P!vars, parsingVars
<1>8. QED
  BY <1>1, <1>2, <1>3, <1>4, <1>5, <1>6, <1>7 DEF Next

LEMMA GivenStep == Given /\ [Next]_vars => Given'
<1> SUFFICES ASSUME Given, [Next]_vars PROVE Given'
  OBVIOUS
<1>1. /\ [E!Next]_(E!vars) /\ [D!Next]_weeks /\ [C!Next]_chat
      /\ [P!Next]_(P!vars) /\ [S!Next \/ U!Next]_times /\ [T!Next]_sample
  BY StepsAre
<1>2. EventsTyped'
  BY <1>1, EventsTypedStep DEF Given
<1>3. Weekly'
  BY <1>1, WeeklyStep DEF Given
<1>4. Chatting'
  BY <1>1, ChatStep, AssumptionsHold DEF Given
<1>5. Exported'
  BY <1>1, ExportStep DEF Given
<1>6. Sampled'
  BY <1>1, SamplingStep, AssumptionsHold DEF Given
<1>7. Toned'
  BY <1>1, ToneStep, AssumptionsHold DEF Given
<1>8. QED
  BY <1>2, <1>3, <1>4, <1>5, <1>6, <1>7 DEF Given

LEMMA GivenAlways == Spec => []Given
BY GivenInit, GivenStep, PTL DEF Spec

\* What the parser hands on of an export has the dates it was written with, none
\* of its text is lost but what the cap cuts off, and the caps on messages and on
\* characters are exact (whatsapp.py:181, base.py:12), for exports of any length
\* from any of the platforms.
THEOREM ExportReadTrue == Spec => []ExportIsReadTrue
<1>1. Given => ExportIsReadTrue
  BY DatesAreFound, AllIsKept, ChatsAreCapped, CapsAreExact, AssumptionsHold
     DEF Given, ExportIsReadTrue
<1>2. QED
  BY <1>1, GivenAlways, PTL

\* The sample uses exactly its budget however the shares round, hears every week
\* and the newest message, favours busier weeks and is chronological
\* (sentiment.py:524), and the narrative thins its timeline alike
\* (narrative.py:279), for chats of any length, any weeks and any budgets.
THEOREM SampleFair == Spec => []SampleIsFair
<1>1. Given => SampleIsFair
  <2> SUFFICES ASSUME Sampled, SamplingAssumptions PROVE SampleIsFair
    BY AssumptionsHold DEF Given
  <2>1. Budgets \subseteq Positive /\ ShuffledBudgets \subseteq Positive
    BY SamplingIs
  <2>2. /\ S!BudgetIsUsed /\ S!EveryWeekIsHeard /\ S!LatestIsHeard
        /\ S!BusierWeeksGetMore /\ S!TimelineIsSpaced
    BY <2>1, BudgetIsS, WeeksHeard, LatestHeard, BusierHeardMore, TimelineSpaced
  <2>3. U!Chronological /\ U!BudgetIsUsed
    BY <2>1, ShuffledChronological, BudgetIsU
  <2>4. QED
    BY <2>2, <2>3 DEF SampleIsFair
<1>2. QED
  BY <1>1, GivenAlways, PTL

\* The dominant tone is a largest one however the shares round. The quarter that
\* is reported as the turning point of the drift is the one in which the two
\* parted exactly when both wrote in every quarter before it, and an earlier one
\* otherwise; the drift is not moved by a message in a quarter in which the other
\* one never wrote. A shift has a baseline, is someone's whose delta to three
\* decimals is as large, and is not moved by volume (sentiment.py:252, 289, 371),
\* for any number of writers and messages.
THEOREM ToneOfBoth == Spec => ToneIsOfBoth
<1> DEFINE Silent == \A a, b \in T!Writers :
                       (/\ a # b /\ T!Last(sample').by = a
                        /\ \A i \in T!Of(b) : T!Quarter(i) # T!Last(sample').at \div QuarterLength)
                       => T!Drift' = T!Drift
           Voluminous == \A p \in T!Both :
                           (/\ T!Last(sample').by = p /\ T!Last(sample').at = T!Last(sample).at
                            /\ T!Last(sample').score * T!Cardinality(T!Of(p) \cap T!Recent)
                                 = T!Sum(T!Of(p) \cap T!Recent))
                           => T!Shifts' = T!Shifts
           True == T!DominantIsLargest /\ T!TurnsWhereTheyParted /\ T!ShiftHasABaseline
<1>1. Given => True
  BY ToneInvariant, AssumptionsHold DEF Given
<1>2. Given /\ [Next]_vars => [Silent]_sample
  BY ToneStands, AssumptionsHold, StepsAre DEF Given
<1>3. Given /\ [Next]_vars => [Voluminous]_sample
  BY ToneStands, AssumptionsHold, StepsAre DEF Given
<1>4. ToneIsOfBoth <=> []True /\ [][Silent]_sample /\ [][Voluminous]_sample
  BY DEF ToneIsOfBoth, T!SilenceIsNoTone, T!VolumeDoesNotShift
<1> HIDE DEF Silent, Voluminous, True
<1>5. QED
  BY <1>1, <1>2, <1>3, <1>4, GivenAlways, PTL DEF Spec

\* The episodes are the maximal runs of conflict days, count each mention once,
\* and the narrative is given the grave ones (conflict.py:105, narrative.py:306),
\* for every length of the chat and all thresholds.
THEOREM EpisodesWhole == Spec => []EpisodesAreWhole
<1>1. Given => EpisodesAreWhole
  BY EpisodesHold, AssumptionsHold DEF Given, EpisodesAreWhole
<1>2. QED
  BY <1>1, GivenAlways, PTL

\* The start of a decay is a week that shows a drop, its end is not in the tail
\* of the chat, its turning point is where the health got worse, and the trend
\* agrees with the score (temporal.py:441), for any weeks.
THEOREM VerdictInTheWeeks == Spec => []VerdictIsInTheWeeks
<1>1. Given => VerdictIsInTheWeeks
  BY VerdictHolds, AssumptionsHold DEF Given, VerdictIsInTheWeeks, Verdict
<1>2. QED
  BY <1>1, GivenAlways, PTL

\* Every silence of more than six hours ends a conversation and none of an hour
\* or less does, breaks are as rare as the percentile says, and an initiative
\* follows an opening of one's own (temporal.py:774, 169), for any two people and
\* chats of any length.
THEOREM BlocksFollow == Spec => []BlocksFollowSilences
<1>1. Given => BlocksFollowSilences
  BY ChatIsRead, AssumptionsHold DEF Given, BlocksFollowSilences, Blocks
<1>2. QED
  BY <1>1, GivenAlways, PTL

\* Handoffs and neighbours find the same answers; percentiles, shares, covered
\* days, silences and balances of one chat do not contradict each other.
THEOREM MetricsTellOneStory == Spec => []MetricsAgree
<1>1. Given => MetricsAgree
  BY ChatIsRead, AssumptionsHold DEF Given, MetricsAgree, Metrics
<1>2. QED
  BY <1>1, GivenAlways, PTL

\* One more message leaves every conversation between silences above the ceiling
\* and without a gap above the floor whole, with the opening it had, even when it
\* moves the percentile threshold (temporal.py:744-758); as long as the threshold
\* stays, no finished conversation changes its kind; when it moves, the code may
\* cut them anew. No message lowers the neglect of a week, and no event splits,
\* shrinks or plays down an episode.
THEOREM PastStandsStill == Spec => PastStands
<1> DEFINE Finished == /\ \A s \in C!Starts : C!Settled(s) =>
                            s \in C!Starts' /\ C!End(s)' = C!End(s) /\ C!Opening(s)' = C!Opening(s)
                       /\ C!AdaptiveGap' = C!AdaptiveGap =>
                            \A s \in C!Starts : C!End(s) < Len(chat) =>
                              s \in C!Starts' /\ C!Kind(s)' = C!Kind(s)
           Neglected == \A w \in C!Weeks : C!Neglect(w)' >= C!Neglect(w)
           Growing == \A e \in E!AllEpisodes : \E f \in E!AllEpisodes' :
                        /\ f.start <= e.start /\ e.end <= f.end
                        /\ f.mentions >= e.mentions /\ f.missed >= e.missed
                        /\ e.blocked => f.blocked
                        /\ e.severity = "high" => f.severity = "high"
<1>1. Given /\ [Next]_vars => [Finished]_chat
  <2> SUFFICES ASSUME Given, C!Next PROVE Finished
    BY StepsAre
  <2>1. QED
    BY FinishedStep, SettledStep, AssumptionsHold DEF Given
<1>2. Given /\ [Next]_vars => [Neglected]_chat
  <2> SUFFICES ASSUME Given, C!Next PROVE Neglected
    BY StepsAre
  <2>1. QED
    BY NeglectStep, AssumptionsHold DEF Given
<1>3. Given /\ Given' /\ [Next]_vars => [Growing]_(E!vars)
  <2> SUFFICES ASSUME Given, Given', [E!Next]_(E!vars) PROVE Growing
    BY StepsAre
  <2>1. EventsTyped /\ EventsTyped'
    BY DEF Given
  <2>2. QED
    BY <2>1, ChatGrows, EpisodeGrows, AssumptionsHold, Zenon DEF Outgrows
<1>4. PastStands <=> [][Finished]_chat /\ [][Neglected]_chat /\ [][Growing]_(E!vars)
  BY DEF PastStands, C!FinishedConversationsStand, C!NeglectIsNotMasked, E!EpisodesOnlyGrow
<1> HIDE DEF Finished, Neglected, Growing
<1>5. QED
  BY <1>1, <1>2, <1>3, <1>4, GivenAlways, PTL DEF Spec
=============================================================================
