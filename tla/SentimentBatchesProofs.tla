---------------------- MODULE SentimentBatchesProofs -----------------------
(***************************************************************************)
(* Theorems about SentimentBatches, for samples, batches and responses of  *)
(* any size, any number of threads and retries and any allowed share.      *)
(***************************************************************************)
EXTENDS SentimentBatches, FiniteSums

---------------------------------------------------------------------------
(* The batches cut the sample *)

Count == (n + BatchSize - 1) \div BatchSize

\* How many texts lie before batch b; all of them behind the last one.
Before(b) == IF b \in Batches THEN First(b) - 1 ELSE n

LEMMA CountIs ==
  ASSUME n \in Nat
  PROVE  /\ Count \in Nat /\ Batches = 1..Count
         /\ (Count - 1) * BatchSize < n \/ Count = 0
         /\ n <= Count * BatchSize
         /\ Count = 0 => n = 0
BY SizeAssumption DEF Count, Batches

\* Every batch has at least one text, and the batches follow one another.
LEMMA BatchesCut ==
  ASSUME n \in Nat, NEW b \in Batches
  PROVE  /\ Size(b) \in Nat \ {0} /\ First(b) \in Nat \ {0} /\ b \in Nat \ {0}
         /\ Before(b) \in Nat /\ First(b) = Before(b) + 1
         /\ Before(b + 1) = Before(b) + Size(b)
<1>1. /\ b \in Nat \ {0} /\ b <= Count /\ Count \in Nat /\ BatchSize \in Nat \ {0}
      /\ (Count - 1) * BatchSize < n /\ n <= Count * BatchSize
  BY CountIs, SizeAssumption
<1>2. PICK p \in Nat : p = (b - 1) * BatchSize
  <2>1. b - 1 \in Nat
    BY <1>1
  <2>2. (b - 1) * BatchSize \in Nat
    BY <1>1, <2>1
  <2>3. QED
    BY <2>2
<1>3. p <= (Count - 1) * BatchSize
  <2>1. \A i, j \in Nat : i <= j => i * BatchSize <= j * BatchSize
    BY <1>1
  <2>2. b - 1 \in Nat /\ Count - 1 \in Nat /\ b - 1 <= Count - 1
    BY <1>1
  <2>3. QED
    BY <1>2, <2>1, <2>2
<1>4. p < n /\ First(b) = p + 1
  BY <1>1, <1>2, <1>3 DEF First
<1>5. Size(b) = IF BatchSize <= n - p THEN BatchSize ELSE n - p
  BY <1>1, <1>4, MinOfTwo DEF Size
<1>6. Before(b) = p
  BY <1>4 DEF Before
<1>7. First(b + 1) = p + BatchSize + 1
  BY <1>1, <1>2 DEF First
<1>8. CASE b = Count
  <2>1. n <= p + BatchSize
    BY <1>1, <1>2, <1>8
  <2>2. Before(b + 1) = n
    BY <1>1, <1>8, CountIs DEF Before
  <2>3. QED
    BY <1>1, <1>4, <1>5, <1>6, <2>1, <2>2
<1>9. CASE b < Count
  <2>1. b + 1 \in Batches
    BY <1>1, <1>9, CountIs
  <2>2. Before(b + 1) = p + BatchSize
    BY <1>1, <1>7, <2>1 DEF Before
  <2>3. p + BatchSize < n
    <3>1. \A i, j \in Nat : i <= j => i * BatchSize <= j * BatchSize
      BY <1>1
    <3>2. b * BatchSize <= (Count - 1) * BatchSize
      BY <1>1, <1>9, <3>1
    <3>3. b * BatchSize = p + BatchSize
      BY <1>1, <1>2
    <3>4. QED
      BY <1>1, <3>2, <3>3
  <2>4. QED
    BY <1>1, <1>4, <1>5, <1>6, <2>2, <2>3
<1>10. QED
  BY <1>1, <1>8, <1>9

LEMMA BatchesAreCounted ==
  ASSUME n \in Nat, NEW F, NEW f \in [Batches -> F]
  PROVE  f \in Seq(F) /\ Len(f) = Count /\ IsFiniteSet(Batches)
<1>1. Count \in Nat /\ Batches = 1..Count
  BY CountIs
<1>2. IsFiniteSet(Batches)
  BY <1>1, FS_Interval
<1>3. QED
  BY <1>1, <1>2

---------------------------------------------------------------------------
(* A response rates texts of its own batch *)

\* What a batch may be scored as: each text has its own mood or none.
Ratings(b) == {p \in [1..Size(b) -> Int] :
                 \A k \in 1..Size(b) : p[k] \in {Mood(First(b) + k - 1), Unscored}}

\* The loop over the items of a response, one item later.
TakeItem(b, response, acc, j) ==
  IF response[j] + 1 \in DOMAIN acc /\ Taken(response, j)
  THEN [acc EXCEPT ![response[j] + 1] = Says(b, response, j)] ELSE acc

LEMMA ItemKeeps ==
  ASSUME n \in Nat, NEW b \in Batches, NEW response \in Responses(b),
         NEW acc \in Ratings(b), NEW j \in DOMAIN response
  PROVE  TakeItem(b, response, acc, j) \in Ratings(b)
<1>1. CASE response[j] + 1 \in DOMAIN acc /\ Taken(response, j)
  <2>1. Says(b, response, j) = Mood(First(b) + response[j])
    BY <1>1 DEF Says, Taken
  <2>2. PICK k \in 1..Size(b) : k = response[j] + 1
    BY <1>1 DEF Ratings
  <2>3. TakeItem(b, response, acc, j) = [acc EXCEPT ![k] = Says(b, response, j)]
    BY <1>1, <2>2 DEF TakeItem
  <2>4. response[j] \in Int
    BY DEF Responses
  <2>5. Says(b, response, j) = Mood(First(b) + k - 1) /\ Says(b, response, j) \in Int
    BY <2>1, <2>2, <2>4, BatchesCut DEF Mood
  <2>6. QED
    BY <2>3, <2>5 DEF Ratings
<1>2. CASE ~(response[j] + 1 \in DOMAIN acc /\ Taken(response, j))
  BY <1>2 DEF TakeItem
<1>3. QED
  BY <1>1, <1>2

\* The fold of _parse_batch, as a function of the sets of items taken so far.
Parses(b, response, g) ==
  LET index == [i \in DOMAIN response |-> i]
  IN  g = [s \in SUBSET DOMAIN index |->
             IF s = {} THEN [k \in 1..Size(b) |-> Unscored]
             ELSE LET x == Max(s)
                  IN  TakeItem(b, response, g[s \ {x}], index[x])]

\* Whatever the model sends, the result of a batch rates its own texts.
LEMMA ParseBatchIs ==
  ASSUME n \in Nat, NEW b \in Batches, NEW response \in Responses(b)
  PROVE  ParseBatch(b, response) \in Ratings(b)
<1> DEFINE D == DOMAIN response
           V == Ratings(b)
           base == [k \in 1..Size(b) |-> Unscored]
           h == [p \in D \X V |-> TakeItem(b, response, p[2], p[1])]
           c == [s \in SUBSET D |-> Max(s)]
           G == CHOOSE g : Parses(b, response, g)
<1>1. PICK m \in Nat : D = 1..m
  BY DEF Responses
<1>2. IsFiniteSet(D)
  BY <1>1, FS_Interval
<1>3. base \in V
  BY BatchesCut DEF Ratings, Unscored
<1>4. h \in [D \X V -> V]
  BY ItemKeeps
<1>5. \A s \in SUBSET D : s # {} => c[s] \in s /\ c[s] = Max(s)
  <2>1. SUBSET D \subseteq SUBSET (0..m)
    BY <1>1
  <2>2. \A s \in SUBSET D : s # {} => Max(s) \in s
    BY <2>1, GreatestElement
  <2>3. QED
    BY <2>2
<1>6. PICK g \in [SUBSET D -> V] : FoldAt(base, h, c, D, g)
  <2> HIDE DEF D, V, base, h, c
  <2>1. \A s \in SUBSET D : s # {} => c[s] \in s
    BY <1>5
  <2>2. QED
    BY <1>2, <1>3, <1>4, <2>1, FoldExists
<1>7. Parses(b, response, g)
  <2> DEFINE index == [i \in DOMAIN response |-> i]
  <2>0. DOMAIN index = D
    OBVIOUS
  <2>1. ASSUME NEW s \in SUBSET D, s # {}
        PROVE  g[s] = TakeItem(b, response, g[s \ {Max(s)}], index[Max(s)])
    <3>1. Max(s) \in D /\ c[s] = Max(s) /\ g[s \ {Max(s)}] \in V
      BY <1>5, <1>6, <2>1
    <3>2. h[<<Max(s), g[s \ {Max(s)}]>>] = TakeItem(b, response, g[s \ {Max(s)}], Max(s))
      BY <3>1
    <3>3. g[s] = h[<<c[s], g[s \ {c[s]}]>>]
      BY <1>6, <2>1 DEF FoldAt
    <3>4. index[Max(s)] = Max(s)
      BY <3>1
    <3> QED
      BY <3>1, <3>2, <3>3, <3>4
  <2>2. g[{}] = base
    BY <1>6 DEF FoldAt
  <2>3. g = [s \in SUBSET D |-> g[s]]
    BY <1>6
  <2>4. g = [s \in SUBSET D |->
               IF s = {} THEN [k \in 1..Size(b) |-> Unscored]
               ELSE TakeItem(b, response, g[s \ {Max(s)}], index[Max(s)])]
    BY <2>1, <2>2, <2>3
  <2>5. QED
    BY <2>0, <2>4, Zenon DEF Parses
<1>8. Parses(b, response, G)
  BY <1>7, Zenon
<1>9. SameStep(c, D, G, g)
  <2> DEFINE index == [i \in DOMAIN response |-> i]
  <2>0. DOMAIN index = D
    OBVIOUS
  <2>1. \A s \in SUBSET D :
          /\ G[s] = IF s = {} THEN [k \in 1..Size(b) |-> Unscored]
                    ELSE TakeItem(b, response, G[s \ {Max(s)}], index[Max(s)])
          /\ g[s] = IF s = {} THEN [k \in 1..Size(b) |-> Unscored]
                    ELSE TakeItem(b, response, g[s \ {Max(s)}], index[Max(s)])
    BY <1>7, <1>8, <2>0, Zenon DEF Parses
  <2> HIDE DEF G, index
  <2>2. QED
    BY <2>1, Zenon DEF SameStep
<1>10. G[D] = g[D]
  <2> HIDE DEF D, V, base, h, c, G
  <2>1. \A s \in SUBSET D : s # {} => c[s] \in s
    BY <1>5
  <2>2. \A s \in SUBSET D : G[s] = g[s]
    BY <1>2, <1>9, <2>1, FoldUnique
  <2>3. QED
    BY <2>2
<1>11. ParseBatch(b, response) = G[D]
  BY Zenon DEF ParseBatch, FoldLeftDomain, FoldLeft, MapThenFoldSet, Parses, TakeItem
<1>12. QED
  BY <1>6, <1>10, <1>11

---------------------------------------------------------------------------
(* What holds between the pool and the main thread *)

Missings == [b \in Batches |-> batch[b].missing]
Unrated(s) == {k \in DOMAIN s : s[k] = Unscored}

\* A thread that may still call has a retry left; a batch is scored with
\* ratings of its own texts, and knows how many it lacks.
ThreadInv ==
  \A b \in Batches :
    /\ batch[b].state \in {"queued", "running"} => batch[b].attempts <= MaxRetries
    /\ batch[b].state = "scored" => /\ batch[b].scores \in Ratings(b)
                                    /\ batch[b].missing = Cardinality(Unrated(batch[b].scores))

\* Only while the main thread collects do batches wait; when it judges or falls
\* back none runs either.
PoolInv ==
  /\ main # "collecting" => \A b \in Batches : batch[b].state # "queued"
  /\ main \in {"judging", "falling_back", "llm", "local", "unavailable"} =>
       \A b \in Batches : batch[b].state # "running"

\* The batches in front of the one awaited were scored, and there is one score
\* for each of their texts.
CollectInv ==
  /\ \A c \in 1..(next - 1) : c \in Batches /\ batch[c].state = "scored"
  /\ main \in {"judging", "llm"} => next \notin Batches
  /\ main \in {"collecting", "judging", "llm"} =>
       /\ Len(scores) = Before(next)
       /\ \A k \in 1..Len(scores) : scores[k] \in {Mood(k), Unscored}
       /\ Cardinality(Unrated(scores)) = SumOver(Missings, 1..(next - 1))

\* What is accepted was judged; what falls back is scored anew.
JudgedInv == /\ main = "llm" => ~TooManyMissing
             /\ main = "local" => scores = [k \in 1..n |-> Mood(k)]

BatchInv == TypeOK /\ ThreadInv /\ PoolInv /\ CollectInv /\ JudgedInv

LEMMA Typed ==
  ASSUME TypeOK
  PROVE  /\ n \in Nat /\ next \in Nat \ {0} /\ next <= Count + 1 /\ Count \in Nat
         /\ Batches = 1..Count /\ IsFiniteSet(Batches) /\ scores \in Seq(Int)
         /\ \A b \in Batches : batch[b] \in Future
<1>1. n \in Nat
  BY BoundAssumption DEF TypeOK
<1>2. batch \in [Batches -> Future]
  BY DEF TypeOK
<1>3. Len(batch) = Count /\ IsFiniteSet(Batches)
  BY <1>1, <1>2, BatchesAreCounted
<1>4. QED
  BY <1>1, <1>2, <1>3, CountIs DEF TypeOK

\* The batches of a state with as many texts are the same.
LEMMA SameBatches ==
  ASSUME n' = n
  PROVE  /\ Batches' = Batches /\ Count' = Count
         /\ \A b : Size(b)' = Size(b) /\ First(b)' = First(b)
         /\ \A b : Ratings(b)' = Ratings(b) /\ Before(b)' = Before(b)
<1>1. Batches' = Batches /\ Count' = Count
  BY DEF Batches, Count
<1>2. \A b : Size(b)' = Size(b) /\ First(b)' = First(b)
  BY DEF Size, First
<1>3. \A b : Ratings(b)' = Ratings(b) /\ Before(b)' = Before(b)
  BY <1>1, <1>2 DEF Ratings, Before
<1>4. QED
  BY <1>1, <1>2, <1>3

LEMMA RatingsAreScores ==
  ASSUME n \in Nat, NEW b \in Batches, NEW p \in Ratings(b)
  PROVE  p \in Seq(Int) /\ Len(p) = Size(b) /\ DOMAIN p = 1..Size(b)
BY BatchesCut DEF Ratings

LEMMA UnratedIsFinite ==
  ASSUME NEW s \in Seq(Int)
  PROVE  IsFiniteSet(Unrated(s)) /\ Cardinality(Unrated(s)) \in Nat
<1>1. Unrated(s) \in SUBSET (1..Len(s)) /\ IsFiniteSet(1..Len(s))
  BY FS_Interval DEF Unrated
<1>2. QED
  BY <1>1, SubsetSize

\* Texts without a rating add up when scores are appended.
LEMMA UnratedAdds ==
  ASSUME NEW s \in Seq(Int), NEW p \in Seq(Int)
  PROVE  Cardinality(Unrated(s \o p)) = Cardinality(Unrated(s)) + Cardinality(Unrated(p))
<1> DEFINE T == {k + Len(s) : k \in Unrated(p)}
           f == [k \in Unrated(p) |-> k + Len(s)]
<1>1. f \in Bijection(Unrated(p), T)
  <2>1. \A j, k \in Unrated(p) : j # k => f[j] # f[k]
    BY DEF Unrated
  <2>2. QED
    BY <2>1 DEF Bijection, Injection, Surjection, IsInjective
<1>2. IsFiniteSet(T) /\ Cardinality(T) = Cardinality(Unrated(p))
  <2>1. ExistsBijection(Unrated(p), T)
    BY <1>1 DEF ExistsBijection
  <2>2. QED
    BY <2>1, UnratedIsFinite, FS_Bijection
<1>3. Unrated(s \o p) = Unrated(s) \cup T
  <2>1. \A k : k \in Unrated(s \o p) => k \in Unrated(s) \cup T
    <3> SUFFICES ASSUME NEW k \in Unrated(s \o p), k \notin Unrated(s) PROVE k \in T
      OBVIOUS
    <3>1. k \in 1..(Len(s) + Len(p)) /\ (s \o p)[k] = Unscored
      BY DEF Unrated
    <3>2. k > Len(s)
      BY <3>1 DEF Unrated
    <3>3. k - Len(s) \in Unrated(p) /\ k = (k - Len(s)) + Len(s)
      BY <3>1, <3>2 DEF Unrated
    <3>4. QED
      BY <3>3
  <2>2. \A k : k \in Unrated(s) \cup T => k \in Unrated(s \o p)
    BY DEF Unrated
  <2>3. QED
    BY <2>1, <2>2
<1>4. Unrated(s) \cap T = {}
  BY DEF Unrated
<1>5. Cardinality(Unrated(s) \cup T)
        = Cardinality(Unrated(s)) + Cardinality(T) - Cardinality(Unrated(s) \cap T)
  <2> HIDE DEF T
  <2>1. QED
    BY <1>2, UnratedIsFinite, FS_Union
<1>6. Cardinality(Unrated(s) \cap T) = 0
  BY <1>4, FS_EmptySet
<1>7. Cardinality(Unrated(s)) \in Nat /\ Cardinality(Unrated(p)) \in Nat
  BY UnratedIsFinite
<1>8. QED
  <2> HIDE DEF T
  <2>1. QED
    BY <1>2, <1>3, <1>5, <1>6, <1>7

\* The next batch continues the scores.
LEMMA CollectMore ==
  ASSUME n \in Nat, NEW b \in Batches, NEW s \in Seq(Int), NEW p \in Ratings(b),
         Len(s) = Before(b), \A k \in 1..Len(s) : s[k] \in {Mood(k), Unscored}
  PROVE  /\ s \o p \in Seq(Int) /\ Len(s \o p) = Before(b + 1)
         /\ \A k \in 1..Len(s \o p) : (s \o p)[k] \in {Mood(k), Unscored}
         /\ Cardinality(Unrated(s \o p)) = Cardinality(Unrated(s)) + Cardinality(Unrated(p))
<1>1. p \in Seq(Int) /\ Len(p) = Size(b)
  BY RatingsAreScores
<1>2. Len(s \o p) = Before(b + 1)
  BY <1>1, BatchesCut
<1>3. ASSUME NEW k \in 1..Len(s \o p) PROVE (s \o p)[k] \in {Mood(k), Unscored}
  <2>1. CASE k <= Len(s)
    BY <1>1, <2>1
  <2>2. CASE k > Len(s)
    <3>1. k - Len(s) \in 1..Size(b) /\ (s \o p)[k] = p[k - Len(s)]
      BY <1>1, <2>2
    <3>2. p[k - Len(s)] \in {Mood(First(b) + (k - Len(s)) - 1), Unscored}
      BY <3>1 DEF Ratings
    <3>3. First(b) + (k - Len(s)) - 1 = k
      BY BatchesCut
    <3>4. QED
      BY <3>1, <3>2, <3>3
  <2>3. QED
    BY <2>1, <2>2
<1>4. QED
  BY <1>1, <1>2, <1>3, UnratedAdds

\* The judgement depends on the texts and the futures alone.
MissingIn(k, bs) ==
  MapThenSumSet(LAMBDA b : bs[b].missing, 1..((k + BatchSize - 1) \div BatchSize))

LEMMA JudgedAs == TooManyMissing <=> MissingIn(n, batch) * Share[2] > Share[1] * n
BY Zenon DEF TooManyMissing, MissingIn, Batches

LEMMA SameMissing ==
  ASSUME UNCHANGED <<n, batch>>
  PROVE  TooManyMissing' <=> TooManyMissing
<1>1. (TooManyMissing <=> MissingIn(n, batch) * Share[2] > Share[1] * n)'
  BY JudgedAs, PTL
<1>2. TooManyMissing' <=> MissingIn(n', batch') * Share[2] > Share[1] * n'
  BY <1>1
<1>3. n' = n /\ batch' = batch
  OBVIOUS
<1>4. QED
  BY <1>2, <1>3, JudgedAs, Zenon

\* The sum of the model is the sum over the function.
LEMMA MissingsAddUp ==
  ASSUME TypeOK
  PROVE  /\ MapThenSumSet(LAMBDA b : batch[b].missing, Batches) = SumOver(Missings, Batches)
         /\ \A b \in Batches : Missings[b] \in Int
<1> DEFINE P(g) == g = [s \in SUBSET Batches |->
                          IF s = {} THEN 0
                          ELSE LET x == CHOOSE x \in s : TRUE
                               IN  batch[x].missing + g[s \ {x}]]
           G == CHOOSE g : P(g)
           c == [s \in SUBSET Batches |-> Chosen(s)]
<1>1. \A b \in Batches : Missings[b] = batch[b].missing /\ Missings[b] \in Int
  BY Typed DEF Missings, Future
<1>2. IsFiniteSet(Batches)
  BY Typed
<1>3. PICK g \in [SUBSET Batches -> Int] :
             Sums(Missings, Batches, g) /\ SumOver(Missings, Batches) = g[Batches]
  BY <1>1, <1>2, SumOverSums
<1>4. P(g)
  <2>1. ASSUME NEW s \in SUBSET Batches, s # {}
        PROVE  g[s] = batch[Chosen(s)].missing + g[s \ {Chosen(s)}]
    <3>1. Chosen(s) \in s /\ g[s] = Missings[Chosen(s)] + g[s \ {Chosen(s)}]
      BY <1>3, <2>1, SumsAt
    <3>2. QED
      BY <1>1, <3>1
  <2>2. g[{}] = 0
    BY <1>3, SumsAt
  <2>3. g = [s \in SUBSET Batches |-> g[s]]
    OBVIOUS
  <2>4. g = [s \in SUBSET Batches |->
               IF s = {} THEN 0 ELSE batch[Chosen(s)].missing + g[s \ {Chosen(s)}]]
    BY <2>1, <2>2, <2>3
  <2>5. QED
    BY <2>4, Zenon DEF Chosen
<1>5. P(G)
  BY <1>4, Zenon
<1>6. SameStep(c, Batches, G, g)
  <2>1. \A s \in SUBSET Batches :
          /\ G[s] = IF s = {} THEN 0 ELSE batch[Chosen(s)].missing + G[s \ {Chosen(s)}]
          /\ g[s] = IF s = {} THEN 0 ELSE batch[Chosen(s)].missing + g[s \ {Chosen(s)}]
    BY <1>4, <1>5, Zenon DEF Chosen
  <2> HIDE DEF P, G
  <2>2. QED
    BY <2>1, Zenon DEF SameStep
<1>7. G[Batches] = g[Batches]
  <2>1. \A s \in SUBSET Batches : s # {} => c[s] \in s
    BY DEF Chosen
  <2> HIDE DEF P, G, c
  <2>2. \A s \in SUBSET Batches : G[s] = g[s]
    BY <1>2, <1>6, <2>1, FoldUnique
  <2>3. QED
    BY <2>2
<1>8. MapThenSumSet(LAMBDA b : batch[b].missing, Batches) = G[Batches]
  BY Zenon DEF MapThenSumSet, MapThenFoldSet
<1>9. QED
  BY <1>1, <1>3, <1>7, <1>8

---------------------------------------------------------------------------
(* The steps keep the invariant *)

LEMMA FutureStarts ==
  ASSUME NEW q \in {"queued", "cancelled"}, NEW f,
         f = [state |-> q, attempts |-> 0, scores |-> <<>>, missing |-> 0]
  PROVE  f \in Future /\ f.state = q /\ f.attempts = 0
<1>1. 0 \in 0..(MaxRetries + 1) /\ <<>> \in Seq(Int)
  BY BoundAssumption
<1>2. QED
  BY <1>1 DEF Future

LEMMA BatchInit == Init => BatchInv
<1> SUFFICES ASSUME Init PROVE BatchInv
  OBVIOUS
<1>0. n \in Nat /\ next = 1 /\ scores = <<>> /\ broken = 0
  BY BoundAssumption DEF Init
<1>1. \A b \in Batches :
        /\ batch[b].state \in {"queued", "cancelled"} /\ batch[b].attempts = 0
        /\ main # "collecting" => batch[b].state = "cancelled"
        /\ batch[b] \in Future
  <2> SUFFICES ASSUME NEW b \in Batches
               PROVE  /\ batch[b].state \in {"queued", "cancelled"}
                      /\ batch[b].attempts = 0 /\ batch[b] \in Future
                      /\ main # "collecting" => batch[b].state = "cancelled"
    OBVIOUS
  <2>1. PICK q \in {"queued", "cancelled"} :
           q = (IF main = "collecting" THEN "queued" ELSE "cancelled")
    OBVIOUS
  <2>2. batch[b] = [state |-> q, attempts |-> 0, scores |-> <<>>, missing |-> 0]
    BY <2>1, Zenon DEF Init
  <2>3. QED
    BY <2>1, <2>2, FutureStarts
<1>2. batch \in [Batches -> Future]
  BY <1>1 DEF Init
<1>3. main \in {"insufficient", "collecting", "falling_back"}
  BY DEF Init
<1>4. TypeOK
  <2>1. next \in 1..(Len(batch) + 1)
    BY <1>0, <1>2, BatchesAreCounted, CountIs
  <2>2. QED
    BY <1>0, <1>2, <1>3, <2>1, BoundAssumption DEF Init, TypeOK, Ended
<1>5. ThreadInv /\ PoolInv /\ JudgedInv
  BY <1>1, <1>3, BoundAssumption DEF ThreadInv, PoolInv, JudgedInv
<1>6. CollectInv
  <2>1. Before(1) = 0
    BY <1>0, CountIs, SizeAssumption DEF Before, First
  <2>2. 1..(next - 1) = {} /\ IsFiniteSet({})
    BY <1>0, FS_EmptySet
  <2>3. SumOver(Missings, {}) = 0
    BY <2>2, SumZero
  <2>4. Unrated(scores) = {} /\ Cardinality({}) = 0 /\ Len(scores) = 0
    BY <1>0, FS_EmptySet DEF Unrated
  <2>5. Cardinality(Unrated(scores)) = SumOver(Missings, 1..(next - 1))
    BY <2>2, <2>3, <2>4
  <2>6. Len(scores) = Before(next)
    BY <1>0, <2>1, <2>4
  <2>7. 1..Len(scores) = {} /\ main \notin {"judging", "llm"}
    BY <1>3, <2>4
  <2>8. QED
    BY <2>2, <2>5, <2>6, <2>7 DEF CollectInv
<1>7. QED
  BY <1>4, <1>5, <1>6 DEF BatchInv

\* A thread that starts, answers or breaks batch b makes it f.
LEMMA ThreadKeeps ==
  ASSUME BatchInv, NEW b \in Batches, batch[b].state \in {"queued", "running"},
         NEW f \in Future, batch' = [batch EXCEPT ![b] = f],
         f.state \in {"running", "scored", "failed"},
         batch[b].state = "queued" => f.state = "running",
         f.state = "running" => f.attempts <= MaxRetries,
         f.state = "scored" => /\ f.scores \in Ratings(b)
                               /\ f.missing = Cardinality(Unrated(f.scores)),
         UNCHANGED <<n, main, next, scores>>, broken' \in 0..MaxBroken
  PROVE  BatchInv'
<1>0. /\ TypeOK /\ ThreadInv /\ PoolInv /\ CollectInv /\ JudgedInv
      /\ Batches' = Batches /\ \A c \in Batches : c # b => batch'[c] = batch[c]
      /\ batch'[b] = f /\ batch' \in [Batches -> Future]
  BY SameBatches DEF BatchInv, TypeOK
<1>1. TypeOK'
  <2>1. Len(batch') = Count /\ Len(batch) = Count
    BY <1>0, Typed, BatchesAreCounted DEF TypeOK
  <2>2. QED
    BY <1>0, <2>1 DEF TypeOK
<1>2. ThreadInv'
  <2>1. \A c \in Batches : Ratings(c)' = Ratings(c)
    BY SameBatches
  <2>2. ASSUME NEW c \in Batches
        PROVE  /\ batch'[c].state \in {"queued", "running"} => batch'[c].attempts <= MaxRetries
               /\ batch'[c].state = "scored" =>
                    /\ batch'[c].scores \in Ratings(c)
                    /\ batch'[c].missing = Cardinality(Unrated(batch'[c].scores))
    BY <1>0 DEF ThreadInv
  <2>3. \A s : Unrated(s)' = Unrated(s')
    BY DEF Unrated
  <2>4. QED
    BY <1>0, <2>1, <2>2 DEF ThreadInv, Unrated
<1>3. main \notin {"judging", "falling_back", "llm", "local", "unavailable"}
  BY <1>0 DEF PoolInv
<1>4. PoolInv'
  BY <1>0, <1>3 DEF PoolInv
<1>5. CollectInv'
  <2>1. \A c \in 1..(next - 1) : c \in Batches /\ c # b /\ batch'[c] = batch[c]
    BY <1>0 DEF CollectInv
  <2>2. Before(next)' = Before(next)
    BY SameBatches DEF Before
  <2>3. SumOver(Missings', 1..(next - 1)) = SumOver(Missings, 1..(next - 1))
    <3>1. \A c \in 1..(next - 1) : Missings[c] \in Int /\ Missings'[c] = Missings[c]
      <4>1. \A c \in Batches : Missings[c] \in Int
        BY <1>0, MissingsAddUp
      <4>2. \A c \in Batches : Missings[c] = batch[c].missing /\ Missings'[c] = batch'[c].missing
        BY <1>0 DEF Missings
      <4>3. QED
        BY <2>1, <4>1, <4>2
    <3>2. IsFiniteSet(1..(next - 1))
      BY <1>0, Typed, FS_Interval
    <3>3. QED
      BY <3>1, <3>2, SumSame
  <2>4. QED
    BY <1>0, <1>3, <2>1, <2>2, <2>3 DEF CollectInv, Unrated
<1>6. JudgedInv'
  BY <1>3 DEF JudgedInv
<1>7. QED
  BY <1>1, <1>2, <1>4, <1>5, <1>6 DEF BatchInv

LEMMA FutureIs ==
  ASSUME TypeOK, NEW b \in Batches
  PROVE  /\ batch[b] \in Future /\ batch[b].attempts \in 0..(MaxRetries + 1)
         /\ broken \in 0..MaxBroken /\ MaxRetries \in Nat /\ MaxBroken \in Nat
BY Typed, BoundAssumption DEF TypeOK, Future

LEMMA StartKeeps ==
  ASSUME BatchInv, NEW b \in Batches, StartBatch(b)
  PROVE  BatchInv'
<1>0. batch[b] \in Future /\ broken \in 0..MaxBroken
  BY FutureIs DEF BatchInv
<1>1. PICK f \in Future : f = [batch[b] EXCEPT !.state = "running"]
  BY <1>0 DEF Future
<1>2. f.state = "running" /\ f.attempts = batch[b].attempts
  BY <1>0, <1>1 DEF Future
<1>3. batch' = [batch EXCEPT ![b] = f]
  BY <1>1 DEF StartBatch
<1>4. batch[b].state = "queued" /\ batch[b].attempts <= MaxRetries
  BY DEF StartBatch, BatchInv, ThreadInv
<1>5. UNCHANGED <<n, main, next, scores>> /\ broken' \in 0..MaxBroken
  BY <1>0 DEF StartBatch
<1>6. QED
  BY <1>2, <1>3, <1>4, <1>5, ThreadKeeps

LEMMA AnsweredKeeps ==
  ASSUME BatchInv, NEW b \in Batches, CallAnswered(b)
  PROVE  BatchInv'
<1>0. /\ batch[b] \in Future /\ broken \in 0..MaxBroken /\ MaxRetries \in Nat
      /\ batch[b].attempts \in 0..(MaxRetries + 1) /\ n \in Nat
  BY FutureIs, Typed DEF BatchInv
<1>1. batch[b].state = "running" /\ batch[b].attempts <= MaxRetries
  BY DEF CallAnswered, BatchInv, ThreadInv
<1>2. PICK response \in Responses(b) :
         batch' = [batch EXCEPT ![b].state = "scored", ![b].scores = ParseBatch(b, response),
                     ![b].attempts = @ + 1, ![b].missing = Missing(ParseBatch(b, response))]
  BY DEF CallAnswered
<1>3. PICK p \in Ratings(b) : p = ParseBatch(b, response)
  BY <1>0, ParseBatchIs
<1>4. PICK m \in Nat : m = Missing(p) /\ m = Cardinality(Unrated(p))
  BY <1>0, RatingsAreScores, UnratedIsFinite DEF Missing, Unrated
<1>5. p \in Seq(Int)
  BY <1>0, RatingsAreScores
<1>6. batch[b].attempts + 1 \in 0..(MaxRetries + 1)
  BY <1>0, <1>1
<1>7. PICK f \in Future : /\ f = [batch[b] EXCEPT !.state = "scored", !.scores = p,
                                   !.attempts = batch[b].attempts + 1, !.missing = m]
                         /\ f.state = "scored" /\ f.scores = p /\ f.missing = m
  <2>1. PICK a \in 0..(MaxRetries + 1) : a = batch[b].attempts + 1
    BY <1>6
  <2>2. PICK r \in Future : r = batch[b]
    BY <1>0
  <2>3. PICK f : f = [r EXCEPT !.state = "scored", !.scores = p, !.attempts = a, !.missing = m]
    OBVIOUS
  <2>4. f \in Future /\ f.state = "scored" /\ f.scores = p /\ f.missing = m
    BY <1>5, <2>3 DEF Future
  <2>5. QED
    BY <2>1, <2>2, <2>3, <2>4, Zenon
<1>8. batch' = [batch EXCEPT ![b] = f]
  BY <1>2, <1>3, <1>4, <1>7
<1>9. UNCHANGED <<n, main, next, scores>> /\ broken' \in 0..MaxBroken
  BY <1>0 DEF CallAnswered
<1>10. QED
  BY <1>1, <1>4, <1>7, <1>8, <1>9, ThreadKeeps

LEMMA BrokenKeeps ==
  ASSUME BatchInv, NEW b \in Batches, CallBroken(b)
  PROVE  BatchInv'
<1>0. /\ batch[b] \in Future /\ broken \in 0..MaxBroken /\ MaxRetries \in Nat
      /\ batch[b].attempts \in 0..(MaxRetries + 1) /\ MaxBroken \in Nat
  BY FutureIs DEF BatchInv
<1>1. batch[b].state = "running" /\ batch[b].attempts <= MaxRetries
  BY DEF CallBroken, BatchInv, ThreadInv
<1>2. PICK q \in {"running", "failed"} :
         /\ q = IF batch[b].attempts = MaxRetries THEN "failed" ELSE batch[b].state
         /\ q = "running" => batch[b].attempts # MaxRetries
  BY <1>1
<1>3. batch[b].attempts + 1 \in 0..(MaxRetries + 1)
  BY <1>0, <1>1
<1>4. PICK f \in Future :
         /\ f = [batch[b] EXCEPT !.attempts = batch[b].attempts + 1, !.state = q]
         /\ f.state = q /\ f.attempts = batch[b].attempts + 1
  <2>1. PICK a \in 0..(MaxRetries + 1) : a = batch[b].attempts + 1
    BY <1>3
  <2>2. PICK r \in Future : r = batch[b]
    BY <1>0
  <2>3. PICK f : f = [r EXCEPT !.attempts = a, !.state = q]
    OBVIOUS
  <2>4. f \in Future /\ f.state = q /\ f.attempts = a
    BY <2>3 DEF Future
  <2>5. QED
    BY <2>1, <2>2, <2>3, <2>4, Zenon
<1>5. batch' = [batch EXCEPT ![b] = f]
  BY <1>2, <1>4 DEF CallBroken
<1>6. f.state = "running" => f.attempts <= MaxRetries
  BY <1>0, <1>1, <1>2, <1>4
<1>7. UNCHANGED <<n, main, next, scores>> /\ broken' \in 0..MaxBroken
  BY <1>0 DEF CallBroken
<1>8. QED
  BY <1>1, <1>2, <1>4, <1>5, <1>6, <1>7, ThreadKeeps

\* The main thread goes on with the batches as they are.
LEMMA MainGoesOn ==
  ASSUME BatchInv, UNCHANGED <<n, batch, next, broken>>,
         scores' \in Seq(Int),
         main' \in {"judging", "falling_back", "stopping"} \cup Ended,
         main # "collecting" \/ next \notin Batches,
         main' \in {"judging", "falling_back", "llm", "local", "unavailable"} =>
           \A b \in Batches : batch[b].state \notin {"queued", "running"},
         main' \in {"judging", "llm"} => next \notin Batches /\ scores' = scores /\
                                         main \in {"collecting", "judging"},
         main' = "llm" => ~TooManyMissing,
         main' = "local" => scores' = [k \in 1..n |-> Mood(k)]
  PROVE  BatchInv'
<1>0. /\ TypeOK /\ ThreadInv /\ PoolInv /\ CollectInv /\ JudgedInv /\ Batches' = Batches
      /\ next \notin Batches => \A b \in Batches : batch[b].state # "queued"
  <2>1. TypeOK /\ ThreadInv /\ PoolInv /\ CollectInv /\ JudgedInv /\ Batches' = Batches
    BY SameBatches DEF BatchInv
  <2>2. ASSUME next \notin Batches, NEW b \in Batches PROVE batch[b].state # "queued"
    <3>1. b \in 1..(next - 1)
      BY <2>1, <2>2, Typed
    <3>2. QED
      BY <2>1, <3>1 DEF CollectInv
  <2>3. QED
    BY <2>1, <2>2
<1>1. TypeOK'
  BY <1>0 DEF TypeOK
<1>2. ThreadInv'
  <2>1. \A b : Ratings(b)' = Ratings(b)
    BY SameBatches
  <2>2. QED
    BY <1>0, <2>1 DEF ThreadInv, Unrated
<1>3. PoolInv'
  BY <1>0 DEF PoolInv, Ended
<1>4. CollectInv'
  <2>1. Before(next)' = Before(next) /\ Missings' = Missings
    BY <1>0, SameBatches DEF Missings, Before
  <2>2. \A c \in 1..(next' - 1) : c \in Batches' /\ batch'[c].state = "scored"
    BY <1>0 DEF CollectInv
  <2>3. CASE main' \in {"judging", "llm"}
    BY <1>0, <2>1, <2>2, <2>3 DEF CollectInv, Unrated
  <2>4. CASE main' \notin {"judging", "llm"}
    BY <2>2, <2>4 DEF CollectInv, Ended
  <2>5. QED
    BY <2>3, <2>4
<1>5. JudgedInv'
  <2>1. main' = "llm" => ~TooManyMissing'
    BY SameMissing
  <2>2. QED
    BY <2>1 DEF JudgedInv, Mood
<1>6. QED
  BY <1>1, <1>2, <1>3, <1>4, <1>5 DEF BatchInv

\* The main thread stops to collect and cancels what waits.
LEMMA CancelKeeps ==
  ASSUME BatchInv, batch' = CancelQueued(batch), UNCHANGED <<n, next, scores, broken>>,
         main' \in {"draining", "stopping", "timeout"}
  PROVE  BatchInv'
<1>0. TypeOK /\ ThreadInv /\ CollectInv /\ Batches' = Batches
  BY SameBatches DEF BatchInv
<1>1. \A b \in Batches :
        \/ batch[b].state # "queued" /\ batch'[b] = batch[b]
        \/ batch'[b] = [batch[b] EXCEPT !.state = "cancelled"]
  BY <1>0 DEF CancelQueued, TypeOK
<1>2. \A b \in Batches :
        /\ batch'[b] \in Future /\ batch'[b].state # "queued"
        /\ batch'[b].state # "cancelled" => batch'[b] = batch[b]
        /\ batch[b].state = "scored" => batch'[b] = batch[b]
  <2> SUFFICES ASSUME NEW b \in Batches
               PROVE  /\ batch'[b] \in Future /\ batch'[b].state # "queued"
                      /\ batch'[b].state # "cancelled" => batch'[b] = batch[b]
                      /\ batch[b].state = "scored" => batch'[b] = batch[b]
    OBVIOUS
  <2>1. PICK r \in Future : r = batch[b]
    BY <1>0, Typed
  <2>2. PICK f : f = batch'[b]
    OBVIOUS
  <2>3. batch'[b] = IF r.state = "queued" THEN [r EXCEPT !.state = "cancelled"] ELSE r
    BY <1>0, <2>1 DEF CancelQueued, TypeOK
  <2>4. CASE r.state # "queued"
    BY <2>1, <2>3, <2>4
  <2>5. CASE r.state = "queued"
    <3>1. f = [r EXCEPT !.state = "cancelled"]
      BY <2>2, <2>3, <2>5
    <3>2. f \in Future /\ f.state = "cancelled"
      BY <3>1 DEF Future
    <3>3. QED
      BY <2>1, <2>2, <2>5, <3>2
  <2>6. QED
    BY <2>4, <2>5
<1>3. TypeOK'
  <2>1. batch' \in [Batches -> Future]
    BY <1>0, <1>2 DEF CancelQueued, TypeOK
  <2>2. Len(batch') = Count /\ Len(batch) = Count
    BY <1>0, <2>1, Typed, BatchesAreCounted DEF TypeOK
  <2>3. QED
    BY <1>0, <2>1, <2>2 DEF TypeOK, Ended
<1>4. ThreadInv'
  <2>1. \A b : Ratings(b)' = Ratings(b)
    BY SameBatches
  <2>2. \A b \in Batches : batch'[b].state \in {"queued", "running", "scored"} =>
                             batch'[b] = batch[b]
    BY <1>2
  <2>3. QED
    BY <1>0, <2>1, <2>2 DEF ThreadInv, Unrated
<1>5. PoolInv' /\ JudgedInv'
  BY <1>0, <1>2 DEF PoolInv, JudgedInv
<1>6. CollectInv'
  BY <1>0, <1>2 DEF CollectInv
<1>7. QED
  BY <1>3, <1>4, <1>5, <1>6 DEF BatchInv

LEMMA CollectKeeps == ASSUME BatchInv, Collect PROVE BatchInv'
<1>0. /\ TypeOK /\ ThreadInv /\ PoolInv /\ CollectInv /\ main = "collecting"
      /\ next \in Batches /\ n' = n /\ broken' = broken /\ Batches' = Batches
      /\ n \in Nat /\ next \in Nat \ {0} /\ scores \in Seq(Int)
  BY SameBatches, Typed DEF BatchInv, Collect
<1>1. CASE batch[next].state = "failed"
  <2>1. /\ batch' = CancelQueued(batch) /\ main' = "draining"
        /\ UNCHANGED <<n, next, scores, broken>>
    BY <1>1 DEF Collect
  <2>2. QED
    BY <2>1, CancelKeeps
<1>2. CASE batch[next].state = "scored"
  <2>0. /\ scores' = scores \o batch[next].scores /\ next' = next + 1
        /\ UNCHANGED <<batch, main>>
    BY <1>2 DEF Collect
  <2>1. PICK p \in Ratings(next) : p = batch[next].scores
    BY <1>0, <1>2 DEF ThreadInv
  <2>2. /\ Len(scores) = Before(next)
        /\ \A k \in 1..Len(scores) : scores[k] \in {Mood(k), Unscored}
        /\ Cardinality(Unrated(scores)) = SumOver(Missings, 1..(next - 1))
    BY <1>0 DEF CollectInv
  <2>3. /\ scores' \in Seq(Int) /\ Len(scores') = Before(next + 1)
        /\ \A k \in 1..Len(scores') : scores'[k] \in {Mood(k), Unscored}
        /\ Cardinality(Unrated(scores')) = Cardinality(Unrated(scores)) + Cardinality(Unrated(p))
    <3>1. scores' = scores \o p
      BY <2>0, <2>1
    <3>2. QED
      BY <1>0, <2>2, <3>1, CollectMore
  <2>4. TypeOK'
    <3>1. Len(batch) = Count /\ next + 1 \in 1..(Count + 1)
      BY <1>0, Typed, BatchesAreCounted DEF TypeOK
    <3>2. QED
      BY <1>0, <2>0, <2>3, <3>1 DEF TypeOK
  <2>5. ThreadInv'
    <3>1. \A b : Ratings(b)' = Ratings(b)
      BY <1>0, SameBatches
    <3>2. QED
      BY <1>0, <2>0, <3>1 DEF ThreadInv, Unrated
  <2>6. PoolInv' /\ JudgedInv'
    BY <1>0, <2>0 DEF PoolInv, JudgedInv
  <2>7. SumOver(Missings, 1..next) = SumOver(Missings, 1..(next - 1)) + Missings[next]
    <3> DEFINE S == 1..(next - 1)
    <3>1. 1..next = S \cup {next} /\ next \notin S /\ IsFiniteSet(S)
      BY <1>0, FS_Interval
    <3>2. \A b \in S \cup {next} : Missings[b] \in Int
      BY <1>0, MissingsAddUp DEF CollectInv
    <3> HIDE DEF S
    <3>3. SumOver(Missings, S \cup {next}) = SumOver(Missings, S) + Missings[next]
      BY <3>1, <3>2, SumAdd
    <3>4. QED
      BY <3>1, <3>3 DEF S
  <2>8. Missings[next] = Cardinality(Unrated(p))
    BY <1>0, <1>2, <2>1 DEF ThreadInv, Missings
  <2>9. CollectInv'
    <3>2. Missings' = Missings
      BY <1>0, <2>0 DEF Missings
    <3>3. next' - 1 = next
      BY <1>0, <2>0
    <3>4. Cardinality(Unrated(scores')) = SumOver(Missings', 1..(next' - 1))
      BY <2>2, <2>3, <2>7, <2>8, <3>2, <3>3
    <3>5. \A c \in 1..(next' - 1) : c \in Batches' /\ batch'[c].state = "scored"
      BY <1>0, <1>2, <2>0, <3>3 DEF CollectInv
    <3>6. Len(scores') = Before(next)'
      BY <1>0, <2>0, <2>3 DEF Before, First
    <3>7. QED
      BY <1>0, <2>0, <2>3, <3>4, <3>5, <3>6 DEF CollectInv, Unrated
  <2>10. QED
    BY <2>4, <2>5, <2>6, <2>9 DEF BatchInv
<1>3. QED
  BY <1>1, <1>2 DEF Collect

LEMMA MainKeeps == ASSUME BatchInv, Main \/ SoftLimit PROVE BatchInv'
<1>0. TypeOK /\ PoolInv /\ CollectInv /\ scores \in Seq(Int) /\ n \in Nat
  BY Typed DEF BatchInv
<1>1. CASE Collect
  BY <1>1, CollectKeeps
<1>2. CASE Drain
  <2>1. \A b \in Batches : batch[b].state \notin {"queued", "running"}
    BY <1>0, <1>2 DEF Drain, Running, PoolInv
  <2>2. QED
    BY <1>0, <1>2, <2>1, MainGoesOn DEF Drain
<1>3. CASE AllCollected
  <2>1. \A b \in Batches : batch[b].state \notin {"queued", "running"}
    <3> SUFFICES ASSUME NEW b \in Batches PROVE batch[b].state = "scored"
      OBVIOUS
    <3>1. b \in 1..(next - 1)
      BY <1>0, <1>3, Typed DEF AllCollected
    <3>2. QED
      BY <1>0, <3>1 DEF CollectInv
  <2>2. QED
    BY <1>0, <1>3, <2>1, MainGoesOn DEF AllCollected
<1>4. CASE Judge
  <2>1. \A b \in Batches : batch[b].state \notin {"queued", "running"}
    BY <1>0, <1>4 DEF Judge, PoolInv
  <2>2. next \notin Batches
    BY <1>0, <1>4 DEF Judge, CollectInv
  <2>3. /\ main = "judging" /\ main' \in {"llm", "falling_back"}
        /\ main' = "llm" => ~TooManyMissing
    BY <1>4 DEF Judge
  <2>4. UNCHANGED <<n, batch, next, broken, scores>>
    BY <1>4 DEF Judge
  <2>5. /\ scores' \in Seq(Int) /\ main' # "local"
        /\ main' \in {"judging", "falling_back", "stopping"} \cup Ended
        /\ main \in {"collecting", "judging"} /\ scores' = scores
    BY <1>0, <2>3, <2>4 DEF Ended
  <2>6. main' \in {"judging", "falling_back", "llm", "local", "unavailable"} =>
          \A b \in Batches : batch[b].state \notin {"queued", "running"}
    BY <2>1
  <2>7. main' \in {"judging", "llm"} => next \notin Batches /\ scores' = scores /\
                                        main \in {"collecting", "judging"}
    BY <2>2, <2>5
  <2>8. main' = "local" => scores' = [k \in 1..n |-> Mood(k)]
    BY <2>5
  <2>9. main' = "llm" => ~TooManyMissing
    BY <2>3
  <2>10. UNCHANGED <<n, batch, next, broken>>
    BY <2>4
  <2>11. QED
    BY <2>2, <2>5, <2>6, <2>7, <2>8, <2>9, <2>10, MainGoesOn
<1>5. CASE FallBack
  <2>1. \A b \in Batches : batch[b].state \notin {"queued", "running"}
    BY <1>0, <1>5 DEF FallBack, PoolInv
  <2>2. [k \in 1..n |-> Mood(k)] \in Seq(Int)
    BY <1>0 DEF Mood
  <2>3. /\ main = "falling_back" /\ main' \in {"local", "unavailable"}
        /\ main' = "local" => scores' = [k \in 1..n |-> Mood(k)]
        /\ scores' \in Seq(Int) /\ UNCHANGED <<n, batch, next, broken>>
    BY <1>0, <1>5, <2>2 DEF FallBack
  <2>4. QED
    BY <1>0, <2>1, <2>3, MainGoesOn DEF Ended
<1>6. CASE Stop
  <2>1. /\ main = "stopping" /\ main' = "timeout"
        /\ UNCHANGED <<n, batch, next, scores, broken>>
    BY <1>6 DEF Stop
  <2>2. QED
    BY <1>0, <2>1, MainGoesOn DEF Ended
<1>7. CASE SoftLimit
  BY <1>7, CancelKeeps DEF SoftLimit
<1>8. QED
  BY <1>1, <1>2, <1>3, <1>4, <1>5, <1>6, <1>7 DEF Main

LEMMA BatchStep == BatchInv /\ [Next]_vars => BatchInv'
<1> SUFFICES ASSUME BatchInv, [Next]_vars PROVE BatchInv'
  OBVIOUS
<1>1. CASE UNCHANGED vars
  <2>1. \A b : Ratings(b)' = Ratings(b) /\ Before(b)' = Before(b)
    BY <1>1, SameBatches DEF vars
  <2>2. Batches' = Batches /\ Missings' = Missings
    BY <1>1 DEF vars, Batches, Missings
  <2>3. TypeOK' /\ ThreadInv' /\ PoolInv'
    BY <1>1, <2>1, <2>2 DEF vars, BatchInv, TypeOK, ThreadInv, PoolInv, Unrated
  <2>4. CollectInv'
    <3>1. Before(next)' = Before(next)
      BY <1>1, <2>2 DEF vars, Before, First
    <3>2. QED
      BY <1>1, <2>2, <3>1 DEF vars, BatchInv, CollectInv, Unrated
  <2>5. JudgedInv'
    <3>1. TooManyMissing' <=> TooManyMissing
      BY <1>1, SameMissing DEF vars
    <3>2. QED
      BY <1>1, <3>1 DEF vars, BatchInv, JudgedInv, Mood
  <2>6. QED
    BY <2>3, <2>4, <2>5 DEF BatchInv
<1>2. ASSUME NEW b \in Batches, Thread(b) PROVE BatchInv'
  BY <1>2, StartKeeps, AnsweredKeeps, BrokenKeeps DEF Thread
<1>3. QED
  BY <1>1, <1>2, MainKeeps DEF Next

LEMMA BatchAlways == Spec => []BatchInv
BY BatchInit, BatchStep, PTL DEF Spec

---------------------------------------------------------------------------
(* Theorems *)

\* Every reachable state is well typed, for samples and batches of any size.
THEOREM SentimentBatchesTyped == Spec => []TypeOK
<1>1. BatchInv => TypeOK
  BY DEF BatchInv
<1>2. QED
  BY <1>1, BatchAlways, PTL

\* The local models start on a quiet process, with any number of threads.
THEOREM ThePoolIsQuiet == Spec => []PoolIsQuiet
<1>1. BatchInv => PoolIsQuiet
  BY DEF BatchInv, PoolInv, PoolIsQuiet
<1>2. QED
  BY <1>1, BatchAlways, PTL

\* After the main thread has given up no further batch is sent; the calls that
\* run then are repeated if they break, at most _MAX_RETRIES times per batch.
THEOREM OnlyRetriesFollow == Spec => OnlyRetriesAfterFailure
<1>1. BatchInv /\ BatchInv' /\ [Next]_vars =>
        [main # "collecting" =>
           \A b \in Batches : Requests(b)' > Requests(b) =>
             batch[b].state = "running" /\ Requests(b)' <= MaxRetries + 1]_vars
  <2> SUFFICES ASSUME BatchInv, BatchInv', Next, main # "collecting", NEW b \in Batches,
                      Requests(b)' > Requests(b)
               PROVE  batch[b].state = "running" /\ Requests(b)' <= MaxRetries + 1
    BY DEF vars
  <2>1. batch[b].state # "queued" /\ batch \in [Batches -> Future]
        /\ \A c \in Batches : batch[c].state # "queued"
    BY DEF BatchInv, PoolInv, TypeOK
  <2>2. b \in Batches' /\ batch[b].attempts \in Int
    <3>1. n' = n
      BY DEF Next, Thread, StartBatch, CallAnswered, CallBroken, Main, Collect, Drain,
         AllCollected, Judge, FallBack, Stop, SoftLimit
    <3>2. QED
      BY <2>1, <3>1, SameBatches DEF Future
  <2>3. Requests(b)' <= MaxRetries + 1
    <3>1. batch'[b] \in Future
      BY <2>2 DEF BatchInv, TypeOK
    <3>2. batch'[b].state = "running" => batch'[b].attempts <= MaxRetries
      BY <2>2 DEF BatchInv, ThreadInv
    <3>3. batch'[b].attempts \in 0..(MaxRetries + 1) /\ MaxRetries \in Nat
      BY <3>1, BoundAssumption DEF Future
    <3>4. QED
      BY <3>2, <3>3 DEF Requests
  <2>4. batch'[b] # batch[b]
    <3>1. Requests(b) \in Int /\ Requests(b)' \in Int
      BY <2>2 DEF Requests, BatchInv, TypeOK, Future
    <3>2. batch'[b] = batch[b] => Requests(b)' = Requests(b)
      BY DEF Requests
    <3>3. QED
      BY <3>1, <3>2
  <2>5. ASSUME NEW c \in Batches, CallAnswered(c) \/ CallBroken(c)
        PROVE  batch[b].state = "running"
    <3>1. batch[c].state = "running" /\ \E f : batch' = [batch EXCEPT ![c] = f]
      BY <2>5 DEF CallAnswered, CallBroken
    <3>2. c # b => batch'[b] = batch[b]
      BY <2>1, <3>1
    <3>3. QED
      BY <2>4, <3>1, <3>2
  <2>6. ASSUME NEW c \in Batches, StartBatch(c) PROVE FALSE
    BY <2>1, <2>6 DEF StartBatch
  <2>7. ~(Main \/ SoftLimit)
    <3>1. Main \/ SoftLimit => batch' = batch \/ batch' = CancelQueued(batch)
      BY DEF Main, Collect, Drain, AllCollected, Judge, FallBack, Stop, SoftLimit
    <3>2. CancelQueued(batch)[b] = batch[b]
      BY <2>1 DEF CancelQueued
    <3>3. QED
      BY <2>4, <3>1, <3>2
  <2>8. QED
    BY <2>3, <2>5, <2>6, <2>7 DEF Next, Thread
<1>2. QED
  BY <1>1, BatchAlways, PTL DEF Spec, OnlyRetriesAfterFailure

\* Each text gets its own rating or none, whatever the model sends and in
\* whatever order the batches end, and an accepted sample lacks at most the
\* allowed share of ratings, for every size of sample and batch.
THEOREM TheScoresAreTrue == Spec => []ScoresAreTrue
<1>1. BatchInv => ScoresAreTrue
  <2> SUFFICES ASSUME BatchInv PROVE ScoresAreTrue
    OBVIOUS
  <2>0. TypeOK /\ CollectInv /\ JudgedInv /\ n \in Nat /\ scores \in Seq(Int)
    BY Typed DEF BatchInv
  <2>1. CASE main = "llm"
    <3>1. next \notin Batches /\ Len(scores) = n
      BY <2>0, <2>1 DEF CollectInv, Before
    <3>2. \A k \in 1..n : scores[k] \in {Mood(k), Unscored}
      BY <2>0, <2>1, <3>1 DEF CollectInv
    <3>3. {k \in 1..n : scores[k] # Mood(k)} = Unrated(scores)
      BY <2>0, <3>1, <3>2 DEF Unrated, Mood, Unscored
    <3>4. 1..(next - 1) = Batches
      BY <2>0, <3>1, Typed
    <3>5. Cardinality(Unrated(scores)) = SumOver(Missings, Batches)
      BY <2>0, <2>1, <3>4 DEF CollectInv
    <3>6. ~(SumOver(Missings, Batches) * Share[2] > Share[1] * n)
      BY <2>0, <2>1, MissingsAddUp DEF JudgedInv, TooManyMissing
    <3>7. Cardinality(Unrated(scores)) \in Nat /\ Share[1] \in Nat /\ Share[2] \in Nat
      BY <2>0, UnratedIsFinite, ShareAssumption
    <3>8. Cardinality(Unrated(scores)) * Share[2] <= Share[1] * n
      BY <2>0, <3>5, <3>6, <3>7
    <3>9. QED
      BY <2>1, <3>1, <3>2, <3>3, <3>8 DEF ScoresAreTrue, Aligned, AcceptedIsScored
  <2>2. CASE main = "local"
    <3>1. scores = [k \in 1..n |-> Mood(k)]
      BY <2>0, <2>2 DEF JudgedInv
    <3>2. Len(scores) = n /\ \A k \in 1..n : scores[k] = Mood(k)
      BY <2>0, <3>1
    <3>3. QED
      BY <2>2, <3>2 DEF ScoresAreTrue, Aligned, AcceptedIsScored
  <2>3. QED
    BY <2>1, <2>2 DEF ScoresAreTrue, Aligned, AcceptedIsScored
<1>2. QED
  BY <1>1, BatchAlways, PTL
=============================================================================
