--------------------------- MODULE ReportsProofs ---------------------------
(***************************************************************************)
(* Theorems about Reports, for every export and every choice of days: the  *)
(* paywall holds and a run is reported as it happened.  The run is a       *)
(* straight line, so the invariant says what each place of it has behind   *)
(* it.                                                                     *)
(***************************************************************************)
EXTENDS Reports, TLAPS

Names == {"temporal", "sentiment", "conflict", "narrative"}

\* What is left of the analyzers at each turn of the loop.
Suffixes == {<<"temporal", "sentiment", "conflict", "narrative">>,
             <<"sentiment", "conflict", "narrative">>, <<"conflict", "narrative">>,
             <<"narrative">>, <<>>}

Errors == {"insufficient_data", "sentiment_unavailable", "not_configured", "llm_failed"}
Shows == {"no_baseline", "steady", "closing", "tone", "episodes", "text"}
Answer == {Error(e) : e \in Errors} \cup {Works(s) : s \in Shows}
Returned == [analyzer : Names, data : Answer]
Codes == {"parse_failed", "chat_too_large", "empty_date_range", "internal_error",
          "timeout"}
Row == [status : {"processing", "completed", "failed"}, error : Codes \cup {"none"},
        unlocked : BOOLEAN, refunded : BOOLEAN]

\* The user and the payment of the run: only owners pay, and until the run
\* ends a row is unlocked exactly for a paid run.
PayerInv ==
  /\ tier \in {"preview", "full"}
  /\ tier = "full" => owner
  /\ row \in Row
  /\ pc \in {"parse", "filter", "analyze"} => (row.unlocked <=> tier = "full")

\* A paid run skips no analyzer: the ones that are not to come have a result.
\* The soft limit ends the run.
DoneInv ==
  /\ pc \in {"parse", "filter", "analyze", "failed", "done"}
  /\ limit \in BOOLEAN /\ (limit => pc = "failed")
  /\ todo \in Suffixes
  /\ results \in Seq(Returned)
  /\ tier = "full" => \A a \in Names : Has(a) \/ \E i \in DOMAIN todo : todo[i] = a

\* Behind "parse" a parser has read a chat, behind "filter" the range, if there
\* is one, has left some of it.
InputInv ==
  /\ pc \in {"filter", "analyze"} => upload \in Chats
  /\ pc = "analyze" => Unlimited \/ \E m \in export : InRange(m[1])
  /\ people = {m[2] : m \in export}

RunInv == /\ PayerInv /\ DoneInv /\ InputInv
          /\ FreeRunsCallNoLLM /\ PaidReportIsWhole /\ FailureIsExplained

LEMMA RowStarts ==
  ASSUME NEW b \in BOOLEAN,
         row = [status |-> "processing", error |-> "none", unlocked |-> b, refunded |-> FALSE]
  PROVE  row \in Row /\ row.unlocked = b
BY DEF Row

LEMMA RowFails ==
  ASSUME NEW r \in Row, NEW e \in Codes, NEW b \in BOOLEAN
  PROVE  /\ [r EXCEPT !.status = "failed", !.error = e, !.refunded = b] \in Row
         /\ [r EXCEPT !.status = "failed", !.error = e, !.refunded = b].error = e
BY DEF Row

LEMMA RowCompletes ==
  ASSUME NEW r \in Row, NEW b \in BOOLEAN, NEW c \in BOOLEAN,
         NEW q, q = [r EXCEPT !.status = "completed", !.refunded = b, !.unlocked = c]
  PROVE  q \in Row /\ q.refunded = b /\ q.unlocked = c
BY DEF Row

LEMMA RunInit == Init => RunInv
<1> SUFFICES ASSUME Init PROVE RunInv
  OBVIOUS
<1>1. PayerInv
  <2>1. PICK b \in BOOLEAN : b = (tier = "full")
    OBVIOUS
  <2>2. row = [status |-> "processing", error |-> "none", unlocked |-> b, refunded |-> FALSE]
    BY <2>1, Zenon DEF Init
  <2>3. row \in Row /\ row.unlocked = b
    BY <2>2, RowStarts
  <2>4. row.unlocked <=> tier = "full"
    BY <2>1, <2>3
  <2>5. QED
    BY <2>3, <2>4 DEF Init, PayerInv
<1>2. DoneInv
  <2>1. todo = <<"temporal", "sentiment", "conflict", "narrative">>
    BY DEF Init, Analyzers
  <2>2. \A a \in Names : \E i \in DOMAIN todo : todo[i] = a
    BY <2>1 DEF Names
  <2>3. pc = "parse" /\ limit = FALSE /\ results = <<>>
    BY DEF Init
  <2>4. results \in Seq(Returned) /\ todo \in Suffixes
    BY <2>1, <2>3 DEF Suffixes
  <2>5. QED
    BY <2>2, <2>3, <2>4 DEF DoneInv
<1>3. InputInv
  BY DEF Init, InputInv
<1>4. FreeRunsCallNoLLM /\ PaidReportIsWhole /\ FailureIsExplained
  BY DEF Init, FreeRunsCallNoLLM, PaidReportIsWhole, FailureIsExplained
<1>5. QED
  BY <1>1, <1>2, <1>3, <1>4 DEF RunInv

LEMMA PairOf ==
  ASSUME NEW x, NEW y, NEW o, o = <<x, y>>
  PROVE  o[1] = x /\ o[2] = y
OBVIOUS

LEMMA AnswersAre ==
  /\ Error("insufficient_data") \in Answer /\ Error("sentiment_unavailable") \in Answer
  /\ Error("not_configured") \in Answer /\ Error("llm_failed") \in Answer
  /\ \A s \in Shows : Works(s) \in Answer
<1>1. /\ "insufficient_data" \in Errors /\ "sentiment_unavailable" \in Errors
      /\ "not_configured" \in Errors /\ "llm_failed" \in Errors
  BY DEF Errors
<1>2. QED
  BY <1>1, Zenon DEF Answer

\* An analyzer answers with a result or an error; the two that a preview runs
\* never call an LLM.
LEMMA OutcomesAre ==
  ASSUME NEW a \in Names, NEW o \in Outcomes(a)
  PROVE  o[1] \in Answer /\ (a \in Free => o[2] = FALSE)
<1>0. /\ Error("insufficient_data") \in Answer /\ Error("sentiment_unavailable") \in Answer
      /\ Error("not_configured") \in Answer /\ Error("llm_failed") \in Answer
      /\ Works("no_baseline") \in Answer /\ Works("steady") \in Answer
      /\ Works("closing") \in Answer /\ Works("tone") \in Answer
      /\ Works("episodes") \in Answer /\ Works("text") \in Answer
  BY AnswersAre DEF Shows
<1>1. CASE a = "temporal"
  <2>1. o \in Temporal
    BY <1>1 DEF Outcomes
  <2>2. QED
    <3>1. \E x \in Answer : o = <<x, FALSE>>
      BY <1>0, <2>1, Zenon DEF Temporal
    <3>2. QED
      BY <3>1, PairOf, Zenon
<1>2. CASE a = "sentiment"
  <2>1. o \in Sentiment
    BY <1>2 DEF Outcomes
  <2>2. Local \in Answer
    BY <1>0 DEF Local
  <2>3. o[1] \in Answer
    <3>1. \E x \in Answer, y \in BOOLEAN : o = <<x, y>>
      BY <1>0, <2>1, <2>2, Zenon DEF Sentiment
    <3>2. QED
      BY <3>1, PairOf, Zenon
  <2>4. QED
    BY <1>2, <2>3 DEF Free
<1>3. CASE a = "conflict"
  <2>1. o \in Conflict
    BY <1>3 DEF Outcomes
  <2>2. QED
    <3>1. \E x \in Answer : o = <<x, FALSE>>
      BY <1>0, <2>1, Zenon DEF Conflict
    <3>2. QED
      BY <3>1, PairOf, Zenon
<1>4. CASE a = "narrative"
  <2>1. o \in Narrative
    BY <1>4 DEF Outcomes
  <2>2. o[1] \in Answer
    <3>1. \E x \in Answer, y \in BOOLEAN : o = <<x, y>>
      BY <1>0, <2>1, Zenon DEF Narrative
    <3>2. QED
      BY <3>1, PairOf, Zenon
  <2>3. QED
    BY <1>4, <2>2 DEF Free
<1>5. QED
  BY <1>1, <1>2, <1>3, <1>4 DEF Names

\* The loop goes from one suffix to the next.
LEMMA SuffixStep ==
  ASSUME todo \in Suffixes, todo # <<>>
  PROVE  /\ Head(todo) \in Names /\ Tail(todo) \in Suffixes
         /\ \A i \in DOMAIN todo : todo[i] = Head(todo) \/ \E j \in DOMAIN Tail(todo) :
                                                              Tail(todo)[j] = todo[i]
<1>1. CASE todo = <<"temporal", "sentiment", "conflict", "narrative">>
  BY <1>1 DEF Suffixes, Names
<1>2. CASE todo = <<"sentiment", "conflict", "narrative">>
  BY <1>2 DEF Suffixes, Names
<1>3. CASE todo = <<"conflict", "narrative">>
  BY <1>3 DEF Suffixes, Names
<1>4. CASE todo = <<"narrative">>
  BY <1>4 DEF Suffixes, Names
<1>5. QED
  BY <1>1, <1>2, <1>3, <1>4 DEF Suffixes

\* A result that is there stays there.
LEMMA HasMore ==
  ASSUME results \in Seq(Returned), NEW r \in Returned, results' = Append(results, r)
  PROVE  /\ results' \in Seq(Returned) /\ Has(r.analyzer)'
         /\ \A a \in Names : Has(a) => Has(a)'
<1>1. results' \in Seq(Returned) /\ results'[Len(results) + 1] = r
  BY Zenon, SMT
<1>2. Len(results) + 1 \in DOMAIN results'
  OBVIOUS
<1>3. \A k \in DOMAIN results : k \in DOMAIN results' /\ results'[k] = results[k]
  OBVIOUS
<1>4. QED
  BY <1>1, <1>2, <1>3 DEF Has

\* A date range that leaves nothing of a chat that was read.
NothingInRange == upload \in Chats /\ ~Unlimited /\ \A m \in export : ~InRange(m[1])

\* Marking the row failed keeps all but the explanation of the error.
LEMMA MarkKeeps ==
  ASSUME RunInv, NEW c \in Codes, MarkFailed(c), pc' = "failed", limit' \in BOOLEAN,
         UNCHANGED <<todo, run, export, people, results, calls>>
  PROVE  /\ PayerInv' /\ DoneInv' /\ InputInv' /\ FreeRunsCallNoLLM' /\ PaidReportIsWhole'
         /\ owner => row'.error = c
<1>1. row' \in Row /\ (owner => row'.error = c)
  <2>1. CASE owner
    <3>1. PICK b \in BOOLEAN : b = (tier = "full")
      OBVIOUS
    <3>2. row' = [row EXCEPT !.status = "failed", !.error = c, !.refunded = b]
      BY <2>1, <3>1, Zenon DEF MarkFailed
    <3>3. QED
      BY <3>2, RowFails DEF RunInv, PayerInv
  <2>2. CASE ~owner
    BY <2>2 DEF MarkFailed, RunInv, PayerInv
  <2>3. QED
    BY <2>1, <2>2
<1>2. PayerInv'
  BY <1>1 DEF RunInv, PayerInv, run
<1>3. DoneInv'
  BY DEF RunInv, DoneInv, run, Has
<1>4. InputInv'
  BY DEF RunInv, InputInv, run
<1>5. FreeRunsCallNoLLM' /\ PaidReportIsWhole'
  BY DEF RunInv, FreeRunsCallNoLLM, PaidReportIsWhole, run
<1>6. QED
  BY <1>1, <1>2, <1>3, <1>4, <1>5

\* A run that fails on its own says why.
LEMMA FailKeeps ==
  ASSUME RunInv, pc # "failed", NEW e, Fail(e),
         ErrorCode(e) = "parse_failed" <=> upload = "unrecognised",
         ErrorCode(e) = "chat_too_large" <=> upload = "too_large",
         ErrorCode(e) = "empty_date_range" <=> NothingInRange
  PROVE  RunInv'
<1>0. /\ pc' = "failed" /\ MarkFailed(ErrorCode(e))
      /\ UNCHANGED <<todo, run, export, people, results, calls, limit>>
  BY DEF Fail
<1>1. PICK c \in Codes : c = ErrorCode(e) /\ c # "timeout"
  BY DEF ErrorCode, Codes
<1>2. ~limit /\ limit' = FALSE
  BY <1>0 DEF RunInv, DoneInv
<1>3. /\ PayerInv' /\ DoneInv' /\ InputInv' /\ FreeRunsCallNoLLM' /\ PaidReportIsWhole'
      /\ owner => row'.error = c
  BY <1>0, <1>1, <1>2, MarkKeeps
<1>4. FailureIsExplained'
  <2>1. CASE owner
    <3>1. row'.error = c
      BY <1>3, <2>1
    <3>2. NothingInRange' <=> NothingInRange
      BY <1>0 DEF NothingInRange, Unlimited, InRange, run
    <3>3. QED
      BY <1>0, <1>1, <1>2, <3>1, <3>2 DEF FailureIsExplained, NothingInRange, run
  <2>2. CASE ~owner
    BY <1>0, <2>2 DEF FailureIsExplained, run
  <2>3. QED
    BY <2>1, <2>2
<1>5. QED
  BY <1>3, <1>4 DEF RunInv

\* The soft limit's "timeout" stands, whatever the row said before.
LEMMA LimitKeeps == ASSUME RunInv, SoftLimit PROVE RunInv'
<1>0. /\ pc' = "failed" /\ limit' = TRUE /\ MarkFailed("timeout")
      /\ UNCHANGED <<todo, run, export, people, results, calls>>
  BY DEF SoftLimit
<1>1. "timeout" \in Codes
  BY DEF Codes
<1>2. /\ PayerInv' /\ DoneInv' /\ InputInv' /\ FreeRunsCallNoLLM' /\ PaidReportIsWhole'
      /\ owner => row'.error = "timeout"
  BY <1>0, <1>1, MarkKeeps
<1>3. FailureIsExplained'
  BY <1>0, <1>2 DEF FailureIsExplained, run
<1>4. QED
  BY <1>2, <1>3 DEF RunInv

LEMMA ParseKeeps == ASSUME RunInv, Parse PROVE RunInv'
<1>0. pc = "parse"
  BY DEF Parse
<1>1. CASE upload = "unrecognised" /\ Fail("no_parser")
  BY <1>0, <1>1, FailKeeps DEF ErrorCode, NothingInRange, Chats
<1>2. CASE upload = "too_large" /\ Fail("chat_too_large")
  BY <1>0, <1>2, FailKeeps DEF ErrorCode, NothingInRange, Chats
<1>3. CASE upload = "malformed" /\ Fail("unexpected")
  BY <1>0, <1>3, FailKeeps DEF ErrorCode, NothingInRange, Chats
<1>4. CASE /\ upload \in Chats /\ pc' = "filter"
           /\ UNCHANGED <<todo, run, export, people, results, calls, limit, row>>
  <2>1. PayerInv' /\ InputInv'
    BY <1>0, <1>4 DEF RunInv, PayerInv, InputInv, run
  <2>2. DoneInv'
    BY <1>0, <1>4 DEF RunInv, DoneInv, run, Has
  <2>3. FreeRunsCallNoLLM' /\ PaidReportIsWhole' /\ FailureIsExplained'
    BY <1>4 DEF RunInv, FreeRunsCallNoLLM, PaidReportIsWhole, FailureIsExplained, run
  <2>4. QED
    BY <2>1, <2>2, <2>3 DEF RunInv
<1>5. QED
  BY <1>1, <1>2, <1>3, <1>4 DEF Parse

LEMMA FilterKeeps == ASSUME RunInv, Filter PROVE RunInv'
<1> DEFINE kept == {m \in export : InRange(m[1])}
<1>0. pc = "filter" /\ upload \in Chats
  BY DEF Filter, RunInv, InputInv
<1>1. CASE ~Unlimited /\ kept = {} /\ Fail("no_messages")
  <2>1. NothingInRange
    BY <1>0, <1>1 DEF NothingInRange
  <2>2. upload # "unrecognised" /\ upload # "too_large"
    BY <1>0 DEF Chats
  <2>3. QED
    BY <1>0, <1>1, <2>1, <2>2, FailKeeps DEF ErrorCode
<1>2. CASE /\ Unlimited \/ kept # {}
           /\ pc' = "analyze" /\ export' = kept /\ people' = PeopleOf(kept)
           /\ UNCHANGED <<todo, run, results, calls, limit, row>>
  <2>1. PayerInv'
    BY <1>0, <1>2 DEF RunInv, PayerInv, run
  <2>2. DoneInv'
    BY <1>0, <1>2 DEF RunInv, DoneInv, run, Has
  <2>3. InputInv'
    <3>1. Unlimited' \/ \E m \in export' : InRange(m[1])'
      <4>1. CASE Unlimited
        BY <1>2, <4>1 DEF Unlimited, run
      <4>2. CASE kept # {}
        <5>1. PICK m \in export : m \in kept
          BY <4>2
        <5>2. m \in export' /\ InRange(m[1])'
          BY <1>2, <5>1 DEF run, InRange
        <5>3. QED
          BY <5>2
      <4>3. QED
        BY <1>2, <4>1, <4>2
    <3>2. QED
      BY <1>0, <1>2, <3>1 DEF RunInv, InputInv, PeopleOf, run
  <2>4. FreeRunsCallNoLLM' /\ PaidReportIsWhole' /\ FailureIsExplained'
    BY <1>2 DEF RunInv, FreeRunsCallNoLLM, PaidReportIsWhole, FailureIsExplained, run
  <2>5. QED
    BY <2>1, <2>2, <2>3, <2>4 DEF RunInv
<1>3. QED
  BY <1>1, <1>2 DEF Filter

LEMMA AnalyzeKeeps == ASSUME RunInv, Analyze PROVE RunInv'
<1>0. /\ pc = "analyze" /\ todo # <<>> /\ todo' = Tail(todo) /\ todo \in Suffixes
      /\ UNCHANGED <<pc, run, export, people, limit, row>>
  BY DEF Analyze, RunInv, DoneInv
<1>1. PICK a \in Names : a = Head(todo)
  BY <1>0, SuffixStep
<1>2. PayerInv' /\ InputInv'
  BY <1>0 DEF RunInv, PayerInv, InputInv, InRange, Unlimited, run
<1>3. PaidReportIsWhole' /\ FailureIsExplained'
  BY <1>0 DEF PaidReportIsWhole, FailureIsExplained
<1>4. CASE Skipped(a) /\ UNCHANGED <<results, calls>>
  <2>1. tier # "full"
    BY <1>4 DEF Skipped
  <2>2. DoneInv' /\ FreeRunsCallNoLLM'
    BY <1>0, <1>4, <2>1, SuffixStep DEF RunInv, DoneInv, FreeRunsCallNoLLM, run
  <2>3. QED
    BY <1>2, <1>3, <2>2 DEF RunInv
<1>5. ASSUME ~Skipped(a), NEW o \in Outcomes(a),
             results' = Append(results, [analyzer |-> a, data |-> o[1]]),
             calls' = IF o[2] THEN calls \cup {a} ELSE calls
      PROVE  RunInv'
  <2>1. PICK r \in Returned : r = [analyzer |-> a, data |-> o[1]] /\ r.analyzer = a
    <3>1. o[1] \in Answer
      BY OutcomesAre
    <3>2. [analyzer |-> a, data |-> o[1]] \in Returned
      BY <3>1 DEF Returned
    <3>3. QED
      BY <3>2
  <2>2. results' = Append(results, r) /\ results \in Seq(Returned)
    BY <1>5, <2>1 DEF RunInv, DoneInv
  <2>3. results' \in Seq(Returned) /\ Has(a)' /\ \A b \in Names : Has(b) => Has(b)'
    BY <2>1, <2>2, HasMore
  <2>4. DoneInv'
    <3>1. ASSUME tier = "full", NEW b \in Names
          PROVE  Has(b)' \/ \E i \in DOMAIN todo' : todo'[i] = b
      <4>1. Has(b) \/ \E i \in DOMAIN todo : todo[i] = b
        BY <3>1 DEF RunInv, DoneInv
      <4>2. (\E i \in DOMAIN todo : todo[i] = b) =>
              b = a \/ \E j \in DOMAIN todo' : todo'[j] = b
        BY <1>0, <1>1, SuffixStep
      <4>3. QED
        BY <2>3, <4>1, <4>2
    <3>2. todo' \in Suffixes
      BY <1>0, SuffixStep
    <3>3. QED
      BY <1>0, <2>3, <3>1, <3>2 DEF RunInv, DoneInv, run
  <2>5. FreeRunsCallNoLLM'
    <3>1. CASE o[2]
      <4>1. a \notin Free
        BY <3>1, OutcomesAre
      <4>2. tier = "full" /\ owner
        BY <1>5, <4>1 DEF Skipped, RunInv, PayerInv
      <4>3. QED
        BY <1>0, <4>2 DEF FreeRunsCallNoLLM, run
    <3>2. CASE ~o[2]
      BY <1>0, <1>5, <3>2 DEF RunInv, FreeRunsCallNoLLM, run
    <3>3. QED
      BY <3>1, <3>2
  <2>6. QED
    BY <1>2, <1>3, <2>4, <2>5 DEF RunInv
<1>6. QED
  BY <1>1, <1>4, <1>5 DEF Analyze

LEMMA RaiseKeeps == ASSUME RunInv, Raise PROVE RunInv'
<1>1. pc = "analyze" /\ Fail("unexpected")
  BY DEF Raise
<1>2. upload \in Chats /\ ~NothingInRange
  BY <1>1 DEF RunInv, InputInv, NothingInRange
<1>3. upload # "unrecognised" /\ upload # "too_large"
  BY <1>2 DEF Chats
<1>4. QED
  BY <1>1, <1>2, <1>3, FailKeeps DEF ErrorCode

\* A report that is not refunded has a tone and a narrative.
LEMMA WholeReport ==
  ASSUME DoneInv, todo = <<>>, tier = "full", ~IsIncomplete, NEW a \in {"sentiment", "narrative"}
  PROVE  Worked(a)
<1>1. Has(a)
  BY DEF DoneInv, Names
<1>2. PICK k \in DOMAIN results : results[k].analyzer = a /\ Data(a) = results[k].data
  <2> DEFINE k == CHOOSE i \in DOMAIN results : results[i].analyzer = a
  <2>1. k \in DOMAIN results /\ results[k].analyzer = a
    BY <1>1 DEF Has
  <2>2. QED
    BY <2>1 DEF Data
<1>3. results[k].data.error = "none"
  BY <1>2 DEF IsIncomplete, Free
<1>4. QED
  BY <1>1, <1>2, <1>3 DEF Worked

LEMMA SaveKeeps == ASSUME RunInv, Save PROVE RunInv'
<1>0. /\ pc = "analyze" /\ todo = <<>> /\ pc' = "done"
      /\ UNCHANGED <<todo, run, export, people, results, calls, limit>>
  BY DEF Save
<1>1. DoneInv'
  BY <1>0 DEF RunInv, DoneInv, run, Has
<1>2. InputInv' /\ FreeRunsCallNoLLM' /\ FailureIsExplained'
  BY <1>0 DEF RunInv, InputInv, FreeRunsCallNoLLM, FailureIsExplained, run
<1>3. CASE owner
  <2>1. row' = [row EXCEPT !.status = "completed", !.refunded = IsIncomplete,
                           !.unlocked = @ /\ ~IsIncomplete]
    BY <1>3 DEF Save
  <2>2. /\ row' \in Row
        /\ row'.refunded <=> IsIncomplete
        /\ row'.unlocked <=> row.unlocked /\ ~IsIncomplete
    <3>1. PICK b \in BOOLEAN : b = IsIncomplete
      BY DEF IsIncomplete
    <3>2. row \in Row
      BY DEF RunInv, PayerInv
    <3>3. PICK c \in BOOLEAN : c = (row.unlocked /\ ~IsIncomplete)
      OBVIOUS
    <3>4. row' = [row EXCEPT !.status = "completed", !.refunded = b, !.unlocked = c]
      BY <2>1, <3>1, <3>3, Zenon
    <3>5. row' \in Row /\ row'.refunded = b /\ row'.unlocked = c
      BY <3>2, <3>4, RowCompletes
    <3>6. (b <=> IsIncomplete) /\ (c <=> row.unlocked /\ ~IsIncomplete)
      BY <3>1, <3>3 DEF IsIncomplete
    <3>7. QED
      BY <3>5, <3>6
  <2>3. PayerInv'
    BY <1>0, <2>2 DEF RunInv, PayerInv, run
  <2>4. PaidReportIsWhole'
    <3> SUFFICES ASSUME tier = "full" PROVE PaidReportIsWhole'
      BY <1>0 DEF PaidReportIsWhole, run
    <3>1. row'.unlocked <=> ~IsIncomplete
      BY <1>0, <2>2 DEF RunInv, PayerInv
    <3>2. row'.unlocked => \A a \in {"sentiment", "narrative"} : Worked(a)
      BY <1>0, <3>1, WholeReport DEF RunInv
    <3>3. \A a \in {"sentiment", "narrative"} : Worked(a) => Worked(a)'
      BY <1>0 DEF Worked, Has, Data
    <3>4. QED
      BY <2>2, <3>1, <3>2, <3>3 DEF PaidReportIsWhole
  <2>5. QED
    BY <1>1, <1>2, <2>3, <2>4 DEF RunInv
<1>4. CASE ~owner
  <2>1. row' = row /\ tier # "full"
    BY <1>4 DEF Save, RunInv, PayerInv
  <2>2. PayerInv' /\ PaidReportIsWhole'
    BY <1>0, <2>1 DEF RunInv, PayerInv, PaidReportIsWhole, run
  <2>3. QED
    BY <1>1, <1>2, <2>2 DEF RunInv
<1>5. QED
  BY <1>3, <1>4

LEMMA RunStep == RunInv /\ [Next]_vars => RunInv'
<1>1. RunInv /\ UNCHANGED vars => RunInv'
  <2> SUFFICES ASSUME RunInv, UNCHANGED vars PROVE RunInv'
    OBVIOUS
  <2>1. PayerInv' /\ InputInv'
    BY DEF vars, run, RunInv, PayerInv, InputInv, InRange, Unlimited
  <2>2. DoneInv'
    BY DEF vars, run, RunInv, DoneInv, Has
  <2>3. FreeRunsCallNoLLM' /\ PaidReportIsWhole' /\ FailureIsExplained'
    BY DEF vars, run, RunInv, FreeRunsCallNoLLM, PaidReportIsWhole, FailureIsExplained,
       InRange, Unlimited, Worked, Has, Data
  <2>4. QED
    BY <2>1, <2>2, <2>3 DEF RunInv
<1>2. QED
  BY <1>1, ParseKeeps, FilterKeeps, AnalyzeKeeps, RaiseKeeps, SaveKeeps,
     LimitKeeps DEF Next

\* What a locked report shows are the sections of the preview, and none of
\* them is sold.
LEMMA PreviewIsNotSold == LockedIsHidden
<1> SUFFICES ASSUME ~(owner /\ row.unlocked),
                    NEW s \in Shown,
                    s \in ({"sentiment", "conflict"} \X {"data"}
                             \cup {"temporal"} \X TemporalLocked
                             \cup {"narrative"} \X (NarrativeKeys \ {"resumen"}))
             PROVE  FALSE
  BY Zenon DEF LockedIsHidden
<1>1. \/ s[1] = "temporal" /\ s[2] \in TemporalPreview \cup {"error"}
      \/ s[1] = "narrative" /\ s[2] \in {"resumen", "error"}
  BY DEF Shown, Preview
<1>2. QED
  BY <1>1 DEF TemporalPreview, TemporalLocked, NarrativeKeys

\* The paywall: for any export and any limits a run that nobody paid for calls
\* no LLM; a paid report that stays unlocked has its tone and its narrative and
\* the others are refunded; and a locked one shows nothing that is sold.
THEOREM PaywallAlwaysHolds == Spec => []PaywallHolds
<1>1. RunInv => PaywallHolds
  BY PreviewIsNotSold DEF RunInv, PaywallHolds
<1>2. QED
  BY <1>1, RunInit, RunStep, PTL DEF Spec

\* What the user is told of a run is what happened in it: a failed analysis says
\* "timeout" exactly when the soft limit struck, and otherwise has the code of an
\* upload that no parser knows, of one that is too large or of a range without
\* messages exactly when it is one, so that "internal_error" is left to malformed
\* uploads and analyzers that raised; and the participants of a report are the
\* people with a message within its range.
THEOREM RunsAreReportedTrue == Spec => []RunIsReportedTrue
<1>1. RunInv => RunIsReportedTrue
  BY DEF RunInv, InputInv, RunIsReportedTrue, ParticipantsSpoke
<1>2. QED
  BY <1>1, RunInit, RunStep, PTL DEF Spec
=============================================================================
