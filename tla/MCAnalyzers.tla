---------------------------- MODULE MCAnalyzers ----------------------------
(***************************************************************************)
(* Analyzers for TLC: the lines, weeks, steps and scores that are tried.   *)
(* The numbers are in the configuration.                                   *)
(***************************************************************************)
EXTENDS Analyzers, TLC

HeadLine(d, m, n, l) == [head |-> TRUE, day |-> d, month |-> m, notice |-> n, len |-> l]
PlainLine(l, n) == [head |-> FALSE, notice |-> n, len |-> l]

\* An ambiguous day, one that shows the locale, one in a service notice; texts
\* around a cap that holds three lines, and one beyond it.
MCHeads == {HeadLine(5, 3, FALSE, 2), HeadLine(17, 3, FALSE, 8), HeadLine(25, 12, TRUE, 2)}
MCPlains == {PlainLine(0, FALSE), PlainLine(1, FALSE), PlainLine(3, FALSE), PlainLine(1, TRUE)}

\* Gaps in hours on both sides of every limit, and of a week.
MCChatSteps == {-1, 0, 1, 4, 20, 150, 200}

\* A lively, a thin and a silent week.
MCKinds ==
  {[rt |-> 1000, balance |-> 800, neglect |-> 0,    silence |-> 6,  perDay |-> 200],
   [rt |-> 1000, balance |-> 800, neglect |-> 0,    silence |-> 12, perDay |-> 60],
   [rt |-> 800,  balance |-> 0,   neglect |-> 300,  silence |-> 30, perDay |-> 130]}

\* A tense, an uncharged (on the limit) and a warm message.
MCScores == {-6, 2, 6}

Symmetry == Permutations(People)
===========================================================================
