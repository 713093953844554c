---------------------------- MODULE ChatParsing ----------------------------
(***************************************************************************)
(* The three chat parsers (parsers/): how the lines of an export become    *)
(* messages.  WhatsApp infers the order of day and month from the whole    *)
(* file; WhatsApp and iMessage collect continuation lines up to a cap; a   *)
(* Telegram export is a list of entries.  The export grows line by line.   *)
(*                                                                         *)
(* A line is a head (it starts a message, or is a service notice that      *)
(* looks like one) or plain text; `day` and `month` are its true date, of  *)
(* which the export shows two numbers in the order of its locale.          *)
(***************************************************************************)
EXTENDS Integers, Sequences, FiniteSets, FiniteSetsExt, SequencesExt

CONSTANTS Platforms,          \* the parsers that are tried
          Heads, Plains,      \* the lines that occur
          MaxLines,           \* bound on the export
          MaxMessages,        \* MAX_MESSAGES, 200000 in the code
          MaxChars            \* MAX_MESSAGE_CHARS, 4000

PlatformAssumption == Platforms \subseteq {"whatsapp", "imessage", "telegram"}
HeadAssumption == \A h \in Heads :
  /\ h.head /\ h.day \in 1..31 /\ h.month \in 1..12
  /\ h.notice \in BOOLEAN /\ h.len \in Nat
PlainAssumption == \A p \in Plains :
  /\ ~p.head /\ p.notice \in BOOLEAN /\ p.len \in Nat
BoundAssumption == {MaxLines, MaxMessages, MaxChars} \subseteq Nat

VARIABLES platform, monthFirst,   \* where the export comes from, and its locale
          file

vars == <<platform, monthFirst, file>>

Init == /\ platform \in Platforms
        /\ monthFirst \in BOOLEAN
        /\ platform # "whatsapp" => ~monthFirst    \* ISO dates
        /\ file = <<>>
Next == /\ Len(file) < MaxLines
        /\ \E l \in Heads \cup Plains : file' = Append(file, l)
        /\ UNCHANGED <<platform, monthFirst>>
Spec == Init /\ [][Next]_vars

HeadLines == {i \in DOMAIN file : file[i].head}

---------------------------------------------------------------------------
(* Dates *)

\* The two numbers of a head, as the export shows them.
Shown(i) == IF monthFirst THEN <<file[i].month, file[i].day>>
            ELSE <<file[i].day, file[i].month>>

\* Mutant: the first head decides.
DateOrderOfFirst ==
  IF HeadLines # {} /\ Shown(Min(HeadLines))[2] > 12 THEN "mdy" ELSE "dmy"

\* _detect_date_order: once for the whole file, notices included.
DateOrder ==
  IF /\ \E i \in HeadLines : Shown(i)[2] > 12
     /\ ~\E i \in HeadLines : Shown(i)[1] > 12
  THEN "mdy" ELSE "dmy"

\* _parse_timestamp: the date of a head, as <<day, month>>.
DateOf(i) == IF platform = "whatsapp" /\ DateOrder = "mdy"
             THEN <<Shown(i)[2], Shown(i)[1]>> ELSE Shown(i)
Valid(i) == DateOf(i)[2] <= 12

---------------------------------------------------------------------------
(* The loop over the lines *)

Start == [messages |-> <<>>, extra |-> 0, raised |-> FALSE]

\* join_message: the last message with its continuation lines, up to the cap.
Flush(acc) ==
  IF acc.messages = <<>> THEN [acc EXCEPT !.extra = 0]
  ELSE [acc EXCEPT !.messages[Len(acc.messages)].len = Min({@ + acc.extra, MaxChars}),
                   !.extra = 0]

\* Mutant: a line that would pass the cap is not collected.
ContinueBelowCap(acc, i) ==
  IF acc.messages # <<>> /\ acc.extra + file[i].len + 1 <= MaxChars
  THEN [acc EXCEPT !.extra = @ + file[i].len + 1] ELSE acc

\* A line and its line break join the message until the cap is passed.
Continue(acc, i) ==
  IF acc.messages # <<>> /\ acc.extra < MaxChars
  THEN [acc EXCEPT !.extra = @ + file[i].len + 1] ELSE acc

\* Mutants: counted before the message is there; the last that fits is refused.
AddMessageLate(acc, i) ==
  LET msgs == Append(acc.messages, [line |-> i, date |-> DateOf(i), len |-> file[i].len])
  IN [messages |-> msgs, extra |-> acc.extra, raised |-> Len(acc.messages) > MaxMessages]
AddMessageStrict(acc, i) ==
  LET msgs == Append(acc.messages, [line |-> i, date |-> DateOf(i), len |-> file[i].len])
  IN [messages |-> msgs, extra |-> acc.extra, raised |-> Len(msgs) >= MaxMessages]

\* A new message; too many of them raise "chat_too_large".
AddMessage(acc, i) ==
  LET msgs == Append(acc.messages, [line |-> i, date |-> DateOf(i), len |-> file[i].len])
  IN [messages |-> msgs, extra |-> acc.extra, raised |-> Len(msgs) > MaxMessages]

WhatsAppLine(acc, i) ==
  IF ~file[i].head THEN IF file[i].notice \/ file[i].len = 0 THEN acc ELSE Continue(acc, i)
  ELSE IF file[i].notice \/ ~Valid(i) THEN acc
  ELSE AddMessage(Flush(acc), i)
IMessageLine(acc, i) ==
  IF ~file[i].head THEN Continue(acc, i) ELSE AddMessage(Flush(acc), i)

\* An entry that is not a message (a notice) is skipped; nothing is capped.
TelegramEntry(acc, i) ==
  IF ~file[i].head \/ file[i].notice THEN acc
  ELSE [messages |-> Append(acc.messages, [line |-> i, date |-> DateOf(i), len |-> file[i].len]),
        extra |-> acc.extra, raised |-> acc.raised]

Line(acc, i) == IF acc.raised THEN acc
                ELSE CASE platform = "whatsapp" -> WhatsAppLine(acc, i)
                       [] platform = "imessage" -> IMessageLine(acc, i)
                       [] platform = "telegram" -> TelegramEntry(acc, i)
After == LET after[i \in 0..Len(file)] == IF i = 0 THEN Start ELSE Line(after[i - 1], i)
         IN after[Len(file)]
Parsed == LET end == After
          IN IF end.raised \/ platform = "telegram" THEN end ELSE Flush(end)

---------------------------------------------------------------------------
(* Properties *)

\* "those always contain at least one day > 12" (whatsapp.py:146): once the
\* locale has shown, in whatever line, every message has its true date, the
\* ones with an ambiguous date before that line too.
DatesAreTrue ==
  (monthFirst => \E i \in HeadLines : file[i].day > 12) =>
    \A m \in ToSet(Parsed.messages) : m.date = <<file[m.line].day, file[m.line].month>>

IsMessage(i) == file[i].head /\ (platform = "imessage" \/ ~file[i].notice)
IsText(i) == /\ ~file[i].head /\ platform # "telegram"
             /\ (platform = "imessage" \/ (~file[i].notice /\ file[i].len > 0))

Length == [j \in DOMAIN file |-> file[j].len + 1]   \* with its line break

\* Every message of an export in one locale is there, in order, and holds its
\* own line and the text lines up to the next message, cut at the cap.
NothingIsLost ==
  LET msgs == Parsed.messages
      ends(k) == IF k = Len(msgs) THEN Len(file) + 1 ELSE msgs[k + 1].line
      text(k) == {j \in msgs[k].line..(ends(k) - 1) : IsText(j)}
      chars(k) == file[msgs[k].line].len + MapThenSumSet(LAMBDA j : Length[j], text(k))
  IN ~Parsed.raised =>
       /\ {msgs[k].line : k \in DOMAIN msgs} = {i \in DOMAIN file : IsMessage(i)}
       /\ \A k \in 2..Len(msgs) : msgs[k - 1].line < msgs[k].line
       /\ \A k \in DOMAIN msgs :
            msgs[k].len = IF platform = "telegram" THEN chars(k) ELSE Min({chars(k), MaxChars})

\* "Hard cap on messages per chat" (base.py:8), and no message is "longer than
\* this" (base.py:5): a chat that is passed on to the analyzers keeps both.
\* (The Telegram parser counts and cuts nothing.)
ChatIsCapped ==
  platform # "telegram" /\ ~Parsed.raised =>
    /\ Len(Parsed.messages) <= MaxMessages
    /\ \A m \in ToSet(Parsed.messages) : m.len <= MaxChars

\* A chat with exactly as many messages as are allowed is not too large.
CapIsExact ==
  platform # "telegram" =>
    (Parsed.raised <=> Cardinality({i \in DOMAIN file : IsMessage(i)}) > MaxMessages)
===========================================================================
