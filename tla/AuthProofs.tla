---------------------------- MODULE AuthProofs ----------------------------
(***************************************************************************)
(* Theorems about Auth, for every set of addresses, passwords, identities  *)
(* and concurrent requests: the type invariant, that an account Google has *)
(* vouched for never has a password again, that every answer is one the    *)
(* request could have been given had it run alone, and that who signs in   *)
(* twice the same way gets the same account.                               *)
(***************************************************************************)
EXTENDS Auth, SequenceTheorems, FiniteSums

---------------------------------------------------------------------------
(* Looking up a row *)

\* A lookup returns 0 or the position of a row.
LEMMA LookupType ==
  ASSUME NEW us \in Seq(User), NEW k
  PROVE  ByEmail(us, k) \in 0..Len(us) /\ BySub(us, k) \in 0..Len(us)
<1>1. ByEmail(us, k) \in 0..Len(us)
  <2> DEFINE I == {i \in 1..Len(us) : us[i].email = k}
  <2>1. I # {} => Min(I) \in I
    BY LeastElement
  <2>2. ByEmail(us, k) = IF I # {} THEN Min(I) ELSE 0
    BY Zenon DEF ByEmail, SelectInSeq
  <2> QED
    BY <2>1, <2>2
<1>2. BySub(us, k) \in 0..Len(us)
  <2> DEFINE I == {i \in 1..Len(us) : us[i].sub = k}
  <2>1. I # {} => Min(I) \in I
    BY LeastElement
  <2>2. BySub(us, k) = IF I # {} THEN Min(I) ELSE 0
    BY Zenon DEF BySub, SelectInSeq
  <2> QED
    BY <2>1, <2>2
<1> QED
  BY <1>1, <1>2

---------------------------------------------------------------------------
(* Types *)

Pcs == {"idle", "looking", "hashing", "verifying", "missed", "linking",
        "creating", "written", "done"}
Answers == [kind : {"none", "created", "conflict", "rejected", "disabled",
                    "token", "error"}, user : Nat]

\* A well-typed step of one request, over rows that are only added to.
LEMMA RequestStep ==
  ASSUME TypeOK, NEW r \in Requests, NEW q \in Request,
         request' = [request EXCEPT ![r] = q],
         users' \in Seq(User), Len(users') >= Len(users),
         q.pc \in {"linking", "written"} => q.seen \in DOMAIN users',
         UNCHANGED <<form, edits>>
  PROVE  TypeOK'
<1>1. DOMAIN users = 1..Len(users) /\ DOMAIN users' = 1..Len(users')
      /\ Len(users) \in Nat /\ Len(users') \in Nat
  BY LenProperties DEF TypeOK
<1>2. request' \in [Requests -> Request]
  BY DEF TypeOK
<1>3. \A x \in Requests : request'[x].pc \in {"linking", "written"} =>
                            request'[x].seen \in DOMAIN users'
  BY <1>1 DEF TypeOK
<1>4. form' \in [user : 0..Len(users'), sub : Subs \cup {NoKey}]
  BY <1>1 DEF TypeOK
<1> QED
  BY <1>2, <1>3, <1>4 DEF TypeOK

LEMMA GotoType ==
  ASSUME TypeOK, NEW r \in Requests, NEW pc \in Pcs, Goto(r, pc),
         pc \in {"linking", "written"} => request[r].seen \in DOMAIN users',
         users' \in Seq(User), Len(users') >= Len(users), UNCHANGED <<form, edits>>
  PROVE  TypeOK'
<1> DEFINE q == [request[r] EXCEPT !.pc = pc]
<1>1. q \in Request /\ q.pc = pc /\ q.seen = request[r].seen
  BY DEF TypeOK, Request, Pcs
<1>2. request' = [request EXCEPT ![r] = q]
  BY DEF Goto, TypeOK
<1> HIDE DEF q
<1> QED
  BY <1>1, <1>2, RequestStep

LEMMA AnswerType ==
  ASSUME TypeOK, NEW r \in Requests, NEW a \in Answers, Answer(r, a),
         users' \in Seq(User), Len(users') >= Len(users), UNCHANGED <<form, edits>>
  PROVE  TypeOK'
<1> DEFINE q == [request[r] EXCEPT !.pc = "done", !.answer = a]
<1>1. q \in Request /\ q.pc = "done"
  BY DEF TypeOK, Request, Answers
<1>2. request' = [request EXCEPT ![r] = q]
  BY DEF Answer, TypeOK
<1> HIDE DEF q
<1> QED
  BY <1>1, <1>2, RequestStep

LEMMA OpenedType ==
  ASSUME NEW us, NEW u \in Nat
  PROVE  Opened(us, u) \in Answers
BY DEF Opened, Reply, Answers

\* A row at the end keeps the others where they are.
LEMMA AppendRow ==
  ASSUME TypeOK, NEW row \in User, users' = Append(users, row)
  PROVE  /\ users' \in Seq(User)
         /\ Len(users') = Len(users) + 1 /\ Len(users') >= Len(users)
         /\ Len(users) \in Nat
         /\ DOMAIN users = 1..Len(users) /\ DOMAIN users' = 1..Len(users')
         /\ \A u \in DOMAIN users : users'[u] = users[u]
         /\ users'[Len(users')] = row
<1>1. Append(users, row) \in Seq(User)
  BY AppendProperties DEF TypeOK
<1> QED
  BY <1>1, AppendProperties, LenProperties DEF TypeOK

LEMMA TypeInit == Init => TypeOK
<1> SUFFICES ASSUME Init
             PROVE  TypeOK
  OBVIOUS
<1>1. users \in Seq(User) /\ Len(users) = 0
  BY DEF Init
<1>2. (CHOOSE x \in Emails : TRUE) \in Emails
  BY IdentityAssumption
<1>3. request \in [Requests -> Request] /\ \A r \in Requests : request[r].pc = "idle"
  <2> DEFINE first == [kind |-> "login", email |-> CHOOSE x \in Emails : TRUE,
                       key |-> NoKey, pc |-> "idle", seen |-> 0, matches |-> FALSE,
                       active |-> FALSE, answer |-> None]
  <2>1. first \in Request /\ first.pc = "idle"
    BY <1>2 DEF Request, None
  <2>2. request \in [Requests -> {first}]
    BY DEF Init
  <2> HIDE DEF first
  <2> QED
    BY <2>1, <2>2
<1> QED
  BY <1>1, <1>3, KeyAssumption DEF Init, TypeOK

LEMMA StartType ==
  ASSUME TypeOK, NEW r \in Requests, Start(r)
  PROVE  TypeOK'
<1>1. PICK kind \in {"register", "login", "google"}, e \in Emails, k \in Passwords \cup Subs :
        Begin(r, kind, e, k)
  BY IdentityAssumption DEF Start, Subs
<1> DEFINE q == [request[r] EXCEPT !.kind = kind, !.email = e, !.key = k, !.pc = "looking"]
<1>2. q \in Request /\ q.pc = "looking"
  BY DEF TypeOK, Request
<1>3. request' = [request EXCEPT ![r] = q]
  BY <1>1 DEF Begin, TypeOK
<1>4. users' \in Seq(User) /\ Len(users') >= Len(users) /\ UNCHANGED <<form, edits>>
  BY <1>1, LenProperties DEF Begin, TypeOK
<1> HIDE DEF q
<1> QED
  BY <1>2, <1>3, <1>4, RequestStep

\* The handlers that write no row.
LEMMA ReadersType ==
  ASSUME TypeOK, NEW r \in Requests,
         \/ RegisterSelect(r) \/ LoginSelect(r) \/ LoginVerify(r)
         \/ GoogleBySub(r) \/ GoogleByEmail(r) \/ Refresh(r)
  PROVE  TypeOK'
<1>1. /\ users' = users /\ UNCHANGED <<form, edits>>
      /\ users' \in Seq(User) /\ Len(users') >= Len(users)
      /\ Len(users) \in Nat /\ DOMAIN users' = 1..Len(users)
  BY LenProperties DEF TypeOK, RegisterSelect, LoginSelect, LoginVerify,
                       GoogleBySub, GoogleByEmail, Refresh
<1>2. request[r] \in Request
  BY DEF TypeOK
<1>3. CASE RegisterSelect(r)
  <2>1. Reply("conflict", 0) \in Answers
    BY DEF Reply, Answers
  <2>2. CASE Answer(r, Reply("conflict", 0))
    BY <1>1, <2>1, <2>2, AnswerType
  <2>3. CASE Goto(r, "hashing")
    BY <1>1, <2>3, GotoType DEF Pcs
  <2> QED
    BY <1>3, <2>2, <2>3 DEF RegisterSelect
<1>4. CASE LoginSelect(r)
  <2> DEFINE found == ByEmail(users, request[r].email)
  <2>1. found \in 0..Len(users) /\ found \in Nat /\ (found # 0 => users[found] \in User)
    BY <1>1, LookupType, ElementOfSeq DEF TypeOK
  <2>2. /\ (found # 0 /\ users[found].password = request[r].key) \in BOOLEAN
        /\ (found # 0 /\ users[found].active) \in BOOLEAN
    BY <2>1 DEF User
  <2>3. PICK u \in Nat, matches \in BOOLEAN, active \in BOOLEAN :
          request' = [request EXCEPT ![r].pc = "verifying", ![r].seen = u,
                                     ![r].matches = matches, ![r].active = active]
    BY <1>4, <2>1, <2>2, Zenon DEF LoginSelect
  <2> DEFINE q == [request[r] EXCEPT !.pc = "verifying", !.seen = u,
                                     !.matches = matches, !.active = active]
  <2>4. q \in Request /\ q.pc = "verifying"
    BY <1>2 DEF Request
  <2>5. request' = [request EXCEPT ![r] = q]
    BY <2>3 DEF TypeOK
  <2> HIDE DEF q
  <2> QED
    BY <1>1, <2>4, <2>5, RequestStep
<1>5. CASE LoginVerify(r)
  <2>1. PICK a : a \in {Reply("rejected", 0), Reply("disabled", 0),
                        Reply("token", request[r].seen)} /\ Answer(r, a)
    BY <1>5 DEF LoginVerify
  <2>2. a \in Answers
    BY <1>2, <2>1 DEF Reply, Answers, Request
  <2> QED
    BY <1>1, <2>1, <2>2, AnswerType
<1>6. CASE GoogleBySub(r)
  <2>1. BySub(users, request[r].key) \in Nat
    BY <1>1, LookupType DEF TypeOK
  <2>2. CASE Answer(r, Opened(users, BySub(users, request[r].key)))
    BY <1>1, <2>1, <2>2, OpenedType, AnswerType
  <2>3. CASE Goto(r, "missed")
    BY <1>1, <2>3, GotoType DEF Pcs
  <2> QED
    BY <1>6, <2>2, <2>3 DEF GoogleBySub
<1>7. CASE GoogleByEmail(r)
  <2> DEFINE found == ByEmail(users, request[r].email)
  <2>1. found \in 0..Len(users) /\ found \in Nat
    BY <1>1, LookupType DEF TypeOK
  <2>2. PICK u \in Nat, pc \in {"linking", "creating"} :
          /\ pc = "linking" => u # 0
          /\ u \in 0..Len(users)
          /\ request' = [request EXCEPT ![r].pc = pc, ![r].seen = u]
    BY <1>7, <2>1, Zenon DEF GoogleByEmail
  <2> DEFINE q == [request[r] EXCEPT !.pc = pc, !.seen = u]
  <2>3. q \in Request /\ q.pc = pc /\ q.seen = u
    BY <1>2 DEF Request
  <2>4. request' = [request EXCEPT ![r] = q]
    BY <2>2 DEF TypeOK
  <2>5. q.pc \in {"linking", "written"} => q.seen \in DOMAIN users'
    BY <1>1, <2>2, <2>3
  <2> HIDE DEF q
  <2> QED
    BY <1>1, <2>3, <2>4, <2>5, RequestStep
<1>8. CASE Refresh(r)
  <2>1. Opened(users, request[r].seen) \in Answers
    BY <1>2, OpenedType DEF Request
  <2> QED
    BY <1>1, <1>8, <2>1, AnswerType DEF Refresh
<1> QED
  BY <1>3, <1>4, <1>5, <1>6, <1>7, <1>8

\* A row may be changed in place.
LEMMA ChangeRow ==
  ASSUME TypeOK, NEW u \in DOMAIN users, NEW row \in User,
         users' = [users EXCEPT ![u] = row]
  PROVE  /\ users' \in Seq(User)
         /\ Len(users') = Len(users) /\ Len(users') >= Len(users)
         /\ Len(users) \in Nat
         /\ DOMAIN users = 1..Len(users) /\ DOMAIN users' = 1..Len(users')
         /\ users'[u] = row
         /\ \A v \in DOMAIN users \ {u} : users'[v] = users[v]
<1>1. u \in 1..Len(users) /\ Len(users) \in Nat /\ users \in Seq(User)
  BY LenProperties DEF TypeOK
<1> QED
  BY <1>1, ExceptSeq, LenProperties

\* The key of a request fits its kind: a password to register with, a sub
\* Google vouches for.
KeyInv == \A r \in Requests : /\ request[r].kind = "register" => request[r].key \in Passwords
                              /\ request[r].kind = "google" => request[r].key \in Subs

LEMMA HandlersKeepKeys ==
  ASSUME TypeOK, KeyInv, NEW r \in Requests, Handle(r)
  PROVE  KeyInv'
<1>1. \A x \in Requests : request'[x].kind = request[x].kind /\ request'[x].key = request[x].key
  <2>1. request \in [Requests -> Request]
    BY DEF TypeOK
  <2>2. CASE \E pc \in Pcs : Goto(r, pc)
    BY <2>1, <2>2 DEF Goto, Request
  <2>3. CASE \E a : Answer(r, a)
    BY <2>1, <2>3 DEF Answer, Request
  <2>4. CASE LoginSelect(r)
    BY <2>1, <2>4 DEF LoginSelect, Request
  <2>5. CASE GoogleByEmail(r)
    BY <2>1, <2>5 DEF GoogleByEmail, Request
  <2>6. CASE Create(r)
    <3>1. \/ Answer(r, Reply("error", 0))
          \/ \E n : request' = [request EXCEPT ![r].pc = "written", ![r].seen = n]
      BY <2>6, Zenon DEF Create
    <3> QED
      BY <2>1, <2>3, <3>1 DEF Request
  <2>7. CASE RegisterSelect(r) \/ RegisterInsert(r) \/ LoginVerify(r) \/ GoogleBySub(r)
             \/ Link(r) \/ Refresh(r)
    BY <2>2, <2>3, <2>7 DEF RegisterSelect, RegisterInsert, LoginVerify, GoogleBySub,
                            Link, Refresh, Commit, Pcs
  <2> QED
    BY <2>4, <2>5, <2>6, <2>7 DEF Handle
<1> QED
  BY <1>1 DEF KeyInv

\* What the three handlers that write a row do to the table.
LEMMA RowsWritten ==
  ASSUME TypeOK, KeyInv, NEW r \in Requests, RegisterInsert(r) \/ Link(r) \/ Create(r)
  PROVE  \/ users' = users
         \/ \E row \in User : /\ row.sub # NoKey => row.password = NoKey
                              /\ users' = Append(users, row)
         \/ /\ request[r].seen \in DOMAIN users
            /\ \E row \in User : /\ row.password = NoKey
                                 /\ users' = [users EXCEPT ![request[r].seen] = row]
<1>1. request[r] \in Request
  BY DEF TypeOK
<1>2. CASE RegisterInsert(r)
  <2> DEFINE row == [email |-> request[r].email, password |-> request[r].key,
                     sub |-> NoKey, active |-> TRUE]
  <2>1. users' = users \/ users' = Append(users, row)
    BY <1>2 DEF RegisterInsert
  <2>2. row \in User /\ row.sub = NoKey
    BY <1>1, <1>2 DEF RegisterInsert, At, KeyInv, Request, User
  <2> HIDE DEF row
  <2> QED
    BY <2>1, <2>2
<1>3. CASE Create(r)
  <2> DEFINE row == [email |-> request[r].email, password |-> NoKey,
                     sub |-> request[r].key, active |-> TRUE]
  <2>1. users' = users \/ users' = Append(users, row)
    BY <1>3 DEF Create
  <2>2. row \in User /\ row.password = NoKey
    BY <1>1, <1>3 DEF Create, At, KeyInv, Request, User
  <2> HIDE DEF row
  <2> QED
    BY <2>1, <2>2
<1>4. CASE Link(r)
  <2> DEFINE u == request[r].seen
             row == [users[u] EXCEPT !.sub = request[r].key, !.password = NoKey]
  <2>1. u \in DOMAIN users /\ users[u] \in User
    BY <1>4, ElementOfSeq, LenProperties DEF Link, At, TypeOK
  <2>2. users' = users \/ users' = [users EXCEPT ![u] = row]
    BY <1>4, <2>1 DEF Link, Commit
  <2>3. row \in User /\ row.password = NoKey
    BY <1>1, <1>4, <2>1 DEF Link, At, KeyInv, Request, User
  <2> HIDE DEF row
  <2> QED
    BY <2>1, <2>2, <2>3
<1> QED
  BY <1>2, <1>3, <1>4

LEMMA WritersType ==
  ASSUME TypeOK, KeyInv, NEW r \in Requests, RegisterInsert(r) \/ Link(r) \/ Create(r)
  PROVE  TypeOK'
<1>1. UNCHANGED <<form, edits>> /\ request[r] \in Request
  BY DEF RegisterInsert, Link, Create, TypeOK
<1>2. /\ users' \in Seq(User) /\ Len(users') >= Len(users)
      /\ Len(users) \in Nat /\ Len(users') \in Nat
      /\ DOMAIN users = 1..Len(users) /\ DOMAIN users' = 1..Len(users')
  <2>1. CASE users' = users
    BY <2>1, LenProperties DEF TypeOK
  <2>2. CASE \E row \in User : users' = Append(users, row)
    BY <2>2, AppendRow
  <2>3. CASE /\ request[r].seen \in DOMAIN users
             /\ \E row \in User : users' = [users EXCEPT ![request[r].seen] = row]
    BY <2>3, ChangeRow
  <2> QED
    BY <2>1, <2>2, <2>3, RowsWritten
<1>3. Reply("error", 0) \in Answers /\ Reply("created", 0) \in Answers
  BY DEF Reply, Answers
<1>4. CASE Answer(r, Reply("error", 0)) \/ Answer(r, Reply("created", 0))
  BY <1>1, <1>2, <1>3, <1>4, AnswerType
<1>5. CASE Link(r) /\ Goto(r, "written")
  <2>1. request[r].seen \in DOMAIN users'
    BY <1>2, <1>5 DEF Link, At, TypeOK
  <2> QED
    BY <1>1, <1>2, <1>5, <2>1, GotoType DEF Pcs
<1>6. CASE Create(r) /\ ~ Answer(r, Reply("error", 0))
  <2>1. PICK us : /\ us = Append(users, [email |-> request[r].email, password |-> NoKey,
                                         sub |-> request[r].key, active |-> TRUE])
                  /\ users' = us
                  /\ request' = [request EXCEPT ![r].pc = "written", ![r].seen = Len(us)]
    BY <1>6, Zenon DEF Create
  <2>2. [email |-> request[r].email, password |-> NoKey,
         sub |-> request[r].key, active |-> TRUE] \in User
    BY <1>1, <1>6 DEF Create, At, KeyInv, Request, User
  <2>3. PICK n \in Nat : /\ n \in DOMAIN users'
                         /\ request' = [request EXCEPT ![r].pc = "written", ![r].seen = n]
    <3>1. Len(us) \in Nat /\ Len(us) \in DOMAIN users'
      BY <1>2, <2>1, <2>2, AppendRow
    <3> QED
      BY <2>1, <3>1
  <2> DEFINE q == [request[r] EXCEPT !.pc = "written", !.seen = n]
  <2>4. q \in Request /\ q.seen = n
    BY <1>1 DEF Request
  <2>5. request' = [request EXCEPT ![r] = q]
    BY <2>3 DEF TypeOK
  <2> HIDE DEF q
  <2> QED
    BY <1>1, <1>2, <2>3, <2>4, <2>5, RequestStep
<1> QED
  BY <1>4, <1>5, <1>6 DEF RegisterInsert, Link, Commit, Create

LEMMA OpenFormType ==
  ASSUME TypeOK, OpenForm
  PROVE  TypeOK'
<1>1. PICK u \in DOMAIN users : form' = [user |-> u, sub |-> users[u].sub]
  BY DEF OpenForm
<1>2. u \in 0..Len(users) /\ users[u] \in User
  BY ElementOfSeq, LenProperties DEF TypeOK
<1>3. users[u].sub \in Subs \cup {NoKey}
  BY <1>2 DEF User
<1>4. UNCHANGED <<users, request, edits>>
  BY DEF OpenForm
<1> QED
  BY <1>1, <1>2, <1>3, <1>4 DEF TypeOK

\* A saved form changes its row, unless an index refuses it.
LEMMA FormWritten ==
  ASSUME TypeOK, SaveForm
  PROVE  \/ users' = users
         \/ /\ form.user \in DOMAIN users
            /\ \E row \in User : /\ row.password = users[form.user].password
                                 /\ row.sub = form.sub
                                 /\ users' = [users EXCEPT ![form.user] = row]
<1>1. form.user \in DOMAIN users /\ users[form.user] \in User /\ form.sub \in Subs \cup {NoKey}
  BY ElementOfSeq, LenProperties DEF SaveForm, TypeOK
<1>2. PICK active \in BOOLEAN :
        \/ users' = users
        \/ users' = [users EXCEPT ![form.user].sub = form.sub, ![form.user].active = active]
  BY Zenon DEF SaveForm
<1> DEFINE row == [users[form.user] EXCEPT !.sub = form.sub, !.active = active]
<1>3. row \in User /\ row.password = users[form.user].password /\ row.sub = form.sub
  BY <1>1 DEF User
<1>4. users' = users \/ users' = [users EXCEPT ![form.user] = row]
  BY <1>1, <1>2
<1> HIDE DEF row
<1> QED
  BY <1>1, <1>3, <1>4

\* A form is open only while the bound on saves is not reached, and an open form
\* that shows a google_sub is about a row without a password.
FormInv == form.user # 0 =>
             /\ edits < MaxEdits
             /\ form.sub # NoKey => users[form.user].password = NoKey

LEMMA SaveFormType ==
  ASSUME TypeOK, FormInv, SaveForm
  PROVE  TypeOK'
<1>1. /\ users' \in Seq(User) /\ Len(users') \in Nat
      /\ DOMAIN users' = DOMAIN users
  <2>1. CASE users' = users
    BY <2>1, LenProperties DEF TypeOK
  <2>2. CASE /\ form.user \in DOMAIN users
             /\ \E row \in User : users' = [users EXCEPT ![form.user] = row]
    BY <2>2, ChangeRow
  <2> QED
    BY <2>1, <2>2, FormWritten
<1>2. form' \in [user : 0..Len(users'), sub : Subs \cup {NoKey}]
  BY <1>1 DEF SaveForm
<1>3. edits' \in 0..MaxEdits /\ request' = request
  BY KeyAssumption DEF TypeOK, FormInv, SaveForm
<1> QED
  BY <1>1, <1>2, <1>3 DEF TypeOK

---------------------------------------------------------------------------
(* The rows: the inductive invariant *)

\* A row with a google_sub has no password.
VouchedInv == \A u \in DOMAIN users : users[u].sub # NoKey => users[u].password = NoKey

AccountsInv == TypeOK /\ KeyInv /\ VouchedInv /\ FormInv

\* No step gives a row without a password one.
RowsKept == \A u \in DOMAIN users : /\ u \in DOMAIN users'
                                    /\ users[u].password = NoKey => users'[u].password = NoKey

LEMMA AccountsInit == Init => AccountsInv
<1> SUFFICES ASSUME Init
             PROVE  AccountsInv
  OBVIOUS
<1>1. TypeOK
  BY TypeInit
<1>2. KeyInv
  BY DEF Init, KeyInv
<1>3. VouchedInv /\ FormInv
  BY DEF Init, VouchedInv, FormInv
<1> QED
  BY <1>1, <1>2, <1>3 DEF AccountsInv

\* Steps that leave the table alone.
LEMMA SameRows ==
  ASSUME AccountsInv, users' = users
  PROVE  VouchedInv' /\ RowsKept
BY DEF AccountsInv, VouchedInv, RowsKept

LEMMA HandlersKeepRows ==
  ASSUME AccountsInv, NEW r \in Requests, RegisterInsert(r) \/ Link(r) \/ Create(r)
  PROVE  VouchedInv' /\ RowsKept
<1>1. CASE users' = users
  BY <1>1, SameRows
<1>2. CASE \E row \in User : /\ row.sub # NoKey => row.password = NoKey
                             /\ users' = Append(users, row)
  <2>1. PICK row \in User : /\ row.sub # NoKey => row.password = NoKey
                            /\ users' = Append(users, row)
    BY <1>2
  <2>2. /\ \A u \in DOMAIN users : u \in DOMAIN users' /\ users'[u] = users[u]
        /\ \A u \in DOMAIN users' : u \in DOMAIN users \/ u = Len(users')
        /\ users'[Len(users')] = row
    BY <2>1, AppendRow DEF AccountsInv
  <2> QED
    BY <2>1, <2>2 DEF AccountsInv, VouchedInv, RowsKept
<1>3. CASE /\ request[r].seen \in DOMAIN users
           /\ \E row \in User : /\ row.password = NoKey
                                /\ users' = [users EXCEPT ![request[r].seen] = row]
  BY <1>3 DEF AccountsInv, VouchedInv, RowsKept
<1> QED
  BY <1>1, <1>2, <1>3, RowsWritten DEF AccountsInv

LEMMA FormKeepsRows ==
  ASSUME AccountsInv, SaveForm
  PROVE  VouchedInv' /\ RowsKept
<1>1. CASE users' = users
  BY <1>1, SameRows
<1>2. CASE /\ form.user \in DOMAIN users
           /\ \E row \in User : /\ row.password = users[form.user].password
                                /\ row.sub = form.sub
                                /\ users' = [users EXCEPT ![form.user] = row]
  BY <1>2 DEF SaveForm, AccountsInv, VouchedInv, FormInv, RowsKept
<1> QED
  BY <1>1, <1>2, FormWritten DEF AccountsInv

\* An open form stays right about the password of its row.
LEMMA FormStaysRight ==
  ASSUME AccountsInv, RowsKept, UNCHANGED <<form, edits>>
  PROVE  FormInv'
<1>1. form.user # 0 => form.user \in DOMAIN users
  BY LenProperties DEF AccountsInv, TypeOK
<1> QED
  BY <1>1 DEF AccountsInv, FormInv, RowsKept

LEMMA AccountsStep == AccountsInv /\ [Next]_vars => AccountsInv' /\ RowsKept
<1> SUFFICES ASSUME AccountsInv, [Next]_vars
             PROVE  AccountsInv' /\ RowsKept
  OBVIOUS
<1> USE DEF AccountsInv
<1>1. ASSUME NEW r \in Requests, Start(r)
      PROVE  AccountsInv' /\ RowsKept
  <2>1. TypeOK'
    BY <1>1, StartType
  <2>2. KeyInv'
    <3>1. PICK kind, e, k : /\ Begin(r, kind, e, k)
                            /\ kind = "register" => k \in Passwords
                            /\ kind = "google" => k \in Subs
      <4>1. CASE \E e \in Emails, p \in Passwords : Begin(r, "register", e, p)
        BY <4>1
      <4>2. CASE \E e \in Emails, p \in Passwords : Begin(r, "login", e, p)
        BY <4>2
      <4>3. CASE \E i \in Identities : Begin(r, "google", i[2], i[1])
        BY <4>3 DEF Subs
      <4> QED
        BY <1>1, <4>1, <4>2, <4>3 DEF Start
    <3>2. request'[r].kind = kind /\ request'[r].key = k
      BY <3>1 DEF Begin, TypeOK, Request
    <3>3. \A x \in Requests \ {r} : request'[x] = request[x]
      BY <3>1 DEF Begin, TypeOK
    <3> QED
      BY <3>1, <3>2, <3>3 DEF KeyInv
  <2>3. users' = users /\ UNCHANGED <<form, edits>>
    BY <1>1 DEF Start, Begin
  <2> QED
    BY <2>1, <2>2, <2>3, SameRows, FormStaysRight
<1>2. ASSUME NEW r \in Requests, Handle(r)
      PROVE  AccountsInv' /\ RowsKept
  <2>1. KeyInv'
    BY <1>2, HandlersKeepKeys
  <2>2. UNCHANGED <<form, edits>>
    BY <1>2 DEF Handle, RegisterSelect, RegisterInsert, LoginSelect, LoginVerify,
                GoogleBySub, GoogleByEmail, Link, Create, Refresh
  <2>3. CASE RegisterInsert(r) \/ Link(r) \/ Create(r)
    BY <2>1, <2>2, <2>3, WritersType, HandlersKeepRows, FormStaysRight
  <2>4. CASE \/ RegisterSelect(r) \/ LoginSelect(r) \/ LoginVerify(r)
             \/ GoogleBySub(r) \/ GoogleByEmail(r) \/ Refresh(r)
    <3>1. users' = users
      BY <2>4 DEF RegisterSelect, LoginSelect, LoginVerify, GoogleBySub, GoogleByEmail, Refresh
    <3> QED
      BY <2>1, <2>2, <2>4, <3>1, ReadersType, SameRows, FormStaysRight
  <2> QED
    BY <1>2, <2>3, <2>4 DEF Handle
<1>3. CASE OpenForm
  <2>1. TypeOK' /\ users' = users /\ request' = request /\ edits' = edits /\ edits < MaxEdits
    BY <1>3, OpenFormType DEF OpenForm
  <2>2. FormInv'
    BY <1>3, <2>1 DEF OpenForm, FormInv, VouchedInv
  <2> QED
    BY <2>1, <2>2, SameRows DEF KeyInv
<1>4. CASE SaveForm
  <2>1. TypeOK' /\ request' = request /\ form'.user = 0
    BY <1>4, SaveFormType DEF SaveForm
  <2> QED
    BY <1>4, <2>1, FormKeepsRows DEF KeyInv, FormInv
<1>5. CASE UNCHANGED vars
  BY <1>5, SameRows DEF vars, TypeOK, KeyInv, FormInv
<1> QED
  BY <1>1, <1>2, <1>3, <1>4, <1>5 DEF Next

---------------------------------------------------------------------------
(* Theorems about the rows *)

LEMMA AccountsAlways == Spec => []AccountsInv
<1>1. AccountsInv /\ [Next]_vars => AccountsInv'
  BY AccountsStep
<1> QED
  BY <1>1, AccountsInit, PTL DEF Spec

\* Types: no request ever works on a row that is not there, and a form is about
\* a row, for any number of concurrent requests and forms.
THEOREM AccountsTyped == Spec => []TypeOK
<1>1. AccountsInv => TypeOK
  BY DEF AccountsInv
<1> QED
  BY <1>1, AccountsAlways, PTL

\* "that password stops working" (auth.py:166): an account Google has vouched
\* for has no password and no concurrent request and no stale form of the admin
\* gives it one again.
THEOREM LinkedAccountsHaveNoPassword == Spec => LinkedHasNoPassword
<1>1. AccountsInv /\ [Next]_vars =>
        [\A u \in DOMAIN users : users[u].sub # NoKey \/ users[u].password = NoKey =>
           users'[u].password = NoKey]_vars
  BY AccountsStep DEF AccountsInv, VouchedInv, RowsKept
<1> QED
  BY <1>1, AccountsAlways, PTL DEF Spec, LinkedHasNoPassword

---------------------------------------------------------------------------
(* The answers and the identities: the inductive invariant, beside AccountsInv *)

AtEmail(r, u) == u \in DOMAIN users /\ users[u].email = request[r].email
HasSub(r, u) == u \in DOMAIN users /\ users[u].sub = request[r].key

\* What a request remembers of a row.
Remembers(r) ==
  /\ request[r].pc # "done" => request[r].answer.kind = "none"
  /\ request[r].kind = "register" => request[r].answer.kind # "token"
  /\ request[r].kind = "login" =>
       /\ request[r].pc = "verifying" /\ request[r].matches => AtEmail(r, request[r].seen)
       /\ request[r].answer.kind = "token" => AtEmail(r, request[r].answer.user)
  /\ request[r].kind = "google" /\ request[r].pc \in {"linking", "written"} =>
       AtEmail(r, request[r].seen)

RequestInv == \A r \in Requests : Remembers(r)

\* A google_sub comes from a request that signs in with it at that address.
Vouched(sub, email) == \E q \in Requests : /\ SignsIn(q) /\ request[q].key = sub
                                           /\ request[q].email = email
OwnerInv ==
  /\ \A u \in DOMAIN users : users[u].sub # NoKey => Vouched(users[u].sub, users[u].email)
  /\ form.user # 0 /\ form.sub # NoKey => Vouched(form.sub, users[form.user].email)

\* Unless a form wrote back an old google_sub or two identities share an
\* address, a row keeps the identity a request linked it to.
Linked(r) ==
  request[r].kind = "google" =>
    /\ request[r].pc = "written" => HasSub(r, request[r].seen)
    /\ request[r].answer.kind = "token" => HasSub(r, request[r].answer.user)

LinkedInv == edits = 0 /\ ~Contested => \A r \in Requests : Linked(r)

LoginReply(r) ==
  IF ~request[r].matches THEN Reply("rejected", 0)
  ELSE IF ~request[r].active THEN Reply("disabled", 0) ELSE Reply("token", request[r].seen)

\* The answers that are still to come are right by now.
Right(r) ==
  /\ InFlight(request[r]) => AtOnce(users, request[r]) \in could[r]
  /\ At(r, "login", "verifying") => LoginReply(r) \in could[r]
  /\ edits = 0 /\ At(r, "google", "written") => Reply("token", request[r].seen) \in could[r]
  /\ edits = 0 \/ OneToOne =>
       (request[r].answer.kind \notin {"none", "error"} => request[r].answer \in could[r])

AnswerInv == /\ \A r \in Requests : Right(r)
             /\ edits = 0 => \A u \in DOMAIN users : users[u].active

IdentityInv == Unique(users) /\ RequestInv /\ OwnerInv /\ LinkedInv /\ AnswerInv

---------------------------------------------------------------------------
(* Lookups and answers *)

\* What the two SELECTs find.
LEMMA LookupFinds ==
  ASSUME NEW us \in Seq(User), NEW k
  PROVE  /\ IF ByEmail(us, k) # 0 THEN ByEmail(us, k) \in DOMAIN us /\ us[ByEmail(us, k)].email = k
                                  ELSE \A u \in DOMAIN us : us[u].email # k
         /\ IF BySub(us, k) # 0 THEN BySub(us, k) \in DOMAIN us /\ us[BySub(us, k)].sub = k
                                ELSE \A u \in DOMAIN us : us[u].sub # k
<1>0. DOMAIN us = 1..Len(us) /\ Len(us) \in Nat
  BY LenProperties
<1>1. IF ByEmail(us, k) # 0 THEN ByEmail(us, k) \in DOMAIN us /\ us[ByEmail(us, k)].email = k
                            ELSE \A u \in DOMAIN us : us[u].email # k
  <2> DEFINE I == {i \in 1..Len(us) : us[i].email = k}
  <2>1. I # {} => Min(I) \in I
    BY LeastElement
  <2>2. ByEmail(us, k) = IF I # {} THEN Min(I) ELSE 0
    BY Zenon DEF ByEmail, SelectInSeq
  <2>3. QED
    BY <1>0, <2>1, <2>2
<1>2. IF BySub(us, k) # 0 THEN BySub(us, k) \in DOMAIN us /\ us[BySub(us, k)].sub = k
                          ELSE \A u \in DOMAIN us : us[u].sub # k
  <2> DEFINE I == {i \in 1..Len(us) : us[i].sub = k}
  <2>1. I # {} => Min(I) \in I
    BY LeastElement
  <2>2. BySub(us, k) = IF I # {} THEN Min(I) ELSE 0
    BY Zenon DEF BySub, SelectInSeq
  <2>3. QED
    BY <1>0, <2>1, <2>2
<1>3. QED
  BY <1>1, <1>2

\* Under the unique indexes they find the only row there is.
LEMMA LookupFindsIt ==
  ASSUME NEW us \in Seq(User), Unique(us), NEW u \in DOMAIN us
  PROVE  /\ ByEmail(us, us[u].email) = u
         /\ us[u].sub # NoKey => BySub(us, us[u].sub) = u
<1>1. ByEmail(us, us[u].email) = u
  BY LookupFinds DEF Unique
<1>2. us[u].sub # NoKey => BySub(us, us[u].sub) = u
  BY LookupFinds DEF Unique
<1>3. QED
  BY <1>1, <1>2

LEMMA ReplyIs ==
  ASSUME NEW kind, NEW u
  PROVE  Reply(kind, u).kind = kind /\ Reply(kind, u).user = u
BY DEF Reply

LEMMA OpenedIs ==
  ASSUME NEW us, NEW u
  PROVE  /\ us[u].active => Opened(us, u) = Reply("token", u)
         /\ ~us[u].active => Opened(us, u) = Reply("disabled", 0)
         /\ Opened(us, u).kind \in {"token", "disabled"}
         /\ Opened(us, u).kind = "token" => Opened(us, u).user = u
BY DEF Opened, Reply

\* The answers of the three routes to a request that runs alone.
LEMMA AloneRegister ==
  ASSUME NEW us, NEW q, q.kind = "register"
  PROVE  AtOnce(us, q) = Reply(IF ByEmail(us, q.email) = 0 THEN "created" ELSE "conflict", 0)
BY Zenon DEF AtOnce

LEMMA AloneLogin ==
  ASSUME NEW us, NEW q, q.kind = "login"
  PROVE  AtOnce(us, q) = IF ByEmail(us, q.email) # 0 /\ us[ByEmail(us, q.email)].password = q.key
                         THEN Opened(us, ByEmail(us, q.email)) ELSE Reply("rejected", 0)
<1>1. "login" # "register"
  OBVIOUS
<1>2. QED
  BY <1>1, Zenon DEF AtOnce

LEMMA AloneGoogle ==
  ASSUME NEW us, NEW q, q.kind = "google"
  PROVE  /\ BySub(us, q.key) # 0 => AtOnce(us, q) = Opened(us, BySub(us, q.key))
         /\ BySub(us, q.key) = 0 /\ ByEmail(us, q.email) # 0 =>
              AtOnce(us, q) = Opened(us, ByEmail(us, q.email))
<1> DEFINE u == IF BySub(us, q.key) # 0 THEN BySub(us, q.key) ELSE ByEmail(us, q.email)
<1>1. "google" # "register" /\ "google" # "login"
  OBVIOUS
<1>2. AtOnce(us, q) = IF u = 0 THEN Reply("token", Len(us) + 1) ELSE Opened(us, u)
  BY <1>1, Zenon DEF AtOnce
<1>3. QED
  BY <1>2

---------------------------------------------------------------------------
(* What a step does to a request *)

\* The others stay; the request goes on asking the same.
Frame(r) == /\ \A x \in Requests \ {r} : request'[x] = request[x]
            /\ request'[r].kind = request[r].kind
            /\ request'[r].email = request[r].email
            /\ request'[r].key = request[r].key

LEMMA GotoDoes ==
  ASSUME TypeOK, NEW r \in Requests, NEW pc, Goto(r, pc)
  PROVE  /\ Frame(r) /\ request'[r].pc = pc
         /\ request'[r].seen = request[r].seen /\ request'[r].answer = request[r].answer
BY DEF TypeOK, Goto, Frame, Request

LEMMA AnswerDoes ==
  ASSUME TypeOK, NEW r \in Requests, NEW a, Answer(r, a)
  PROVE  Frame(r) /\ request'[r].pc = "done" /\ request'[r].answer = a
BY DEF TypeOK, Answer, Frame, Request

LEMMA LoginSelectDoes ==
  ASSUME TypeOK, NEW r \in Requests, LoginSelect(r)
  PROVE  /\ Frame(r) /\ request'[r].pc = "verifying"
         /\ request'[r].seen = ByEmail(users, request[r].email)
         /\ request'[r].answer = request[r].answer
         /\ request'[r].matches <=>
              /\ request'[r].seen # 0
              /\ users[request'[r].seen].password = request[r].key
         /\ request'[r].active <=> request'[r].seen # 0 /\ users[request'[r].seen].active
<1>1. PICK u : u = ByEmail(users, request[r].email)
  OBVIOUS
<1>2. PICK m \in BOOLEAN : m = (u # 0 /\ users[u].password = request[r].key)
  OBVIOUS
<1>3. PICK a \in BOOLEAN : a = (u # 0 /\ users[u].active)
  <2>1. (u # 0 /\ users[u].active) \in BOOLEAN
    <3>1. users \in Seq(User) /\ u \in 0..Len(users)
      BY <1>1, LookupType DEF TypeOK
    <3>2. u # 0 => users[u] \in User
      BY <3>1, ElementOfSeq, LenProperties
    <3>3. QED
      BY <3>2 DEF User
  <2>2. QED
    BY <2>1
<1>4. request' = [request EXCEPT ![r].pc = "verifying", ![r].seen = u,
                                 ![r].matches = m, ![r].active = a]
  BY <1>1, <1>2, <1>3, Zenon DEF LoginSelect
<1>5. /\ Frame(r) /\ request'[r].pc = "verifying"
      /\ request'[r].seen = u /\ request'[r].answer = request[r].answer
      /\ request'[r].matches = m /\ request'[r].active = a
  BY <1>4 DEF TypeOK, Frame, Request
<1>6. m <=> u # 0 /\ users[u].password = request[r].key
  BY <1>2
<1>7. a <=> u # 0 /\ users[u].active
  BY <1>3
<1>8. QED
  BY <1>1, <1>5, <1>6, <1>7

LEMMA GoogleByEmailDoes ==
  ASSUME TypeOK, NEW r \in Requests, GoogleByEmail(r)
  PROVE  /\ Frame(r) /\ request'[r].seen = ByEmail(users, request[r].email)
         /\ request'[r].pc = IF request'[r].seen # 0 THEN "linking" ELSE "creating"
         /\ request'[r].answer = request[r].answer
<1>1. PICK u : u = ByEmail(users, request[r].email)
  OBVIOUS
<1>2. request' = [request EXCEPT ![r].pc = IF u # 0 THEN "linking" ELSE "creating",
                                 ![r].seen = u]
  BY <1>1, Zenon DEF GoogleByEmail
<1>3. QED
  BY <1>1, <1>2 DEF TypeOK, Frame, Request

---------------------------------------------------------------------------
(* What a step does to the table *)

\* An INSERT that the unique indexes accept.
Inserted(row) == Unique(users)' /\ users' = Append(users, row)

\* An UPDATE of one row that they accept.
Updated(u, row) == Unique(users)' /\ users' = [users EXCEPT ![u] = row]

LEMMA RegisterWrites ==
  ASSUME AccountsInv, NEW r \in Requests, RegisterInsert(r)
  PROVE  \/ users' = users /\ Answer(r, Reply("error", 0))
         \/ /\ Answer(r, Reply("created", 0))
            /\ \E row \in User : /\ Inserted(row) /\ row.email = request[r].email
                                 /\ row.sub = NoKey /\ row.active
<1> DEFINE row == [email |-> request[r].email, password |-> request[r].key,
                   sub |-> NoKey, active |-> TRUE]
           us == Append(users, row)
<1>1. row \in User /\ row.email = request[r].email /\ row.sub = NoKey /\ row.active
  BY DEF AccountsInv, RegisterInsert, At, KeyInv, TypeOK, Request, User
<1>2. \/ users' = users /\ Answer(r, Reply("error", 0))
      \/ Answer(r, Reply("created", 0)) /\ users' = us /\ Unique(us)
  BY Zenon DEF RegisterInsert
<1>3. users' = us /\ Unique(us) => Inserted(row)
  BY DEF Inserted, Unique
<1> HIDE DEF row
<1>4. QED
  BY <1>1, <1>2, <1>3

LEMMA CreateWrites ==
  ASSUME AccountsInv, NEW r \in Requests, Create(r)
  PROVE  \/ users' = users /\ Answer(r, Reply("error", 0))
         \/ /\ request' = [request EXCEPT ![r].pc = "written", ![r].seen = Len(users')]
            /\ \E row \in User : /\ Inserted(row) /\ row.email = request[r].email
                                 /\ row.sub = request[r].key /\ row.active
<1> DEFINE row == [email |-> request[r].email, password |-> NoKey,
                   sub |-> request[r].key, active |-> TRUE]
           us == Append(users, row)
<1>1. row \in User /\ row.email = request[r].email /\ row.sub = request[r].key /\ row.active
  BY DEF AccountsInv, Create, At, KeyInv, TypeOK, Request, User
<1>2. \/ users' = users /\ Answer(r, Reply("error", 0))
      \/ /\ users' = us /\ Unique(us)
         /\ request' = [request EXCEPT ![r].pc = "written", ![r].seen = Len(us)]
  BY Zenon DEF Create
<1>3. users' = us /\ Unique(us) => Inserted(row)
  BY DEF Inserted, Unique
<1> HIDE DEF row
<1>4. QED
  BY <1>1, <1>2, <1>3

LEMMA LinkWrites ==
  ASSUME AccountsInv, NEW r \in Requests, Link(r)
  PROVE  \/ users' = users /\ Answer(r, Reply("error", 0))
         \/ /\ Goto(r, "written")
            /\ request[r].seen \in DOMAIN users
            /\ \E row \in User : /\ Updated(request[r].seen, row)
                                 /\ row.email = users[request[r].seen].email
                                 /\ row.sub = request[r].key
                                 /\ row.active <=> users[request[r].seen].active
<1> DEFINE u == request[r].seen
           us == [users EXCEPT ![u].sub = request[r].key, ![u].password = NoKey]
<1>1. u \in DOMAIN users /\ users[u] \in User /\ request[r].key \in Subs
  BY ElementOfSeq, LenProperties DEF AccountsInv, Link, At, TypeOK, KeyInv
<1>2. PICK old \in User : old = users[u]
  BY <1>1
<1>3. PICK k \in Subs : k = request[r].key
  BY <1>1
<1>4. PICK row : row = [old EXCEPT !.sub = k, !.password = NoKey]
  OBVIOUS
<1>5. row \in User /\ row.email = old.email /\ row.sub = k /\ (row.active <=> old.active)
  BY <1>4 DEF User
<1>6. us = [users EXCEPT ![u] = row]
  BY <1>1, <1>2, <1>3, <1>4
<1>7. \/ users' = users /\ Answer(r, Reply("error", 0))
      \/ users' = us /\ Unique(us) /\ Goto(r, "written")
  BY Zenon DEF Link, Commit
<1>8. users' = us /\ Unique(us) => Updated(u, row)
  BY <1>6 DEF Updated, Unique
<1> HIDE DEF us
<1>9. QED
  BY <1>1, <1>2, <1>3, <1>5, <1>7, <1>8

LEMMA FormWrites ==
  ASSUME AccountsInv, SaveForm
  PROVE  \/ users' = users
         \/ /\ form.user \in DOMAIN users
            /\ \E row \in User : /\ Updated(form.user, row)
                                 /\ row.email = users[form.user].email
                                 /\ row.sub = form.sub
<1>1. form.user \in DOMAIN users /\ users[form.user] \in User /\ form.sub \in Subs \cup {NoKey}
  BY ElementOfSeq, LenProperties DEF AccountsInv, SaveForm, TypeOK
<1>2. PICK u : u = form.user
  OBVIOUS
<1>3. PICK old \in User : old = users[u]
  BY <1>1, <1>2
<1>4. PICK k \in Subs \cup {NoKey} : k = form.sub
  BY <1>1
<1>5. PICK active \in BOOLEAN :
        \/ users' = users
        \/ /\ users' = [users EXCEPT ![u].sub = k, ![u].active = active]
           /\ Unique([users EXCEPT ![u].sub = k, ![u].active = active])
  BY <1>2, <1>4, Zenon DEF SaveForm
<1>6. PICK row : row = [old EXCEPT !.sub = k, !.active = active]
  OBVIOUS
<1>7. row \in User /\ row.email = old.email /\ row.sub = k
  BY <1>6 DEF User
<1>8. [users EXCEPT ![u].sub = k, ![u].active = active] = [users EXCEPT ![u] = row]
  BY <1>1, <1>2, <1>3, <1>6
<1>9. users' = users \/ Updated(u, row)
  BY <1>5, <1>8 DEF Updated, Unique
<1>10. QED
  BY <1>1, <1>2, <1>3, <1>4, <1>7, <1>9

\* Rows are never deleted and keep their address.
EmailsStay == \A u \in DOMAIN users : u \in DOMAIN users' /\ users'[u].email = users[u].email

LEMMA UpdateDoes ==
  ASSUME TypeOK, NEW u \in DOMAIN users, NEW row \in User, Updated(u, row),
         row.email = users[u].email
  PROVE  /\ EmailsStay /\ DOMAIN users' = DOMAIN users
         /\ users'[u] = row /\ \A v \in DOMAIN users \ {u} : users'[v] = users[v]
BY ChangeRow DEF Updated, EmailsStay

LEMMA InsertDoes ==
  ASSUME TypeOK, NEW row \in User, Inserted(row)
  PROVE  /\ EmailsStay /\ DOMAIN users' = DOMAIN users \cup {Len(users')}
         /\ Len(users') \notin DOMAIN users
         /\ users'[Len(users')] = row /\ \A v \in DOMAIN users : users'[v] = users[v]
<1>1. users' = Append(users, row)
  BY DEF Inserted
<1>2. /\ Len(users') = Len(users) + 1 /\ Len(users) \in Nat
      /\ DOMAIN users = 1..Len(users) /\ DOMAIN users' = 1..Len(users')
      /\ \A v \in DOMAIN users : users'[v] = users[v]
      /\ users'[Len(users')] = row
  BY <1>1, AppendRow
<1>3. QED
  BY <1>2 DEF EmailsStay

\* Every step leaves the indexes satisfied and the addresses in place.
LEMMA TableStep ==
  ASSUME AccountsInv, Unique(users), [Next]_vars
  PROVE  Unique(users)' /\ EmailsStay
<1>1. CASE users' = users
  BY <1>1 DEF Unique, EmailsStay
<1>2. CASE \E row \in User : Inserted(row)
  BY <1>2, InsertDoes DEF Inserted, AccountsInv
<1>3. CASE \E u \in DOMAIN users, row \in User : Updated(u, row) /\ row.email = users[u].email
  BY <1>3, UpdateDoes DEF Updated, AccountsInv
<1>4. ASSUME NEW r \in Requests, Start(r) \/ Handle(r)
      PROVE  Unique(users)' /\ EmailsStay
  <2>1. CASE RegisterInsert(r)
    BY <1>1, <1>2, <2>1, RegisterWrites
  <2>2. CASE Create(r)
    BY <1>1, <1>2, <2>2, CreateWrites
  <2>3. CASE Link(r)
    BY <1>1, <1>3, <2>3, LinkWrites
  <2>4. CASE \/ Start(r) \/ RegisterSelect(r) \/ LoginSelect(r) \/ LoginVerify(r)
             \/ GoogleBySub(r) \/ GoogleByEmail(r) \/ Refresh(r)
    <3>1. users' = users
      BY <2>4 DEF Start, Begin, RegisterSelect, LoginSelect, LoginVerify,
                  GoogleBySub, GoogleByEmail, Refresh
    <3>2. QED
      BY <1>1, <3>1
  <2>5. QED
    BY <1>4, <2>1, <2>2, <2>3, <2>4 DEF Handle
<1>5. CASE OpenForm
  BY <1>1, <1>5 DEF OpenForm
<1>6. CASE SaveForm
  BY <1>1, <1>3, <1>6, FormWrites
<1>7. CASE UNCHANGED vars
  BY <1>1, <1>7 DEF vars
<1>8. QED
  BY <1>4, <1>5, <1>6, <1>7 DEF Next

---------------------------------------------------------------------------
(* Requests go on *)

LEMMA CreateDoes ==
  ASSUME TypeOK, NEW r \in Requests, NEW u,
         request' = [request EXCEPT ![r].pc = "written", ![r].seen = u]
  PROVE  /\ Frame(r) /\ request'[r].pc = "written" /\ request'[r].seen = u
         /\ request'[r].answer = request[r].answer
BY DEF TypeOK, Frame, Request

LEMMA StartDoes ==
  ASSUME TypeOK, NEW r \in Requests, Start(r)
  PROVE  /\ \A x \in Requests \ {r} : request'[x] = request[x]
         /\ request[r].pc = "idle" /\ request'[r].pc = "looking"
         /\ request'[r].answer = request[r].answer
         /\ UNCHANGED <<users, form, edits>>
<1>1. PICK kind, e, k : Begin(r, kind, e, k)
  BY DEF Start
<1>2. QED
  BY <1>1 DEF Begin, TypeOK, Request

LEMMA HandleDoes ==
  ASSUME AccountsInv, NEW r \in Requests, Handle(r)
  PROVE  /\ Frame(r) /\ request[r].pc \notin {"idle", "done"} /\ request'[r].pc # "idle"
         /\ UNCHANGED <<form, edits>>
<1>0. TypeOK
  BY DEF AccountsInv
<1>1. /\ request[r].pc \notin {"idle", "done"}
      /\ UNCHANGED <<form, edits>>
  BY DEF Handle, RegisterSelect, RegisterInsert, LoginSelect, LoginVerify, GoogleBySub,
         GoogleByEmail, Link, Create, Refresh, At
<1>2. CASE (\E a : Answer(r, a)) \/ \E pc \in Pcs \ {"idle"} : Goto(r, pc)
  BY <1>0, <1>1, <1>2, AnswerDoes, GotoDoes
<1>3. CASE LoginSelect(r)
  BY <1>0, <1>1, <1>3, LoginSelectDoes
<1>4. CASE GoogleByEmail(r)
  <2>1. Frame(r) /\ request'[r].pc # "idle"
    BY <1>0, <1>4, GoogleByEmailDoes
  <2>2. QED
    BY <1>1, <2>1
<1>5. CASE Create(r)
  <2>1. CASE \E u : request' = [request EXCEPT ![r].pc = "written", ![r].seen = u]
    BY <1>0, <1>1, <2>1, CreateDoes
  <2>2. QED
    BY <1>2, <1>5, <2>1, CreateWrites
<1>6. CASE RegisterSelect(r) \/ RegisterInsert(r) \/ LoginVerify(r) \/ GoogleBySub(r)
           \/ Link(r) \/ Refresh(r)
  BY <1>2, <1>6 DEF RegisterSelect, RegisterInsert, LoginVerify, GoogleBySub,
                    Link, Refresh, Commit, Pcs
<1>7. QED
  BY <1>3, <1>4, <1>5, <1>6 DEF Handle

\* A request that signs in goes on doing so, as the same identity.
LEMMA SigningInGoesOn ==
  ASSUME AccountsInv, [Next]_vars
  PROVE  \A x \in Requests : SignsIn(x) =>
           /\ SignsIn(x)' /\ request'[x].key = request[x].key
           /\ request'[x].email = request[x].email
<1>1. ASSUME NEW r \in Requests, Start(r)
      PROVE  \A x \in Requests : SignsIn(x) => request'[x] = request[x]
  BY <1>1, StartDoes DEF AccountsInv, SignsIn
<1>2. ASSUME NEW r \in Requests, Handle(r)
      PROVE  \A x \in Requests : SignsIn(x) =>
               /\ SignsIn(x)' /\ request'[x].key = request[x].key
               /\ request'[x].email = request[x].email
  BY <1>2, HandleDoes DEF Frame, SignsIn
<1>3. CASE request' = request
  BY <1>3 DEF SignsIn
<1>4. QED
  BY <1>1, <1>2, <1>3 DEF Next, OpenForm, SaveForm, vars, SignsIn

LEMMA VouchedStays ==
  ASSUME AccountsInv, [Next]_vars, NEW sub, NEW email, Vouched(sub, email)
  PROVE  Vouched(sub, email)'
BY SigningInGoesOn DEF Vouched

LEMMA ScopeShrinks ==
  ASSUME AccountsInv, [Next]_vars
  PROVE  /\ Contested => Contested'
         /\ OneToOne' => OneToOne
         /\ edits' = 0 => edits = 0
<1>1. Contested => Contested'
  BY SigningInGoesOn DEF Contested
<1>2. OneToOne' => OneToOne
  BY SigningInGoesOn DEF OneToOne
<1>3. edits' = edits \/ edits' = edits + 1
  BY StartDoes, HandleDoes DEF AccountsInv, Next, OpenForm, SaveForm, vars
<1>4. edits \in Nat
  BY KeyAssumption DEF AccountsInv, TypeOK
<1>5. QED
  BY <1>1, <1>2, <1>3, <1>4

---------------------------------------------------------------------------
(* What a request remembers stays right *)

\* A request that the step does not touch.
LEMMA OthersRemember ==
  ASSUME EmailsStay, NEW x \in Requests, Remembers(x), request'[x] = request[x]
  PROVE  Remembers(x)'
BY DEF Remembers, AtEmail, EmailsStay

\* One that goes on to a place where nothing need be remembered, or is
\* answered without a token.
LEMMA NothingToRemember ==
  ASSUME NEW r \in Requests, Remembers(r), request[r].pc # "done", Frame(r),
         \/ /\ request'[r].pc \notin {"verifying", "linking", "written"}
            /\ request'[r].answer = request[r].answer
         \/ request'[r].pc = "done" /\ request'[r].answer.kind # "token"
  PROVE  Remembers(r)'
BY DEF Remembers, Frame

LEMMA HandlerRemembers ==
  ASSUME AccountsInv, EmailsStay, NEW r \in Requests, Remembers(r), Handle(r)
  PROVE  Remembers(r)'
<1>0. /\ TypeOK /\ users \in Seq(User) /\ Frame(r) /\ request[r].pc # "done"
      /\ request[r].answer.kind = "none"
  BY HandleDoes DEF AccountsInv, TypeOK, Remembers
<1>1. CASE \E kind \in {"error", "created", "conflict", "rejected", "disabled"} :
             Answer(r, Reply(kind, 0))
  BY <1>0, <1>1, AnswerDoes, ReplyIs, NothingToRemember
<1>2. CASE \E pc \in {"hashing", "missed"} : Goto(r, pc)
  BY <1>0, <1>2, GotoDoes, NothingToRemember
<1>3. CASE RegisterSelect(r)
  BY <1>1, <1>2, <1>3 DEF RegisterSelect
<1>4. CASE RegisterInsert(r)
  BY <1>1, <1>4 DEF RegisterInsert
<1>5. CASE LoginSelect(r)
  <2>1. /\ request'[r].seen = ByEmail(users, request[r].email)
        /\ request'[r].matches => request'[r].seen # 0
        /\ request'[r].pc = "verifying" /\ request'[r].answer = request[r].answer
    BY <1>0, <1>5, LoginSelectDoes
  <2>2. users' = users /\ request[r].kind = "login"
    BY <1>5 DEF LoginSelect, At
  <2>3. request'[r].matches => AtEmail(r, request[r].seen)'
    BY <1>0, <2>1, <2>2, LookupFinds DEF AtEmail, Frame
  <2>4. QED
    BY <1>0, <2>1, <2>2, <2>3 DEF Remembers, Frame
<1>6. CASE LoginVerify(r)
  <2>1. CASE Answer(r, Reply("rejected", 0)) \/ Answer(r, Reply("disabled", 0))
    BY <1>1, <2>1
  <2>2. CASE request[r].matches /\ Answer(r, Reply("token", request[r].seen))
    <3>1. /\ request'[r].pc = "done" /\ request'[r].answer.user = request[r].seen
          /\ users' = users /\ request[r].kind = "login" /\ request[r].pc = "verifying"
      BY <1>0, <1>6, <2>2, AnswerDoes, ReplyIs DEF LoginVerify, At
    <3>2. AtEmail(r, request[r].seen)
      BY <2>2, <3>1 DEF Remembers
    <3>3. QED
      BY <1>0, <3>1, <3>2 DEF Remembers, AtEmail, Frame
  <2>3. QED
    BY <1>6, <2>1, <2>2, Zenon DEF LoginVerify
<1>7. CASE request[r].kind = "google" /\ \E a : Answer(r, a)
  BY <1>0, <1>7, AnswerDoes DEF Remembers, Frame
<1>8. CASE GoogleBySub(r)
  BY <1>2, <1>7, <1>8 DEF GoogleBySub, At
<1>9. CASE GoogleByEmail(r)
  <2>1. /\ request'[r].seen = ByEmail(users, request[r].email)
        /\ request'[r].pc = IF request'[r].seen # 0 THEN "linking" ELSE "creating"
        /\ request'[r].answer = request[r].answer
    BY <1>0, <1>9, GoogleByEmailDoes
  <2>2. users' = users /\ request[r].kind = "google"
    BY <1>9 DEF GoogleByEmail, At
  <2>3. request'[r].pc = "linking" => AtEmail(r, request[r].seen)'
    BY <1>0, <2>1, <2>2, LookupFinds DEF AtEmail, Frame
  <2>4. request'[r].pc \in {"linking", "creating"}
    BY <2>1
  <2>5. QED
    BY <1>0, <2>1, <2>2, <2>3, <2>4 DEF Remembers, Frame
<1>10. CASE Link(r)
  <2>1. CASE Goto(r, "written")
    <3>1. /\ request'[r].seen = request[r].seen /\ request'[r].pc = "written"
          /\ request'[r].answer = request[r].answer
      BY <1>0, <2>1, GotoDoes
    <3>2. AtEmail(r, request[r].seen) /\ request[r].kind = "google"
      BY <1>10 DEF Link, At, Remembers
    <3>3. AtEmail(r, request[r].seen)'
      BY <1>0, <3>1, <3>2 DEF AtEmail, EmailsStay, Frame
    <3>4. QED
      BY <1>0, <3>1, <3>2, <3>3 DEF Remembers, Frame
  <2>2. QED
    BY <1>1, <1>10, <2>1, LinkWrites
<1>11. CASE Create(r)
  <2>1. CASE /\ request' = [request EXCEPT ![r].pc = "written", ![r].seen = Len(users')]
             /\ \E row \in User : Inserted(row) /\ row.email = request[r].email
    <3>1. /\ request'[r].seen = Len(users') /\ request'[r].pc = "written"
          /\ request'[r].answer = request[r].answer
      BY <1>0, <2>1, CreateDoes
    <3>2. Len(users') \in DOMAIN users' /\ users'[Len(users')].email = request[r].email
      BY <1>0, <2>1, InsertDoes
    <3>3. AtEmail(r, request[r].seen)' /\ request[r].kind = "google"
      <4>1. request[r].kind = "google"
        BY <1>11, Zenon DEF Create, At
      <4>2. QED
        BY <1>0, <3>1, <3>2, <4>1 DEF AtEmail, Frame
    <3>4. QED
      BY <1>0, <3>1, <3>3 DEF Remembers, Frame
  <2>2. QED
    BY <1>1, <1>11, <2>1, CreateWrites
<1>12. CASE Refresh(r)
  BY <1>7, <1>12 DEF Refresh, At
<1>13. QED
  BY <1>3, <1>4, <1>5, <1>6, <1>8, <1>9, <1>10, <1>11, <1>12 DEF Handle

LEMMA RequestsRemember ==
  ASSUME AccountsInv, EmailsStay, RequestInv, [Next]_vars
  PROVE  RequestInv'
<1>1. CASE request' = request
  BY <1>1, OthersRemember DEF RequestInv
<1>2. ASSUME NEW r \in Requests, Start(r) PROVE RequestInv'
  <2>1. Remembers(r)'
    BY <1>2, StartDoes DEF AccountsInv, RequestInv, Remembers
  <2>2. QED
    BY <1>2, <2>1, StartDoes, OthersRemember DEF AccountsInv, RequestInv
<1>3. ASSUME NEW r \in Requests, Handle(r) PROVE RequestInv'
  <2>1. Remembers(r)'
    BY <1>3, HandlerRemembers DEF RequestInv
  <2>2. \A x \in Requests \ {r} : request'[x] = request[x]
    BY <1>3, HandleDoes DEF Frame
  <2>3. QED
    BY <2>1, <2>2, OthersRemember DEF RequestInv
<1>4. QED
  BY <1>1, <1>2, <1>3 DEF Next, OpenForm, SaveForm, vars

---------------------------------------------------------------------------
(* Where a google_sub comes from *)

RowVouched(u) == users[u].sub # NoKey => Vouched(users[u].sub, users[u].email)
FormVouched == form.user # 0 /\ form.sub # NoKey => Vouched(form.sub, users[form.user].email)

LEMMA SameRowVouched ==
  ASSUME AccountsInv, EmailsStay, [Next]_vars, NEW u \in DOMAIN users, RowVouched(u),
         users'[u].sub = users[u].sub
  PROVE  RowVouched(u)'
<1> SUFFICES ASSUME users[u].sub # NoKey
             PROVE  Vouched(users[u].sub, users[u].email)'
  BY DEF RowVouched
<1>1. PICK s : s = users[u].sub
  OBVIOUS
<1>2. PICK e : e = users[u].email
  OBVIOUS
<1>3. Vouched(s, e)
  BY <1>1, <1>2 DEF RowVouched
<1>4. Vouched(s, e)'
  BY <1>3, VouchedStays
<1>5. users'[u].sub = s /\ users'[u].email = e
  BY <1>1, <1>2 DEF EmailsStay
<1>6. QED
  BY <1>4, <1>5 DEF Vouched

LEMMA SameFormVouched ==
  ASSUME AccountsInv, EmailsStay, [Next]_vars, FormVouched, form' = form
  PROVE  FormVouched'
<1> SUFFICES ASSUME form.user # 0, form.sub # NoKey
             PROVE  Vouched(form.sub, users[form.user].email)'
  BY DEF FormVouched
<1>1. PICK s : s = form.sub
  OBVIOUS
<1>2. PICK e : e = users[form.user].email
  OBVIOUS
<1>3. Vouched(s, e)
  BY <1>1, <1>2 DEF FormVouched
<1>4. Vouched(s, e)'
  BY <1>3, VouchedStays
<1>5. form'.sub = s /\ users'[form'.user].email = e
  BY <1>1, <1>2, LenProperties DEF EmailsStay, AccountsInv, TypeOK
<1>6. QED
  BY <1>4, <1>5 DEF Vouched

LEMMA OwnersStay ==
  ASSUME AccountsInv, EmailsStay, RequestInv, OwnerInv, [Next]_vars
  PROVE  OwnerInv'
<1>0. /\ TypeOK /\ users \in Seq(User) /\ (\A u \in DOMAIN users : RowVouched(u)) /\ FormVouched
  BY DEF AccountsInv, TypeOK, OwnerInv, RowVouched, FormVouched
<1> SUFFICES (\A u \in DOMAIN users : RowVouched(u))' /\ FormVouched'
  BY DEF OwnerInv, RowVouched, FormVouched
<1>1. CASE users' = users
  <2>1. (\A u \in DOMAIN users : RowVouched(u))'
    BY <1>0, <1>1, SameRowVouched
  <2>2. CASE form' = form
    BY <1>0, <2>1, <2>2, SameFormVouched
  <2>3. CASE OpenForm
    <3>1. PICK u \in DOMAIN users : form' = [user |-> u, sub |-> users[u].sub]
      BY <2>3 DEF OpenForm
    <3>2. RowVouched(u)'
      BY <1>1, <2>1
    <3>3. form'.user = u /\ form'.sub = users'[u].sub
      BY <1>1, <3>1
    <3>4. QED
      BY <2>1, <3>2, <3>3 DEF RowVouched, FormVouched
  <2>4. CASE form'.user = 0
    BY <2>1, <2>4 DEF FormVouched
  <2>5. QED
    BY <2>2, <2>3, <2>4, StartDoes, HandleDoes DEF Next, SaveForm, vars, AccountsInv
<1>2. ASSUME NEW r \in Requests, Handle(r), NEW row \in User, Inserted(row),
             row.sub # NoKey => SignsIn(r) /\ row.sub = request[r].key /\ row.email = request[r].email
      PROVE  (\A u \in DOMAIN users : RowVouched(u))' /\ FormVouched'
  <2>1. /\ DOMAIN users' = DOMAIN users \cup {Len(users')}
        /\ users'[Len(users')] = row /\ \A v \in DOMAIN users : users'[v] = users[v]
    BY <1>0, <1>2, InsertDoes
  <2>2. row.sub # NoKey => Vouched(row.sub, row.email)'
    BY <1>2, SigningInGoesOn DEF Vouched
  <2>3. ASSUME NEW u \in DOMAIN users' PROVE RowVouched(u)'
    <3>1. CASE u \in DOMAIN users
      BY <1>0, <2>1, <3>1, SameRowVouched
    <3>2. CASE u = Len(users')
      <4>1. users'[u] = row
        BY <2>1, <3>2
      <4>2. QED
        BY <2>2, <4>1 DEF RowVouched, Vouched
    <3>3. QED
      BY <2>1, <3>1, <3>2
  <2>4. FormVouched'
    BY <1>0, <1>2, HandleDoes, SameFormVouched
  <2>5. QED
    BY <2>3, <2>4
<1>3. ASSUME NEW v \in DOMAIN users, NEW row \in User, Updated(v, row),
             row.email = users[v].email,
             row.sub # NoKey => Vouched(row.sub, row.email)',
             form' = form \/ form'.user = 0
      PROVE  (\A u \in DOMAIN users : RowVouched(u))' /\ FormVouched'
  <2>1. /\ DOMAIN users' = DOMAIN users /\ users'[v] = row
        /\ \A u \in DOMAIN users \ {v} : users'[u] = users[u]
    BY <1>0, <1>3, UpdateDoes
  <2>2. RowVouched(v)'
    BY <1>3, <2>1 DEF RowVouched, Vouched
  <2>3. \A u \in DOMAIN users \ {v} : RowVouched(u)'
    BY <1>0, <2>1, SameRowVouched
  <2>4. FormVouched'
    BY <1>0, <1>3, SameFormVouched DEF FormVouched
  <2>5. QED
    BY <2>1, <2>2, <2>3, <2>4
<1>4. ASSUME NEW r \in Requests, Handle(r)
      PROVE  (\A u \in DOMAIN users : RowVouched(u))' /\ FormVouched'
  <2>1. CASE RegisterInsert(r)
    BY <1>1, <1>2, <1>4, <2>1, RegisterWrites
  <2>2. CASE Create(r)
    <3>1. SignsIn(r)
      BY <2>2, Zenon DEF Create, At, SignsIn
    <3>2. QED
      BY <1>1, <1>2, <1>4, <2>2, <3>1, CreateWrites
  <2>3. CASE Link(r)
    <3>1. SignsIn(r) /\ users[request[r].seen].email = request[r].email
      BY <2>3 DEF Link, At, SignsIn, RequestInv, Remembers, AtEmail
    <3>2. CASE users' = users
      BY <1>1, <3>2
    <3>3. CASE users' # users
      <4>1. PICK v \in DOMAIN users, row \in User :
              /\ Updated(v, row) /\ row.email = users[v].email
              /\ row.sub = request[r].key /\ row.email = request[r].email
        BY <2>3, <3>1, <3>3, LinkWrites
      <4>2. Vouched(row.sub, row.email)'
        BY <3>1, <4>1, SigningInGoesOn DEF Vouched
      <4>3. form' = form
        BY <1>4, HandleDoes
      <4>4. QED
        BY <1>3, <4>1, <4>2, <4>3
    <3>4. QED
      BY <3>2, <3>3
  <2>4. CASE \/ RegisterSelect(r) \/ LoginSelect(r) \/ LoginVerify(r)
             \/ GoogleBySub(r) \/ GoogleByEmail(r) \/ Refresh(r)
    BY <1>1, <2>4 DEF RegisterSelect, LoginSelect, LoginVerify, GoogleBySub,
                      GoogleByEmail, Refresh
  <2>5. QED
    BY <1>4, <2>1, <2>2, <2>3, <2>4 DEF Handle
<1>5. CASE SaveForm
  <2>1. CASE users' = users
    BY <1>1, <2>1
  <2>2. CASE users' # users
    <3>1. PICK v \in DOMAIN users, row \in User :
            /\ v = form.user /\ Updated(v, row) /\ row.email = users[v].email
            /\ row.sub = form.sub
      BY <1>5, <2>2, FormWrites
    <3>2. PICK s : s = row.sub
      OBVIOUS
    <3>3. PICK e : e = row.email
      OBVIOUS
    <3>4. s # NoKey => Vouched(s, e)
      BY <1>0, <1>5, <3>1, <3>2, <3>3 DEF FormVouched, SaveForm
    <3>5. s # NoKey => Vouched(s, e)'
      BY <3>4, VouchedStays
    <3>6. form'.user = 0
      BY <1>5 DEF SaveForm
    <3>7. QED
      BY <1>3, <3>1, <3>2, <3>3, <3>5, <3>6
  <2>3. QED
    BY <2>1, <2>2
<1>6. QED
  <2>1. CASE UNCHANGED vars
    BY <1>1, <2>1 DEF vars
  <2>2. CASE OpenForm
    BY <1>1, <2>2 DEF OpenForm
  <2>3. ASSUME NEW r \in Requests, Start(r)
        PROVE  (\A u \in DOMAIN users : RowVouched(u))' /\ FormVouched'
    BY <1>0, <1>1, <2>3, StartDoes
  <2>4. QED
    BY <1>4, <1>5, <2>1, <2>2, <2>3 DEF Next

---------------------------------------------------------------------------
(* A linked row keeps its identity *)

\* No form has been saved and no two identities share an address.
Calm == edits = 0 /\ ~Contested

SubsStay == \A u \in DOMAIN users : users[u].sub # NoKey => users'[u].sub = users[u].sub

LEMMA CalmStep ==
  ASSUME AccountsInv, EmailsStay, RequestInv, OwnerInv, Calm, Calm', [Next]_vars
  PROVE  SubsStay
<1>0. TypeOK
  BY DEF AccountsInv
<1>1. CASE users' = users
  BY <1>1 DEF SubsStay
<1>2. CASE \E row \in User : Inserted(row)
  BY <1>0, <1>2, InsertDoes DEF SubsStay
<1>3. ASSUME NEW r \in Requests, Link(r) PROVE SubsStay
  <2>1. CASE users' # users
    <3> DEFINE v == request[r].seen
    <3>1. PICK row \in User : /\ v \in DOMAIN users /\ Updated(v, row)
                              /\ row.email = users[v].email /\ row.sub = request[r].key
      BY <1>3, <2>1, LinkWrites
    <3>2. SignsIn(r) /\ users[v].email = request[r].email
      BY <1>3 DEF Link, At, SignsIn, RequestInv, Remembers, AtEmail
    <3>3. ASSUME users[v].sub # NoKey PROVE users[v].sub = request[r].key
      <4>1. Vouched(users[v].sub, users[v].email)
        BY <3>1, <3>3 DEF OwnerInv
      <4>2. QED
        BY <3>2, <4>1 DEF Vouched, Calm, Contested
    <3>4. users'[v] = row /\ \A u \in DOMAIN users \ {v} : users'[u] = users[u]
      BY <1>0, <3>1, UpdateDoes
    <3>5. QED
      BY <3>1, <3>3, <3>4 DEF SubsStay
  <2>2. QED
    BY <1>1, <2>1
<1>4. ASSUME NEW r \in Requests, Start(r) \/ Handle(r) PROVE SubsStay
  <2>1. CASE RegisterInsert(r)
    BY <1>1, <1>2, <2>1, RegisterWrites
  <2>2. CASE Create(r)
    BY <1>1, <1>2, <2>2, CreateWrites
  <2>3. CASE \/ Start(r) \/ RegisterSelect(r) \/ LoginSelect(r) \/ LoginVerify(r)
             \/ GoogleBySub(r) \/ GoogleByEmail(r) \/ Refresh(r)
    BY <1>1, <2>3 DEF Start, Begin, RegisterSelect, LoginSelect, LoginVerify,
                      GoogleBySub, GoogleByEmail, Refresh
  <2>4. QED
    BY <1>3, <1>4, <2>1, <2>2, <2>3 DEF Handle
<1>5. ~SaveForm
  BY KeyAssumption DEF SaveForm, Calm
<1>6. QED
  BY <1>1, <1>4, <1>5 DEF Next, OpenForm, vars

\* A request that the step does not touch.
LEMMA OthersLinked ==
  ASSUME AccountsInv, EmailsStay, SubsStay, NEW x \in Requests, Linked(x),
         request'[x] = request[x]
  PROVE  Linked(x)'
<1>1. request[x].kind = "google" => request[x].key # NoKey
  BY KeyAssumption DEF AccountsInv, KeyInv
<1>2. QED
  BY <1>1 DEF Linked, HasSub, EmailsStay, SubsStay

LEMMA HandlerLinked ==
  ASSUME AccountsInv, EmailsStay, SubsStay, NEW r \in Requests, Remembers(r), Linked(r), Handle(r)
  PROVE  Linked(r)'
<1>0. /\ TypeOK /\ users \in Seq(User) /\ Frame(r) /\ request[r].answer.kind = "none"
      /\ request[r].kind = "google" => request[r].key # NoKey
  BY HandleDoes, KeyAssumption DEF AccountsInv, TypeOK, Remembers, KeyInv
<1> SUFFICES ASSUME request[r].kind = "google" PROVE Linked(r)'
  BY <1>0 DEF Linked, Frame
<1>1. CASE Answer(r, Reply("error", 0))
  BY <1>0, <1>1, AnswerDoes, ReplyIs DEF Linked
<1>2. ASSUME NEW u, Answer(r, Opened(users, u)), users' = users, HasSub(r, u)
      PROVE  Linked(r)'
  <2>1. request'[r].pc = "done" /\ request'[r].answer = Opened(users, u)
    BY <1>0, <1>2, AnswerDoes
  <2>2. request'[r].answer.kind = "token" => request'[r].answer.user = u
    BY <2>1, OpenedIs
  <2>3. QED
    BY <1>0, <1>2, <2>1, <2>2 DEF Linked, HasSub, Frame
<1>3. CASE GoogleBySub(r)
  <2>1. CASE Goto(r, "missed")
    BY <1>0, <2>1, GotoDoes DEF Linked
  <2>2. CASE /\ BySub(users, request[r].key) # 0
             /\ Answer(r, Opened(users, BySub(users, request[r].key)))
    <3>1. HasSub(r, BySub(users, request[r].key))
      BY <1>0, <2>2, LookupFinds DEF HasSub
    <3>2. QED
      BY <1>2, <1>3, <2>2, <3>1 DEF GoogleBySub
  <2>3. QED
    BY <1>3, <2>1, <2>2 DEF GoogleBySub
<1>4. CASE GoogleByEmail(r)
  <2>1. request'[r].pc # "written" /\ request'[r].answer = request[r].answer
    BY <1>0, <1>4, GoogleByEmailDoes
  <2>2. QED
    BY <1>0, <2>1 DEF Linked
<1>5. CASE Link(r)
  <2>1. CASE Goto(r, "written") /\ \E row \in User :
               /\ request[r].seen \in DOMAIN users /\ Updated(request[r].seen, row)
               /\ row.email = users[request[r].seen].email /\ row.sub = request[r].key
    <3>1. request'[r].seen = request[r].seen /\ request'[r].answer = request[r].answer
      BY <1>0, <2>1, GotoDoes
    <3>2. /\ request[r].seen \in DOMAIN users'
          /\ users'[request[r].seen].sub = request[r].key
      BY <1>0, <2>1, UpdateDoes
    <3>3. QED
      BY <1>0, <3>1, <3>2 DEF Linked, HasSub, Frame
  <2>2. QED
    BY <1>1, <1>5, <2>1, LinkWrites
<1>6. CASE Create(r)
  <2>1. CASE /\ request' = [request EXCEPT ![r].pc = "written", ![r].seen = Len(users')]
             /\ \E row \in User : Inserted(row) /\ row.sub = request[r].key
    <3>1. /\ request'[r].seen = Len(users') /\ request'[r].answer = request[r].answer
      BY <1>0, <2>1, CreateDoes
    <3>2. Len(users') \in DOMAIN users' /\ users'[Len(users')].sub = request[r].key
      BY <1>0, <2>1, InsertDoes
    <3>3. QED
      BY <1>0, <3>1, <3>2 DEF Linked, HasSub, Frame
  <2>2. QED
    BY <1>1, <1>6, <2>1, CreateWrites
<1>7. CASE Refresh(r)
  <2>1. HasSub(r, request[r].seen)
    BY <1>7 DEF Linked, Refresh, At
  <2>2. QED
    BY <1>2, <1>7, <2>1 DEF Refresh
<1>8. ~ (RegisterSelect(r) \/ RegisterInsert(r) \/ LoginSelect(r) \/ LoginVerify(r))
  BY DEF RegisterSelect, RegisterInsert, LoginSelect, LoginVerify, At
<1>9. QED
  BY <1>3, <1>4, <1>5, <1>6, <1>7, <1>8 DEF Handle

LEMMA LinksStay ==
  ASSUME AccountsInv, EmailsStay, RequestInv, OwnerInv, LinkedInv, [Next]_vars
  PROVE  LinkedInv'
<1> SUFFICES ASSUME Calm' PROVE (\A r \in Requests : Linked(r))'
  BY DEF LinkedInv, Calm
<1>1. Calm
  BY ScopeShrinks DEF Calm
<1>2. SubsStay /\ \A x \in Requests : Linked(x)
  BY <1>1, CalmStep DEF LinkedInv, Calm
<1>3. CASE request' = request
  BY <1>2, <1>3, OthersLinked
<1>4. ASSUME NEW r \in Requests, Start(r) PROVE (\A x \in Requests : Linked(x))'
  <2>1. Linked(r)'
    BY <1>4, StartDoes DEF AccountsInv, RequestInv, Remembers, Linked
  <2>2. QED
    BY <1>2, <1>4, <2>1, StartDoes, OthersLinked DEF AccountsInv
<1>5. ASSUME NEW r \in Requests, Handle(r) PROVE (\A x \in Requests : Linked(x))'
  <2>1. Linked(r)'
    BY <1>2, <1>5, HandlerLinked DEF RequestInv
  <2>2. \A x \in Requests \ {r} : request'[x] = request[x]
    BY <1>5, HandleDoes DEF Frame
  <2>3. QED
    BY <1>2, <2>1, <2>2, OthersLinked
<1>6. QED
  BY <1>3, <1>4, <1>5 DEF Next, OpenForm, SaveForm, vars

---------------------------------------------------------------------------
(* The answers are right *)

\* Part of every step: what could be answered is remembered, and what could be
\* answered now is added.
Recorded(r) == /\ could[r] \subseteq could'[r]
               /\ InFlight(request'[r]) => AtOnce(users', request'[r]) \in could'[r]

LEMMA ObserveRecords ==
  ASSUME Observe, NEW r \in Requests
  PROVE  Recorded(r)
<1>1. could'[r] = IF InFlight(request'[r])
                  THEN could[r] \cup {AtOnce(users', request'[r])} ELSE could[r]
  BY Zenon DEF Observe
<1>2. QED
  BY <1>1 DEF Recorded

RowsActive == edits = 0 => \A u \in DOMAIN users : users[u].active

\* No form has been saved, or identities and addresses belong together.
InScope == edits = 0 \/ OneToOne

\* A request that is not answered by the step and has read nothing.
LEMMA StillRight ==
  ASSUME NEW r \in Requests, Recorded(r), request'[r].answer.kind = "none",
         ~ (request'[r].kind = "login" /\ request'[r].pc = "verifying"),
         ~ (request'[r].kind = "google" /\ request'[r].pc = "written")
  PROVE  Right(r)'
BY DEF Right, Recorded, At, InFlight

\* One that is.
LEMMA AnsweredRight ==
  ASSUME TypeOK, NEW r \in Requests, Recorded(r), NEW a, Answer(r, a),
         InScope' => a.kind = "error" \/ a \in could[r]
  PROVE  Right(r)'
<1>1. request'[r].pc = "done" /\ request'[r].answer = a
  BY AnswerDoes
<1>2. QED
  BY <1>1 DEF Right, Recorded, At, InFlight, InScope

\* One that the step does not touch.
LEMMA OthersRight ==
  ASSUME NEW x \in Requests, Recorded(x), Right(x), request'[x] = request[x],
         edits' = 0 => edits = 0, OneToOne' => OneToOne
  PROVE  Right(x)'
<1>1. InFlight(request[x])' => AtOnce(users, request[x])' \in could'[x]
  BY DEF Recorded
<1>2. LoginReply(x)' = LoginReply(x)
  BY DEF LoginReply
<1>3. At(x, "login", "verifying")' => LoginReply(x)' \in could'[x]
  BY <1>2 DEF Right, At, Recorded
<1>4. edits' = 0 /\ At(x, "google", "written")' => Reply("token", request'[x].seen) \in could'[x]
  BY DEF Right, At, Recorded
<1>5. edits' = 0 \/ OneToOne' =>
        (request'[x].answer.kind \notin {"none", "error"} => request'[x].answer \in could'[x])
  BY DEF Right, Recorded
<1>6. QED
  BY <1>1, <1>3, <1>4, <1>5 DEF Right

\* What a route that reads and answers in one step says is right.
LEMMA RegisterRight ==
  ASSUME AccountsInv, Unique(users)', NEW r \in Requests, Remembers(r), Right(r), Recorded(r),
         RegisterSelect(r) \/ RegisterInsert(r)
  PROVE  Right(r)'
<1>0. /\ TypeOK /\ users \in Seq(User) /\ request[r].kind = "register"
      /\ request[r].pc \in {"looking", "hashing"} /\ request[r].answer.kind = "none"
  BY DEF AccountsInv, TypeOK, RegisterSelect, RegisterInsert, At, Remembers
<1>1. Reply(IF ByEmail(users, request[r].email) = 0 THEN "created" ELSE "conflict", 0) \in could[r]
  BY <1>0, AloneRegister DEF Right, InFlight
<1>2. CASE Goto(r, "hashing")
  BY <1>0, <1>2, GotoDoes, StillRight
<1>3. CASE Answer(r, Reply("error", 0))
  BY <1>0, <1>3, ReplyIs, AnsweredRight
<1>4. CASE Answer(r, Reply("conflict", 0)) /\ ByEmail(users, request[r].email) # 0
  BY <1>0, <1>1, <1>4, AnsweredRight
<1>5. CASE Answer(r, Reply("created", 0)) /\ \E row \in User : Inserted(row) /\ row.email = request[r].email
  <2>1. ByEmail(users, request[r].email) = 0
    <3> SUFFICES ASSUME ByEmail(users, request[r].email) # 0 PROVE FALSE
      OBVIOUS
    <3>1. PICK u \in DOMAIN users : users[u].email = request[r].email
      BY <1>0, LookupFinds
    <3>2. /\ u # Len(users') /\ u \in DOMAIN users' /\ Len(users') \in DOMAIN users'
          /\ users'[u].email = users'[Len(users')].email
      BY <1>0, <1>5, <3>1, InsertDoes
    <3>3. QED
      BY <3>2 DEF Unique
  <2>2. QED
    BY <1>0, <1>1, <1>5, <2>1, AnsweredRight
<1>6. CASE RegisterSelect(r)
  BY <1>2, <1>4, <1>6 DEF RegisterSelect
<1>7. CASE RegisterInsert(r)
  BY <1>3, <1>5, <1>7, RegisterWrites
<1>8. QED
  BY <1>6, <1>7

LEMMA LoginRight ==
  ASSUME AccountsInv, NEW r \in Requests, Remembers(r), Right(r), Recorded(r),
         LoginSelect(r) \/ LoginVerify(r)
  PROVE  Right(r)'
<1>0. TypeOK /\ users \in Seq(User)
  BY DEF AccountsInv, TypeOK
<1>1. CASE LoginSelect(r)
  <2>1. /\ Frame(r) /\ request'[r].pc = "verifying"
        /\ request'[r].seen = ByEmail(users, request[r].email)
        /\ request'[r].answer = request[r].answer
        /\ request'[r].matches <=>
              /\ request'[r].seen # 0
              /\ users[request'[r].seen].password = request[r].key
        /\ request'[r].active <=> request'[r].seen # 0 /\ users[request'[r].seen].active
    BY <1>0, <1>1, LoginSelectDoes
  <2>2. request[r].kind = "login" /\ request[r].pc = "looking" /\ request[r].answer.kind = "none"
    BY <1>1 DEF LoginSelect, At, Remembers
  <2>3. LoginReply(r)' = AtOnce(users, request[r])
    <3>1. AtOnce(users, request[r]) =
            IF /\ ByEmail(users, request[r].email) # 0
               /\ users[ByEmail(users, request[r].email)].password = request[r].key
            THEN Opened(users, ByEmail(users, request[r].email)) ELSE Reply("rejected", 0)
      BY <2>2, AloneLogin
    <3>2. LoginReply(r)' = IF ~request'[r].matches THEN Reply("rejected", 0)
                           ELSE IF ~request'[r].active THEN Reply("disabled", 0)
                           ELSE Reply("token", request'[r].seen)
      BY DEF LoginReply
    <3>3. CASE ~request'[r].matches
      BY <2>1, <3>1, <3>2, <3>3
    <3>4. CASE request'[r].matches
      BY <2>1, <3>1, <3>2, <3>4, OpenedIs
    <3>5. QED
      BY <3>3, <3>4
  <2>4. LoginReply(r)' \in could'[r]
    BY <2>2, <2>3 DEF Right, InFlight, Recorded
  <2>5. QED
    BY <2>1, <2>2, <2>4 DEF Right, Recorded, At, InFlight, Frame
<1>2. CASE LoginVerify(r)
  <2>1. LoginReply(r) \in could[r]
    BY <1>2 DEF LoginVerify, Right
  <2>2. Answer(r, LoginReply(r))
    BY <1>2, Zenon DEF LoginVerify, LoginReply
  <2>3. QED
    BY <1>0, <2>1, <2>2, AnsweredRight
<1>3. QED
  BY <1>1, <1>2

\* A linked account that is read again, or the account found at first.
LEMMA GoogleReadRight ==
  ASSUME AccountsInv, Unique(users), OwnerInv, RowsActive, NEW r \in Requests, Remembers(r),
         Right(r), Recorded(r), GoogleBySub(r) \/ GoogleByEmail(r) \/ Refresh(r),
         edits' = 0 => edits = 0, OneToOne' => OneToOne
  PROVE  Right(r)'
<1>0. /\ TypeOK /\ users \in Seq(User) /\ request[r].kind = "google"
      /\ request[r].answer.kind = "none" /\ AtOnce(users, request[r]) \in could[r]
      /\ request[r].key # NoKey
  BY KeyAssumption DEF AccountsInv, TypeOK, KeyInv, GoogleBySub, GoogleByEmail, Refresh, At,
                       Remembers, Right, InFlight
<1>1. CASE GoogleBySub(r)
  <2> DEFINE u == BySub(users, request[r].key)
  <2>1. CASE Goto(r, "missed")
    BY <1>0, <2>1, GotoDoes, StillRight
  <2>2. CASE u # 0 /\ Answer(r, Opened(users, u))
    <3>1. AtOnce(users, request[r]) = Opened(users, u)
      BY <1>0, <2>2, AloneGoogle
    <3>2. QED
      BY <1>0, <2>2, <3>1, AnsweredRight
  <2>3. QED
    BY <1>1, <2>1, <2>2 DEF GoogleBySub
<1>2. CASE GoogleByEmail(r)
  <2>1. request'[r].pc \in {"linking", "creating"} /\ request'[r].answer = request[r].answer
    BY <1>0, <1>2, GoogleByEmailDoes
  <2>2. QED
    BY <1>0, <2>1, StillRight
<1>3. CASE Refresh(r)
  <2> DEFINE u == request[r].seen
             s == BySub(users, request[r].key)
  <2>1. /\ u \in DOMAIN users /\ users[u].email = request[r].email
        /\ request[r].pc = "written" /\ Answer(r, Opened(users, u))
    BY <1>3 DEF Refresh, At, Remembers, AtEmail
  <2>2. CASE edits = 0
    <3>1. Opened(users, u) = Reply("token", u)
      BY <2>1, <2>2, OpenedIs DEF RowsActive
    <3>2. Reply("token", u) \in could[r]
      BY <1>0, <2>1, <2>2 DEF Right, At
    <3>3. QED
      BY <1>0, <2>1, <3>1, <3>2, AnsweredRight
  <2>3. CASE OneToOne
    <3>1. ByEmail(users, request[r].email) = u /\ u # 0
      BY <1>0, <2>1, LookupFindsIt, LenProperties
    <3>2. s # 0 => s = u
      <4> SUFFICES ASSUME s # 0 PROVE s = u
        OBVIOUS
      <4>1. s \in DOMAIN users /\ users[s].sub = request[r].key
        BY <1>0, LookupFinds
      <4>2. Vouched(users[s].sub, users[s].email)
        BY <1>0, <4>1 DEF OwnerInv
      <4>3. SignsIn(r)
        BY <1>0, <2>1 DEF SignsIn
      <4>4. users[s].email = request[r].email
        BY <2>3, <4>1, <4>2, <4>3 DEF Vouched, OneToOne
      <4>5. ByEmail(users, users[s].email) = s
        BY <1>0, <4>1, LookupFindsIt
      <4>6. QED
        BY <3>1, <4>4, <4>5
    <3>3. AtOnce(users, request[r]) = Opened(users, u)
      BY <1>0, <3>1, <3>2, AloneGoogle
    <3>4. QED
      BY <1>0, <2>1, <3>3, AnsweredRight
  <2>4. CASE ~InScope
    BY <1>0, <2>1, <2>4, AnsweredRight DEF InScope
  <2>5. QED
    BY <2>2, <2>3, <2>4 DEF InScope
<1>4. QED
  BY <1>1, <1>2, <1>3

\* The commit of a Google login is the moment its answer is right, unless the
\* form gets between it and the refresh.
LEMMA GoogleWriteRight ==
  ASSUME AccountsInv, RowsActive', NEW r \in Requests, Remembers(r), Right(r), Recorded(r),
         Link(r) \/ Create(r)
  PROVE  Right(r)'
<1>0. /\ TypeOK /\ request[r].kind = "google" /\ request[r].answer.kind = "none"
      /\ request[r].key # NoKey
  BY KeyAssumption DEF AccountsInv, KeyInv, Link, Create, At, Remembers
<1>1. CASE Answer(r, Reply("error", 0))
  BY <1>0, <1>1, ReplyIs, AnsweredRight
<1>2. ASSUME NEW u \in DOMAIN users', users'[u].sub = request[r].key, Unique(users)',
             users' \in Seq(User), Frame(r), request'[r].pc = "written",
             request'[r].seen = u, request'[r].answer = request[r].answer
      PROVE  Right(r)'
  <2>1. BySub(users', request'[r].key) = u /\ u # 0
    <3>1. Unique(users')
      BY <1>2 DEF Unique
    <3>2. BySub(users', users'[u].sub) = u
      BY <1>0, <1>2, <3>1, LookupFindsIt
    <3>3. QED
      BY <1>2, <3>2, LenProperties DEF Frame
  <2>2. AtOnce(users', request'[r]) = Opened(users', u)
    BY <1>0, <1>2, <2>1, AloneGoogle DEF Frame
  <2>3. AtOnce(users', request'[r]) \in could'[r]
    BY <1>2 DEF Recorded, InFlight
  <2>4. edits' = 0 => Reply("token", u) \in could'[r]
    <3>1. edits' = 0 => Opened(users', u) = Reply("token", u)
      BY <1>2, OpenedIs DEF RowsActive
    <3>2. QED
      BY <2>2, <2>3, <3>1
  <2>5. QED
    BY <1>0, <1>2, <2>3, <2>4 DEF Right, At, InFlight, Frame
<1>3. CASE Link(r)
  <2>1. CASE Goto(r, "written") /\ \E row \in User :
               /\ request[r].seen \in DOMAIN users /\ Updated(request[r].seen, row)
               /\ row.email = users[request[r].seen].email /\ row.sub = request[r].key
    <3>1. PICK row \in User :
               /\ request[r].seen \in DOMAIN users /\ Updated(request[r].seen, row)
               /\ row.email = users[request[r].seen].email /\ row.sub = request[r].key
      BY <2>1
    <3>2. /\ Frame(r) /\ request'[r].pc = "written" /\ request'[r].seen = request[r].seen
          /\ request'[r].answer = request[r].answer
      BY <1>0, <2>1, GotoDoes
    <3>3. /\ request[r].seen \in DOMAIN users'
          /\ users'[request[r].seen].sub = request[r].key
      BY <1>0, <3>1, UpdateDoes
    <3>4. users' \in Seq(User) /\ Unique(users)'
      BY <1>0, <3>1, ChangeRow DEF Updated
    <3>5. QED
      BY <1>2, <3>2, <3>3, <3>4
  <2>2. QED
    BY <1>1, <1>3, <2>1, LinkWrites
<1>4. CASE Create(r)
  <2>1. CASE /\ request' = [request EXCEPT ![r].pc = "written", ![r].seen = Len(users')]
             /\ \E row \in User : Inserted(row) /\ row.sub = request[r].key
    <3>1. PICK row \in User : Inserted(row) /\ row.sub = request[r].key
      BY <2>1
    <3>2. /\ Frame(r) /\ request'[r].pc = "written" /\ request'[r].seen = Len(users')
          /\ request'[r].answer = request[r].answer
      BY <1>0, <2>1, CreateDoes
    <3>3. Len(users') \in DOMAIN users' /\ users'[Len(users')].sub = request[r].key
      BY <1>0, <3>1, InsertDoes
    <3>4. users' \in Seq(User) /\ Unique(users)'
      BY <1>0, <3>1, AppendRow DEF Inserted
    <3>5. QED
      BY <1>2, <3>2, <3>3, <3>4
  <2>2. QED
    BY <1>1, <1>4, <2>1, CreateWrites
<1>5. QED
  BY <1>3, <1>4

\* Without a saved form every account is active.
LEMMA ActiveStays ==
  ASSUME AccountsInv, RowsActive, [Next]_vars
  PROVE  RowsActive'
<1>0. TypeOK
  BY DEF AccountsInv
<1> SUFFICES ASSUME edits' = 0 PROVE (\A u \in DOMAIN users : users[u].active)'
  BY DEF RowsActive
<1>1. \A u \in DOMAIN users : users[u].active
  BY ScopeShrinks DEF RowsActive
<1>2. CASE users' = users
  BY <1>1, <1>2
<1>3. CASE \E row \in User : Inserted(row) /\ row.active
  BY <1>0, <1>1, <1>3, InsertDoes
<1>4. ASSUME NEW r \in Requests, Link(r) PROVE (\A u \in DOMAIN users : users[u].active)'
  <2>1. CASE users' # users
    <3>1. PICK row \in User : /\ request[r].seen \in DOMAIN users
                              /\ Updated(request[r].seen, row)
                              /\ row.email = users[request[r].seen].email /\ row.active
      BY <1>1, <1>4, <2>1, LinkWrites
    <3>2. QED
      BY <1>0, <1>1, <3>1, UpdateDoes
  <2>2. QED
    BY <1>2, <2>1
<1>5. ASSUME NEW r \in Requests, Start(r) \/ Handle(r)
      PROVE  (\A u \in DOMAIN users : users[u].active)'
  <2>1. CASE RegisterInsert(r)
    BY <1>2, <1>3, <2>1, RegisterWrites
  <2>2. CASE Create(r)
    BY <1>2, <1>3, <2>2, CreateWrites
  <2>3. CASE \/ Start(r) \/ RegisterSelect(r) \/ LoginSelect(r) \/ LoginVerify(r)
             \/ GoogleBySub(r) \/ GoogleByEmail(r) \/ Refresh(r)
    BY <1>2, <2>3 DEF Start, Begin, RegisterSelect, LoginSelect, LoginVerify,
                      GoogleBySub, GoogleByEmail, Refresh
  <2>4. QED
    BY <1>4, <1>5, <2>1, <2>2, <2>3 DEF Handle
<1>6. ~SaveForm
  BY <1>0, KeyAssumption DEF SaveForm, TypeOK
<1>7. QED
  BY <1>2, <1>5, <1>6 DEF Next, OpenForm, vars

LEMMA AnswersStayRight ==
  ASSUME AccountsInv, Unique(users), Unique(users)', RequestInv, OwnerInv, AnswerInv,
         [Next]_vars
  PROVE  AnswerInv'
<1>0. /\ TypeOK /\ RowsActive /\ (\A x \in Requests : Right(x))
      /\ (edits' = 0 => edits = 0) /\ (OneToOne' => OneToOne)
  BY ScopeShrinks DEF AccountsInv, AnswerInv, RowsActive
<1>1. RowsActive'
  BY <1>0, ActiveStays
<1> SUFFICES (\A x \in Requests : Right(x))'
  BY <1>1 DEF AnswerInv, RowsActive
<1>2. CASE UNCHANGED vars
  <2>1. ASSUME NEW x \in Requests PROVE Right(x)'
    <3>1. Right(x)
      BY <1>0
    <3>2. UNCHANGED <<users, request, could, edits>>
      BY <1>2 DEF vars
    <3>3. AtOnce(users, request[x])' = AtOnce(users, request[x])
      BY <3>2
    <3>4. QED
      BY <3>1, <3>2, <3>3 DEF Right, LoginReply, At, InFlight, OneToOne, SignsIn
  <2>2. QED
    BY <2>1
<1>3. ASSUME Observe PROVE \A x \in Requests : Recorded(x)
  BY <1>3, ObserveRecords
<1>4. CASE Observe /\ request' = request
  BY <1>0, <1>3, <1>4, OthersRight
<1>5. ASSUME Observe, NEW r \in Requests, Start(r) PROVE (\A x \in Requests : Right(x))'
  <2>1. request'[r].answer.kind = "none" /\ request'[r].pc = "looking"
    BY <1>0, <1>5, StartDoes DEF RequestInv, Remembers
  <2>2. Right(r)'
    BY <1>3, <1>5, <2>1, StillRight
  <2>3. \A x \in Requests \ {r} : request'[x] = request[x]
    BY <1>0, <1>5, StartDoes
  <2>4. QED
    BY <1>0, <1>3, <1>5, <2>2, <2>3, OthersRight
<1>6. ASSUME Observe, NEW r \in Requests, Handle(r) PROVE (\A x \in Requests : Right(x))'
  <2>1. Right(r) /\ Remembers(r) /\ Recorded(r)
    BY <1>0, <1>3, <1>6 DEF RequestInv
  <2>2. Right(r)'
    <3>1. CASE RegisterSelect(r) \/ RegisterInsert(r)
      BY <2>1, <3>1, RegisterRight
    <3>2. CASE LoginSelect(r) \/ LoginVerify(r)
      BY <2>1, <3>2, LoginRight
    <3>3. CASE GoogleBySub(r) \/ GoogleByEmail(r) \/ Refresh(r)
      BY <1>0, <2>1, <3>3, GoogleReadRight
    <3>4. CASE Link(r) \/ Create(r)
      BY <1>1, <2>1, <3>4, GoogleWriteRight
    <3>5. QED
      BY <1>6, <3>1, <3>2, <3>3, <3>4 DEF Handle
  <2>3. \A x \in Requests \ {r} : request'[x] = request[x]
    BY <1>6, HandleDoes DEF Frame
  <2>4. QED
    BY <1>0, <1>3, <1>6, <2>2, <2>3, OthersRight
<1>7. QED
  BY <1>2, <1>4, <1>5, <1>6 DEF Next, OpenForm, SaveForm

---------------------------------------------------------------------------
(* Theorems about the answers and the identities *)

LEMMA IdentitiesInit == Init => IdentityInv
<1> SUFFICES ASSUME Init PROVE IdentityInv
  OBVIOUS
<1>1. /\ users = <<>> /\ edits = 0 /\ form.user = 0
      /\ \A r \in Requests : request[r].pc = "idle" /\ request[r].answer.kind = "none"
  BY DEF Init, None
<1>2. Unique(users) /\ OwnerInv
  BY <1>1 DEF Unique, OwnerInv
<1>3. RequestInv /\ LinkedInv
  BY <1>1 DEF RequestInv, Remembers, LinkedInv, Linked
<1>4. AnswerInv
  BY <1>1 DEF AnswerInv, Right, InFlight, At
<1>5. QED
  BY <1>2, <1>3, <1>4 DEF IdentityInv

LEMMA IdentitiesStep == AccountsInv /\ IdentityInv /\ [Next]_vars => IdentityInv'
<1> SUFFICES ASSUME AccountsInv, IdentityInv, [Next]_vars PROVE IdentityInv'
  OBVIOUS
<1>0. Unique(users) /\ RequestInv /\ OwnerInv /\ LinkedInv /\ AnswerInv
  BY DEF IdentityInv
<1>1. Unique(users)' /\ EmailsStay
  BY <1>0, TableStep
<1>2. RequestInv' /\ OwnerInv' /\ LinkedInv' /\ AnswerInv'
  BY <1>0, <1>1, RequestsRemember, OwnersStay, LinksStay, AnswersStayRight
<1>3. QED
  BY <1>1, <1>2 DEF IdentityInv

LEMMA IdentitiesAlways == Spec => []IdentityInv
BY IdentitiesInit, IdentitiesStep, AccountsAlways, PTL DEF Spec

\* Whatever requests run beside it and at whatever await they meet, a request
\* is told what it would have been told had it run alone at some moment
\* between its start and its end.
THEOREM AnswersAsIfAlone == Spec => []AnsweredAsIfAlone
<1>1. IdentityInv => AnsweredAsIfAlone
  BY DEF IdentityInv, AnswerInv, Right, AnsweredAsIfAlone
<1>2. QED
  BY <1>1, IdentitiesAlways, PTL

\* Whoever signs in twice the same way gets the same account (auth.py:80,
\* 148), for any number of concurrent sign-ins, registrations and identities
\* that change their address.
THEOREM TheSameAccount == Spec => []SameAccount
<1>1. AccountsInv /\ IdentityInv => SameAccount
  <2> SUFFICES ASSUME AccountsInv, IdentityInv, edits = 0, ~Contested,
                      NEW q \in Requests, NEW r \in Requests,
                      request[q].answer.kind = "token", request[r].answer.kind = "token",
                      request[q].kind = request[r].kind,
                      IF request[q].kind = "google" THEN request[q].key = request[r].key
                                                    ELSE request[q].email = request[r].email
               PROVE  request[q].answer.user = request[r].answer.user
    BY DEF SameAccount
  <2>1. /\ Unique(users) /\ Remembers(q) /\ Remembers(r) /\ Linked(q) /\ Linked(r)
        /\ request[q].kind \in {"register", "login", "google"} /\ TypeOK
    BY DEF IdentityInv, RequestInv, LinkedInv, AccountsInv, TypeOK, Request
  <2>2. CASE request[q].kind = "google"
    <3>1. HasSub(q, request[q].answer.user) /\ HasSub(r, request[r].answer.user)
      BY <2>1, <2>2 DEF Linked
    <3>2. request[q].key # NoKey
      BY <2>2, KeyAssumption DEF AccountsInv, KeyInv
    <3>3. QED
      BY <2>1, <2>2, <3>1, <3>2 DEF HasSub, Unique
  <2>3. CASE request[q].kind = "login"
    <3>1. AtEmail(q, request[q].answer.user) /\ AtEmail(r, request[r].answer.user)
      BY <2>1, <2>3 DEF Remembers
    <3>2. QED
      BY <2>1, <2>3, <3>1 DEF AtEmail, Unique
  <2>4. CASE request[q].kind = "register"
    BY <2>1, <2>4 DEF Remembers
  <2>5. QED
    BY <2>1, <2>2, <2>3, <2>4
<1>2. QED
  BY <1>1, AccountsAlways, IdentitiesAlways, PTL
===========================================================================
