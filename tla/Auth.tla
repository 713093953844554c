------------------------------- MODULE Auth -------------------------------
(***************************************************************************)
(* Accounts: register, password login and Google login as concurrent       *)
(* requests over the users table, and the admin form that writes the same  *)
(* rows.  A request is a chain of steps cut at its awaits: each SELECT,    *)
(* each commit, and the bcrypt work in the thread pool in between.  The    *)
(* table enforces one row per email and per google_sub; a commit that      *)
(* violates this raises and the request ends in a 500.                     *)
(***************************************************************************)
EXTENDS Integers, Sequences, SequencesExt

CONSTANTS Emails, Passwords,
          Identities,   \* the <<sub, email>> pairs Google vouches for
          Requests,     \* calls of the three routes
          NoKey,        \* no hashed_password, no google_sub
          MaxEdits      \* bound on saves of the admin form

Subs == {i[1] : i \in Identities}

ASSUME KeyAssumption == NoKey \notin Passwords \cup Subs /\ MaxEdits \in Nat
ASSUME IdentityAssumption == Emails # {} /\ \A i \in Identities : i[2] \in Emails

VARIABLES users,     \* the rows in the order of their ids
          request,   \* request[r]: where call r is, its input, what it read
          could,     \* history: the answers that were right at some moment of r
          form,      \* the admin's open edit form: id of the row, google_sub shown
          edits      \* forms saved so far

vars == <<users, request, could, form, edits>>

User == [email : Emails, password : Passwords \cup {NoKey},
         sub : Subs \cup {NoKey}, active : BOOLEAN]

None == [kind |-> "none", user |-> 0]
Reply(kind, u) == [kind |-> kind, user |-> u]

Request == [kind : {"register", "login", "google"}, email : Emails,
            key : Passwords \cup Subs \cup {NoKey},   \* the password or the sub
            pc : {"idle", "looking", "hashing", "verifying", "missed", "linking",
                  "creating", "written", "done"},
            seen : Nat, matches : BOOLEAN, active : BOOLEAN,   \* what it read
            answer : [kind : {"none", "created", "conflict", "rejected", "disabled",
                              "token", "error"}, user : Nat]]

TypeOK == /\ users \in Seq(User)
          /\ request \in [Requests -> Request]
          /\ \A r \in Requests : request[r].pc \in {"linking", "written"} =>
                                  request[r].seen \in DOMAIN users
          /\ form \in [user : 0..Len(users), sub : Subs \cup {NoKey}]
          /\ edits \in 0..MaxEdits

Init == /\ users = <<>>
        /\ request \in [Requests -> {[kind |-> "login", email |-> e, key |-> NoKey,
                           pc |-> "idle", seen |-> 0, matches |-> FALSE,
                           active |-> FALSE, answer |-> None] :
                             e \in {CHOOSE x \in Emails : TRUE}}]
        /\ could = [r \in Requests |-> {}]
        /\ form = [user |-> 0, sub |-> NoKey]
        /\ edits = 0

\* SELECT ... WHERE email / google_sub: the id of the row, or 0.
ByEmail(us, e) == SelectInSeq(us, LAMBDA u : u.email = e)
BySub(us, s) == SelectInSeq(us, LAMBDA u : u.sub = s)

\* Mutant: no unique index.
UniqueUnchecked(us) == TRUE

\* The unique indexes on email and google_sub (NULLs do not collide).
Unique(us) == \A i, j \in DOMAIN us : i # j =>
                 us[i].email # us[j].email /\ (us[i].sub # us[j].sub \/ us[i].sub = NoKey)

---------------------------------------------------------------------------
(* What the route would answer if nothing ran beside it. *)

Opened(us, u) == IF us[u].active THEN Reply("token", u) ELSE Reply("disabled", 0)

AtOnce(us, q) ==
  LET e == ByEmail(us, q.email)
      s == BySub(us, q.key)
      u == IF s # 0 THEN s ELSE e
  IN CASE q.kind = "register" -> Reply(IF e = 0 THEN "created" ELSE "conflict", 0)
       [] q.kind = "login"    -> IF e # 0 /\ us[e].password = q.key THEN Opened(us, e)
                                 ELSE Reply("rejected", 0)
       [] q.kind = "google"   -> IF u = 0 THEN Reply("token", Len(us) + 1)
                                 ELSE Opened(us, u)

InFlight(q) == q.pc \notin {"idle", "done"}

\* Part of every step: what each running request could be told now.
Observe ==
  could' = [r \in Requests |-> IF InFlight(request'[r])
                               THEN could[r] \cup {AtOnce(users', request'[r])}
                               ELSE could[r]]

---------------------------------------------------------------------------
(* The requests *)

Begin(r, kind, e, k) ==
  /\ request[r].pc = "idle"
  /\ request' = [request EXCEPT ![r].kind = kind, ![r].email = e, ![r].key = k,
                                ![r].pc = "looking"]
  /\ UNCHANGED <<users, form, edits>>

Start(r) == \/ \E e \in Emails, p \in Passwords :
                 Begin(r, "register", e, p) \/ Begin(r, "login", e, p)
            \/ \E i \in Identities : Begin(r, "google", i[2], i[1])

At(r, kind, pc) == request[r].kind = kind /\ request[r].pc = pc
Goto(r, pc) == request' = [request EXCEPT ![r].pc = pc]
Answer(r, reply) == request' = [request EXCEPT ![r].pc = "done", ![r].answer = reply]

\* A commit of the rows us, which raises when an index refuses them.
Commit(r, us, pc) == IF Unique(us) THEN users' = us /\ Goto(r, pc)
                     ELSE users' = users /\ Answer(r, Reply("error", 0))

RegisterSelect(r) ==
  /\ At(r, "register", "looking")
  /\ IF ByEmail(users, request[r].email) # 0 THEN Answer(r, Reply("conflict", 0))
                                             ELSE Goto(r, "hashing")
  /\ UNCHANGED <<users, form, edits>>

\* The password has been hashed off the loop: INSERT and commit, refresh, 201.
RegisterInsert(r) ==
  LET us == Append(users, [email |-> request[r].email, password |-> request[r].key,
                           sub |-> NoKey, active |-> TRUE])
  IN /\ At(r, "register", "hashing")
     /\ IF Unique(us) THEN users' = us /\ Answer(r, Reply("created", 0))
                      ELSE users' = users /\ Answer(r, Reply("error", 0))
     /\ UNCHANGED <<form, edits>>

\* The user object is read once; a row without a password is checked against
\* the dummy hash, which nothing matches.
LoginSelect(r) ==
  LET u == ByEmail(users, request[r].email)
  IN /\ At(r, "login", "looking")
     /\ request' = [request EXCEPT ![r].pc = "verifying", ![r].seen = u,
          ![r].matches = u # 0 /\ users[u].password = request[r].key,
          ![r].active = u # 0 /\ users[u].active]
     /\ UNCHANGED <<users, form, edits>>

\* The bcrypt check is back: 401, 403 or a token, from what was read before.
LoginVerify(r) ==
  /\ At(r, "login", "verifying")
  /\ Answer(r, CASE ~request[r].matches -> Reply("rejected", 0)
                 [] request[r].matches /\ ~request[r].active -> Reply("disabled", 0)
                 [] OTHER -> Reply("token", request[r].seen))
  /\ UNCHANGED <<users, form, edits>>

GoogleBySub(r) ==
  LET u == BySub(users, request[r].key)
  IN /\ At(r, "google", "looking")
     /\ IF u # 0 THEN Answer(r, Opened(users, u)) ELSE Goto(r, "missed")
     /\ UNCHANGED <<users, form, edits>>

\* Mutant: the result of the second SELECT is not tested.
GoogleByEmailUntested(r) ==
  /\ At(r, "google", "missed")
  /\ request' = [request EXCEPT ![r].pc = "linking",
                                ![r].seen = ByEmail(users, request[r].email)]
  /\ UNCHANGED <<users, form, edits>>

GoogleByEmail(r) ==
  LET u == ByEmail(users, request[r].email)
  IN /\ At(r, "google", "missed")
     /\ request' = [request EXCEPT ![r].pc = IF u # 0 THEN "linking" ELSE "creating",
                                   ![r].seen = u]
     /\ UNCHANGED <<users, form, edits>>

\* Mutant: the password is left in place.
LinkKeepsPassword(r) ==
  /\ At(r, "google", "linking")
  /\ Commit(r, [users EXCEPT ![request[r].seen].sub = request[r].key], "written")
  /\ UNCHANGED <<form, edits>>

\* google_sub and hashed_password of the row found by email, and the commit.
Link(r) ==
  /\ At(r, "google", "linking")
  /\ Commit(r, [users EXCEPT ![request[r].seen].sub = request[r].key,
                             ![request[r].seen].password = NoKey], "written")
  /\ UNCHANGED <<form, edits>>

Create(r) ==
  LET us == Append(users, [email |-> request[r].email, password |-> NoKey,
                           sub |-> request[r].key, active |-> TRUE])
  IN /\ At(r, "google", "creating")
     /\ IF Unique(us)
        THEN /\ users' = us
             /\ request' = [request EXCEPT ![r].pc = "written", ![r].seen = Len(us)]
        ELSE users' = users /\ Answer(r, Reply("error", 0))
     /\ UNCHANGED <<form, edits>>

\* Mutant: is_active is only looked at for accounts that were linked before.
RefreshUnchecked(r) ==
  /\ At(r, "google", "written")
  /\ Answer(r, Reply("token", request[r].seen))
  /\ UNCHANGED <<users, form, edits>>

\* db.refresh reads the row again: is_active counts as it is now.
Refresh(r) ==
  /\ At(r, "google", "written")
  /\ Answer(r, Opened(users, request[r].seen))
  /\ UNCHANGED <<users, form, edits>>

---------------------------------------------------------------------------
(* The admin form of a user shows every column but the password.  The admin *)
(* changes is_active only; saving writes the other columns as shown.        *)

OpenForm ==
  /\ form.user = 0
  /\ edits < MaxEdits
  /\ \E u \in DOMAIN users : form' = [user |-> u, sub |-> users[u].sub]
  /\ UNCHANGED <<users, request, edits>>

SaveForm ==
  /\ form.user # 0
  /\ \E active \in BOOLEAN :
       LET us == [users EXCEPT ![form.user].sub = form.sub,
                               ![form.user].active = active]
       IN users' = IF Unique(us) THEN us ELSE users
  /\ form' = [user |-> 0, sub |-> NoKey]
  /\ edits' = edits + 1
  /\ UNCHANGED request

Handle(r) == \/ RegisterSelect(r) \/ RegisterInsert(r)
             \/ LoginSelect(r) \/ LoginVerify(r)
             \/ GoogleBySub(r) \/ GoogleByEmail(r)
             \/ Link(r) \/ Create(r) \/ Refresh(r)

Next == /\ \/ \E r \in Requests : Start(r) \/ Handle(r)
           \/ OpenForm \/ SaveForm
        /\ Observe

Spec == Init /\ [][Next]_vars

---------------------------------------------------------------------------
(* Properties *)

SignsIn(r) == request[r].kind = "google" /\ request[r].pc # "idle"

\* Two identities at one address: both are signing in with it.
Contested ==
  \E q, r \in Requests :
    /\ SignsIn(q) /\ SignsIn(r)
    /\ request[q].email = request[r].email
    /\ request[q].key # request[r].key

\* Each identity comes with one address and each address with one identity.
OneToOne ==
  \A q, r \in Requests :
    SignsIn(q) /\ SignsIn(r) =>
      (request[q].email = request[r].email <=> request[q].key = request[r].key)

\* A request that is answered without a 500 is told what it would have been
\* told had it run alone at some moment between its start and its end: no
\* token for a password that was already replaced when the login began, none
\* for an account that was disabled all along, no conflict with nobody.  (An
\* identity that fights for an address or has changed its own, while the admin
\* saves a stale google_sub, is beyond this.)
AnsweredAsIfAlone ==
  edits = 0 \/ OneToOne =>
    \A r \in Requests : request[r].answer.kind \notin {"none", "error"} =>
      request[r].answer \in could[r]

\* "that password stops working" (auth.py:166): once Google has vouched for
\* the owner of an account, no later step leaves it with a password.
LinkedHasNoPassword ==
  [][\A u \in DOMAIN users :
       users[u].sub # NoKey \/ users[u].password = NoKey =>
         users'[u].password = NoKey]_vars

\* Whoever signs in twice the same way gets the same account, even when two
\* requests look for it before either creates it (auth.py:80, 148) and when
\* the owner changes the address at Google or registers beside it; unless two
\* identities share the address or a form wrote back an old google_sub.
SameAccount ==
  edits = 0 /\ ~Contested =>
    \A q, r \in Requests :
      /\ request[q].answer.kind = "token" /\ request[r].answer.kind = "token"
      /\ request[q].kind = request[r].kind
      /\ IF request[q].kind = "google" THEN request[q].key = request[r].key
                                       ELSE request[q].email = request[r].email
      => request[q].answer.user = request[r].answer.user
===========================================================================
