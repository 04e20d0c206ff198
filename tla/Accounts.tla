------------------------------- MODULE Accounts -------------------------------
(***************************************************************************)
(* Sign-up, login and password reset (app/routers/auth.py) around one mail *)
(* address, and the same person's Kakao identity.  Requests run in         *)
(* threads and interleave at their database commits; the unique indexes of *)
(* users.email, signup_verifications (target, purpose) and social_accounts *)
(* (provider, provider_user_id) turn a late insertion into an error that   *)
(* rolls the whole request back.                                           *)
(*                                                                         *)
(*  - A code is issued (_issue_code) per purpose, "email" for sign-up and  *)
(*    "password_reset"; it is stored first and mailed afterwards.          *)
(*  - A code is checked (_check_code) by verify, sign-up and reset; a      *)
(*    wrong one is counted in a row that was read before.                  *)
(*  - The failed logins of the last minutes are kept in the process, in a  *)
(*    list that a request reads, filters and writes back.                  *)
(*                                                                         *)
(* Abstracted: a code is the number of its issue (no two are equal), a     *)
(* password is present or not, time is counted in cool-downs.  A user row  *)
(* stands for the user with store and subscription, added in one commit.   *)
(***************************************************************************)
EXTENDS Integers, Sequences, FiniteSets

CONSTANTS
  MaxTime,      \* bound on the clock
  MaxIssues,    \* bound on the codes issued
  MaxFailures,  \* bound on the failed logins
  Purposes,     \* subset of {"email", "password_reset"}: what codes are asked for
  Cooldown,     \* RESEND_COOLDOWN, one unit of time
  TTL,          \* EMAIL_CODE_TTL
  MaxAttempts,  \* MAX_ATTEMPTS
  MaxLogins,    \* _LOGIN_MAX_ATTEMPTS
  Window,       \* _LOGIN_LOCKOUT_WINDOW
  None

ASSUME AccountsAssumption ==
  /\ {MaxTime, MaxIssues, MaxFailures} \subseteq Nat
  /\ {Cooldown, TTL, MaxAttempts, MaxLogins, Window} \subseteq Nat \ {0}
  /\ Purposes \subseteq {"email", "password_reset"}

\* A row of signup_verifications.
RowType == [id: 1 .. MaxIssues, code: 1 .. MaxIssues, expires: 0 .. MaxTime + TTL,
            attempts: 0 .. MaxAttempts, created: 0 .. MaxTime]

ASSUME NoValueAssumption == None \notin RowType \cup Nat

VARIABLES
  now,       \* the clock
  users,     \* users: [id, email, pw, kakao], which of the address, a password and the identity it has
  codes,     \* signup_verifications: [Purposes -> None or row]
  issued,    \* codes issued so far
  failures,  \* _login_failures of the address: times, in order
  requests,  \* the requests under way, at most two
  mail,      \* history: the code of the last mail, until it is used
  known,     \* history: the codes that have been mailed
  wrong,     \* history: wrong codes typed since the last issue
  crossed,   \* history: a request wrote to a row that had changed since it read it
  tries      \* history: the times of all failed logins

vars == <<now, users, codes, issued, failures, requests, mail, known, wrong, crossed, tries>>

Request(op, stage, p, row, arg) == [op |-> op, stage |-> stage, p |-> p, row |-> row, arg |-> arg]

Arrive(r) == /\ Cardinality(requests) < 2 /\ r \notin requests
             /\ requests' = requests \cup {r}
Proceed(r, s) == requests' = (requests \ {r}) \cup {s}
Leave(r) == requests' = requests \ {r}

NewUser(email, pw, kakao) ==
  [id |-> Cardinality(users) + 1, email |-> email, pw |-> pw, kakao |-> kakao]

HasEmail == \E u \in users : u.email
HasPassword == \E u \in users : u.email /\ u.pw

\* Which users may ask for a code: nobody with the address yet, or somebody with a password.
MayAsk(p) == IF p = "email" THEN ~HasEmail ELSE HasPassword

--------------------------------------------------------------------------------
(* Codes *)

Expired(row) == row.expires < now

\* The deletion of an expired row holds its lock until the commit.
Deleting(p) == \E r \in requests : r.op = "issue" /\ r.stage = "write" /\ r.p = p /\ r.arg

\* _issue_code reads, after it has deleted what is expired.
ReadForIssue(p) ==
  /\ MayAsk(p) /\ issued < MaxIssues /\ ~Deleting(p)
  /\ codes[p] # None => Expired(codes[p]) \/ codes[p].created <= now - Cooldown
  /\ Arrive(Request("issue", "write", p, codes[p], codes[p] # None /\ Expired(codes[p])))
  /\ UNCHANGED <<now, users, codes, issued, failures, mail, known, wrong, crossed, tries>>

\* Whether the row of a request can be written: an UPDATE finds it, an INSERT finds none.
Writable(r) ==
  IF r.row = None THEN codes[r.p] = None
  ELSE codes[r.p] # None /\ codes[r.p].id = r.row.id

Row(id, attempts) ==
  [id |-> id, code |-> issued + 1, expires |-> now + TTL, attempts |-> attempts, created |-> now]

\* Mutant: a new code takes over the attempts of the old one.
KeepAttempts(r) == Row(IF r.row = None \/ r.arg THEN issued + 1 ELSE r.row.id,
                       IF r.row = None \/ r.arg THEN 0 ELSE r.row.attempts)

\* _issue_code commits: a row of its own, or the new code in the row that it read.
NewRow(r) == Row(IF r.row = None \/ r.arg THEN issued + 1 ELSE r.row.id, 0)

WriteCode(r) ==
  /\ r.op = "issue" /\ r.stage = "write"
  /\ Writable(r) /\ issued < MaxIssues
  /\ codes' = [codes EXCEPT ![r.p] = NewRow(r)]
  /\ issued' = issued + 1
  /\ wrong' = [wrong EXCEPT ![r.p] = 0]
  /\ mail' = [mail EXCEPT ![r.p] = None]
  /\ crossed' = (crossed \/ codes[r.p] # r.row)
  /\ Proceed(r, Request("issue", "send", r.p, None, issued + 1))
  /\ UNCHANGED <<now, users, failures, known, tries>>

\* send_verification_email; after a failure nobody knows the stored code.
SendCode(r, sent) ==
  /\ r.op = "issue" /\ r.stage = "send"
  /\ IF sent THEN mail' = [mail EXCEPT ![r.p] = r.arg] /\ known' = known \cup {r.arg}
             ELSE UNCHANGED <<mail, known>>
  /\ Leave(r)
  /\ UNCHANGED <<now, users, codes, issued, failures, wrong, crossed, tries>>

\* _check_code on the row it reads; op is what the request goes on to do with a right code
\* (verify does nothing with it).
ReadForCheck(op, p, right) ==
  /\ CASE op = "signup" -> p = "email" /\ ~HasEmail
       [] op = "reset"  -> p = "password_reset" /\ HasEmail
       [] op = "verify" -> p = "email" /\ ~right
  /\ codes[p] # None /\ ~Expired(codes[p]) /\ codes[p].attempts < MaxAttempts
  /\ right => codes[p].code \in known
  /\ Arrive(Request(op, IF right THEN "apply" ELSE "count", p, codes[p], None))
  /\ UNCHANGED <<now, users, codes, issued, failures, mail, known, wrong, crossed, tries>>

\* A wrong code is counted on from the number that was read.
CountAttempt(r) ==
  /\ r.stage = "count" /\ Writable(r) /\ ~Deleting(r.p)
  /\ codes' = [codes EXCEPT ![r.p].attempts = r.row.attempts + 1]
  /\ wrong' = [wrong EXCEPT ![r.p] = @ + 1]
  /\ crossed' = (crossed \/ codes[r.p] # r.row)
  /\ Leave(r)
  /\ UNCHANGED <<now, users, issued, failures, mail, known, tries>>

\* The codes of a purpose are deleted with the commit that they have allowed.  A DELETE that has
\* waited for another deletion does not see the row that came after it.
Use(r) ==
  /\ ~Deleting(r.p)
  /\ \/ /\ codes' = [codes EXCEPT ![r.p] = None]
        /\ mail' = [mail EXCEPT ![r.p] = None]
     \/ /\ codes[r.p] # None /\ codes[r.p].id # r.row.id
        /\ UNCHANGED <<codes, mail>>
  /\ crossed' = (crossed \/ codes[r.p] # r.row)
  /\ Leave(r)
  /\ UNCHANGED <<now, issued, failures, known, wrong, tries>>

\* signup commits.
ApplySignup(r) ==
  /\ r.op = "signup" /\ r.stage = "apply" /\ ~HasEmail
  /\ users' = users \cup {NewUser(TRUE, TRUE, FALSE)}
  /\ Use(r)

\* confirm_password_reset commits.
ApplyReset(r) ==
  /\ r.op = "reset" /\ r.stage = "apply"
  /\ users' = {IF u.email THEN [u EXCEPT !.pw = TRUE] ELSE u : u \in users}
  /\ Use(r)

\* IntegrityError or StaleDataError: nothing of the request stays.
CommitRefused(r) ==
  /\ \/ r.stage \in {"write", "count"} /\ ~Writable(r)
     \/ r.op = "signup" /\ r.stage = "apply" /\ HasEmail
  /\ Leave(r)
  /\ UNCHANGED <<now, users, codes, issued, failures, mail, known, wrong, crossed, tries>>

--------------------------------------------------------------------------------
(* Kakao *)

\* kakao_callback: what it finds decides what it will write; the identity may come with the
\* verified address or without.
ReadForKakao(email) ==
  /\ ~\E u \in users : u.kakao
  /\ Arrive(Request("kakao", IF email /\ HasEmail THEN "link" ELSE "create", None, None, email))
  /\ UNCHANGED <<now, users, codes, issued, failures, mail, known, wrong, crossed, tries>>

\* Mutant: the user is committed before the identity.
UserFirst(r) ==
  IF r.stage = "create" /\ ~(r.arg /\ HasEmail)
  THEN users \cup {NewUser(r.arg, FALSE, ~\E u \in users : u.kakao)}
  ELSE users

\* What the commit leaves of the users. The user and the identity come in one commit, and each of
\* the two unique indexes refuses all of it.
AfterKakao(r) ==
  IF (\E u \in users : u.kakao) \/ (r.stage = "create" /\ r.arg /\ HasEmail) THEN users
  ELSE IF r.stage = "create" THEN users \cup {NewUser(r.arg, FALSE, TRUE)}
  ELSE {[u EXCEPT !.kakao = @ \/ u.email] : u \in users}

CommitKakao(r) ==
  /\ r.op = "kakao"
  /\ users' = AfterKakao(r)
  /\ Leave(r)
  /\ UNCHANGED <<now, codes, issued, failures, mail, known, wrong, crossed, tries>>

--------------------------------------------------------------------------------
(* Login with a password *)

\* Mutant: failures never expire.
AllFailures(s) == s

\* The list without what is too old.
Recent(s) ==
  LET f[i \in 0 .. Len(s)] ==
        IF i = 0 THEN <<>>
        ELSE IF now - s[i] < Window THEN Append(f[i - 1], s[i]) ELSE f[i - 1]
  IN  f[Len(s)]

\* login with a wrong password: _check_login_lockout filters the list it reads.
ReadFailures ==
  /\ Len(tries) < MaxFailures \/ Len(Recent(failures)) >= MaxLogins
  /\ Arrive(Request("login", IF Len(Recent(failures)) >= MaxLogins THEN "refuse" ELSE "go",
                    None, Recent(failures), None))
  /\ UNCHANGED <<now, users, codes, issued, failures, mail, known, wrong, crossed, tries>>

\* It stores the filtered list over whatever is there by now, and a full one refuses.
StoreFailures(r) ==
  /\ r.op = "login" /\ r.stage \in {"refuse", "go"}
  /\ failures' = r.row
  /\ IF r.stage = "refuse" THEN Leave(r) ELSE Proceed(r, Request("login", "record", None, None, None))
  /\ UNCHANGED <<now, users, codes, issued, mail, known, wrong, crossed, tries>>

\* _record_login_failure
RecordFailure(r) ==
  /\ r.op = "login" /\ r.stage = "record"
  /\ failures' = Append(failures, now)
  /\ tries' = Append(tries, now)
  /\ Leave(r)
  /\ UNCHANGED <<now, users, codes, issued, mail, known, wrong, crossed>>

\* The right password always logs in, and _reset_login_failures forgets the failures.
LoginSucceeds ==
  /\ HasPassword /\ failures # <<>>
  /\ failures' = <<>>
  /\ UNCHANGED <<now, users, codes, issued, requests, mail, known, wrong, crossed, tries>>

--------------------------------------------------------------------------------
\* Sending has a timeout much shorter than the cool-down.
Tick ==
  /\ now < MaxTime
  /\ \A r \in requests : r.stage # "send"
  /\ now' = now + 1
  /\ UNCHANGED <<users, codes, issued, failures, requests, mail, known, wrong, crossed, tries>>

Init ==
  /\ now = 0
  /\ users = {}
  /\ codes = [p \in Purposes |-> None]
  /\ issued = 0
  /\ failures = <<>>
  /\ requests = {}
  /\ mail = [p \in Purposes |-> None]
  /\ known = {}
  /\ wrong = [p \in Purposes |-> 0]
  /\ crossed = FALSE
  /\ tries = <<>>

Next ==
  \/ \E p \in Purposes : ReadForIssue(p)
  \/ \E p \in Purposes, op \in {"verify", "signup", "reset"}, right \in BOOLEAN : ReadForCheck(op, p, right)
  \/ \E email \in BOOLEAN : ReadForKakao(email)
  \/ \E r \in requests : \/ WriteCode(r)
                         \/ \E sent \in BOOLEAN : SendCode(r, sent)
                         \/ CountAttempt(r)
                         \/ ApplySignup(r)
                         \/ ApplyReset(r)
                         \/ CommitRefused(r)
                         \/ CommitKakao(r)
                         \/ StoreFailures(r)
                         \/ RecordFailure(r)
  \/ ReadFailures
  \/ LoginSucceeds
  \/ Tick

Spec == Init /\ [][Next]_vars

--------------------------------------------------------------------------------
\* What a request carries at each of its stages.
RequestOK(r) ==
  \/ /\ r.op = "issue" /\ r.stage = "write" /\ r.p \in Purposes
     /\ r.row \in RowType \cup {None} /\ r.arg \in BOOLEAN
  \/ r.op = "issue" /\ r.stage = "send" /\ r.p \in Purposes /\ r.arg \in 1 .. MaxIssues
  \/ r.op \in {"signup", "reset"} /\ r.stage = "apply" /\ r.p \in Purposes /\ r.row \in RowType
  \/ /\ r.op \in {"signup", "reset", "verify"} /\ r.stage = "count" /\ r.p \in Purposes
     /\ r.row \in RowType /\ r.row.attempts < MaxAttempts
  \/ r.op = "kakao" /\ r.stage \in {"link", "create"} /\ r.arg \in BOOLEAN
  \/ r.op = "login" /\ r.stage \in {"refuse", "go"} /\ r.row \in Seq(0 .. MaxTime)
  \/ r.op = "login" /\ r.stage = "record"

TypeOK ==
  /\ now \in 0 .. MaxTime
  /\ users \subseteq [id: Nat \ {0}, email: BOOLEAN, pw: BOOLEAN, kakao: BOOLEAN]
  /\ codes \in [Purposes -> RowType \cup {None}]
  /\ issued \in 0 .. MaxIssues
  /\ failures \in Seq(0 .. MaxTime) /\ tries \in Seq(0 .. MaxTime)
  /\ Cardinality(requests) <= 2 /\ \A r \in requests : RequestOK(r)
  /\ mail \in [Purposes -> 1 .. MaxIssues \cup {None}] /\ known \subseteq 1 .. MaxIssues
  /\ wrong \in [Purposes -> Nat] /\ crossed \in BOOLEAN

\* Whatever requests race, nobody is left with a user that cannot be entered again (neither a
\* password nor an identity), and one address and one identity each belong to one user.
UsersCanReturn ==
  /\ TypeOK
  /\ \A u \in users : u.pw \/ u.kakao
  /\ \A u, v \in users : u # v => ~(u.email /\ v.email) /\ ~(u.kakao /\ v.kakao)

\* The code of the last mail is the stored one, with all its attempts but the wrong ones typed
\* since, unless two requests wrote to the row across each other.
LastMailWorks ==
  ~crossed =>
    \A p \in Purposes :
      /\ mail[p] # None => codes[p] # None /\ codes[p].code = mail[p]
      /\ codes[p] # None => codes[p].attempts = wrong[p]

\* Every wrong code counts (the design of the sign-up: "attempts += 1").
\* Two wrong codes at once refute it.
MismatchCounts == \A p \in Purposes : codes[p] # None => codes[p].attempts = wrong[p]

\* A login is refused only after as many failures as the code allows in the last minutes, however
\* the lists of concurrent requests overwrite each other: failures are forgotten, never invented.
RefusalHasCause ==
  [][\A r \in requests' \ requests :
       r.stage = "refuse" =>
         Cardinality({i \in DOMAIN tries : tries[i] > now - Window}) >= MaxLogins]_vars
================================================================================
