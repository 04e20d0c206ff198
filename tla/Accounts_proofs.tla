---------------------------- MODULE Accounts_proofs ----------------------------
(***************************************************************************)
(* Proofs about Accounts, for every number of codes, every time and every  *)
(* limit.                                                                  *)
(***************************************************************************)
EXTENDS Accounts, FiniteSetTheorems, SequenceTheorems, WellFoundedInduction, TLAPS

\* The codes that rows, requests and mails hold have been issued; one that is
\* being sent is not known yet, and only a known one is used.
HoldsRow(r) == r.stage \in {"write", "apply", "count"} /\ r.row # None

CodesInv ==
  /\ known \subseteq 1 .. issued
  /\ \A p \in Purposes : codes[p] # None => codes[p].code <= issued
  /\ \A r \in requests :
       /\ HoldsRow(r) => r.row.code <= issued
       /\ r.stage = "apply" => r.row.code \in known
       /\ r.stage = "send" => r.arg <= issued /\ r.arg \notin known
  /\ \A r, s \in requests :
       r.stage = "send" /\ s.stage = "send" /\ r.arg = s.arg => r = s

\* Unless requests have crossed, a code that is being sent is the stored one,
\* stored in this very unit of time, and nobody is about to replace it.
Sending(r) ==
  /\ codes[r.p] # None /\ codes[r.p].code = r.arg
  /\ codes[r.p].created = now /\ codes[r.p].expires = now + TTL
  /\ \A s \in requests :
       s.stage = "write" /\ s.p = r.p /\ s.row # None => s.row.code # r.arg

SendInv == ~crossed => \A r \in requests : r.stage = "send" => Sending(r)

\* A list of failures holds each try at most once, whoever wrote it.
Within(u, s) ==
  \E h \in [1 .. Len(u) -> 1 .. Len(s)] :
    /\ \A i, j \in 1 .. Len(u) : h[i] = h[j] => i = j
    /\ \A i \in 1 .. Len(u) : u[i] = s[h[i]]

FailuresInv ==
  /\ Within(failures, tries)
  /\ \A r \in requests : r.stage \in {"refuse", "go"} => Within(r.row, tries)

--------------------------------------------------------------------------------
(***************************************************************************)
(* What Recent returns.  Its recursive function exists, by the least       *)
(* length for which it would not, and so do its properties.                *)
(***************************************************************************)
LEMMA LeastOf ==
  ASSUME NEW T, T \subseteq Nat, T # {}
  PROVE  \E m \in T : \A n \in T : m <= n
<1>1. IsWellFoundedOn(OpToRel(<, Nat), Nat)
  BY NatLessThanWellFounded
<1>2. PICK m \in T : \A n \in T : ~(<<n, m>> \in OpToRel(<, Nat))
  BY <1>1, WFMin
<1>3. \A n \in T : ~(n < m)
  BY <1>2 DEF OpToRel
<1> QED BY <1>3

Filter(f, s, i) == IF i = 0 THEN <<>>
                   ELSE IF now - s[i] < Window THEN Append(f[i - 1], s[i])
                   ELSE f[i - 1]

LEMMA FilterExists ==
  ASSUME NEW s, Len(s) \in Nat
  PROVE  \E f : f = [i \in 0 .. Len(s) |-> Filter(f, s, i)]
<1> DEFINE P(n) == \E f : f = [i \in 0 .. n |-> Filter(f, s, i)]
           T == {n \in Nat : ~P(n)}
<1> SUFFICES ASSUME T # {} PROVE FALSE
  OBVIOUS
<1>1. PICK m \in T : \A n \in T : m <= n
  BY LeastOf
<1>2. m \in Nat /\ ~P(m)
  OBVIOUS
<1>3. m # 0
  <2>1. [i \in 0 .. 0 |-> <<>>] = [i \in 0 .. 0 |-> Filter([j \in 0 .. 0 |-> <<>>], s, i)]
    BY DEF Filter
  <2>2. P(0)
    BY <2>1
  <2> QED BY <1>2, <2>2
<1>4. P(m - 1)
  <2>1. m - 1 \in Nat /\ ~(m <= m - 1)
    BY <1>2, <1>3
  <2>2. m - 1 \notin T
    BY <1>1, <2>1
  <2> QED BY <2>1, <2>2
<1>5. PICK g : g = [i \in 0 .. (m - 1) |-> Filter(g, s, i)]
  BY <1>4
<1> DEFINE h == [i \in 0 .. m |-> IF i = m THEN Filter(g, s, m) ELSE g[i]]
<1>6. h = [i \in 0 .. m |-> Filter(h, s, i)]
  <2>1. ASSUME NEW i \in 0 .. m PROVE h[i] = Filter(h, s, i)
    <3>1. CASE i = m
      <4>1. h[m - 1] = g[m - 1] /\ h[m] = Filter(g, s, m)
        BY <1>2, <1>3
      <4> HIDE DEF h
      <4> QED BY <1>2, <1>3, <3>1, <4>1 DEF Filter
    <3>2. CASE i # m
      <4>1. i \in 0 .. (m - 1)
        BY <1>2, <3>2
      <4>2. h[i] = g[i] /\ (i # 0 => h[i - 1] = g[i - 1])
        BY <1>2, <4>1
      <4>3. g[i] = Filter(g, s, i)
        BY <1>5, <4>1
      <4> HIDE DEF h
      <4> QED BY <4>2, <4>3 DEF Filter
    <3> QED BY <3>1, <3>2
  <2>2. h = [i \in 0 .. m |-> h[i]]
    OBVIOUS
  <2> HIDE DEF h
  <2> QED BY <2>1, <2>2
<1> QED BY <1>2, <1>6

LEMMA RecentIs ==
  ASSUME NEW s, Len(s) \in Nat
  PROVE  \E f : /\ f = [i \in 0 .. Len(s) |-> Filter(f, s, i)]
                /\ Recent(s) = f[Len(s)]
<1> DEFINE f == CHOOSE f : f = [i \in 0 .. Len(s) |-> Filter(f, s, i)]
<1>1. f = [i \in 0 .. Len(s) |-> Filter(f, s, i)]
  BY FilterExists
<1>2. Recent(s) = f[Len(s)]
  BY DEF Recent, Filter
<1> QED BY <1>1, <1>2

\* u is made of recent elements of s at different positions up to n.
Picked(u, s, n) ==
  \E h \in [1 .. Len(u) -> 1 .. n] :
    /\ \A i, j \in 1 .. Len(u) : h[i] = h[j] => i = j
    /\ \A i \in 1 .. Len(u) : u[i] = s[h[i]] /\ now - u[i] < Window

LEMMA PickedMore ==
  ASSUME NEW T, NEW s \in Seq(T), NEW u \in Seq(T), NEW n \in Nat, n < Len(s),
         Picked(u, s, n)
  PROVE  /\ Picked(u, s, n + 1)
         /\ now - s[n + 1] < Window => /\ Append(u, s[n + 1]) \in Seq(T)
                                       /\ Picked(Append(u, s[n + 1]), s, n + 1)
<1> DEFINE x == s[n + 1]
           k == Len(u)
           v == Append(u, x)
<1>1. PICK h \in [1 .. k -> 1 .. n] :
         /\ \A i, j \in 1 .. k : h[i] = h[j] => i = j
         /\ \A i \in 1 .. k : u[i] = s[h[i]] /\ now - u[i] < Window
  BY DEF Picked
<1>2. k \in Nat /\ Len(s) \in Nat /\ x \in T
  BY LenProperties, ElementOfSeq
<1>3. Picked(u, s, n + 1)
  <2>1. h \in [1 .. k -> 1 .. n + 1]
    OBVIOUS
  <2> QED BY <1>1, <2>1 DEF Picked
<1>4. ASSUME now - x < Window PROVE v \in Seq(T) /\ Picked(v, s, n + 1)
  <2>1. /\ v \in Seq(T) /\ Len(v) = k + 1 /\ v[k + 1] = x
        /\ \A i \in 1 .. k : v[i] = u[i]
    BY <1>2
  <2> DEFINE g == [i \in 1 .. k + 1 |-> IF i = k + 1 THEN n + 1 ELSE h[i]]
  <2>2. g \in [1 .. k + 1 -> 1 .. n + 1]
    BY <1>2
  <2>3. ASSUME NEW i \in 1 .. k + 1, NEW j \in 1 .. k + 1, g[i] = g[j] PROVE i = j
    <3>1. \A l \in 1 .. k : h[l] # n + 1
      OBVIOUS
    <3> QED BY <1>1, <1>2, <2>3, <3>1
  <2>4. ASSUME NEW i \in 1 .. k + 1 PROVE v[i] = s[g[i]] /\ now - v[i] < Window
    BY <1>1, <1>2, <1>4, <2>1
  <2> HIDE DEF g, v
  <2>5. Picked(v, s, n + 1)
    <3>1. g \in [1 .. Len(v) -> 1 .. n + 1]
      BY <2>1, <2>2
    <3>2. \A i, j \in 1 .. Len(v) : g[i] = g[j] => i = j
      BY <2>1, <2>3
    <3>3. \A i \in 1 .. Len(v) : v[i] = s[g[i]] /\ now - v[i] < Window
      BY <2>1, <2>4
    <3> QED BY <3>1, <3>2, <3>3 DEF Picked
  <2> QED BY <2>1, <2>5
<1> QED BY <1>3, <1>4

LEMMA RecentOf ==
  ASSUME NEW T, NEW s \in Seq(T)
  PROVE  Recent(s) \in Seq(T) /\ Picked(Recent(s), s, Len(s))
<1>0. Len(s) \in Nat
  BY LenProperties
<1>1. PICK f : f = [i \in 0 .. Len(s) |-> Filter(f, s, i)] /\ Recent(s) = f[Len(s)]
  BY <1>0, RecentIs
<1> DEFINE P(n) == f[n] \in Seq(T) /\ Picked(f[n], s, n)
           B == {n \in 0 .. Len(s) : ~P(n)}
<1> SUFFICES ASSUME B # {} PROVE FALSE
  BY <1>0, <1>1
<1>2. PICK m \in B : \A n \in B : m <= n
  <2>1. B \subseteq Nat
    BY <1>0
  <2> HIDE DEF B
  <2> QED BY <2>1, LeastOf
<1>3. m \in 0 .. Len(s) /\ ~P(m)
  OBVIOUS
<1>4. m # 0
  <2>1. f[0] = <<>>
    BY <1>0, <1>1 DEF Filter
  <2>2. Picked(<<>>, s, 0)
    <3>1. Len(<<>>) = 0 /\ 1 .. 0 = {}
      OBVIOUS
    <3>2. [i \in {} |-> 0] \in [1 .. Len(<<>>) -> 1 .. 0]
      BY <3>1
    <3> QED BY <3>1, <3>2 DEF Picked
  <2>3. P(0)
    BY <2>1, <2>2
  <2> QED BY <1>3, <2>3
<1>5. P(m - 1)
  <2>1. m - 1 \in 0 .. Len(s) /\ ~(m <= m - 1)
    BY <1>0, <1>3, <1>4
  <2>2. m - 1 \notin B
    BY <1>2, <2>1
  <2> QED BY <2>1, <2>2
<1>6. f[m] = IF now - s[m] < Window THEN Append(f[m - 1], s[m]) ELSE f[m - 1]
  <2>1. f[m] = Filter(f, s, m)
    BY <1>1, <1>3
  <2> QED BY <1>4, <2>1 DEF Filter
<1>7. P(m)
  <2>1. m - 1 \in Nat /\ m - 1 < Len(s) /\ (m - 1) + 1 = m
    BY <1>0, <1>3, <1>4
  <2>2. /\ Picked(f[m - 1], s, m)
        /\ now - s[m] < Window => /\ Append(f[m - 1], s[m]) \in Seq(T)
                                  /\ Picked(Append(f[m - 1], s[m]), s, m)
    BY <1>5, <2>1, PickedMore
  <2> QED BY <1>5, <1>6, <2>2
<1> QED BY <1>3, <1>7

--------------------------------------------------------------------------------
(***************************************************************************)
(* Type correctness.                                                       *)
(***************************************************************************)
LEMMA Numbers ==
  /\ MaxTime \in Nat /\ MaxIssues \in Nat /\ MaxFailures \in Nat
  /\ Cooldown \in Nat \ {0} /\ TTL \in Nat \ {0} /\ MaxAttempts \in Nat \ {0}
  /\ MaxLogins \in Nat \ {0} /\ Window \in Nat \ {0}
  BY AccountsAssumption

LEMMA NoneIsNoValue == None \notin RowType /\ None \notin Nat
  BY NoValueAssumption

RequestsOK(q) ==
  IsFiniteSet(q) /\ Cardinality(q) <= 2 /\ \A r \in q : RequestOK(r)

LEMMA RequestsStep ==
  ASSUME RequestsOK(requests)
  PROVE  /\ \A s : Arrive(s) /\ RequestOK(s) => RequestsOK(requests')
         /\ \A r \in requests : Leave(r) => RequestsOK(requests')
         /\ \A r \in requests : \A s : Proceed(r, s) /\ RequestOK(s) => RequestsOK(requests')
<1>0. IsFiniteSet(requests) /\ Cardinality(requests) \in Nat
  BY FS_CardinalityType DEF RequestsOK
<1>1. ASSUME NEW s, Arrive(s), RequestOK(s) PROVE RequestsOK(requests')
  <2>1. IsFiniteSet(requests') /\ Cardinality(requests') = Cardinality(requests) + 1
    BY <1>0, <1>1, FS_AddElement DEF Arrive
  <2> QED BY <1>0, <1>1, <2>1 DEF Arrive, RequestsOK
<1>2. ASSUME NEW r \in requests
      PROVE  /\ IsFiniteSet(requests \ {r})
             /\ Cardinality(requests \ {r}) = Cardinality(requests) - 1
  BY <1>0, FS_RemoveElement
<1>3. ASSUME NEW r \in requests, Leave(r) PROVE RequestsOK(requests')
  BY <1>0, <1>2, <1>3 DEF Leave, RequestsOK
<1>4. ASSUME NEW r \in requests, NEW s, Proceed(r, s), RequestOK(s) PROVE RequestsOK(requests')
  <2> DEFINE q == requests \ {r}
  <2>1. IsFiniteSet(q) /\ Cardinality(q) = Cardinality(requests) - 1
    BY <1>2
  <2>2. /\ IsFiniteSet(q \cup {s})
        /\ Cardinality(q \cup {s}) = IF s \in q THEN Cardinality(q) ELSE Cardinality(q) + 1
    BY <2>1, FS_AddElement
  <2>3. requests' = q \cup {s}
    BY <1>4 DEF Proceed
  <2>4. Cardinality(requests') <= 2
    BY <1>0, <2>1, <2>2, <2>3 DEF RequestsOK
  <2>5. \A x \in requests' : RequestOK(x)
    BY <1>4, <2>3 DEF RequestsOK
  <2> HIDE DEF q
  <2> QED BY <2>2, <2>3, <2>4, <2>5 DEF RequestsOK
<1> QED BY <1>1, <1>3, <1>4

LEMMA RowIs ==
  ASSUME TypeOK, issued < MaxIssues, NEW id \in 1 .. MaxIssues
  PROVE  /\ Row(id, 0) \in RowType /\ Row(id, 0).code = issued + 1
         /\ Row(id, 0).attempts = 0 /\ Row(id, 0).created = now
         /\ Row(id, 0).expires = now + TTL
<1>1. /\ issued + 1 \in 1 .. MaxIssues /\ now + TTL \in 0 .. MaxTime + TTL
      /\ now \in 0 .. MaxTime /\ 0 \in 0 .. MaxAttempts
  BY Numbers DEF TypeOK
<1> QED BY <1>1 DEF Row, RowType

\* The fields that tell the stages apart.
LEMMA StageIs ==
  ASSUME NEW r, RequestOK(r)
  PROVE  /\ r.stage \in {"write", "send", "apply", "count", "link", "create", "refuse", "go",
                         "record"}
         /\ r.stage = "write" => /\ r.op = "issue" /\ r.p \in Purposes
                                 /\ r.row \in RowType \cup {None} /\ r.arg \in BOOLEAN
         /\ r.stage = "send" => r.op = "issue" /\ r.p \in Purposes /\ r.arg \in 1 .. MaxIssues
         /\ r.stage \in {"apply", "count"} => r.p \in Purposes /\ r.row \in RowType
         /\ r.stage = "count" => r.row.attempts < MaxAttempts
         /\ r.stage \in {"refuse", "go"} => r.op = "login" /\ r.row \in Seq(0 .. MaxTime)
         /\ r.op = "kakao" => r.stage \in {"link", "create"} /\ r.arg \in BOOLEAN
         /\ r.op = "login" => r.stage \in {"refuse", "go", "record"}
  BY DEF RequestOK

\* What a code that is stored, or counted on, is made of.
LEMMA NewRowIs ==
  ASSUME TypeOK, NEW r \in requests, WriteCode(r)
  PROVE  /\ NewRow(r) \in RowType /\ NewRow(r).code = issued + 1
         /\ NewRow(r).attempts = 0 /\ NewRow(r).created = now
         /\ NewRow(r).expires = now + TTL
         /\ r.p \in Purposes
<1>1. RequestOK(r) /\ r.stage = "write" /\ issued < MaxIssues
  BY DEF TypeOK, WriteCode
<1>2. issued + 1 \in 1 .. MaxIssues
  BY <1>1, Numbers DEF TypeOK
<1>3. r.row # None => r.row.id \in 1 .. MaxIssues
  BY <1>1, StageIs DEF RowType
<1> QED BY <1>1, <1>2, <1>3, RowIs, StageIs DEF NewRow

LEMMA CountedIs ==
  ASSUME TypeOK, NEW r \in requests, CountAttempt(r)
  PROVE  /\ r.p \in Purposes /\ r.row \in RowType /\ codes[r.p] \in RowType
         /\ \A p \in Purposes \ {r.p} : codes'[p] = codes[p]
         /\ codes'[r.p] \in RowType /\ codes'[r.p].attempts = r.row.attempts + 1
         /\ codes'[r.p].code = codes[r.p].code /\ codes'[r.p].created = codes[r.p].created
         /\ codes'[r.p].expires = codes[r.p].expires
         /\ codes' \in [Purposes -> RowType \cup {None}]
<1>1. RequestOK(r) /\ r.stage = "count" /\ Writable(r)
  BY DEF TypeOK, CountAttempt
<1>2. r.p \in Purposes /\ r.row \in RowType /\ r.row.attempts < MaxAttempts /\ r.row # None
  BY <1>1, StageIs, NoneIsNoValue
<1>3. codes \in [Purposes -> RowType \cup {None}] /\ codes[r.p] \in RowType
  BY <1>1, <1>2 DEF TypeOK, Writable
<1>4. r.row.attempts + 1 \in 0 .. MaxAttempts
  BY <1>2, Numbers DEF RowType
<1> DEFINE n == r.row.attempts + 1
           new == [codes[r.p] EXCEPT !.attempts = n]
<1>5. /\ new \in RowType /\ new.attempts = n /\ new.code = codes[r.p].code
      /\ new.created = codes[r.p].created /\ new.expires = codes[r.p].expires
  <2> HIDE DEF n
  <2> QED BY <1>3, <1>4 DEF RowType, n
<1>6. codes' = [codes EXCEPT ![r.p] = new]
  BY <1>3 DEF CountAttempt
<1> HIDE DEF new
<1> QED BY <1>2, <1>3, <1>5, <1>6

--------------------------------------------------------------------------------
(***************************************************************************)
(* The users.                                                              *)
(***************************************************************************)
UserType == [id: Nat \ {0}, email: BOOLEAN, pw: BOOLEAN, kakao: BOOLEAN]

UsersOK(us) ==
  /\ us \subseteq UserType /\ IsFiniteSet(us)
  /\ \A u \in us : u.pw \/ u.kakao
  /\ \A u, v \in us : u # v => ~(u.email /\ v.email) /\ ~(u.kakao /\ v.kakao)

\* A user that takes no address and no identity that another one has.
LEMMA AddUser ==
  ASSUME UsersOK(users), NEW email \in BOOLEAN, NEW pw \in BOOLEAN, NEW kakao \in BOOLEAN,
         pw \/ kakao, email => ~HasEmail, kakao => ~\E u \in users : u.kakao
  PROVE  UsersOK(users \cup {NewUser(email, pw, kakao)})
<1> DEFINE n == NewUser(email, pw, kakao)
<1>1. Cardinality(users) + 1 \in Nat \ {0}
  BY FS_CardinalityType DEF UsersOK
<1>2. n \in UserType /\ n.email = email /\ n.pw = pw /\ n.kakao = kakao
  BY <1>1 DEF NewUser, UserType
<1>3. IsFiniteSet(users \cup {n})
  BY FS_AddElement DEF UsersOK
<1> HIDE DEF n
<1>4. \A u, v \in users \cup {n} : u # v => ~(u.email /\ v.email) /\ ~(u.kakao /\ v.kakao)
  BY <1>2 DEF UsersOK, HasEmail
<1> QED BY <1>2, <1>3, <1>4 DEF UsersOK, n

\* A change of every user that keeps its address and its ways in, and gives the identity, if any,
\* to the owner of the address.
LEMMA ChangeUsers ==
  ASSUME UsersOK(users), NEW f \in [users -> UserType],
         \A u \in users : /\ f[u].email = u.email
                          /\ f[u].pw \/ f[u].kakao
                          /\ f[u].kakao => u.kakao \/ (u.email /\ ~\E v \in users : v.kakao)
  PROVE  UsersOK({f[u] : u \in users})
<1> DEFINE T == {f[u] : u \in users}
<1>1. IsFiniteSet(T)
  <2>1. f \in Surjection(users, T)
    BY DEF Surjection
  <2> QED BY <2>1, FS_Surjection DEF UsersOK
<1>2. ASSUME NEW u \in users, NEW v \in users, f[u] # f[v]
      PROVE  ~(f[u].email /\ f[v].email) /\ ~(f[u].kakao /\ f[v].kakao)
  <2>1. u # v
    BY <1>2
  <2> QED BY <2>1 DEF UsersOK
<1> QED BY <1>1, <1>2 DEF UsersOK

LEMMA UsersStep ==
  ASSUME UsersOK(users), TypeOK, [Next]_vars PROVE UsersOK(users')
<1>1. ASSUME NEW r \in requests, ApplySignup(r) PROVE UsersOK(users')
  BY <1>1, AddUser DEF ApplySignup
<1>2. ASSUME NEW r \in requests, ApplyReset(r) PROVE UsersOK(users')
  <2> DEFINE f == [u \in users |-> IF u.email THEN [u EXCEPT !.pw = TRUE] ELSE u]
  <2>1. ASSUME NEW u \in users
        PROVE  /\ f[u] \in UserType /\ f[u].email = u.email /\ f[u].kakao = u.kakao
               /\ f[u].pw \/ f[u].kakao
    BY DEF UsersOK, UserType
  <2>2. users' = {f[u] : u \in users}
    BY <1>2 DEF ApplyReset
  <2>3. f \in [users -> UserType]
    BY <2>1
  <2> HIDE DEF f
  <2> QED BY <2>1, <2>2, <2>3, ChangeUsers
<1>3. ASSUME NEW r \in requests, CommitKakao(r) PROVE UsersOK(users')
  <2>1. users' = AfterKakao(r) /\ r.arg \in BOOLEAN
    BY <1>3, StageIs DEF CommitKakao, TypeOK
  <2>2. CASE (\E u \in users : u.kakao) \/ (r.stage = "create" /\ r.arg /\ HasEmail)
    BY <2>1, <2>2 DEF AfterKakao
  <2>3. CASE ~(\E u \in users : u.kakao) /\ r.stage = "create" /\ ~(r.arg /\ HasEmail)
    <3>1. users' = users \cup {NewUser(r.arg, FALSE, TRUE)}
      BY <2>1, <2>3 DEF AfterKakao
    <3> QED BY <2>1, <2>3, <3>1, AddUser
  <2>4. CASE ~(\E u \in users : u.kakao) /\ r.stage # "create"
    <3> DEFINE f == [u \in users |-> [u EXCEPT !.kakao = @ \/ u.email]]
    <3>1. ASSUME NEW u \in users
          PROVE  /\ f[u] \in UserType /\ f[u].email = u.email
                 /\ f[u].pw \/ f[u].kakao
                 /\ f[u].kakao => u.email
      <4>1. u \in UserType /\ (u.kakao \/ u.email) \in BOOLEAN /\ ~u.kakao /\ u.pw
        BY <2>4 DEF UsersOK, UserType
      <4>2. f[u].kakao = (u.kakao \/ u.email)
        BY <4>1 DEF UserType
      <4>3. f[u] \in UserType /\ f[u].email = u.email /\ f[u].pw = u.pw
        BY <4>1 DEF UserType
      <4> QED BY <4>1, <4>2, <4>3
    <3>2. users' = {f[u] : u \in users}
      BY <2>1, <2>4 DEF AfterKakao
    <3>3. f \in [users -> UserType]
      BY <3>1
    <3> HIDE DEF f
    <3> QED BY <2>4, <3>1, <3>2, <3>3, ChangeUsers
  <2> QED BY <2>2, <2>3, <2>4
<1>4. users' = users => UsersOK(users')
  OBVIOUS
<1> QED BY <1>1, <1>2, <1>3, <1>4
        DEF Next, ReadForIssue, ReadForCheck, ReadForKakao, WriteCode, SendCode, CountAttempt,
            CommitRefused, StoreFailures, RecordFailure, ReadFailures, LoginSucceeds, Tick, vars

LEMMA AccountsTypeStep ==
  ASSUME TypeOK, RequestsOK(requests), UsersOK(users), [Next]_vars
  PROVE  TypeOK' /\ RequestsOK(requests')
<1>0. users' \subseteq UserType
  BY UsersStep DEF UsersOK
<1> DEFINE Rest ==
      /\ now' \in 0 .. MaxTime
      /\ codes' \in [Purposes -> RowType \cup {None}]
      /\ issued' \in 0 .. MaxIssues
      /\ failures' \in Seq(0 .. MaxTime) /\ tries' \in Seq(0 .. MaxTime)
      /\ mail' \in [Purposes -> 1 .. MaxIssues \cup {None}] /\ known' \subseteq 1 .. MaxIssues
      /\ wrong' \in [Purposes -> Nat] /\ crossed' \in BOOLEAN
<1>t. /\ now \in 0 .. MaxTime
      /\ codes \in [Purposes -> RowType \cup {None}]
      /\ issued \in 0 .. MaxIssues
      /\ failures \in Seq(0 .. MaxTime) /\ tries \in Seq(0 .. MaxTime)
      /\ mail \in [Purposes -> 1 .. MaxIssues \cup {None}] /\ known \subseteq 1 .. MaxIssues
      /\ wrong \in [Purposes -> Nat] /\ crossed \in BOOLEAN
      /\ \A r \in requests : RequestOK(r)
  BY DEF TypeOK
<1>r. Rest /\ RequestsOK(requests') => TypeOK' /\ RequestsOK(requests')
  BY <1>0 DEF TypeOK, RequestsOK, UserType
<1> USE DEF Request
<1>1. ASSUME NEW p \in Purposes, ReadForIssue(p) PROVE Rest /\ RequestsOK(requests')
  <2> DEFINE s == Request("issue", "write", p, codes[p], codes[p] # None /\ Expired(codes[p]))
  <2>1. RequestOK(s)
    <3>1. (codes[p] # None /\ Expired(codes[p])) \in BOOLEAN
      OBVIOUS
    <3> QED BY <1>t, <3>1 DEF RequestOK
  <2>2. Arrive(s)
    BY <1>1 DEF ReadForIssue
  <2>3. RequestsOK(requests')
    BY <2>1, <2>2, RequestsStep
  <2> QED BY <1>1, <1>t, <2>3 DEF ReadForIssue
<1>2. ASSUME NEW r \in requests, WriteCode(r) PROVE Rest /\ RequestsOK(requests')
  <2>1. issued + 1 \in 1 .. MaxIssues /\ issued + 1 \in 0 .. MaxIssues
    BY <1>2, <1>t, Numbers DEF WriteCode
  <2> DEFINE s == Request("issue", "send", r.p, None, issued + 1)
  <2>2. RequestOK(s)
    BY <1>2, <2>1, NewRowIs DEF RequestOK
  <2>3. RequestsOK(requests')
    BY <1>2, <2>2, RequestsStep DEF WriteCode
  <2>4. codes' \in [Purposes -> RowType \cup {None}]
    BY <1>2, <1>t, NewRowIs DEF WriteCode
  <2>5. crossed' \in BOOLEAN
    BY <1>2 DEF WriteCode
  <2> QED BY <1>2, <1>t, <2>1, <2>3, <2>4, <2>5 DEF WriteCode
<1>3. ASSUME NEW r \in requests, NEW sent \in BOOLEAN, SendCode(r, sent)
      PROVE  Rest /\ RequestsOK(requests')
  <2>1. r.p \in Purposes /\ r.arg \in 1 .. MaxIssues
    BY <1>3, <1>t, StageIs DEF SendCode
  <2>2. RequestsOK(requests')
    BY <1>3, RequestsStep DEF SendCode
  <2> QED BY <1>3, <1>t, <2>1, <2>2 DEF SendCode
<1>4. ASSUME NEW op \in {"verify", "signup", "reset"}, NEW p \in Purposes, NEW right \in BOOLEAN,
             ReadForCheck(op, p, right)
      PROVE  Rest /\ RequestsOK(requests')
  <2> DEFINE s == Request(op, IF right THEN "apply" ELSE "count", p, codes[p], None)
  <2>1. codes[p] \in RowType /\ codes[p].attempts < MaxAttempts /\ (op = "verify" => ~right)
    BY <1>4, <1>t DEF ReadForCheck
  <2>2. RequestOK(s)
    BY <2>1 DEF RequestOK
  <2>3. RequestsOK(requests')
    BY <1>4, <2>2, RequestsStep DEF ReadForCheck
  <2> QED BY <1>4, <1>t, <2>3 DEF ReadForCheck
<1>5. ASSUME NEW r \in requests, CountAttempt(r) PROVE Rest /\ RequestsOK(requests')
  <2>1. codes' \in [Purposes -> RowType \cup {None}] /\ r.p \in Purposes
    BY <1>5, CountedIs
  <2>2. RequestsOK(requests')
    BY <1>5, RequestsStep DEF CountAttempt
  <2>3. wrong' \in [Purposes -> Nat]
    BY <1>5, <1>t, <2>1 DEF CountAttempt
  <2>4. crossed' \in BOOLEAN
    BY <1>5 DEF CountAttempt
  <2> QED BY <1>5, <1>t, <2>1, <2>2, <2>3, <2>4 DEF CountAttempt
<1>6. ASSUME NEW r \in requests, ApplySignup(r) \/ ApplyReset(r)
      PROVE  Rest /\ RequestsOK(requests')
  <2>1. Use(r)
    BY <1>6 DEF ApplySignup, ApplyReset
  <2>2. RequestsOK(requests')
    BY <2>1, RequestsStep DEF Use
  <2>3. /\ codes' \in [Purposes -> RowType \cup {None}]
        /\ mail' \in [Purposes -> 1 .. MaxIssues \cup {None}]
    BY <1>t, <2>1 DEF Use
  <2>4. crossed' \in BOOLEAN
    BY <2>1 DEF Use
  <2> QED BY <1>t, <2>1, <2>2, <2>3, <2>4 DEF Use
<1>7. ASSUME NEW r \in requests, CommitRefused(r) \/ CommitKakao(r)
      PROVE  Rest /\ RequestsOK(requests')
  <2>1. RequestsOK(requests')
    BY <1>7, RequestsStep DEF CommitRefused, CommitKakao
  <2> QED BY <1>7, <1>t, <2>1 DEF CommitRefused, CommitKakao
<1>8. ASSUME NEW email \in BOOLEAN, ReadForKakao(email) PROVE Rest /\ RequestsOK(requests')
  <2> DEFINE s == Request("kakao", IF email /\ HasEmail THEN "link" ELSE "create", None, None, email)
  <2>1. RequestOK(s)
    BY DEF RequestOK
  <2>2. RequestsOK(requests')
    BY <1>8, <2>1, RequestsStep DEF ReadForKakao
  <2> QED BY <1>8, <1>t, <2>2 DEF ReadForKakao
<1>9. ASSUME ReadFailures PROVE Rest /\ RequestsOK(requests')
  <2> DEFINE s == Request("login", IF Len(Recent(failures)) >= MaxLogins THEN "refuse" ELSE "go",
                          None, Recent(failures), None)
  <2>1. Recent(failures) \in Seq(0 .. MaxTime)
    BY <1>t, RecentOf
  <2>2. RequestOK(s)
    BY <2>1 DEF RequestOK
  <2>3. RequestsOK(requests')
    BY <1>9, <2>2, RequestsStep DEF ReadFailures
  <2> QED BY <1>9, <1>t, <2>3 DEF ReadFailures
<1>10. ASSUME NEW r \in requests, StoreFailures(r) PROVE Rest /\ RequestsOK(requests')
  <2>1. r.row \in Seq(0 .. MaxTime)
    BY <1>10, <1>t, StageIs DEF StoreFailures
  <2>2. RequestOK(Request("login", "record", None, None, None))
    BY DEF RequestOK
  <2>3. RequestsOK(requests')
    BY <1>10, <2>2, RequestsStep DEF StoreFailures
  <2> QED BY <1>10, <1>t, <2>1, <2>3 DEF StoreFailures
<1>11. ASSUME NEW r \in requests, RecordFailure(r) PROVE Rest /\ RequestsOK(requests')
  <2>1. RequestsOK(requests')
    BY <1>11, RequestsStep DEF RecordFailure
  <2>2. Append(failures, now) \in Seq(0 .. MaxTime) /\ Append(tries, now) \in Seq(0 .. MaxTime)
    BY <1>t
  <2> QED BY <1>11, <1>t, <2>1, <2>2 DEF RecordFailure
<1>12. ASSUME LoginSucceeds PROVE Rest /\ RequestsOK(requests')
  BY <1>12, <1>t DEF LoginSucceeds
<1>13. ASSUME Tick PROVE Rest /\ RequestsOK(requests')
  BY <1>13, <1>t, Numbers DEF Tick
<1>14. ASSUME UNCHANGED vars PROVE Rest /\ RequestsOK(requests')
  BY <1>14, <1>t DEF vars
<1> HIDE DEF Rest
<1> QED BY <1>r, <1>1, <1>2, <1>3, <1>4, <1>5, <1>6, <1>7, <1>8, <1>9, <1>10, <1>11, <1>12,
           <1>13, <1>14 DEF Next

--------------------------------------------------------------------------------
(***************************************************************************)
(* The codes: CodesInv, SendInv and LastMailWorks together.                *)
(***************************************************************************)
CodeInv == CodesInv /\ SendInv /\ LastMailWorks

\* The requests that have nothing to do with codes.
Quiet(s) == s.stage \in {"link", "create", "refuse", "go", "record"}

LEMMA QuietStep ==
  ASSUME CodeInv, UNCHANGED <<now, codes, issued, mail, known, wrong, crossed>>,
         \A s \in requests' : s \in requests \/ Quiet(s)
  PROVE  CodeInv'
<1>1. CodesInv'
  BY DEF CodeInv, CodesInv, HoldsRow, Quiet
<1>2. SendInv'
  BY DEF CodeInv, SendInv, Sending, Quiet
<1>3. LastMailWorks'
  BY DEF CodeInv, LastMailWorks
<1> QED BY <1>1, <1>2, <1>3 DEF CodeInv

LEMMA CodeTypes ==
  ASSUME TypeOK
  PROVE  /\ now \in Nat /\ issued \in Nat /\ TTL \in Nat /\ TTL > 0 /\ Cooldown > 0
         /\ Cooldown \in Nat
         /\ codes \in [Purposes -> RowType \cup {None}]
         /\ mail \in [Purposes -> 1 .. MaxIssues \cup {None}]
         /\ wrong \in [Purposes -> Nat]
         /\ \A row \in RowType : /\ row.code \in Nat \ {0} /\ row.attempts \in Nat
                                 /\ row.created \in Nat /\ row.expires \in Nat
                                 /\ row # None
         /\ \A r \in requests : RequestOK(r)
<1>1. \A row \in RowType : /\ row.code \in 1 .. MaxIssues /\ row.attempts \in 0 .. MaxAttempts
                          /\ row.created \in 0 .. MaxTime /\ row.expires \in 0 .. MaxTime + TTL
  BY DEF RowType
<1>2. \A row \in RowType : /\ row.code \in Nat \ {0} /\ row.attempts \in Nat
                          /\ row.created \in Nat /\ row.expires \in Nat
  BY <1>1, Numbers
<1>3. \A row \in RowType : row # None
  BY NoneIsNoValue
<1>4. now \in Nat /\ issued \in Nat
  BY Numbers DEF TypeOK
<1>5. /\ codes \in [Purposes -> RowType \cup {None}]
      /\ mail \in [Purposes -> 1 .. MaxIssues \cup {None}]
      /\ wrong \in [Purposes -> Nat]
      /\ \A r \in requests : RequestOK(r)
  BY DEF TypeOK
<1> QED BY <1>2, <1>3, <1>4, <1>5, Numbers

\* While a code is being sent, nobody reads the row to replace it.
LEMMA ReadForIssueStep ==
  ASSUME TypeOK, CodeInv, NEW p \in Purposes, ReadForIssue(p) PROVE CodeInv'
<1> DEFINE x == Request("issue", "write", p, codes[p], codes[p] # None /\ Expired(codes[p]))
<1>1. /\ requests' = requests \cup {x}
      /\ x.stage = "write" /\ x.p = p /\ x.row = codes[p]
      /\ UNCHANGED <<now, codes, issued, mail, known, wrong, crossed>>
  BY DEF ReadForIssue, Arrive, Request
<1>2. codes[p] # None => Expired(codes[p]) \/ codes[p].created <= now - Cooldown
  BY DEF ReadForIssue
<1> HIDE DEF x
<1>3. CodesInv'
  BY <1>1 DEF CodeInv, CodesInv, HoldsRow
<1>4. SendInv'
  <2> SUFFICES ASSUME ~crossed, NEW r \in requests, r.stage = "send" PROVE Sending(r)'
    BY <1>1 DEF SendInv
  <2>1. Sending(r)
    BY DEF CodeInv, SendInv
  <2>2. r.p # p
    BY <1>2, <2>1, CodeTypes DEF Sending, Expired
  <2> QED BY <1>1, <2>1, <2>2 DEF Sending
<1>5. LastMailWorks'
  BY <1>1 DEF CodeInv, LastMailWorks
<1> QED BY <1>3, <1>4, <1>5 DEF CodeInv

\* A new code is nobody else's; if one was being sent, the requests have crossed.
LEMMA WriteCodeStep ==
  ASSUME TypeOK, CodeInv, NEW r \in requests, WriteCode(r) PROVE CodeInv'
<1> DEFINE x == Request("issue", "send", r.p, None, issued + 1)
           n == NewRow(r)
<1>1. /\ requests' = (requests \ {r}) \cup {x}
      /\ x.stage = "send" /\ x.p = r.p /\ x.arg = issued + 1
      /\ codes' = [codes EXCEPT ![r.p] = n] /\ issued' = issued + 1
      /\ wrong' = [wrong EXCEPT ![r.p] = 0] /\ mail' = [mail EXCEPT ![r.p] = None]
      /\ UNCHANGED <<now, known>> /\ r.stage = "write" /\ Writable(r)
      /\ crossed' = (crossed \/ codes[r.p] # r.row)
  BY DEF WriteCode, Proceed, Request
<1>2. /\ n \in RowType /\ n.code = issued + 1 /\ n.attempts = 0 /\ n.created = now
      /\ n.expires = now + TTL /\ r.p \in Purposes
  BY NewRowIs
<1> HIDE DEF x, n
<1>c. CodesInv
  BY DEF CodeInv
<1>3. CodesInv'
  <2>1. known' \subseteq 1 .. issued'
    BY <1>1, <1>c, CodeTypes DEF CodesInv
  <2>2. \A p \in Purposes : codes'[p] # None => codes'[p].code <= issued'
    BY <1>1, <1>2, <1>c, CodeTypes DEF CodesInv
  <2>3. \A s \in requests' : /\ HoldsRow(s) => s.row.code <= issued'
                             /\ s.stage = "apply" => s.row.code \in known'
                             /\ s.stage = "send" => s.arg <= issued' /\ s.arg \notin known'
    <3>1. ASSUME NEW s \in requests, HoldsRow(s) PROVE s.row.code <= issued + 1
      <4>1. s.row \in RowType
        BY <3>1, CodeTypes, StageIs DEF HoldsRow
      <4> QED BY <1>c, <3>1, <4>1, CodeTypes DEF CodesInv
    <3>2. ASSUME NEW s \in requests, s.stage = "send" PROVE s.arg <= issued + 1
      <4>1. s.arg \in Nat
        BY <3>2, CodeTypes, StageIs
      <4> QED BY <1>c, <3>2, <4>1, CodeTypes DEF CodesInv
    <3>3. x.arg \notin known /\ x.arg <= issued + 1 /\ ~HoldsRow(x)
      BY <1>1, <1>c, CodeTypes DEF CodesInv, HoldsRow
    <3> QED BY <1>1, <1>c, <3>1, <3>2, <3>3 DEF CodesInv
  <2>4. \A s, t \in requests' : s.stage = "send" /\ t.stage = "send" /\ s.arg = t.arg => s = t
    <3>1. \A s \in requests : s.stage = "send" => s.arg # x.arg
      <4> SUFFICES ASSUME NEW s \in requests, s.stage = "send" PROVE s.arg # x.arg
        OBVIOUS
      <4>1. s.arg \in Nat /\ s.arg <= issued
        BY <1>c, CodeTypes, StageIs DEF CodesInv
      <4> QED BY <1>1, <4>1, CodeTypes
    <3> QED BY <1>1, <1>c, <3>1 DEF CodesInv
  <2> QED BY <2>1, <2>2, <2>3, <2>4 DEF CodesInv
<1>4. SendInv'
  <2> SUFFICES ASSUME ~crossed', NEW s \in requests', s.stage = "send" PROVE Sending(s)'
    BY DEF SendInv
  <2>0. ~crossed /\ codes[r.p] = r.row
    BY <1>1
  <2>1. CASE s = x
    <3>1. ASSUME NEW t \in requests, t.stage = "write", t.row # None PROVE t.row.code # issued + 1
      <4>1. t.row \in RowType /\ t.row.code <= issued
        BY <1>c, <3>1, CodeTypes, StageIs DEF CodesInv, HoldsRow
      <4> QED BY <4>1, CodeTypes
    <3>2. codes'[r.p] = n /\ n # None
      BY <1>1, <1>2, CodeTypes
    <3> QED BY <1>1, <1>2, <2>1, <3>1, <3>2 DEF Sending
  <2>2. CASE s \in requests
    <3>1. Sending(s)
      BY <2>0, <2>2 DEF CodeInv, SendInv
    <3>2. s.p # r.p
      <4>1. r.row # None /\ s.p = r.p => r.row.code # s.arg
        BY <1>1, <3>1 DEF Sending
      <4>2. s.p = r.p => r.row # None /\ r.row.code = s.arg
        BY <2>0, <3>1 DEF Sending
      <4> QED BY <4>1, <4>2
    <3>3. codes'[s.p] = codes[s.p]
      <4>1. s.p \in Purposes
        BY <2>2, CodeTypes, StageIs
      <4> QED BY <1>1, <3>2, <4>1, CodeTypes
    <3> QED BY <1>1, <3>1, <3>3 DEF Sending
  <2> QED BY <1>1, <2>1, <2>2
<1>5. LastMailWorks'
  BY <1>1, <1>2, CodeTypes DEF CodeInv, LastMailWorks
<1> QED BY <1>3, <1>4, <1>5 DEF CodeInv

\* The mail brings the stored code.
LEMMA SendCodeStep ==
  ASSUME TypeOK, CodeInv, NEW r \in requests, NEW sent \in BOOLEAN, SendCode(r, sent)
  PROVE  CodeInv'
<1>1. /\ requests' = requests \ {r} /\ r.stage = "send"
      /\ UNCHANGED <<now, codes, issued, wrong, crossed>>
  BY DEF SendCode, Leave
<1>2. r.arg \in Nat \ {0} /\ r.p \in Purposes /\ r.arg <= issued /\ CodesInv
  BY <1>1, CodeTypes, StageIs DEF CodeInv, CodesInv
<1>3. \/ mail' = [mail EXCEPT ![r.p] = r.arg] /\ known' = known \cup {r.arg}
      \/ UNCHANGED <<mail, known>>
  BY DEF SendCode
<1>4. CodesInv'
  <2>1. known' \subseteq 1 .. issued /\ known \subseteq known' /\ known' \subseteq known \cup {r.arg}
    <3>1. r.arg \in 1 .. issued /\ known \subseteq 1 .. issued
      <4>1. issued \in Nat
        BY CodeTypes
      <4> QED BY <1>2, <4>1 DEF CodesInv
    <3> QED BY <1>3, <3>1
  <2>2. \A s \in requests' : s.stage = "send" => s.arg \notin known'
    BY <1>1, <1>2, <2>1 DEF CodesInv
  <2> QED BY <1>1, <1>2, <2>1, <2>2 DEF CodesInv, HoldsRow
<1>5. SendInv'
  BY <1>1 DEF CodeInv, SendInv, Sending
<1>6. LastMailWorks'
  <2>1. ~crossed => codes[r.p] # None /\ codes[r.p].code = r.arg
    BY <1>1 DEF CodeInv, SendInv, Sending
  <2> QED BY <1>1, <1>2, <1>3, <2>1, CodeTypes DEF CodeInv, LastMailWorks
<1> QED BY <1>4, <1>5, <1>6 DEF CodeInv

LEMMA ReadForCheckStep ==
  ASSUME TypeOK, CodeInv, NEW op, NEW p \in Purposes, NEW right \in BOOLEAN,
         ReadForCheck(op, p, right)
  PROVE  CodeInv'
<1> DEFINE x == Request(op, IF right THEN "apply" ELSE "count", p, codes[p], None)
<1>1. /\ requests' = requests \cup {x} /\ x.row = codes[p] /\ x.row # None
      /\ x.stage \in {"apply", "count"} /\ (x.stage = "apply" => codes[p].code \in known)
      /\ UNCHANGED <<now, codes, issued, mail, known, wrong, crossed>>
  BY DEF ReadForCheck, Arrive, Request
<1> HIDE DEF x
<1>2. CodesInv'
  BY <1>1 DEF CodeInv, CodesInv, HoldsRow
<1>3. SendInv'
  BY <1>1 DEF CodeInv, SendInv, Sending
<1>4. LastMailWorks'
  BY <1>1 DEF CodeInv, LastMailWorks
<1> QED BY <1>2, <1>3, <1>4 DEF CodeInv

LEMMA CountAttemptStep ==
  ASSUME TypeOK, CodeInv, NEW r \in requests, CountAttempt(r) PROVE CodeInv'
<1>1. /\ requests' = requests \ {r}
      /\ wrong' = [wrong EXCEPT ![r.p] = @ + 1]
      /\ crossed' = (crossed \/ codes[r.p] # r.row)
      /\ UNCHANGED <<now, issued, mail, known>>
  BY DEF CountAttempt, Leave
<1>2. /\ r.p \in Purposes /\ codes[r.p] # None /\ codes'[r.p] # None
      /\ \A p \in Purposes \ {r.p} : codes'[p] = codes[p]
      /\ codes'[r.p].attempts = r.row.attempts + 1
      /\ codes'[r.p].code = codes[r.p].code /\ codes'[r.p].created = codes[r.p].created
      /\ codes'[r.p].expires = codes[r.p].expires
  BY CountedIs, CodeTypes
<1>3. CodesInv'
  BY <1>1, <1>2 DEF CodeInv, CodesInv, HoldsRow
<1>4. SendInv'
  <2>1. \A s \in requests : s.stage = "send" => s.p \in Purposes
    BY CodeTypes, StageIs
  <2> QED BY <1>1, <1>2, <2>1 DEF CodeInv, SendInv, Sending
<1>5. LastMailWorks'
  <2> SUFFICES ASSUME ~crossed', NEW p \in Purposes
               PROVE  /\ mail'[p] # None => codes'[p] # None /\ codes'[p].code = mail'[p]
                      /\ codes'[p] # None => codes'[p].attempts = wrong'[p]
    BY DEF LastMailWorks
  <2>1. ~crossed /\ codes[r.p] = r.row
    BY <1>1
  <2>2. /\ mail[p] # None => codes[p] # None /\ codes[p].code = mail[p]
        /\ codes[p] # None => codes[p].attempts = wrong[p]
    BY <2>1 DEF CodeInv, LastMailWorks
  <2>3. wrong'[p] = IF p = r.p THEN wrong[p] + 1 ELSE wrong[p]
    BY <1>1, <1>2, CodeTypes
  <2> QED BY <1>1, <1>2, <2>1, <2>2, <2>3
<1> QED BY <1>3, <1>4, <1>5 DEF CodeInv

\* A code that is used is known, so it is not one being sent: to delete that one is to cross.
LEMMA UseStep ==
  ASSUME TypeOK, CodeInv, NEW r \in requests, r.stage = "apply", Use(r) PROVE CodeInv'
<1>1. /\ requests' = requests \ {r}
      /\ crossed' = (crossed \/ codes[r.p] # r.row)
      /\ UNCHANGED <<now, issued, known, wrong>>
      /\ \/ codes' = [codes EXCEPT ![r.p] = None] /\ mail' = [mail EXCEPT ![r.p] = None]
         \/ UNCHANGED <<codes, mail>>
  BY DEF Use, Leave
<1>2. r.p \in Purposes /\ r.row \in RowType
  BY CodeTypes, StageIs
<1>3. CodesInv'
  BY <1>1, <1>2, CodeTypes DEF CodeInv, CodesInv, HoldsRow
<1>4. SendInv'
  <2> SUFFICES ASSUME ~crossed', NEW s \in requests', s.stage = "send" PROVE Sending(s)'
    BY DEF SendInv
  <2>1. /\ s \in requests /\ ~crossed /\ codes[r.p] = r.row /\ Sending(s)
        /\ r.row.code \in known /\ s.arg \notin known /\ s.p \in Purposes
    BY <1>1, CodeTypes, StageIs DEF CodeInv, SendInv, CodesInv
  <2>2. s.p # r.p
    BY <2>1 DEF Sending
  <2>3. codes'[s.p] = codes[s.p]
    BY <1>1, <2>1, <2>2, CodeTypes
  <2> QED BY <1>1, <2>1, <2>3 DEF Sending
<1>5. LastMailWorks'
  BY <1>1, <1>2, CodeTypes DEF CodeInv, LastMailWorks
<1> QED BY <1>3, <1>4, <1>5 DEF CodeInv

LEMMA CodeStep ==
  ASSUME TypeOK, CodeInv, [Next]_vars PROVE CodeInv'
<1>1. ASSUME NEW r \in requests, ApplySignup(r) \/ ApplyReset(r) PROVE CodeInv'
  BY <1>1, UseStep DEF ApplySignup, ApplyReset
<1>2. ASSUME NEW r \in requests,
             CommitRefused(r) \/ CommitKakao(r) \/ StoreFailures(r) \/ RecordFailure(r)
      PROVE  CodeInv'
  BY <1>2, QuietStep DEF CommitRefused, CommitKakao, StoreFailures, RecordFailure, Leave, Proceed,
                         Request, Quiet
<1>3. ASSUME NEW email \in BOOLEAN, ReadForKakao(email) PROVE CodeInv'
  BY <1>3, QuietStep DEF ReadForKakao, Arrive, Request, Quiet
<1>4. ASSUME ReadFailures PROVE CodeInv'
  BY <1>4, QuietStep DEF ReadFailures, Arrive, Request, Quiet
<1>5. ASSUME LoginSucceeds \/ UNCHANGED vars PROVE CodeInv'
  BY <1>5, QuietStep DEF LoginSucceeds, vars
<1>6. ASSUME Tick PROVE CodeInv'
  BY <1>6 DEF Tick, CodeInv, CodesInv, HoldsRow, SendInv, LastMailWorks
<1> QED BY <1>1, <1>2, <1>3, <1>4, <1>5, <1>6, ReadForIssueStep, WriteCodeStep, SendCodeStep,
           ReadForCheckStep, CountAttemptStep DEF Next

--------------------------------------------------------------------------------
(***************************************************************************)
(* The failures: FailuresInv, and what a refusal rests on.                 *)
(***************************************************************************)
LEMMA WithinBoth ==
  ASSUME NEW u, NEW s, NEW t, Within(u, s), Within(s, t) PROVE Within(u, t)
<1>1. PICK h \in [1 .. Len(u) -> 1 .. Len(s)] :
         /\ \A i, j \in 1 .. Len(u) : h[i] = h[j] => i = j
         /\ \A i \in 1 .. Len(u) : u[i] = s[h[i]]
  BY DEF Within
<1>2. PICK g \in [1 .. Len(s) -> 1 .. Len(t)] :
         /\ \A i, j \in 1 .. Len(s) : g[i] = g[j] => i = j
         /\ \A i \in 1 .. Len(s) : s[i] = t[g[i]]
  BY DEF Within
<1> DEFINE k == [i \in 1 .. Len(u) |-> g[h[i]]]
<1>3. k \in [1 .. Len(u) -> 1 .. Len(t)]
  OBVIOUS
<1>4. \A i, j \in 1 .. Len(u) : k[i] = k[j] => i = j
  BY <1>1, <1>2
<1>5. \A i \in 1 .. Len(u) : u[i] = t[k[i]]
  BY <1>1, <1>2
<1> HIDE DEF k
<1> QED BY <1>3, <1>4, <1>5 DEF Within

LEMMA WithinMore ==
  ASSUME NEW T, NEW u \in Seq(T), NEW s \in Seq(T), NEW x \in T, Within(u, s)
  PROVE  Within(u, Append(s, x)) /\ Within(Append(u, x), Append(s, x))
<1> DEFINE n == Len(s)
           k == Len(u)
           v == Append(u, x)
           w == Append(s, x)
<1>1. PICK h \in [1 .. k -> 1 .. n] :
         /\ \A i, j \in 1 .. k : h[i] = h[j] => i = j
         /\ \A i \in 1 .. k : u[i] = s[h[i]]
  BY DEF Within
<1>2. /\ k \in Nat /\ n \in Nat
      /\ Len(v) = k + 1 /\ v[k + 1] = x /\ \A i \in 1 .. k : v[i] = u[i]
      /\ Len(w) = n + 1 /\ w[n + 1] = x /\ \A i \in 1 .. n : w[i] = s[i]
  BY LenProperties
<1> DEFINE g == [i \in 1 .. k + 1 |-> IF i = k + 1 THEN n + 1 ELSE h[i]]
<1>3. h \in [1 .. k -> 1 .. n + 1] /\ g \in [1 .. k + 1 -> 1 .. n + 1]
  BY <1>2
<1>4. ASSUME NEW i \in 1 .. k + 1, NEW j \in 1 .. k + 1, g[i] = g[j] PROVE i = j
  <2>1. \A l \in 1 .. k : h[l] # n + 1
    BY <1>2
  <2> QED BY <1>1, <1>2, <1>4, <2>1
<1>5. ASSUME NEW i \in 1 .. k + 1 PROVE v[i] = w[g[i]]
  <2>1. i = k + 1 \/ i \in 1 .. k
    BY <1>2
  <2> QED BY <1>1, <1>2, <2>1
<1>6. \A i \in 1 .. k : u[i] = w[h[i]]
  BY <1>1, <1>2
<1> HIDE DEF g, v, w
<1>7. Within(u, w)
  BY <1>1, <1>2, <1>3, <1>6 DEF Within
<1>8. Within(v, w)
  <2>1. g \in [1 .. Len(v) -> 1 .. Len(w)]
    BY <1>2, <1>3
  <2>2. \A i, j \in 1 .. Len(v) : g[i] = g[j] => i = j
    BY <1>2, <1>4
  <2>3. \A i \in 1 .. Len(v) : v[i] = w[g[i]]
    BY <1>2, <1>5
  <2> QED BY <2>1, <2>2, <2>3 DEF Within
<1> QED BY <1>7, <1>8 DEF v, w

\* What is recent in the failures is in the tries, and recent there.
LEMMA RecentWithin ==
  ASSUME TypeOK, FailuresInv PROVE Within(Recent(failures), tries)
<1>1. Picked(Recent(failures), failures, Len(failures))
  BY RecentOf DEF TypeOK
<1>2. Within(Recent(failures), failures)
  BY <1>1 DEF Picked, Within
<1> QED BY <1>2, WithinBoth DEF FailuresInv

\* The lists of requests do not touch each other's.
LEMMA SameFailures ==
  ASSUME FailuresInv, UNCHANGED <<failures, tries>>,
         \A s \in requests' : s.stage \in {"refuse", "go"} => s \in requests \/ Within(s.row, tries)
  PROVE  FailuresInv'
<1>1. Within(failures, tries)'
  BY DEF FailuresInv, Within
<1>2. \A s \in requests' : s.stage \in {"refuse", "go"} => Within(s.row, tries')
  BY DEF FailuresInv
<1> QED BY <1>1, <1>2 DEF FailuresInv, Within

LEMMA FailuresStep ==
  ASSUME TypeOK, FailuresInv, [Next]_vars PROVE FailuresInv'
<1>1. ASSUME ReadFailures PROVE FailuresInv'
  <2>1. \A s \in requests' : s \in requests \/ s.row = Recent(failures)
    BY <1>1 DEF ReadFailures, Arrive, Request
  <2>2. UNCHANGED <<failures, tries>>
    BY <1>1 DEF ReadFailures
  <2> QED BY <2>1, <2>2, RecentWithin, SameFailures
<1>2. ASSUME NEW r \in requests, StoreFailures(r) PROVE FailuresInv'
  <2>1. Within(r.row, tries)
    BY <1>2 DEF StoreFailures, FailuresInv
  <2>2. /\ failures' = r.row /\ tries' = tries
        /\ \A s \in requests' : s \in requests \/ s.stage = "record"
    BY <1>2 DEF StoreFailures, Leave, Proceed, Request
  <2>3. \A s \in requests' : s.stage \in {"refuse", "go"} => Within(s.row, tries')
    BY <2>2 DEF FailuresInv
  <2>4. Within(failures', tries')
    BY <2>1, <2>2
  <2> QED BY <2>3, <2>4 DEF FailuresInv, Within
<1>3. ASSUME NEW r \in requests, RecordFailure(r) PROVE FailuresInv'
  <2>1. /\ failures' = Append(failures, now) /\ tries' = Append(tries, now)
        /\ requests' \subseteq requests
    BY <1>3 DEF RecordFailure, Leave
  <2>2. failures \in Seq(0 .. MaxTime) /\ tries \in Seq(0 .. MaxTime) /\ now \in 0 .. MaxTime
    BY DEF TypeOK
  <2>3. Within(failures', tries')
    BY <2>1, <2>2, WithinMore DEF FailuresInv
  <2>4. ASSUME NEW s \in requests', s.stage \in {"refuse", "go"} PROVE Within(s.row, tries')
    <3>1. s.row \in Seq(0 .. MaxTime) /\ Within(s.row, tries)
      BY <2>1, <2>4, StageIs DEF TypeOK, FailuresInv
    <3> QED BY <2>1, <2>2, <3>1, WithinMore
  <2> QED BY <2>3, <2>4 DEF FailuresInv, Within
<1>4. ASSUME LoginSucceeds PROVE FailuresInv'
  <2>1. failures' = <<>> /\ tries' = tries /\ requests' = requests
    BY <1>4 DEF LoginSucceeds
  <2>2. Within(<<>>, tries)
    <3>1. Len(<<>>) = 0 /\ 1 .. 0 = {}
      OBVIOUS
    <3>2. [i \in {} |-> 0] \in [1 .. Len(<<>>) -> 1 .. Len(tries)]
      BY <3>1
    <3> QED BY <3>1, <3>2 DEF Within
  <2>3. Within(failures', tries')
    BY <2>1, <2>2
  <2>4. \A s \in requests' : s.stage \in {"refuse", "go"} => Within(s.row, tries')
    BY <2>1 DEF FailuresInv
  <2> QED BY <2>3, <2>4 DEF FailuresInv, Within
<1>5. ASSUME UNCHANGED <<failures, tries>>,
             \A s \in requests' : s \in requests \/ s.stage \notin {"refuse", "go"}
      PROVE  FailuresInv'
  BY <1>5, SameFailures
<1>6. ASSUME NEW p \in Purposes, ReadForIssue(p) PROVE FailuresInv'
  BY <1>5, <1>6 DEF ReadForIssue, Arrive, Request
<1>7. ASSUME NEW p \in Purposes, NEW op, NEW right \in BOOLEAN, ReadForCheck(op, p, right)
      PROVE  FailuresInv'
  <2>1. \A s \in requests' : s \in requests \/ s.stage \in {"apply", "count"}
    BY <1>7 DEF ReadForCheck, Arrive, Request
  <2>2. UNCHANGED <<failures, tries>>
    BY <1>7 DEF ReadForCheck
  <2> QED BY <1>5, <2>1, <2>2
<1>8. ASSUME NEW email \in BOOLEAN, ReadForKakao(email) PROVE FailuresInv'
  BY <1>5, <1>8 DEF ReadForKakao, Arrive, Request
<1>9. ASSUME NEW r \in requests,
             \/ WriteCode(r) \/ CountAttempt(r) \/ ApplySignup(r) \/ ApplyReset(r)
             \/ CommitRefused(r) \/ CommitKakao(r)
      PROVE  FailuresInv'
  <2>1. UNCHANGED <<failures, tries>>
    BY <1>9 DEF WriteCode, CountAttempt, ApplySignup, ApplyReset, Use, CommitRefused, CommitKakao
  <2>2. WriteCode(r) => \A s \in requests' : s \in requests \/ s.stage = "send"
    BY DEF WriteCode, Proceed, Request
  <2>3. ~WriteCode(r) => requests' \subseteq requests
    BY <1>9 DEF CountAttempt, ApplySignup, ApplyReset, Use, CommitRefused, CommitKakao, Leave
  <2> QED BY <1>5, <2>1, <2>2, <2>3
<1>10. ASSUME NEW r \in requests, NEW sent \in BOOLEAN, SendCode(r, sent) PROVE FailuresInv'
  BY <1>5, <1>10 DEF SendCode, Leave
<1>11. ASSUME Tick \/ UNCHANGED vars PROVE FailuresInv'
  BY <1>5, <1>11 DEF Tick, vars
<1> QED BY <1>1, <1>2, <1>3, <1>4, <1>6, <1>7, <1>8, <1>9, <1>10, <1>11 DEF Next

\* The different positions of recent tries are as many as the elements of the recent list.
LEMMA RecentAreTries ==
  ASSUME TypeOK, FailuresInv
  PROVE  Len(Recent(failures)) <= Cardinality({i \in DOMAIN tries : tries[i] > now - Window})
<1> DEFINE u == Recent(failures)
           k == Len(u)
           C == {i \in DOMAIN tries : tries[i] > now - Window}
<1>1. /\ failures \in Seq(0 .. MaxTime) /\ tries \in Seq(0 .. MaxTime) /\ now \in Int
      /\ Window \in Int
  BY Numbers DEF TypeOK
<1>2. u \in Seq(0 .. MaxTime) /\ Picked(u, failures, Len(failures))
  BY <1>1, RecentOf
<1>3. k \in Nat /\ Len(tries) \in Nat /\ DOMAIN tries = 1 .. Len(tries)
  BY <1>1, <1>2, LenProperties
<1>4. Within(u, tries)
  BY RecentWithin
<1>5. \A i \in 1 .. k : u[i] \in Int /\ now - u[i] < Window
  <2>1. \A i \in 1 .. k : now - u[i] < Window
    BY <1>2 DEF Picked
  <2>2. \A i \in 1 .. k : u[i] \in 0 .. MaxTime
    BY <1>2, ElementOfSeq
  <2> QED BY <2>1, <2>2
<1> HIDE DEF u
<1>6. PICK h \in [1 .. k -> 1 .. Len(tries)] :
         /\ \A i, j \in 1 .. k : h[i] = h[j] => i = j
         /\ \A i \in 1 .. k : u[i] = tries[h[i]]
  BY <1>4 DEF Within
<1>7. h \in [1 .. k -> C]
  <2>1. ASSUME NEW i \in 1 .. k PROVE h[i] \in C
    <3>1. h[i] \in DOMAIN tries /\ tries[h[i]] = u[i]
      BY <1>3, <1>6
    <3>2. u[i] > now - Window
      BY <1>1, <1>5
    <3> QED BY <3>1, <3>2
  <2> HIDE DEF C
  <2> QED BY <1>6, <2>1
<1>8. IsFiniteSet(C)
  <2>1. IsFiniteSet(DOMAIN tries)
    BY <1>3, FS_Interval
  <2> QED BY <2>1, FS_Subset
<1> HIDE DEF C
<1>9. Cardinality(1 .. k) <= Cardinality(C)
  <2>1. h \in Injection(1 .. k, C)
    BY <1>6, <1>7 DEF Injection, IsInjective
  <2> QED BY <1>8, <2>1, FS_Injection
<1>10. Cardinality(1 .. k) = k
  <2> HIDE DEF k
  <2>1. Cardinality(1 .. k) = IF 1 > k THEN 0 ELSE k - 1 + 1
    BY <1>3, FS_Interval
  <2> QED BY <1>3, <2>1
<1> QED BY <1>9, <1>10 DEF C, u

LEMMA RefusalStep ==
  ASSUME TypeOK, FailuresInv, [Next]_vars, NEW r \in requests' \ requests, r.stage = "refuse"
  PROVE  Cardinality({i \in DOMAIN tries : tries[i] > now - Window}) >= MaxLogins
<1>1. ReadFailures
  <2>1. ASSUME NEW p \in Purposes, ReadForIssue(p) PROVE FALSE
    BY <2>1 DEF ReadForIssue, Arrive, Request
  <2>2. ASSUME NEW p \in Purposes, NEW op, NEW right \in BOOLEAN, ReadForCheck(op, p, right)
        PROVE  FALSE
    <3>1. r.stage \in {"apply", "count"}
      BY <2>2 DEF ReadForCheck, Arrive, Request
    <3> QED BY <3>1
  <2>3. ASSUME NEW email \in BOOLEAN, ReadForKakao(email) PROVE FALSE
    BY <2>3 DEF ReadForKakao, Arrive, Request
  <2>4. ASSUME NEW s \in requests, WriteCode(s) \/ StoreFailures(s) PROVE FALSE
    <3>1. r.stage \in {"send", "record"}
      BY <2>4 DEF WriteCode, StoreFailures, Proceed, Leave, Request
    <3> QED BY <3>1
  <2>5. ASSUME requests' \subseteq requests PROVE FALSE
    BY <2>5
  <2>6. ASSUME NEW s \in requests,
               \/ CountAttempt(s) \/ ApplySignup(s) \/ ApplyReset(s) \/ CommitRefused(s)
               \/ CommitKakao(s) \/ RecordFailure(s) \/ \E sent \in BOOLEAN : SendCode(s, sent)
        PROVE  FALSE
    <3>1. Leave(s)
      BY <2>6 DEF CountAttempt, ApplySignup, ApplyReset, Use, CommitRefused, CommitKakao,
                  RecordFailure, SendCode
    <3> QED BY <2>5, <3>1 DEF Leave
  <2>7. ASSUME LoginSucceeds \/ Tick \/ UNCHANGED vars PROVE FALSE
    BY <2>5, <2>7 DEF LoginSucceeds, Tick, vars
  <2> QED BY <2>1, <2>2, <2>3, <2>4, <2>6, <2>7 DEF Next
<1>2. Len(Recent(failures)) >= MaxLogins
  BY <1>1 DEF ReadFailures, Arrive, Request
<1> DEFINE C == {i \in DOMAIN tries : tries[i] > now - Window}
<1>3. Len(Recent(failures)) <= Cardinality(C)
  BY RecentAreTries
<1>4. Len(Recent(failures)) \in Nat /\ Cardinality(C) \in Nat
  <2>1. Recent(failures) \in Seq(0 .. MaxTime)
    BY RecentOf DEF TypeOK
  <2>2. IsFiniteSet(DOMAIN tries)
    <3>1. tries \in Seq(0 .. MaxTime)
      BY DEF TypeOK
    <3>2. Len(tries) \in Nat /\ DOMAIN tries = 1 .. Len(tries)
      BY <3>1, LenProperties
    <3> QED BY <3>2, FS_Interval
  <2>3. IsFiniteSet(C)
    BY <2>2, FS_Subset
  <2>4. Cardinality(C) \in Nat
    BY <2>3, FS_CardinalityType
  <2> QED BY <2>1, <2>4, LenProperties
<1> HIDE DEF C
<1>5. Cardinality(C) >= MaxLogins
  BY <1>2, <1>3, <1>4, Numbers
<1> QED BY <1>5 DEF C

--------------------------------------------------------------------------------
(***************************************************************************)
(* The invariant and what follows from it.                                 *)
(***************************************************************************)
AccountsInv ==
  TypeOK /\ RequestsOK(requests) /\ UsersOK(users) /\ CodeInv /\ FailuresInv

LEMMA InitAccounts == Init => AccountsInv
<1> SUFFICES ASSUME Init PROVE AccountsInv
  OBVIOUS
<1>1. RequestsOK(requests) /\ IsFiniteSet(users)
  BY FS_EmptySet DEF Init, RequestsOK
<1>2. UsersOK(users)
  BY <1>1 DEF Init, UsersOK
<1>3. TypeOK
  <2>1. 0 \in 0 .. MaxTime /\ 0 \in 0 .. MaxIssues
    BY Numbers
  <2>2. <<>> \in Seq(0 .. MaxTime)
    OBVIOUS
  <2> QED BY <1>1, <2>1, <2>2 DEF Init, TypeOK, RequestsOK
<1>4. CodeInv
  BY DEF Init, CodeInv, CodesInv, SendInv, LastMailWorks
<1>5. FailuresInv
  <2>1. Len(<<>>) = 0 /\ 1 .. 0 = {}
    OBVIOUS
  <2>2. [i \in {} |-> 0] \in [1 .. Len(<<>>) -> 1 .. Len(<<>>)]
    BY <2>1
  <2>3. Within(<<>>, <<>>)
    BY <2>1, <2>2 DEF Within
  <2> QED BY <2>3 DEF Init, FailuresInv
<1> QED BY <1>1, <1>2, <1>3, <1>4, <1>5 DEF AccountsInv

LEMMA AccountsStep ==
  ASSUME AccountsInv, [Next]_vars PROVE AccountsInv'
<1>1. UsersOK(users)'
  BY UsersStep DEF AccountsInv
<1>2. TypeOK' /\ RequestsOK(requests)'
  BY AccountsTypeStep DEF AccountsInv
<1>3. CodeInv'
  BY CodeStep DEF AccountsInv
<1>4. FailuresInv'
  BY FailuresStep DEF AccountsInv
<1> QED BY <1>1, <1>2, <1>3, <1>4 DEF AccountsInv

LEMMA AccountsInvariant == Spec => []AccountsInv
BY InitAccounts, AccountsStep, PTL DEF Spec

\* However sign-ups, resets and Kakao logins race, everybody in users has a password or an
\* identity, and no address and no identity is held twice: the two unique indexes and the single
\* commit of user and identity (auth.py, kakao_callback and signup) are enough.
THEOREM NobodyIsLockedOut == Spec => []UsersCanReturn
<1>1. AccountsInv => UsersCanReturn
  BY DEF AccountsInv, UsersOK, UsersCanReturn
<1> QED BY <1>1, AccountsInvariant, PTL

\* The code that the last mail brought is the stored one with the attempts it should have, unless
\* two requests wrote to the row across each other: the row is stored before the mail is sent, and
\* the cool-down keeps a second issue away until it is.
THEOREM LastMailWorksHolds == Spec => []LastMailWorks
<1>1. AccountsInv => LastMailWorks
  BY DEF AccountsInv, CodeInv
<1> QED BY <1>1, AccountsInvariant, PTL

\* A login is refused only after as many failures as allowed in the last minutes, though requests
\* overwrite each other's lists: each list holds each failure at most once.
THEOREM RefusalHasCauseHolds == Spec => RefusalHasCause
<1>1. AccountsInv /\ [Next]_vars =>
        [\A r \in requests' \ requests :
           r.stage = "refuse" =>
             Cardinality({i \in DOMAIN tries : tries[i] > now - Window}) >= MaxLogins]_vars
  BY RefusalStep DEF AccountsInv
<1> QED BY <1>1, AccountsInvariant, PTL DEF Spec, RefusalHasCause
================================================================================
