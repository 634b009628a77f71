---------------------------- MODULE AccountsProofs ---------------------------
(***************************************************************************)
(* Theorems about Accounts for every number of addresses, profiles,        *)
(* tokens, sessions and requests in flight, checked by TLAPS.              *)
(***************************************************************************)
EXTENDS Accounts, FiniteSetTheorems, TLAPS

\* What a request in flight has read still holds, except where the module says
\* it may not: accounts stay, the password a sign-in or refresh proved is the
\* present one unless it was set meanwhile, and so is the status that an
\* invitation read, or else the account was created meanwhile.
Sound(k) ==
  /\ k.op \notin {"idle", "store"} => k.who \in Emails
  /\ k.op \in {"issue", "rotate", "accept", "reset"} => Exists(k.who)
  /\ k.op \in {"issue", "rotate"} => k.raced \/ k.epoch = account[k.who].epoch
  /\ k.op \in {"store", "rotate"} => k.what \in Sessions /\ session[k.what].who \in Emails
  /\ k.op \in {"accept", "reset"} => k.what \in Tokens
  /\ k.op \in {"invite", "link"} => k.what \in Profiles /\ k.who = EmailOf[k.what]
  /\ k.op = "invite" /\ ~k.raced =>
       \/ k.saw = account[k.who].status
       \/ k.saw = "NONE" /\ Exists(k.who)

\* Once a token is used, its spare covers every request that still holds it.
TokenSound(t) ==
  /\ token[t].who # None => Exists(token[t].who)
  /\ token[t].spare >= 0
  /\ token[t].used => token[t].spare >= Cardinality(Holding(t, {"accept", "reset"}))

SessionSound(s) ==
  /\ session[s].who # None => Exists(session[s].who)
  /\ session[s].hash = "stored" => session[s].who # None
  /\ Live(s) => session[s].raced \/ session[s].epoch = account[session[s].who].epoch
  /\ session[s].spare >= 0
  /\ session[s].revoked => session[s].spare >= Cardinality(Holding(s, {"rotate"}))

AccountSound(e) == account[e].epoch > 0 \/ account[e].role # "NONE" => Exists(e)

\* The state the steps keep, but for the profiles' links.
Core ==
  /\ TypeOK
  /\ \A r \in Requests : Sound(request[r])
  /\ \A t \in Tokens : TokenSound(t)
  /\ \A s \in Sessions : SessionSound(s)
  /\ \A e \in Emails : AccountSound(e)

AccountsInv == Core /\ UnlinkedOnlyWhenCut

-----------------------------------------------------------------------------
\* The requests that hold a row are finitely many.
LEMMA HoldingFinite ==
  ASSUME NEW x, NEW ops
  PROVE  IsFiniteSet(Holding(x, ops)) /\ Cardinality(Holding(x, ops)) \in Nat
  <1>1. Holding(x, ops) \subseteq Requests
    BY DEF Holding
  <1>2. QED
    BY <1>1, AccountsAssumption, FS_Subset, FS_CardinalityType

\* A step after which nobody new holds a row.
LEMMA HoldingKept ==
  ASSUME NEW x, NEW ops,
         \A q \in Requests : request'[q].op \in ops /\ request'[q].what = x
           => request[q].op \in ops /\ request[q].what = x
  PROVE  /\ Cardinality(Holding(x, ops)') \in Nat
         /\ Cardinality(Holding(x, ops)') <= Cardinality(Holding(x, ops))
  <1>1. Holding(x, ops)' \subseteq Holding(x, ops)
    BY DEF Holding
  <1>2. QED
    BY <1>1, HoldingFinite, FS_Subset, FS_CardinalityType

\* A step after which one request holds it no more.
LEMMA HoldingLoses ==
  ASSUME NEW x, NEW ops, NEW r \in Requests,
         request[r].op \in ops, request[r].what = x, request'[r].op \notin ops,
         \A q \in Requests : request'[q].op \in ops /\ request'[q].what = x
           => request[q].op \in ops /\ request[q].what = x
  PROVE  /\ Cardinality(Holding(x, ops)') \in Nat
         /\ Cardinality(Holding(x, ops)') + 1 <= Cardinality(Holding(x, ops))
  <1>1. r \in Holding(x, ops) /\ Holding(x, ops)' \subseteq Holding(x, ops) \ {r}
    BY DEF Holding
  <1>2. /\ IsFiniteSet(Holding(x, ops) \ {r})
        /\ Cardinality(Holding(x, ops) \ {r}) = Cardinality(Holding(x, ops)) - 1
    BY <1>1, HoldingFinite, FS_RemoveElement
  <1>3. /\ Cardinality(Holding(x, ops)') \in Nat
        /\ Cardinality(Holding(x, ops)') <= Cardinality(Holding(x, ops) \ {r})
    BY <1>1, <1>2, FS_Subset, FS_CardinalityType
  <1>4. QED
    BY <1>2, <1>3, HoldingFinite

\* Closing a token lets exactly those through that hold it, or fewer.
LEMMA UseFacts ==
  ASSUME TypeOK, NEW t \in Tokens, TokenSound(t)
  PROVE  LET u == UseToken(t)
             n == Cardinality(Holding(t, {"accept", "reset"})) IN
         /\ u \in Token /\ u.who = token[t].who /\ u.used
         /\ u.spare >= n /\ u.spare >= 0 /\ u.spare \in Int /\ n \in Nat
  <1> DEFINE n == Cardinality(Holding(t, {"accept", "reset"}))
  <1>1. n \in Nat
    BY HoldingFinite
  <1>2. token[t] \in Token
    BY DEF TypeOK
  <1>3. PICK k \in Token : k = token[t]
    BY <1>2
  <1>4. /\ UseToken(t) = IF k.used THEN k ELSE [k EXCEPT !.used = TRUE, !.spare = n]
        /\ k.spare >= 0 /\ (k.used => k.spare >= n)
    BY <1>3 DEF UseToken, TokenSound
  <1> HIDE DEF n
  <1>5. n \in Int => [k EXCEPT !.used = TRUE, !.spare = n] \in Token
    BY <1>2, <1>3 DEF Token
  <1>6. CASE k.used
    BY <1>1, <1>2, <1>3, <1>4, <1>6 DEF Token, n
  <1>7. CASE ~k.used
    <2> DEFINE u == [k EXCEPT !.used = TRUE, !.spare = n]
    <2>1. u.who = k.who /\ u.used /\ u.spare = n
      BY <1>2, <1>3 DEF Token
    <2>2. UseToken(t) = u
      BY <1>4, <1>7
    <2> HIDE DEF u
    <2>3. QED
      BY <1>1, <1>3, <1>5, <2>1, <2>2 DEF n, u
  <1>8. QED
    BY <1>6, <1>7

\* So does revoking a session.
LEMMA RevokeFacts ==
  ASSUME TypeOK, NEW s \in Sessions, SessionSound(s)
  PROVE  LET u == Revoke(s)
             n == Cardinality(Holding(s, {"rotate"})) IN
         /\ u \in Session /\ u.who = session[s].who /\ u.hash = session[s].hash
         /\ u.revoked /\ u.spare >= n /\ u.spare >= 0 /\ u.spare \in Int /\ n \in Nat
  <1>1. Cardinality(Holding(s, {"rotate"})) \in Nat
    BY HoldingFinite
  <1>2. session[s] \in Session /\ 0 \in 0..MaxEpoch
    BY AccountsAssumption DEF TypeOK
  <1>3. CASE session[s].revoked
    <2>1. Revoke(s) = session[s]
      BY <1>3 DEF Revoke
    <2>2. QED
      BY <1>1, <1>2, <1>3, <2>1 DEF SessionSound, Session
  <1>4. CASE ~session[s].revoked
    <2> DEFINE n == Cardinality(Holding(s, {"rotate"}))
               after(k) == [k EXCEPT !.revoked = TRUE, !.epoch = 0, !.raced = FALSE,
                                     !.spare = n]
    <2>1. PICK k \in Session : k = session[s]
      BY <1>2
    <2>2. Revoke(s) = after(k)
      BY <1>4, <2>1 DEF Revoke
    <2> HIDE DEF n
    <2>3. n \in Int => after(k) \in Session
      BY <1>2, <2>1 DEF Session
    <2>4. /\ after(k).who = k.who /\ after(k).hash = k.hash
          /\ after(k).revoked /\ after(k).spare = n
      BY <1>2, <2>1 DEF Session
    <2> HIDE DEF after
    <2>5. QED
      BY <1>1, <2>1, <2>2, <2>3, <2>4 DEF n
  <1>5. QED
    BY <1>3, <1>4

\* Marking requests as raced changes nothing else about them.
LEMMA RacedFacts ==
  ASSUME TypeOK, NEW e, NEW ops, NEW q \in Requests
  PROVE  LET k == Raced(e, ops)[q] IN
         /\ k \in Request /\ k.op = request[q].op /\ k.who = request[q].who
         /\ k.what = request[q].what /\ k.epoch = request[q].epoch /\ k.saw = request[q].saw
         /\ k.raced <=> request[q].raced \/ (request[q].who = e /\ request[q].op \in ops)
  <1>1. request[q] \in Request
    BY DEF TypeOK
  <1>2. CASE request[q].who = e /\ request[q].op \in ops
    <2>1. PICK k : k = request[q]
      OBVIOUS
    <2>2. Raced(e, ops)[q] = [k EXCEPT !.raced = TRUE]
      BY <1>2, <2>1 DEF Raced
    <2>3. /\ [k EXCEPT !.raced = TRUE] \in Request
          /\ [k EXCEPT !.raced = TRUE].raced
      BY <1>1, <2>1 DEF Request
    <2>4. QED
      BY <1>1, <1>2, <2>1, <2>2, <2>3 DEF Request
  <1>3. CASE ~(request[q].who = e /\ request[q].op \in ops)
    <2>1. Raced(e, ops)[q] = request[q]
      BY <1>3 DEF Raced
    <2>2. QED
      BY <1>1, <1>3, <2>1
  <1>4. QED
    BY <1>2, <1>3

-----------------------------------------------------------------------------
\* What keeps a request sound: accounts and sessions stay, and it is raced when
\* the password, or the status, that it read is written.
LEMMA SoundKept ==
  ASSUME NEW k, Sound(k),
         k.op \notin {"idle", "store"} /\ Exists(k.who) => Exists(k.who)',
         k.op \in {"issue", "rotate"} =>
           k.raced \/ account'[k.who].epoch = account[k.who].epoch,
         k.op = "invite" /\ ~k.raced =>
           \/ account'[k.who].status = account[k.who].status
           \/ ~Exists(k.who) /\ Exists(k.who)',
         \A s \in Sessions : session[s].who \in Emails => session'[s].who = session[s].who
  PROVE  Sound(k)'
  BY DEF Sound, Exists

\* What keeps a token sound that is not written.
LEMMA TokenKept ==
  ASSUME TypeOK, NEW t \in Tokens, TokenSound(t), token'[t] = token[t],
         \A e \in Emails : Exists(e) => Exists(e)',
         \A q \in Requests : token[t].used =>
           (request'[q].op \in {"accept", "reset"} /\ request'[q].what = t
              => request[q].op \in {"accept", "reset"} /\ request[q].what = t)
  PROVE  TokenSound(t)'
  <1>1. token[t].who \in Emails \cup {None} /\ token[t].spare \in Int
    BY DEF TypeOK, Token
  <1>2. token[t].used => /\ Cardinality(Holding(t, {"accept", "reset"})') \in Nat
                         /\ Cardinality(Holding(t, {"accept", "reset"})')
                              <= Cardinality(Holding(t, {"accept", "reset"}))
    BY HoldingKept
  <1>3. QED
    BY <1>1, <1>2, HoldingFinite DEF TokenSound

\* What keeps a session sound that is not written.
LEMMA SessionKept ==
  ASSUME TypeOK, NEW s \in Sessions, SessionSound(s), session'[s] = session[s],
         \A e \in Emails : Exists(e) => Exists(e)',
         Live(s) => session[s].raced
                      \/ account'[session[s].who].epoch = account[session[s].who].epoch,
         \A q \in Requests : session[s].revoked =>
           (request'[q].op = "rotate" /\ request'[q].what = s
              => request[q].op = "rotate" /\ request[q].what = s)
  PROVE  SessionSound(s)'
  <1>1. session[s].who \in Emails \cup {None} /\ session[s].spare \in Int
    BY DEF TypeOK, Session
  <1>2. session[s].revoked => /\ Cardinality(Holding(s, {"rotate"})') \in Nat
                              /\ Cardinality(Holding(s, {"rotate"})')
                                   <= Cardinality(Holding(s, {"rotate"}))
    BY HoldingKept
  <1>3. QED
    BY <1>1, <1>2, HoldingFinite DEF SessionSound, Live

\* What keeps the profiles' links: nobody who is to link one goes away.
LEMMA LinksKept ==
  ASSUME UnlinkedOnlyWhenCut, UNCHANGED <<linked, invited>>,
         \A q \in Requests : request[q].op = "link" =>
           request'[q].op = "link" /\ request'[q].what = request[q].what
  PROVE  UnlinkedOnlyWhenCut'
  BY DEF UnlinkedOnlyWhenCut, Holding

-----------------------------------------------------------------------------
\* One request moves on, and no row is written: it must be sound, and hold no
\* row that is closed already.
LEMMA OneRequest ==
  ASSUME Core, NEW r \in Requests, NEW k \in Request,
         request' = [request EXCEPT ![r] = k], Sound(k),
         UNCHANGED <<account, token, session>>,
         k.op \in {"accept", "reset"} => ~token[k.what].used,
         k.op = "rotate" => ~session[k.what].revoked,
         linked' \in [Profiles -> Emails \cup {None}],
         invited' \in [Profiles -> {"no", "yes", "cut"}]
  PROVE  Core'
  <1>1. request'[r] = k /\ \A q \in Requests : q # r => request'[q] = request[q]
    BY DEF Core, TypeOK
  <1>2. TypeOK'
    BY DEF Core, TypeOK
  <1>3. \A q \in Requests : Sound(request[q])'
    <2> SUFFICES ASSUME NEW q \in Requests PROVE Sound(request[q])'
      OBVIOUS
    <2>1. Sound(request'[q])
      BY <1>1 DEF Core
    <2>2. QED
      BY <2>1 DEF Sound, Exists
  <1>4. ASSUME NEW t \in Tokens PROVE TokenSound(t)'
    BY <1>1, TokenKept DEF Core, Exists
  <1>5. ASSUME NEW s \in Sessions PROVE SessionSound(s)'
    BY <1>1, SessionKept DEF Core, Exists
  <1>6. \A e \in Emails : AccountSound(e)'
    BY DEF Core, AccountSound, Exists
  <1>7. QED
    BY <1>2, <1>3, <1>4, <1>5, <1>6 DEF Core

\* Requests that come in: what each has read is sound at that moment.
LEMMA ReceiveStep ==
  ASSUME AccountsInv, NEW r \in Requests,
         \/ \E e \in Emails : SignUp(r, e) \/ CreateUserBegin(r, e) \/ SignIn(r, e)
         \/ \E s \in Sessions : Refresh(r, s)
         \/ \E t \in Tokens : AcceptInvite(r, t) \/ ResetPassword(r, t)
         \/ \E p \in Profiles : Invite(r, p)
  PROVE  AccountsInv'
  <1>1. Core /\ TypeOK /\ 0 \in 0..MaxEpoch
    BY AccountsAssumption DEF AccountsInv, Core
  <1>2. ASSUME NEW k \in Request, Sound(k), Receive(r, k),
               UNCHANGED <<account, linked, token, session, invited>>,
               k.op \in {"accept", "reset"} => ~token[k.what].used,
               k.op = "rotate" => ~session[k.what].revoked
        PROVE  AccountsInv'
    <2>1. request[r] = Idle /\ request' = [request EXCEPT ![r] = k]
      BY <1>2 DEF Receive
    <2>2. Core'
      BY <1>1, <1>2, <2>1, OneRequest DEF TypeOK
    <2>3. UnlinkedOnlyWhenCut'
      BY <1>1, <1>2, <2>1, LinksKept DEF TypeOK, Idle, AccountsInv
    <2>4. QED
      BY <2>2, <2>3 DEF AccountsInv
  <1>3. ASSUME NEW e \in Emails, SignUp(r, e)
        PROVE  AccountsInv'
    <2> DEFINE k == [Idle EXCEPT !.op = "signUp", !.who = e]
    <2>1. k \in Request /\ Sound(k) /\ k.op = "signUp"
      BY <1>1 DEF Idle, Request, Status, Sound
    <2>2. QED
      BY <1>2, <1>3, <2>1 DEF SignUp
  <1>4. ASSUME NEW e \in Emails, CreateUserBegin(r, e)
        PROVE  AccountsInv'
    <2> DEFINE k == [Idle EXCEPT !.op = "create", !.who = e]
    <2>1. k \in Request /\ Sound(k) /\ k.op = "create"
      BY <1>1 DEF Idle, Request, Status, Sound
    <2>2. QED
      BY <1>2, <1>4, <2>1 DEF CreateUserBegin
  <1>5. ASSUME NEW e \in Emails, SignIn(r, e)
        PROVE  AccountsInv'
    <2> DEFINE k == [Idle EXCEPT !.op = "issue", !.who = e, !.epoch = account[e].epoch]
    <2>1. account[e].epoch \in 0..MaxEpoch /\ Exists(e)
      BY <1>1, <1>5 DEF SignIn, Core, AccountSound, TypeOK, Account
    <2>2. k \in Request /\ Sound(k) /\ k.op = "issue"
      BY <2>1 DEF Idle, Request, Status, Sound
    <2>3. QED
      BY <1>2, <1>5, <2>2 DEF SignIn
  <1>6. ASSUME NEW s \in Sessions, Refresh(r, s)
        PROVE  AccountsInv'
    <2> DEFINE op == IF session[s].revoked THEN "punish" ELSE "rotate"
               k == [Idle EXCEPT !.op = op, !.who = session[s].who, !.what = s,
                                 !.epoch = session[s].epoch, !.raced = session[s].raced]
    <2>1. /\ session[s] \in Session /\ session[s].who \in Emails /\ Exists(session[s].who)
          /\ ~session[s].revoked => Live(s)
          /\ Live(s) => session[s].raced \/ session[s].epoch = account[session[s].who].epoch
      BY <1>1, <1>6 DEF Refresh, Core, SessionSound, TypeOK, Session, Live
    <2>2. /\ k \in Request /\ k.op = op /\ k.who = session[s].who /\ k.what = s
          /\ k.epoch = session[s].epoch /\ k.raced = session[s].raced
      BY <2>1 DEF Idle, Request, Status, Session
    <2>3. Receive(r, k) /\ UNCHANGED <<account, linked, token, session, invited>>
      BY <1>6 DEF Refresh
    <2> HIDE DEF k
    <2>4. Sound(k)
      BY <2>1, <2>2 DEF Sound
    <2>5. QED
      BY <1>2, <2>2, <2>3, <2>4
  <1>7. ASSUME NEW t \in Tokens, NEW op \in {"accept", "reset"}, Open(t),
               Receive(r, [Idle EXCEPT !.op = op, !.who = token[t].who, !.what = t]),
               UNCHANGED <<account, linked, token, session, invited>>
        PROVE  AccountsInv'
    <2> DEFINE k == [Idle EXCEPT !.op = op, !.who = token[t].who, !.what = t]
    <2>1. token[t].who \in Emails /\ Exists(token[t].who) /\ ~token[t].used
      BY <1>1, <1>7 DEF Open, Core, TokenSound, TypeOK, Token
    <2>2. k \in Request /\ k.op = op /\ k.who = token[t].who /\ k.what = t
      BY <1>1, <2>1 DEF Idle, Request, Status
    <2>3. Sound(k)
      BY <2>1, <2>2 DEF Sound
    <2> HIDE DEF k
    <2>4. QED
      BY <1>2, <1>7, <2>1, <2>2, <2>3 DEF k
  <1>8. ASSUME NEW p \in Profiles, Invite(r, p)
        PROVE  AccountsInv'
    <2> DEFINE k == [Idle EXCEPT !.op = "invite", !.who = EmailOf[p], !.what = p,
                                 !.saw = account[EmailOf[p]].status]
    <2>1. EmailOf[p] \in Emails /\ account[EmailOf[p]].status \in Status
      BY <1>1, AccountsAssumption DEF TypeOK, Account
    <2>2. k \in Request /\ Sound(k) /\ k.op = "invite"
      BY <1>1, <2>1 DEF Idle, Request, Sound
    <2>3. QED
      BY <1>2, <1>8, <2>2 DEF Invite
  <1>9. QED
    BY <1>3, <1>4, <1>5, <1>6, <1>7, <1>8 DEF AcceptInvite, ResetPassword

-----------------------------------------------------------------------------
\* One request is answered, or dies, and no row is written.
LEMMA AnswerStep ==
  ASSUME Core, NEW r \in Requests, Answer(r), UNCHANGED <<account, token, session>>,
         linked' \in [Profiles -> Emails \cup {None}],
         invited' \in [Profiles -> {"no", "yes", "cut"}]
  PROVE  Core'
  <1>1. Idle \in Request /\ Idle.op = "idle"
    BY AccountsAssumption DEF Idle, Request, Status
  <1>2. Sound(Idle)
    BY <1>1 DEF Sound
  <1>3. QED
    BY <1>1, <1>2, OneRequest DEF Answer

\* The request answered had no profile to link.
LEMMA AnswerLinks ==
  ASSUME AccountsInv, NEW r \in Requests, Answer(r), request[r].op # "link",
         UNCHANGED <<linked, invited>>
  PROVE  UnlinkedOnlyWhenCut'
  <1>1. \A q \in Requests : q # r => request'[q] = request[q]
    BY DEF Answer, AccountsInv, Core, TypeOK
  <1>2. QED
    BY <1>1, LinksKept DEF AccountsInv

\* The requests that are refused.
LEMMA RefusedStep ==
  ASSUME AccountsInv, NEW r \in Requests,
         \/ CreateOwner(r) /\ Exists(request[r].who)
         \/ CreateUserCommit(r) /\ Exists(request[r].who)
         \/ InviteConflict(r)
  PROVE  AccountsInv'
  <1>1. /\ Answer(r) /\ request[r].op # "link"
        /\ UNCHANGED <<account, linked, token, session, invited>>
    BY DEF CreateOwner, CreateUserCommit, InviteConflict
  <1>2. Core'
    BY <1>1, AnswerStep DEF AccountsInv, Core, TypeOK
  <1>3. UnlinkedOnlyWhenCut'
    BY <1>1, AnswerLinks
  <1>4. QED
    BY <1>2, <1>3 DEF AccountsInv

\* An invitation whose request dies before the link is cut.
LEMMA DieStep ==
  ASSUME AccountsInv, NEW r \in Requests, Die(r)
  PROVE  AccountsInv'
  <1>1. Answer(r) /\ UNCHANGED <<account, linked, token, session>> /\ Core /\ Sound(request[r])
    BY DEF Die, AccountsInv, Core
  <1>2. request' = [request EXCEPT ![r] = Idle] /\ TypeOK /\ UnlinkedOnlyWhenCut
    BY <1>1 DEF Answer, Core, AccountsInv
  <1>3. CASE request[r].op # "link"
    <2>1. UNCHANGED invited
      BY <1>3 DEF Die
    <2>2. Core'
      BY <1>1, <1>2, <2>1, AnswerStep DEF TypeOK
    <2>3. QED
      BY <1>1, <1>3, <2>1, <2>2, AnswerLinks DEF AccountsInv
  <1>4. CASE request[r].op = "link"
    <2>1. PICK p \in Profiles : p = request[r].what
      BY <1>1, <1>4 DEF Sound
    <2>2. invited' = [invited EXCEPT ![p] = "cut"]
      BY <1>4, <2>1 DEF Die
    <2>3. Core'
      BY <1>1, <1>2, <2>2, AnswerStep DEF TypeOK
    <2>4. ASSUME NEW o \in Profiles, invited'[o] = "yes", linked'[o] # EmailOf[o]
          PROVE  Holding(o, {"link"})' # {}
      <3>1. o # p /\ invited[o] = "yes"
        BY <1>2, <2>2, <2>4 DEF TypeOK
      <3>2. PICK q \in Requests : request[q].op = "link" /\ request[q].what = o
        BY <1>1, <1>2, <2>4, <3>1 DEF UnlinkedOnlyWhenCut, Holding
      <3>3. q # r /\ request'[q] = request[q]
        BY <1>2, <2>1, <3>1, <3>2 DEF TypeOK
      <3>4. QED
        BY <3>2, <3>3 DEF Holding
    <2>5. QED
      BY <2>3, <2>4 DEF AccountsInv, UnlinkedOnlyWhenCut
  <1>5. QED
    BY <1>3, <1>4

\* The profile is linked, or the link is refused and the invitation cut.
LEMMA LinkStep ==
  ASSUME AccountsInv, NEW r \in Requests, LinkProfile(r)
  PROVE  AccountsInv'
  <1>1. /\ Answer(r) /\ UNCHANGED <<account, token, session>> /\ request[r].op = "link"
        /\ Core /\ TypeOK /\ Sound(request[r])
    BY DEF LinkProfile, AccountsInv, Core
  <1>2. request' = [request EXCEPT ![r] = Idle] /\ UnlinkedOnlyWhenCut
    BY <1>1 DEF Answer, AccountsInv
  <1>3. PICK p \in Profiles : p = request[r].what
    BY <1>1 DEF Sound
  <1>4. PICK e \in Emails : e = request[r].who /\ e = EmailOf[p]
    BY <1>1, <1>3 DEF Sound
  <1>5. \/ linked' = [linked EXCEPT ![p] = e] /\ invited' = invited
        \/ invited' = [invited EXCEPT ![p] = "cut"] /\ linked' = linked
    BY <1>3, <1>4 DEF LinkProfile
  <1>6. Core'
    <2>1. /\ linked' \in [Profiles -> Emails \cup {None}]
          /\ invited' \in [Profiles -> {"no", "yes", "cut"}]
      BY <1>1, <1>5 DEF TypeOK
    <2>2. QED
      BY <1>1, <2>1, AnswerStep
  <1>7. ASSUME NEW o \in Profiles, invited'[o] = "yes", linked'[o] # EmailOf[o]
        PROVE  Holding(o, {"link"})' # {}
    <2>1. o # p /\ invited[o] = "yes" /\ linked[o] # EmailOf[o]
      BY <1>1, <1>4, <1>5, <1>7 DEF TypeOK
    <2>2. PICK q \in Requests : request[q].op = "link" /\ request[q].what = o
      BY <1>2, <2>1 DEF UnlinkedOnlyWhenCut, Holding
    <2>3. q # r /\ request'[q] = request[q]
      BY <1>1, <1>2, <1>3, <2>1, <2>2 DEF TypeOK
    <2>4. QED
      BY <2>2, <2>3 DEF Holding
  <1>8. QED
    BY <1>6, <1>7 DEF AccountsInv, UnlinkedOnlyWhenCut

-----------------------------------------------------------------------------
\* One account is written, its password only when it is created.
LEMMA AccountWritten ==
  ASSUME Core, NEW e \in Emails, NEW a \in Account, a.status # "NONE",
         account' = [account EXCEPT ![e] = a],
         Exists(e) => a.epoch = account[e].epoch,
         request' \in [Requests -> Request], \A q \in Requests : Sound(request[q])',
         \A q \in Requests : request'[q].op \in {"accept", "reset", "rotate"} =>
           request[q].op = request'[q].op /\ request[q].what = request'[q].what,
         UNCHANGED <<linked, token, session, invited>>
  PROVE  Core'
  <1>1. TypeOK'
    BY DEF Core, TypeOK
  <1>2. /\ \A f \in Emails : Exists(f) => Exists(f)'
        /\ \A f \in Emails : Exists(f) => account'[f].epoch = account[f].epoch
    BY DEF Core, TypeOK, Exists
  <1>3. \A f \in Emails : AccountSound(f)'
    BY DEF Core, TypeOK, Exists, AccountSound
  <1>4. ASSUME NEW t \in Tokens PROVE TokenSound(t)'
    BY <1>2, TokenKept DEF Core
  <1>5. ASSUME NEW s \in Sessions PROVE SessionSound(s)'
    <2>1. session[s].who \in Emails \cup {None} /\ SessionSound(s)
      BY DEF Core, TypeOK, Session
    <2>2. Live(s) => account'[session[s].who].epoch = account[session[s].who].epoch
      BY <1>2, <2>1 DEF SessionSound, Live
    <2>3. QED
      BY <1>2, <2>1, <2>2, SessionKept DEF Core
  <1>6. QED
    BY <1>1, <1>3, <1>4, <1>5 DEF Core

\* A new account: no session, sign-in or token knew it.
LEMMA CreateStep ==
  ASSUME AccountsInv, NEW r \in Requests, CreateOwner(r) \/ CreateUserCommit(r),
         ~Exists(request[r].who)
  PROVE  AccountsInv'
  <1>1. Core /\ TypeOK /\ Sound(request[r]) /\ request[r].op \in {"signUp", "create"}
    BY DEF AccountsInv, Core, CreateOwner, CreateUserCommit
  <1>2. PICK e \in Emails : e = request[r].who
    BY <1>1 DEF Sound
  <1>3. PICK role \in Role :
          account' = [account EXCEPT ![e] = [status |-> "ACTIVE", role |-> role, epoch |-> 1]]
    BY <1>2 DEF CreateOwner, CreateUserCommit, Role
  <1>4. PICK a : a = [status |-> "ACTIVE", role |-> role, epoch |-> 1]
    OBVIOUS
  <1>5. a \in Account /\ a.status = "ACTIVE" /\ a.epoch = 1
    BY <1>4, AccountsAssumption DEF Account, Status
  <1>6. /\ account'[e] = a /\ ~Exists(e) /\ Exists(e)'
        /\ \A f \in Emails : f # e => account'[f] = account[f]
    BY <1>1, <1>2, <1>3, <1>4, <1>5 DEF TypeOK, Exists
  <1>7. UNCHANGED <<linked, token, session, invited>>
    BY DEF CreateOwner, CreateUserCommit
  <1>8. PICK k \in Request :
          /\ request' = [request EXCEPT ![r] = k]
          /\ k.op \in {"idle", "issue"} /\ (k.op = "issue" => k.who = e /\ k.epoch = 1)
    <2>1. PICK j \in Request : j = request[r]
      BY <1>1 DEF TypeOK
    <2>2. CASE CreateOwner(r)
      <3> DEFINE k == [j EXCEPT !.op = "issue", !.epoch = 1]
      <3>1. 1 \in 0..MaxEpoch /\ j.who = e
        BY <1>2, <2>1, AccountsAssumption
      <3>2. k \in Request
        BY <3>1 DEF Request
      <3>3. k.op = "issue" /\ k.who = j.who /\ k.epoch = 1
        BY DEF Request
      <3>4. request' = [request EXCEPT ![r] = k]
        BY <1>1, <2>1, <2>2, <1>2, <1>6 DEF CreateOwner, TypeOK
      <3> HIDE DEF k
      <3>5. QED
        BY <3>1, <3>2, <3>3, <3>4
    <2>3. CASE CreateUserCommit(r)
      <3>1. Idle \in Request /\ Idle.op = "idle"
        BY AccountsAssumption DEF Idle, Request, Status
      <3>2. QED
        BY <2>3, <3>1 DEF CreateUserCommit, Answer
    <2>4. QED
      BY <2>2, <2>3
  <1>9. request'[r] = k /\ \A q \in Requests : q # r => request'[q] = request[q]
    BY <1>1, <1>8 DEF TypeOK
  <1>10. ASSUME NEW q \in Requests PROVE Sound(request[q])'
    <2>1. CASE q = r
      BY <1>5, <1>6, <1>8, <1>9, <2>1 DEF Sound
    <2>2. CASE q # r
      <3>1. PICK j \in Request : j = request[q] /\ Sound(j)
        BY <1>1 DEF Core, TypeOK
      <3>2. j.op \notin {"idle", "store"} => j.who \in Emails
        BY <3>1 DEF Sound
      <3>3. j.op \in {"issue", "rotate"} => j.who # e
        BY <1>6, <3>1 DEF Sound
      <3>4. Sound(j)'
        BY <1>6, <1>7, <3>1, <3>2, <3>3, SoundKept DEF Exists
      <3>5. request'[q] = j
        BY <1>9, <2>2, <3>1
      <3>6. QED
        BY <3>4, <3>5 DEF Sound, Exists
    <2>3. QED
      BY <2>1, <2>2
  <1>11. request' \in [Requests -> Request]
    BY <1>1, <1>8 DEF TypeOK
  <1>12. Core'
    BY <1>1, <1>3, <1>4, <1>5, <1>6, <1>7, <1>8, <1>9, <1>10, <1>11, AccountWritten
  <1>13. UnlinkedOnlyWhenCut'
    BY <1>1, <1>7, <1>9, LinksKept DEF AccountsInv
  <1>14. QED
    BY <1>12, <1>13 DEF AccountsInv

-----------------------------------------------------------------------------
\* A request stays sound when it is marked as raced.
LEMMA RacedSound ==
  ASSUME TypeOK, NEW e, NEW ops, NEW q \in Requests, Sound(request[q])
  PROVE  Sound(Raced(e, ops)[q])
  <1>1. PICK k : k = Raced(e, ops)[q]
    OBVIOUS
  <1>2. /\ k.op = request[q].op /\ k.who = request[q].who
        /\ k.what = request[q].what /\ k.epoch = request[q].epoch /\ k.saw = request[q].saw
        /\ request[q].raced => k.raced
    BY <1>1, RacedFacts
  <1>3. Sound(k)
    BY <1>2 DEF Sound
  <1>4. QED
    BY <1>1, <1>3

\* A status written by an administrator races the invitations that read it.
LEMMA StatusStep ==
  ASSUME AccountsInv, NEW e \in Emails, NEW status \in Status, status # "NONE",
         SetStatus(e, status)
  PROVE  AccountsInv'
  <1>1. Core /\ TypeOK /\ account[e] \in Account
    BY DEF AccountsInv, Core, TypeOK
  <1>2. /\ account' = [account EXCEPT ![e].status = status]
        /\ request' = Raced(e, {"invite"})
        /\ UNCHANGED <<linked, token, session, invited>>
    BY DEF SetStatus
  <1>3. PICK b \in Account : b = account[e]
    BY <1>1
  <1>4. PICK a : a = [b EXCEPT !.status = status]
    OBVIOUS
  <1>5. a \in Account /\ a.status = status /\ a.epoch = b.epoch
    BY <1>4 DEF Account
  <1>6. account' = [account EXCEPT ![e] = a]
    BY <1>1, <1>2, <1>3, <1>4 DEF TypeOK
  <1>7. /\ account'[e] = a /\ \A f \in Emails : f # e => account'[f] = account[f]
        /\ \A f \in Emails : Exists(f) => Exists(f)'
    BY <1>1, <1>5, <1>6 DEF TypeOK, Exists
  <1>8. request' \in [Requests -> Request]
    <2>1. \A q \in Requests : Raced(e, {"invite"})[q] \in Request
      BY <1>1, RacedFacts
    <2>2. QED
      BY <1>2, <2>1 DEF Raced
  <1>9. \A q \in Requests :
          /\ request'[q].op = request[q].op /\ request'[q].what = request[q].what
          /\ request'[q].who = e /\ request'[q].op = "invite" => request'[q].raced
    BY <1>1, <1>2, RacedFacts
  <1>10. ASSUME NEW q \in Requests PROVE Sound(request[q])'
    <2>1. PICK k : k = request'[q] /\ Sound(k)
      BY <1>1, <1>2, RacedSound DEF Core
    <2>2. k.op \notin {"idle", "store"} => k.who \in Emails
      BY <2>1 DEF Sound
    <2>3. k.who \in Emails => account'[k.who].epoch = account[k.who].epoch
      BY <1>3, <1>5, <1>7
    <2>4. k.op = "invite" /\ ~k.raced => k.who # e
      BY <1>9, <2>1
    <2>5. Sound(k)'
      BY <1>2, <1>7, <2>1, <2>2, <2>3, <2>4, SoundKept
    <2>6. QED
      BY <2>1, <2>5 DEF Sound, Exists
  <1>11. Core'
    BY <1>1, <1>2, <1>3, <1>5, <1>6, <1>8, <1>9, <1>10, AccountWritten
  <1>12. UnlinkedOnlyWhenCut'
    BY <1>2, <1>9, LinksKept DEF AccountsInv
  <1>13. QED
    BY <1>11, <1>12 DEF AccountsInv

\* A membership written by an administrator leaves status and password alone.
LEMMA MemberStep ==
  ASSUME AccountsInv, NEW e \in Emails, NEW role \in Role, Exists(e),
         account' = [account EXCEPT ![e].role = role],
         UNCHANGED <<linked, token, session, request, invited>>
  PROVE  AccountsInv'
  <1>1. Core /\ TypeOK /\ account[e] \in Account
    BY DEF AccountsInv, Core, TypeOK
  <1>2. PICK b \in Account : b = account[e]
    BY <1>1
  <1>3. PICK a : a = [b EXCEPT !.role = role]
    OBVIOUS
  <1>4. a \in Account /\ a.status = b.status /\ a.epoch = b.epoch
    BY <1>3 DEF Account
  <1>5. account' = [account EXCEPT ![e] = a]
    BY <1>1, <1>2, <1>3 DEF TypeOK
  <1>6. \A f \in Emails : /\ account'[f].status = account[f].status
                          /\ account'[f].epoch = account[f].epoch
    BY <1>1, <1>2, <1>4, <1>5 DEF TypeOK
  <1>7. ASSUME NEW q \in Requests PROVE Sound(request[q])'
    <2>1. PICK k : k = request[q] /\ Sound(k)
      BY <1>1 DEF Core
    <2>2. k.op \notin {"idle", "store"} => k.who \in Emails
      BY <2>1 DEF Sound
    <2>3. Sound(k)'
      BY <1>6, <2>1, <2>2, SoundKept DEF Exists
    <2>4. QED
      BY <2>1, <2>3 DEF Sound, Exists
  <1>8. request' \in [Requests -> Request] /\ a.status # "NONE"
    BY <1>1, <1>2, <1>4 DEF TypeOK, Exists
  <1>9. Core'
    BY <1>1, <1>2, <1>4, <1>5, <1>7, <1>8, AccountWritten
  <1>10. UnlinkedOnlyWhenCut'
    BY LinksKept DEF AccountsInv
  <1>11. QED
    BY <1>9, <1>10 DEF AccountsInv

\* What an administrator does.
LEMMA AdminStep ==
  ASSUME AccountsInv, NEW e \in Emails,
         \/ SoftDelete(e) \/ RemoveMember(e)
         \/ \E status \in StatusInputs : SetStatus(e, status)
         \/ \E role \in RoleInputs : AddMember(e, role) \/ UpdateMember(e, role)
  PROVE  AccountsInv'
  <1>1. CASE SoftDelete(e)
    BY <1>1, StatusStep DEF SoftDelete, Status
  <1>2. CASE RemoveMember(e)
    <2>1. Exists(e)
      BY <1>2 DEF RemoveMember, AccountsInv, Core, AccountSound
    <2>2. QED
      BY <1>2, <2>1, MemberStep DEF RemoveMember, Role
  <1>3. CASE \E status \in StatusInputs : SetStatus(e, status)
    BY <1>3, StatusStep, AccountsAssumption DEF Status
  <1>4. CASE \E role \in RoleInputs : AddMember(e, role) \/ UpdateMember(e, role)
    BY <1>4, MemberStep, AccountsAssumption DEF AddMember, UpdateMember, Role
  <1>5. QED
    BY <1>1, <1>2, <1>3, <1>4

-----------------------------------------------------------------------------
\* One session is written, and one request moves on.
LEMMA SessionWritten ==
  ASSUME Core, NEW s \in Sessions, NEW v \in Session, SessionSound(s)',
         session' = [session EXCEPT ![s] = v],
         session[s].who \in Emails => v.who = session[s].who,
         NEW r \in Requests, NEW k \in Request,
         request' = [request EXCEPT ![r] = k], Sound(k)',
         k.op \notin {"accept", "reset", "rotate"},
         request[r].op # "link" \/ k = request[r], UnlinkedOnlyWhenCut,
         UNCHANGED <<account, linked, token, invited>>
  PROVE  AccountsInv'
  <1>1. /\ session'[s] = v /\ \A o \in Sessions : o # s => session'[o] = session[o]
        /\ request'[r] = k /\ \A q \in Requests : q # r => request'[q] = request[q]
        /\ session' \in [Sessions -> Session] /\ request' \in [Requests -> Request]
    BY DEF Core, TypeOK
  <1>2. TypeOK'
    BY <1>1 DEF Core, TypeOK
  <1>3. ASSUME NEW q \in Requests PROVE Sound(request[q])'
    <2>1. CASE q = r
      BY <1>1, <2>1 DEF Sound, Exists
    <2>2. CASE q # r
      <3>1. PICK j : j = request[q] /\ Sound(j)
        BY DEF Core
      <3>2. Sound(j)'
        BY <1>1, <3>1, SoundKept DEF Exists
      <3>3. QED
        BY <1>1, <2>2, <3>1, <3>2 DEF Sound, Exists
    <2>3. QED
      BY <2>1, <2>2
  <1>4. ASSUME NEW t \in Tokens PROVE TokenSound(t)'
    BY <1>1, TokenKept DEF Core, Exists
  <1>5. ASSUME NEW o \in Sessions PROVE SessionSound(o)'
    BY <1>1, SessionKept DEF Core, Exists
  <1>6. \A e \in Emails : AccountSound(e)'
    BY DEF Core, AccountSound, Exists
  <1>7. UnlinkedOnlyWhenCut'
    BY <1>1, LinksKept
  <1>8. QED
    BY <1>2, <1>3, <1>4, <1>5, <1>6, <1>7 DEF Core, AccountsInv

\* A session is made for the password the request proved.
LEMMA CreateSessionStep ==
  ASSUME AccountsInv, NEW r \in Requests, NEW s \in Sessions, CreateSession(r, s)
  PROVE  AccountsInv'
  <1>1. /\ Core /\ TypeOK /\ UnlinkedOnlyWhenCut /\ Sound(request[r]) /\ SessionSound(s)
        /\ request[r].op = "issue" /\ session[s].who = None /\ 0 \in 0..MaxEpoch
    BY AccountsAssumption DEF AccountsInv, Core, CreateSession
  <1>2. PICK j \in Request : j = request[r]
    BY <1>1 DEF TypeOK
  <1>3. /\ j.who \in Emails /\ Exists(j.who)
        /\ j.raced \/ j.epoch = account[j.who].epoch
    BY <1>1, <1>2 DEF Sound
  <1>4. PICK v : v = [NoSession EXCEPT !.who = j.who, !.epoch = j.epoch, !.raced = j.raced]
    OBVIOUS
  <1>5. /\ v \in Session /\ v.who = j.who /\ v.epoch = j.epoch /\ v.raced = j.raced
        /\ v.spare = 0 /\ ~v.revoked /\ v.hash = "pending"
    <2>1. NoSession \in Session
      BY <1>1 DEF NoSession, Session
    <2>2. PICK z \in Session : z = NoSession
      BY <2>1
    <2>3. z.spare = 0 /\ ~z.revoked /\ z.hash = "pending"
      BY <2>2 DEF NoSession
    <2>4. j.who \in Emails \cup {None} /\ j.epoch \in 0..MaxEpoch /\ j.raced \in BOOLEAN
      BY <1>2 DEF Request
    <2>5. v = [z EXCEPT !.who = j.who, !.epoch = j.epoch, !.raced = j.raced]
      BY <1>4, <2>2
    <2>6. QED
      BY <2>2, <2>3, <2>4, <2>5 DEF Session
  <1>6. PICK k : k = [Idle EXCEPT !.op = "store", !.what = s]
    OBVIOUS
  <1>7. k \in Request /\ k.op = "store" /\ k.what = s
    BY <1>1, <1>6 DEF Idle, Request, Status
  <1>8. /\ session' = [session EXCEPT ![s] = v] /\ request' = [request EXCEPT ![r] = k]
        /\ UNCHANGED <<account, linked, token, invited>>
    BY <1>2, <1>4, <1>6 DEF CreateSession
  <1>9. session'[s] = v
    BY <1>1, <1>8 DEF TypeOK
  <1>10. SessionSound(s)'
    BY <1>3, <1>5, <1>8, <1>9 DEF SessionSound, Live, Exists
  <1>11. Sound(k)'
    BY <1>3, <1>5, <1>7, <1>9 DEF Sound
  <1>12. session[s].who \notin Emails /\ request[r].op # "link"
    BY <1>1, AccountsAssumption
  <1>13. QED
    BY <1>1, <1>5, <1>7, <1>8, <1>10, <1>11, <1>12, SessionWritten

\* The hash is stored on the session the request made.
LEMMA StoreHashStep ==
  ASSUME AccountsInv, NEW r \in Requests, StoreHash(r)
  PROVE  AccountsInv'
  <1>1. /\ Core /\ TypeOK /\ UnlinkedOnlyWhenCut /\ Sound(request[r])
        /\ request[r].op = "store"
    BY DEF AccountsInv, Core, StoreHash
  <1>2. PICK s \in Sessions : s = request[r].what /\ session[s].who \in Emails
    BY <1>1 DEF Sound
  <1>3. PICK j \in Session : j = session[s] /\ SessionSound(s)
    BY <1>1 DEF TypeOK, Core
  <1>4. PICK v : v = [j EXCEPT !.hash = "stored"]
    OBVIOUS
  <1>5. /\ v \in Session /\ v.who = j.who /\ v.epoch = j.epoch /\ v.raced = j.raced
        /\ v.spare = j.spare /\ v.revoked = j.revoked /\ v.expired = j.expired
    BY <1>4 DEF Session
  <1>6. Idle \in Request /\ Idle.op = "idle"
    BY AccountsAssumption DEF Idle, Request, Status
  <1>7. /\ session' = [session EXCEPT ![s] = v] /\ request' = [request EXCEPT ![r] = Idle]
        /\ UNCHANGED <<account, linked, token, invited>>
    BY <1>1, <1>2, <1>3, <1>4 DEF StoreHash, Answer, TypeOK
  <1>8. session'[s] = v /\ request'[r] = Idle /\ \A q \in Requests : q # r => request'[q] = request[q]
    BY <1>1, <1>7 DEF TypeOK
  <1>9. /\ Cardinality(Holding(s, {"rotate"})') \in Nat
        /\ Cardinality(Holding(s, {"rotate"})') <= Cardinality(Holding(s, {"rotate"}))
    BY <1>6, <1>8, HoldingKept
  <1>10. SessionSound(s)'
    <2>1. j.who # None /\ Exists(j.who) /\ Exists(j.who)' /\ j.spare \in Int
      BY <1>1, <1>2, <1>3, <1>7, AccountsAssumption DEF SessionSound, Exists, Session
    <2>2. Live(s)' => v.raced \/ v.epoch = account'[v.who].epoch
      BY <1>3, <1>5, <1>7, <1>8, <2>1 DEF SessionSound, Live
    <2>3. v.revoked => v.spare >= Cardinality(Holding(s, {"rotate"})')
      BY <1>3, <1>5, <1>9, <2>1, HoldingFinite DEF SessionSound
    <2>4. QED
      BY <1>3, <1>5, <1>8, <2>1, <2>2, <2>3 DEF SessionSound
  <1>11. Sound(Idle)'
    BY <1>6 DEF Sound
  <1>12. QED
    BY <1>1, <1>3, <1>5, <1>6, <1>7, <1>10, <1>11, SessionWritten

\* A rotation spends one of the uses that closing the session left.
LEMMA RotateStep ==
  ASSUME AccountsInv, NEW r \in Requests, Rotate(r)
  PROVE  AccountsInv'
  <1>1. /\ Core /\ TypeOK /\ UnlinkedOnlyWhenCut /\ Sound(request[r])
        /\ request[r].op = "rotate"
    BY DEF AccountsInv, Core, Rotate
  <1>2. PICK s \in Sessions : s = request[r].what /\ session[s].who \in Emails
    BY <1>1 DEF Sound
  <1>3. PICK j \in Request : j = request[r]
    BY <1>1 DEF TypeOK
  <1>4. PICK k : k = [j EXCEPT !.op = "issue", !.what = None]
    OBVIOUS
  <1>5. /\ k \in Request /\ k.op = "issue" /\ k.who = j.who
        /\ k.epoch = j.epoch /\ k.raced = j.raced
    BY <1>4 DEF Request
  <1>6. request' = [request EXCEPT ![r] = k] /\ UNCHANGED <<account, linked, token, invited>>
    BY <1>1, <1>3, <1>4 DEF Rotate, TypeOK
  <1>7. request'[r] = k /\ \A q \in Requests : q # r => request'[q] = request[q]
    BY <1>1, <1>6 DEF TypeOK
  <1> DEFINE n == Cardinality(Holding(s, {"rotate"}))
             m == Cardinality(Holding(s, {"rotate"})')
  <1>8. m \in Nat /\ n \in Nat /\ m + 1 <= n
    BY <1>1, <1>2, <1>5, <1>7, HoldingLoses, HoldingFinite
  <1>9. PICK u \in Session :
          /\ u = Revoke(s) /\ u.who = session[s].who /\ u.revoked /\ u.spare >= n
    BY <1>1, RevokeFacts DEF Core
  <1>10. PICK v : v = [u EXCEPT !.spare = @ - 1]
    OBVIOUS
  <1>11. v \in Session /\ v.who = u.who /\ v.revoked /\ v.spare = u.spare - 1 /\ u.spare \in Int
    BY <1>9, <1>10 DEF Session
  <1>12. session' = [session EXCEPT ![s] = v]
    BY <1>2, <1>9, <1>10 DEF Rotate
  <1>13. session'[s] = v
    BY <1>1, <1>12 DEF TypeOK
  <1>14. session[s].who # None /\ Exists(session[s].who)
    BY <1>1, <1>2, AccountsAssumption DEF Core, SessionSound
  <1>15. v.spare >= 0 /\ v.spare >= m
    BY <1>8, <1>9, <1>11
  <1> HIDE DEF n
  <1>16. SessionSound(s)'
    BY <1>6, <1>9, <1>11, <1>13, <1>14, <1>15 DEF SessionSound, Live, Exists
  <1>17. Sound(k)'
    BY <1>1, <1>3, <1>5, <1>6 DEF Sound, Exists
  <1>18. QED
    BY <1>1, <1>5, <1>6, <1>9, <1>11, <1>12, <1>16, <1>17, SessionWritten

-----------------------------------------------------------------------------
\* Every session of an account is revoked; the others keep their password.
LEMMA RevokeAllFacts ==
  ASSUME TypeOK, \A s \in Sessions : SessionSound(s), NEW e, RevokeAll(e),
         \A f \in Emails : Exists(f) => Exists(f)',
         \A f \in Emails : f # e /\ Exists(f) => account'[f].epoch = account[f].epoch,
         \A q \in Requests : request'[q].op = "rotate" =>
           request[q].op = "rotate" /\ request[q].what = request'[q].what
  PROVE  /\ session' \in [Sessions -> Session]
         /\ \A s \in Sessions : session'[s].who = session[s].who /\ SessionSound(s)'
  <1>1. ASSUME NEW s \in Sessions
        PROVE  /\ session'[s] \in Session
               /\ session'[s].who = session[s].who /\ SessionSound(s)'
    <2>1. /\ session[s] \in Session /\ SessionSound(s)
          /\ session[s].who \in Emails \cup {None}
      BY DEF TypeOK, Session
    <2>2. CASE session[s].who = e
      <3>1. session'[s] = Revoke(s)
        BY <2>2 DEF RevokeAll
      <3>2. PICK u \in Session :
              /\ u = Revoke(s) /\ u.who = session[s].who /\ u.hash = session[s].hash
              /\ u.revoked /\ u.spare >= Cardinality(Holding(s, {"rotate"}))
              /\ u.spare >= 0 /\ u.spare \in Int
        BY <2>1, RevokeFacts
      <3>3. /\ Cardinality(Holding(s, {"rotate"})') \in Nat
            /\ Cardinality(Holding(s, {"rotate"})') <= Cardinality(Holding(s, {"rotate"}))
        BY HoldingKept
      <3>4. u.spare >= Cardinality(Holding(s, {"rotate"})')
        BY <3>2, <3>3, HoldingFinite
      <3>5. QED
        BY <2>1, <3>1, <3>2, <3>4 DEF SessionSound, Live
    <2>3. CASE session[s].who # e
      <3>1. session'[s] = session[s]
        BY <2>3 DEF RevokeAll
      <3>2. Live(s) => account'[session[s].who].epoch = account[session[s].who].epoch
        BY <2>1, <2>3 DEF Live, SessionSound
      <3>3. SessionSound(s)'
        BY <2>1, <3>1, <3>2, SessionKept
      <3>4. QED
        BY <2>1, <3>1, <3>3
    <2>4. QED
      BY <2>2, <2>3
  <1>2. session' \in [Sessions -> Session]
    BY <1>1 DEF RevokeAll
  <1>3. QED
    BY <1>1, <1>2

\* A replayed refresh token costs its account every session.
LEMMA PunishStep ==
  ASSUME AccountsInv, NEW r \in Requests, PunishReuse(r)
  PROVE  AccountsInv'
  <1>1. /\ Core /\ TypeOK /\ UnlinkedOnlyWhenCut /\ request[r].op = "punish"
        /\ RevokeAll(request[r].who) /\ Answer(r)
        /\ UNCHANGED <<account, linked, token, invited>>
    BY DEF AccountsInv, Core, PunishReuse
  <1>2. Idle \in Request /\ Idle.op = "idle"
    BY AccountsAssumption DEF Idle, Request, Status
  <1>3. /\ request'[r] = Idle /\ \A q \in Requests : q # r => request'[q] = request[q]
        /\ request' \in [Requests -> Request]
    BY <1>1, <1>2 DEF Answer, TypeOK
  <1>4. /\ session' \in [Sessions -> Session]
        /\ \A s \in Sessions : session'[s].who = session[s].who /\ SessionSound(s)'
    BY <1>1, <1>2, <1>3, RevokeAllFacts DEF Core, Exists
  <1>5. ASSUME NEW q \in Requests PROVE Sound(request[q])'
    <2>1. CASE q = r
      BY <1>2, <1>3, <2>1 DEF Sound
    <2>2. CASE q # r
      <3>1. PICK j : j = request[q] /\ Sound(j)
        BY <1>1 DEF Core
      <3>2. Sound(j)'
        BY <1>1, <1>4, <3>1, SoundKept DEF Exists
      <3>3. QED
        BY <1>3, <2>2, <3>1, <3>2 DEF Sound, Exists
    <2>3. QED
      BY <2>1, <2>2
  <1>6. ASSUME NEW t \in Tokens PROVE TokenSound(t)'
    BY <1>1, <1>2, <1>3, TokenKept DEF Core, Exists
  <1>7. \A e \in Emails : AccountSound(e)'
    BY <1>1 DEF Core, AccountSound, Exists
  <1>8. TypeOK'
    BY <1>1, <1>3, <1>4 DEF TypeOK
  <1>9. UnlinkedOnlyWhenCut'
    BY <1>1, AnswerLinks
  <1>10. QED
    BY <1>4, <1>5, <1>6, <1>7, <1>8, <1>9 DEF Core, AccountsInv

\* A session is closed by its owner, or runs out, and no request moves.
LEMMA CloseStep ==
  ASSUME AccountsInv, NEW s \in Sessions, NEW v \in Session,
         session' = [session EXCEPT ![s] = v],
         v.who = session[s].who /\ v.hash = session[s].hash /\ (v.revoked \/ v.expired),
         v.spare \in Int /\ v.spare >= 0,
         v.revoked => v.spare >= Cardinality(Holding(s, {"rotate"})),
         UNCHANGED <<account, linked, token, request, invited>>
  PROVE  AccountsInv'
  <1>1. Core /\ TypeOK /\ UnlinkedOnlyWhenCut /\ SessionSound(s)
    BY DEF AccountsInv, Core
  <1>2. /\ session'[s] = v /\ \A o \in Sessions : o # s => session'[o] = session[o]
        /\ session' \in [Sessions -> Session]
    BY <1>1 DEF TypeOK
  <1>3. SessionSound(s)'
    BY <1>1, <1>2 DEF SessionSound, Live, Exists, Holding
  <1>4. ASSUME NEW o \in Sessions, o # s PROVE SessionSound(o)'
    BY <1>1, <1>2, <1>4, SessionKept DEF Core, Exists
  <1>5. ASSUME NEW q \in Requests PROVE Sound(request[q])'
    <2>1. PICK j : j = request[q] /\ Sound(j)
      BY <1>1 DEF Core
    <2>2. Sound(j)'
      BY <1>2, <2>1, SoundKept DEF Exists
    <2>3. QED
      BY <2>1, <2>2 DEF Sound, Exists
  <1>6. ASSUME NEW t \in Tokens PROVE TokenSound(t)'
    BY <1>1, TokenKept DEF Core, Exists
  <1>7. \A e \in Emails : AccountSound(e)'
    BY <1>1 DEF Core, AccountSound, Exists
  <1>8. TypeOK'
    BY <1>1, <1>2 DEF TypeOK
  <1>9. UnlinkedOnlyWhenCut'
    BY <1>1, LinksKept
  <1>10. QED
    BY <1>3, <1>4, <1>5, <1>6, <1>7, <1>8, <1>9 DEF Core, AccountsInv

\* A token is made or runs out, and no request moves.
LEMMA TokenStep ==
  ASSUME AccountsInv, NEW t \in Tokens, NEW w \in Token,
         token' = [token EXCEPT ![t] = w],
         w.who # None => Exists(w.who),
         w.used = token[t].used /\ w.spare = token[t].spare,
         UNCHANGED <<account, linked, session, request, invited>>
  PROVE  AccountsInv'
  <1>1. Core /\ TypeOK /\ UnlinkedOnlyWhenCut /\ TokenSound(t)
    BY DEF AccountsInv, Core
  <1>2. /\ token'[t] = w /\ \A o \in Tokens : o # t => token'[o] = token[o]
        /\ token' \in [Tokens -> Token]
    BY <1>1 DEF TypeOK
  <1>3. TokenSound(t)'
    BY <1>1, <1>2 DEF TokenSound, Exists, Holding
  <1>4. ASSUME NEW o \in Tokens, o # t PROVE TokenSound(o)'
    BY <1>1, <1>2, <1>4, TokenKept DEF Core, Exists
  <1>5. ASSUME NEW q \in Requests PROVE Sound(request[q])'
    BY <1>1 DEF Core, Sound, Exists
  <1>6. ASSUME NEW s \in Sessions PROVE SessionSound(s)'
    BY <1>1, SessionKept DEF Core, Exists
  <1>7. \A e \in Emails : AccountSound(e)'
    BY <1>1 DEF Core, AccountSound, Exists
  <1>8. TypeOK'
    BY <1>1, <1>2 DEF TypeOK
  <1>9. UnlinkedOnlyWhenCut'
    BY <1>1, LinksKept
  <1>10. QED
    BY <1>3, <1>4, <1>5, <1>6, <1>7, <1>8, <1>9 DEF Core, AccountsInv

\* Logging out, asking for a reset, and time.
LEMMA QuietStep ==
  ASSUME AccountsInv,
         \/ \E s \in Sessions : Logout(s)
         \/ \E e \in Emails, t \in Tokens : ForgotPassword(e, t)
         \/ Expire
  PROVE  AccountsInv'
  <1>1. Core /\ TypeOK /\ 0 \in 0..MaxEpoch
    BY AccountsAssumption DEF AccountsInv, Core
  <1>2. ASSUME NEW s \in Sessions, Logout(s) PROVE AccountsInv'
    <2>1. PICK u \in Session :
            /\ u = Revoke(s) /\ u.who = session[s].who /\ u.hash = session[s].hash
            /\ u.revoked /\ u.spare >= Cardinality(Holding(s, {"rotate"}))
            /\ u.spare >= 0 /\ u.spare \in Int
      BY <1>1, RevokeFacts DEF Core
    <2>2. QED
      BY <1>2, <2>1, CloseStep DEF Logout
  <1>3. ASSUME NEW e \in Emails, NEW t \in Tokens, ForgotPassword(e, t) PROVE AccountsInv'
    <2>1. PICK j \in Token : j = token[t]
      BY <1>1 DEF TypeOK
    <2>2. PICK w : w = [j EXCEPT !.who = e]
      OBVIOUS
    <2>3. w \in Token /\ w.who = e /\ w.used = j.used /\ w.spare = j.spare
      BY <2>2 DEF Token
    <2>4. token' = [token EXCEPT ![t] = w] /\ Exists(e)
      BY <1>1, <1>3, <2>1, <2>2 DEF ForgotPassword, TypeOK
    <2>5. QED
      BY <1>3, <2>1, <2>3, <2>4, TokenStep DEF ForgotPassword
  <1>4. ASSUME NEW t \in Tokens, Open(t), token' = [token EXCEPT ![t].expired = TRUE],
               UNCHANGED <<account, linked, session, request, invited>>
        PROVE  AccountsInv'
    <2>1. PICK j \in Token : j = token[t] /\ TokenSound(t)
      BY <1>1 DEF TypeOK, Core
    <2>2. PICK w : w = [j EXCEPT !.expired = TRUE]
      OBVIOUS
    <2>3. w \in Token /\ w.who = j.who /\ w.used = j.used /\ w.spare = j.spare
      BY <2>2 DEF Token
    <2>4. token' = [token EXCEPT ![t] = w]
      BY <1>1, <1>4, <2>1, <2>2 DEF TypeOK
    <2>5. QED
      BY <1>4, <2>1, <2>3, <2>4, TokenStep DEF TokenSound
  <1>5. ASSUME NEW s \in Sessions, Live(s),
               session' = [session EXCEPT ![s] = [@ EXCEPT
                 !.expired = TRUE, !.epoch = 0, !.raced = FALSE]],
               UNCHANGED <<account, linked, token, request, invited>>
        PROVE  AccountsInv'
    <2>1. PICK j \in Session : j = session[s] /\ SessionSound(s)
      BY <1>1 DEF TypeOK, Core
    <2>2. PICK v : v = [j EXCEPT !.expired = TRUE, !.epoch = 0, !.raced = FALSE]
      OBVIOUS
    <2>3. /\ v \in Session /\ v.who = j.who /\ v.hash = j.hash /\ v.expired
          /\ v.revoked = j.revoked /\ v.spare = j.spare
      BY <1>1, <2>2 DEF Session
    <2>4. session' = [session EXCEPT ![s] = v]
      BY <1>5, <2>1, <2>2
    <2>5. ~v.revoked /\ v.spare \in Int /\ v.spare >= 0
      BY <1>5, <2>1, <2>3 DEF Live, SessionSound, Session
    <2>6. QED
      BY <1>5, <2>1, <2>3, <2>4, <2>5, CloseStep
  <1>6. QED
    BY <1>2, <1>3, <1>4, <1>5 DEF Expire

-----------------------------------------------------------------------------
\* What both transactions that spend a token keep: the requests they race are
\* marked, every session of the account is closed, the token loses one holder.
LEMMA SpendStep ==
  ASSUME AccountsInv, NEW r \in Requests, request[r].op \in {"accept", "reset"},
         NEW e, e = request[r].who,
         NEW status \in Status, status # "NONE", NEW ops, NEW j \in Request,
         SpendToken(r, e, status, account[e].epoch + 1),
         {"issue", "rotate"} \subseteq ops,
         "invite" \in ops \/ status = account[e].status,
         request' = [Raced(e, ops) EXCEPT ![r] = j],
         j.op = "idle" \/ (j.op = "issue" /\ j.who = e /\ j.epoch = account[e].epoch + 1)
  PROVE  AccountsInv'
  <1>1. /\ Core /\ TypeOK /\ UnlinkedOnlyWhenCut /\ Sound(request[r])
        /\ account[e].epoch < MaxEpoch /\ RevokeAll(e) /\ UNCHANGED <<linked, invited>>
    BY DEF AccountsInv, Core, SpendToken
  <1>2. e \in Emails /\ Exists(e)
    BY <1>1 DEF Sound
  <1>3. PICK t \in Tokens : t = request[r].what
    BY <1>1 DEF Sound
  <1>4. PICK b \in Account : b = account[e]
    BY <1>1, <1>2 DEF TypeOK
  <1>5. PICK a : a = [b EXCEPT !.status = status, !.epoch = b.epoch + 1]
    OBVIOUS
  <1>6. b.epoch \in Nat /\ b.epoch + 1 \in 0..MaxEpoch
    BY <1>1, <1>4, AccountsAssumption DEF Account
  <1>7. a \in Account /\ a.status = status /\ a.epoch = b.epoch + 1
    BY <1>5, <1>6 DEF Account
  <1>8. account' = [account EXCEPT ![e] = a]
    BY <1>1, <1>2, <1>4, <1>5 DEF SpendToken, TypeOK
  <1>9. /\ account'[e] = a /\ \A f \in Emails : f # e => account'[f] = account[f]
        /\ \A f \in Emails : Exists(f) => Exists(f)'
        /\ account' \in [Emails -> Account]
    BY <1>1, <1>2, <1>7, <1>8 DEF TypeOK, Exists
  <1>10. \A q \in Requests : Raced(e, ops)[q] \in Request
    BY <1>1, RacedFacts
  <1>11. /\ request'[r] = j /\ \A q \in Requests : q # r => request'[q] = Raced(e, ops)[q]
         /\ request' \in [Requests -> Request]
    BY <1>10 DEF Raced
  <1>12. \A q \in Requests : q # r =>
           /\ request'[q].op = request[q].op /\ request'[q].what = request[q].what
           /\ request'[q].who = request[q].who
           /\ request'[q].who = e /\ request'[q].op \in ops => request'[q].raced
    BY <1>1, <1>11, RacedFacts
  <1>13. \A q \in Requests : request'[q].op \in {"accept", "reset", "rotate", "link"} =>
           q # r /\ request[q].op = request'[q].op /\ request[q].what = request'[q].what
    BY <1>11, <1>12
  <1>14. /\ session' \in [Sessions -> Session]
         /\ \A s \in Sessions : session'[s].who = session[s].who /\ SessionSound(s)'
    BY <1>1, <1>9, <1>13, RevokeAllFacts DEF Core
  <1>15. ASSUME NEW q \in Requests PROVE Sound(request[q])'
    <2>1. CASE q = r
      BY <1>2, <1>4, <1>7, <1>9, <1>11, <2>1 DEF Sound
    <2>2. CASE q # r
      <3>1. PICK k : k = request'[q] /\ Sound(k)
        BY <1>1, <1>11, <2>2, RacedSound DEF Core
      <3>2. k.op \notin {"idle", "store"} => k.who \in Emails
        BY <3>1 DEF Sound
      <3>3. k.who = e /\ k.op \in ops => k.raced
        BY <1>12, <2>2, <3>1
      <3>4. k.op \in {"issue", "rotate"} =>
              k.raced \/ account'[k.who].epoch = account[k.who].epoch
        BY <1>9, <3>2, <3>3
      <3>5. k.op = "invite" /\ ~k.raced => account'[k.who].status = account[k.who].status
        BY <1>4, <1>7, <1>9, <3>2, <3>3
      <3>6. Sound(k)'
        BY <1>9, <1>14, <3>1, <3>2, <3>4, <3>5, SoundKept
      <3>7. QED
        BY <3>1, <3>6 DEF Sound, Exists
    <2>3. QED
      BY <2>1, <2>2
  <1> DEFINE n == Cardinality(Holding(t, {"accept", "reset"}))
             m == Cardinality(Holding(t, {"accept", "reset"})')
  <1>16. m \in Nat /\ n \in Nat /\ m + 1 <= n
    BY <1>3, <1>11, <1>12, HoldingLoses, HoldingFinite
  <1>17. PICK u \in Token : /\ u = UseToken(t) /\ u.who = token[t].who /\ u.used
                            /\ u.spare >= n /\ u.spare \in Int
    BY <1>1, UseFacts DEF Core
  <1>18. PICK w : w = [u EXCEPT !.spare = @ - 1]
    OBVIOUS
  <1>19. w \in Token /\ w.who = u.who /\ w.spare = u.spare - 1
    BY <1>17, <1>18 DEF Token
  <1>20. token' = [token EXCEPT ![t] = w]
    BY <1>3, <1>17, <1>18 DEF SpendToken
  <1>21. /\ token'[t] = w /\ \A o \in Tokens : o # t => token'[o] = token[o]
         /\ token' \in [Tokens -> Token]
    BY <1>1, <1>19, <1>20 DEF TypeOK
  <1>22. w.spare >= 0 /\ w.spare >= m
    BY <1>16, <1>17, <1>19
  <1> HIDE DEF n
  <1>23. ASSUME NEW o \in Tokens PROVE TokenSound(o)'
    <2>1. CASE o = t
      <3>1. token[t].who # None => token[t].who \in Emails /\ Exists(token[t].who)
        BY <1>1 DEF Core, TokenSound, TypeOK, Token
      <3>2. QED
        BY <1>9, <1>17, <1>19, <1>21, <1>22, <2>1, <3>1 DEF TokenSound
    <2>2. CASE o # t
      BY <1>1, <1>9, <1>13, <1>21, <2>2, TokenKept DEF Core
    <2>3. QED
      BY <2>1, <2>2
  <1>24. ASSUME NEW f \in Emails PROVE AccountSound(f)'
    BY <1>1, <1>2, <1>7, <1>9 DEF Core, AccountSound, Exists
  <1>25. TypeOK'
    BY <1>1, <1>9, <1>11, <1>14, <1>21 DEF TypeOK
  <1>26. UnlinkedOnlyWhenCut'
    BY <1>1, <1>12, LinksKept
  <1>27. QED
    BY <1>14, <1>15, <1>23, <1>24, <1>25, <1>26 DEF Core, AccountsInv

\* An invitation accepted, a password reset.
LEMMA AcceptStep ==
  ASSUME AccountsInv, NEW r \in Requests, AcceptCommit(r) \/ ResetCommit(r)
  PROVE  AccountsInv'
  <1>1. PICK e \in Emails : e = request[r].who /\ Exists(e)
    BY DEF AccountsInv, Core, Sound, AcceptCommit, ResetCommit
  <1>2. PICK b \in Account : b = account[e]
    BY DEF AccountsInv, Core, TypeOK
  <1>3. CASE AcceptCommit(r)
    <2>1. b.epoch + 1 \in 0..MaxEpoch
      BY <1>1, <1>2, <1>3, AccountsAssumption DEF AcceptCommit, SpendToken, Account
    <2>2. PICK j : j = [Idle EXCEPT !.op = "issue", !.who = e, !.epoch = b.epoch + 1]
      OBVIOUS
    <2>3. j \in Request /\ j.op = "issue" /\ j.who = e /\ j.epoch = b.epoch + 1
      BY <2>1, <2>2 DEF Idle, Request, Status
    <2>4. /\ request[r].op = "accept" /\ SpendToken(r, e, "ACTIVE", account[e].epoch + 1)
          /\ request' = [Raced(e, {"issue", "rotate", "invite"}) EXCEPT ![r] = j]
      BY <1>1, <1>2, <1>3, <2>2 DEF AcceptCommit
    <2>5. QED
      BY <1>1, <1>2, <2>3, <2>4, SpendStep DEF Status
  <1>4. CASE ResetCommit(r)
    <2>1. Idle \in Request /\ Idle.op = "idle"
      BY AccountsAssumption DEF Idle, Request, Status
    <2>2. b.status \in Status /\ b.status # "NONE"
      BY <1>1, <1>2 DEF Account, Exists
    <2>3. /\ request[r].op = "reset"
          /\ SpendToken(r, e, account[e].status, account[e].epoch + 1)
          /\ request' = [Raced(e, {"issue", "rotate"}) EXCEPT ![r] = Idle]
      BY <1>1, <1>4 DEF ResetCommit
    <2>4. QED
      BY <1>1, <1>2, <2>1, <2>2, <2>3, SpendStep
  <1>5. QED
    BY <1>3, <1>4

\* An invitation written: the account's open tokens are closed, and other
\* invitations of it are marked.
LEMMA InviteStep ==
  ASSUME AccountsInv, NEW r \in Requests, NEW t \in Tokens, InviteCommit(r, t)
  PROVE  AccountsInv'
  <1>1. /\ Core /\ TypeOK /\ UnlinkedOnlyWhenCut /\ Sound(request[r])
        /\ request[r].op = "invite" /\ UNCHANGED <<linked, session>>
    BY DEF AccountsInv, Core, InviteCommit
  <1>2. PICK p \in Profiles : p = request[r].what
    BY <1>1 DEF Sound
  <1>3. PICK e \in Emails : e = request[r].who /\ e = EmailOf[p]
    BY <1>1, <1>2 DEF Sound
  <1>4. PICK status \in Status \ {"NONE"} : status = StatusInvited(request[r].saw)
    BY DEF StatusInvited, Status
  <1>5. PICK role \in Role : role = InvitedAs(p)
    BY DEF InvitedAs, Role
  <1>6. PICK b \in Account : b = account[e]
    BY <1>1 DEF TypeOK
  <1>7. PICK a : a = [b EXCEPT !.role = role, !.status = status]
    OBVIOUS
  <1>8. a \in Account /\ a.status = status /\ a.epoch = b.epoch
    BY <1>7 DEF Account
  <1>9. account' = [account EXCEPT ![e] = a]
    BY <1>1, <1>2, <1>3, <1>4, <1>5, <1>6, <1>7 DEF InviteCommit, TypeOK
  <1>10. /\ account'[e] = a /\ \A f \in Emails : f # e => account'[f] = account[f]
         /\ \A f \in Emails : Exists(f) => Exists(f)'
         /\ account' \in [Emails -> Account] /\ Exists(e)'
    BY <1>1, <1>4, <1>8, <1>9 DEF TypeOK, Exists
  <1>11. \A f \in Emails : account'[f].epoch = account[f].epoch
    BY <1>6, <1>8, <1>10
  <1>12. PICK j : j = [Idle EXCEPT !.op = "link", !.who = e, !.what = p]
    OBVIOUS
  <1>13. j \in Request /\ j.op = "link" /\ j.who = e /\ j.what = p
    <2>1. Idle \in Request
      BY AccountsAssumption DEF Idle, Request, Status
    <2>2. PICK z \in Request : z = Idle
      BY <2>1
    <2>3. j = [z EXCEPT !.op = "link", !.who = e, !.what = p]
      BY <1>12, <2>2
    <2>4. QED
      BY <2>3 DEF Request
  <1>14. \A q \in Requests : Raced(e, {"invite"})[q] \in Request
    BY <1>1, RacedFacts
  <1>15. request' = [Raced(e, {"invite"}) EXCEPT ![r] = j]
    BY <1>2, <1>3, <1>12 DEF InviteCommit
  <1>16. /\ request'[r] = j
         /\ \A q \in Requests : q # r => request'[q] = Raced(e, {"invite"})[q]
         /\ request' \in [Requests -> Request]
    BY <1>13, <1>14, <1>15 DEF Raced
  <1>17. \A q \in Requests : q # r =>
           /\ request'[q].op = request[q].op /\ request'[q].what = request[q].what
           /\ request'[q].who = request[q].who
           /\ request'[q].who = e /\ request'[q].op = "invite" => request'[q].raced
    BY <1>1, <1>16, RacedFacts
  <1>18. ASSUME NEW q \in Requests PROVE Sound(request[q])'
    <2>1. CASE q = r
      BY <1>3, <1>13, <1>16, <2>1 DEF Sound
    <2>2. CASE q # r
      <3>1. PICK k : k = request'[q] /\ Sound(k)
        BY <1>1, <1>16, <2>2, RacedSound DEF Core
      <3>2. k.op \notin {"idle", "store"} => k.who \in Emails
        BY <3>1 DEF Sound
      <3>3. k.op = "invite" /\ ~k.raced => k.who # e
        BY <1>17, <2>2, <3>1
      <3>4. Sound(k)'
        BY <1>1, <1>10, <1>11, <3>1, <3>2, <3>3, SoundKept
      <3>5. QED
        BY <3>1, <3>4 DEF Sound, Exists
    <2>3. QED
      BY <2>1, <2>2
  <1>19. /\ \A q \in Requests : request'[q].op \in {"accept", "reset", "rotate"} =>
              request[q].op = request'[q].op /\ request[q].what = request'[q].what
    BY <1>13, <1>16, <1>17
  <1>20. ASSUME NEW s \in Sessions PROVE SessionSound(s)'
    <2>1. session[s].who \in Emails \cup {None}
      BY <1>1 DEF TypeOK, Session
    <2>2. Live(s) => account'[session[s].who].epoch = account[session[s].who].epoch
      BY <1>11, <2>1 DEF Live
    <2>3. QED
      BY <1>1, <1>10, <1>19, <2>2, SessionKept DEF Core
  <1>21. ASSUME NEW u \in Tokens
         PROVE  token'[u] \in Token /\ TokenSound(u)'
    <2>1. CASE u = t
      <3>1. token'[u] = [NoToken EXCEPT !.who = e]
        BY <1>3, <2>1 DEF InviteCommit
      <3>2. NoToken \in Token
        BY DEF NoToken, Token
      <3>3. PICK z \in Token : z = NoToken /\ z.spare = 0 /\ ~z.used
        BY <3>2 DEF NoToken
      <3>4. PICK w : w = [z EXCEPT !.who = e]
        OBVIOUS
      <3>5. w \in Token /\ w.who = e /\ w.spare = 0 /\ ~w.used
        BY <3>3, <3>4 DEF Token
      <3>6. QED
        BY <1>10, <3>1, <3>3, <3>4, <3>5 DEF TokenSound
    <2>2. CASE u # t /\ token[u].who = e
      <3>1. token'[u] = UseToken(u)
        BY <1>3, <2>2 DEF InviteCommit
      <3>2. PICK w \in Token :
              /\ w = UseToken(u) /\ w.who = token[u].who /\ w.used /\ w.spare \in Int
              /\ w.spare >= 0 /\ w.spare >= Cardinality(Holding(u, {"accept", "reset"}))
        BY <1>1, UseFacts DEF Core
      <3>3. /\ Cardinality(Holding(u, {"accept", "reset"})') \in Nat
            /\ Cardinality(Holding(u, {"accept", "reset"})')
                 <= Cardinality(Holding(u, {"accept", "reset"}))
        BY <1>19, HoldingKept
      <3>4. w.spare >= Cardinality(Holding(u, {"accept", "reset"})')
        BY <3>2, <3>3, HoldingFinite
      <3>5. QED
        BY <1>10, <2>2, <3>1, <3>2, <3>4 DEF TokenSound
    <2>3. CASE u # t /\ token[u].who # e
      <3>1. token'[u] = token[u]
        BY <1>3, <2>3 DEF InviteCommit
      <3>2. TokenSound(u)'
        BY <1>1, <1>10, <1>19, <3>1, TokenKept DEF Core
      <3>3. QED
        BY <1>1, <3>1, <3>2 DEF TypeOK
    <2>4. QED
      BY <2>1, <2>2, <2>3
  <1>22. token' \in [Tokens -> Token]
    BY <1>21 DEF InviteCommit
  <1>23. ASSUME NEW f \in Emails PROVE AccountSound(f)'
    BY <1>1, <1>10 DEF Core, AccountSound, Exists
  <1>24. invited' = [invited EXCEPT ![p] = "yes"]
    BY <1>2 DEF InviteCommit
  <1>25. TypeOK'
    BY <1>1, <1>10, <1>16, <1>22, <1>24 DEF TypeOK
  <1>26. ASSUME NEW o \in Profiles, invited'[o] = "yes", linked'[o] # EmailOf[o]
         PROVE  Holding(o, {"link"})' # {}
    <2>1. CASE o = p
      BY <1>13, <1>16, <2>1 DEF Holding
    <2>2. CASE o # p
      <3>1. invited[o] = "yes" /\ linked[o] # EmailOf[o]
        BY <1>1, <1>24, <1>26, <2>2 DEF TypeOK
      <3>2. PICK q \in Requests : request[q].op = "link" /\ request[q].what = o
        BY <1>1, <3>1 DEF UnlinkedOnlyWhenCut, Holding
      <3>3. request'[q].op = "link" /\ request'[q].what = o
        BY <1>1, <1>17, <3>2
      <3>4. QED
        BY <3>3 DEF Holding
    <2>3. QED
      BY <2>1, <2>2
  <1>27. UnlinkedOnlyWhenCut'
    BY <1>26 DEF UnlinkedOnlyWhenCut
  <1>28. QED
    BY <1>18, <1>20, <1>21, <1>23, <1>25, <1>27 DEF Core, AccountsInv

-----------------------------------------------------------------------------
\* The step of one request.
LEMMA ServeStep ==
  ASSUME AccountsInv, NEW r \in Requests, Serve(r)
  PROVE  AccountsInv'
  <1>1. CASE \E e \in Emails : SignUp(r, e) \/ CreateUserBegin(r, e) \/ SignIn(r, e)
    BY <1>1, ReceiveStep
  <1>2. CASE CreateOwner(r) \/ CreateUserCommit(r)
    BY <1>2, RefusedStep, CreateStep
  <1>3. CASE \E s \in Sessions : CreateSession(r, s) \/ Refresh(r, s)
    BY <1>3, CreateSessionStep, ReceiveStep
  <1>4. CASE StoreHash(r) \/ PunishReuse(r) \/ Rotate(r)
    BY <1>4, StoreHashStep, PunishStep, RotateStep
  <1>5. CASE \E t \in Tokens :
               AcceptInvite(r, t) \/ ResetPassword(r, t) \/ InviteCommit(r, t)
    BY <1>5, ReceiveStep, InviteStep
  <1>6. CASE AcceptCommit(r) \/ ResetCommit(r)
    BY <1>6, AcceptStep
  <1>7. CASE \E p \in Profiles : Invite(r, p)
    BY <1>7, ReceiveStep
  <1>8. CASE InviteConflict(r) \/ LinkProfile(r) \/ Die(r)
    BY <1>8, RefusedStep, LinkStep, DieStep
  <1>9. QED
    BY <1>1, <1>2, <1>3, <1>4, <1>5, <1>6, <1>7, <1>8 DEF Serve

\* The state of accounts is an invariant of every step.
LEMMA AccountsInductive == AccountsInv /\ [Next]_vars => AccountsInv'
  <1> SUFFICES ASSUME AccountsInv, [Next]_vars PROVE AccountsInv'
    OBVIOUS
  <1>1. ASSUME NEW r \in Requests, Serve(r) PROVE AccountsInv'
    BY <1>1, ServeStep
  <1>2. CASE \/ \E s \in Sessions : Logout(s)
             \/ \E e \in Emails, t \in Tokens : ForgotPassword(e, t)
             \/ Expire
    BY <1>2, QuietStep
  <1>3. CASE \/ \E e \in Emails : SoftDelete(e) \/ RemoveMember(e)
             \/ \E e \in Emails, status \in StatusInputs : SetStatus(e, status)
             \/ \E e \in Emails, role \in RoleInputs : AddMember(e, role) \/ UpdateMember(e, role)
    BY <1>3, AdminStep
  <1>4. CASE UNCHANGED vars
    BY <1>4 DEF vars, AccountsInv, Core, TypeOK, Sound, TokenSound, SessionSound, AccountSound,
                Live, Exists, Holding, UnlinkedOnlyWhenCut
  <1>5. QED
    BY <1>1, <1>2, <1>3, <1>4 DEF Next

\* Nobody holds anything at first.
LEMMA AccountsInitially == Init => AccountsInv
  <1> SUFFICES ASSUME Init PROVE AccountsInv
    OBVIOUS
  <1>1. 0 \in 0..MaxEpoch
    BY AccountsAssumption
  <1>2. /\ [status |-> "NONE", role |-> "NONE", epoch |-> 0] \in Account
        /\ NoToken \in Token /\ NoSession \in Session /\ Idle \in Request
    BY <1>1 DEF Account, NoToken, Token, NoSession, Session, Idle, Request, Status, Role
  <1>3. TypeOK
    BY <1>2 DEF Init, TypeOK
  <1>4. \A r \in Requests : Sound(request[r])
    BY DEF Init, Idle, Sound
  <1>5. \A t \in Tokens : TokenSound(t)
    BY DEF Init, NoToken, TokenSound
  <1>6. \A s \in Sessions : SessionSound(s)
    BY DEF Init, NoSession, SessionSound, Live
  <1>7. \A e \in Emails : AccountSound(e)
    BY DEF Init, AccountSound
  <1>8. UnlinkedOnlyWhenCut
    BY DEF Init, UnlinkedOnlyWhenCut
  <1>9. QED
    BY <1>3, <1>4, <1>5, <1>6, <1>7, <1>8 DEF AccountsInv, Core

\* The state of accounts, at every moment.
LEMMA AccountsAlways == Spec => []AccountsInv
  <1>1. QED
    BY AccountsInitially, AccountsInductive, PTL DEF Spec

\* Every row and every request in flight keeps its type (the tables of the
\* schema and the locals of auth.service.ts).
THEOREM AccountsTypeCorrect == Spec => []TypeOK
  <1>1. AccountsInv => TypeOK
    BY DEF AccountsInv, Core
  <1>2. QED
    BY <1>1, AccountsAlways, PTL

\* A reset or invitation token lets no more requests through than had checked
\* it when it was first closed (acceptInvite, resetPassword).
THEOREM TokensSpentByOverlap == Spec => []TokenUsesBoundedByOverlap
  <1>1. AccountsInv => TokenUsesBoundedByOverlap
    BY DEF AccountsInv, Core, TokenSound, TokenUsesBoundedByOverlap
  <1>2. QED
    BY <1>1, AccountsAlways, PTL

\* No more sessions descend from one than refreshes that had found it open
\* when it was closed (refresh).
THEOREM ForksByOverlap == Spec => []RefreshForksOnlyOnOverlap
  <1>1. AccountsInv => RefreshForksOnlyOnOverlap
    BY DEF AccountsInv, Core, SessionSound, RefreshForksOnlyOnOverlap
  <1>2. QED
    BY <1>1, AccountsAlways, PTL

\* A live session knows the present password of its account, or comes from a
\* request that was under way when it was set (login, refresh, resetPassword).
THEOREM SurvivorsRaced == Spec => []SurvivorsRacedTheReset
  <1>1. AccountsInv => SurvivorsRacedTheReset
    BY DEF AccountsInv, Core, SessionSound, SurvivorsRacedTheReset
  <1>2. QED
    BY <1>1, AccountsAlways, PTL

\* An invitation that was committed has its profile linked, or somebody about
\* to link it, or was cut between the two writes (createInvitation).
THEOREM InvitedAreLinked == Spec => []UnlinkedOnlyWhenCut
  <1>1. AccountsInv => UnlinkedOnlyWhenCut
    BY DEF AccountsInv
  <1>2. QED
    BY <1>1, AccountsAlways, PTL

-----------------------------------------------------------------------------
\* Only createInvitation turns a request that is to invite into one that is to link.
LEMMA OnlyInviteCommits ==
  ASSUME TypeOK, [Next]_vars, NEW r \in Requests,
         request[r].op = "invite", request'[r].op = "link"
  PROVE  \E t \in Tokens : InviteCommit(r, t)
  <1>1. ASSUME NEW q \in Requests, NEW k, request' = [request EXCEPT ![q] = k], q # r
        PROVE  FALSE
    BY <1>1 DEF TypeOK
  <1>2. ASSUME NEW e, NEW ops, NEW q \in Requests, NEW k,
               \/ request' = [Raced(e, ops) EXCEPT ![q] = k] /\ q # r
               \/ request' = Raced(e, ops)
        PROVE  FALSE
    <2>1. request'[r] = Raced(e, ops)[r]
      BY <1>2 DEF Raced
    <2>2. QED
      BY <2>1, RacedFacts
  <1>3. request' # request
    OBVIOUS
  <1>4. ASSUME NEW q \in Requests, NEW k, Receive(q, k) PROVE FALSE
    BY <1>1, <1>4 DEF Receive, Idle
  <1>5. ASSUME NEW q \in Requests, Answer(q) PROVE FALSE
    <2>1. CASE q = r
      BY <1>5, <2>1 DEF Answer, Idle, TypeOK
    <2>2. QED
      BY <1>1, <1>5, <2>1 DEF Answer
  <1>6. ASSUME NEW q \in Requests, Serve(q)
        PROVE  \E t \in Tokens : InviteCommit(r, t)
    <2>1. ~(\E e \in Emails : SignUp(q, e) \/ CreateUserBegin(q, e) \/ SignIn(q, e))
      BY <1>4 DEF SignUp, CreateUserBegin, SignIn
    <2>2. ~(CreateOwner(q) \/ CreateUserCommit(q))
      <3>1. ~CreateUserCommit(q)
        BY <1>5 DEF CreateUserCommit
      <3>2. ~CreateOwner(q)
        <4>1. CASE q = r
          BY <4>1 DEF CreateOwner
        <4>2. CASE q # r
          BY <1>5, <4>2 DEF CreateOwner, TypeOK
        <4>3. QED
          BY <4>1, <4>2
      <3>3. QED
        BY <3>1, <3>2
    <2>3. ~(\E s \in Sessions : CreateSession(q, s) \/ Refresh(q, s))
      <3>1. ASSUME NEW s \in Sessions, Refresh(q, s) PROVE FALSE
        BY <1>4, <3>1 DEF Refresh
      <3>2. ASSUME NEW s \in Sessions, CreateSession(q, s) PROVE FALSE
        BY <1>1, <3>2 DEF CreateSession
      <3>3. QED
        BY <3>1, <3>2
    <2>4. ~(StoreHash(q) \/ PunishReuse(q) \/ Rotate(q))
      <3>1. CASE q = r
        BY <3>1 DEF StoreHash, PunishReuse, Rotate
      <3>2. CASE q # r
        BY <1>5, <3>2 DEF StoreHash, PunishReuse, Rotate, TypeOK
      <3>3. QED
        BY <3>1, <3>2
    <2>5. ~(AcceptCommit(q) \/ ResetCommit(q))
      <3>1. CASE q = r
        BY <3>1 DEF AcceptCommit, ResetCommit
      <3>2. CASE q # r
        <4>1. \A e, ops, k : request' # [Raced(e, ops) EXCEPT ![q] = k]
          <5> SUFFICES ASSUME NEW e, NEW ops, NEW k, request' = [Raced(e, ops) EXCEPT ![q] = k]
                       PROVE  FALSE
            OBVIOUS
          <5> QED
            BY <1>2, <3>2
        <4>2. ~AcceptCommit(q)
          BY <4>1 DEF AcceptCommit
        <4>3. ~ResetCommit(q)
          BY <4>1 DEF ResetCommit
        <4>4. QED
          BY <4>2, <4>3
      <3>3. QED
        BY <3>1, <3>2
    <2>6. ~(\E p \in Profiles : Invite(q, p))
      BY <1>4 DEF Invite
    <2>7. ~(InviteConflict(q) \/ LinkProfile(q) \/ Die(q))
      BY <1>5 DEF InviteConflict, LinkProfile, Die
    <2>8. PICK t \in Tokens :
            AcceptInvite(q, t) \/ ResetPassword(q, t) \/ InviteCommit(q, t)
      BY <1>6, <2>1, <2>2, <2>3, <2>4, <2>5, <2>6, <2>7 DEF Serve
    <2>9. ~AcceptInvite(q, t) /\ ~ResetPassword(q, t)
      BY <1>4 DEF AcceptInvite, ResetPassword
    <2>10. InviteCommit(q, t)
      BY <2>8, <2>9
    <2>11. q = r
      BY <1>2, <2>10 DEF InviteCommit
    <2>12. QED
      BY <2>10, <2>11
  <1>7. ~(\E e \in Emails : SoftDelete(e))
    BY <1>2 DEF SoftDelete, SetStatus
  <1>8. ~(\E e \in Emails, status \in StatusInputs : SetStatus(e, status))
    BY <1>2 DEF SetStatus
  <1>9. QED
    BY <1>3, <1>6, <1>7, <1>8 DEF Next, vars, Logout, ForgotPassword, RemoveMember, UpdateMember,
                                  AddMember, Expire

\* An invitation that read the account's present status leaves an accepted
\* account accepted and accepts none (createInvitation).
THEOREM InvitationsKeepStatus == Spec => InvitationKeepsStatus
  <1> DEFINE Keeps == \A r \in Requests :
         request[r].op = "invite" /\ request'[r].op = "link" /\ ~request[r].raced
         => LET e == request[r].who IN
            (account'[e].status = "ACTIVE") <=> (account[e].status = "ACTIVE")
  <1>1. ASSUME AccountsInv, [Next]_vars
        PROVE  Keeps
    <2> SUFFICES ASSUME NEW r \in Requests, request[r].op = "invite",
                        request'[r].op = "link", ~request[r].raced,
                        NEW e, e = request[r].who
                 PROVE  (account'[e].status = "ACTIVE") <=> (account[e].status = "ACTIVE")
      OBVIOUS
    <2>1. Core /\ TypeOK /\ Sound(request[r])
      BY <1>1 DEF AccountsInv, Core
    <2>2. PICK t \in Tokens : InviteCommit(r, t)
      BY <1>1, <2>1, OnlyInviteCommits
    <2>3. e \in Emails /\ account[e] \in Account
      BY <2>1 DEF Sound, TypeOK
    <2>4. request[r].saw = account[e].status
      BY <2>1, <2>2 DEF Sound, InviteCommit
    <2>5. account'[e].status = StatusInvited(account[e].status)
      BY <2>1, <2>2, <2>3, <2>4 DEF InviteCommit, TypeOK, Account
    <2>6. QED
      BY <2>5 DEF StatusInvited
  <1>2. QED
    BY <1>1, AccountsAlways, PTL DEF Spec, InvitationKeepsStatus
=============================================================================
