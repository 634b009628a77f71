------------------------------ MODULE Accounts ------------------------------
(***************************************************************************)
(* Accounts of one workspace: sign-up, invitations, sign-in, rotation of   *)
(* refresh tokens, password resets, membership (auth.service.ts,           *)
(* users.service.ts, workspaces.service.ts).                               *)
(*                                                                         *)
(* A member of Requests is one HTTP request in flight; "op" of its record  *)
(* names what it has to do next.  Each step is what the handler does       *)
(* between two awaits whose result it keeps: a query it acts on later, a   *)
(* write, or a transaction.  A transaction that first updates the User row *)
(* holds that row's lock to its end, so two of them on one account do not  *)
(* interleave and each is one step; what it read BEFORE that update is a   *)
(* step of its own.                                                        *)
(*                                                                         *)
(* Passwords are counted, not spelled: "epoch" of an account is how often  *)
(* its password was set, 0 while it is the random one of an invitation     *)
(* that nobody knows.  An invitation token and a reset token are rows of   *)
(* the same table and either handler takes either.                         *)
(***************************************************************************)
EXTENDS Integers, FiniteSets

CONSTANTS
  Emails,        \* addresses: User.email is unique, so an account is its address
  Profiles,      \* Employee and CustomerContact rows
  EmailOf,       \* the address a profile carries
  KindOf,        \* "EMPLOYEE" or "CUSTOMER_CONTACT"
  Tokens,        \* PasswordResetToken rows that may be created
  Sessions,      \* RefreshSession rows that may be created
  Requests,      \* requests that may be in flight together
  PublicSignUp,  \* ALLOW_PUBLIC_SIGN_UP
  SiteAdmin,     \* whether there is a site administrator, who needs no membership
  StatusInputs,  \* statuses an administrator writes
  RoleInputs,    \* membership roles an owner or administrator gives
  MaxEpoch,      \* bound: how often a password is set
  None           \* null

ASSUME AccountsAssumption ==
  /\ EmailOf \in [Profiles -> Emails]
  /\ KindOf \in [Profiles -> {"EMPLOYEE", "CUSTOMER_CONTACT"}]
  /\ StatusInputs \subseteq {"INVITED", "ACTIVE", "SUSPENDED", "DELETED"}
  /\ RoleInputs \subseteq {"OWNER", "ADMIN", "MANAGER", "MEMBER", "VIEWER"}
  /\ {PublicSignUp, SiteAdmin} \subseteq BOOLEAN /\ MaxEpoch \in Nat \ {0}
  /\ IsFiniteSet(Requests)
  /\ None \notin Emails \cup Profiles \cup Tokens \cup Sessions

VARIABLES
  account,  \* per address: the User row and its WorkspaceMembership row
  linked,   \* per profile: the account its userId names
  token,    \* PasswordResetToken rows
  session,  \* RefreshSession rows
  request,  \* what each request in flight has read and does next
  invited   \* history, per profile: "no", "yes", "cut" (the request died or
            \* failed after the invitation was committed)

vars == <<account, linked, token, session, request, invited>>

Status == {"NONE", "INVITED", "ACTIVE", "SUSPENDED", "DELETED"}
Role   == {"NONE", "OWNER", "ADMIN", "MANAGER", "MEMBER", "VIEWER"}
Elevated == {"OWNER", "ADMIN"}

(* "spare" of a token or a session is history: the number of requests that *)
(* had found the row open when it was closed (a token used, a session      *)
(* revoked), less the number of requests that have gone through with it.   *)
Account == [status : Status, role : Role, epoch : 0..MaxEpoch]
Token == [who : Emails \cup {None}, used : BOOLEAN, expired : BOOLEAN,
          spare : Int]
Session == [who : Emails \cup {None}, hash : {"pending", "stored"},
            revoked : BOOLEAN, expired : BOOLEAN,
            epoch : 0..MaxEpoch, raced : BOOLEAN, spare : Int]

(* "epoch", "raced" of a request and of the session it makes are history:  *)
(* the password the request proved, and whether the password, or for an    *)
(* invitation the status, was set after the request had read the account.  *)
Request ==
  [op : {"idle", "signUp", "create", "accept", "reset", "rotate", "punish",
         "issue", "store", "invite", "link"},
   who : Emails \cup {None}, what : Tokens \cup Sessions \cup Profiles \cup {None},
   saw : Status, epoch : 0..MaxEpoch, raced : BOOLEAN]

NoToken   == [who |-> None, used |-> FALSE, expired |-> FALSE, spare |-> 0]
NoSession == [who |-> None, hash |-> "pending", revoked |-> FALSE,
              expired |-> FALSE, epoch |-> 0, raced |-> FALSE, spare |-> 0]
Idle      == [op |-> "idle", who |-> None, what |-> None, saw |-> "NONE",
              epoch |-> 0, raced |-> FALSE]

TypeOK ==
  /\ account \in [Emails -> Account]
  /\ linked \in [Profiles -> Emails \cup {None}]
  /\ token \in [Tokens -> Token]
  /\ session \in [Sessions -> Session]
  /\ request \in [Requests -> Request]
  /\ invited \in [Profiles -> {"no", "yes", "cut"}]

Init ==
  /\ account = [e \in Emails |-> [status |-> "NONE", role |-> "NONE", epoch |-> 0]]
  /\ linked = [p \in Profiles |-> None]
  /\ token = [t \in Tokens |-> NoToken]
  /\ session = [s \in Sessions |-> NoSession]
  /\ request = [r \in Requests |-> Idle]
  /\ invited = [p \in Profiles |-> "no"]

-----------------------------------------------------------------------------
Exists(e) == account[e].status # "NONE"
Live(s)   == session[s].who # None /\ ~session[s].revoked /\ ~session[s].expired

\* Mutant of Open: a used token opens.
OpenUsed(t) == token[t].who # None /\ ~token[t].expired

Open(t)   == token[t].who # None /\ ~token[t].used /\ ~token[t].expired

Holding(x, ops) == {r \in Requests : request[r].op \in ops /\ request[r].what = x}

Receive(r, rec) == request[r] = Idle /\ request' = [request EXCEPT ![r] = rec]
Answer(r)       == request' = [request EXCEPT ![r] = Idle]

(* A row is closed once; the requests that hold it then may still use it.  *)
Revoke(s) ==
  IF session[s].revoked THEN session[s]
  ELSE [session[s] EXCEPT !.revoked = TRUE, !.epoch = 0, !.raced = FALSE,
                          !.spare = Cardinality(Holding(s, {"rotate"}))]

\* Mutant of RevokeAll: only sessions whose hash is stored are revoked.
RevokeStored(e) ==
  session' = [s \in Sessions |->
    IF session[s].who = e /\ session[s].hash = "stored" THEN Revoke(s) ELSE session[s]]

RevokeAll(e) ==
  session' = [s \in Sessions |-> IF session[s].who = e THEN Revoke(s) ELSE session[s]]

UseToken(t) ==
  IF token[t].used THEN token[t]
  ELSE [token[t] EXCEPT !.used = TRUE,
                        !.spare = Cardinality(Holding(t, {"accept", "reset"}))]

Raced(e, ops) ==
  [q \in Requests |->
    IF request[q].who = e /\ request[q].op \in ops
    THEN [request[q] EXCEPT !.raced = TRUE] ELSE request[q]]

-----------------------------------------------------------------------------
(* Sign-up.  The public is turned away once any account exists.            *)
SignUp(r, e) ==
  /\ PublicSignUp \/ \A f \in Emails : ~Exists(f)
  /\ ~Exists(e)
  /\ Receive(r, [Idle EXCEPT !.op = "signUp", !.who = e])
  /\ UNCHANGED <<account, linked, token, session, invited>>

(* User, workspace, membership and employee profile in one transaction; a  *)
(* unique index refuses an address taken meanwhile.  (The owner's employee *)
(* row is new and its own, none of Profiles.)                              *)
CreateOwner(r) ==
  LET e == request[r].who IN
  /\ request[r].op = "signUp"
  /\ IF Exists(e)
     THEN Answer(r) /\ UNCHANGED account
     ELSE /\ account' = [account EXCEPT ![e] =
               [status |-> "ACTIVE", role |-> "OWNER", epoch |-> 1]]
          /\ request' = [request EXCEPT ![r].op = "issue", ![r].epoch = 1]
  /\ UNCHANGED <<linked, token, session, invited>>

(* An account made by an administrator: looked up, hashed, then created.   *)
CreateUserBegin(r, e) ==
  /\ ~Exists(e)
  /\ Receive(r, [Idle EXCEPT !.op = "create", !.who = e])
  /\ UNCHANGED <<account, linked, token, session, invited>>

CreateUserCommit(r) ==
  LET e == request[r].who IN
  /\ request[r].op = "create"
  /\ account' = IF Exists(e) THEN account ELSE
       [account EXCEPT ![e] = [status |-> "ACTIVE", role |-> "NONE", epoch |-> 1]]
  /\ Answer(r)
  /\ UNCHANGED <<linked, token, session, invited>>

-----------------------------------------------------------------------------
(* withTokens: the session row is created before the token it will name is *)
(* signed, and its hash is stored by a second write.                       *)
CreateSession(r, s) ==
  /\ request[r].op = "issue" /\ session[s].who = None
  /\ session' = [session EXCEPT ![s] =
       [NoSession EXCEPT !.who = request[r].who, !.epoch = request[r].epoch,
                         !.raced = request[r].raced]]
  /\ request' = [request EXCEPT ![r] = [Idle EXCEPT !.op = "store", !.what = s]]
  /\ UNCHANGED <<account, linked, token, invited>>

StoreHash(r) ==
  /\ request[r].op = "store"
  /\ session' = [session EXCEPT ![request[r].what].hash = "stored"]
  /\ Answer(r)
  /\ UNCHANGED <<account, linked, token, invited>>

(* The hash is read with the row and compared afterwards, the status is    *)
(* not asked; nobody knows the password of epoch 0.                        *)
SignIn(r, e) ==
  /\ account[e].epoch > 0
  /\ Receive(r, [Idle EXCEPT !.op = "issue", !.who = e, !.epoch = account[e].epoch])
  /\ UNCHANGED <<account, linked, token, session, invited>>

\* Mutant of Refresh: a revoked session is refreshed like any other.
RefreshRevoked(r, s) ==
  /\ session[s].hash = "stored" /\ ~session[s].expired
  /\ Receive(r, [Idle EXCEPT !.op = "rotate", !.who = session[s].who, !.what = s,
                             !.epoch = session[s].epoch, !.raced = session[s].raced])
  /\ UNCHANGED <<account, linked, token, session, invited>>

(* A presented token is read with its session and user.  A token whose     *)
(* session is revoked is taken for a stolen one.                           *)
Refresh(r, s) ==
  /\ session[s].hash = "stored" /\ ~session[s].expired
  /\ Receive(r, [Idle EXCEPT !.op = IF session[s].revoked THEN "punish" ELSE "rotate",
                             !.who = session[s].who, !.what = s,
                             !.epoch = session[s].epoch, !.raced = session[s].raced])
  /\ UNCHANGED <<account, linked, token, session, invited>>

PunishReuse(r) ==
  /\ request[r].op = "punish"
  /\ RevokeAll(request[r].who)
  /\ Answer(r)
  /\ UNCHANGED <<account, linked, token, invited>>

(* The session is revoked whatever became of it since it was read.         *)
Rotate(r) ==
  LET s == request[r].what IN
  /\ request[r].op = "rotate"
  /\ session' = [session EXCEPT ![s] = [Revoke(s) EXCEPT !.spare = @ - 1]]
  /\ request' = [request EXCEPT ![r].op = "issue", ![r].what = None]
  /\ UNCHANGED <<account, linked, token, invited>>

Logout(s) ==
  /\ session[s].hash = "stored" /\ ~session[s].revoked
  /\ session' = [session EXCEPT ![s] = Revoke(s)]
  /\ UNCHANGED <<account, linked, token, request, invited>>

-----------------------------------------------------------------------------
(* A reset adds a token and closes no older one.                           *)
ForgotPassword(e, t) ==
  /\ Exists(e) /\ token[t].who = None
  /\ token' = [token EXCEPT ![t].who = e]
  /\ UNCHANGED <<account, linked, session, request, invited>>

(* getValidInviteRecord and the membership it must come with; the same     *)
(* check without the membership opens a reset.                             *)
AcceptInvite(r, t) ==
  /\ Open(t) /\ account[token[t].who].role # "NONE"
  /\ Receive(r, [Idle EXCEPT !.op = "accept", !.who = token[t].who, !.what = t])
  /\ UNCHANGED <<account, linked, token, session, invited>>

ResetPassword(r, t) ==
  /\ Open(t)
  /\ Receive(r, [Idle EXCEPT !.op = "reset", !.who = token[t].who, !.what = t])
  /\ UNCHANGED <<account, linked, token, session, invited>>

(* What both transactions do: the new password, the token used, every      *)
(* session revoked.  Neither looks at the token again.                     *)
SpendToken(r, e, status, epoch) ==
  LET t == request[r].what IN
  /\ account[e].epoch < MaxEpoch
  /\ account' = [account EXCEPT ![e].status = status, ![e].epoch = epoch]
  /\ token' = [token EXCEPT ![t] = [UseToken(t) EXCEPT !.spare = @ - 1]]
  /\ RevokeAll(e)
  /\ UNCHANGED <<linked, invited>>

AcceptCommit(r) ==
  LET e == request[r].who
      k == account[e].epoch + 1 IN
  /\ request[r].op = "accept"
  /\ SpendToken(r, e, "ACTIVE", k)
  /\ request' = [Raced(e, {"issue", "rotate", "invite"}) EXCEPT ![r] =
       [Idle EXCEPT !.op = "issue", !.who = e, !.epoch = k]]

ResetCommit(r) ==
  LET e == request[r].who IN
  /\ request[r].op = "reset"
  /\ SpendToken(r, e, account[e].status, account[e].epoch + 1)
  /\ request' = [Raced(e, {"issue", "rotate"}) EXCEPT ![r] = Idle]

-----------------------------------------------------------------------------
(* inviteCustomerContact, inviteEmployee: the transaction of               *)
(* createInvitation reads the account's status first ...                   *)
Invite(r, p) ==
  /\ Receive(r, [Idle EXCEPT !.op = "invite", !.who = EmailOf[p], !.what = p,
                             !.saw = account[EmailOf[p]].status])
  /\ UNCHANGED <<account, linked, token, session, invited>>

\* Mutant of InvitedAs: the name of the role where the membership's belongs.
InvitedAsNamed(p) == IF KindOf[p] = "EMPLOYEE" THEN "STAFF" ELSE "CLIENT_CONTACT"

InvitedAs(p) == IF KindOf[p] = "EMPLOYEE" THEN "MEMBER" ELSE "VIEWER"

\* Mutant of StatusInvited: whoever is invited has to accept.
AlwaysInvited(saw) == "INVITED"

StatusInvited(saw) == IF saw = "ACTIVE" THEN "ACTIVE" ELSE "INVITED"

(* ... then writes the account and the membership, closes the account's    *)
(* open tokens and creates one.  An account created since the read is      *)
(* refused by the unique index.                                            *)
InviteCommit(r, t) ==
  LET e == request[r].who
      p == request[r].what IN
  /\ request[r].op = "invite" /\ token[t].who = None
  /\ request[r].saw # "NONE" \/ ~Exists(e)
  /\ account' = [account EXCEPT ![e].role = InvitedAs(p),
       ![e].status = StatusInvited(request[r].saw)]
  /\ token' = [u \in Tokens |->
       IF u = t THEN [NoToken EXCEPT !.who = e]
       ELSE IF token[u].who = e THEN UseToken(u) ELSE token[u]]
  /\ invited' = [invited EXCEPT ![p] = "yes"]
  /\ request' = [Raced(e, {"invite"}) EXCEPT ![r] =
       [Idle EXCEPT !.op = "link", !.who = e, !.what = p]]
  /\ UNCHANGED <<linked, session>>

InviteConflict(r) ==
  /\ request[r].op = "invite" /\ request[r].saw = "NONE" /\ Exists(request[r].who)
  /\ Answer(r)
  /\ UNCHANGED <<account, linked, token, session, invited>>

(* linkProfile runs after the commit; a profile's userId is unique.        *)
Taken(p, e) == \E q \in Profiles \ {p} : KindOf[q] = KindOf[p] /\ linked[q] = e

\* Mutant of LinkProfile: an account that needs no invitation is not linked.
LinkInvited(r) ==
  LET e == request[r].who IN
  /\ request[r].op = "link"
  /\ linked' = IF account[e].status = "INVITED" THEN [linked EXCEPT ![request[r].what] = e]
               ELSE linked
  /\ Answer(r)
  /\ UNCHANGED <<account, token, session, invited>>

LinkProfile(r) ==
  LET e == request[r].who
      p == request[r].what IN
  /\ request[r].op = "link"
  /\ IF Taken(p, e)
     THEN invited' = [invited EXCEPT ![p] = "cut"] /\ UNCHANGED linked
     ELSE linked' = [linked EXCEPT ![p] = e] /\ UNCHANGED invited
  /\ Answer(r)
  /\ UNCHANGED <<account, token, session>>

-----------------------------------------------------------------------------
(* Administration: status and membership of an account.                    *)
SetStatus(e, status) ==
  /\ Exists(e) /\ status # account[e].status
  /\ account' = [account EXCEPT ![e].status = status]
  /\ request' = Raced(e, {"invite"})
  /\ UNCHANGED <<linked, token, session, invited>>

SoftDelete(e) == Exists(e) /\ SetStatus(e, "DELETED")

OwnerOrAdmin == SiteAdmin \/ \E e \in Emails : account[e].role \in Elevated

AddMember(e, role) ==
  /\ OwnerOrAdmin /\ Exists(e)
  /\ account' = [account EXCEPT ![e].role = role]
  /\ UNCHANGED <<linked, token, session, request, invited>>

UpdateMember(e, role) == account[e].role # "NONE" /\ AddMember(e, role)

RemoveMember(e) ==
  /\ OwnerOrAdmin /\ account[e].role # "NONE"
  /\ account' = [account EXCEPT ![e].role = "NONE"]
  /\ UNCHANGED <<linked, token, session, request, invited>>

-----------------------------------------------------------------------------
(* Environment: time passes, a request dies with its process.              *)
Expire ==
  /\ \/ \E t \in Tokens : /\ Open(t)
                          /\ token' = [token EXCEPT ![t].expired = TRUE]
                          /\ UNCHANGED session
     \/ \E s \in Sessions : /\ Live(s)
                            /\ session' = [session EXCEPT ![s] = [@ EXCEPT
                                 !.expired = TRUE, !.epoch = 0, !.raced = FALSE]]
                            /\ UNCHANGED token
  /\ UNCHANGED <<account, linked, request, invited>>

Die(r) ==
  /\ request[r].op # "idle"
  /\ invited' = IF request[r].op = "link"
                THEN [invited EXCEPT ![request[r].what] = "cut"] ELSE invited
  /\ Answer(r)
  /\ UNCHANGED <<account, linked, token, session>>

Serve(r) ==
  \/ \E e \in Emails : SignUp(r, e) \/ CreateUserBegin(r, e) \/ SignIn(r, e)
  \/ CreateOwner(r) \/ CreateUserCommit(r)
  \/ \E s \in Sessions : CreateSession(r, s) \/ Refresh(r, s)
  \/ StoreHash(r) \/ PunishReuse(r) \/ Rotate(r)
  \/ \E t \in Tokens :
       AcceptInvite(r, t) \/ ResetPassword(r, t) \/ InviteCommit(r, t)
  \/ AcceptCommit(r) \/ ResetCommit(r)
  \/ \E p \in Profiles : Invite(r, p)
  \/ InviteConflict(r) \/ LinkProfile(r)
  \/ Die(r)

Next ==
  \/ \E r \in Requests : Serve(r)
  \/ \E s \in Sessions : Logout(s)
  \/ \E e \in Emails, t \in Tokens : ForgotPassword(e, t)
  \/ \E e \in Emails : SoftDelete(e) \/ RemoveMember(e)
  \/ \E e \in Emails, status \in StatusInputs : SetStatus(e, status)
  \/ \E e \in Emails, role \in RoleInputs : AddMember(e, role) \/ UpdateMember(e, role)
  \/ Expire

Spec == Init /\ [][Next]_vars

-----------------------------------------------------------------------------
(* A token, of an invitation or a reset, is checked long before it is      *)
(* marked used (a slow hash lies between).  Even so, the requests that go  *)
(* through with it never outnumber those that had checked it when it was   *)
(* first closed: nothing that starts later gets in.                        *)
TokenUsesBoundedByOverlap == \A t \in Tokens : token[t].spare >= 0

(* The same for a refresh token: two sessions descend from one only if     *)
(* their refreshes overlapped.                                             *)
RefreshForksOnlyOnOverlap == \A s \in Sessions : session[s].spare >= 0

(* Setting a password cuts off every session there is.  A session that is  *)
(* live although it proved an older password was made, or descends from    *)
(* one made, by a request that was between its check and its session when  *)
(* the password was set.                                                   *)
SurvivorsRacedTheReset ==
  \A s \in Sessions :
    Live(s) => session[s].raced \/ session[s].epoch = account[session[s].who].epoch

(* A committed invitation has its profile linked, unless the link is still *)
(* to come, or the request died before it or was refused it.               *)
UnlinkedOnlyWhenCut ==
  \A p \in Profiles :
    invited[p] = "yes" => linked[p] = EmailOf[p] \/ Holding(p, {"link"}) # {}

(* An invitation leaves an accepted account accepted and accepts none:     *)
(* only one that had read the account before its status was last written   *)
(* may take it back to INVITED, or bring a deleted account back to ACTIVE. *)
InvitationKeepsStatus ==
  [][\A r \in Requests :
       request[r].op = "invite" /\ request'[r].op = "link" /\ ~request[r].raced
       => LET e == request[r].who IN
          (account'[e].status = "ACTIVE") <=> (account[e].status = "ACTIVE")]_vars

=============================================================================
