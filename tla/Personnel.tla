----------------------------- MODULE Personnel -----------------------------
(***************************************************************************)
(* Employee profiles and the accounts they are linked to:                  *)
(* workforce.service.ts (create, update, terminate, invite) and the        *)
(* profile the staff portal finds, links or creates for whoever signs in   *)
(* (resolveEmployee of staff-portal.service.ts).                           *)
(*                                                                         *)
(* Every operation reads, looks for an account or a free number, and       *)
(* writes; a member of Clerks is one under way.  All Users belong to the   *)
(* workspace, and an account is named after its address; an address        *)
(* without an account of the workspace is like none.                       *)
(***************************************************************************)
EXTENDS Integers, FiniteSets

CONSTANTS
  Profiles,     \* identities of employee rows
  Users, Owner, \* accounts; the one that owns the workspace
  Clerks,
  HandNumbers,  \* employee numbers an administrator types
  EmptyNumber,  \* the empty one, which a profile can be given by an edit
  Nobody,       \* null: no account, no address, no row; or nothing given
  Blank         \* a userId that is given, but empty or null

ASSUME PersonnelAssumption ==
  /\ Owner \in Users /\ Nobody \notin Users \cup Profiles
  /\ Blank \notin Users \cup {Nobody}
  /\ HandNumbers \cup {EmptyNumber} \subseteq Nat \ {0}

VARIABLES
  profile, \* the rows; number 0 while a row does not exist
  clerk,   \* the calls under way
  byHand   \* history: some number was typed

personnelVars == <<profile, clerk, byHand>>

NoProfile == [number |-> 0, email |-> Nobody, user |-> Nobody, terminated |-> FALSE]
AtDesk == [op |-> "idle", row |-> Nobody, email |-> Nobody, user |-> Nobody,
           number |-> 0, probes |-> FALSE, typed |-> FALSE, asked |-> Nobody, late |-> FALSE]

Exists(x) == profile[x].number # 0
Staff == {x \in Profiles : Exists(x)}
Numbers == {profile[x].number : x \in Staff}
NextNumber == Cardinality(Staff) + 1

PersonnelTypeOK ==
  /\ profile \in [Profiles -> [number : Nat, email : Users \cup {Nobody},
                               user : Users \cup {Nobody}, terminated : BOOLEAN]]
  /\ clerk \in [Clerks ->
       [op : {"idle", "count", "probe", "insert", "update", "link"},
        row : Profiles \cup {Nobody}, email : Users \cup {Nobody},
        user : Users \cup {Nobody}, number : Nat, probes : BOOLEAN,
        typed : BOOLEAN, asked : Users \cup {Nobody, Blank}, late : BOOLEAN]]
  /\ byHand \in BOOLEAN

(* Registering a workspace makes its owner's profile (auth.service.ts); a  *)
(* workspace made in another way has none.                                 *)
OwnerProfile == [NoProfile EXCEPT !.number = 1, !.email = Owner, !.user = Owner]
PersonnelInit ==
  /\ \/ profile = [x \in Profiles |-> NoProfile]
     \/ \E x \in Profiles : profile = [y \in Profiles |-> IF y = x THEN OwnerProfile
                                                          ELSE NoProfile]
  /\ clerk = [c \in Clerks |-> AtDesk]
  /\ byHand = FALSE

-----------------------------------------------------------------------------
Start(c, rec) == clerk[c] = AtDesk /\ clerk' = [clerk EXCEPT ![c] = rec]
Done(c)       == clerk' = [clerk EXCEPT ![c] = AtDesk]

(* If the link or the address of row x changes, whoever has read it to     *)
(* find an account is late.                                                *)
DoneWith(c, x) ==
  clerk' = [d \in Clerks |->
    IF d = c THEN AtDesk
    ELSE IF /\ clerk[d].row = x /\ clerk[d].user # Nobody /\ clerk[d].asked = Nobody
            /\ <<profile[x].user, profile[x].email>> # <<profile'[x].user, profile'[x].email>>
    THEN [clerk[d] EXCEPT !.late = TRUE] ELSE clerk[d]]

Linked(u, but) == \E y \in Staff \ {but} : profile[y].user = u

(* The account of an employee: the one named, else that of the address; in *)
(* either case no other profile may be linked to it.                       *)
resolveEmployeeUserId(explicit, email, x) ==
  LET u == IF explicit # Nobody THEN explicit ELSE email
  IN IF u # Nobody /\ Linked(u, x) THEN {} ELSE {u}

createEmployee(c, explicit, email, number) ==
  /\ clerk[c] = AtDesk
  /\ \E u \in resolveEmployeeUserId(explicit, email, Nobody) :
       Start(c, [AtDesk EXCEPT !.op = IF number = 0 THEN "count" ELSE "insert",
                   !.user = u, !.email = email, !.number = number, !.probes = TRUE,
                   !.typed = number # 0])
  /\ UNCHANGED <<profile, byHand>>

(* The portal makes the owner's missing profile: found neither by account  *)
(* nor by address.                                                         *)
createOwnerEmployee(c) ==
  /\ ~ \E x \in Staff : profile[x].user = Owner
  /\ ~ \E x \in Staff : profile[x].email = Owner /\ ~profile[x].terminated
  /\ Start(c, [AtDesk EXCEPT !.op = "count", !.user = Owner, !.email = Owner])
  /\ UNCHANGED <<profile, byHand>>

(* Two functions of one name: workforce probes from the count upward, the  *)
(* staff portal takes the number after the count.                          *)
\* Mutant of generateEmployeeNumber: one too many is counted.
generateFurtherNumber(c) ==
  /\ clerk[c].op = "count"
  /\ clerk' = [clerk EXCEPT ![c].number = NextNumber + 1,
                            ![c].op = IF clerk[c].probes THEN "probe" ELSE "insert"]
  /\ UNCHANGED <<profile, byHand>>

generateEmployeeNumber(c) ==
  /\ clerk[c].op = "count"
  /\ clerk' = [clerk EXCEPT ![c].number = NextNumber,
                            ![c].op = IF clerk[c].probes THEN "probe" ELSE "insert"]
  /\ UNCHANGED <<profile, byHand>>

probeNumber(c) ==
  /\ clerk[c].op = "probe"
  /\ clerk' = IF clerk[c].number \in Numbers
              THEN [clerk EXCEPT ![c].number = @ + 1]
              ELSE [clerk EXCEPT ![c].op = "insert"]
  /\ UNCHANGED <<profile, byHand>>

(* Numbers and links are unique in the database: else the call fails.      *)
insertProfile(c, x, terminated) ==
  LET rec == [NoProfile EXCEPT !.number = clerk[c].number, !.email = clerk[c].email,
                               !.user = clerk[c].user, !.terminated = terminated] IN
  /\ clerk[c].op = "insert" /\ ~Exists(x) /\ Done(c)
  /\ terminated => clerk[c].probes
  /\ IF clerk[c].number \in Numbers \/ (clerk[c].user # Nobody /\ Linked(clerk[c].user, x))
     THEN UNCHANGED <<profile, byHand>>
     ELSE /\ profile' = [profile EXCEPT ![x] = rec]
          /\ byHand' = (byHand \/ clerk[c].typed)

-----------------------------------------------------------------------------
(* An account is looked for when the request gives a userId, be it blank,  *)
(* or the profile read has none; blank, it leaves the search to the        *)
(* address, and what is found replaces the link there is.  An empty number *)
(* is taken like another.                                                  *)
updateEmployee(c, x, userId, email, number) ==
  LET explicit == IF userId = Blank THEN Nobody ELSE userId IN
  /\ clerk[c] = AtDesk /\ Exists(x)
  /\ \E u \in IF userId = Nobody /\ profile[x].user # Nobody THEN {Nobody}
              ELSE resolveEmployeeUserId(explicit, email, x) :
       Start(c, [AtDesk EXCEPT !.op = "update", !.row = x, !.email = email, !.user = u,
                               !.number = number, !.typed = number # 0,
                               !.asked = userId])
  /\ UNCHANGED <<profile, byHand>>

(* Only what is given is written, whatever the row holds by then.          *)
storeUpdate(c, terminated) ==
  LET x == clerk[c].row
      u == clerk[c].user
      Kept(new, old) == IF new = Nobody THEN old ELSE new IN
  /\ clerk[c].op = "update"
  /\ IF \/ u # Nobody /\ Linked(u, x)
        \/ \E y \in Staff \ {x} : profile[y].number = clerk[c].number
     THEN UNCHANGED <<profile, byHand>>
     ELSE /\ profile' = [profile EXCEPT
               ![x].email = Kept(clerk[c].email, @), ![x].user = Kept(u, @),
               ![x].number = IF clerk[c].number = 0 THEN @ ELSE clerk[c].number,
               ![x].terminated = terminated]
          /\ byHand' = (byHand \/ clerk[c].number # 0)
  /\ DoneWith(c, x)

terminateEmployee(x) ==
  /\ Exists(x)
  /\ profile' = [profile EXCEPT ![x].terminated = TRUE]
  /\ UNCHANGED <<clerk, byHand>>

(* The account invited is that of the address the profile had when it was  *)
(* read; the invitation itself is the Accounts module's.                   *)
inviteEmployee(c, x) ==
  /\ Exists(x) /\ profile[x].email # Nobody
  /\ Start(c, [AtDesk EXCEPT !.op = "link", !.row = x, !.user = profile[x].email,
                             !.asked = profile[x].email])
  /\ UNCHANGED <<profile, byHand>>

(* A sign-in at the portal: the profile linked to the account is served as *)
(* it is; else one with its address that is linked to nobody is linked.    *)
\* Mutant of resolveEmployee: a profile linked to another is not refused.
resolveAnyEmployee(c, u, x) ==
  /\ ~ \E y \in Staff : profile[y].user = u /\ ~profile[y].terminated
  /\ Exists(x) /\ profile[x].email = u /\ ~profile[x].terminated
  /\ Start(c, [AtDesk EXCEPT !.op = "link", !.row = x, !.user = u])
  /\ UNCHANGED <<profile, byHand>>

resolveEmployee(c, u, x) ==
  /\ ~ \E y \in Staff : profile[y].user = u /\ ~profile[y].terminated
  /\ Exists(x) /\ profile[x].email = u /\ ~profile[x].terminated
  /\ profile[x].user = Nobody
  /\ Start(c, [AtDesk EXCEPT !.op = "link", !.row = x, !.user = u])
  /\ UNCHANGED <<profile, byHand>>

linkProfile(c) ==
  LET x == clerk[c].row IN
  /\ clerk[c].op = "link"
  /\ profile' = IF Linked(clerk[c].user, x) THEN profile
                ELSE [profile EXCEPT ![x].user = clerk[c].user]
  /\ DoneWith(c, x)
  /\ UNCHANGED byHand

PersonnelNext ==
  \/ \E c \in Clerks :
       \/ \E u, e \in Users \cup {Nobody}, n \in HandNumbers \cup {0} :
            createEmployee(c, u, e, n)
       \/ \E x \in Profiles, u \in Users \cup {Nobody, Blank}, e \in Users \cup {Nobody},
             n \in HandNumbers \cup {0, EmptyNumber} :
            updateEmployee(c, x, u, e, n)
       \/ createOwnerEmployee(c) \/ generateEmployeeNumber(c) \/ probeNumber(c)
       \/ \E x \in Profiles : inviteEmployee(c, x)
       \/ \E x \in Profiles, terminated \in BOOLEAN : insertProfile(c, x, terminated)
       \/ \E x \in Profiles, u \in Users : resolveEmployee(c, u, x)
       \/ \E terminated \in BOOLEAN : storeUpdate(c, terminated)
       \/ linkProfile(c)
  \/ \E x \in Profiles : terminateEmployee(x)

PersonnelSpec == PersonnelInit /\ [][PersonnelNext]_personnelVars

-----------------------------------------------------------------------------
(* A profile passes from one account to another only by the call of an     *)
(* administrator who named that account, or who gave its address with a    *)
(* blank userId, or by one that read the profile before it was edited: the *)
(* portal's link and the one updateEmployee finds by address are written   *)
(* without looking again.  Otherwise it was free and has that address.     *)
LinkTakenOnlyAskedOrStale ==
  [][\A x \in Profiles :
       /\ Exists(x) /\ profile'[x].user # profile[x].user
       => \/ profile[x].user = Nobody /\ profile'[x].email = profile'[x].user
          \/ \E c \in Clerks :
               /\ clerk[c].row = x /\ clerk'[c] = AtDesk
               /\ \/ clerk[c].asked = profile'[x].user
                  \/ clerk[c].asked = Blank /\ profile'[x].email = profile'[x].user
                  \/ clerk[c].late]_personnelVars

(* As long as no number was typed, the numbers are those from 1 to the     *)
(* count: the number after the count, which the staff portal takes without *)
(* a look, is free, and its owner is not locked out.                       *)
PortalNumberFree == ~byHand => Numbers = 1 .. Cardinality(Staff)
=============================================================================
