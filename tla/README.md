# Verification of the AOG Service Backend

TLA+ models of the NestJS/Prisma/PostgreSQL backend in this repository, checked
with TLC on small instances, and theorems about them checked with TLAPS.
Paths below are relative to the repository.

## 1. The system

The backend is a set of NestJS services under `src/`, each a thin layer over
Prisma. All state that matters lives in PostgreSQL (`prisma/schema.prisma`); a
service object keeps nothing between requests. Three facts shape every model:

* **Requests interleave at every `await`.** A handler is a sequence of queries;
  between two of them any other request, of this process or of another one,
  may run.
* **Transactions are READ COMMITTED.** `prisma.$transaction` uses PostgreSQL's
  default. Each statement sees what is committed when it starts, plus its own
  writes; rows it writes stay locked until the commit; nothing it reads is
  protected. Many handlers read *outside* the transaction and decide inside it.
* **There is no scheduler except one timer**, the e-mail worker's `setInterval`.
  Every other step is taken because a person sends a request.

| Component | State | Operations | Hard behaviour | What makes it correct |
|---|---|---|---|---|
| E-mail queue (`jobs`) | `BackgroundJob` rows, overlapping executions of the worker | enqueue, poll, lock, send, settle, retry, crash, deploy | overlapping polls, stale batches, lost SMTP replies, rows stranded by a crash | one sender per job, bounded attempts, explained duplicates, final verdicts, every ready mail settles |
| Service requests, work orders | status, history, assignments, tasks | create, patch, status, convert, sign-off, assign | several writers of one status, decisions on a status read earlier | history explains the status; a completed request has completed work |
| Staff portal | attendance, and through it shifts, work orders, requests; the profile of an account | clock-in, clock-out, resolve a profile, pay sheet | double taps, colleagues on one work order, stale links, three roundings | open records bounded by overlap; pay within rounding |
| Scheduling | shifts, attendance, leave, assignments | create, edit, assign, review | availability checked before it is stored, one date edited against another | double bookings and inverted dates only where no check could see them |
| Billing | invoices, items, payments | create, edit, cancel, send, recalculate | totals recomputed from unprotected reads, rounding | stored totals and status agree with the rows |
| Auth, users, members | users, memberships, sessions, reset/invite tokens, profile links | sign-up/in, refresh, logout, reset, invite, accept, suspend | tokens checked before a slow hash and marked later | uses of a token bounded by overlap; a new password ends every older session |
| Public bookings | customer, contact, order number | find-or-create, commit, look up | find-or-create without unique keys, rewritten contacts | whoever booked finds the booking |
| Contracts, request items | status, facilities, priced lines, total | activate, edit, add and remove | conditions counted before they are used, sums without the other's line | an activated contract has a facility and a service until one is removed |
| Customers, contacts, prices | primary-contact and default-price flags | set, clear, invite, archive | two requests set the flag | two marked rows only where one was unseen |
| Numbers of five tables, workspace slugs | the unique columns, the connection pool | count, probe, insert, renumber | count-then-insert, two connections per create | a generated number is refused only by overlap; every create ends |
| Employees | profiles, numbers, links | create, update, terminate, invite | links by address | a link is not taken from another profile unnoticed |
| Inspections, issues, tasks | results, score, verdict, time of closing | add, complete, edit | a score read before another result | score and verdict agree with the results |
| Communications | conversations, participants, messages, notifications | post, close, join, read | closed or joined while a message is on its way | a message reaches everyone in the room |
| Lists of every service | - | skip, take, count | offset pages over changing tables | a full pass has every row once |
| Files, roles, permissions, settings, templates, catalogue texts | rows | one-row CRUD | none between rows | not modelled |

**Interactions.** Auth, public bookings and administration insert rows into the
e-mail queue in their own transaction; the worker takes them from the table.
Clock-in and clock-out write attendance, a shift, an assignment, a work order
and its request in one transaction, and a conversion writes a request and a work
order; the desk writes the same rows through other endpoints. Billing refers to
customers and requests but changes neither. A public booking writes rows the
office edits too (customers, contacts), an invitation links an account to a
profile that workforce and the portal link as well, and creates of five tables
share one connection pool.

`PROJECT.json` lists every component, what is left out and why, and the hazards
with the line where each bites.

## 2. Modules

| Module | Role |
|---|---|
| `EmailJobs`, `MailOutbox` | the e-mail queue; what it promises its producers, which `EmailJobs` implements |
| `ServiceFlow` | requests, work orders, shifts, attendance and the portal, composed |
| `Billing` | invoices, items and payments |
| `Accounts` | users, memberships, sessions, tokens, invitations |
| `Roster` | dates and assignments of shifts and work orders, leave, attendance times |
| `Personnel` | employee profiles, their numbers and accounts |
| `Engagements` | contracts and requests as priced sheets for facilities |
| `Directory` | primary contacts and default prices, also as bookings and invitations mark them |
| `Bookings` | customers, contacts and orders of the public site |
| `Numbering` | the number generators and the connection pool |
| `Payroll` | the pay sheet |
| `Casework` | inspections, complaints, incidents, corrective actions, tasks |
| `Conversations` | messages and notifications |
| `Listings` | paging through the lists |
| `EmailJobsProofs`, `ServiceFlowProofs`, `BillingProofs`, `AccountsProofs`, `EngagementsProofs` | theorems about the module of the name |
| `PeopleProofs`, `RecordsProofs`, `NumbersProofs` | theorems about the components of `MCPeople`, `MCRecords` and `MCNumbers` |
| `MC*` | instances for TLC |

`MCPeople` runs `Roster` or `Personnel`, `MCRecords` one of `Directory`,
`Bookings`, `Listings`, `Conversations` and `Casework`, `MCNumbers` one of
`Numbering` and `Payroll`: modules that share no variable are run as alternatives
of one run, chosen by `part` at the start, so that a behaviour is a behaviour of
one of them. Several tables with the same code are one module with a `kind`
(`Roster`, `Engagements`, `Directory`, `Casework`, `Numbering`).

A word on history variables. Many rules of this code are *enforced by a check,
but not against overlap*: the check reads, something else writes, and the rule is
broken without anybody having done wrong. The properties therefore say exactly
when a rule may be broken, and a history variable (`raced`, `missed`, `unseen`,
`excused`, `spare`...) remembers the overlap that excuses it. A change that drops
the check, or repeats it in the wrong place, breaks the property; each has a
mutant that does.

### EmailJobs

A row is `status`, `attempts`, `due` (runAt has passed: time is abstracted to
that one bit), `ready` (the payload flag fixed when the row is stored). A member
of `Polls` is one execution of `processQueuedEmailJobs`: `batch[p]` is what is
left of the rows its `findMany` returned, as *snapshots*, `working[p]` the
snapshot of the row it has locked, `pc[p]` how far it is with it.

| Action | Code |
|---|---|
| `EnqueueMail` | `createInvitation`, the booking's two mails |
| `CreateBackgroundJob`, `RetryBackgroundJob` | `admin.service.ts` |
| `ProcessQueuedEmailJobs` | a tick: `smtpConfigured` and `findMany` |
| `LockJob` | one turn of the loop: the conditional `updateMany` |
| `SendEmail` | the SMTP exchange: accepted, refused, or accepted with the reply lost |
| `RecordSuccess`, `RecordFailure` | the update in the `try`, and the `catch` block it falls into when it throws |
| `Abandon`, `Deploy` | a process dies or an error escapes; all processes restart, perhaps with another mailer configuration |

The query for due rows and the lock do not repeat each other's conditions, and
the count that decides exhaustion is the snapshot's, not the row's: both are
kept as they are in the code. `lockedAt` is not modelled because nothing reads
it, which is why a crash strands a row.

### ServiceFlow

`request`, `work`, `shift`, `attendance` and `assigned` are the columns the
handlers decide on; `log` is the `toStatus` of the newest history row. A member
of `Calls` is a conversion, clock-in or clock-out in flight. Its stages are the
queries of the transaction: *begun* (the open record was looked for), *read*
(the assigned shift and work order were read), *locked* (attendance, shift,
assignment and work order are written, uncommitted, and **then** the request has
been read), and the commit. A transaction that wants a row another one has
written waits (`Blocked`). Handlers that write without using what they read
(`updateStatus`, patches, sign-off, managers' attendance) are one step. Times,
coordinates, notes, photos and notifications are data no decision depends on.

Two remarks on what the model shows and no rule of the repository forbids:
a clock-in on a work order that is already COMPLETED leaves the work order alone
but puts its request back to IN_PROGRESS; and a work order moved to another
request while a clock-in is in flight makes the clock-in update the old request.

### Billing

Items and payments are rows of one shape; each table leaves the other's columns
empty. A call reads its row, then writes it (*totalling*: the row is locked and the new
value visible to itself only), answers one query at a time for the items and the
payments of each invoice it will recalculate, and commits with the totals.
Quantities are in hundredths, prices in cents, taxed sums in hundredths of a
cent: `Round` is `toFixed(2)`. The code adds binary fractions of a dollar. For
totals below ten million dollars, with whole percents of tax as the rates of the model are,
these miss the exact sums by far less than a hundredth of a cent, so they can tell only
where two equal figures meet: at an exact half that `Round` rounds up (the
instances do not depend on which way it goes), and at an invoice paid to the
cent, whose balance need not come out as zero (0.10 + 0.20 paid with 0.30 leaves
5.55e-17). There `Due` leaves a `residue` of 0 or 1, chosen by `Commit` for each
invoice: which of the two depends on the figures and on the order of the rows.
The choice is wider than the code, in which a single untaxed line leaves none.
`exact[i]` records that the last
recalculation of invoice i had the invoice to itself from its first read to its
commit; `exact[x]` says the same of the pricing of item x.

What the model shows and no rule forbids: overlapping requests can leave wrong
totals until the next quiet recalculation; `sendInvoice` can write back an older
status; a recalculation never withdraws PAID once every payment is cancelled;
an invoice whose exact total lies just above a whole cent stays PARTIALLY_PAID
when the shown total is paid; and one paid to the cent may stay PARTIALLY_PAID at a
balance of 0.00 for the residue alone (0.10 and 0.20 untaxed paid with 0.30, or
1.10 at 10% paid with 1.21). A balance of zero therefore does not mean PAID in
this code; `StatusFollowsMoney` states what does hold: PAID if more was paid than
charged, PARTIALLY_PAID if less, either at equality. What `sendInvoice` or
`updateInvoice` wrote is no recalculation's status, and no property speaks of it.
Prices and quantities of more than two decimals, which the DTO accepts, are
outside the model. Two `updatePayment` transactions that exchange two invoices
can deadlock on the invoice rows; PostgreSQL aborts one, which is `Fail`.

### Accounts

`account` is a user with its membership, `token` the rows of the one table that
serves both invitations and resets, `session` the refresh sessions, `request`
what a request in flight has read. A step is what lies between two awaits:
`AcceptInvite`/`ResetPassword` check a token, the slow hash follows, and
`AcceptCommit`/`ResetCommit` (`SpendToken`) mark it without a further look;
`Refresh` reads a session, `Rotate` revokes it whatever became of it,
`CreateSession` and `StoreHash` make the next one. `Invite` reads the status that
`InviteCommit` writes back; `LinkProfile` runs after the commit and `Die` may come
before it. `spare` counts the requests that had a row in hand when it was closed
and have not used it. Passwords are counted (`epoch`). Sign-in asks neither for
the status nor for a membership, which the model keeps. The owner's and an
invitee's role and permission rows, slugs and cookies are left out.

### Roster and Personnel

`Roster` has one kind of row with two dates for shifts, work orders, leave and
attendance. `EditBegin` checks (`EditInOrder`: shifts and work orders against the
dates just read, leave and attendance only the dates given), `EditStore` writes
what was given. An assignment reads its row, asks for clashes
(`assertAvailability`), and is stored (`AssignStore`): three steps. Moving a row
or opening a work order again rechecks nothing; `excused` and `loose` say so.

`updateEmployee` looks for an account unless the userId is absent and the profile
linked. A userId that is given but empty or null (`Blank`) names nobody, so the
address decides, and the account with that address replaces a link the profile
has; without an address the link stays, so it cannot be removed this way. An edit
stores an empty employee number as it stands, unique like any other
(`EmptyNumber`), while a create generates one instead.

`Personnel` has the two ways to an employee number (workforce counts and probes,
the portal takes the number after the count) and the four ways to an account
(named, by address, invitation, portal). Profiles are never deleted, which is why
the portal's number is free as long as nobody typed one (`PortalNumberFree`).

### Engagements

A *sheet* is a contract or a request, a *line* a contract service or a request
item. `countForActivation` and `activate`, `addFacility` and `storeFacility`,
`createRequest`/`updateRequest` and their stores are the check and the write.
`writeLine` computes the total a transaction sees (`SumSeen`: what is committed
and its own line), `recalculateTotal` is its commit. `createContract` and
`updateContract` write ACTIVE, and any total, unchecked, as the code does.
Contract schedules and dates other than the end are left out.

### Directory and Bookings

Clearing the other marks is an `updateMany` over the whole group, marked or not
(`Clearable`): it locks every row it sees, so that of two updates the second
waits (`Held`), but it cannot lock a row that does not exist yet. Invitations of a
facility's contact and public bookings mark a contact and clear nothing. A
booking holds its number from the count to the commit; whoever commits first
wins, the other is undone. The facility a booking finds or creates is in
`Engagements` (`bookWithFacility`).

`Bookings` follows what a booking overwrites: customer and contact are found by
e-mail *or* telephone, so two people who share a telephone overwrite each
other's contact, and the first no longer finds his order (`rewritten`). Of several
customers that match, the code takes the last updated; the model takes any.

### Numbering

`Count`, `Probe` and `insert` are one query each, the same in five services; the
slug of a workspace is probed from the bare name upward. A public booking takes a
request number, asking over its own transaction.
Requests, conversions, work orders and payments number inside a transaction, over
the service's own client: such a call holds a connection (`Holders`) and asks for
another (`Asks`). `giveUp` is Prisma's limit on that wait. An invoice or payment
number given as empty text is stored as such (`??`), that of a contract is
generated (`||`). The insert and the commit are one step: until then the row is
nobody's, and who meets its number in the index waits. Numbers callers type have
the month's form or are empty: others are never counted or met by a probe.

### Payroll

`addRecord` is one turn of the loop of `payrollSummary`; `minutesBetween`,
`hoursOf` and `payOf` are its roundings, halves up, in whole seconds, hundredths
and cents. A record with a clock-out before its clock-in, which `Roster` shows to
be possible, counts nothing. Hourly rates have two decimals, as their column has.

### Casework

A case is open or closed and `stamped` when it has a time of closing. The score
of an inspection is an average in the code; here it is the *set of results it was
taken over*, which tells apart exactly what the properties need. `addResult` reads
the inspection, `insertResult` inserts and reads the scores,
`recalculateInspectionScore` commits; `completeInspection` reads, and
`storeCompletion` writes. A result may be added to a completed inspection: the
score follows and the verdict does not (`late`).

### Conversations and Listings

A message is allowed, then addressed (the participants are read outside the
transaction), then committed. `Listings` has one table with the order of any list
of the API: whether it can tie, and whether an edit can change a place in it.
`write` is any other request's effect on it; `drifted` are the rows whose place it
changed. Each list is named with the columns it is ordered by; what its condition
selects is the set `listed`, which any write may change. The page sizes are those
of `getPagination`, with 1 and 2 in the place of 25 and 100.

## 3. What is checked

| Run | Question | Bounds, and why they suffice |
|---|---|---|
| `email_jobs` | locking, attempts, duplicates, verdicts, implementation of `MailOutbox` | 1 job, 3 polls (a third execution overtakes two), limit 2, 3 attempts, 1 operator retry, 1 restart; jobs share only the batch, which the next run covers |
| `email_jobs_fair` | does every ready mail settle? | 2 jobs compete for batches of 1, 2 polls, 2 attempts, 1 restart |
| `service_flow` | history and request/work-order consistency | 1 request, 1 work order, 2 employees, 2 attendance rows, 2 calls: enough for a clock-in to read before, and write after, a colleague's clock-out |
| `attendance` | how far overlap bends the one-open-record rule | 1 employee, 3 overlapping calls, 3 rows, 1 shift, 1 row edited by a manager |
| `clock_in_twice` | *violated*: "You are already clocked in" | 2 overlapping calls |
| `convert_rejected` | *violated*: "Rejected or cancelled requests cannot become work orders" | 1 conversion, 1 rejection |
| `billing` | totals, line prices, status against money; a payment that changes invoices | 2 invoices, 1 item, 1 payment, 2 calls; quantities 0.50 and 1.00, prices of 25 and 50 cents (lines of 13, 25 and 50) and 4% or 5% tax, so that a payment of 26 cents exceeds the total, meets it to the cent (25 at 4%), misses it by a quarter of a cent (25 at 5%) or by much. Payments succeed or are cancelled, as to the sums a pending or refunded one is a cancelled one (`SucceededOrCancelled`), and an edit would change what it has read (`NoEmptyEdits`). The item is met with one invoice and the second invoice with payments only (`ItemsOnOneInvoice`), as an item never changes invoices |
| `accounts` | tokens, sessions, invitations | 1 address, 1 employee profile, 2 tokens, 2 sessions, 2 requests, 2 passwords: a property is about one account, and two requests are one overlap; a session that descends from another takes the second. `EmailOf`, `KindOf` and public sign-up stay parameters |
| `people` | double bookings, inverted dates, links, numbers | 2 rows of one kind, 1 employee, 2 planners, 2 dates; 2 profiles, 2 accounts, 2 clerks, 1 typed number and the empty one; a userId named, blank or absent. A clash is a pair of rows of one kind; an edit types a number or names an account, not both (`OneThing`) |
| `engagements` | totals, activation, ownership | 1 sheet, 1 facility, 2 customers, 2 lines, 2 desks; a contract's edit changes one field, a request's the facility or the estimate (`OneField`, `OneOfPlace`): the properties relate no two of them |
| `records` | marks, lookups, pages, messages | 3 rows, 2 callers throughout. Marks: 1 group (`FewMarks`: an update sets a mark or a link). Bookings: 2 customers, 2 contacts at a time, 2 orders, three sets of details of which two share a telephone and one telephone has no digits (`FewBookings` bounds what the office does beside). Pages of 1 and 2 over 3 rows, all orders. 2 users, one of them manager, 2 messages. 3 results of 1 inspection |
| `numbers` | who is refused a number, does every create end, pay | 3 creates of one table on a pool of 2 (fewer connections than calls, so all can be held by waiting creates), 4 rows, the number 3 or none typed; 2 attendance rows over 3 days with times that round, no clock-out, and clock-outs before clock-ins |

Every property of a passing run has a mutant in `PROJECT.json`: a plausible bug
in a definition, defined next to it, with which TLC finds the property violated.
The type invariants of `EmailJobs`, `ServiceFlow`, `Numbering` and `Payroll` are
proved (section 4) and not run as well; nor are the three properties of `Casework`, which
are proved for any instance while `records` runs its actions and its types.

Deadlock is checked except in the e-mail runs, where everything may be settled
and the bounded retries and restarts used up, in `accounts`, where passwords,
tokens and sessions are used up, and in `numbers`, where the rows are and a pay
sheet ends.

**Fairness.** `FairSpec` of `EmailJobs`: an execution proceeds (`setInterval`
fires again, SMTP exchanges end by nodemailer's timeouts, database calls return
or fail) and time passes. `NumberingSpec`: a create that can proceed does, because
a query is answered, or Prisma's pool timeout or transaction timeout ends the
wait (`giveUp`); without those limits the creates that hold every connection
would wait for one another for ever. Nothing obliges people, deployments or
crashes. `QueuedMailSettles` has two escapes the code really leaves open: a row
stranded in RUNNING by a crash, and a mailer that was unconfigured. It is checked
without operator retries (`MaxResets = 0`), as an operator may requeue for ever.

## 4. What is proved

Every invariant and every action property of the passing runs is a theorem, for
any number of rows, requests in flight, employees and prices, and so is the
refinement of `MailOutbox`. What is left to TLC alone is liveness. The recipe is
always the same: a request in flight has read something, and either what it read
still holds, or a history variable marks it as overtaken. That sentence, for each
kind of request, is the part of the inductive invariant that no property states.

The assumptions are those the modules declare next to their constants; TLC
evaluates them in the runs. They say that sets of rows or of requests are finite
where something is counted or summed, that null is no row, and that limits are
positive.

`EmailJobsProofs` (finite jobs and polls, positive limits):

| Theorem | States | Argument |
|---|---|---|
| `TypeCorrect` | `TypeOK` | the sequence facts about batches are lemmas |
| `LockIsExclusive` | `LockExclusive` | the only way to hold a job is the conditional update from QUEUED, and while it is held the row says RUNNING |
| `VerdictIsFinal` | `VerdictFinal` | only a holder writes a row, and by exclusiveness it holds a RUNNING one |
| `SuccessIsSent` | `SuccessMeansSent` | `SentInv`: every snapshot is of a ready row, and a poll in stage *accepted* holds a job that was sent |
| `SendersCounted`, `CopiesExplained` | `HoldersBoundedByRetries`, `DuplicatesExplained` | `CountInv`, an account per job: holders plus a vacancy (the row is free to be locked) never exceed one plus the retries; copies sent, plus holders still to send, plus the vacancy never exceed one plus retries and doubts |
| `AttemptsAreBounded` | `AttemptsBounded` | `AttemptsInv`: once the count is within one of the limit, it plus the executions whose batch has a snapshot below the limit (`Waiting`), plus one if the row may return to the queue (`Turn`), keeps the bound. The bound itself is not inductive: it is the snapshots that may still overshoot |
| `QueueImplementsOutbox` | `ImplementsOutbox` | every step under the invariants is a step of `MailOutbox` or leaves its variables unchanged |

`ServiceFlowProofs` (finite records and calls, statuses of their types, requests
and work orders distinct, null no row):

| Theorem | States | Argument |
|---|---|---|
| `TypeCorrect` | `TypeOK` | `WellFormed`: a request in flight has named every row it is going to write |
| `HistoryIsHonest` | `HistoryExplainsStatus` | each write of a status logs it, or marks the row silent, in the same step |
| `OverlapBoundsOpenRecords` | `OpenBoundedByOverlap` | open portal records plus clock-ins under way: a check that passes finds no record, so only clock-ins count; a commit turns one clock-in into one record |
| `ClosedAtMostPerOverlap` | `ClosedOncePerOverlap` | `ClosingInv`: clock-outs stored plus clock-outs that hold the record; a row found open was never closed, held rows exist, and clock-ins reserve distinct rows that do not exist yet |
| `CloseoutIsCompleted` | `CompletedRequestHasCompletedWork` | `CloseoutInv`: locks of a work order are exclusive, and the completed work order that settles a request is `Firm`: no clock-in holds it that is about to reopen it but had read the request before it was completed |

`BillingProofs` (finite items and payments, disjoint from each other; items
distinct from invoices; naturals for prices, quantities, rates, amounts; null
distinct from all of them):

| Theorem | States | Argument |
|---|---|---|
| `BillingTypeCorrect` | `TypeOK` | sums of naturals are naturals, so what is stored is |
| `TotalsAreExact` | `TotalsExact` | `AloneReads`: whatever an undisturbed request has read of an invoice is what it would read now, with its own row; `AloneOn`: it recalculates every invoice its row is on; `Apart`: nobody shares its row or its invoices |
| `LinesArePriced` | `LinesPriced` | `AlonePrices`: the price it is about to store is that of the row it is about to leave |
| `PaidIsExplained`, `StatusIsThatOfTheMoney` | `PaidIsSettledOrTakenBack`, `StatusFollowsMoney` | from the exactness of the totals and a lemma on `Recalculated` for either residue, by arithmetic on the two roundings |

A total is `SumFunction`, a recursion over a finite set, and no induction theorem
of the library can be used here (each takes an operator as a parameter). What is
needed of it is proved from the well-founded ordering of finite sets instead:
of the sets on which a recursion is not defined, or on which a sum is no natural,
one would be least (`LeastSubset`), and there is none (`FoldExists`, `FoldsAgree`,
`SumOfNaturals`). That a sum does not change when a row that is not in it
does is then an equality of functions.

`AccountsProofs` (finite requests, at least one password):

| Theorem | States | Argument |
|---|---|---|
| `AccountsTypeCorrect` | `TypeOK` | with the rest of `AccountsInv` |
| `TokensSpentByOverlap`, `ForksByOverlap` | `TokenUsesBoundedByOverlap`, `RefreshForksOnlyOnOverlap` | a closed token or session has no more requests left that hold it than it has uses to spare, so a request that uses it up finds one |
| `SurvivorsRaced` | `SurvivorsRacedTheReset` | a request between check and session carries the account's password count, or is marked as raced |
| `InvitedAreLinked`, `InvitationsKeepStatus` | `UnlinkedOnlyWhenCut`, `InvitationKeepsStatus` | the status an invitation has read is the account's, or it is raced |

`EngagementsProofs` (null no row and no number):

| Theorem | States | Argument |
|---|---|---|
| `EngagementsTypeCorrect` | `EngagementTypeOK` | with the rest of `EngagementsInv` |
| `TotalsExact` | `TotalExactUnlessOverlap` | a transaction between its line and its total computes what it would compute now, or has missed another's line; of two on one line the second waits (`LinesExclusive`). A sum is a function of the lines it is over, whatever their number, so equal lines suffice |
| `ActivatedIsBacked` | `ActiveUntilRemoval` | an activation that has missed nothing still has the facility and the line it counted |
| `FacilitiesAreTheCustomers` | `ForeignFacilityOnlyByMove` | `Placed`: the facility a call has looked up is the customer's, or one of the two was moved |

`PeopleProofs` (`Roster`, `Personnel` and `MCPeople`):

| Theorem | States | Argument |
|---|---|---|
| `ClashesAreExplained` | `DoubleBookedOnlyByOverlapOrMove` | `RosterInv`: an assignment that has passed `assertAvailability` is of an employee who is free but for rows the call has missed; moving or reopening a row excuses each clash it makes |
| `InversionsAreExplained` | `InvertedOnlyByPartialEdit` | an edit that was checked is in order with the row as it stands, or the row was written since |
| `CountedNumbersAreFree` | `PortalNumberFree` | `PersonnelInv`: numbers are distinct, and while none is typed a number on its way is at most one more than the count |
| `LinksAreTakenAskedOrStale` | `LinkTakenOnlyAskedOrStale` | a call with an account found by address that is neither asked nor late still has a free profile with that address; an asked one writes the account it named or, its userId blank, that of the address it writes |
| `PeopleTypeCorrect` | `TypeOK` | of both components in a behaviour of either (`RosterTypeCorrect`, `PersonnelTypeCorrect`) |

`RecordsProofs` (`Directory`, `Bookings`, `Listings`, `Conversations`, `Casework`
and `MCRecords`):

| Theorem | States | Argument |
|---|---|---|
| `SecondMarkIsUnseen` | `TwoMarkedOnlyUnseen` | `DirectoryInv`: a request that marks clears exactly the rows it knew to be there (`WriterSound`), so that whatever stays marked beside its row was unseen |
| `BookingIsFound` | `LookupFailsOnlyAfterRewrite` | `BookInv`: until it is rewritten, the contact of an order has the details the visitor gave |
| `ListIsComplete` | `ListedUnlessMoved` | `ListInv`: a row that has not drifted has been seen once if its place is on a page read so far, and not otherwise; and when the rows were counted there were more than its place. `StandsAtItsPlace`: in any arrangement by rank a row that ties with none stands right after those that rank below it, which is a bijection between them and the positions before it. The table is finite |
| `RoomIsReached` | `PostsReachTheRoom` | `TalkInv`: a message on its way that is not raced is for an open conversation and addressed to all who are in it |
| `ScoresExact`, `VerdictsOnScore`, `ClosedIsStamped` | the three properties of `Casework` | `CaseInv`: a call that is alone on its inspection has read all results there are (with its own), no two calls add the same row, and no call's sum has a result that is not there |
| `RecordsTypeCorrect` | `TypeOK` | the five invariants side by side. Contacts have customers and links lead to contacts because a request that is about to write either has not been told that its target is gone (`Sound`) |

`NumbersProofs` (`Numbering` and `Payroll`, for any finite set of calls, any pool,
any records, times and wages):

| Theorem | States | Argument |
|---|---|---|
| `NumberingTypesHold` | `NumberingTypeOK` | the rows of a table are finite, so they can be counted |
| `RefusedOnlyWhenRaced` | `NumberRefusedOnlyByOverlap` | `Sound`: between probe and insert a generated number is free unless the call has been raced, and every write of a number (insert, renumber) races the calls that hold it |
| `PeriodsTile` | the two-day periods partition the days | division by two |
| `PayIsWithinRounding`, `HoursAreWithinRounding`, `PayrollTypesHold` | `PayWithinRounding`, the hours, the types | each rounding is off by at most a half (`Rounded`, `HoursRounded`, `PayRounded`), so a record is off by a constant (`RecordRounded`); the invariant adds them up, with the minutes, which are rounded once, carried beside (`MinutesInv`) |

Only model-checked: `QueuedMailSettles` and `CreateEnds`, liveness under
fairness, for which this prover has neither ENABLED nor a rule of well-founded
progress; and that the code violates the two messages of `clock_in_twice` and
`convert_rejected`, which one behaviour shows.

What the proofs changed in the models: `Listings` arranges the rows by an
injection, `Billing` sums with `SumFunction` and keeps items and payments in
records of one shape, `Engagements` adds the prices of a function from lines, and `Personnel`
looks for a free number without a recursion. Reachable states are the same.

## 5. Plan

1. Safety facts under the two liveness properties, as theorems: a mail that is
   neither settled nor in the hands of an execution is due or stranded; of
   creates that wait for a connection one can always proceed or give up.
2. The fixed window of the rate limiter, which counts per process.
3. Composition of `Accounts` with `Personnel` (an invitation and the portal link
   one profile) and of `Bookings` with `Numbering`, with the theorems of the parts.

## 6. Not modelled

The dashboard's read-only counts, rendering and formatting, guards and filters
that keep no state, start-up and health. Independent row-level CRUD: files,
comments, roles, permissions, workspaces, settings, inspection templates,
departments, positions, skills, certifications, service categories, services,
requirements and areas, contract schedules, photos and message attachments.

The generic `resources` endpoints can overwrite or delete any row of the tables
they list and so void every invariant of those tables; only their list and its
writes are modelled, in `Listings`, and no other module claims anything of them.
