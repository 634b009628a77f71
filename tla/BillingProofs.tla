--------------------------- MODULE BillingProofs ---------------------------
(***************************************************************************)
(* What holds of Billing for any number of invoices, items, payments and   *)
(* requests in flight, and for any prices.                                 *)
(*                                                                         *)
(* The totals are sums over the rows (SumFunction of the community         *)
(* modules), a recursion over a finite set.  The first part proves, with   *)
(* the least counterexample that a well-founded ordering gives, that the   *)
(* recursion is well defined and that a sum of naturals is one.  The       *)
(* second proves the inductive invariant BillingInv.                       *)
(***************************************************************************)
EXTENDS Billing, FiniteSetTheorems, WellFoundedInduction, TLAPS

-----------------------------------------------------------------------------
(* The element the fold takes first, and what a function on the subsets of *)
(* T must satisfy to be the fold of f.                                     *)
First(s) == CHOOSE x \in s : TRUE

IsFold(f, T, g) ==
  g = [s \in SUBSET T |-> IF s = {} THEN 0 ELSE f[First(s)] + g[s \ {First(s)}]]

(* A set that is not empty has a first element.                            *)
LEMMA FirstIn ==
  ASSUME NEW s, s # {}
  PROVE  First(s) \in s
  BY DEF First

(* Among some subsets of a finite set one has none of the others in it.    *)
LEMMA LeastSubset ==
  ASSUME NEW S, IsFiniteSet(S), NEW T \in SUBSET SUBSET S, T # {}
  PROVE  \E x \in T : \A y \in T : y \subseteq x => y = x
  <1>1. IsWellFoundedOn(StrictSubsetOrdering(S), SUBSET S)
    BY FS_StrictSubsetOrderingWellFounded, FS_FiniteSubsetsOfFinite
  <1>2. PICK x \in T : \A y \in T : <<y, x>> \notin StrictSubsetOrdering(S)
    BY <1>1, WFMin
  <1>3. \A y \in T : y \subseteq x => y = x
    BY <1>2 DEF StrictSubsetOrdering
  <1>4. QED
    BY <1>3

(* What a fold is at a set, from what it is at the set without its first.  *)
LEMMA FoldAt ==
  ASSUME NEW f, NEW T, NEW g, IsFold(f, T, g), NEW s \in SUBSET T
  PROVE  /\ s = {} => g[s] = 0
         /\ s # {} => g[s] = f[First(s)] + g[s \ {First(s)}]
  <1> DEFINE body(h, t) == IF t = {} THEN 0 ELSE f[First(t)] + h[t \ {First(t)}]
  <1>1. g = [t \in SUBSET T |-> body(g, t)]
    BY DEF IsFold
  <1> HIDE DEF body
  <1>2. g[s] = body(g, s)
    BY <1>1
  <1>3. QED
    BY <1>2 DEF body

(* Two folds agree where both are defined.                                 *)
LEMMA FoldsAgree ==
  ASSUME NEW f, NEW T, IsFiniteSet(T), NEW U \in SUBSET T, NEW g, NEW h,
         IsFold(f, T, g), IsFold(f, U, h), NEW s \in SUBSET U
  PROVE  g[s] = h[s]
  <1> SUFFICES ASSUME {t \in SUBSET U : g[t] # h[t]} # {}
               PROVE  FALSE
    OBVIOUS
  <1>1. PICK D \in SUBSET SUBSET T : D # {} /\ D = {t \in SUBSET U : g[t] # h[t]}
    OBVIOUS
  <1>2. PICK t \in D : \A y \in D : y \subseteq t => y = t
    BY <1>1, LeastSubset
  <1>3. t \in SUBSET U /\ t \in SUBSET T /\ g[t] # h[t]
    BY <1>1
  <1>4. (t = {} => g[t] = 0) /\ (t # {} => g[t] = f[First(t)] + g[t \ {First(t)}])
    BY <1>3, FoldAt
  <1>5. (t = {} => h[t] = 0) /\ (t # {} => h[t] = f[First(t)] + h[t \ {First(t)}])
    BY <1>3, FoldAt
  <1>6. t # {}
    BY <1>4, <1>5, <1>3
  <1>7. PICK r : r = t \ {First(t)}
    OBVIOUS
  <1>8. r \in SUBSET U /\ r # t /\ r \subseteq t
    BY <1>6, <1>7, <1>3, FirstIn
  <1>9. g[r] = h[r]
    BY <1>1, <1>2, <1>8
  <1>10. QED
    BY <1>4, <1>5, <1>6, <1>7, <1>9, <1>3

(* Every finite set has a fold: least would be one whose subsets do.       *)
LEMMA FoldExists ==
  ASSUME NEW f, NEW T, IsFiniteSet(T)
  PROVE  \E g : IsFold(f, T, g)
  <1> SUFFICES ASSUME {U \in SUBSET T : ~ \E g : IsFold(f, U, g)} # {}
               PROVE  FALSE
    OBVIOUS
  <1>1. PICK B \in SUBSET SUBSET T : B # {} /\ B = {U \in SUBSET T : ~ \E g : IsFold(f, U, g)}
    OBVIOUS
  <1>2. PICK U \in B : \A y \in B : y \subseteq U => y = U
    <2>1. B # {}
      BY <1>1
    <2>2. QED
      BY <2>1, LeastSubset
  <1>3. U \in SUBSET T
    BY <1>1
  <1> DEFINE fold(V) == CHOOSE g : IsFold(f, V, g)
  <1>4. \A V \in SUBSET U : V # U => IsFold(f, V, fold(V))
    BY <1>1, <1>2
  <1> DEFINE rest(s) == s \ {First(s)}
  <1> DEFINE value(s) == IF s = {} THEN 0 ELSE f[First(s)] + fold(rest(s))[rest(s)]
  <1> DEFINE G == [s \in SUBSET U |-> value(s)]
  <1>5. \A s \in SUBSET U : s # {} => rest(s) \in SUBSET U /\ rest(s) # U /\ rest(s) \subseteq s
    BY FirstIn
  <1>6. \A V \in SUBSET U : V # U => fold(V)[V] = value(V)
    <2> TAKE V \in SUBSET U
    <2> HAVE V # U
    <2>1. PICK g : g = fold(V)
      OBVIOUS
    <2>2. IsFold(f, V, g)
      BY <1>4, <2>1
    <2>3. (V = {} => g[V] = 0) /\ (V # {} => g[V] = f[First(V)] + g[rest(V)])
      BY <2>2, FoldAt
    <2>4. CASE V = {}
      BY <2>1, <2>3, <2>4
    <2>5. CASE V # {}
      <3>1. PICK W : W = rest(V)
        OBVIOUS
      <3>2. W \in SUBSET V /\ W \in SUBSET U /\ W # U
        BY <1>5, <2>5, <3>1
      <3>3. PICK h : h = fold(W)
        OBVIOUS
      <3>4. IsFold(f, W, h)
        BY <1>4, <3>2, <3>3
      <3>5. IsFiniteSet(V)
        BY <1>3, FS_Subset
      <3>6. g[W] = h[W]
        BY <2>2, <3>2, <3>4, <3>5, FoldsAgree
      <3>7. value(V) = f[First(V)] + h[W]
        BY <2>5, <3>1, <3>3
      <3>8. QED
        BY <2>1, <2>3, <2>5, <3>1, <3>6, <3>7
    <2>6. QED
      BY <2>4, <2>5
  <1> HIDE DEF fold
  <1>7. \A s \in SUBSET U : s # {} => fold(rest(s))[rest(s)] = G[rest(s)]
    BY <1>5, <1>6
  <1>8. \A s \in SUBSET U :
          value(s) = IF s = {} THEN 0 ELSE f[First(s)] + G[s \ {First(s)}]
    BY <1>7
  <1>9. IsFold(f, U, G)
    BY <1>8 DEF IsFold
  <1>10. QED
    BY <1>1, <1>9

(* The sum of a function is its fold, at its whole domain.                 *)
LEMMA SumIsFold ==
  ASSUME NEW f, IsFiniteSet(DOMAIN f)
  PROVE  \E g : IsFold(f, DOMAIN f, g) /\ SumFunction(f) = g[DOMAIN f]
  <1>1. PICK g :
          /\ g = CHOOSE h : h = [s \in SUBSET DOMAIN f |->
                   IF s = {} THEN 0
                   ELSE f[CHOOSE x \in s : TRUE] + h[s \ {CHOOSE x \in s : TRUE}]]
          /\ SumFunction(f) = g[DOMAIN f]
    BY DEF SumFunction, SumFunctionOnSet, FoldFunctionOnSet, MapThenFoldSet
  <1>2. g = CHOOSE h : IsFold(f, DOMAIN f, h)
    BY <1>1 DEF IsFold, First
  <1>3. \E h : IsFold(f, DOMAIN f, h)
    BY FoldExists
  <1>4. IsFold(f, DOMAIN f, g)
    BY <1>2, <1>3
  <1>5. QED
    BY <1>1, <1>4

(* Nothing sums to 0.                                                      *)
LEMMA SumOfNothing ==
  ASSUME NEW f, DOMAIN f = {}
  PROVE  SumFunction(f) = 0
  <1>1. IsFiniteSet(DOMAIN f)
    BY FS_EmptySet
  <1>2. PICK g : IsFold(f, DOMAIN f, g) /\ SumFunction(f) = g[DOMAIN f]
    BY <1>1, SumIsFold
  <1>3. DOMAIN f \in SUBSET DOMAIN f
    OBVIOUS
  <1>4. QED
    BY <1>2, <1>3, FoldAt

(* Naturals sum to a natural.                                              *)
LEMMA SumOfNaturals ==
  ASSUME NEW S, IsFiniteSet(S), NEW f \in [S -> Nat]
  PROVE  SumFunction(f) \in Nat
  <1>1. PICK g : IsFold(f, S, g) /\ SumFunction(f) = g[S]
    BY SumIsFold
  <1>2. \A t \in SUBSET S : g[t] \in Nat
    <2> SUFFICES ASSUME {t \in SUBSET S : g[t] \notin Nat} # {}
                 PROVE  FALSE
      OBVIOUS
    <2>1. PICK D \in SUBSET SUBSET S : D # {} /\ D = {t \in SUBSET S : g[t] \notin Nat}
      OBVIOUS
    <2>2. PICK t \in D : \A y \in D : y \subseteq t => y = t
      BY <2>1, LeastSubset
    <2>3. t \in SUBSET S /\ g[t] \notin Nat
      BY <2>1
    <2>4. (t = {} => g[t] = 0) /\ (t # {} => g[t] = f[First(t)] + g[t \ {First(t)}])
      <3>1. IsFold(f, S, g) /\ t \in SUBSET S
        BY <1>1, <2>3
      <3>2. QED
        BY <3>1, FoldAt
    <2>5. t # {}
      BY <2>4, <2>3
    <2>6. PICK r : r = t \ {First(t)}
      OBVIOUS
    <2>7. r \in SUBSET S /\ r # t /\ r \subseteq t /\ First(t) \in S
      BY <2>5, <2>6, <2>3, FirstIn
    <2>8. g[r] \in Nat /\ f[First(t)] \in Nat
      BY <2>1, <2>2, <2>7
    <2>9. QED
      BY <2>4, <2>5, <2>6, <2>8, <2>3
  <1>3. QED
    BY <1>1, <1>2

-----------------------------------------------------------------------------
(***************************************************************************)
(* The invariant.                                                          *)
(***************************************************************************)
RowRec == ItemRow \cup PaymentRow \cup {Absent}

ItemEdit ==
  [there : BOOLEAN, invoice : {None}, quantity : Quantities \cup {None},
   unitPrice : Prices \cup {None}, taxRate : Rates \cup {None}, lineTotal : Nat \cup {None},
   status : {None}, amount : {None}]

PaymentEdit ==
  [there : {TRUE}, invoice : Invoices \cup {None}, quantity : {None}, unitPrice : {None},
   taxRate : {None}, lineTotal : {None}, status : PaymentStatus \cup {None},
   amount : Amounts \cup {None}]

Busy(k) == k.stage \in {"read", "totalling"}

(* The rows as a request that has written k.new sees them.                 *)
Sees(k) == [row EXCEPT ![k.row] = k.new]

(* A request refers to invoices that exist, and sets what its table has.   *)
RefersSound(k) ==
  /\ \A i \in k.invoices : Exists(i)
  /\ k.new.invoice # None => Exists(k.new.invoice)
  /\ k.stage = "sending" => k.sends \in Invoices /\ Exists(k.sends) /\ k.seen # "ABSENT"
  /\ Busy(k) => k.row \in Rows
  /\ k.stage = "read" => k.new \in IF k.row \in Items THEN ItemEdit ELSE PaymentEdit
  /\ k.stage = "totalling" =>
       k.new \in IF k.row \in Items THEN ItemRow \cup {Absent} ELSE PaymentRow \cup {Absent}

(* A request that nobody overlapped recalculates every invoice that its    *)
(* row is on, before and after; the line it stores is priced from the row  *)
(* as it is; and what it has read is what it would read now.               *)
AloneOn(k) ==
  Busy(k) /\ k.alone =>
    /\ k.stage = "read" => row[k.row].there
    /\ row[k.row].invoice \in k.invoices \cup {None}
    /\ k.new.invoice \in k.invoices \cup {None}

AlonePrices(k) ==
  Busy(k) /\ k.alone /\ k.row \in Items /\ k.new.there =>
    k.new.lineTotal =
      IF k.stage = "read"
      THEN calculateLineTotal(Given(k.new.quantity, row[k.row].quantity),
                              Given(k.new.unitPrice, row[k.row].unitPrice))
      ELSE calculateLineTotal(k.new.quantity, k.new.unitPrice)

AloneReads(k) ==
  k.stage = "totalling" /\ k.alone =>
    \A q \in Queries(k.invoices) \ k.todo : k.figures[q] = Figure(Sees(k), q)

CallSound(k) == RefersSound(k) /\ AloneOn(k) /\ AlonePrices(k) /\ AloneReads(k)

(* Requests of which one is alone share neither a row nor an invoice.      *)
Apart(f) ==
  \A c, d \in Calls :
    c # d /\ Busy(f[c]) /\ Busy(f[d]) /\ f[c].alone
    => f[c].row # f[d].row /\ f[c].invoices \cap f[d].invoices = {}

RowsBelong == \A x \in Rows : row[x].invoice # None => Exists(row[x].invoice)

BillingInv ==
  /\ TypeOK
  /\ RowsBelong
  /\ \A c \in Calls : CallSound(call[c])
  /\ Apart(call)
  /\ TotalsExact /\ LinesPriced /\ PaidIsSettledOrTakenBack /\ StatusFollowsMoney

-----------------------------------------------------------------------------
-----------------------------------------------------------------------------
(***************************************************************************)
(* Rows, and the figures computed from them.                               *)
(***************************************************************************)
(* The columns of a row of either table.                                   *)
LEMMA RowColumns ==
  ASSUME NEW r \in RowRec
  PROVE  /\ r.there \in BOOLEAN /\ r.invoice \in Invoices \cup {None}
         /\ r.quantity \in Nat /\ r.unitPrice \in Nat /\ r.taxRate \in Nat
         /\ r.lineTotal \in Nat /\ r.amount \in Nat
         /\ r.status \in PaymentStatus \cup {None}
         /\ r.there => r.status \in PaymentStatus \/ r.invoice # None
         /\ r \in Edit
  <1>1. /\ Quantities \subseteq Nat /\ Prices \subseteq Nat /\ Rates \subseteq Nat
        /\ Amounts \subseteq Nat
        /\ None \notin Invoices /\ None \notin Nat /\ None \notin PaymentStatus
    BY BillingAssumption
  <1>2. CASE r \in ItemRow
    <2>1. r.there = TRUE /\ r.invoice \in Invoices /\ r.status = None
      BY <1>2 DEF ItemRow
    <2>2. r.quantity \in Nat /\ r.unitPrice \in Nat /\ r.taxRate \in Nat
      BY <1>1, <1>2 DEF ItemRow
    <2>3. r.lineTotal \in Nat /\ r.amount \in Nat
      BY <1>2 DEF ItemRow
    <2>4. r = [there |-> r.there, invoice |-> r.invoice, quantity |-> r.quantity,
               unitPrice |-> r.unitPrice, taxRate |-> r.taxRate, lineTotal |-> r.lineTotal,
               status |-> r.status, amount |-> r.amount]
      BY <1>2 DEF ItemRow
    <2>5. r \in Edit
      BY <2>1, <2>2, <2>3, <2>4 DEF Edit
    <2>6. QED
      BY <1>1, <2>1, <2>2, <2>3, <2>5
  <1>3. CASE r \in PaymentRow
    <2>1. r.there = TRUE /\ r.invoice \in Invoices \cup {None} /\ r.status \in PaymentStatus
      BY <1>3 DEF PaymentRow
    <2>2. r.quantity \in Nat /\ r.unitPrice \in Nat /\ r.taxRate \in Nat
      BY <1>3 DEF PaymentRow
    <2>3. r.lineTotal \in Nat /\ r.amount \in Amounts
      BY <1>3 DEF PaymentRow
    <2>4. r = [there |-> r.there, invoice |-> r.invoice, quantity |-> r.quantity,
               unitPrice |-> r.unitPrice, taxRate |-> r.taxRate, lineTotal |-> r.lineTotal,
               status |-> r.status, amount |-> r.amount]
      BY <1>3 DEF PaymentRow
    <2>5. r \in Edit
      BY <1>1, <2>1, <2>2, <2>3, <2>4 DEF Edit
    <2>6. QED
      BY <1>1, <2>1, <2>2, <2>3, <2>5
  <1>4. CASE r = Absent
    BY <1>4 DEF Absent, Edit
  <1>5. QED
    BY <1>2, <1>3, <1>4 DEF RowRec

(* A product of naturals is one, and so is what is rounded.                *)
LEMMA ProductIsNatural ==
  ASSUME NEW a \in Nat, NEW b \in Nat
  PROVE  a * b \in Nat
  OBVIOUS

LEMMA RoundIsNatural ==
  ASSUME NEW a \in Nat
  PROVE  Round(a) \in Nat
  BY DEF Round

(* The price of a line is a natural.                                       *)
LEMMA LinePriceIsNatural ==
  ASSUME NEW a \in Nat, NEW b \in Nat
  PROVE  calculateLineTotal(a, b) \in Nat
  <1>1. PICK n \in Nat : n = a * b
    BY ProductIsNatural
  <1>2. QED
    BY <1>1, RoundIsNatural DEF calculateLineTotal

(* What is charged on an invoice, and what is paid, are naturals.          *)
LEMMA FigureIsNatural ==
  ASSUME NEW R \in [Rows -> RowRec], NEW i
  PROVE  Charged(R, i) \in Nat /\ Paid(R, i) \in Nat
  <1>1. /\ IsFiniteSet(Items) /\ IsFiniteSet(Payments)
        /\ Quantities \subseteq Nat /\ Prices \subseteq Nat /\ Rates \subseteq Nat
        /\ Amounts \subseteq Nat
        /\ None \notin Invoices /\ None \notin Nat /\ None \notin PaymentStatus
    BY BillingAssumption
  <1>2. PICK S \in SUBSET Items : S = ItemsOf(R, i)
    BY DEF ItemsOf
  <1>3. PICK P \in SUBSET Payments : P = {y \in PaymentsOf(R, i) : R[y].status = "SUCCEEDED"}
    BY DEF PaymentsOf
  <1>4. IsFiniteSet(S) /\ IsFiniteSet(P)
    BY <1>1, FS_Subset
  <1>5. \A x \in S : R[x].lineTotal * (100 + R[x].taxRate) \in Nat
    <2> TAKE x \in S
    <2>1. R[x] \in RowRec
      BY DEF Rows
    <2>2. R[x].lineTotal \in Nat /\ R[x].taxRate \in Nat
      BY <2>1, RowColumns
    <2>3. QED
      BY <2>2, ProductIsNatural
  <1>6. \A y \in P : R[y].amount \in Nat
    <2> TAKE y \in P
    <2>1. R[y] \in RowRec
      BY DEF Rows
    <2>2. QED
      BY <2>1, RowColumns
  <1> DEFINE f == [x \in S |-> R[x].lineTotal * (100 + R[x].taxRate)]
  <1> DEFINE g == [y \in P |-> R[y].amount]
  <1>7. f \in [S -> Nat] /\ g \in [P -> Nat]
    BY <1>5, <1>6
  <1>8. Charged(R, i) = SumFunction(f) /\ Paid(R, i) = SumFunction(g)
    BY <1>2, <1>3 DEF Charged, Paid
  <1> HIDE DEF f, g
  <1>9. QED
    BY <1>4, <1>7, <1>8, SumOfNaturals

(* A row that is not on the invoice does not change its figures.           *)
LEMMA FigureIsSame ==
  ASSUME NEW R \in [Rows -> RowRec], NEW x \in Rows, NEW r \in RowRec, NEW i,
         i # None, R[x].invoice # i, r.invoice # i
  PROVE  /\ Charged([R EXCEPT ![x] = r], i) = Charged(R, i)
         /\ Paid([R EXCEPT ![x] = r], i) = Paid(R, i)
  <1>1. PICK Q : Q = [R EXCEPT ![x] = r]
    OBVIOUS
  <1>2. \A y \in Rows : Q[y] = IF y = x THEN r ELSE R[y]
    BY <1>1
  <1>3. ItemsOf(Q, i) = ItemsOf(R, i) /\ PaymentsOf(Q, i) = PaymentsOf(R, i)
    BY <1>2 DEF ItemsOf, PaymentsOf, Rows
  <1>4. PICK S \in SUBSET Items : S = ItemsOf(Q, i) /\ S = ItemsOf(R, i)
    BY <1>3 DEF ItemsOf
  <1>5. PICK P \in SUBSET Payments : P = PaymentsOf(Q, i) /\ P = PaymentsOf(R, i)
    BY <1>3 DEF PaymentsOf
  <1>6. \A y \in S \cup P : y \in Rows /\ Q[y] = R[y]
    BY <1>2, <1>4, <1>5 DEF ItemsOf, PaymentsOf, Rows
  <1>7. [y \in S |-> Q[y].lineTotal * (100 + Q[y].taxRate)]
        = [y \in S |-> R[y].lineTotal * (100 + R[y].taxRate)]
    BY <1>6
  <1>8. Charged(Q, i) = Charged(R, i)
    BY <1>4, <1>7 DEF Charged
  <1>9. PICK D : D = {y \in P : Q[y].status = "SUCCEEDED"} /\ D = {y \in P : R[y].status = "SUCCEEDED"}
    BY <1>6
  <1>10. [y \in D |-> Q[y].amount] = [y \in D |-> R[y].amount]
    BY <1>6, <1>9
  <1>11. Paid(Q, i) = Paid(R, i)
    BY <1>5, <1>9, <1>10 DEF Paid
  <1>12. QED
    BY <1>1, <1>8, <1>11

(* An invoice that no row is on has nothing charged and nothing paid.      *)
LEMMA FigureOfNothing ==
  ASSUME NEW R \in [Rows -> RowRec], NEW i, \A x \in Rows : R[x].invoice # i
  PROVE  Charged(R, i) = 0 /\ Paid(R, i) = 0
  <1>1. ItemsOf(R, i) = {} /\ PaymentsOf(R, i) = {}
    BY DEF ItemsOf, PaymentsOf, Rows
  <1> DEFINE f == [x \in ItemsOf(R, i) |-> R[x].lineTotal * (100 + R[x].taxRate)]
  <1> DEFINE P == {y \in PaymentsOf(R, i) : R[y].status = "SUCCEEDED"}
  <1> DEFINE g == [y \in P |-> R[y].amount]
  <1>2. DOMAIN f = {} /\ DOMAIN g = {}
    BY <1>1
  <1>3. SumFunction(f) = 0 /\ SumFunction(g) = 0
    <2> HIDE DEF f, g
    <2>1. QED
      BY <1>2, SumOfNothing
  <1>4. QED
    BY <1>3 DEF Charged, Paid

-----------------------------------------------------------------------------
-----------------------------------------------------------------------------
(***************************************************************************)
(* The initial states, and the steps that change an invoice alone.         *)
(***************************************************************************)
(* A request that is idle is sound and shares nothing.                     *)
LEMMA IdleIsSound ==
  /\ Idle \in Call /\ ~ Busy(Idle)
  /\ CallSound(Idle)
  <1>1. Idle.stage = "idle" /\ Idle.new.invoice = None /\ Idle.invoices = {}
    BY DEF Idle, Absent
  <1>2. ~ Busy(Idle)
    BY <1>1 DEF Busy
  <1>3. Absent \in Edit
    BY RowColumns DEF RowRec
  <1>4. Idle \in Call
    BY <1>3 DEF Idle, Call, Figures
  <1>5. CallSound(Idle)
    BY <1>1, <1>2 DEF CallSound, RefersSound, AloneOn, AlonePrices, AloneReads
  <1>6. QED
    BY <1>2, <1>4, <1>5

(* Nothing is due, charged or paid on an invoice without rows.             *)
LEMMA NothingDue == Round(0) = 0 /\ Due(0, 0, 0) = 0
  BY DEF Round, Due

LEMMA NoInvoiceIsRow == NoInvoice \in InvoiceRow
  BY DEF NoInvoice, InvoiceRow

(* Init => BillingInv.                                                     *)
LEMMA Initially == Init => BillingInv
  <1> SUFFICES ASSUME Init
               PROVE  BillingInv
    OBVIOUS
  <1>1. \A x \in Rows : row[x] = Absent
    BY DEF Init
  <1>2. Absent.there = FALSE /\ Absent.invoice = None
    BY DEF Absent
  <1>3. \A i \in Invoices : ~ Exists(i)
    BY DEF Init, Exists, NoInvoice
  <1>4. TypeOK
    <2>1. row \in [Rows -> ItemRow \cup PaymentRow \cup {Absent}]
      BY DEF Init
    <2>2. invoice \in [Invoices -> InvoiceRow]
      BY NoInvoiceIsRow DEF Init
    <2>3. call \in [Calls -> Call]
      BY IdleIsSound DEF Init
    <2>4. exact \in [Invoices \cup Items -> BOOLEAN]
      BY DEF Init
    <2>5. QED
      BY <1>1, <2>1, <2>2, <2>3, <2>4 DEF TypeOK, Rows
  <1>5. \A c \in Calls : call[c] = Idle
    BY DEF Init
  <1>6. \A c \in Calls : CallSound(call[c])
    <2> TAKE c \in Calls
    <2>1. PICK k : k = call[c]
      OBVIOUS
    <2>2. k = Idle
      BY <1>5, <2>1
    <2>3. CallSound(k)
      BY <2>2, IdleIsSound
    <2>4. QED
      BY <2>1, <2>3
  <1>7. Apart(call)
    BY <1>5, IdleIsSound DEF Apart
  <1>8. RowsBelong
    BY <1>1, <1>2 DEF RowsBelong
  <1>9. LinesPriced
    BY <1>1, <1>2 DEF LinesPriced, Rows
  <1>10. TotalsExact /\ PaidIsSettledOrTakenBack /\ StatusFollowsMoney
    BY <1>3 DEF TotalsExact, PaidIsSettledOrTakenBack, StatusFollowsMoney
  <1>11. QED
    BY <1>4, <1>6, <1>7, <1>8, <1>9, <1>10 DEF BillingInv

(* A request stays sound while the rows stay and no invoice goes.          *)
LEMMA SoundKept ==
  ASSUME NEW k \in Call, CallSound(k), row' = row,
         \A i \in Invoices : Exists(i) => Exists(i)'
  PROVE  CallSound(k)'
  <1>1. k.invoices \subseteq Invoices /\ k.new.invoice \in Invoices \cup {None}
    BY DEF Call, Edit
  <1>2. RefersSound(k)'
    BY <1>1 DEF CallSound, RefersSound
  <1>3. AloneOn(k)' /\ AlonePrices(k)'
    BY DEF CallSound, AloneOn, AlonePrices
  <1>4. AloneReads(k)'
    BY DEF CallSound, AloneReads, Sees, Figure, Charged, Paid, ItemsOf, PaymentsOf
  <1>5. QED
    BY <1>2, <1>3, <1>4 DEF CallSound

(* One invoice is written by a request about nothing else, which may end.  *)
LEMMA InvoiceWritten ==
  ASSUME BillingInv, NEW i \in Invoices, NEW v \in InvoiceRow,
         v.status # "ABSENT", v.by = "request",
         exact[i] => /\ v.total = Round(Charged(row, i))
                     /\ v.amountPaid = Paid(row, i)
                     /\ v.balanceDue = Round(Due(Charged(row, i), Paid(row, i), 0)),
         invoice' = [invoice EXCEPT ![i] = v], row' = row, exact' = exact,
         NEW f \in [Calls -> Call], call' = f,
         \A d \in Calls : f[d] = call[d] \/ f[d] = Idle
  PROVE  BillingInv'
  <1>1. invoice \in [Invoices -> InvoiceRow] /\ call \in [Calls -> Call]
    BY DEF BillingInv, TypeOK
  <1>2. \A j \in Invoices : invoice'[j] = IF j = i THEN v ELSE invoice[j]
    BY <1>1
  <1>3. \A j \in Invoices : Exists(j) => Exists(j)'
    BY <1>2 DEF Exists
  <1>4. TypeOK'
    BY <1>1 DEF BillingInv, TypeOK
  <1>5. RowsBelong'
    <2>1. \A x \in Rows : row[x].invoice \in Invoices \cup {None}
      BY RowColumns DEF BillingInv, TypeOK, RowRec
    <2>2. QED
      BY <1>3, <2>1 DEF BillingInv, RowsBelong
  <1>6. \A d \in Calls : CallSound(f[d])'
    <2> TAKE d \in Calls
    <2>1. PICK k : k = f[d]
      OBVIOUS
    <2>2. k \in Call /\ CallSound(k)
      BY <2>1, IdleIsSound DEF BillingInv
    <2>3. CallSound(k)'
      BY <1>3, <2>2, SoundKept
    <2>4. QED
      BY <2>1, <2>3
  <1>7. Apart(f)
    BY IdleIsSound DEF BillingInv, Apart
  <1>8. TotalsExact'
    <2> SUFFICES ASSUME NEW j \in Invoices, Exists(j)', exact[j]
                 PROVE  /\ invoice'[j].total = Round(Charged(row, j))
                        /\ invoice'[j].amountPaid = Paid(row, j)
                        /\ invoice'[j].balanceDue = Round(Due(Charged(row, j), Paid(row, j), 0))
      BY DEF TotalsExact
    <2>1. CASE j = i
      BY <1>2, <2>1
    <2>2. CASE j # i
      BY <1>2, <2>2 DEF BillingInv, TotalsExact, Exists
    <2>3. QED
      BY <2>1, <2>2
  <1>9. LinesPriced'
    BY DEF BillingInv, LinesPriced
  <1>10. PaidIsSettledOrTakenBack'
    BY <1>2 DEF BillingInv, PaidIsSettledOrTakenBack, Exists
  <1>11. StatusFollowsMoney'
    <2>1. \A j \in Invoices : Charged(row, j)' = Charged(row, j) /\ Paid(row, j)' = Paid(row, j)
      BY DEF Charged, Paid, ItemsOf, PaymentsOf
    <2>2. QED
      BY <1>2, <2>1 DEF BillingInv, StatusFollowsMoney, Exists
  <1>12. QED
    BY <1>4, <1>5, <1>6, <1>7, <1>8, <1>9, <1>10, <1>11 DEF BillingInv

-----------------------------------------------------------------------------
-----------------------------------------------------------------------------
(* Creating an invoice: no row is on it yet.                               *)
LEMMA CreateInvoiceKeeps ==
  ASSUME BillingInv, NEW i \in Invoices, CreateInvoice(i)
  PROVE  BillingInv'
  <1>1. PICK s \in StatusInputs : invoice' = [invoice EXCEPT ![i] = [NoInvoice EXCEPT !.status = s]]
    BY DEF CreateInvoice
  <1>2. PICK v : v = [NoInvoice EXCEPT !.status = s]
    OBVIOUS
  <1>3. s \in InvoiceStatus /\ s # "ABSENT"
    BY BillingAssumption DEF InvoiceStatus
  <1>4. v \in InvoiceRow /\ v.status # "ABSENT" /\ v.by = "request"
    BY <1>2, <1>3 DEF NoInvoice, InvoiceRow
  <1>5. v.total = 0 /\ v.amountPaid = 0 /\ v.balanceDue = 0
    BY <1>2 DEF NoInvoice
  <1>6. PICK R \in [Rows -> RowRec] : R = row
    BY DEF BillingInv, TypeOK, RowRec
  <1>7. \A x \in Rows : R[x].invoice # i
    <2>1. i # None
      BY BillingAssumption
    <2>2. QED
      BY <1>6, <2>1 DEF BillingInv, RowsBelong, CreateInvoice
  <1>8. Charged(row, i) = 0 /\ Paid(row, i) = 0
    BY <1>6, <1>7, FigureOfNothing
  <1>9. /\ v.total = Round(Charged(row, i))
        /\ v.amountPaid = Paid(row, i)
        /\ v.balanceDue = Round(Due(Charged(row, i), Paid(row, i), 0))
    BY <1>5, <1>8, NothingDue
  <1>10. PICK f \in [Calls -> Call] : f = call
    BY DEF BillingInv, TypeOK
  <1>11. invoice' = [invoice EXCEPT ![i] = v]
    BY <1>1, <1>2
  <1>12. row' = row /\ exact' = exact /\ call' = f /\ \A d \in Calls : f[d] = call[d]
    BY <1>10 DEF CreateInvoice
  <1>13. QED
    BY <1>4, <1>9, <1>11, <1>12, InvoiceWritten

(* Writing a status: the totals stay, and the status is a request's.       *)
LEMMA StatusWritten ==
  ASSUME BillingInv, NEW i \in Invoices, Exists(i), NEW s \in InvoiceStatus,
         SetStatus(i, s), row' = row, exact' = exact,
         NEW f \in [Calls -> Call], call' = f,
         \A d \in Calls : f[d] = call[d] \/ f[d] = Idle
  PROVE  BillingInv'
  <1>1. PICK j \in InvoiceRow : j = invoice[i]
    BY DEF BillingInv, TypeOK
  <1>2. PICK v : v = [j EXCEPT !.status = s, !.by = "request"]
    OBVIOUS
  <1>3. /\ v \in InvoiceRow /\ v.status = s /\ v.by = "request"
        /\ v.total = j.total /\ v.amountPaid = j.amountPaid /\ v.balanceDue = j.balanceDue
    BY <1>2 DEF InvoiceRow
  <1>4. invoice' = [invoice EXCEPT ![i] = v]
    BY <1>1, <1>2 DEF SetStatus, BillingInv, TypeOK
  <1>5. s # "ABSENT"
    BY DEF InvoiceStatus
  <1>6. exact[i] => /\ v.total = Round(Charged(row, i))
                    /\ v.amountPaid = Paid(row, i)
                    /\ v.balanceDue = Round(Due(Charged(row, i), Paid(row, i), 0))
    BY <1>1, <1>3 DEF BillingInv, TotalsExact
  <1>7. QED
    BY <1>3, <1>4, <1>5, <1>6, InvoiceWritten

LEMMA UpdateInvoiceKeeps ==
  ASSUME BillingInv, NEW i \in Invoices, UpdateInvoice(i)
  PROVE  BillingInv'
  <1>1. PICK s \in StatusInputs : SetStatus(i, s)
    BY DEF UpdateInvoice
  <1>2. s \in InvoiceStatus
    BY BillingAssumption
  <1>3. PICK f \in [Calls -> Call] : f = call
    BY DEF BillingInv, TypeOK
  <1>4. /\ row' = row /\ exact' = exact /\ call' = f /\ \A d \in Calls : f[d] = call[d]
        /\ Exists(i)
    BY <1>3 DEF UpdateInvoice
  <1>5. QED
    BY <1>1, <1>2, <1>4, StatusWritten

LEMMA CancelInvoiceKeeps ==
  ASSUME BillingInv, NEW i \in Invoices, CancelInvoice(i)
  PROVE  BillingInv'
  <1>1. PICK f \in [Calls -> Call] : f = call
    BY DEF BillingInv, TypeOK
  <1>2. /\ row' = row /\ exact' = exact /\ call' = f /\ \A d \in Calls : f[d] = call[d]
        /\ Exists(i) /\ SetStatus(i, "CANCELLED")
    BY <1>1 DEF CancelInvoice
  <1>3. "CANCELLED" \in InvoiceStatus
    BY DEF InvoiceStatus
  <1>4. QED
    BY <1>2, <1>3, StatusWritten

(* sendInvoice writes back a status it read from the same invoice.         *)
LEMMA SendInvoiceKeeps ==
  ASSUME BillingInv, NEW c \in Calls, SendInvoice(c)
  PROVE  BillingInv'
  <1>1. PICK k \in Call : k = call[c]
    BY DEF BillingInv, TypeOK
  <1>2. CallSound(k) /\ k.stage = "sending"
    BY <1>1 DEF SendInvoice, BillingInv
  <1>3. k.sends \in Invoices /\ Exists(k.sends) /\ k.seen # "ABSENT"
    BY <1>2 DEF CallSound, RefersSound
  <1>4. k.seen \in InvoiceStatus
    BY <1>3 DEF Call
  <1>5. PICK s : s = IF k.seen = "DRAFT" THEN "SENT" ELSE k.seen
    OBVIOUS
  <1>6. s \in InvoiceStatus
    BY <1>4, <1>5 DEF InvoiceStatus
  <1>7. SetStatus(k.sends, s)
    BY <1>1, <1>5 DEF SendInvoice
  <1>8. PICK f : f = [call EXCEPT ![c] = Idle]
    OBVIOUS
  <1>9. f \in [Calls -> Call] /\ \A d \in Calls : f[d] = call[d] \/ f[d] = Idle
    BY <1>8, IdleIsSound DEF BillingInv, TypeOK
  <1>10. call' = f /\ row' = row /\ exact' = exact
    BY <1>8 DEF SendInvoice
  <1>11. QED
    BY <1>3, <1>6, <1>7, <1>9, <1>10, StatusWritten

-----------------------------------------------------------------------------
(***************************************************************************)
(* The steps that move requests along and store nothing.                   *)
(***************************************************************************)
LEMMA CallsMove ==
  ASSUME BillingInv, UNCHANGED <<row, invoice, exact>>,
         NEW f \in [Calls -> Call], call' = f,
         \A d \in Calls : CallSound(f[d]), Apart(f)
  PROVE  BillingInv'
  <1>1. row' = row /\ invoice' = invoice /\ exact' = exact
    OBVIOUS
  <1>2. TypeOK' /\ RowsBelong' /\ LinesPriced'
    BY <1>1 DEF BillingInv, TypeOK, RowsBelong, LinesPriced, Exists
  <1>3. \A d \in Calls : CallSound(f[d])'
    <2> TAKE d \in Calls
    <2>1. PICK k : k = f[d]
      OBVIOUS
    <2>2. k \in Call /\ CallSound(k)
      BY <2>1
    <2>3. CallSound(k)'
      BY <1>1, <2>2, SoundKept DEF Exists
    <2>4. QED
      BY <2>1, <2>3
  <1>4. TotalsExact'
    BY <1>1 DEF BillingInv, TotalsExact, Exists
  <1>5. PaidIsSettledOrTakenBack' /\ StatusFollowsMoney'
    BY <1>1 DEF BillingInv, PaidIsSettledOrTakenBack, StatusFollowsMoney, Exists
  <1>6. QED
    BY <1>2, <1>3, <1>4, <1>5 DEF BillingInv

(* One request moves to k, without giving up being alone or becoming so.   *)
LEMMA CallMoves ==
  ASSUME BillingInv, UNCHANGED <<row, invoice, exact>>, NEW c \in Calls,
         NEW k \in Call, CallSound(k), call' = [call EXCEPT ![c] = k],
         Busy(k) => /\ Busy(call[c]) /\ k.alone = call[c].alone
                    /\ k.row = call[c].row /\ k.invoices = call[c].invoices
  PROVE  BillingInv'
  <1>1. PICK f : f = [call EXCEPT ![c] = k]
    OBVIOUS
  <1>2. f \in [Calls -> Call] /\ \A d \in Calls : f[d] = IF d = c THEN k ELSE call[d]
    BY <1>1 DEF BillingInv, TypeOK
  <1>3. \A d \in Calls : CallSound(f[d])
    BY <1>2 DEF BillingInv
  <1>4. Apart(f)
    BY <1>2 DEF BillingInv, Apart
  <1>5. QED
    BY <1>1, <1>2, <1>3, <1>4, CallsMove

LEMMA FailKeeps ==
  ASSUME BillingInv, NEW c \in Calls, Fail(c)
  PROVE  BillingInv'
BY IdleIsSound, CallMoves DEF Fail

LEMMA ReadToSendKeeps ==
  ASSUME BillingInv, NEW c \in Calls, NEW i \in Invoices, ReadToSend(c, i)
  PROVE  BillingInv'
  <1>1. PICK s : s = invoice[i].status
    OBVIOUS
  <1>2. s \in InvoiceStatus
    BY <1>1 DEF ReadToSend, Exists, BillingInv, TypeOK, InvoiceRow
  <1>3. PICK k : k = [Idle EXCEPT !.stage = "sending", !.sends = i, !.seen = s]
    OBVIOUS
  <1>4. k \in Call
    BY <1>2, <1>3, IdleIsSound DEF Call
  <1>5. k.stage = "sending" /\ k.sends = i /\ k.seen # "ABSENT" /\ k.invoices = {}
          /\ k.new.invoice = None
    BY <1>2, <1>3 DEF Idle, Absent, InvoiceStatus
  <1>6. CallSound(k) /\ ~ Busy(k)
    BY <1>5 DEF CallSound, RefersSound, AloneOn, AlonePrices, AloneReads, Busy, ReadToSend
  <1>7. call' = [call EXCEPT ![c] = k]
    BY <1>1, <1>3 DEF ReadToSend
  <1>8. QED
    BY <1>4, <1>6, <1>7, CallMoves DEF ReadToSend

-----------------------------------------------------------------------------
-----------------------------------------------------------------------------
(* A sound request that has written a row sees rows of the right kind.     *)
LEMMA SeenRows ==
  ASSUME TypeOK, NEW k \in Call, RefersSound(k), k.stage = "totalling"
  PROVE  /\ k.row \in Rows /\ k.new \in RowRec
         /\ Sees(k) \in [Rows -> RowRec]
  <1>1. k.row \in Rows /\ k.new \in RowRec
    BY DEF RefersSound, Busy, RowRec
  <1>2. row \in [Rows -> RowRec]
    BY DEF TypeOK, RowRec
  <1>3. QED
    BY <1>1, <1>2 DEF Sees

(* Reading one figure.                                                     *)
LEMMA ReadFigureKeeps ==
  ASSUME BillingInv, NEW c \in Calls, ReadFigure(c)
  PROVE  BillingInv'
  <1>1. PICK j \in Call : j = call[c]
    BY DEF BillingInv, TypeOK
  <1>2. CallSound(j) /\ j.stage = "totalling"
    BY <1>1 DEF ReadFigure, BillingInv
  <1>3. PICK q \in j.todo :
          call' = [call EXCEPT ![c].todo = @ \ {q}, ![c].figures[q] = Figure(View(c), q)]
    BY <1>1 DEF ReadFigure
  <1>4. q \in Figures
    BY DEF Call
  <1>5. PICK R \in [Rows -> RowRec] : R = Sees(j)
    BY <1>2, SeenRows DEF BillingInv, CallSound
  <1>6. View(c) = R
    BY <1>1, <1>5 DEF View, Sees
  <1>7. PICK n : n = Figure(R, q)
    OBVIOUS
  <1>8. n \in Nat
    BY <1>7, FigureIsNatural DEF Figure
  <1>9. PICK k : k = [j EXCEPT !.todo = j.todo \ {q}, !.figures = [j.figures EXCEPT ![q] = n]]
    OBVIOUS
  <1>10. /\ k \in Call /\ k.stage = j.stage /\ k.row = j.row /\ k.new = j.new
         /\ k.invoices = j.invoices /\ k.alone = j.alone /\ k.todo = j.todo \ {q}
         /\ \A p \in Figures : k.figures[p] = IF p = q THEN n ELSE j.figures[p]
    BY <1>4, <1>8, <1>9 DEF Call
  <1>11. call' = [call EXCEPT ![c] = k]
    <2>1. Figure(View(c), q) = n
      BY <1>6, <1>7 DEF Figure
    <2>2. QED
      BY <1>1, <1>3, <1>9, <2>1 DEF BillingInv, TypeOK
  <1>12. CallSound(k)
    <2>1. RefersSound(k) /\ AloneOn(k) /\ AlonePrices(k)
      BY <1>2, <1>10 DEF CallSound, RefersSound, AloneOn, AlonePrices, Busy
    <2>2. Sees(k) = R
      BY <1>5, <1>10 DEF Sees
    <2>3. AloneReads(k)
      <3> SUFFICES ASSUME k.alone, NEW p \in Queries(k.invoices) \ k.todo
                   PROVE  k.figures[p] = Figure(Sees(k), p)
        BY DEF AloneReads
      <3>1. p \in Figures
        BY <1>10 DEF Queries, Figures, Call
      <3>2. CASE p = q
        BY <1>7, <1>10, <2>2, <3>1, <3>2 DEF Figure
      <3>3. CASE p # q
        <4>1. p \in Queries(j.invoices) \ j.todo
          BY <1>10, <3>3
        <4>2. j.figures[p] = Figure(Sees(j), p)
          BY <1>2, <1>10, <4>1 DEF CallSound, AloneReads
        <4>3. QED
          BY <1>5, <1>10, <2>2, <3>1, <3>3, <4>2 DEF Figure
      <3>4. QED
        BY <3>2, <3>3
    <2>4. QED
      BY <2>1, <2>3 DEF CallSound
  <1>13. Busy(j)
    BY <1>2 DEF Busy
  <1>14. QED
    BY <1>1, <1>10, <1>11, <1>12, <1>13, CallMoves DEF ReadFigure

(* What a column holds once it is edited.                                  *)
LEMMA GivenIn ==
  ASSUME NEW S, NEW new \in S \cup {None}, NEW old \in S
  PROVE  Given(new, old) \in S
BY DEF Given

(* A row is of its table's kind; one that is there is no blank.            *)
LEMMA RowKinds ==
  ASSUME TypeOK, NEW x \in Rows
  PROVE  /\ row[x] \in RowRec
         /\ x \in Items /\ row[x].there => row[x] \in ItemRow
         /\ x \notin Items /\ row[x].there => row[x] \in PaymentRow
BY DEF TypeOK, RowRec, Rows, Absent

(* An edited row is of its table's kind.                                   *)
LEMMA EditedRow ==
  ASSUME NEW old, NEW edit
  PROVE  /\ old \in ItemRow /\ edit \in ItemEdit => Edited(old, edit) \in ItemRow \cup {Absent}
         /\ old \in PaymentRow /\ edit \in PaymentEdit => Edited(old, edit) \in PaymentRow
  <1>1. ASSUME old \in ItemRow, edit \in ItemEdit, edit.there
        PROVE  Edited(old, edit) \in ItemRow
    <2>1. /\ Given(edit.invoice, old.invoice) \in Invoices
          /\ Given(edit.status, old.status) = None
          /\ Given(edit.amount, old.amount) = 0
      BY <1>1 DEF ItemRow, ItemEdit, Given
    <2>2. /\ Given(edit.quantity, old.quantity) \in Quantities
          /\ Given(edit.unitPrice, old.unitPrice) \in Prices
          /\ Given(edit.taxRate, old.taxRate) \in Rates
          /\ Given(edit.lineTotal, old.lineTotal) \in Nat
      BY <1>1, GivenIn DEF ItemRow, ItemEdit
    <2>3. QED
      BY <1>1, <2>1, <2>2 DEF Edited, ItemRow
  <1>2. ASSUME old \in PaymentRow, edit \in PaymentEdit
        PROVE  Edited(old, edit) \in PaymentRow
    <2>1. edit.there
      BY <1>2 DEF PaymentEdit
    <2>2. /\ Given(edit.quantity, old.quantity) = 0
          /\ Given(edit.unitPrice, old.unitPrice) = 0
          /\ Given(edit.taxRate, old.taxRate) = 0
          /\ Given(edit.lineTotal, old.lineTotal) = 0
      BY <1>2 DEF PaymentRow, PaymentEdit, Given
    <2>3. /\ Given(edit.invoice, old.invoice) \in Invoices \cup {None}
          /\ Given(edit.status, old.status) \in PaymentStatus
          /\ Given(edit.amount, old.amount) \in Amounts
      BY <1>2 DEF PaymentRow, PaymentEdit, Given
    <2>4. QED
      BY <2>1, <2>2, <2>3 DEF Edited, PaymentRow
  <1>3. QED
    BY <1>1, <1>2 DEF Edited

(* Writing the row: the request keeps its row and its invoices.            *)
LEMMA WriteRowKeeps ==
  ASSUME BillingInv, NEW c \in Calls, WriteRow(c)
  PROVE  BillingInv'
  <1>1. PICK j \in Call : j = call[c]
    BY DEF BillingInv, TypeOK
  <1>2. RefersSound(j) /\ AloneOn(j) /\ AlonePrices(j) /\ j.stage = "read" /\ Busy(j)
    BY <1>1 DEF WriteRow, BillingInv, CallSound, Busy
  <1>3. j.row \in Rows /\ j.new \in IF j.row \in Items THEN ItemEdit ELSE PaymentEdit
    BY <1>2 DEF RefersSound
  <1>4. PICK x \in Rows : x = j.row /\ row[x].there
    BY <1>1, <1>3 DEF WriteRow
  <1>5. PICK o : o = row[x] /\ x = j.row /\ o.there
    BY <1>4
  <1>6. PICK n : n = Edited(o, j.new)
    OBVIOUS
  <1>7. n \in IF x \in Items THEN ItemRow \cup {Absent} ELSE PaymentRow \cup {Absent}
    <2>1. IF x \in Items THEN o \in ItemRow ELSE o \in PaymentRow
      BY <1>5, RowKinds DEF BillingInv
    <2>2. QED
      BY <1>3, <1>5, <1>6, <2>1, EditedRow
  <1>8. n \in RowRec /\ n \in Edit
    BY <1>7, RowColumns DEF RowRec
  <1>9. PICK k : k = [j EXCEPT !.stage = "totalling", !.new = n, !.todo = Queries(j.invoices)]
    OBVIOUS
  <1>10. /\ k \in Call /\ k.stage = "totalling" /\ k.row = j.row /\ k.new = n
        /\ k.invoices = j.invoices /\ k.alone = j.alone /\ k.todo = Queries(k.invoices)
    BY <1>8, <1>9 DEF Call, Queries, Figures
  <1>11. call' = [call EXCEPT ![c] = k]
    BY <1>1, <1>5, <1>6, <1>9 DEF WriteRow, BillingInv, TypeOK
  <1>12. n.invoice = IF j.new.there THEN Given(j.new.invoice, o.invoice) ELSE None
    BY <1>6 DEF Edited, Absent
  <1>13. RefersSound(k)
    <2>1. o.invoice # None => Exists(o.invoice)
      BY <1>5 DEF BillingInv, RowsBelong
    <2>2. n.invoice # None => Exists(n.invoice)
      BY <1>2, <1>12, <2>1 DEF RefersSound, Given
    <2>3. QED
      BY <1>2, <1>3, <1>5, <1>7, <1>10, <2>2 DEF RefersSound
  <1>14. AloneOn(k)
    BY <1>2, <1>5, <1>10, <1>12 DEF AloneOn, Busy, Given
  <1>15. AlonePrices(k)
    <2> SUFFICES ASSUME k.alone, x \in Items, n.there
                 PROVE  n.lineTotal = calculateLineTotal(n.quantity, n.unitPrice)
      BY <1>5, <1>10 DEF AlonePrices
    <2>1. j.new.there
      BY <1>6 DEF Edited, Absent
    <2>2. /\ n.quantity = Given(j.new.quantity, o.quantity)
          /\ n.unitPrice = Given(j.new.unitPrice, o.unitPrice)
          /\ n.lineTotal = Given(j.new.lineTotal, o.lineTotal)
      BY <1>6, <2>1 DEF Edited
    <2>3. j.new.lineTotal = calculateLineTotal(n.quantity, n.unitPrice)
      BY <1>2, <1>5, <1>10, <2>1, <2>2 DEF AlonePrices
    <2>4. n.quantity \in Nat /\ n.unitPrice \in Nat
      BY <1>8, RowColumns
    <2>5. j.new.lineTotal # None
      BY <2>3, <2>4, LinePriceIsNatural, BillingAssumption
    <2>6. QED
      BY <2>2, <2>3, <2>5 DEF Given
  <1>16. AloneReads(k)
    BY <1>10 DEF AloneReads
  <1>17. QED
    BY <1>1, <1>2, <1>10, <1>11, <1>13, <1>14, <1>15, <1>16, CallMoves DEF CallSound, WriteRow

-----------------------------------------------------------------------------
-----------------------------------------------------------------------------
(* A request that is no longer alone promises less.                        *)
LEMMA LessAlone ==
  ASSUME NEW k \in Call, CallSound(k), NEW b \in BOOLEAN, b => k.alone,
         NEW m, m = [k EXCEPT !.alone = b]
  PROVE  /\ m \in Call /\ CallSound(m) /\ m.alone = b
         /\ m.row = k.row /\ m.invoices = k.invoices /\ m.stage = k.stage
  <1>1. /\ m \in Call /\ m.alone = b /\ m.stage = k.stage /\ m.row = k.row
        /\ m.new = k.new /\ m.invoices = k.invoices /\ m.todo = k.todo
        /\ m.figures = k.figures /\ m.sends = k.sends /\ m.seen = k.seen
    BY DEF Call
  <1>2. Busy(m) = Busy(k)
    BY <1>1 DEF Busy
  <1>3. RefersSound(m) /\ AloneOn(m) /\ AlonePrices(m)
    BY <1>1, <1>2 DEF CallSound, RefersSound, AloneOn, AlonePrices
  <1>4. AloneReads(m)
    BY <1>1 DEF CallSound, AloneReads, Sees
  <1>5. QED
    BY <1>1, <1>3, <1>4 DEF CallSound

(* A request begins: whoever shares its row or an invoice is alone no more,*)
(* and it is alone if nobody does.                                         *)
LEMMA RequestBegins ==
  ASSUME BillingInv, UNCHANGED <<row, invoice, exact>>, NEW c \in Calls,
         NEW k \in Call, Busy(k), Begin(c, k),
         NEW m, m = [k EXCEPT !.alone = TRUE], CallSound(m)
  PROVE  BillingInv'
  <1> DEFINE others == {d \in Calls \ {c} : Busy(call[d])
                          /\ (call[d].row = k.row \/ call[d].invoices \cap k.invoices # {})}
  <1>1. others = Overlapping(c, k.row, k.invoices)
    BY DEF Overlapping, Changing, Busy
  <1>2. PICK D \in SUBSET (Calls \ {c}) : D = others
    OBVIOUS
  <1>3. PICK f : f = [d \in Calls |-> IF d = c THEN [k EXCEPT !.alone = D = {}]
                                      ELSE IF d \in D THEN [call[d] EXCEPT !.alone = FALSE]
                                      ELSE call[d]]
    OBVIOUS
  <1>4. call' = f
    BY <1>1, <1>2, <1>3 DEF Begin
  <1>5. m \in Call
    BY DEF Call
  <1>6. /\ f[c] \in Call /\ CallSound(f[c]) /\ f[c].alone = (D = {}) /\ f[c].row = k.row
        /\ f[c].invoices = k.invoices /\ f[c].stage = k.stage
    <2>1. PICK b \in BOOLEAN : b = (D = {})
      OBVIOUS
    <2>2. PICK h : h = f[c]
      OBVIOUS
    <2>3. h = [m EXCEPT !.alone = b]
      BY <1>3, <2>1, <2>2 DEF Call
    <2>4. m.alone /\ m.row = k.row /\ m.invoices = k.invoices /\ m.stage = k.stage
      BY DEF Call
    <2>5. /\ h \in Call /\ CallSound(h) /\ h.alone = b
          /\ h.row = m.row /\ h.invoices = m.invoices /\ h.stage = m.stage
      BY <1>5, <2>3, <2>4, LessAlone
    <2>6. QED
      BY <2>1, <2>2, <2>4, <2>5
  <1>7. \A d \in Calls \ {c} :
          /\ f[d] \in Call /\ CallSound(f[d]) /\ f[d].row = call[d].row
          /\ f[d].invoices = call[d].invoices /\ f[d].stage = call[d].stage
          /\ f[d].alone => call[d].alone /\ d \notin D
    <2> TAKE d \in Calls \ {c}
    <2>1. PICK j \in Call : j = call[d]
      BY DEF BillingInv, TypeOK
    <2>2. CallSound(j)
      BY <2>1 DEF BillingInv
    <2>3. CASE d \in D
      <3>1. PICK h : h = [j EXCEPT !.alone = FALSE]
        OBVIOUS
      <3>2. /\ h \in Call /\ CallSound(h) /\ ~ h.alone
            /\ h.row = j.row /\ h.invoices = j.invoices /\ h.stage = j.stage
        BY <2>2, <3>1, LessAlone
      <3>3. f[d] = h
        BY <1>3, <2>1, <2>3, <3>1
      <3>4. QED
        BY <2>1, <3>2, <3>3
    <2>4. CASE d \notin D
      BY <1>3, <2>1, <2>2, <2>4
    <2>5. QED
      BY <2>3, <2>4
  <1>8. f \in [Calls -> Call]
    <2>1. \A d \in Calls : f[d] \in Call
      BY <1>6, <1>7
    <2>2. QED
      BY <1>3, <2>1
  <1>9. \A d \in Calls : CallSound(f[d])
    BY <1>6, <1>7
  <1>10. Apart(f)
    <2> SUFFICES ASSUME NEW d \in Calls, NEW e \in Calls, d # e,
                        Busy(f[d]), Busy(f[e]), f[d].alone
                 PROVE  f[d].row # f[e].row /\ f[d].invoices \cap f[e].invoices = {}
      BY DEF Apart
    <2>1. CASE d = c
      <3>1. e \in Calls \ {c} /\ D = {}
        BY <1>6, <2>1
      <3>2. Busy(call[e]) /\ f[e].row = call[e].row /\ f[e].invoices = call[e].invoices
        BY <1>7, <3>1 DEF Busy
      <3>3. ~ (call[e].row = k.row \/ call[e].invoices \cap k.invoices # {})
        BY <1>2, <3>1, <3>2
      <3>4. QED
        BY <1>6, <2>1, <3>2, <3>3
    <2>2. CASE e = c
      BY <1>2, <1>6, <1>7, <2>2 DEF Busy
    <2>3. CASE d # c /\ e # c
      <3>1. Busy(call[d]) /\ Busy(call[e]) /\ call[d].alone
        BY <1>7, <2>3 DEF Busy
      <3>2. call[d].row # call[e].row /\ call[d].invoices \cap call[e].invoices = {}
        BY <3>1 DEF BillingInv, Apart
      <3>3. QED
        BY <1>7, <2>3, <3>2
    <2>4. QED
      BY <2>1, <2>2, <2>3
  <1>11. QED
    BY <1>4, <1>8, <1>9, <1>10, CallsMove

-----------------------------------------------------------------------------
-----------------------------------------------------------------------------
(* A request that inserts a row.                                           *)
LEMMA InsertKeeps ==
  ASSUME BillingInv, NEW c \in Calls, NEW x \in Rows, NEW new, new.there,
         new \in IF x \in Items THEN ItemRow ELSE PaymentRow,
         new.invoice # None => Exists(new.invoice),
         x \in Items => new.lineTotal = calculateLineTotal(new.quantity, new.unitPrice),
         Insert(c, x, new)
  PROVE  BillingInv'
  <1>1. new \in RowRec /\ new \in Edit /\ new.invoice \in Invoices \cup {None}
    BY RowColumns DEF RowRec
  <1>2. PICK D \in SUBSET Invoices : D = {new.invoice} \ {None}
    BY <1>1
  <1>3. PICK k : k = [Idle EXCEPT !.stage = "totalling", !.row = x, !.new = new,
                                  !.invoices = D, !.todo = Queries(D)]
    OBVIOUS
  <1>4. Queries(D) \subseteq Figures
    BY DEF Queries, Figures
  <1>5. k \in Call
    BY <1>1, <1>3, <1>4, IdleIsSound DEF Call
  <1>6. PICK m : m = [k EXCEPT !.alone = TRUE]
    OBVIOUS
  <1>7. /\ m.stage = "totalling" /\ m.row = x /\ m.new = new /\ m.invoices = D
        /\ m.todo = Queries(D)
    BY <1>3, <1>6 DEF Idle
  <1>8. row[x].invoice = None
    BY DEF Insert, Absent
  <1>9. RefersSound(m)
    BY <1>2, <1>7 DEF RefersSound
  <1>10. AloneOn(m) /\ AlonePrices(m) /\ AloneReads(m)
    BY <1>1, <1>2, <1>7, <1>8 DEF AloneOn, AlonePrices, AloneReads
  <1>11. Busy(k) /\ Begin(c, k)
    BY <1>2, <1>3 DEF Insert, Busy, Idle
  <1>12. QED
    BY <1>5, <1>6, <1>9, <1>10, <1>11, RequestBegins DEF CallSound, Insert

LEMMA AddInvoiceItemKeeps ==
  ASSUME BillingInv, NEW c \in Calls, NEW x \in Items, AddInvoiceItem(c, x)
  PROVE  BillingInv'
  <1>1. PICK i \in Invoices, q \in Quantities, p \in Prices, r \in Rates :
          /\ Exists(i)
          /\ Insert(c, x, [Absent EXCEPT !.there = TRUE, !.invoice = i, !.quantity = q,
                             !.unitPrice = p, !.taxRate = r,
                             !.lineTotal = calculateLineTotal(q, p)])
    BY DEF AddInvoiceItem
  <1>2. PICK t \in Nat : t = calculateLineTotal(q, p)
    BY LinePriceIsNatural, BillingAssumption
  <1>3. PICK new : new = [Absent EXCEPT !.there = TRUE, !.invoice = i, !.quantity = q,
                            !.unitPrice = p, !.taxRate = r, !.lineTotal = t]
    OBVIOUS
  <1>4. /\ new.there = TRUE /\ new.invoice = i /\ new.quantity = q /\ new.unitPrice = p
        /\ new.lineTotal = t
    BY <1>3 DEF Absent
  <1>5. new \in ItemRow
    BY <1>3 DEF ItemRow, Absent
  <1>6. x \in Rows
    BY DEF Rows
  <1>7. Insert(c, x, new)
    BY <1>1, <1>2, <1>3
  <1>8. QED
    BY <1>1, <1>2, <1>4, <1>5, <1>6, <1>7, InsertKeeps

LEMMA CreatePaymentKeeps ==
  ASSUME BillingInv, NEW c \in Calls, NEW y \in Payments, CreatePayment(c, y)
  PROVE  BillingInv'
  <1>1. PICK i \in Invoices \cup {None}, s \in {"PENDING", "SUCCEEDED"}, a \in Amounts :
          /\ i # None => Exists(i)
          /\ Insert(c, y, [Absent EXCEPT !.there = TRUE, !.invoice = i, !.status = s,
                                         !.amount = a])
    BY DEF CreatePayment
  <1>2. PICK new : new = [Absent EXCEPT !.there = TRUE, !.invoice = i, !.status = s,
                                        !.amount = a]
    OBVIOUS
  <1>3. new.there = TRUE /\ new.invoice = i
    BY <1>2 DEF Absent
  <1>4. new \in PaymentRow
    BY <1>2 DEF PaymentRow, Absent, PaymentStatus
  <1>5. y \in Rows /\ y \notin Items
    BY BillingAssumption DEF Rows
  <1>6. Insert(c, y, new)
    BY <1>1, <1>2
  <1>7. QED
    BY <1>1, <1>3, <1>4, <1>5, <1>6, InsertKeeps

-----------------------------------------------------------------------------
(* A request that first reads the row it will change.                      *)
LEMMA ReadKeeps ==
  ASSUME BillingInv, NEW c \in Calls, NEW x \in Rows,
         NEW edit \in IF x \in Items THEN ItemEdit ELSE PaymentEdit, edit \in Edit,
         NEW named \in SUBSET (Invoices \cup {None}), \A i \in named \ {None} : Exists(i),
         row[x].invoice \in named, edit.invoice \in named \cup {None},
         x \in Items /\ edit.there =>
           edit.lineTotal = calculateLineTotal(Given(edit.quantity, row[x].quantity),
                                               Given(edit.unitPrice, row[x].unitPrice)),
         Read(c, x, edit, named)
  PROVE  BillingInv'
  <1>1. PICK D \in SUBSET Invoices : D = named \ {None}
    OBVIOUS
  <1>2. PICK k : k = [Idle EXCEPT !.stage = "read", !.row = x, !.new = edit, !.invoices = D]
    OBVIOUS
  <1>3. k \in Call
    BY <1>2, IdleIsSound DEF Call
  <1>4. PICK m : m = [k EXCEPT !.alone = TRUE]
    OBVIOUS
  <1>5. m.stage = "read" /\ m.row = x /\ m.new = edit /\ m.invoices = D
    BY <1>2, <1>4 DEF Idle
  <1>6. RefersSound(m)
    BY <1>1, <1>5 DEF RefersSound
  <1>7. AloneOn(m) /\ AlonePrices(m) /\ AloneReads(m)
    BY <1>1, <1>5 DEF AloneOn, AlonePrices, AloneReads, Read
  <1>8. Busy(k) /\ Begin(c, k)
    BY <1>1, <1>2 DEF Read, Busy, Idle
  <1>9. QED
    BY <1>3, <1>4, <1>6, <1>7, <1>8, RequestBegins DEF CallSound, Read

(* An edit of either table is an edit.                                     *)
LEMMA EditsAreEdits ==
  ASSUME NEW edit, edit \in ItemEdit \/ edit \in PaymentEdit
  PROVE  edit \in Edit
  <1>1. /\ Quantities \subseteq Nat /\ Prices \subseteq Nat /\ Rates \subseteq Nat
        /\ Amounts \subseteq Nat
    BY BillingAssumption
  <1>2. CASE edit \in ItemEdit
    BY <1>1, <1>2 DEF ItemEdit, Edit
  <1>3. CASE edit \in PaymentEdit
    BY <1>1, <1>3 DEF PaymentEdit, Edit
  <1>4. QED
    BY <1>2, <1>3

(* The invoice a row is on, as the one invoice a request names.            *)
LEMMA RowsInvoice ==
  ASSUME BillingInv, NEW x \in Rows
  PROVE  /\ row[x].invoice \in Invoices \cup {None}
         /\ row[x].invoice # None => Exists(row[x].invoice)
  <1>1. row[x] \in RowRec
    BY DEF BillingInv, TypeOK, RowRec
  <1>2. row[x].invoice \in Invoices \cup {None}
    BY <1>1, RowColumns
  <1>3. QED
    BY <1>2 DEF BillingInv, RowsBelong

LEMMA UpdateInvoiceItemKeeps ==
  ASSUME BillingInv, NEW c \in Calls, NEW x \in Items, UpdateInvoiceItem(c, x)
  PROVE  BillingInv'
  <1>1. PICK given \in ItemEdits : Read(c, x, PricedEdit(row[x], given), {row[x].invoice})
    BY DEF UpdateInvoiceItem
  <1>2. x \in Rows
    BY DEF Rows
  <1>3. PICK o \in RowRec : o = row[x]
    BY <1>2, RowKinds DEF BillingInv
  <1>4. /\ given.there = TRUE /\ given.invoice = None /\ given.status = None
        /\ given.amount = None /\ given.quantity \in Quantities \cup {None}
        /\ given.unitPrice \in Prices \cup {None} /\ given.taxRate \in Rates \cup {None}
        /\ given = [there |-> given.there, invoice |-> given.invoice,
                    quantity |-> given.quantity, unitPrice |-> given.unitPrice,
                    taxRate |-> given.taxRate, lineTotal |-> given.lineTotal,
                    status |-> given.status, amount |-> given.amount]
    BY DEF ItemEdits, Blank
  <1>5. PICK q \in Nat, p \in Nat : /\ q = Given(given.quantity, o.quantity)
                                    /\ p = Given(given.unitPrice, o.unitPrice)
    <2>1. Quantities \subseteq Nat /\ Prices \subseteq Nat
      BY BillingAssumption
    <2>2. o.quantity \in Nat /\ o.unitPrice \in Nat
      BY RowColumns
    <2>3. Given(given.quantity, o.quantity) \in Nat /\ Given(given.unitPrice, o.unitPrice) \in Nat
      BY <1>4, <2>1, <2>2 DEF Given
    <2>4. QED
      BY <2>3
  <1>6. PICK t \in Nat : t = calculateLineTotal(q, p)
    BY LinePriceIsNatural
  <1>7. PICK edit : edit = [given EXCEPT !.lineTotal = t]
    OBVIOUS
  <1>8. edit = PricedEdit(row[x], given)
    BY <1>3, <1>5, <1>6, <1>7 DEF PricedEdit
  <1>9. /\ edit.there = TRUE /\ edit.invoice = None /\ edit.quantity = given.quantity
        /\ edit.unitPrice = given.unitPrice /\ edit.lineTotal = t
    BY <1>4, <1>7
  <1>10. edit \in ItemEdit
    BY <1>4, <1>7 DEF ItemEdit
  <1>11. PICK named \in SUBSET (Invoices \cup {None}) : named = {row[x].invoice}
    BY <1>2, RowsInvoice
  <1>12. Read(c, x, edit, named)
    BY <1>1, <1>8, <1>11
  <1>13. edit.lineTotal = calculateLineTotal(Given(edit.quantity, row[x].quantity),
                                            Given(edit.unitPrice, row[x].unitPrice))
    BY <1>3, <1>5, <1>6, <1>9
  <1>14. \A i \in named \ {None} : Exists(i)
    BY <1>2, <1>11, RowsInvoice
  <1>15. edit \in Edit
    BY <1>10, EditsAreEdits
  <1>16. QED
    BY <1>2, <1>9, <1>10, <1>11, <1>12, <1>13, <1>14, <1>15, ReadKeeps

LEMMA DeleteInvoiceItemKeeps ==
  ASSUME BillingInv, NEW c \in Calls, NEW x \in Items, DeleteInvoiceItem(c, x)
  PROVE  BillingInv'
  <1>1. x \in Rows
    BY DEF Rows
  <1>2. PICK edit : edit = [Blank EXCEPT !.there = FALSE]
    OBVIOUS
  <1>3. edit \in ItemEdit /\ edit.there = FALSE /\ edit.invoice = None
    BY <1>2 DEF ItemEdit, Blank
  <1>4. PICK named \in SUBSET (Invoices \cup {None}) : named = {row[x].invoice}
    BY <1>1, RowsInvoice
  <1>5. Read(c, x, edit, named)
    BY <1>2, <1>4 DEF DeleteInvoiceItem
  <1>6. \A i \in named \ {None} : Exists(i)
    BY <1>1, <1>4, RowsInvoice
  <1>7. edit \in Edit
    BY <1>3, EditsAreEdits
  <1>8. QED
    BY <1>1, <1>3, <1>4, <1>5, <1>6, <1>7, ReadKeeps

LEMMA UpdatePaymentKeeps ==
  ASSUME BillingInv, NEW c \in Calls, NEW y \in Payments, UpdatePayment(c, y)
  PROVE  BillingInv'
  <1>1. PICK edit \in PaymentEdits : Read(c, y, edit, InvoicesOfPayment(row[y], edit))
    BY DEF UpdatePayment
  <1>2. y \in Rows /\ y \notin Items
    BY BillingAssumption DEF Rows
  <1>3. edit \in PaymentEdit /\ (edit.invoice # None => Exists(edit.invoice))
    BY DEF PaymentEdits, PaymentEdit, Blank, PaymentStatus
  <1>4. PICK named \in SUBSET (Invoices \cup {None}) :
          named = {row[y].invoice, edit.invoice}
    <2>1. edit.invoice \in Invoices \cup {None}
      BY <1>3 DEF PaymentEdit
    <2>2. QED
      BY <1>2, <2>1, RowsInvoice
  <1>5. Read(c, y, edit, named)
    BY <1>1, <1>4 DEF InvoicesOfPayment
  <1>6. \A i \in named \ {None} : Exists(i)
    BY <1>2, <1>3, <1>4, RowsInvoice
  <1>7. edit \in Edit
    BY <1>3, EditsAreEdits
  <1>8. QED
    BY <1>2, <1>3, <1>4, <1>5, <1>6, <1>7, ReadKeeps

LEMMA CancelPaymentKeeps ==
  ASSUME BillingInv, NEW c \in Calls, NEW y \in Payments, CancelPayment(c, y)
  PROVE  BillingInv'
  <1>1. y \in Rows /\ y \notin Items
    BY BillingAssumption DEF Rows
  <1>2. PICK edit : edit = [Blank EXCEPT !.status = "CANCELLED"]
    OBVIOUS
  <1>3. edit \in PaymentEdit /\ edit.invoice = None
    BY <1>2 DEF PaymentEdit, Blank, PaymentStatus
  <1>4. PICK named \in SUBSET (Invoices \cup {None}) : named = {row[y].invoice}
    BY <1>1, RowsInvoice
  <1>5. Read(c, y, edit, named)
    BY <1>2, <1>4 DEF CancelPayment
  <1>6. \A i \in named \ {None} : Exists(i)
    BY <1>1, <1>4, RowsInvoice
  <1>7. edit \in Edit
    BY <1>3, EditsAreEdits
  <1>8. QED
    BY <1>1, <1>3, <1>4, <1>5, <1>6, <1>7, ReadKeeps

-----------------------------------------------------------------------------
-----------------------------------------------------------------------------
(***************************************************************************)
(* Commit: the totals are stored.                                          *)
(***************************************************************************)
(* What is due, whatever the residue of the sums, which rounds to nothing. *)
LEMMA DueIsNatural ==
  ASSUME NEW a \in Nat, NEW b \in Nat, NEW w \in 0..1
  PROVE  /\ Due(a, b, w) \in Nat
         /\ a > 100 * b => Due(a, b, w) > 0
         /\ a < 100 * b => Due(a, b, w) = 0
         /\ Round(Due(a, b, w)) = Round(Due(a, b, 0))
BY DEF Due, Round

(* The status a recalculation judges from its figures.                     *)
LEMMA StatusJudged ==
  ASSUME NEW a, NEW b, NEW due
  PROVE  /\ resolveInvoiceStatus(a, b, due) \in {"PAID", "PARTIALLY_PAID", "undefined"}
         /\ a > 0 /\ due <= 0 => resolveInvoiceStatus(a, b, due) = "PAID"
         /\ resolveInvoiceStatus(a, b, due) = "PAID" => due <= 0
         /\ resolveInvoiceStatus(a, b, due) = "undefined" => ~ b > 0
BY DEF resolveInvoiceStatus

(* The row a recalculation stores: its totals are the figures it was given.*)
LEMMA RecalculatedRow ==
  ASSUME NEW j \in InvoiceRow, NEW a \in Nat, NEW b \in Nat, NEW w \in 0..1
  PROVE  /\ Recalculated(j, a, b, w) \in InvoiceRow
         /\ j.status # "ABSENT" => Recalculated(j, a, b, w).status # "ABSENT"
         /\ Recalculated(j, a, b, w).total = Round(a)
         /\ Recalculated(j, a, b, w).amountPaid = b
         /\ Recalculated(j, a, b, w).balanceDue = Round(Due(a, b, 0))
  <1>1. PICK due \in Nat : due = Due(a, b, w)
    BY DueIsNatural
  <1>2. PICK s \in {"PAID", "PARTIALLY_PAID", "undefined"} : s = resolveInvoiceStatus(a, b, due)
    BY StatusJudged
  <1>3. PICK t \in Nat, z \in Nat : t = Round(a) /\ z = Round(due)
    BY RoundIsNatural
  <1>4. PICK v : /\ v = Recalculated(j, a, b, w)
                 /\ v = [status |-> IF s = "undefined" THEN j.status ELSE s,
                         total |-> t, amountPaid |-> b, balanceDue |-> z,
                         by |-> IF s = "undefined" THEN j.by ELSE "recalculation"]
    BY <1>1, <1>2, <1>3 DEF Recalculated
  <1>5. v \in InvoiceRow /\ (j.status # "ABSENT" => v.status # "ABSENT")
    BY <1>4 DEF InvoiceRow, InvoiceStatus
  <1>6. z = Round(Due(a, b, 0))
    BY <1>1, <1>3, DueIsNatural
  <1>7. QED
    BY <1>3, <1>4, <1>5, <1>6

(* Its status is judged by them: what it marks PAID has nothing due or     *)
(* nothing paid; with something charged and paid it is PAID if too much    *)
(* was paid and PARTIALLY_PAID if too little, residue or not.              *)
LEMMA RecalculatedStatus ==
  ASSUME NEW j \in InvoiceRow, NEW a \in Nat, NEW b \in Nat, NEW w \in 0..1
  PROVE  /\ Recalculated(j, a, b, w).status = "PAID" => Round(Due(a, b, 0)) = 0 \/ b = 0
         /\ a > 0 /\ b > 0 /\ a < 100 * b => Recalculated(j, a, b, w).status = "PAID"
         /\ a > 0 /\ b > 0 /\ a > 100 * b =>
              Recalculated(j, a, b, w).status = "PARTIALLY_PAID"
  <1>1. PICK due \in Nat : due = Due(a, b, w)
    BY DueIsNatural
  <1>2. PICK s : s = resolveInvoiceStatus(a, b, due)
    OBVIOUS
  <1>3. /\ s \in {"PAID", "PARTIALLY_PAID", "undefined"}
        /\ a > 0 /\ due <= 0 => s = "PAID"
        /\ s = "PAID" => due <= 0
        /\ s = "undefined" => ~ b > 0
    BY <1>2, StatusJudged
  <1>4. Recalculated(j, a, b, w).status = IF s = "undefined" THEN j.status ELSE s
    BY <1>1, <1>2 DEF Recalculated
  <1>5. /\ a > 100 * b => due > 0
        /\ a < 100 * b => due = 0
    BY <1>1, DueIsNatural
  <1>6. PICK z : z = Round(Due(a, b, 0)) /\ z = Round(due)
    BY <1>1, DueIsNatural
  <1>7. Recalculated(j, a, b, w).status = "PAID" => z = 0 \/ b = 0
    <2>1. s = "PAID" => z = 0
      BY <1>3, <1>6, NothingDue
    <2>2. QED
      BY <1>3, <1>4, <2>1
  <1>8. ASSUME a > 0, b > 0, a < 100 * b
        PROVE  Recalculated(j, a, b, w).status = "PAID"
    BY <1>3, <1>4, <1>5, <1>8
  <1>9. ASSUME a > 0, b > 0, a > 100 * b
        PROVE  Recalculated(j, a, b, w).status = "PARTIALLY_PAID"
    <2>1. s # "PAID" /\ s # "undefined"
      BY <1>3, <1>5, <1>9
    <2>2. QED
      BY <1>3, <1>4, <2>1
  <1>10. QED
    BY <1>6, <1>7, <1>8, <1>9

(* A request stays sound over another's commit, if it is not alone or has  *)
(* neither the row nor the invoices of the row.                            *)
LEMMA SoundOverCommit ==
  ASSUME TypeOK, NEW x \in Rows, NEW r \in RowRec, row' = [row EXCEPT ![x] = r],
         \A i \in Invoices : Exists(i) => Exists(i)',
         NEW h \in Call, CallSound(h),
         Busy(h) /\ h.alone =>
           h.row # x /\ row[x].invoice \notin h.invoices /\ r.invoice \notin h.invoices
  PROVE  CallSound(h)'
  <1>1. row \in [Rows -> RowRec]
    BY DEF TypeOK, RowRec
  <1>2. h.invoices \subseteq Invoices /\ h.new.invoice \in Invoices \cup {None}
    BY DEF Call, Edit
  <1>3. RefersSound(h)'
    BY <1>2 DEF CallSound, RefersSound
  <1>4. Busy(h) /\ h.alone => row'[h.row] = row[h.row]
    BY <1>1 DEF CallSound, RefersSound
  <1>5. AloneOn(h)' /\ AlonePrices(h)'
    BY <1>4 DEF CallSound, AloneOn, AlonePrices
  <1>6. AloneReads(h)'
    <2> SUFFICES ASSUME h.stage = "totalling", h.alone, NEW q \in Queries(h.invoices) \ h.todo
                 PROVE  h.figures[q] = Figure(Sees(h)', q)
      BY DEF AloneReads
    <2>1. Busy(h)
      BY DEF Busy
    <2>2. PICK R \in [Rows -> RowRec] : R = Sees(h)
      BY SeenRows DEF CallSound
    <2>3. h.row \in Rows /\ h.row # x
      BY <2>1 DEF CallSound, RefersSound
    <2>4. Sees(h)' = [R EXCEPT ![x] = r]
      BY <1>1, <2>2, <2>3 DEF Sees
    <2>5. R[x] = row[x]
      BY <1>1, <2>2, <2>3 DEF Sees
    <2>6. PICK i \in h.invoices : i = q[1]
      BY DEF Queries
    <2>7. i # None /\ R[x].invoice # i /\ r.invoice # i
      BY <1>2, <2>1, <2>5, BillingAssumption
    <2>8. /\ Charged([R EXCEPT ![x] = r], i) = Charged(R, i)
          /\ Paid([R EXCEPT ![x] = r], i) = Paid(R, i)
      BY <2>7, FigureIsSame
    <2>9. Figure([R EXCEPT ![x] = r], q) = Figure(R, q)
      BY <2>6, <2>8 DEF Figure
    <2>10. h.figures[q] = Figure(R, q)
      BY <2>2 DEF CallSound, AloneReads
    <2>11. PICK Q : Q = [R EXCEPT ![x] = r]
      OBVIOUS
    <2>12. Figure(Sees(h)', q) = Figure(Q, q)
      BY <2>4, <2>11
    <2>13. QED
      BY <2>9, <2>10, <2>11, <2>12
  <1>7. QED
    BY <1>3, <1>5, <1>6 DEF CallSound

-----------------------------------------------------------------------------
-----------------------------------------------------------------------------
(* The commit: totals stored by a request that was alone are the sums of   *)
(* the rows it leaves, and other requests that are alone are not touched.  *)
LEMMA CommitKeeps ==
  ASSUME BillingInv, NEW c \in Calls, Commit(c)
  PROVE  BillingInv'
  <1>1. PICK k \in Call : k = call[c]
    BY DEF BillingInv, TypeOK
  <1>2. /\ RefersSound(k) /\ AloneOn(k) /\ AlonePrices(k) /\ AloneReads(k)
        /\ k.stage = "totalling" /\ k.todo = {} /\ Busy(k)
    BY <1>1 DEF Commit, BillingInv, CallSound, Busy
  <1>3. PICK x \in Rows, r \in RowRec : x = k.row /\ r = k.new
    BY <1>2, SeenRows DEF BillingInv
  <1>4. PICK D \in SUBSET Invoices : D = k.invoices
    BY DEF Call
  <1>5. PICK left \in Invoices \cup {None} : left = row[x].invoice
    BY RowsInvoice
  <1>6. r.invoice \in Invoices \cup {None}
    BY RowColumns
  <1>7. PICK moved \in SUBSET Invoices : moved = {left, r.invoice} \ {None}
    BY <1>6
  <1>8. PICK judged : judged = D \cup moved \cup ({x} \cap Items)
    OBVIOUS
  <1>9. row' = [row EXCEPT ![x] = r]
    BY <1>1, <1>3 DEF Commit, View
  <1>10. row' = Sees(k) /\ row \in [Rows -> RowRec] /\ row' \in [Rows -> RowRec]
    BY <1>3, <1>9 DEF Sees, BillingInv, TypeOK, RowRec
  <1>11. PICK R \in [Rows -> RowRec] : R = row'
    BY <1>10
  <1>12. PICK residue \in [D -> 0..1] :
           invoice' = [i \in Invoices |->
             IF i \in D THEN Recalculated(invoice[i], k.figures[<<i, "items">>],
                                          k.figures[<<i, "payments">>], residue[i])
             ELSE invoice[i]]
    BY <1>1, <1>4 DEF Commit
  <1>13. exact' = [z \in Invoices \cup Items |-> IF z \in judged THEN k.alone ELSE exact[z]]
    BY <1>1, <1>3, <1>4, <1>5, <1>7, <1>8 DEF Commit, BillingInv, TypeOK
  <1>14. PICK f : f = [d \in Calls |->
           IF d = c THEN Idle
           ELSE IF d \in Overlapping(c, x, moved) THEN [call[d] EXCEPT !.alone = FALSE]
           ELSE call[d]]
    OBVIOUS
  <1>15. call' = f
    BY <1>1, <1>3, <1>5, <1>7, <1>14 DEF Commit
  <1>16. \A i \in Invoices : /\ k.figures[<<i, "items">>] \in Nat
                             /\ k.figures[<<i, "payments">>] \in Nat
    BY DEF Call, Figures
  <1>17. \A i \in D : /\ invoice'[i] \in InvoiceRow /\ (Exists(i) => Exists(i)')
    <2> TAKE i \in D
    <2>1. PICK j \in InvoiceRow : j = invoice[i]
      BY DEF BillingInv, TypeOK
    <2>2. PICK a \in Nat, b \in Nat : a = k.figures[<<i, "items">>] /\ b = k.figures[<<i, "payments">>]
      BY <1>16
    <2>3. PICK w \in 0..1 : w = residue[i]
      OBVIOUS
    <2>4. PICK v : v = Recalculated(j, a, b, w)
      OBVIOUS
    <2>5. v \in InvoiceRow /\ (j.status # "ABSENT" => v.status # "ABSENT")
      BY <2>4, RecalculatedRow
    <2>6. invoice'[i] = v
      BY <1>12, <2>1, <2>2, <2>3, <2>4
    <2>7. QED
      BY <2>1, <2>5, <2>6 DEF Exists
  <1>18. \A i \in Invoices : Exists(i) => Exists(i)'
    BY <1>12, <1>17 DEF Exists
  <1>19. \A d \in Calls \ {c} : \E h \in Call :
           /\ h = f[d] /\ CallSound(h) /\ h.row = call[d].row /\ h.invoices = call[d].invoices
           /\ h.stage = call[d].stage /\ (h.alone => call[d].alone)
           /\ Busy(h) /\ h.alone => h.row # x /\ h.invoices \cap moved = {}
    <2> TAKE d \in Calls \ {c}
    <2>1. PICK j \in Call : j = call[d]
      BY DEF BillingInv, TypeOK
    <2>2. CallSound(j)
      BY <2>1 DEF BillingInv
    <2>3. CASE d \in Overlapping(c, x, moved)
      <3>1. PICK h : h = [j EXCEPT !.alone = FALSE]
        OBVIOUS
      <3>2. /\ h \in Call /\ CallSound(h) /\ ~ h.alone
            /\ h.row = j.row /\ h.invoices = j.invoices /\ h.stage = j.stage
        BY <2>2, <3>1, LessAlone
      <3>3. f[d] = h
        BY <1>14, <2>1, <2>3, <3>1
      <3>4. QED
        BY <2>1, <3>2, <3>3
    <2>4. CASE d \notin Overlapping(c, x, moved)
      <3>1. f[d] = j
        BY <1>14, <2>1, <2>4
      <3>2. Busy(j) => j.row # x /\ j.invoices \cap moved = {}
        BY <2>1, <2>4 DEF Overlapping, Changing, Busy
      <3>3. QED
        BY <2>1, <2>2, <3>1, <3>2
    <2>5. QED
      BY <2>3, <2>4
  <1>20. f[c] = Idle
    BY <1>14
  <1>21. f \in [Calls -> Call]
    <2>1. \A d \in Calls : f[d] \in Call
      BY <1>19, <1>20, IdleIsSound
    <2>2. QED
      BY <1>14, <2>1
  <1>22. \A d \in Calls : CallSound(f[d])'
    <2> TAKE d \in Calls
    <2>1. PICK h \in Call : /\ h = f[d] /\ CallSound(h)
                            /\ Busy(h) /\ h.alone => h.row # x /\ h.invoices \cap moved = {}
      BY <1>19, <1>20, IdleIsSound
    <2>2. h.invoices \subseteq Invoices
      BY DEF Call
    <2>3. Busy(h) /\ h.alone =>
            h.row # x /\ row[x].invoice \notin h.invoices /\ r.invoice \notin h.invoices
      <3>1. None \notin Invoices
        BY BillingAssumption
      <3>2. QED
        BY <1>5, <1>7, <2>1, <2>2, <3>1
    <2>4. CallSound(h)'
      BY <1>9, <1>18, <2>1, <2>3, SoundOverCommit DEF BillingInv
    <2>5. QED
      BY <2>1, <2>4
  <1>23. Apart(f)
    <2> SUFFICES ASSUME NEW d \in Calls, NEW e \in Calls, d # e,
                        Busy(f[d]), Busy(f[e]), f[d].alone
                 PROVE  f[d].row # f[e].row /\ f[d].invoices \cap f[e].invoices = {}
      BY DEF Apart
    <2>1. d # c /\ e # c
      BY <1>20, IdleIsSound
    <2>2. PICK g \in Call, h \in Call :
            /\ g = f[d] /\ g.row = call[d].row /\ g.invoices = call[d].invoices
            /\ g.stage = call[d].stage /\ (g.alone => call[d].alone)
            /\ h = f[e] /\ h.row = call[e].row /\ h.invoices = call[e].invoices
            /\ h.stage = call[e].stage
      BY <1>19, <2>1
    <2>3. Busy(call[d]) /\ Busy(call[e]) /\ call[d].alone
      BY <2>2 DEF Busy
    <2>4. call[d].row # call[e].row /\ call[d].invoices \cap call[e].invoices = {}
      BY <2>3 DEF BillingInv, Apart
    <2>5. QED
      BY <2>2, <2>4
  <1>24. TypeOK'
    <2>1. invoice' \in [Invoices -> InvoiceRow]
      <3>1. \A i \in Invoices : invoice'[i] \in InvoiceRow
        BY <1>12, <1>17 DEF BillingInv, TypeOK
      <3>2. QED
        BY <1>12, <3>1
    <2>2. exact' \in [Invoices \cup Items -> BOOLEAN]
      <3>1. k.alone \in BOOLEAN
        BY DEF Call
      <3>2. exact \in [Invoices \cup Items -> BOOLEAN]
        BY DEF BillingInv, TypeOK
      <3>3. QED
        BY <1>13, <3>1, <3>2
    <2>3. r \in IF x \in Items THEN ItemRow \cup {Absent} ELSE PaymentRow \cup {Absent}
      BY <1>2, <1>3 DEF RefersSound
    <2>4. /\ \A y \in Items : row'[y] \in ItemRow \cup {Absent}
          /\ \A y \in Payments : row'[y] \in PaymentRow \cup {Absent}
      <3>1. Items \cap Payments = {}
        BY BillingAssumption
      <3>2. QED
        BY <1>9, <2>3, <3>1 DEF BillingInv, TypeOK, Rows
    <2>5. QED
      BY <1>10, <1>15, <1>21, <2>1, <2>2, <2>4 DEF TypeOK, RowRec
  <1>25. RowsBelong'
    <2>1. ASSUME NEW y \in Rows, NEW i \in Invoices, R[y].invoice = i
          PROVE  Exists(i)'
      <3>1. CASE y = x
        <4>1. R[y] = r
          BY <1>9, <1>10, <1>11, <3>1
        <4>2. Exists(r.invoice)
          BY <1>2, <1>3, <2>1, <4>1, BillingAssumption DEF RefersSound
        <4>3. QED
          BY <1>18, <2>1, <4>1, <4>2
      <3>2. CASE y # x
        <4>1. R[y] = row[y]
          BY <1>9, <1>10, <1>11, <3>2
        <4>2. Exists(i)
          BY <2>1, <4>1, RowsInvoice, BillingAssumption
        <4>3. QED
          BY <1>18, <4>2
      <3>3. QED
        BY <3>1, <3>2
    <2>2. \A y \in Rows : R[y].invoice \in Invoices \cup {None}
      BY RowColumns
    <2>3. QED
      BY <1>11, <2>1, <2>2 DEF RowsBelong, Exists
  <1>26. LinesPriced'
    <2> SUFFICES ASSUME NEW y \in Items, row'[y].there, exact'[y]
                 PROVE  row'[y].lineTotal
                          = calculateLineTotal(row'[y].quantity, row'[y].unitPrice)
      BY DEF LinesPriced
    <2>1. y \in Rows
      BY DEF Rows
    <2>2. CASE y = x
      <3>1. row'[y] = r
        BY <1>9, <1>10, <2>2
      <3>2. k.alone
        BY <1>8, <1>13, <2>2
      <3>3. QED
        BY <1>2, <1>3, <2>2, <3>1, <3>2 DEF AlonePrices
    <2>3. CASE y # x
      <3>1. row'[y] = row[y]
        BY <1>9, <1>10, <2>1, <2>3
      <3>2. y \notin judged
        BY <1>8, <2>3, BillingAssumption
      <3>3. exact[y]
        BY <1>13, <3>2
      <3>4. QED
        BY <3>1, <3>3 DEF BillingInv, LinesPriced
    <2>4. QED
      BY <2>2, <2>3
  <1>27. ASSUME NEW i \in Invoices, Exists(i)', exact'[i]
         PROVE  \/ /\ invoice'[i] = invoice[i] /\ exact[i] /\ Exists(i)
                   /\ Charged(R, i) = Charged(row, i) /\ Paid(R, i) = Paid(row, i)
                \/ /\ i \in D
                   /\ k.figures[<<i, "items">>] = Charged(R, i)
                   /\ k.figures[<<i, "payments">>] = Paid(R, i)
    <2>1. CASE i \in D \cup moved
      <3>1. k.alone
        BY <1>8, <1>13, <1>27, <2>1
      <3>2. i \in D
        BY <1>2, <1>3, <1>4, <1>5, <1>7, <2>1, <3>1 DEF AloneOn
      <3>3. \A q \in Queries(D) : k.figures[q] = Figure(Sees(k), q)
        BY <1>2, <1>4, <3>1 DEF AloneReads
      <3>4. \A q \in Queries(D) : k.figures[q] = Figure(R, q)
        <4> TAKE q \in Queries(D)
        <4>1. Sees(k) = R
          BY <1>10, <1>11
        <4>2. Figure(Sees(k), q) = Figure(R, q)
          BY <4>1
        <4>3. QED
          BY <3>3, <4>2
      <3>5. <<i, "items">> \in Queries(D) /\ <<i, "payments">> \in Queries(D)
        BY <3>2 DEF Queries
      <3>6. /\ Figure(R, <<i, "items">>) = Charged(R, i)
            /\ Figure(R, <<i, "payments">>) = Paid(R, i)
        BY DEF Figure
      <3>7. QED
        BY <3>2, <3>4, <3>5, <3>6
    <2>2. CASE i \notin D \cup moved
      <3>1. i \notin judged
        BY <1>8, <2>2, BillingAssumption
      <3>2. invoice'[i] = invoice[i] /\ exact[i]
        BY <1>12, <1>13, <1>27, <2>2, <3>1
      <3>3. Exists(i)
        BY <1>27, <3>2 DEF Exists
      <3>4. PICK Q \in [Rows -> RowRec] : Q = row
        BY <1>10
      <3>5. i # None /\ Q[x].invoice # i /\ r.invoice # i
        BY <1>5, <1>7, <2>2, <3>4, BillingAssumption
      <3>6. R = [Q EXCEPT ![x] = r]
        BY <1>9, <1>11, <3>4
      <3>7. /\ Charged([Q EXCEPT ![x] = r], i) = Charged(Q, i)
            /\ Paid([Q EXCEPT ![x] = r], i) = Paid(Q, i)
        BY <3>5, FigureIsSame
      <3>8. Charged(R, i) = Charged(Q, i) /\ Paid(R, i) = Paid(Q, i)
        BY <3>6, <3>7
      <3>9. Charged(Q, i) = Charged(row, i) /\ Paid(Q, i) = Paid(row, i)
        BY <3>4
      <3>10. QED
        BY <3>2, <3>3, <3>8, <3>9
    <2>3. QED
      BY <2>1, <2>2
  <1>28. ASSUME NEW i \in Invoices, Exists(i)', exact'[i]
         PROVE  /\ invoice'[i].total = Round(Charged(R, i))
                /\ invoice'[i].amountPaid = Paid(R, i)
                /\ invoice'[i].balanceDue = Round(Due(Charged(R, i), Paid(R, i), 0))
                /\ invoice'[i].status = "PAID" /\ invoice'[i].by = "recalculation" =>
                     invoice'[i].balanceDue = 0 \/ invoice'[i].amountPaid = 0
                /\ /\ invoice'[i].by = "recalculation"
                   /\ Charged(R, i) > 0 /\ 100 * Paid(R, i) > 0
                   => /\ Charged(R, i) < 100 * Paid(R, i) => invoice'[i].status = "PAID"
                      /\ Charged(R, i) > 100 * Paid(R, i) =>
                           invoice'[i].status = "PARTIALLY_PAID"
    <2>1. CASE /\ invoice'[i] = invoice[i] /\ exact[i] /\ Exists(i)
               /\ Charged(R, i) = Charged(row, i) /\ Paid(R, i) = Paid(row, i)
      BY <2>1 DEF BillingInv, TotalsExact, PaidIsSettledOrTakenBack, StatusFollowsMoney
    <2>2. CASE /\ i \in D
               /\ k.figures[<<i, "items">>] = Charged(R, i)
               /\ k.figures[<<i, "payments">>] = Paid(R, i)
      <3>1. PICK j \in InvoiceRow : j = invoice[i]
        BY DEF BillingInv, TypeOK
      <3>2. PICK a \in Nat, b \in Nat : a = Charged(R, i) /\ b = Paid(R, i)
        BY FigureIsNatural
      <3>3. PICK w \in 0..1 : w = residue[i]
        BY <2>2
      <3>4. PICK v : v = Recalculated(j, a, b, w)
        OBVIOUS
      <3>5. invoice'[i] = v
        BY <1>12, <2>2, <3>1, <3>2, <3>3, <3>4
      <3>6. v.total = Round(a) /\ v.amountPaid = b /\ v.balanceDue = Round(Due(a, b, 0))
        <4>1. Recalculated(j, a, b, w).total = Round(a)
          BY RecalculatedRow
        <4>2. Recalculated(j, a, b, w).amountPaid = b
          BY RecalculatedRow
        <4>3. Recalculated(j, a, b, w).balanceDue = Round(Due(a, b, 0))
          BY RecalculatedRow
        <4>4. QED
          BY <3>4, <4>1, <4>2, <4>3
      <3>7. v.status = "PAID" => Round(Due(a, b, 0)) = 0 \/ b = 0
        BY <3>4, RecalculatedStatus
      <3>8. a > 0 /\ b > 0 => /\ a < 100 * b => v.status = "PAID"
                              /\ a > 100 * b => v.status = "PARTIALLY_PAID"
        BY <3>4, RecalculatedStatus
      <3>9. 100 * b > 0 => b > 0
        BY <3>2
      <3>10. QED
        BY <3>2, <3>5, <3>6, <3>7, <3>8, <3>9
    <2>3. QED
      BY <1>27, <1>28, <2>1, <2>2
  <1>29. TotalsExact'
    BY <1>11, <1>28 DEF TotalsExact
  <1>30. PaidIsSettledOrTakenBack'
    BY <1>28 DEF PaidIsSettledOrTakenBack
  <1>31. StatusFollowsMoney'
    BY <1>11, <1>28 DEF StatusFollowsMoney
  <1>32. QED
    BY <1>15, <1>22, <1>23, <1>24, <1>25, <1>26, <1>29, <1>30, <1>31 DEF BillingInv

-----------------------------------------------------------------------------
(* BillingInv /\ [Next]_vars => BillingInv'.                               *)
LEMMA Inductive == BillingInv /\ [Next]_vars => BillingInv'
  <1> SUFFICES ASSUME BillingInv, [Next]_vars
               PROVE  BillingInv'
    OBVIOUS
  <1>1. CASE \E i \in Invoices : CreateInvoice(i) \/ UpdateInvoice(i) \/ CancelInvoice(i)
    BY <1>1, CreateInvoiceKeeps, UpdateInvoiceKeeps, CancelInvoiceKeeps
  <1>2. CASE \E c \in Calls, i \in Invoices : ReadToSend(c, i)
    BY <1>2, ReadToSendKeeps
  <1>3. CASE \E c \in Calls, x \in Items :
               AddInvoiceItem(c, x) \/ UpdateInvoiceItem(c, x) \/ DeleteInvoiceItem(c, x)
    BY <1>3, AddInvoiceItemKeeps, UpdateInvoiceItemKeeps, DeleteInvoiceItemKeeps
  <1>4. CASE \E c \in Calls, y \in Payments :
               CreatePayment(c, y) \/ UpdatePayment(c, y) \/ CancelPayment(c, y)
    BY <1>4, CreatePaymentKeeps, UpdatePaymentKeeps, CancelPaymentKeeps
  <1>5. CASE \E c \in Calls :
               SendInvoice(c) \/ WriteRow(c) \/ ReadFigure(c) \/ Commit(c) \/ Fail(c)
    BY <1>5, SendInvoiceKeeps, WriteRowKeeps, ReadFigureKeeps, CommitKeeps, FailKeeps
  <1>6. CASE UNCHANGED vars
    <2>1. PICK f \in [Calls -> Call] : f = call
      BY DEF BillingInv, TypeOK
    <2>2. call' = f /\ UNCHANGED <<row, invoice, exact>>
      BY <1>6, <2>1 DEF vars
    <2>3. (\A d \in Calls : CallSound(f[d])) /\ Apart(f)
      BY <2>1 DEF BillingInv
    <2>4. QED
      BY <2>2, <2>3, CallsMove
  <1>7. QED
    BY <1>1, <1>2, <1>3, <1>4, <1>5, <1>6 DEF Next

LEMMA Always == Spec => []BillingInv
BY Initially, Inductive, PTL DEF Spec

(* Every row has the columns of its table and every amount is a natural,   *)
(* the sums that recalculateInvoiceTotals stores included.                 *)
THEOREM BillingTypeCorrect == Spec => []TypeOK
  <1>1. BillingInv => TypeOK
    BY DEF BillingInv
  <1>2. QED
    BY <1>1, Always, PTL

(* The stored totals of an invoice are those of its items and payments,    *)
(* once recalculated by a request that nobody overlapped.                  *)
THEOREM TotalsAreExact == Spec => []TotalsExact
  <1>1. BillingInv => TotalsExact
    BY DEF BillingInv
  <1>2. QED
    BY <1>1, Always, PTL

(* A line shows quantity times unit price, unless edits of it overlapped.  *)
THEOREM LinesArePriced == Spec => []LinesPriced
  <1>1. BillingInv => LinesPriced
    BY DEF BillingInv
  <1>2. QED
    BY <1>1, Always, PTL

(* An invoice that the recalculation marked PAID has no balance, or every  *)
(* payment on it has been taken back.                                      *)
THEOREM PaidIsExplained == Spec => []PaidIsSettledOrTakenBack
  <1>1. BillingInv => PaidIsSettledOrTakenBack
    BY DEF BillingInv
  <1>2. QED
    BY <1>1, Always, PTL

(* By the last recalculation, once nobody overlapped it, an overpaid       *)
(* invoice is PAID and an underpaid one PARTIALLY_PAID, by however little  *)
(* and whatever the residue of binary sums; only of one paid to the cent   *)
(* it may be either.                                                       *)
THEOREM StatusIsThatOfTheMoney == Spec => []StatusFollowsMoney
  <1>1. BillingInv => StatusFollowsMoney
    BY DEF BillingInv
  <1>2. QED
    BY <1>1, Always, PTL
=====
