---------------------------- MODULE BillingProofs ----------------------------
(***************************************************************************)
(* Proofs of the safety of Billing, for any accounts, customers,           *)
(* subscriptions, events and number of processes.                          *)
(***************************************************************************)
EXTENDS Billing, TLAPS

\* Events are well formed.
LEMMA EventsFormed == \A e \in Events : EventOK(e)
  BY BillingAssumption, Zenon

\* No account, customer, row or event is None.
LEMMA NotNone ==
  /\ None \notin Users /\ None \notin Customers /\ None \notin Events
  /\ None \notin Subscriptions /\ None \notin EntitlementRows
  BY BillingAssumption, Zenon

\* A checkout belongs to an account.
LEMMA CheckoutsNamed == CheckoutUser \in [Checkouts -> Users]
  BY BillingAssumption, Zenon

\* The numbers of the policy and of the bounds.
LEMMA Policy ==
  /\ Leeway \in Nat /\ Grace \in Nat /\ TrialDays \in Nat \ {0}
  /\ MaxNow \in Nat /\ MaxFailures \in Nat /\ MaxOperations \in Nat /\ Never \in Int
  BY BillingAssumption

Steps == {"idle", "claim", "claimed", "bind", "lock", "check", "put"}

\* From the insert of the event's key on, and from the account's on.
OpenSteps == {"claimed", "bind", "lock", "check", "put"}
AccountSteps == {"lock", "check", "put"}

Txs == [step : Steps, event : Events \cup {None}, user : Users \cup {None}, bound : BOOLEAN]

Types ==
  /\ now \in 0..MaxNow
  /\ checkout \in [Checkouts -> {"no", "checked", "open", "completed"}]
  /\ outcome \in [Events -> {"none", "applied", "stale", "ignored"}]
  /\ customers \in [Customers -> Users \cup {None}]
  /\ subs \in [Subs -> Subscriptions \cup {None}]
  /\ grants \in [Users -> [Sources -> EntitlementRows \cup {None}]]
  /\ trialed \subseteq Users
  /\ tx \in [Procs -> Txs]
  /\ failures \in 0..MaxFailures /\ operations \in 0..MaxOperations

(***************************************************************************)
(* What a transaction relies on from one statement to the next, although   *)
(* others commit in between: its event is still unsettled, and the         *)
(* customer is the account's or is about to become it.                     *)
(***************************************************************************)
TxFits(t, time, outcomes, bindings) ==
  /\ t.step = "idle" <=> t.event = None
  /\ t.step # "idle" => t.event \in Events /\ t.event.at <= time
  /\ t.step \in {"bind"} \cup AccountSteps => t.user \in Users
  /\ t.step \in OpenSteps => outcomes[t.event] = "none"
  /\ t.step = "bind" => /\ t.event.kind \in {"checkout", "subscription"}
                        /\ t.event.kind = "checkout" => t.event.checkout \in Checkouts
  /\ t.step \in AccountSteps => /\ t.event.kind = "subscription"
                                /\ t.bound \/ bindings[t.event.customer] = t.user
  /\ t.bound => /\ t.step \in AccountSteps
                /\ bindings[t.event.customer] = None
                /\ \A c \in Customers : bindings[c] # t.user

TxOK(t) == TxFits(t, now, outcome, customers)

\* No two transactions hold the same event, customer or account's customer.
Apart(t, o) ==
  /\ t.step \in OpenSteps /\ o.step \in OpenSteps => t.event # o.event
  /\ t.bound /\ o.bound => t.event.customer # o.event.customer /\ t.user # o.user

TxInv ==
  /\ \A p \in Procs : TxOK(tx[p])
  /\ \A p, q \in Procs : p # q => Apart(tx[p], tx[q])

\* NewestStands, and that a processed event left a row and a customer behind.
NewestInv ==
  \A e \in Events :
    e.kind = "subscription" /\ outcome[e] \in {"applied", "stale"} =>
      /\ customers[e.customer] # None
      /\ subs[e.sub] # None
      /\ subs[e.sub].user = customers[e.customer] => subs[e.sub].at >= e.at

SubsInv ==
  \A x \in Subs : subs[x] # None =>
    /\ customers[subs[x].customer] = subs[x].user
    /\ subs[x].start <= now /\ subs[x].start < subs[x].end

CustomersInv ==
  \A c, d \in Customers : customers[c] # None /\ customers[c] = customers[d] => c = d

BillingInv == Types /\ TxInv /\ NewestInv /\ SubsInv /\ CustomersInv

(***************************************************************************)
(* Access follows payment from now on, not only now: time passes without a *)
(* step of billing.                                                        *)
(***************************************************************************)
Covers(row, t) == row # None /\ row.start <= t /\ t < row.end

PaidInv ==
  \A u \in Users : \A t \in Nat : t >= now => (Pays(u, t) <=> Covers(grants[u]["billing"], t))

RowOK(g, row) ==
  row # None =>
    /\ row.start < row.end
    /\ g = "billing" => row.kind \in {"TRIAL", "SUBSCRIPTION"} /\ row.status # "REVOKED"
    /\ g = "operator" => row.kind # "SUBSCRIPTION"

RowsInv == \A u \in Users, g \in Sources : RowOK(g, grants[u][g])
-----------------------------------------------------------------------------
(* What BillingInv says of one variable or of one transaction.             *)

\* Time is a number.
LEMMA NowTyped == ASSUME BillingInv PROVE now \in Nat
  BY Policy DEF BillingInv, Types

\* Trials are of accounts.
LEMMA TrialedTyped == ASSUME BillingInv PROVE trialed \subseteq Users
  BY Zenon DEF BillingInv, Types

\* What is stored for a subscription has its type.
LEMMA SubsTyped == ASSUME BillingInv PROVE subs \in [Subs -> Subscriptions \cup {None}]
  BY Zenon DEF BillingInv, Types

\* A stored subscription has the time of its event.
LEMMA SubTimed == ASSUME BillingInv, NEW x \in Subs, subs[x] # None PROVE subs[x].at \in Nat
  BY SubsTyped, Zenon DEF Subscriptions

\* What is known of every transaction.
LEMMA TxIsOK == ASSUME BillingInv, NEW p \in Procs PROVE TxOK(tx[p])
  BY Zenon DEF BillingInv, TxInv

\* The tables are empty at first.
LEMMA BillingInit == Init => BillingInv
<1> SUFFICES ASSUME Init PROVE BillingInv
  BY Zenon
<1>1. Types
  BY Policy DEF Init, Types, Txs, Idle, Tx, Steps
<1>2. \A p \in Procs : tx[p] = Idle
  BY Zenon DEF Init
<1>3. TxInv
  BY <1>2 DEF TxInv, TxOK, TxFits, Apart, Idle, Tx, OpenSteps, AccountSteps
<1> QED BY <1>1, <1>3, Zenon DEF Init, BillingInv, NewestInv, SubsInv, CustomersInv

\* The transaction of one process moves on, and no table it relies on changes.
LEMMA Advance ==
  ASSUME BillingInv, NEW p \in Procs, NEW t \in Txs, Becomes(p, t), TxOK(t),
         \A q \in Procs \ {p} : Apart(t, tx[q]) /\ Apart(tx[q], t),
         UNCHANGED <<now, outcome, customers, subs>>, Types'
  PROVE  BillingInv'
<1>1. \A q \in Procs : tx'[q] = IF q = p THEN t ELSE tx[q]
  BY Zenon DEF Becomes, Types
<1>2. \A q \in Procs : TxOK(tx[q])'
  BY <1>1 DEF BillingInv, TxInv, TxOK
<1>3. \A q, r \in Procs : q # r => Apart(tx[q], tx[r])'
  <2> TAKE q, r \in Procs
  <2> HAVE q # r
  <2>1. Apart(tx'[q], tx'[r])
    BY <1>1, Zenon DEF BillingInv, TxInv
  <2> QED BY <2>1, Zenon DEF Apart
<1> QED BY <1>2, <1>3, Zenon DEF BillingInv, TxInv, NewestInv, SubsInv, CustomersInv

\* Nothing of a transaction changes, and time does not run backwards.
LEMMA Quiet ==
  ASSUME BillingInv, UNCHANGED <<outcome, customers, subs, tx>>, now' >= now, Types'
  PROVE  BillingInv'
<1>1. now \in Nat /\ now' \in Nat
  BY NowTyped DEF Types
<1>2. TxInv'
  BY <1>1, EventsFormed DEF BillingInv, TxInv, TxOK, TxFits, EventOK
<1>3. SubsInv'
  BY DEF BillingInv, SubsInv, Types, Subscriptions
<1> QED BY <1>2, <1>3, Zenon DEF BillingInv, NewestInv, CustomersInv

\* The customer is bound as the transaction ends, or no customer is.
Binding(p, c, u) ==
  \/ customers' = customers
  \/ /\ customers' = [customers EXCEPT ![c] = u]
     /\ customers[c] = None /\ \A d \in Customers : customers[d] # u
     /\ \A q \in Procs \ {p} : tx[q].bound => tx[q].event.customer # c /\ tx[q].user # u

\* A subscription is as it was, or is the account's and not older than it was.
Storing(c, u) ==
  \A x \in Subs :
    \/ subs'[x] = subs[x]
    \/ /\ subs'[x] # None
       /\ subs'[x].user = u /\ subs'[x].customer = c /\ customers'[c] = u
       /\ subs'[x].start <= now /\ subs'[x].start < subs'[x].end
       /\ subs[x] # None => subs[x].user = u /\ subs'[x].at >= subs[x].at

\* A processed event leaves a subscription that is not older.
LeavesNewer(e, c, result) ==
  e.kind = "subscription" /\ result \in {"applied", "stale"} =>
    /\ subs'[e.sub] # None
    /\ customers'[c] # None
    /\ subs'[e.sub].user = customers'[c] => subs'[e.sub].at >= e.at

\* The transaction of p holds the event e.
HoldsEvent(p, e) == tx[p].step \in OpenSteps /\ tx[p].event = e

\* What one transaction relies on survives the end of another.
Elsewhere(t, e, u, bindings, after) ==
  /\ t.step \in OpenSteps => t.event # e
  /\ \/ after = bindings
     \/ /\ after = [bindings EXCEPT ![e.customer] = u]
        /\ bindings[e.customer] = None /\ \A d \in Customers : bindings[d] # u
        /\ t.bound => t.event.customer # e.customer /\ t.user # u

\* A transaction on another event goes on as before when one is settled.
LEMMA OthersKeep ==
  ASSUME NEW e \in Events, NEW result, NEW u, NEW t, NEW time,
         NEW outcomes \in [Events -> {"none", "applied", "stale", "ignored"}],
         NEW bindings \in [Customers -> Users \cup {None}], NEW after,
         TxFits(t, time, outcomes, bindings), Elsewhere(t, e, u, bindings, after)
  PROVE  TxFits(t, time, [outcomes EXCEPT ![e] = result], after)
<1>1. t.step # "idle" => t.event \in Events /\ t.event.customer \in Customers
  BY EventsFormed, Zenon DEF TxFits, EventOK
<1>2. t.step \in OpenSteps => t.step # "idle"
  BY Zenon DEF OpenSteps
<1>3. t.step \in AccountSteps => t.step # "idle" /\ t.user \in Users /\ t.user # None
  BY NotNone, Zenon DEF TxFits, AccountSteps
<1>4. t.step \in OpenSteps => [outcomes EXCEPT ![e] = result][t.event] = "none"
  BY DEF TxFits, Elsewhere
<1>5. t.step \in AccountSteps => t.bound \/ after[t.event.customer] = t.user
  BY <1>1, <1>3, Zenon DEF TxFits, Elsewhere
<1>6. t.bound => /\ after[t.event.customer] = None
                 /\ \A d \in Customers : after[d] # t.user
  BY <1>1, <1>3 DEF TxFits, Elsewhere
<1> QED BY <1>4, <1>5, <1>6, Zenon DEF TxFits

\* A transaction that commits settles its event and leaves the others as they
\* were.
LEMMA SettleEvent ==
  ASSUME BillingInv, NEW p \in Procs, NEW e \in Events, HoldsEvent(p, e), outcome[e] = "none",
         NEW result \in {"applied", "stale", "ignored"}, NEW u \in Users \cup {None},
         Becomes(p, Idle), now' = now, Types',
         outcome' = [outcome EXCEPT ![e] = result],
         Binding(p, e.customer, u), Storing(e.customer, u), LeavesNewer(e, e.customer, result)
  PROVE  BillingInv'
<1>1. \A q \in Procs : tx'[q] = IF q = p THEN Idle ELSE tx[q]
  BY DEF Becomes, Types
<1>2. outcome \in [Events -> {"none", "applied", "stale", "ignored"}]
      /\ customers \in [Customers -> Users \cup {None}]
  BY Zenon DEF BillingInv, Types
<1>3. e.customer \in Customers
  BY EventsFormed, Zenon DEF EventOK
<1>4. \A d \in Customers : customers[d] # None => customers'[d] = customers[d]
  BY <1>2, Zenon DEF Binding
<1>5. \A q \in Procs : TxOK(tx[q])'
  <2> TAKE q \in Procs
  <2>1. CASE q = p
    BY <1>1, <2>1 DEF TxOK, TxFits, Idle, Tx, OpenSteps, AccountSteps
  <2>2. CASE q # p
    <3>1. tx'[q] = tx[q] /\ TxFits(tx[q], now, outcome, customers)
      BY <1>1, <2>2, TxIsOK, Zenon DEF TxOK
    <3>2. tx[q].step \in OpenSteps => tx[q].event # e
      BY <2>2, Zenon DEF HoldsEvent, BillingInv, TxInv, Apart
    <3>3. Elsewhere(tx[q], e, u, customers, customers')
      BY <2>2, <3>2, Zenon DEF Binding, Elsewhere
    <3>4. TxFits(tx[q], now, outcome', customers')
      BY <1>2, <3>1, <3>3, OthersKeep, Zenon
    <3> QED BY <3>1, <3>4, Zenon DEF TxOK
  <2> QED BY <2>1, <2>2, Zenon
<1>6. \A q, r \in Procs : q # r => Apart(tx[q], tx[r])'
  <2> TAKE q, r \in Procs
  <2> HAVE q # r
  <2>1. Apart(tx'[q], tx'[r])
    <3>1. CASE q = p \/ r = p
      BY <1>1, <3>1 DEF Apart, Idle, Tx, OpenSteps
    <3>2. CASE q # p /\ r # p
      BY <1>1, <3>2 DEF BillingInv, TxInv
    <3> QED BY <3>1, <3>2, Zenon
  <2> QED BY <2>1, Zenon
<1>7. CustomersInv'
  BY <1>2 DEF BillingInv, CustomersInv, Binding
<1>8. SubsInv'
  <2> SUFFICES ASSUME NEW x \in Subs, subs'[x] # None
               PROVE  /\ customers'[subs'[x].customer] = subs'[x].user
                      /\ subs'[x].start <= now /\ subs'[x].start < subs'[x].end
    BY Zenon DEF SubsInv
  <2>1. CASE subs'[x] = subs[x]
    <3>1. subs[x] \in Subscriptions
      BY <2>1, SubsTyped, Zenon
    <3>2. /\ customers[subs[x].customer] = subs[x].user
          /\ subs[x].start <= now /\ subs[x].start < subs[x].end
      BY <2>1, Zenon DEF BillingInv, SubsInv
    <3>3. subs[x].customer \in Customers /\ subs[x].user # None
      BY <3>1, NotNone, Zenon DEF Subscriptions
    <3> QED BY <1>4, <2>1, <3>2, <3>3, Zenon
  <2>2. CASE subs'[x] # subs[x]
    BY <2>2, Zenon DEF Storing
  <2> QED BY <2>1, <2>2, Zenon
<1>9. ASSUME NEW f \in Events, f.kind = "subscription", outcome'[f] \in {"applied", "stale"}
      PROVE  /\ customers'[f.customer] # None
             /\ subs'[f.sub] # None
             /\ subs'[f.sub].user = customers'[f.customer] => subs'[f.sub].at >= f.at
  <2>1. CASE f = e
    <3>1. result \in {"applied", "stale"}
      BY <1>9, <2>1
    <3> QED BY <1>9, <2>1, <3>1, Zenon DEF LeavesNewer
  <2>2. CASE f # e
    <3>1. outcome[f] \in {"applied", "stale"}
      BY <1>2, <1>9, <2>2, Zenon
    <3>2. /\ customers[f.customer] # None /\ subs[f.sub] # None
          /\ subs[f.sub].user = customers[f.customer] => subs[f.sub].at >= f.at
      BY <1>9, <3>1, Zenon DEF BillingInv, NewestInv
    <3>3. f.customer \in Customers /\ f.sub \in Subs /\ f.at \in Nat
      BY EventsFormed, Zenon DEF EventOK
    <3>4. customers'[f.customer] = customers[f.customer]
      BY <1>4, <3>2, <3>3, Zenon
    <3>5. /\ subs'[f.sub] # None
          /\ subs'[f.sub].user = subs[f.sub].user
          /\ subs'[f.sub] = subs[f.sub] \/ subs'[f.sub].at >= subs[f.sub].at
      BY <3>2, <3>3, Zenon DEF Storing
    <3>6. subs[f.sub].at \in Nat /\ subs'[f.sub].at \in Nat
      <4>1. subs' \in [Subs -> Subscriptions \cup {None}]
        BY Zenon DEF Types
      <4> QED BY <3>2, <3>3, <3>5, <4>1, SubTimed, Zenon DEF Subscriptions
    <3> QED BY <3>2, <3>3, <3>4, <3>5, <3>6
  <2> QED BY <2>1, <2>2, Zenon
<1>10. NewestInv'
  BY <1>9, Zenon DEF NewestInv
<1> QED BY <1>5, <1>6, <1>7, <1>8, <1>10, Zenon DEF BillingInv, TxInv

\* A transaction ends and settles its event, binding a customer or not.
LEMMA Settle ==
  ASSUME BillingInv, NEW p \in Procs, tx[p].step \in OpenSteps,
         NEW result \in {"applied", "stale", "ignored"},
         NEW c \in Customers, NEW u \in Users \cup {None}, c = tx[p].event.customer,
         Becomes(p, Idle), now' = now, Types',
         outcome' = [outcome EXCEPT ![tx[p].event] = result],
         Binding(p, c, u), Storing(c, u), LeavesNewer(tx[p].event, c, result)
  PROVE  BillingInv'
<1>1. HoldsEvent(p, tx[p].event)
  BY Zenon DEF HoldsEvent
<1>2. tx[p].event \in Events /\ outcome[tx[p].event] = "none"
  BY TxIsOK, Zenon DEF TxOK, TxFits, OpenSteps
<1> QED BY <1>1, <1>2, SettleEvent, Zenon
-----------------------------------------------------------------------------
(* What the plans of Entitlements return.                                  *)

AccountRows == [Sources -> EntitlementRows \cup {None}]

\* The fields of a row of entitlements.
LEMMA RowTyped ==
  ASSUME NEW status \in {"ACTIVE", "SUSPENDED", "REVOKED"}, NEW start \in Int, NEW end \in Int,
         NEW kind \in {"TRIAL", "STANDARD", "BETA", "SUBSCRIPTION"}
  PROVE  /\ Row(status, start, end, kind) \in EntitlementRows
         /\ Row(status, start, end, kind).status = status
         /\ Row(status, start, end, kind).start = start
         /\ Row(status, start, end, kind).end = end
         /\ Row(status, start, end, kind).kind = kind
  BY Zenon DEF Row, EntitlementRows

\* The earliest of three instants.
LEMMA LeastOfThree ==
  ASSUME NEW a \in Int, NEW b \in Int, NEW c \in Int
  PROVE  /\ Earliest({a, b, c}) \in {a, b, c}
         /\ Earliest({a, b, c}) <= a /\ Earliest({a, b, c}) <= b /\ Earliest({a, b, c}) <= c
<1>1. \E x \in {a, b, c} : \A y \in {a, b, c} : x <= y
  <2>1. CASE a <= b /\ a <= c
    OBVIOUS
  <2>2. CASE b <= a /\ b <= c
    OBVIOUS
  <2>3. CASE c <= a /\ c <= b
    OBVIOUS
  <2> QED BY <2>3
<1> QED BY <1>1, Zenon DEF Earliest

\* The earliest of two instants.
LEMMA LeastOfTwo ==
  ASSUME NEW a \in Int, NEW b \in Int
  PROVE  Earliest({a, b}) \in {a, b} /\ Earliest({a, b}) <= a /\ Earliest({a, b}) <= b
<1>1. \E x \in {a, b} : \A y \in {a, b} : x <= y
  OBVIOUS
<1> QED BY DEF Earliest

\* The latest of two instants.
LEMMA GreatestOfTwo ==
  ASSUME NEW a \in Int, NEW b \in Int
  PROVE  Latest({a, b}) \in {a, b} /\ Latest({a, b}) >= a /\ Latest({a, b}) >= b
<1>1. \E x \in {a, b} : \A y \in {a, b} : x >= y
  OBVIOUS
<1> QED BY <1>1, Zenon DEF Latest

\* What desiredEntitlement returns is the window of one of the subscriptions.
Windows == [active : BOOLEAN, start : Nat, end : Nat, kind : {"TRIAL", "SUBSCRIPTION"}]

\* entitlementFor: the window a subscription pays for, by its status.
LEMMA WindowOf ==
  ASSUME NEW s \in Subscriptions, s.start < s.end
  PROVE  /\ EntitlementFor(s) \in Windows
         /\ EntitlementFor(s).start = s.start
         /\ EntitlementFor(s).active => s.start < EntitlementFor(s).end
         /\ EntitlementFor(s).active
              <=> (s.status \in {"trialing", "active"} \/ (s.status = "past_due" /\ Grace > 0))
         /\ EntitlementFor(s).end =
              CASE s.status \in {"trialing", "active"} -> s.end + (IF s.cancel THEN 0 ELSE Leeway)
                [] s.status = "past_due" /\ Grace > 0  -> s.start + Grace
                [] OTHER                               -> s.end
<1> DEFINE end == CASE s.status \in {"trialing", "active"} -> s.end + (IF s.cancel THEN 0 ELSE Leeway)
                    [] s.status = "past_due" /\ Grace > 0  -> s.start + Grace
                    [] OTHER                               -> s.end
           entitles == s.status \in {"trialing", "active"} \/ (s.status = "past_due" /\ Grace > 0)
<1>1. s.start \in Nat /\ s.end \in Nat /\ Leeway \in Nat /\ Grace \in Nat
  BY Policy, Zenon DEF Subscriptions
<1>2. end \in Nat /\ (entitles => s.start < end)
  <2>1. CASE s.status \in {"trialing", "active"}
    BY <1>1
  <2>2. CASE s.status = "past_due" /\ Grace > 0
    BY <1>1, <2>2
  <2>3. CASE ~entitles
    BY <1>1, <2>3, Zenon
  <2> QED BY <2>1, <2>2, <2>3, Zenon
<1>3. EntitlementFor(s) = [active |-> entitles, start |-> s.start, end |-> end,
                           kind |-> IF s.status = "trialing" THEN "TRIAL" ELSE "SUBSCRIPTION"]
  BY Zenon DEF EntitlementFor
<1> HIDE DEF end
<1>4. EntitlementFor(s) \in Windows /\ EntitlementFor(s).end = end
  BY <1>1, <1>2, <1>3 DEF Windows
<1> HIDE DEF entitles
<1>5. (EntitlementFor(s).active <=> entitles) /\ EntitlementFor(s).start = s.start
  BY <1>3
<1>6. EntitlementFor(s).active => s.start < EntitlementFor(s).end
  BY <1>2, <1>4, <1>5, Zenon
<1> QED BY <1>4, <1>5, <1>6, Zenon DEF end, entitles

\* A plan keeps the rows of an account in shape.
Shaped(rows) == rows \in AccountRows /\ \A g \in Sources : RowOK(g, rows[g])

\* A trial leaves rows with a window.
LEMMA TrialShaped ==
  ASSUME NEW rows, Shaped(rows), NEW t \in Nat, NEW had
  PROVE  Shaped(PlanTrial(rows, t, TrialDays, had))
<1>1. Row("ACTIVE", t, t + TrialDays, "TRIAL") \in EntitlementRows
      /\ RowOK("operator", Row("ACTIVE", t, t + TrialDays, "TRIAL"))
  BY Policy DEF Row, EntitlementRows, RowOK
<1> QED BY <1>1, Zenon DEF PlanTrial, Shaped, AccountRows, Sources

\* A grant leaves rows with a window.
LEMMA GrantShaped ==
  ASSUME NEW rows, Shaped(rows), NEW t \in Nat, NEW kind \in {"TRIAL", "STANDARD", "BETA", None},
         NEW from \in Nat \cup {None}, NEW until \in Nat \cup {Never}
  PROVE  Shaped(PlanGrant(rows, t, kind, from, until))
<1> DEFINE row == rows["operator"]
           start == CASE from # None -> from
                      [] from = None /\ row # None /\ row.status = "ACTIVE" -> row.start
                      [] OTHER -> t
           named == IF kind # None THEN kind
                    ELSE IF row # None /\ row.status # "REVOKED" THEN row.kind ELSE "STANDARD"
           next == Row("ACTIVE", start, until, named)
<1>1. row # None => row \in EntitlementRows /\ row.kind # "SUBSCRIPTION"
  BY Zenon DEF Shaped, AccountRows, Sources, RowOK
<1>2. start \in Int /\ until \in Int
  <2>1. row # None => row.start \in Int
    BY <1>1, Zenon DEF EntitlementRows
  <2>2. from # None => from \in Int
    OBVIOUS
  <2> QED BY <2>1, Policy
<1>3. named \in {"TRIAL", "STANDARD", "BETA"}
  BY <1>1, Zenon DEF EntitlementRows
<1> HIDE DEF start, named
<1>4. next \in EntitlementRows /\ next.start = start /\ next.end = until /\ next.kind = named
  BY <1>2, <1>3, RowTyped
<1>5. ~(until <= start) => RowOK("operator", next)
  BY <1>2, <1>3, <1>4 DEF RowOK
<1>6. \/ PlanGrant(rows, t, kind, from, until) = rows
      \/ /\ ~(until <= start)
         /\ PlanGrant(rows, t, kind, from, until) = [rows EXCEPT !["operator"] = next]
  BY Zenon DEF PlanGrant, start, named
<1> QED BY <1>4, <1>5, <1>6, Zenon DEF Shaped, AccountRows

\* Suspending and restoring change the status of rows and nothing else.
LEMMA RestatusShaped ==
  ASSUME NEW rows, Shaped(rows), NEW a, NEW b \in {"ACTIVE", "SUSPENDED"}
  PROVE  /\ Shaped(Restatus(rows, a, b))
         /\ \A g \in Sources :
              /\ Restatus(rows, a, b)[g] = None <=> rows[g] = None
              /\ rows[g] # None => /\ Restatus(rows, a, b)[g].start = rows[g].start
                                   /\ Restatus(rows, a, b)[g].end = rows[g].end
                                   /\ Restatus(rows, a, b)[g].kind = rows[g].kind
<1>1. ASSUME NEW g \in Sources
      PROVE  LET new == Restatus(rows, a, b)[g]
             IN  /\ new = None <=> rows[g] = None
                 /\ rows[g] # None => /\ new \in EntitlementRows
                                      /\ new.start = rows[g].start /\ new.end = rows[g].end
                                      /\ new.kind = rows[g].kind
                                      /\ new.status \in {rows[g].status, b}
  <2>1. CASE g \in Rows(rows) /\ rows[g].status = a
    <3>1. rows[g] # None /\ rows[g] \in EntitlementRows
      BY <2>1, Zenon DEF Shaped, AccountRows, Rows
    <3>2. Restatus(rows, a, b)[g] = [rows[g] EXCEPT !.status = b]
      BY <2>1, Zenon DEF Restatus
    <3>3. [rows[g] EXCEPT !.status = b] \in EntitlementRows
      BY <3>1, Zenon DEF EntitlementRows
    <3> QED BY <3>1, <3>2, <3>3, NotNone
  <2>2. CASE ~(g \in Rows(rows) /\ rows[g].status = a)
    <3>1. Restatus(rows, a, b)[g] = rows[g]
      BY <2>2, Zenon DEF Restatus
    <3> QED BY <3>1, Zenon DEF Shaped, AccountRows
  <2> QED BY <2>1, <2>2, Zenon
<1>2. Restatus(rows, a, b) \in AccountRows
  <2>1. \A g \in Sources : Restatus(rows, a, b)[g] \in EntitlementRows \cup {None}
    BY <1>1, Zenon
  <2> QED BY <2>1, Zenon DEF Restatus, AccountRows
<1>3. \A g \in Sources : RowOK(g, Restatus(rows, a, b)[g])
  BY <1>1 DEF Shaped, RowOK
<1> QED BY <1>1, <1>2, <1>3, Zenon DEF Shaped

\* Revoking changes the operator's row and leaves billing's.
LEMMA RevokeShaped ==
  ASSUME NEW rows, Shaped(rows)
  PROVE  Shaped(PlanRevoke(rows)) /\ PlanRevoke(rows)["billing"] = rows["billing"]
<1>1. CASE rows["operator"] = None
  BY <1>1, Zenon DEF PlanRevoke
<1>2. CASE rows["operator"] # None
  <2> DEFINE new == [rows["operator"] EXCEPT !.status = "REVOKED"]
  <2>1. rows["operator"] \in EntitlementRows /\ RowOK("operator", rows["operator"])
    BY <1>2, Zenon DEF Shaped, AccountRows, Sources
  <2>2. /\ new \in EntitlementRows
        /\ new.start = rows["operator"].start /\ new.end = rows["operator"].end
        /\ new.kind = rows["operator"].kind
    BY <2>1, Zenon DEF EntitlementRows
  <2>3. RowOK("operator", new)
    BY <1>2, <2>1, <2>2, Zenon DEF RowOK
  <2>4. PlanRevoke(rows) = [rows EXCEPT !["operator"] = new]
    BY <1>2, Zenon DEF PlanRevoke
  <2> QED BY <2>2, <2>3, <2>4, Zenon DEF Shaped, AccountRows, Sources
<1> QED BY <1>1, <1>2, Zenon

\* The operator's plans leave billing's row alone.
LEMMA OperatorsRow ==
  ASSUME NEW rows, Shaped(rows), NEW t, NEW had, NEW kind, NEW from, NEW until
  PROVE  /\ PlanTrial(rows, t, TrialDays, had)["billing"] = rows["billing"]
         /\ PlanGrant(rows, t, kind, from, until)["billing"] = rows["billing"]
  BY Zenon DEF PlanTrial, PlanGrant, Shaped, AccountRows, Sources

(***************************************************************************)
(* SYNC: from this instant on billing's row covers what the window does,   *)
(* or nothing.                                                             *)
(***************************************************************************)
LEMMA SyncCovers ==
  ASSUME NEW rows, Shaped(rows), NEW d \in Windows, NEW t \in Nat,
         d.active => d.start < d.end /\ d.start <= t
  PROVE  LET new == PlanSync(rows, d, t)
         IN  /\ Shaped(new)
             /\ new["operator"] = rows["operator"]
             /\ Suspended(rows) => Suspended(new)
             /\ \A v \in Nat : v >= t => (Covers(new["billing"], v) <=> d.active /\ v < d.end)
<1> DEFINE new == PlanSync(rows, d, t)
           row == rows["billing"]
<1>1. d.start \in Nat /\ d.end \in Nat /\ d.active \in BOOLEAN /\ d.kind \in {"TRIAL", "SUBSCRIPTION"}
  BY Zenon DEF Windows
<1>2. CASE d.active
  <2> DEFINE status == IF Suspended(rows) THEN "SUSPENDED" ELSE "ACTIVE"
             r == Row(status, d.start, d.end, d.kind)
  <2>1. new = [rows EXCEPT !["billing"] = r]
    BY <1>2, Zenon DEF PlanSync
  <2>2. r \in EntitlementRows /\ r.start = d.start /\ r.end = d.end /\ r.kind = d.kind /\ r.status = status
    BY <1>1, RowTyped
  <2> HIDE DEF r
  <2>3. new["billing"] = r /\ new["operator"] = rows["operator"] /\ new \in AccountRows
    BY <2>1, <2>2, Zenon DEF Shaped, AccountRows, Sources
  <2>4. RowOK("billing", r)
    BY <1>1, <1>2, <2>2, Zenon DEF RowOK
  <2>5. Shaped(new)
    BY <2>3, <2>4, Zenon DEF Shaped, Sources
  <2>6. Suspended(rows) => Suspended(new)
    BY <2>2, <2>3, NotNone DEF Suspended, Rows, Sources
  <2>7. \A v \in Nat : v >= t => (Covers(new["billing"], v) <=> d.active /\ v < d.end)
    BY <1>1, <1>2, <2>2, <2>3, NotNone DEF Covers
  <2> QED BY <2>3, <2>5, <2>6, <2>7, Zenon
<1>3. CASE ~d.active /\ row = None
  <2>1. new = rows
    BY <1>3, Zenon DEF PlanSync
  <2> QED BY <1>3, <2>1, Zenon DEF Covers
<1>4. CASE ~d.active /\ row # None
  <2> DEFINE start == Earliest({row.start, d.start, t - 1})
             end == Latest({start + 1, Earliest({d.end, t})})
             r == Row(row.status, start, end, d.kind)
  <2>1. new = [rows EXCEPT !["billing"] = r]
    BY <1>4, Zenon DEF PlanSync
  <2>2. /\ row \in EntitlementRows
        /\ row.start \in Int /\ row.status \in {"ACTIVE", "SUSPENDED"}
    BY <1>4, Zenon DEF Shaped, AccountRows, Sources, RowOK, EntitlementRows
  <2>3. start \in Int /\ start <= t - 1
    <3>1. \A a, b, c \in Int : LET m == Earliest({a, b, c}) IN m \in Int /\ m <= c
      BY LeastOfThree
    <3>2. row.start \in Int /\ d.start \in Int /\ t - 1 \in Int
      BY <1>1, <2>2
    <3> QED BY <3>1, <3>2, Zenon
  <2> HIDE DEF start
  <2>4. Earliest({d.end, t}) \in Int /\ Earliest({d.end, t}) <= t
    <3>1. \A a, b \in Int : Earliest({a, b}) \in Int /\ Earliest({a, b}) <= b
      BY LeastOfTwo, Zenon
    <3>2. d.end \in Int /\ t \in Int
      BY <1>1
    <3> QED BY <3>1, <3>2, Zenon
  <2>5. end \in Int /\ start < end /\ end <= t
    <3> DEFINE b == Earliest({d.end, t})
    <3>1. \A x, y \in Int : Latest({x, y}) \in {x, y} /\ Latest({x, y}) >= x
      BY GreatestOfTwo, Zenon
    <3>2. start + 1 \in Int /\ b \in Int
      BY <2>3, <2>4
    <3>3. end \in {start + 1, b} /\ end >= start + 1
      BY <3>1, <3>2, Zenon
    <3> QED BY <2>3, <2>4, <3>3
  <2> HIDE DEF end
  <2>6. r \in EntitlementRows /\ r.start = start /\ r.end = end /\ r.kind = d.kind /\ r.status = row.status
    BY <1>1, <2>2, <2>3, <2>5, Zenon DEF Row, EntitlementRows
  <2> HIDE DEF r
  <2>7. new["billing"] = r /\ new["operator"] = rows["operator"] /\ new \in AccountRows
    BY <2>1, <2>6, Zenon DEF Shaped, AccountRows, Sources
  <2>8. RowOK("billing", r)
    BY <1>1, <2>2, <2>5, <2>6, Zenon DEF RowOK
  <2>9. Shaped(new)
    BY <2>7, <2>8, Zenon DEF Shaped, Sources
  <2>10. Suspended(rows) => Suspended(new)
    BY <2>6, <2>7, NotNone, Zenon DEF Suspended, Rows, Sources
  <2>11. \A v \in Nat : v >= t => ~Covers(new["billing"], v)
    BY <2>5, <2>6, <2>7 DEF Covers
  <2> QED BY <1>4, <2>7, <2>9, <2>10, <2>11, Zenon
<1> QED BY <1>2, <1>3, <1>4, Zenon

\* A subscription pays for an instant exactly when its window covers it.
LEMMA PayingWindow ==
  ASSUME NEW s \in Subscriptions, s.start < s.end, NEW v \in Nat, s.start <= v
  PROVE  Paying(s, v) <=> EntitlementFor(s).active /\ v < EntitlementFor(s).end
<1>1. s.start \in Nat /\ s.end \in Nat /\ s.cancel \in BOOLEAN
  BY Zenon DEF Subscriptions
<1>2. CASE s.status \in {"trialing", "active"}
  <2>1. EntitlementFor(s).active /\ EntitlementFor(s).end = s.end + (IF s.cancel THEN 0 ELSE Leeway)
    BY <1>2, WindowOf, Zenon
  <2> QED BY <1>1, <1>2, <2>1 DEF Paying
<1>3. CASE s.status = "past_due" /\ Grace > 0
  <2>1. EntitlementFor(s).active /\ EntitlementFor(s).end = s.start + Grace
    BY <1>3, WindowOf, Zenon
  <2> QED BY <1>3, <2>1, Zenon DEF Paying
<1>4. CASE ~(s.status \in {"trialing", "active"} \/ (s.status = "past_due" /\ Grace > 0))
  <2>1. ~EntitlementFor(s).active
    BY <1>4, WindowOf, Zenon
  <2> QED BY <1>1, <1>4, <2>1, Policy DEF Paying
<1> QED BY <1>2, <1>3, <1>4, Zenon

\* The window chosen among an account's subscriptions covers what they pay for
\* from now on.
LEMMA DesiredPays ==
  ASSUME NEW S \in SUBSET Subscriptions, NEW t \in Nat,
         \A s \in S : s.start < s.end /\ s.start <= t,
         NEW d \in Desired(S)
  PROVE  /\ d \in Windows
         /\ d.active => d.start < d.end /\ d.start <= t
         /\ \A v \in Nat : v >= t => ((\E s \in S : Paying(s, v)) <=> d.active /\ v < d.end)
<1> DEFINE all == {EntitlementFor(s) : s \in S}
           entitling == {o \in all : o.active}
           best == IF entitling # {} THEN entitling ELSE all
<1>1. d \in best /\ \A o \in best : o.end <= d.end
  BY Zenon DEF Desired
<1>2. PICK z \in S : d = EntitlementFor(z)
  BY <1>1, Zenon
<1>3. d \in Windows /\ (d.active => d.start < d.end /\ d.start <= t)
  BY <1>2, WindowOf, Zenon
<1>4. ASSUME NEW v \in Nat, v >= t
      PROVE  (\E s \in S : Paying(s, v)) <=> d.active /\ v < d.end
  <2>1. ASSUME NEW s \in S, Paying(s, v) PROVE d.active /\ v < d.end
    <3>1. s.start <= v /\ s.start \in Nat
      BY <1>4 DEF Subscriptions
    <3>2. EntitlementFor(s).active /\ v < EntitlementFor(s).end
      BY <2>1, <3>1, PayingWindow, Zenon
    <3>3. EntitlementFor(s) \in entitling
      BY <3>2
    <3>4. d.active /\ EntitlementFor(s).end <= d.end
      BY <1>1, <3>3, Zenon
    <3>5. EntitlementFor(s).end \in Nat /\ d.end \in Nat
      BY <1>3, WindowOf, Zenon DEF Windows
    <3> QED BY <3>2, <3>4, <3>5
  <2>2. ASSUME d.active, v < d.end PROVE Paying(z, v)
    <3>1. z.start <= v
      BY <1>4 DEF Subscriptions
    <3> QED BY <1>2, <2>2, <3>1, PayingWindow
  <2> QED BY <2>1, <2>2
<1> QED BY <1>3, <1>4, Zenon
-----------------------------------------------------------------------------
(* The steps of a transaction.                                             *)

\* The fields of a transaction.
LEMMA TxFields ==
  ASSUME NEW step \in Steps, NEW e \in Events \cup {None}, NEW u \in Users \cup {None},
         NEW b \in BOOLEAN
  PROVE  /\ Tx(step, e, u, b) \in Txs
         /\ Tx(step, e, u, b).step = step /\ Tx(step, e, u, b).event = e
         /\ Tx(step, e, u, b).user = u /\ Tx(step, e, u, b).bound = b
  BY Zenon DEF Tx, Txs

\* A process without a transaction.
LEMMA IdleTx == Idle \in Txs /\ Idle.step = "idle" /\ Idle.event = None /\ Idle.bound = FALSE
  BY DEF Idle, Tx, Txs, Steps

Still == UNCHANGED <<now, checkout, outcome, customers, subs, grants, trialed, failures, operations>>

\* A transaction goes on, and the tables stay as they are.
LEMMA AdvanceTo ==
  ASSUME BillingInv, NEW p \in Procs, NEW t \in Txs, Becomes(p, t), Still, TxOK(t),
         \A q \in Procs \ {p} : Apart(t, tx[q]) /\ Apart(tx[q], t)
  PROVE  BillingInv'
<1>1. Types'
  BY Zenon DEF BillingInv, Types, Becomes, Still
<1> QED BY <1>1, Advance, Zenon DEF Still

\* A transaction is lost, and the tables stay as they are.
LEMMA GivesUp ==
  ASSUME BillingInv, NEW p \in Procs, Becomes(p, Idle), Still
  PROVE  BillingInv'
<1>1. Idle \in Txs /\ TxOK(Idle)
  BY IdleTx, Zenon DEF TxOK, TxFits, OpenSteps, AccountSteps
<1>2. \A q \in Procs : Apart(Idle, tx[q]) /\ Apart(tx[q], Idle)
  BY IdleTx, Zenon DEF Apart, OpenSteps
<1> QED BY <1>1, <1>2, AdvanceTo

\* The provider delivers an event.
LEMMA DeliverKeeps ==
  ASSUME BillingInv, NEW p \in Procs, NEW e \in Events, Deliver(p, e) PROVE BillingInv'
<1> DEFINE t == Tx("claim", e, None, FALSE)
<1>1. t \in Txs /\ t.step = "claim" /\ t.event = e /\ t.user = None /\ t.bound = FALSE
  BY Zenon DEF Tx, Txs, Steps
<1>2. Becomes(p, t) /\ Still /\ e.at <= now
  BY Zenon DEF Deliver, Happened, tables, Still
<1> HIDE DEF t
<1>3. TxOK(t)
  BY <1>1, <1>2, NotNone, Zenon DEF TxOK, TxFits, OpenSteps, AccountSteps
<1>4. \A q \in Procs : Apart(t, tx[q]) /\ Apart(tx[q], t)
  BY <1>1, Zenon DEF Apart, OpenSteps
<1> QED BY <1>1, <1>2, <1>3, <1>4, AdvanceTo, Zenon

\* A transaction claims its event, or finds it settled.
LEMMA ClaimKeeps ==
  ASSUME BillingInv, NEW p \in Procs, ClaimEvent(p) PROVE BillingInv'
<1> DEFINE e == tx[p].event
           t == Tx("claimed", e, tx[p].user, tx[p].bound)
<1>1. Still /\ tx[p].step = "claim" /\ tx[p] \in Txs
  BY Zenon DEF ClaimEvent, tables, Still, BillingInv, Types
<1>2. e \in Events /\ e.at <= now /\ tx[p].bound = FALSE
  BY <1>1, Zenon DEF BillingInv, TxInv, TxOK, TxFits, AccountSteps, Txs
<1>3. CASE outcome[e] = "none"
  <2>1. Becomes(p, t)
    BY <1>3, Zenon DEF ClaimEvent, MovesTo
  <2>2. t \in Txs /\ t.step = "claimed" /\ t.event = e /\ t.bound = FALSE
    BY <1>1, <1>2, TxFields DEF Steps, Txs
  <2> HIDE DEF t
  <2>3. TxOK(t)
    BY <1>2, <1>3, <2>2, NotNone DEF TxOK, TxFits, OpenSteps, AccountSteps
  <2>4. \A q \in Procs \ {p} : Apart(t, tx[q]) /\ Apart(tx[q], t)
    BY <2>2, Zenon DEF Apart, OpenSteps, ClaimEvent
  <2> QED BY <1>1, <2>1, <2>2, <2>3, <2>4, AdvanceTo, Zenon
<1>4. CASE outcome[e] # "none"
  BY <1>1, <1>4, GivesUp, Zenon DEF ClaimEvent
<1> QED BY <1>3, <1>4, Zenon

\* An open transaction goes on with its event: no other holds it.
LEMMA StaysApart ==
  ASSUME BillingInv, NEW p \in Procs, NEW t \in Txs, tx[p].step \in OpenSteps,
         t.event = tx[p].event, t.bound = FALSE \/ (t.bound = tx[p].bound /\ t.user = tx[p].user)
  PROVE  \A q \in Procs \ {p} : Apart(t, tx[q]) /\ Apart(tx[q], t)
  BY DEF BillingInv, TxInv, Apart

\* ... to resolve the account it is about.
LEMMA BindsNext ==
  ASSUME BillingInv, NEW p \in Procs, tx[p].step = "claimed", NEW u \in Users,
         tx[p].event.kind = "subscription"
           \/ (tx[p].event.kind = "checkout" /\ tx[p].event.checkout \in Checkouts),
         Becomes(p, Tx("bind", tx[p].event, u, FALSE)), Still
  PROVE  BillingInv'
<1> DEFINE t == Tx("bind", tx[p].event, u, FALSE)
<1>1. /\ tx[p].event \in Events /\ tx[p].event.at <= now /\ outcome[tx[p].event] = "none"
      /\ tx[p].step \in OpenSteps
  BY Zenon DEF BillingInv, TxInv, TxOK, TxFits, OpenSteps
<1>2. /\ t \in Txs /\ t.step = "bind" /\ t.event = tx[p].event /\ t.user = u /\ t.bound = FALSE
  BY <1>1, Zenon DEF Tx, Txs, Steps
<1>3. Becomes(p, t)
  BY Zenon
<1> HIDE DEF t
<1>4. TxOK(t)
  BY <1>1, <1>2, NotNone, Zenon DEF TxOK, TxFits, AccountSteps
<1> QED BY <1>1, <1>2, <1>3, <1>4, StaysApart, AdvanceTo, Zenon

\* ... with the customer bound already.
LEMMA LocksNext ==
  ASSUME BillingInv, NEW p \in Procs, tx[p].step \in OpenSteps, NEW u \in Users,
         tx[p].event.kind = "subscription", customers[tx[p].event.customer] = u,
         Becomes(p, Tx("lock", tx[p].event, u, FALSE)), Still
  PROVE  BillingInv'
<1> DEFINE t == Tx("lock", tx[p].event, u, FALSE)
<1>1. tx[p].event \in Events /\ tx[p].event.at <= now /\ outcome[tx[p].event] = "none"
  BY Zenon DEF BillingInv, TxInv, TxOK, TxFits, OpenSteps
<1>2. t \in Txs /\ t.step = "lock" /\ t.event = tx[p].event /\ t.user = u /\ t.bound = FALSE
  BY <1>1, Zenon DEF Tx, Txs, Steps
<1>3. Becomes(p, t)
  BY Zenon
<1> HIDE DEF t
<1>4. TxOK(t)
  BY <1>1, <1>2, NotNone, Zenon DEF TxOK, TxFits
<1> QED BY <1>2, <1>3, <1>4, StaysApart, AdvanceTo, Zenon

\* A transaction that knows its account goes on.
LEMMA MovesKeeps ==
  ASSUME BillingInv, NEW p \in Procs, tx[p].step \in AccountSteps,
         NEW step \in {"check", "put"}, MovesTo(p, step), Still
  PROVE  BillingInv'
<1> DEFINE t == Tx(step, tx[p].event, tx[p].user, tx[p].bound)
<1>1. tx[p] \in Txs /\ TxOK(tx[p]) /\ tx[p].step \in OpenSteps
  BY Zenon DEF BillingInv, Types, TxInv, AccountSteps, OpenSteps
<1>2. /\ t \in Txs /\ t.step = step /\ t.event = tx[p].event /\ t.user = tx[p].user
      /\ t.bound = tx[p].bound
  BY <1>1, TxFields DEF Steps, Txs
<1>3. Becomes(p, t)
  BY Zenon DEF MovesTo
<1> HIDE DEF t
<1>4. TxOK(t)
  BY <1>1, <1>2, Zenon DEF TxOK, TxFits, AccountSteps
<1> QED BY <1>1, <1>2, <1>3, <1>4, StaysApart, AdvanceTo, Zenon

\* What Commits does to the customers.
LEMMA CommitsBinding ==
  ASSUME BillingInv, NEW p \in Procs, tx[p].step \in OpenSteps, NEW result, Commits(p, result)
  PROVE  LET c == tx[p].event.customer
             u == tx[p].user
         IN  /\ c \in Customers /\ u \in Users \cup {None} /\ tx[p].event \in Events
             /\ customers' \in [Customers -> Users \cup {None}]
             /\ Binding(p, c, u)
             /\ tx[p].step \in AccountSteps => customers'[c] = u /\ u \in Users
<1> DEFINE c == tx[p].event.customer
           u == tx[p].user
<1>1. TxOK(tx[p]) /\ tx[p] \in Txs /\ tx[p].event \in Events
  BY Zenon DEF BillingInv, Types, TxInv, TxOK, TxFits, OpenSteps
<1>2. c \in Customers /\ u \in Users \cup {None} /\ (tx[p].step \in AccountSteps => u \in Users)
  BY <1>1, EventsFormed, Zenon DEF Txs, TxOK, TxFits, EventOK
<1>3. customers' = IF tx[p].bound THEN [customers EXCEPT ![c] = u] ELSE customers
  BY Zenon DEF Commits
<1>4. CASE tx[p].bound
  <2>1. customers[c] = None /\ \A d \in Customers : customers[d] # u
    BY <1>1, <1>4, Zenon DEF TxOK, TxFits
  <2>2. \A q \in Procs \ {p} : tx[q].bound => tx[q].event.customer # c /\ tx[q].user # u
    BY <1>4, Zenon DEF BillingInv, TxInv, Apart
  <2>3. customers' = [customers EXCEPT ![c] = u]
    BY <1>3, <1>4, Zenon
  <2>4. customers' \in [Customers -> Users \cup {None}] /\ customers'[c] = u
    BY <1>2, <2>3, Zenon DEF BillingInv, Types
  <2>5. Binding(p, c, u)
    BY <2>1, <2>2, <2>3 DEF Binding
  <2> QED BY <1>1, <1>2, <2>4, <2>5, Zenon
<1>5. CASE ~tx[p].bound
  <2>1. customers' = customers
    BY <1>3, <1>5, Zenon
  <2>2. tx[p].step \in AccountSteps => customers[c] = u
    BY <1>1, <1>5, Zenon DEF TxOK, TxFits
  <2> QED BY <1>1, <1>2, <2>1, <2>2, Zenon DEF BillingInv, Types, Binding
<1> QED BY <1>4, <1>5, Zenon

Quieter == UNCHANGED <<now, checkout, subs, grants, trialed, failures, operations>>

\* An event is set aside: ignored, or stale under the account's lock.
LEMMA SetsAside ==
  ASSUME BillingInv, NEW p \in Procs, tx[p].step \in OpenSteps,
         NEW result \in {"stale", "ignored"}, Commits(p, result), Quieter,
         result = "stale" => tx[p].step \in AccountSteps /\ IsStale(tx[p].event)
  PROVE  BillingInv'
<1>1. PICK c \in Customers, u \in Users \cup {None} : c = tx[p].event.customer /\ u = tx[p].user
  BY CommitsBinding, Zenon
<1>2. /\ Becomes(p, Idle) /\ outcome' = [outcome EXCEPT ![tx[p].event] = result]
      /\ now' = now
      /\ \A x \in Subs : subs'[x] = subs[x]
  BY Zenon DEF Commits, Quieter
<1>3. /\ tx[p].event \in Events
      /\ customers' \in [Customers -> Users \cup {None}]
      /\ Binding(p, c, u)
      /\ tx[p].step \in AccountSteps => customers'[c] = u /\ u \in Users
  BY <1>1, CommitsBinding, Zenon
<1>4. Types'
  BY <1>2, <1>3, IdleTx, Zenon DEF BillingInv, Types, Becomes, Quieter
<1>5. result = "stale" => /\ subs[tx[p].event.sub] # None /\ customers'[c] # None
                          /\ subs[tx[p].event.sub].at >= tx[p].event.at
  <2> SUFFICES ASSUME result = "stale"
               PROVE  /\ subs[tx[p].event.sub] # None /\ customers'[c] # None
                      /\ subs[tx[p].event.sub].at >= tx[p].event.at
    BY Zenon
  <2>1. subs[tx[p].event.sub] # None /\ tx[p].event.at < subs[tx[p].event.sub].at
    BY Zenon DEF IsStale
  <2>2. subs[tx[p].event.sub].at \in Nat /\ tx[p].event.at \in Nat
    BY <1>3, <2>1, EventsFormed, SubTimed, Zenon DEF EventOK
  <2> QED BY <1>3, <2>1, <2>2, NotNone
<1>6. Storing(c, u)
  BY <1>2, Zenon DEF Storing
<1>7. LeavesNewer(tx[p].event, c, result)
  BY <1>2, <1>3, <1>5, EventsFormed, Zenon DEF LeavesNewer, EventOK
<1> QED BY <1>1, <1>2, <1>3, <1>4, <1>6, <1>7, Settle, Zenon

\* An event of a type billing does not use is settled as ignored.
LEMMA IgnoreKeeps == ASSUME BillingInv, NEW p \in Procs, Ignore(p) PROVE BillingInv'
  BY SetsAside, Zenon DEF Ignore, Quieter, OpenSteps

\* A checkout's event finds its account.
LEMMA ResolveCheckoutKeeps ==
  ASSUME BillingInv, NEW p \in Procs, ResolveCheckout(p) PROVE BillingInv'
<1> DEFINE e == tx[p].event
           ours == e.checkout # None /\ (e.ref # None => e.ref = CheckoutUser[e.checkout])
<1>1. tx[p].step = "claimed" /\ e.kind = "checkout" /\ e \in Events
  BY Zenon DEF ResolveCheckout, BillingInv, TxInv, TxOK, TxFits
<1>2. CASE ours
  <2>1. e.checkout \in Checkouts /\ CheckoutUser[e.checkout] \in Users
    BY <1>1, <1>2, EventsFormed, CheckoutsNamed, Zenon DEF EventOK
  <2>2. Becomes(p, Tx("bind", e, CheckoutUser[e.checkout], FALSE)) /\ Still
    BY <1>2, Zenon DEF ResolveCheckout, Still
  <2> QED BY <1>1, <2>1, <2>2, BindsNext, Zenon
<1>3. CASE ~ours
  <2>1. Commits(p, "ignored") /\ Quieter
    BY <1>3, Zenon DEF ResolveCheckout, Quieter
  <2> QED BY <1>1, <2>1, SetsAside, Zenon DEF OpenSteps
<1> QED BY <1>2, <1>3, Zenon

\* A subscription's event finds its account by the customer.
LEMMA ResolveSubscriptionKeeps ==
  ASSUME BillingInv, NEW p \in Procs, ResolveSubscription(p) PROVE BillingInv'
<1> DEFINE e == tx[p].event
<1>1. tx[p].step = "claimed" /\ e.kind = "subscription" /\ e \in Events /\ Still
  BY Zenon DEF ResolveSubscription, BillingInv, TxInv, TxOK, TxFits, tables, Still
<1>2. CASE customers[e.customer] # None /\ Becomes(p, Tx("lock", e, customers[e.customer], FALSE))
  <2>1. customers[e.customer] \in Users
    BY <1>1, <1>2, EventsFormed, Zenon DEF BillingInv, Types, EventOK
  <2> QED BY <1>1, <1>2, <2>1, LocksNext, Zenon DEF OpenSteps
<1>3. CASE e.ref # None /\ Becomes(p, Tx("bind", e, e.ref, FALSE))
  <2>1. e.ref \in Users
    BY <1>1, <1>3, EventsFormed, Zenon DEF EventOK
  <2> QED BY <1>1, <1>3, <2>1, BindsNext, Zenon
<1>4. CASE Becomes(p, Idle)
  BY <1>1, <1>4, GivesUp, Zenon
<1> QED BY <1>2, <1>3, <1>4, Zenon DEF ResolveSubscription

\* A transaction gets its account's lock.
LEMMA LockKeeps == ASSUME BillingInv, NEW p \in Procs, LockAccount(p) PROVE BillingInv'
  BY MovesKeeps, Zenon DEF LockAccount, AccountSteps, tables, Still

\* A transaction compares its event with the stored subscription.
LEMMA CheckKeeps == ASSUME BillingInv, NEW p \in Procs, Check(p) PROVE BillingInv'
<1> DEFINE e == tx[p].event
<1>1. tx[p].step = "check" /\ tx[p].step \in OpenSteps /\ tx[p].step \in AccountSteps
  BY Zenon DEF Check, OpenSteps, AccountSteps
<1>2. Quieter
  BY Zenon DEF Check, Quieter
<1>3. CASE Commits(p, "ignored")
  BY <1>1, <1>2, <1>3, SetsAside, Zenon
<1>4. CASE IsStale(e) /\ Commits(p, "stale")
  BY <1>1, <1>2, <1>4, SetsAside, Zenon
<1>5. CASE Becomes(p, Idle) /\ UNCHANGED <<outcome, customers>>
  BY <1>2, <1>5, GivesUp DEF Still, Quieter
<1>6. CASE MovesTo(p, "put") /\ UNCHANGED <<outcome, customers>>
  BY <1>1, <1>2, <1>6, MovesKeeps, Zenon DEF Still, Quieter
<1> QED BY <1>3, <1>4, <1>5, <1>6, Zenon DEF Check

\* A transaction inserts the customer of its account, or finds it taken.
LEMMA BindKeeps == ASSUME BillingInv, NEW p \in Procs, BindCustomer(p) PROVE BillingInv'
<1> DEFINE e == tx[p].event
           u == tx[p].user
           clear == customers[e.customer] = None /\ \A c \in Customers : customers[c] # u
           same == customers[e.customer] = u
<1>1. /\ tx[p].step = "bind" /\ tx[p].step \in OpenSteps
      /\ UNCHANGED <<now, subs, grants, trialed, failures, operations>>
      /\ \A q \in Procs \ {p} : tx[q].bound => tx[q].event.customer # e.customer /\ tx[q].user # u
  BY Zenon DEF BindCustomer, OpenSteps
<1>2. /\ e \in Events /\ e.at <= now /\ u \in Users /\ outcome[e] = "none" /\ e.customer \in Customers
      /\ e.kind = "checkout" => e.checkout \in Checkouts
  BY <1>1, EventsFormed, Zenon DEF BillingInv, TxInv, TxOK, TxFits, EventOK
<1>3. CASE /\ clear /\ e.kind = "subscription"
           /\ Becomes(p, Tx("lock", e, u, clear)) /\ UNCHANGED <<checkout, outcome, customers>>
  <2> DEFINE t == Tx("lock", e, u, TRUE)
  <2>1. Becomes(p, t) /\ Still
    BY <1>1, <1>3, Zenon DEF Still
  <2>2. t \in Txs /\ t.step = "lock" /\ t.event = e /\ t.user = u /\ t.bound = TRUE
    BY <1>2, Zenon DEF Tx, Txs, Steps
  <2> HIDE DEF t
  <2>3. TxOK(t)
    BY <1>2, <1>3, <2>2, NotNone, Zenon DEF TxOK, TxFits, AccountSteps
  <2>4. \A q \in Procs \ {p} : Apart(t, tx[q]) /\ Apart(tx[q], t)
    BY <1>1, <2>2 DEF Apart, BillingInv, TxInv
  <2> QED BY <2>1, <2>2, <2>3, <2>4, AdvanceTo, Zenon
<1>4. CASE /\ ~clear /\ same /\ e.kind = "subscription"
           /\ Becomes(p, Tx("lock", e, u, clear)) /\ UNCHANGED <<checkout, outcome, customers>>
  <2>1. Becomes(p, Tx("lock", e, u, FALSE)) /\ Still
    BY <1>1, <1>4, Zenon DEF Still
  <2> QED BY <1>1, <1>2, <1>4, <2>1, LocksNext, Zenon
<1>5. CASE /\ clear \/ same
           /\ e.kind = "checkout"
           /\ checkout' = [checkout EXCEPT ![e.checkout] = "completed"]
           /\ outcome' = [outcome EXCEPT ![e] = "applied"]
           /\ customers' = [customers EXCEPT ![e.customer] = u]
           /\ Becomes(p, Idle)
  <2>1. Binding(p, e.customer, u)
    <3>1. CASE clear
      BY <1>1, <1>5, <3>1, Zenon DEF Binding
    <3>2. CASE same
      BY <1>2, <1>5, <3>2 DEF Binding, BillingInv, Types
    <3> QED BY <1>5, <3>1, <3>2, Zenon
  <2>2. Storing(e.customer, u)
    BY <1>1, Zenon DEF Storing
  <2>3. LeavesNewer(e, e.customer, "applied")
    BY <1>5, Zenon DEF LeavesNewer
  <2>4. Types'
    BY <1>1, <1>2, <1>5, IdleTx, Zenon DEF BillingInv, Types, Becomes
  <2> QED BY <1>1, <1>2, <1>5, <2>1, <2>2, <2>3, <2>4, Settle, Zenon
<1>6. CASE Commits(p, "ignored") /\ UNCHANGED checkout
  BY <1>1, <1>6, SetsAside, Zenon DEF Quieter
<1> QED BY <1>3, <1>4, <1>5, <1>6, Zenon DEF BindCustomer

\* putSubscription under the account's lock.
LEMMA PutStores ==
  ASSUME BillingInv, NEW u \in Users, NEW e \in Events, e.at <= now,
         subs' = PutSubscription(e, u), customers'[e.customer] = u
  PROVE  /\ subs' \in [Subs -> Subscriptions \cup {None}]
         /\ Storing(e.customer, u)
         /\ LeavesNewer(e, e.customer, "applied")
         /\ \A v \in Users \ {u} : SubscriptionsOf(subs', v) = SubscriptionsOf(subs, v)
         /\ SubscriptionsOf(subs', u) \in SUBSET Subscriptions
         /\ \A s \in SubscriptionsOf(subs', u) : s.start < s.end /\ s.start <= now
<1> DEFINE new == Stored(e, u)
<1>1. /\ new \in Subscriptions /\ new # None /\ new.user = u /\ new.customer = e.customer
      /\ new.start = e.start /\ new.end = e.end /\ new.at = e.at
  BY EventsFormed, NotNone DEF Stored, Subscriptions, EventOK
<1>2. e.at <= now /\ e.start \in Nat /\ e.at \in Nat /\ now \in Nat /\ e.end \in Nat /\ e.sub \in Subs
  BY EventsFormed, NowTyped, Zenon DEF EventOK
<1>3. e.start <= now /\ e.start < e.end
  BY <1>2, EventsFormed DEF EventOK
<1> HIDE DEF new
<1>4. subs' = [subs EXCEPT ![e.sub] = IF subs[e.sub] = None
                                          \/ (subs[e.sub].user = u /\ subs[e.sub].at <= e.at)
                                       THEN new ELSE subs[e.sub]]
  BY Zenon DEF PutSubscription, new
<1>5. subs' \in [Subs -> Subscriptions \cup {None}]
  BY <1>1, <1>4, Zenon DEF BillingInv, Types
<1>6. \A x \in Subs : \/ subs'[x] = subs[x]
                      \/ x = e.sub /\ subs'[x] = new
                         /\ (subs[x] = None \/ (subs[x].user = u /\ subs[x].at <= e.at))
  BY <1>4, Zenon DEF BillingInv, Types
<1>7. Storing(e.customer, u)
  <2> SUFFICES ASSUME NEW x \in Subs, subs'[x] # subs[x]
               PROVE  /\ subs'[x] # None
                      /\ subs'[x].user = u /\ subs'[x].customer = e.customer
                      /\ subs'[x].start <= now /\ subs'[x].start < subs'[x].end
                      /\ subs[x] # None => subs[x].user = u /\ subs'[x].at >= subs[x].at
    BY Zenon DEF Storing
  <2>1. subs[x] # None => subs[x].at \in Nat
    BY SubTimed, Zenon
  <2> QED BY <1>1, <1>3, <1>6, Zenon
<1>8. LeavesNewer(e, e.customer, "applied")
  <2>1. subs'[e.sub] # None
    BY <1>1, <1>2, <1>4, SubsTyped, Zenon
  <2>2. subs'[e.sub].user = u => subs'[e.sub].at >= e.at
    <3>1. CASE subs[e.sub] = None \/ (subs[e.sub].user = u /\ subs[e.sub].at <= e.at)
      <4>1. subs'[e.sub] = new
        BY <1>2, <1>4, <3>1, SubsTyped, Zenon
      <4> QED BY <1>1, <1>2, <4>1
    <3>2. CASE subs[e.sub] # None /\ ~(subs[e.sub].user = u /\ subs[e.sub].at <= e.at)
      <4>1. subs'[e.sub] = subs[e.sub] /\ subs[e.sub].at \in Nat
        BY <1>2, <1>6, <3>2, SubTimed, Zenon
      <4> QED BY <1>2, <3>2, <4>1
    <3> QED BY <3>1, <3>2, Zenon
  <2> QED BY <2>1, <2>2, NotNone, Zenon DEF LeavesNewer
<1>9. \A v \in Users \ {u} : SubscriptionsOf(subs', v) = SubscriptionsOf(subs, v)
  <2> TAKE v \in Users \ {u}
  <2>1. \A x \in Subs : (subs'[x] # None /\ subs'[x].user = v) <=> (subs[x] # None /\ subs[x].user = v)
    BY <1>1, <1>6, Zenon
  <2>2. \A x \in Subs : subs[x] # None /\ subs[x].user = v => subs'[x] = subs[x]
    BY <1>6, Zenon
  <2> QED BY <2>1, <2>2 DEF SubscriptionsOf
<1>10. ASSUME NEW s \in SubscriptionsOf(subs', u)
       PROVE  s \in Subscriptions /\ s.start < s.end /\ s.start <= now
  <2>1. PICK x \in Subs : s = subs'[x] /\ subs'[x] # None
    BY Zenon DEF SubscriptionsOf
  <2>2. CASE subs'[x] = subs[x]
    BY <2>1, <2>2, Zenon DEF BillingInv, Types, SubsInv
  <2>3. CASE subs'[x] = new
    BY <1>1, <1>3, <2>1, <2>3, Zenon
  <2> QED BY <1>6, <2>2, <2>3, Zenon
<1> QED BY <1>5, <1>7, <1>8, <1>9, <1>10, Zenon

-----------------------------------------------------------------------------
(* The whole invariant: billing's, and that access follows it.              *)

FullInv == BillingInv /\ RowsInv /\ PaidInv

\* The rows of an account have a window.
LEMMA AccountsShaped == ASSUME FullInv, NEW u \in Users PROVE Shaped(grants[u])
  BY Zenon DEF FullInv, BillingInv, Types, RowsInv, Shaped, AccountRows

\* Access follows payment later too when neither is changed.
LEMMA SameAccess ==
  ASSUME RowsInv, PaidInv, UNCHANGED <<subs, grants>>, now \in Nat, now' \in Nat, now' >= now
  PROVE  RowsInv' /\ PaidInv'
<1>1. RowsInv'
  BY Zenon DEF RowsInv
<1>2. \A u \in Users, t \in Nat : Pays(u, t)' = Pays(u, t)
  BY Zenon DEF Pays
<1>3. PaidInv'
  BY <1>2 DEF PaidInv
<1> QED BY <1>1, <1>3, Zenon

\* One account's rows change: in shape, and covering what is paid from now on.
LEMMA AccountChanges ==
  ASSUME FullInv, NEW u \in Users, NEW rows, Shaped(rows),
         grants' = [grants EXCEPT ![u] = rows], now' = now,
         \A v \in Users \ {u} : SubscriptionsOf(subs', v) = SubscriptionsOf(subs, v),
         \A t \in Nat : t >= now =>
           ((\E s \in SubscriptionsOf(subs', u) : Paying(s, t)) <=> Covers(rows["billing"], t))
  PROVE  /\ grants' \in [Users -> [Sources -> EntitlementRows \cup {None}]]
         /\ RowsInv' /\ PaidInv'
<1>1. grants \in [Users -> [Sources -> EntitlementRows \cup {None}]]
  BY Zenon DEF FullInv, BillingInv, Types
<1>2. grants'[u] = rows /\ \A v \in Users \ {u} : grants'[v] = grants[v]
  BY <1>1, Zenon
<1>3. grants' \in [Users -> [Sources -> EntitlementRows \cup {None}]]
  BY <1>1, Zenon DEF Shaped, AccountRows
<1>4. RowsInv'
  BY DEF FullInv, RowsInv, Shaped
<1>5. ASSUME NEW v \in Users, NEW t \in Nat, t >= now
      PROVE  Pays(v, t)' <=> Covers(grants'[v]["billing"], t)
  <2>1. CASE v = u
    BY <1>2, <1>5, <2>1 DEF Pays
  <2>2. CASE v # u
    <3>1. Pays(v, t)' <=> Pays(v, t)
      BY <2>2, Zenon DEF Pays
    <3>2. Pays(v, t) <=> Covers(grants[v]["billing"], t)
      BY <1>5, Zenon DEF FullInv, PaidInv
    <3> QED BY <2>2, <3>1, <3>2
  <2> QED BY <2>1, <2>2, Zenon
<1>6. PaidInv'
  BY <1>5, Zenon DEF PaidInv
<1> QED BY <1>3, <1>4, <1>6, Zenon

\* putSubscription and the change of the row it plans: access follows payment,
\* no suspension is lifted, and the operator's row is left alone.
LEMMA PutKeeps ==
  ASSUME FullInv, NEW p \in Procs, Put(p)
  PROVE  /\ FullInv'
         /\ \A u \in Users : /\ Suspended(grants[u]) => Suspended(grants'[u])
                             /\ grants'[u]["operator"] = grants[u]["operator"]
<1> DEFINE e == tx[p].event
           u == tx[p].user
           mine == SubscriptionsOf(subs', u)
<1>1. /\ tx[p].step = "put" /\ tx[p].step \in OpenSteps /\ BillingInv
      /\ subs' = PutSubscription(e, u)
      /\ Commits(p, "applied")
      /\ UNCHANGED <<now, checkout, failures, operations>>
  BY Zenon DEF Put, OpenSteps, FullInv
<1>2. /\ e \in Events /\ e.at <= now /\ u \in Users /\ e.customer \in Customers
      /\ e.kind = "subscription"
      /\ tx[p].bound \/ customers[e.customer] = u
      /\ now \in Nat
  <2>1. TxOK(tx[p]) /\ now \in Nat
    BY <1>1, TxIsOK, NowTyped, Zenon
  <2>2. /\ e \in Events /\ e.at <= now /\ u \in Users /\ e.kind = "subscription"
        /\ tx[p].bound \/ customers[e.customer] = u
    BY <1>1, <2>1, Zenon DEF TxOK, TxFits, AccountSteps
  <2>3. e.customer \in Customers
    BY <2>2, EventsFormed, Zenon DEF EventOK
  <2> QED BY <2>1, <2>2, <2>3, Zenon
<1>3. /\ outcome' = [outcome EXCEPT ![e] = "applied"]
      /\ Becomes(p, Idle)
      /\ customers' = IF tx[p].bound THEN [customers EXCEPT ![e.customer] = u] ELSE customers
  BY <1>1, Zenon DEF Commits
<1>4. customers'[e.customer] = u /\ Binding(p, e.customer, u)
      /\ customers' \in [Customers -> Users \cup {None}]
  <2>1. CASE tx[p].bound
    <3>1. /\ customers[e.customer] = None /\ \A d \in Customers : customers[d] # u
      BY <1>1, <2>1, Zenon DEF BillingInv, TxInv, TxOK, TxFits
    <3>2. \A q \in Procs \ {p} : tx[q].bound => tx[q].event.customer # e.customer /\ tx[q].user # u
      BY <1>1, <2>1, Zenon DEF BillingInv, TxInv, Apart
    <3> QED BY <1>1, <1>2, <1>3, <3>1, <3>2, Zenon DEF Binding, BillingInv, Types
  <2>2. CASE ~tx[p].bound
    BY <1>1, <1>2, <1>3, <2>2, Zenon DEF Binding, BillingInv, Types
  <2> QED BY <2>1, <2>2, Zenon
<1>5. /\ subs' \in [Subs -> Subscriptions \cup {None}]
      /\ Storing(e.customer, u)
      /\ LeavesNewer(e, e.customer, "applied")
      /\ \A v \in Users \ {u} : SubscriptionsOf(subs', v) = SubscriptionsOf(subs, v)
      /\ mine \in SUBSET Subscriptions
      /\ \A s \in mine : s.start < s.end /\ s.start <= now
  BY <1>1, <1>2, <1>4, PutStores, Zenon
<1>6. ASSUME NEW d \in Desired(mine), grants' = [grants EXCEPT ![u] = PlanSync(@, d, now)]
      PROVE  /\ grants' \in [Users -> [Sources -> EntitlementRows \cup {None}]]
             /\ RowsInv' /\ PaidInv'
             /\ Suspended(grants[u]) => Suspended(grants'[u])
             /\ grants'[u]["operator"] = grants[u]["operator"]
             /\ \A v \in Users \ {u} : grants'[v] = grants[v]
  <2> DEFINE rows == PlanSync(grants[u], d, now)
             S == mine
  <2>1. /\ d \in Windows
        /\ d.active => d.start < d.end /\ d.start <= now
        /\ \A v \in Nat : v >= now => ((\E s \in S : Paying(s, v)) <=> d.active /\ v < d.end)
    <3> HIDE DEF mine
    <3> QED BY <1>2, <1>5, DesiredPays, Zenon
  <2>2. Shaped(grants[u])
    BY <1>2, AccountsShaped, Zenon
  <2>3. /\ Shaped(rows) /\ rows["operator"] = grants[u]["operator"]
        /\ Suspended(grants[u]) => Suspended(rows)
        /\ \A v \in Nat : v >= now => (Covers(rows["billing"], v) <=> d.active /\ v < d.end)
    <3> HIDE DEF mine
    <3> QED BY <1>2, <2>1, <2>2, SyncCovers
  <2>4. grants' = [grants EXCEPT ![u] = rows]
    BY <1>6, Zenon
  <2> HIDE DEF rows
  <2>5. \A t \in Nat : t >= now => ((\E s \in SubscriptionsOf(subs', u) : Paying(s, t))
                                     <=> Covers(rows["billing"], t))
    BY <2>1, <2>3, Zenon
  <2>6. grants' \in [Users -> [Sources -> EntitlementRows \cup {None}]] /\ RowsInv' /\ PaidInv'
    BY <1>1, <1>2, <1>5, <2>3, <2>4, <2>5, AccountChanges, Zenon
  <2>7. grants'[u] = rows /\ \A v \in Users \ {u} : grants'[v] = grants[v]
    BY <1>1, <1>2, <2>4, Zenon DEF BillingInv, Types
  <2> QED BY <2>3, <2>6, <2>7, Zenon
<1>7. ASSUME mine = {}, UNCHANGED <<grants, trialed>>
      PROVE  /\ grants' \in [Users -> [Sources -> EntitlementRows \cup {None}]]
             /\ RowsInv' /\ PaidInv'
  <2>1. subs' = subs
    <3>1. \A y \in Subs : subs'[y] = subs[y]
      <4> TAKE y \in Subs
      <4> SUFFICES ASSUME subs'[y] # subs[y] PROVE FALSE
        BY Zenon
      <4>1. subs'[y] # None /\ subs'[y].user = u
        BY <1>5, Zenon DEF Storing
      <4> QED BY <1>7, <4>1 DEF SubscriptionsOf
    <3> QED BY <1>1, <1>5, <3>1, SubsTyped
  <2>2. RowsInv /\ PaidInv /\ now \in Nat /\ now' = now
    BY <1>1, <1>2, Zenon DEF FullInv
  <2>4. RowsInv' /\ PaidInv'
    BY <1>7, <2>1, <2>2, SameAccess
  <2>3. grants' \in [Users -> [Sources -> EntitlementRows \cup {None}]]
    BY <1>1, <1>7, Zenon DEF BillingInv, Types
  <2> QED BY <2>3, <2>4, Zenon
<1>8. /\ grants' \in [Users -> [Sources -> EntitlementRows \cup {None}]]
      /\ RowsInv' /\ PaidInv'
      /\ \A v \in Users : /\ Suspended(grants[v]) => Suspended(grants'[v])
                          /\ grants'[v]["operator"] = grants[v]["operator"]
      /\ trialed' \subseteq Users
  <2>1. trialed \subseteq Users
    BY <1>1, Zenon DEF BillingInv, Types
  <2>2. CASE \E d \in Desired(mine) :
               /\ grants' = [grants EXCEPT ![u] = PlanSync(@, d, now)]
               /\ trialed' = IF grants'[u] # grants[u] /\ d.kind = "TRIAL"
                             THEN trialed \cup {u} ELSE trialed
    <3>1. PICK d \in Desired(mine) :
               /\ grants' = [grants EXCEPT ![u] = PlanSync(@, d, now)]
               /\ trialed' = IF grants'[u] # grants[u] /\ d.kind = "TRIAL"
                             THEN trialed \cup {u} ELSE trialed
      BY <2>2, Zenon
    <3>2. trialed' \subseteq Users
      BY <1>2, <2>1, <3>1, Zenon
    <3> HIDE DEF mine
    <3>3. /\ grants' \in [Users -> [Sources -> EntitlementRows \cup {None}]]
          /\ RowsInv' /\ PaidInv'
          /\ Suspended(grants[u]) => Suspended(grants'[u])
          /\ grants'[u]["operator"] = grants[u]["operator"]
          /\ \A v \in Users \ {u} : grants'[v] = grants[v]
      BY <1>6, <3>1, Zenon
    <3> QED BY <3>2, <3>3, Zenon
  <2>3. CASE mine = {} /\ UNCHANGED <<grants, trialed>>
    BY <1>7, <2>1, <2>3, Zenon
  <2> QED BY <2>2, <2>3, Zenon DEF Put
<1>9. Types'
  BY <1>1, <1>2, <1>3, <1>5, <1>8, IdleTx, Zenon DEF BillingInv, Types, Becomes
<1>10. BillingInv'
  BY <1>1, <1>2, <1>3, <1>4, <1>5, <1>9, Settle, Zenon
<1> QED BY <1>8, <1>10, Zenon DEF FullInv

\* A transaction that fails leaves nothing behind.
LEMMA FailKeeps == ASSUME BillingInv, NEW p \in Procs, Fail(p) PROVE BillingInv'
<1>1. Idle \in Txs /\ TxOK(Idle)
  BY IdleTx, Zenon DEF TxOK, TxFits, OpenSteps, AccountSteps
<1>2. \A q \in Procs : Apart(Idle, tx[q]) /\ Apart(tx[q], Idle)
  BY IdleTx, Zenon DEF Apart, OpenSteps
<1>3. Becomes(p, Idle) /\ UNCHANGED <<now, tables>>
  BY Zenon DEF Fail, RollsBack
<1>4. Types'
  BY <1>1, <1>3, Policy DEF BillingInv, Types, Becomes, Fail, tables
<1> QED BY <1>1, <1>2, <1>3, <1>4, Advance, Zenon DEF tables

\* A step of a transaction other than the last leaves access alone.
LEMMA TxKeepsAccess ==
  ASSUME NEW p \in Procs,
         \/ \E e \in Events : Deliver(p, e)
         \/ ClaimEvent(p) \/ Ignore(p) \/ ResolveCheckout(p) \/ ResolveSubscription(p)
         \/ BindCustomer(p) \/ LockAccount(p) \/ Check(p) \/ Fail(p)
  PROVE  UNCHANGED <<now, subs, grants, trialed, operations>>
<1>1. ASSUME NEW e \in Events, Deliver(p, e) PROVE UNCHANGED <<now, subs, grants, trialed, operations>>
  BY <1>1, Zenon DEF Deliver, tables
<1>2. CASE ClaimEvent(p)
  BY <1>2, Zenon DEF ClaimEvent, tables
<1>3. CASE Ignore(p)
  BY <1>3, Zenon DEF Ignore
<1>4. CASE ResolveCheckout(p)
  BY <1>4, Zenon DEF ResolveCheckout
<1>5. CASE ResolveSubscription(p)
  BY <1>5, Zenon DEF ResolveSubscription, tables
<1>6. CASE BindCustomer(p)
  BY <1>6, Zenon DEF BindCustomer
<1>7. CASE LockAccount(p)
  BY <1>7, Zenon DEF LockAccount, tables
<1>8. CASE Check(p)
  BY <1>8, Zenon DEF Check
<1>9. CASE Fail(p)
  BY <1>9, Zenon DEF Fail, RollsBack, tables
<1> QED BY <1>1, <1>2, <1>3, <1>4, <1>5, <1>6, <1>7, <1>8, <1>9, Zenon

\* Checkouts are started and recorded without effect on access.
LEMMA CheckoutKeeps ==
  ASSUME FullInv, NEW k \in Checkouts, StartCheckout(k) \/ RecordCheckout(k)
  PROVE  FullInv' /\ UNCHANGED <<outcome, subs, grants>>
<1>1. /\ UNCHANGED <<now, outcome, customers, subs, grants, trialed, tx, failures, operations>>
      /\ \/ checkout' = [checkout EXCEPT ![k] = "checked"]
         \/ checkout' = [checkout EXCEPT ![k] = "open"]
  BY Zenon DEF StartCheckout, RecordCheckout
<1>2. BillingInv /\ Types /\ now \in Nat
  BY NowTyped, Zenon DEF FullInv, BillingInv
<1>3. checkout' \in [Checkouts -> {"no", "checked", "open", "completed"}]
  BY <1>1, <1>2, Zenon DEF Types
<1>4. Types'
  BY <1>1, <1>2, Zenon DEF Types
<1>5. BillingInv'
  BY <1>1, <1>2, <1>4, Quiet
<1>6. RowsInv' /\ PaidInv'
  BY <1>1, <1>2, SameAccess DEF FullInv
<1> QED BY <1>1, <1>5, <1>6, Zenon DEF FullInv

\* Time passes.
LEMMA TickKeeps == ASSUME FullInv, Tick PROVE FullInv' /\ UNCHANGED <<outcome, subs, grants>>
<1>1. /\ UNCHANGED <<checkout, outcome, customers, subs, grants, trialed, tx, failures, operations>>
      /\ now < MaxNow /\ now' = now + 1
  BY Zenon DEF Tick, tables
<1>2. BillingInv /\ Types /\ now \in Nat /\ now' \in Nat /\ now' >= now
  BY <1>1, NowTyped DEF FullInv, BillingInv
<1>3. now' \in 0..MaxNow
  BY <1>1, <1>2, Policy
<1>4. Types'
  BY <1>1, <1>2, <1>3, Zenon DEF Types
<1>5. BillingInv'
  BY <1>1, <1>2, <1>4, Quiet, Zenon
<1>6. RowsInv' /\ PaidInv'
  BY <1>1, <1>2, SameAccess, Zenon DEF FullInv
<1> QED BY <1>1, <1>5, <1>6, Zenon DEF FullInv

\* An operator's change that keeps the window of billing's row.
LEMMA OperatorKeeps ==
  ASSUME FullInv, NEW u \in Users, NEW rows, Shaped(rows), Operator(u, rows),
         \A t \in Nat : Covers(rows["billing"], t) <=> Covers(grants[u]["billing"], t),
         trialed' \subseteq Users
  PROVE  /\ FullInv'
         /\ grants'[u] = rows /\ \A v \in Users \ {u} : grants'[v] = grants[v]
<1>1. /\ UNCHANGED <<now, checkout, outcome, customers, subs, tx, failures>>
      /\ grants' = [grants EXCEPT ![u] = rows]
      /\ operations < MaxOperations /\ operations' = operations + 1
  BY Zenon DEF Operator
<1>2. BillingInv /\ Types /\ PaidInv /\ now \in Nat
  BY NowTyped, Zenon DEF FullInv, BillingInv
<1>3. \A t \in Nat : t >= now => ((\E s \in SubscriptionsOf(subs', u) : Paying(s, t))
                                   <=> Covers(rows["billing"], t))
  BY <1>1, <1>2, Zenon DEF PaidInv, Pays
<1>4. /\ grants' \in [Users -> [Sources -> EntitlementRows \cup {None}]]
      /\ RowsInv' /\ PaidInv'
  BY <1>1, <1>3, AccountChanges, Zenon
<1>5. operations' \in 0..MaxOperations
  BY <1>1, <1>2, Policy DEF Types
<1>6. Types'
  BY <1>1, <1>2, <1>4, <1>5, Zenon DEF Types
<1>7. BillingInv'
  BY <1>1, <1>2, <1>6, Quiet
<1>8. grants'[u] = rows /\ \A v \in Users \ {u} : grants'[v] = grants[v]
  BY <1>1, <1>2, Zenon DEF Types
<1> QED BY <1>4, <1>7, <1>8, Zenon DEF FullInv

\* What an operator's change leaves of suspensions and trials.
OperatorRules(u) ==
  /\ \A v \in Users \ {u} : grants'[v] = grants[v]
  /\ Suspended(grants[u]) /\ ~Suspended(grants'[u]) => Restore(u) \/ Revoke(u)
  /\ u \in trialed => \/ TrialWindow(u)' \subseteq TrialWindow(u)
                      \/ LiveTrial(u) /\ Grant(u)

\* The operator starts a trial.
LEMMA TrialKeeps == ASSUME FullInv, NEW u \in Users, Trial(u) PROVE FullInv' /\ OperatorRules(u)
<1> DEFINE rows == PlanTrial(grants[u], now, TrialDays, u \in trialed)
<1>1. Operator(u, rows) /\ trialed' = trialed \cup {u} /\ rows # grants[u]
  BY Zenon DEF Trial, Operator
<1>2. now \in Nat /\ trialed' \subseteq Users
  BY <1>1, NowTyped, TrialedTyped, Zenon DEF FullInv
<1>3. Shaped(grants[u])
  BY AccountsShaped, Zenon
<1>4. Shaped(rows) /\ rows["billing"] = grants[u]["billing"]
  BY <1>2, <1>3, TrialShaped, OperatorsRow
<1>5. ~Suspended(grants[u]) /\ u \notin trialed
  BY <1>1, Zenon DEF PlanTrial
<1> HIDE DEF rows
<1>6. FullInv' /\ \A v \in Users \ {u} : grants'[v] = grants[v]
  BY <1>1, <1>2, <1>4, OperatorKeeps, Zenon
<1> QED BY <1>5, <1>6, Zenon DEF OperatorRules

\* The operator grants access.
LEMMA GrantKeeps == ASSUME FullInv, NEW u \in Users, Grant(u) PROVE FullInv' /\ OperatorRules(u)
<1>1. PICK kind \in {"TRIAL", "STANDARD", "BETA", None}, from \in Nat \cup {None}, until \in Nat \cup {Never} :
        /\ Operator(u, PlanGrant(grants[u], now, kind, from, until))
        /\ trialed' = IF grants'[u]["operator"].kind = "TRIAL" THEN trialed \cup {u} ELSE trialed
  BY OperatorAssumption, Zenon DEF Grant
<1> DEFINE rows == PlanGrant(grants[u], now, kind, from, until)
           row == grants[u]["operator"]
<1>2. now \in Nat /\ trialed' \subseteq Users
  BY <1>1, NowTyped, TrialedTyped, Zenon DEF FullInv
<1>3. Shaped(grants[u])
  BY AccountsShaped, Zenon
<1>4. Shaped(rows)
  BY <1>2, <1>3, GrantShaped, Zenon
<1>5. rows["billing"] = grants[u]["billing"]
  BY <1>3, OperatorsRow
<1>6. rows # grants[u]
  BY <1>1, Zenon DEF Operator
<1>7. ~Suspended(grants[u]) /\ KindAllowed(row, kind)
  BY <1>6, Zenon DEF PlanGrant
<1>8. rows["operator"].kind = "TRIAL" => LiveTrial(u)
  <2> SUFFICES ASSUME ~LiveTrial(u) PROVE rows["operator"].kind # "TRIAL"
    BY Zenon
  <2> DEFINE named == IF kind # None THEN kind
                      ELSE IF row # None /\ row.status # "REVOKED" THEN row.kind ELSE "STANDARD"
  <2>1. named # "TRIAL"
    BY <1>7, Zenon DEF KindAllowed, LiveTrial
  <2>2. \E start : rows = [grants[u] EXCEPT !["operator"] = Row("ACTIVE", start, until, named)]
    BY <1>6, Zenon DEF PlanGrant
  <2> HIDE DEF named
  <2>3. rows["operator"].kind = named
    <3>1. PICK start : rows = [grants[u] EXCEPT !["operator"] = Row("ACTIVE", start, until, named)]
      BY <2>2, Zenon
    <3>2. rows["operator"] = Row("ACTIVE", start, until, named)
      BY <1>3, <3>1, Zenon DEF Shaped, AccountRows, Sources
    <3> QED BY <3>2 DEF Row
  <2> QED BY <2>1, <2>3, Zenon
<1> HIDE DEF rows
<1>9. FullInv' /\ grants'[u] = rows /\ \A v \in Users \ {u} : grants'[v] = grants[v]
  BY <1>1, <1>2, <1>4, <1>5, OperatorKeeps, Zenon DEF rows
<1>10. ~LiveTrial(u) => ~LiveTrial(u)'
  BY <1>8, <1>9, Zenon DEF LiveTrial
<1>11. LiveTrial(u) \/ TrialWindow(u)' \subseteq TrialWindow(u)
  BY <1>10, Zenon DEF TrialWindow
<1> QED BY <1>7, <1>9, <1>11, Zenon DEF OperatorRules

\* A change of status moves no window and starts no trial.
LEMMA RestatusKeeps ==
  ASSUME FullInv, NEW u \in Users, NEW a \in {"ACTIVE", "SUSPENDED"}, NEW b \in {"ACTIVE", "SUSPENDED"},
         Operator(u, Restatus(grants[u], a, b)), UNCHANGED trialed
  PROVE  /\ FullInv'
         /\ grants'[u] = Restatus(grants[u], a, b)
         /\ \A v \in Users \ {u} : grants'[v] = grants[v]
         /\ TrialWindow(u)' \subseteq TrialWindow(u)
<1> DEFINE rows == Restatus(grants[u], a, b)
<1>1. Shaped(grants[u])
  BY AccountsShaped, Zenon
<1>2. /\ Shaped(rows)
      /\ \A g \in Sources : /\ rows[g] = None <=> grants[u][g] = None
                            /\ grants[u][g] # None => /\ rows[g].start = grants[u][g].start
                                                      /\ rows[g].end = grants[u][g].end
                                                      /\ rows[g].kind = grants[u][g].kind
  BY <1>1, RestatusShaped
<1>3. rows["operator"].status # "REVOKED" => \/ grants[u]["operator"].status # "REVOKED"
                                             \/ grants[u]["operator"] = None
  BY Zenon DEF Restatus, Sources
<1>4. \A t \in Nat : Covers(rows["billing"], t) <=> Covers(grants[u]["billing"], t)
  BY <1>2, Zenon DEF Covers, Sources
<1>5. trialed' \subseteq Users
  BY TrialedTyped, Zenon DEF FullInv
<1> HIDE DEF rows
<1>6. FullInv' /\ grants'[u] = rows /\ \A v \in Users \ {u} : grants'[v] = grants[v]
  BY <1>2, <1>4, <1>5, OperatorKeeps, Zenon DEF rows
<1>7. LiveTrial(u)' => LiveTrial(u)
  BY <1>2, <1>3, <1>6, Zenon DEF LiveTrial, Sources
<1>8. LiveTrial(u) => /\ grants'[u]["operator"].start = grants[u]["operator"].start
                      /\ grants'[u]["operator"].end = grants[u]["operator"].end
  BY <1>2, <1>6, Zenon DEF LiveTrial, Sources
<1>9. TrialWindow(u)' \subseteq TrialWindow(u)
  BY <1>7, <1>8, Zenon DEF TrialWindow
<1> QED BY <1>6, <1>9, Zenon DEF rows

\* The operator suspends an account.
LEMMA SuspendKeeps == ASSUME FullInv, NEW u \in Users, Suspend(u) PROVE FullInv' /\ OperatorRules(u)
<1>1. Operator(u, Restatus(grants[u], "ACTIVE", "SUSPENDED")) /\ UNCHANGED trialed
  BY Zenon DEF Suspend, PlanSuspend
<1>2. /\ FullInv' /\ grants'[u] = Restatus(grants[u], "ACTIVE", "SUSPENDED")
      /\ \A v \in Users \ {u} : grants'[v] = grants[v]
      /\ TrialWindow(u)' \subseteq TrialWindow(u)
  BY <1>1, RestatusKeeps, Zenon
<1>3. Suspended(grants[u]) => Suspended(grants'[u])
  BY <1>2, Zenon DEF Suspended, Restatus, Rows
<1> QED BY <1>2, <1>3, Zenon DEF OperatorRules

\* The operator restores an account.
LEMMA RestoreKeeps == ASSUME FullInv, NEW u \in Users, Restore(u) PROVE FullInv' /\ OperatorRules(u)
<1>1. Operator(u, Restatus(grants[u], "SUSPENDED", "ACTIVE")) /\ UNCHANGED trialed
  BY Zenon DEF Restore, PlanRestore
<1>2. /\ FullInv'
      /\ \A v \in Users \ {u} : grants'[v] = grants[v]
      /\ TrialWindow(u)' \subseteq TrialWindow(u)
  BY <1>1, RestatusKeeps, Zenon
<1> QED BY <1>2, Zenon DEF OperatorRules

\* The operator revokes access.
LEMMA RevokeKeeps == ASSUME FullInv, NEW u \in Users, Revoke(u) PROVE FullInv' /\ OperatorRules(u)
<1> DEFINE rows == PlanRevoke(grants[u])
<1>1. Operator(u, rows) /\ UNCHANGED trialed /\ rows # grants[u]
  BY Zenon DEF Revoke, Operator
<1>2. Shaped(grants[u])
  BY AccountsShaped
<1>3. Shaped(rows) /\ rows["billing"] = grants[u]["billing"]
  BY <1>2, RevokeShaped, Zenon
<1>4. trialed' \subseteq Users
  BY <1>1, TrialedTyped, Zenon DEF FullInv
<1>5. rows["operator"].status = "REVOKED"
  <2>1. grants[u]["operator"] # None
    BY <1>1, Zenon DEF PlanRevoke
  <2>2. grants[u]["operator"] \in EntitlementRows /\ grants[u] \in AccountRows
    BY <1>2, <2>1, Zenon DEF Shaped, AccountRows, Sources
  <2>3. rows = [grants[u] EXCEPT !["operator"] = [grants[u]["operator"] EXCEPT !.status = "REVOKED"]]
    BY <2>1, Zenon DEF PlanRevoke
  <2> QED BY <2>2, <2>3, Zenon DEF EntitlementRows, AccountRows, Sources
<1> HIDE DEF rows
<1>6. FullInv' /\ grants'[u] = rows /\ \A v \in Users \ {u} : grants'[v] = grants[v]
  BY <1>1, <1>3, <1>4, OperatorKeeps, Zenon
<1>7. ~LiveTrial(u)'
  BY <1>5, <1>6, Zenon DEF LiveTrial
<1>8. TrialWindow(u)' \subseteq TrialWindow(u)
  BY <1>7, Zenon DEF TrialWindow
<1> QED BY <1>6, <1>8, Zenon DEF OperatorRules

\* Every command of the operator.
LEMMA OperatorActs ==
  ASSUME FullInv, NEW u \in Users, Trial(u) \/ Grant(u) \/ Suspend(u) \/ Restore(u) \/ Revoke(u)
  PROVE  FullInv' /\ OperatorRules(u) /\ UNCHANGED <<outcome, subs>>
<1>1. UNCHANGED <<outcome, subs>>
  BY Zenon DEF Trial, Grant, Suspend, Restore, Revoke, Operator
<1> QED BY <1>1, TrialKeeps, GrantKeeps, SuspendKeeps, RestoreKeeps, RevokeKeeps, Zenon

\* Every step but the last of a transaction.
OtherSteps(p) ==
  \/ \E e \in Events : Deliver(p, e)
  \/ ClaimEvent(p) \/ Ignore(p) \/ ResolveCheckout(p) \/ ResolveSubscription(p)
  \/ BindCustomer(p) \/ LockAccount(p) \/ Check(p) \/ Fail(p)

\* Every step of a transaction but the last.
LEMMA OtherStepsKeep ==
  ASSUME FullInv, NEW p \in Procs, OtherSteps(p)
  PROVE  FullInv' /\ UNCHANGED <<subs, grants>>
<1>1. UNCHANGED <<now, subs, grants, trialed, operations>>
  BY TxKeepsAccess, Zenon DEF OtherSteps
<1>2. BillingInv /\ now \in Nat
  BY NowTyped, Zenon DEF FullInv
<1>3. BillingInv'
  BY <1>2, DeliverKeeps, ClaimKeeps, IgnoreKeeps, ResolveCheckoutKeeps, ResolveSubscriptionKeeps,
     BindKeeps, LockKeeps, CheckKeeps, FailKeeps, Zenon DEF OtherSteps
<1>4. RowsInv' /\ PaidInv'
  BY <1>1, <1>2, SameAccess DEF FullInv
<1> QED BY <1>1, <1>3, <1>4, Zenon DEF FullInv

\* The whole invariant holds at first.
LEMMA FullInit == Init => FullInv
<1> SUFFICES ASSUME Init PROVE FullInv
  BY Zenon
<1>1. BillingInv
  BY BillingInit, Zenon
<1>2. \A u \in Users, g \in Sources : grants[u][g] = None
  BY Zenon DEF Init
<1>3. RowsInv
  BY <1>2, Zenon DEF RowsInv, RowOK
<1>4. \A u \in Users, t \in Nat : ~Pays(u, t)
  BY Zenon DEF Init, Pays, SubscriptionsOf
<1>5. PaidInv
  BY <1>2, <1>4, Zenon DEF PaidInv, Covers, Sources
<1> QED BY <1>1, <1>3, <1>5, Zenon DEF FullInv

\* The steps of the system, sorted by who takes them.
LEMMA NextCases ==
  ASSUME Next
  PROVE  \/ \E p \in Procs : OtherSteps(p) \/ Put(p)
         \/ \E k \in Checkouts : StartCheckout(k) \/ RecordCheckout(k)
         \/ \E u \in Users : Trial(u) \/ Grant(u) \/ Suspend(u) \/ Restore(u) \/ Revoke(u)
         \/ Tick
  BY OperatorAssumption, Zenon DEF Next, TxStep, OtherSteps

\* Every step keeps the whole invariant.
LEMMA FullNext == ASSUME FullInv, [Next]_vars PROVE FullInv'
<1>1. ASSUME NEW p \in Procs, OtherSteps(p) PROVE FullInv'
  BY <1>1, OtherStepsKeep, Zenon
<1>2. ASSUME NEW p \in Procs, Put(p) PROVE FullInv'
  BY <1>2, PutKeeps, Zenon
<1>3. ASSUME NEW k \in Checkouts, StartCheckout(k) \/ RecordCheckout(k) PROVE FullInv'
  BY <1>3, CheckoutKeeps, Zenon
<1>4. ASSUME NEW u \in Users, Trial(u) \/ Grant(u) \/ Suspend(u) \/ Restore(u) \/ Revoke(u)
      PROVE  FullInv'
  BY <1>4, OperatorActs, Zenon
<1>5. CASE Tick
  BY <1>5, TickKeeps, Zenon
<1>6. CASE UNCHANGED vars
  <2>1. UNCHANGED <<now, checkout, outcome, customers, subs, grants, trialed, tx, failures, operations>>
    BY <1>6, Zenon DEF vars, tables
  <2>2. BillingInv /\ now \in Nat
    BY NowTyped, Zenon DEF FullInv
  <2>3. Types'
    BY <2>1, <2>2, Zenon DEF BillingInv, Types
  <2>4. BillingInv'
    BY <2>1, <2>2, <2>3, Quiet
  <2>5. RowsInv' /\ PaidInv'
    BY <2>1, <2>2, SameAccess DEF FullInv
  <2> QED BY <2>4, <2>5, Zenon DEF FullInv
<1> QED BY <1>1, <1>2, <1>3, <1>4, <1>5, <1>6, NextCases, Zenon

\* The whole invariant always holds.
LEMMA FullAlways == Spec => []FullInv
<1>1. Init => FullInv
  BY FullInit, Zenon
<1>2. FullInv /\ [Next]_vars => FullInv'
  BY FullNext, Zenon
<1> QED BY <1>1, <1>2, PTL DEF Spec

-----------------------------------------------------------------------------
\* It contains the types.
LEMMA FullTyped == ASSUME FullInv PROVE TypeOK
<1>1. Types /\ TxInv /\ SubsInv /\ RowsInv
  BY Zenon DEF FullInv, BillingInv
<1>2. \A x \in Subs : subs[x] # None =>
        /\ subs[x].user \in Users /\ subs[x].customer \in Customers
        /\ subs[x].status \in Statuses /\ subs[x].at \in Nat
        /\ subs[x].start < subs[x].end
  BY <1>1, Zenon DEF Types, SubsInv, Subscriptions
<1>3. ASSUME NEW u \in Users, NEW g \in Sources, grants[u][g] # None
      PROVE  /\ grants[u][g].status \in {"ACTIVE", "SUSPENDED"}
                                           \cup (IF g = "operator" THEN {"REVOKED"} ELSE {})
             /\ grants[u][g].start < grants[u][g].end
             /\ grants[u][g].kind \in {"TRIAL"} \cup (IF g = "operator" THEN {"STANDARD", "BETA"}
                                                      ELSE {"SUBSCRIPTION"})
  <2>1. grants[u][g] \in EntitlementRows /\ RowOK(g, grants[u][g])
    BY <1>1, <1>3 DEF Types, RowsInv
  <2> QED BY <1>3, <2>1, Zenon DEF EntitlementRows, RowOK, Sources
<1>4. \A p \in Procs :
        /\ tx[p].step \in Steps
        /\ tx[p].step = "idle" <=> tx[p].event = None
        /\ tx[p].step \in {"bind", "lock", "check", "put"} => tx[p].user \in Users
  BY <1>1, Zenon DEF Types, Txs, TxInv, TxOK, TxFits, AccountSteps
<1> QED BY <1>1, <1>2, <1>3, <1>4, Zenon DEF TypeOK, Types, Steps

\* Accounts, rows and transactions keep their shape: an operator's row is
\* never billing's, and every window has a length.
THEOREM BillingTyped == Spec => []TypeOK
<1>1. FullInv => TypeOK
  BY FullTyped, Zenon
<1> QED BY <1>1, FullAlways, PTL

\* The access billing grants is what the stored subscriptions pay for, at
\* every instant, for any number of subscriptions and any policy.
THEOREM AccessIsPaid == Spec => []PaidIsEntitled
<1>1. FullInv => PaidIsEntitled
  <2> SUFFICES ASSUME FullInv, NEW u \in Users
               PROVE  Pays(u, now) <=> Covers(grants[u]["billing"], now)
    BY Zenon DEF PaidIsEntitled, Covers
  <2>1. now \in Nat
    BY NowTyped, Zenon DEF FullInv
  <2> QED BY <2>1 DEF FullInv, PaidInv
<1> QED BY <1>1, FullAlways, PTL

\* Out of order, repeated and concurrent deliveries leave the newest state.
THEOREM NewestIsStored == Spec => []NewestStands
<1>1. FullInv => NewestStands
  BY Zenon DEF FullInv, BillingInv, NewestInv, NewestStands
<1> QED BY <1>1, FullAlways, PTL

\* Subscriptions belong to their customer's account, one customer to each.
THEOREM SubscriptionsOwned == Spec => []OwnerOfSubscription
<1>1. FullInv => OwnerOfSubscription
  BY Zenon DEF FullInv, BillingInv, SubsInv, CustomersInv, OwnerOfSubscription
<1> QED BY <1>1, FullAlways, PTL

\* Only an event that was not settled is settled.
LEMMA SettlesOne ==
  ASSUME FullInv, NEW p \in Procs, OtherSteps(p) \/ Put(p)
  PROVE  \/ outcome' = outcome
         \/ \E r \in {"applied", "stale", "ignored"} :
              /\ outcome' = [outcome EXCEPT ![tx[p].event] = r]
              /\ tx[p].event \in Events /\ outcome[tx[p].event] = "none"
<1>1. tx[p].step \in OpenSteps => tx[p].event \in Events /\ outcome[tx[p].event] = "none"
  BY Zenon DEF FullInv, BillingInv, TxInv, TxOK, TxFits, OpenSteps
<1>2. ASSUME NEW e \in Events, Deliver(p, e) PROVE outcome' = outcome
  BY <1>2 DEF Deliver, tables
<1>3. CASE ClaimEvent(p)
  BY <1>3, Zenon DEF ClaimEvent, tables
<1>4. CASE Ignore(p)
  BY <1>1, <1>4, Zenon DEF Ignore, Commits, OpenSteps
<1>5. CASE ResolveCheckout(p)
  BY <1>1, <1>5, Zenon DEF ResolveCheckout, Commits, OpenSteps
<1>6. CASE ResolveSubscription(p)
  BY <1>6, Zenon DEF ResolveSubscription, tables
<1>7. CASE BindCustomer(p)
  BY <1>1, <1>7, Zenon DEF BindCustomer, Commits, OpenSteps
<1>8. CASE LockAccount(p)
  BY <1>8, Zenon DEF LockAccount, tables
<1>9. CASE Check(p)
  BY <1>1, <1>9, Zenon DEF Check, Commits, OpenSteps
<1>10. CASE Fail(p)
  BY <1>10, Zenon DEF Fail, RollsBack, tables
<1>11. CASE Put(p)
  BY <1>1, <1>11, Zenon DEF Put, Commits, OpenSteps
<1> QED BY <1>2, <1>3, <1>4, <1>5, <1>6, <1>7, <1>8, <1>9, <1>10, <1>11, Zenon DEF OtherSteps

SettledStays ==
  /\ \A e \in Events : outcome[e] # "none" => outcome'[e] = outcome[e]
  /\ subs' # subs => \E e \in Events : outcome[e] = "none" /\ outcome'[e] = "applied"

\* No step settles an event again.
LEMMA StepSettles == ASSUME FullInv, [Next]_vars PROVE SettledStays
<1>1. outcome \in [Events -> {"none", "applied", "stale", "ignored"}]
  BY DEF FullInv, BillingInv, Types
<1>2. ASSUME NEW p \in Procs, OtherSteps(p) PROVE SettledStays
  BY <1>1, <1>2, SettlesOne, OtherStepsKeep, Zenon DEF SettledStays
<1>3. ASSUME NEW p \in Procs, Put(p) PROVE SettledStays
  <2>1. /\ tx[p].event \in Events /\ outcome[tx[p].event] = "none"
        /\ outcome' = [outcome EXCEPT ![tx[p].event] = "applied"]
    BY <1>3, Zenon DEF Put, Commits, FullInv, BillingInv, TxInv, TxOK, TxFits, OpenSteps
  <2> QED BY <1>1, <2>1, Zenon DEF SettledStays
<1>4. ASSUME NEW k \in Checkouts, StartCheckout(k) \/ RecordCheckout(k) PROVE SettledStays
  BY <1>4, CheckoutKeeps, Zenon DEF SettledStays
<1>5. ASSUME NEW u \in Users, Trial(u) \/ Grant(u) \/ Suspend(u) \/ Restore(u) \/ Revoke(u)
      PROVE  SettledStays
  BY <1>5, OperatorActs, Zenon DEF SettledStays
<1>6. CASE Tick
  BY <1>6, TickKeeps, Zenon DEF SettledStays
<1>7. CASE UNCHANGED vars
  BY <1>7, Zenon DEF vars, tables, SettledStays
<1> QED BY <1>2, <1>3, <1>4, <1>5, <1>6, <1>7, NextCases, Zenon

\* A delivery repeated, late or racing its twin changes nothing.
THEOREM EventsApplyOnce == Spec => AppliedOnce
<1>1. FullInv /\ [Next]_vars => [SettledStays]_vars
  BY StepSettles, Zenon
<1>2. Spec => [][SettledStays]_vars
  BY <1>1, FullAlways, PTL DEF Spec
<1> QED BY <1>2 DEF AppliedOnce, SettledStays

\* What a step leaves of every account's suspension and trial.
AccountRules ==
  \A u \in Users :
    /\ Suspended(grants[u]) /\ ~Suspended(grants'[u]) => Restore(u) \/ Revoke(u)
    /\ u \in trialed => \/ TrialWindow(u)' \subseteq TrialWindow(u)
                        \/ LiveTrial(u) /\ Grant(u)

\* A step that leaves the rows of an account leaves its trial.
LEMMA SameTrial ==
  ASSUME NEW u \in Users, grants'[u]["operator"] = grants[u]["operator"] PROVE TrialWindow(u)' = TrialWindow(u)
  BY Zenon DEF TrialWindow, LiveTrial

\* No step breaks the rules of an account.
LEMMA StepRules == ASSUME FullInv, [Next]_vars PROVE AccountRules
<1>1. ASSUME NEW p \in Procs, OtherSteps(p) PROVE AccountRules
  BY <1>1, OtherStepsKeep, SameTrial, Zenon DEF AccountRules
<1>2. ASSUME NEW p \in Procs, Put(p) PROVE AccountRules
  BY <1>2, PutKeeps, SameTrial, Zenon DEF AccountRules
<1>3. ASSUME NEW k \in Checkouts, StartCheckout(k) \/ RecordCheckout(k) PROVE AccountRules
  BY <1>3, CheckoutKeeps, SameTrial, Zenon DEF AccountRules
<1>4. ASSUME NEW u \in Users, Trial(u) \/ Grant(u) \/ Suspend(u) \/ Restore(u) \/ Revoke(u)
      PROVE  AccountRules
  <2>1. OperatorRules(u)
    BY <1>4, OperatorActs, Zenon
  <2>2. ASSUME NEW v \in Users, v # u
        PROVE  /\ Suspended(grants[v]) => Suspended(grants'[v])
               /\ TrialWindow(v)' = TrialWindow(v)
    BY <2>1, <2>2, SameTrial, Zenon DEF OperatorRules
  <2> QED BY <2>1, <2>2, Zenon DEF OperatorRules, AccountRules
<1>5. CASE Tick
  BY <1>5, TickKeeps, SameTrial, Zenon DEF AccountRules
<1>6. CASE UNCHANGED vars
  BY <1>6, SameTrial, Zenon DEF vars, tables, AccountRules
<1> QED BY <1>1, <1>2, <1>3, <1>4, <1>5, <1>6, NextCases, Zenon

\* The rules of an account are always kept.
LEMMA RulesAlways == Spec => [][AccountRules]_vars
<1>1. FullInv /\ [Next]_vars => [AccountRules]_vars
  BY StepRules, Zenon
<1> QED BY <1>1, FullAlways, PTL DEF Spec

\* A payment, a renewal or a grant never ends a suspension.
THEOREM SuspensionsStand == Spec => SuspensionStands
<1>1. [AccountRules]_vars =>
        [\A u \in Users : Suspended(grants[u]) /\ ~Suspended(grants'[u]) => Restore(u) \/ Revoke(u)]_vars
  BY DEF AccountRules
<1> QED BY <1>1, RulesAlways, PTL DEF SuspensionStands

\* An account that had a trial, paid or granted, running or over, begins no
\* other: only a grant moves the window of the operator's.
THEOREM TrialsOnce == Spec => OneTrial
<1> DEFINE Rule == \A u \in Users :
                     u \in trialed => \/ TrialWindow(u)' \subseteq TrialWindow(u)
                                      \/ LiveTrial(u) /\ Grant(u)
<1>1. AccountRules => Rule
  BY Zenon DEF AccountRules
<1> HIDE DEF Rule
<1>2. Spec => [][Rule]_vars
  BY <1>1, RulesAlways, PTL
<1> QED BY <1>2 DEF OneTrial, Rule
=============================================================================
