------------------------------- MODULE Billing -------------------------------
(***************************************************************************)
(* Billing webhooks and the access they sell.                              *)
(*                                                                         *)
(* The provider delivers each event at least once, late, out of order and  *)
(* to any API process.  An event is processed in one database transaction  *)
(* of several statements (read committed), which takes row locks as it     *)
(* goes: the event's key, a customer's two keys, then the account.  An     *)
(* operator changes the same account's rows under the account's lock.      *)
(***************************************************************************)
EXTENDS Entitlements, FiniteSets

CONSTANTS
  Users, Customers, Subs,
  Checkouts,       \* checkouts students may start
  CheckoutUser,    \* [Checkouts -> Users]
  Events,          \* what the provider will ever report
  Procs,           \* API processes that handle webhooks
  Leeway, Grace,   \* policy.renewalLeewayHours, policy.pastDueGraceHours
  TrialDays,
  Managed,         \* accounts whose access operators change
  Requests,        \* the grants operators ask for: a kind or None, from or None, until
  MaxNow,          \* the clock's bound
  MaxFailures,     \* how many transactions are lost
  MaxOperations    \* how many changes operators make

Statuses == {"incomplete", "incomplete_expired", "trialing", "active", "past_due",
             "unpaid", "canceled", "paused"}

Subscriptions == [user : Users, customer : Customers, status : Statuses, cancel : BOOLEAN,
                  start : Nat, end : Nat, at : Nat]

(***************************************************************************)
(* An event: ref is the client reference it carries, from the checkout it  *)
(* stems from (None: not one of this platform's), priced whether an offer  *)
(* names its price, at when the provider produced that state.  The period  *)
(* it reports is the current one, so it has begun.                         *)
(***************************************************************************)
EventOK(e) ==
  /\ e.kind \in {"ignored", "checkout", "subscription"}
  /\ e.checkout \in Checkouts \cup {None}
  /\ e.ref \in Users \cup {None}
  /\ e.customer \in Customers
  /\ e.sub \in Subs
  /\ e.status \in Statuses
  /\ e.cancel \in BOOLEAN /\ e.priced \in BOOLEAN
  /\ e.start \in Nat /\ e.end \in Nat /\ e.at \in Nat
  /\ e.start < e.end /\ e.start <= e.at

ASSUME BillingAssumption ==
  /\ Leeway \in Nat /\ Grace \in Nat /\ TrialDays \in Nat \ {0}
  /\ CheckoutUser \in [Checkouts -> Users]
  /\ \A e \in Events : EventOK(e)
  /\ None \notin Users \cup Customers \cup Subs \cup Checkouts \cup Procs
  /\ None \notin Subscriptions /\ None \notin Events /\ None \notin EntitlementRows
  /\ MaxNow \in Nat /\ MaxFailures \in Nat /\ MaxOperations \in Nat /\ Never \in Int

ASSUME OperatorAssumption ==
  /\ Managed \subseteq Users
  /\ \A r \in Requests : /\ r.kind \in {"TRIAL", "STANDARD", "BETA", None}
                         /\ r.from \in Nat \cup {None} /\ r.until \in Nat \cup {Never}

VARIABLES
  now,
  checkout,    \* billing_checkouts: no, checked (about to be recorded), open, completed
  outcome,     \* billing_events: none, or the outcome committed
  customers,   \* billing_customers: the account a customer is bound to
  subs,        \* billing_subscriptions
  grants,      \* access_entitlements: the rows of each account
  trialed,     \* accounts with a TRIAL in access_events
  tx,          \* the open transaction of a process
  failures, operations

tables == <<checkout, outcome, customers, subs, grants, trialed>>
vars == <<now, tables, tx, failures, operations>>

\* An open transaction: where it is, its event, the account it resolved and
\* whether it inserted that account's customer.
Tx(step, event, user, bound) ==
  [step |-> step, event |-> event, user |-> user, bound |-> bound]

Idle == Tx("idle", None, None, FALSE)

TypeOK ==
  /\ now \in 0..MaxNow
  /\ checkout \in [Checkouts -> {"no", "checked", "open", "completed"}]
  /\ outcome \in [Events -> {"none", "applied", "stale", "ignored"}]
  /\ customers \in [Customers -> Users \cup {None}]
  /\ \A x \in Subs : subs[x] # None =>
       /\ subs[x].user \in Users /\ subs[x].customer \in Customers
       /\ subs[x].status \in Statuses /\ subs[x].at \in Nat
       /\ subs[x].start < subs[x].end
  /\ \A u \in Users, g \in Sources : grants[u][g] # None =>
       /\ grants[u][g].status \in {"ACTIVE", "SUSPENDED"}
                                    \cup (IF g = "operator" THEN {"REVOKED"} ELSE {})
       /\ grants[u][g].start < grants[u][g].end
       /\ grants[u][g].kind \in {"TRIAL"} \cup (IF g = "operator" THEN {"STANDARD", "BETA"}
                                                ELSE {"SUBSCRIPTION"})
  /\ trialed \subseteq Users
  /\ \A p \in Procs :
       /\ tx[p].step \in {"idle", "claim", "claimed", "bind", "lock", "check", "put"}
       /\ tx[p].step = "idle" <=> tx[p].event = None
       /\ tx[p].step \in {"bind", "lock", "check", "put"} => tx[p].user \in Users
  /\ failures \in 0..MaxFailures /\ operations \in 0..MaxOperations

Init ==
  /\ now = 0
  /\ checkout = [k \in Checkouts |-> "no"]
  /\ outcome = [e \in Events |-> "none"]
  /\ customers = [c \in Customers |-> None]
  /\ subs = [x \in Subs |-> None]
  /\ grants = [u \in Users |-> [g \in Sources |-> None]]
  /\ trialed = {}
  /\ tx = [p \in Procs |-> Idle]
  /\ failures = 0 /\ operations = 0
-----------------------------------------------------------------------------
(***************************************************************************)
(* entitlementFor: the window a subscription entitles, and whether it      *)
(* entitles at all.                                                        *)
(***************************************************************************)
EntitlementFor(s) ==
  LET entitles == s.status \in {"trialing", "active"} \/ (s.status = "past_due" /\ Grace > 0)
      end == CASE s.status \in {"trialing", "active"} -> s.end + (IF s.cancel THEN 0 ELSE Leeway)
               [] s.status = "past_due" /\ Grace > 0  -> s.start + Grace
               [] OTHER                               -> s.end
  IN  [active |-> entitles, start |-> s.start, end |-> end,
       kind |-> IF s.status = "trialing" THEN "TRIAL" ELSE "SUBSCRIPTION"]

SubscriptionsOf(table, u) == {table[x] : x \in {y \in Subs : table[y] # None /\ table[y].user = u}}

(***************************************************************************)
(* desiredEntitlement: the entitling window that runs longest or, when     *)
(* none entitles, the one that ended last.  Of several the code takes the  *)
(* subscription updated last; any of them is allowed here.                 *)
(***************************************************************************)
Desired(S) ==
  LET all == {EntitlementFor(s) : s \in S}
      entitling == {d \in all : d.active}
      best == IF entitling # {} THEN entitling ELSE all
  IN  {d \in best : \A o \in best : o.end <= d.end}
-----------------------------------------------------------------------------
Holds(p, u) == tx[p].user = u /\ tx[p].step \in {"check", "put"}

\* The account's row is locked for update, or a customer row just inserted
\* references it.
Locked(u) == \E p \in Procs : Holds(p, u) \/ (tx[p].bound /\ tx[p].user = u)

LockedByOther(p, u) == \E q \in Procs \ {p} : Holds(q, u) \/ (tx[q].bound /\ tx[q].user = u)

Becomes(p, t) == tx' = [tx EXCEPT ![p] = t]

MovesTo(p, step) == Becomes(p, Tx(step, tx[p].event, tx[p].user, tx[p].bound))

\* What the transaction wrote becomes visible and its locks are released.
Commits(p, result) ==
  /\ outcome' = [outcome EXCEPT ![tx[p].event] = result]
  /\ customers' = IF tx[p].bound
                  THEN [customers EXCEPT ![tx[p].event.customer] = tx[p].user]
                  ELSE customers
  /\ Becomes(p, Idle)

RollsBack(p) == Becomes(p, Idle) /\ UNCHANGED tables

\* External: the provider reports a state once it is in it, and nothing
\* about a checkout before it was there to pay.
Happened(e) ==
  /\ e.at <= now
  /\ e.checkout # None => checkout[e.checkout] \in {"open", "completed"}

(***************************************************************************)
(* A delivery, first or repeated.  The insert of the event's key waits for *)
(* another transaction that holds it.                                      *)
(***************************************************************************)
Deliver(p, e) ==
  /\ tx[p].step = "idle" /\ Happened(e)
  /\ Becomes(p, Tx("claim", e, None, FALSE))
  /\ UNCHANGED <<now, tables, failures, operations>>

ClaimUnchecked(p) ==
  /\ tx[p].step = "claim"
  /\ MovesTo(p, "claimed")
  /\ UNCHANGED <<now, tables, failures, operations>>

ClaimEvent(p) ==
  /\ tx[p].step = "claim"
  /\ \A q \in Procs \ {p} : tx[q].event = tx[p].event => tx[q].step = "claim"
  /\ IF outcome[tx[p].event] = "none" THEN MovesTo(p, "claimed")
     ELSE Becomes(p, Idle)
  /\ UNCHANGED <<now, tables, failures, operations>>

\* An event of a type billing does not use.
Ignore(p) ==
  /\ tx[p].step = "claimed" /\ tx[p].event.kind = "ignored"
  /\ Commits(p, "ignored")
  /\ UNCHANGED <<now, checkout, subs, grants, trialed, failures, operations>>

\* checkout.completed, for a checkout started here for that account.
ResolveCheckout(p) ==
  LET e == tx[p].event
      ours == /\ e.checkout # None
              /\ e.ref # None => e.ref = CheckoutUser[e.checkout]
  IN  /\ tx[p].step = "claimed" /\ e.kind = "checkout"
      /\ IF ours
         THEN Becomes(p, Tx("bind", e, CheckoutUser[e.checkout], FALSE))
              /\ UNCHANGED <<outcome, customers>>
         ELSE Commits(p, "ignored")
      /\ UNCHANGED <<now, checkout, subs, grants, trialed, failures, operations>>

(***************************************************************************)
(* A subscription changed.  Its customer may not be bound yet; the account *)
(* it names is believed if that account ever started a checkout.           *)
(***************************************************************************)
ResolveSubscription(p) ==
  LET e == tx[p].event
      known == customers[e.customer] # None
      started == e.ref # None /\ \E k \in Checkouts : CheckoutUser[k] = e.ref
                                                      /\ checkout[k] \in {"open", "completed"}
  IN  /\ tx[p].step = "claimed" /\ e.kind = "subscription"
      /\ \/ known /\ Becomes(p, Tx("lock", e, customers[e.customer], FALSE))
         \/ ~known /\ started /\ Becomes(p, Tx("bind", e, e.ref, FALSE))
         \/ ~known /\ ~started /\ Becomes(p, Idle)
      /\ UNCHANGED <<now, tables, failures, operations>>

(***************************************************************************)
(* bindCustomer.  The insert waits for a transaction that inserted the     *)
(* same customer or account, and for the account's row.                    *)
(***************************************************************************)
BindCustomer(p) ==
  LET e == tx[p].event
      u == tx[p].user
      clear == customers[e.customer] = None /\ \A c \in Customers : customers[c] # u
      same == customers[e.customer] = u
  IN  /\ tx[p].step = "bind"
      /\ \A q \in Procs \ {p} :
           tx[q].bound => tx[q].event.customer # e.customer /\ tx[q].user # u
      /\ clear => ~LockedByOther(p, u)
      /\ \/ /\ clear \/ same
            /\ e.kind = "subscription"
            /\ Becomes(p, Tx("lock", e, u, clear))
            /\ UNCHANGED <<checkout, outcome, customers>>
         \/ /\ clear \/ same
            /\ e.kind = "checkout"
            /\ checkout' = [checkout EXCEPT ![e.checkout] = "completed"]
            /\ outcome' = [outcome EXCEPT ![e] = "applied"]
            /\ customers' = [customers EXCEPT ![e.customer] = u]
            /\ Becomes(p, Idle)
         \/ ~clear /\ ~same /\ Commits(p, "ignored") /\ UNCHANGED checkout
      /\ UNCHANGED <<now, subs, grants, trialed, failures, operations>>

LockAccount(p) ==
  /\ tx[p].step = "lock" /\ ~LockedByOther(p, tx[p].user)
  /\ MovesTo(p, "check")
  /\ UNCHANGED <<now, tables, failures, operations>>

IsStale(e) == subs[e.sub] # None /\ e.at < subs[e.sub].at

CheckHangs(p) ==
  LET e == tx[p].event
      moved == subs[e.sub] # None /\ subs[e.sub].user # tx[p].user
  IN  /\ tx[p].step = "check"
      /\ \/ moved /\ Commits(p, "ignored")
         \/ ~moved /\ IsStale(e) /\ Commits(p, "stale")
         \/ /\ ~moved /\ ~IsStale(e) /\ ~e.priced
            /\ UNCHANGED <<tx, outcome, customers>>
         \/ /\ ~moved /\ ~IsStale(e) /\ e.priced
            /\ MovesTo(p, "put")
            /\ UNCHANGED <<outcome, customers>>
      /\ UNCHANGED <<now, checkout, subs, grants, trialed, failures, operations>>

\* Under the account's lock: not another account's, not older, a known price.
Check(p) ==
  LET e == tx[p].event
      moved == subs[e.sub] # None /\ subs[e.sub].user # tx[p].user
  IN  /\ tx[p].step = "check"
      /\ \/ moved /\ Commits(p, "ignored")
         \/ ~moved /\ IsStale(e) /\ Commits(p, "stale")
         \/ /\ ~moved /\ ~IsStale(e) /\ ~e.priced
            /\ Becomes(p, Idle)
            /\ UNCHANGED <<outcome, customers>>
         \/ /\ ~moved /\ ~IsStale(e) /\ e.priced
            /\ MovesTo(p, "put")
            /\ UNCHANGED <<outcome, customers>>
      /\ UNCHANGED <<now, checkout, subs, grants, trialed, failures, operations>>

Stored(e, u) == [user |-> u, customer |-> e.customer, status |-> e.status,
                 cancel |-> e.cancel, start |-> e.start, end |-> e.end, at |-> e.at]

PutAnyone(e, u) ==
  [subs EXCEPT ![e.sub] =
     IF @ = None \/ @.at <= e.at
     THEN [Stored(e, u) EXCEPT !.user = IF subs[e.sub] = None THEN u ELSE subs[e.sub].user]
     ELSE @]

PutBackwards(e, u) ==
  [subs EXCEPT ![e.sub] = IF @ = None \/ (@.user = u /\ @.at >= e.at)
                          THEN Stored(e, u) ELSE @]

\* putSubscription repeats the two rules in its WHERE: the check above did
\* not lock the subscription's row.
PutSubscription(e, u) ==
  [subs EXCEPT ![e.sub] = IF @ = None \/ (@.user = u /\ @.at <= e.at)
                          THEN Stored(e, u) ELSE @]

\* The state is stored, access synchronised with all the account's
\* subscriptions, and the event settled.
Put(p) ==
  LET e == tx[p].event
      u == tx[p].user
  IN  /\ tx[p].step = "put"
      /\ subs' = PutSubscription(e, u)
      /\ LET mine == SubscriptionsOf(subs', u)
         IN  \/ \E d \in Desired(mine) :
                  /\ grants' = [grants EXCEPT ![u] = PlanSync(@, d, now)]
                  /\ trialed' = IF grants'[u] # grants[u] /\ d.kind = "TRIAL"
                                THEN trialed \cup {u} ELSE trialed
             \/ mine = {} /\ UNCHANGED <<grants, trialed>>
      /\ Commits(p, "applied")
      /\ UNCHANGED <<now, checkout, failures, operations>>

\* The process or its database connection is lost: everything is undone and
\* the provider, unanswered, delivers the event again.
Fail(p) ==
  /\ tx[p].step # "idle" /\ failures < MaxFailures
  /\ failures' = failures + 1
  /\ RollsBack(p)
  /\ UNCHANGED <<now, operations>>
-----------------------------------------------------------------------------
Entitled(u) == \E d \in Desired(SubscriptionsOf(subs, u)) : d.active /\ d.end > now

\* startCheckout: what it looked at may have changed when it records.
StartCheckout(k) ==
  LET u == CheckoutUser[k]
  IN  /\ checkout[k] = "no"
      /\ ~Suspended(grants[u]) /\ ~Entitled(u)
      /\ checkout' = [checkout EXCEPT ![k] = "checked"]
      /\ UNCHANGED <<now, outcome, customers, subs, grants, trialed, tx, failures, operations>>

\* The provider made the checkout and it is recorded, or it could not.
RecordCheckout(k) ==
  /\ checkout[k] = "checked"
  /\ checkout' = [checkout EXCEPT ![k] = "open"]
  /\ UNCHANGED <<now, outcome, customers, subs, grants, trialed, tx, failures, operations>>

\* An operator's change: one transaction under the account's lock.
Operator(u, rows) ==
  /\ operations < MaxOperations /\ ~Locked(u)
  /\ rows # grants[u]
  /\ grants' = [grants EXCEPT ![u] = rows]
  /\ operations' = operations + 1
  /\ UNCHANGED <<now, checkout, outcome, customers, subs, tx, failures>>

Trial(u) ==
  /\ Operator(u, PlanTrial(grants[u], now, TrialDays, u \in trialed))
  /\ trialed' = trialed \cup {u}

Grant(u) ==
  \E r \in Requests :
    /\ Operator(u, PlanGrant(grants[u], now, r.kind, r.from, r.until))
    /\ trialed' = IF grants'[u]["operator"].kind = "TRIAL" THEN trialed \cup {u} ELSE trialed

Suspend(u) == Operator(u, PlanSuspend(grants[u])) /\ UNCHANGED trialed

Restore(u) == Operator(u, PlanRestore(grants[u])) /\ UNCHANGED trialed

Revoke(u) == Operator(u, PlanRevoke(grants[u])) /\ UNCHANGED trialed

Tick ==
  /\ now < MaxNow /\ now' = now + 1
  /\ UNCHANGED <<tables, tx, failures, operations>>

TxStep(p) ==
  \/ ClaimEvent(p) \/ Ignore(p) \/ ResolveCheckout(p) \/ ResolveSubscription(p)
  \/ BindCustomer(p) \/ LockAccount(p) \/ Check(p) \/ Put(p)

Next ==
  \/ \E p \in Procs : TxStep(p) \/ Fail(p) \/ \E e \in Events : Deliver(p, e)
  \/ \E k \in Checkouts : StartCheckout(k) \/ RecordCheckout(k)
  \/ \E u \in Managed : Trial(u) \/ Grant(u) \/ Suspend(u) \/ Restore(u) \/ Revoke(u)
  \/ Tick

Spec == Init /\ [][Next]_vars

(***************************************************************************)
(* A transaction goes on and, where it waits for a lock, PostgreSQL queues *)
(* it: it gets the lock though others take it again and again.  The        *)
(* provider repeats an event that was not acknowledged, and spaces its     *)
(* repeats, so a process is free for it some time.                         *)
(***************************************************************************)
FairSpec ==
  /\ Spec
  /\ \A p \in Procs : SF_vars(TxStep(p))
  /\ \A e \in Events : SF_vars(outcome[e] = "none" /\ \E p \in Procs : Deliver(p, e))
-----------------------------------------------------------------------------
\* What a subscription pays for, by its status alone.
Paying(s, t) ==
  \/ s.status \in {"trialing", "active"} /\ s.cancel /\ t < s.end
  \/ s.status \in {"trialing", "active"} /\ ~s.cancel /\ t < s.end + Leeway
  \/ s.status = "past_due" /\ t < s.start + Grace

Pays(u, t) == \E s \in SubscriptionsOf(subs, u) : Paying(s, t)

(***************************************************************************)
(* Billing's row of an account covers this instant exactly when a stored   *)
(* subscription pays for it: nothing paid is withheld and no access        *)
(* outlives what ended it, whatever the order of events and of operators'  *)
(* changes.                                                                *)
(***************************************************************************)
PaidIsEntitled ==
  \A u \in Users :
    LET row == grants[u]["billing"]
    IN  Pays(u, now) <=> row # None /\ row.start <= now /\ now < row.end

(***************************************************************************)
(* What is stored for a subscription is never older than an event of it    *)
(* that was processed for its account, applied or set aside as stale.      *)
(***************************************************************************)
NewestStands ==
  \A e \in Events :
    /\ e.kind = "subscription" /\ outcome[e] \in {"applied", "stale"}
    /\ subs[e.sub] # None /\ subs[e.sub].user = customers[e.customer]
    => subs[e.sub].at >= e.at

\* A subscription belongs to the account its customer is bound to, and no
\* account is two customers.
OwnerOfSubscription ==
  /\ \A x \in Subs : subs[x] # None => customers[subs[x].customer] = subs[x].user
  /\ \A c, d \in Customers : customers[c] # None /\ customers[c] = customers[d] => c = d

\* A settled event stays as settled, and only an event not settled before
\* changes a stored subscription: a repeated or late delivery does nothing.
AppliedOnce ==
  [][/\ \A e \in Events : outcome[e] # "none" => outcome'[e] = outcome[e]
     /\ subs' # subs => \E e \in Events : outcome[e] = "none" /\ outcome'[e] = "applied"]_vars

\* No event lifts a suspension: only an operator who restores or revokes does.
SuspensionStands ==
  [][\A u \in Users : Suspended(grants[u]) /\ ~Suspended(grants'[u]) => Restore(u) \/ Revoke(u)]_vars

LiveTrial(u) ==
  LET row == grants[u]["operator"]
  IN  row # None /\ row.kind = "TRIAL" /\ row.status # "REVOKED"

\* The time the operator's trial gives access for, whether or not it is over.
TrialWindow(u) ==
  LET row == grants[u]["operator"] IN IF LiveTrial(u) THEN {<<row.start, row.end>>} ELSE {}

(***************************************************************************)
(* An account gets one trial.  Once it had one, of either source, no step  *)
(* opens a trial for it or moves the window of one: not after it expired,  *)
(* was revoked or was converted.  The exception is the one the commands    *)
(* make: a grant may extend the operator's trial that was not revoked.     *)
(***************************************************************************)
OneTrial ==
  [][\A u \in Users :
       u \in trialed => \/ TrialWindow(u)' \subseteq TrialWindow(u)
                        \/ LiveTrial(u) /\ Grant(u)]_vars

(***************************************************************************)
(* Every event of this platform's checkouts is settled, though its account *)
(* may not be known at first, deliveries are lost and transactions wait    *)
(* for each other's locks.                                                 *)
(***************************************************************************)
EventSettles ==
  []<>(\A e \in Events : Happened(e) /\ e.checkout # None /\ e.priced => outcome[e] # "none")
=============================================================================
