--------------------------- MODULE TenantBilling ---------------------------
(***************************************************************************)
(* One client of the platform from registration to removal: its access,    *)
(* the invoices and the payments at Mercado Pago that extend it, the       *)
(* policy that closes it, and the hands of the super administrators.       *)
(* Nothing locks the row of the client: the policy and a payment read it   *)
(* and write later, each the columns it changed.                           *)
(* Days are the unit of time; day 0 stands for no date.                    *)
(***************************************************************************)
EXTENDS Integers

CONSTANTS NumInvoices, NumPayments,
          Handlers,      \* requests that process a payment
          TrialDays, Period, Grace,
          MaxDay,
          Forms,         \* what a super administrator may post: is_active, status, unlimited
          MaxHands       \* steps of super administrators

ASSUME NumAssumption == NumInvoices \in Nat /\ NumPayments \in Nat
ASSUME DaysAssumption == TrialDays \in Nat /\ Period \in Nat /\ Grace \in Nat /\ MaxDay \in Nat \ {0}
ASSUME HandsAssumption == MaxHands \in Nat

VARIABLES now,
          tenant,        \* the row of the client
          invoice,       \* its invoices
          payment,       \* what Mercado Pago knows
          handler,       \* a payment fetched and not yet processed
          update,        \* what a handler will write at its commit
          sweep,         \* columns the policy will write at its commit
          hands,         \* steps of super administrators so far
          approved,      \* invoices ever paid at Mercado Pago (history)
          excuse         \* why a paid client may be closed (history)

vars == <<now, tenant, invoice, payment, handler, update, sweep, hands, approved, excuse>>

Invoices == 1..NumInvoices
Payments == 1..NumPayments
Days == 0..(MaxDay + Period + TrialDays)
Statuses == {"trial", "pending_payment", "active", "past_due", "canceled"}
Tenants == [live : BOOLEAN, sub : Statuses, end : Days, trial : Days, blocked : BOOLEAN,
            trash : BOOLEAN, was : BOOLEAN, unlimited : BOOLEAN, gone : BOOLEAN]
ASSUME FormsAssumption == Forms \subseteq [live : BOOLEAN, sub : Statuses, unlimited : BOOLEAN]
None == [at |-> "rest"]

\* The columns of a row that a transaction changed, and the row once they are written.
Changed(old, new) == [f \in {f \in DOMAIN old : new[f] # old[f]} |-> new[f]]
Written(row, columns) == [f \in DOMAIN row |-> IF f \in DOMAIN columns THEN columns[f] ELSE row[f]]

InvoiceStatuses == {"none", "pending", "paid", "cancelled", "failed"}
Columns(c) ==
    /\ DOMAIN c \subseteq {"live", "sub", "end", "blocked"}
    /\ \A f \in DOMAIN c \cap {"live", "blocked"} : c[f] \in BOOLEAN
    /\ "sub" \in DOMAIN c => c["sub"] \in Statuses
    /\ "end" \in DOMAIN c => c["end"] \in Days

TypeOK ==
    /\ now \in 1..MaxDay
    /\ tenant \in Tenants
    /\ invoice \in [Invoices -> [status : InvoiceStatuses, end : Days]]
    /\ payment \in [Payments -> {None} \cup [of : Invoices, status : {"pending", "approved", "rejected", "refunded"}]]
    /\ handler \in [Handlers -> {None} \cup [of : Invoices, status : {"pending", "approved", "rejected", "refunded"}]]
    /\ DOMAIN update = Handlers
    /\ \A h \in Handlers : update[h] # None =>
          /\ handler[h] # None
          /\ update[h].status \in InvoiceStatuses \cup {"same"}
          /\ update[h].lost \subseteq {"live", "blocked"}
          /\ update[h] = [row |-> update[h].row, status |-> update[h].status, lost |-> update[h].lost]
          /\ Columns(update[h].row)
    /\ sweep # None => Columns(sweep) /\ "end" \notin DOMAIN sweep
    /\ hands \in 0..MaxHands
    /\ approved \subseteq Invoices
    /\ excuse \in {"none", "hand", "race"}

\* register_tenant: a trial, or nothing until the first payment.
Registered(pay, unlimited) ==
    [live |-> ~pay, sub |-> IF pay THEN "pending_payment" ELSE "trial", end |-> 0,
     trial |-> IF ~pay /\ TrialDays > 0 THEN now + TrialDays ELSE 0,
     blocked |-> FALSE, trash |-> FALSE, was |-> FALSE, unlimited |-> unlimited, gone |-> FALSE]

\* By the client itself, or by a super administrator (add_tenant), who may also free it of payment.
Init ==
    /\ now = 1
    /\ \E pay, unlimited \in BOOLEAN : tenant = Registered(pay, unlimited)
    /\ invoice = [i \in Invoices |-> [status |-> "none", end |-> 0]]
    /\ payment = [p \in Payments |-> None]
    /\ handler = [h \in Handlers |-> None] /\ update = [h \in Handlers |-> None]
    /\ sweep = None /\ hands = 0 /\ approved = {}
    /\ excuse = IF tenant.live THEN "none" ELSE "hand"

-----------------------------------------------------------------------------
(* Invoices and payments. *)

\* create_checkout_for_plan: the period starts with the checkout, not with the payment.
Checkout(i) ==
    /\ ~tenant.gone /\ invoice[i].status = "none" /\ (i > 1 => invoice[i - 1].status # "none")
    /\ invoice' = [invoice EXCEPT ![i] = [status |-> "pending", end |-> now + Period]]
    /\ UNCHANGED <<hands, now, tenant, payment, handler, update, sweep, approved, excuse>>

\* create_checkout_for_existing_invoice
CheckoutAgain(i) ==
    /\ ~tenant.gone /\ invoice[i].status \notin {"none", "paid"}
    /\ invoice' = [invoice EXCEPT ![i].status = "pending"]
    /\ UNCHANGED <<hands, now, tenant, payment, handler, update, sweep, approved, excuse>>

\* The client tries to pay; an invoice may see several attempts.
Attempt(p, i) ==
    /\ payment[p] = None /\ (p > 1 => payment[p - 1] # None) /\ invoice[i].status = "pending"
    /\ payment' = [payment EXCEPT ![p] = [of |-> i, status |-> "pending"]]
    /\ UNCHANGED <<hands, now, tenant, invoice, handler, update, sweep, approved, excuse>>

Settle(p) ==
    /\ payment[p] # None
    /\ \/ /\ payment[p].status = "pending"
          /\ \E s \in {"approved", "rejected"} :
                /\ payment' = [payment EXCEPT ![p].status = s]
                /\ approved' = IF s = "approved" THEN approved \cup {payment[p].of} ELSE approved
       \/ /\ payment[p].status = "approved"
          /\ payment' = [payment EXCEPT ![p].status = "refunded"]
          /\ UNCHANGED approved
    /\ UNCHANGED <<hands, now, tenant, invoice, handler, update, sweep, excuse>>

\* A notification or a return of the browser, any number of times: get_payment comes before the transaction.
Fetch(h, p) ==
    /\ handler[h] = None /\ payment[p] # None
    /\ handler' = [handler EXCEPT ![h] = payment[p]]
    /\ UNCHANGED <<hands, now, tenant, invoice, payment, update, sweep, approved, excuse>>

\* Faulty variant: what is not yet decided counts as paid.
InvoiceStatusEager(s) ==
    CASE s \in {"approved", "pending"} -> "paid" [] s = "refunded" -> "cancelled" [] OTHER -> "failed"

\* _invoice_status_from_payment_status
InvoiceStatus(s) ==
    CASE s = "approved" -> "paid" [] s = "pending" -> "pending" [] s = "refunded" -> "cancelled" [] OTHER -> "failed"

\* _activate_subscription
Activated(end) == [tenant EXCEPT !.sub = "active", !.end = end, !.live = TRUE, !.blocked = FALSE]

\* What the answer makes of the client.
Answered(status, end) ==
    CASE status = "paid" -> Activated(end)
      [] status \in {"failed", "cancelled"} -> [tenant EXCEPT !.sub = "past_due"]
      [] OTHER -> tenant

\* process_mercadopago_payment reads the invoice and the client ...
Load(h) ==
    LET i == handler[h].of
        status == InvoiceStatus(handler[h].status) IN
    /\ handler[h] # None /\ update[h] = None /\ ~tenant.gone
    /\ update' = [update EXCEPT ![h] = [row |-> Changed(tenant, Answered(status, invoice[i].end)),
                                       status |-> IF status = invoice[i].status THEN "same" ELSE status,
                                       lost |-> {}]]
    /\ UNCHANGED <<hands, now, tenant, invoice, payment, handler, sweep, approved, excuse>>

\* ... and commits what it changed: of each column the last to write it wins.
Commit(h) ==
    /\ update[h] # None /\ ~tenant.gone
    /\ update' = [update EXCEPT ![h] = None] /\ handler' = [handler EXCEPT ![h] = None]
    /\ invoice' = [invoice EXCEPT ![handler[h].of].status = IF update[h].status = "same" THEN @ ELSE update[h].status]
    /\ tenant' = Written(tenant, update[h].row)
    /\ excuse' = IF InvoiceStatus(handler[h].status) # "paid" THEN excuse
                 ELSE IF "live" \in update[h].lost \/ (sweep # None /\ "live" \in DOMAIN sweep) THEN "race" ELSE "none"
    /\ UNCHANGED <<hands, now, payment, sweep, approved>>

\* The invoice is gone, or anything raises and the transaction is rolled back:
\* the answer is 200 and Mercado Pago does not ask again.
NotProcessed(h) ==
    /\ handler[h] # None
    /\ handler' = [handler EXCEPT ![h] = None] /\ update' = [update EXCEPT ![h] = None]
    /\ UNCHANGED <<hands, now, tenant, invoice, payment, sweep, approved, excuse>>

\* Another transaction writes columns of the client under the handlers that have read it (history).
Under(columns) ==
    [h \in Handlers |-> IF update[h] = None THEN None
                       ELSE [update[h] EXCEPT !.lost = @ \cup (columns \cap {"live", "blocked"})]]

-----------------------------------------------------------------------------
(* The policy. *)

\* Faulty variant: a trial date, once set, is the due date.
DueAtTrial(t) == IF t.trial # 0 THEN t.trial ELSE t.end

\* resolve_due_at
DueAt(t) == IF t.end # 0 THEN t.end ELSE t.trial

\* evaluate_tenant
Overdue(t) == DueAt(t) # 0 /\ now > DueAt(t)

\* The day that begins at the due date is the first overdue one.
ShouldBlock(t) == Overdue(t) /\ now - DueAt(t) > Grace

\* Faulty variant: only subscriptions that are not canceled yet are closed.
EnforcedOpen(t) ==
    IF ShouldBlock(t) THEN IF t.sub # "canceled" THEN [t EXCEPT !.live = FALSE, !.sub = "canceled", !.blocked = TRUE] ELSE t
    ELSE IF Overdue(t) THEN IF t.sub \in {"active", "trial"} THEN [t EXCEPT !.sub = "past_due"] ELSE t
    ELSE IF t.live THEN [t EXCEPT !.blocked = FALSE] ELSE t

\* What the policy makes of a row.
Enforced(t) ==
    IF ShouldBlock(t) THEN [t EXCEPT !.live = FALSE, !.sub = "canceled", !.blocked = TRUE]
    ELSE IF Overdue(t) THEN IF t.sub \in {"active", "trial"} THEN [t EXCEPT !.sub = "past_due"] ELSE t
    ELSE IF t.live THEN [t EXCEPT !.blocked = FALSE] ELSE t

\* enforce_access_policy loads the clients and decides on each ...
EnforceRead ==
    /\ sweep = None /\ ~tenant.gone /\ ~tenant.unlimited /\ ~tenant.trash
    /\ sweep' = Changed(tenant, Enforced(tenant))
    /\ UNCHANGED <<hands, now, tenant, invoice, payment, handler, update, approved, excuse>>

\* ... and commits at the end, of each row the columns it changed.
EnforceCommit ==
    /\ sweep # None
    /\ sweep' = None
    /\ tenant' = IF tenant.gone THEN tenant ELSE Written(tenant, sweep)
    /\ update' = Under(DOMAIN sweep)
    /\ UNCHANGED <<hands, now, invoice, payment, handler, approved, excuse>>

\* The sweep takes seconds, and so does the transaction of a payment.
DayPasses ==
    /\ now < MaxDay /\ sweep = None /\ \A h \in Handlers : update[h] = None
    /\ now' = now + 1
    /\ UNCHANGED <<hands, tenant, invoice, payment, handler, update, sweep, approved, excuse>>

-----------------------------------------------------------------------------
(* The super administrators. *)

Hand == hands < MaxHands /\ hands' = hands + 1

ByHand(t) ==
    /\ Hand
    /\ tenant' = t
    /\ update' = Under(DOMAIN Changed(tenant, t))
    /\ excuse' = IF t.live THEN excuse ELSE "hand"
    /\ UNCHANGED <<now, invoice, payment, handler, sweep, approved>>

Toggle ==
    /\ ~tenant.gone /\ ~tenant.trash
    /\ ByHand([tenant EXCEPT !.live = ~@])

\* edit_tenant
Edit ==
    /\ ~tenant.gone /\ ~tenant.trash
    /\ \E f \in Forms : ByHand([tenant EXCEPT !.live = f.live, !.sub = f.sub, !.unlimited = f.unlimited])

Trash ==
    /\ ~tenant.gone /\ ~tenant.trash
    /\ ByHand([tenant EXCEPT !.was = tenant.live, !.live = FALSE, !.trash = TRUE])

\* Faulty variant: restored as it was.
RestoreAsWas ==
    /\ ~tenant.gone /\ tenant.trash
    /\ ByHand([tenant EXCEPT !.live = tenant.was, !.trash = FALSE, !.was = FALSE])

Restore ==
    /\ ~tenant.gone /\ tenant.trash
    /\ ByHand([tenant EXCEPT !.live = tenant.was /\ ~tenant.blocked /\ tenant.sub \notin {"pending_payment", "canceled"},
                             !.trash = FALSE, !.was = FALSE])

\* purge_tenant removes the row and its invoices: what is left stands for no client.
Removed == [live |-> FALSE, sub |-> "canceled", end |-> 0, trial |-> 0, blocked |-> FALSE,
            trash |-> FALSE, was |-> FALSE, unlimited |-> FALSE, gone |-> TRUE]

Purge ==
    /\ ~tenant.gone /\ tenant.trash /\ Hand
    /\ tenant' = Removed
    /\ invoice' = [i \in Invoices |-> [status |-> "none", end |-> 0]]
    /\ excuse' = "none"
    /\ UNCHANGED <<now, payment, handler, update, sweep, approved>>

Pays == \/ \E i \in Invoices : Checkout(i) \/ CheckoutAgain(i) \/ \E p \in Payments : Attempt(p, i)
        \/ \E p \in Payments : Settle(p) \/ \E h \in Handlers : Fetch(h, p)

Next ==
    \/ Pays
    \/ \E h \in Handlers : Load(h) \/ Commit(h) \/ NotProcessed(h)
    \/ EnforceRead \/ EnforceCommit \/ DayPasses
    \/ Toggle \/ Edit \/ Trash \/ Restore \/ Purge

Spec == Init /\ [][Next]_vars

\* Beat starts the policy every hour.
FairSpec == Spec /\ WF_vars(EnforceRead) /\ WF_vars(EnforceCommit)

-----------------------------------------------------------------------------
\* A client whose paid period has not ended is open, unless a hand closed it or
\* its last payment raced the closing of it: the policy had decided to close it
\* and committed after the payment, or it was closed (by the policy or by hand)
\* between the read and the commit of the payment, which then writes no is_active.
PaidStaysOpen ==
    tenant.end >= now /\ ~tenant.trash /\ excuse = "none" => tenant.live

\* The period of a client is always that of an invoice that was paid once: no
\* notification, late, doubled or out of order, extends it otherwise.
PeriodWasPaid ==
    tenant.end # 0 => \E i \in approved : invoice[i].end = tenant.end

\* A client the policy blocked is opened again by a payment or by the switch of
\* a super administrator, not by the policy and not by leaving the trash. The
\* payment gives it a period paid for and takes the mark of the policy, unless
\* the policy set that mark after the payment had read the client.
BlockedStaysShut ==
    [][tenant.blocked /\ ~tenant.live /\ tenant'.live =>
        \/ \E h \in Handlers : /\ update[h] # None
                              /\ tenant'.blocked => "blocked" \in update[h].lost
                              /\ tenant'.end \in {invoice[i].end : i \in approved}
        \/ hands' # hands /\ ~tenant.trash]_vars

\* An open client past its grace does not stay open: it is closed, unless the
\* super administrators change it or it pays.
OverdueCloses ==
    []<>~(tenant.live /\ ShouldBlock(tenant) /\ ~tenant.unlimited /\ ~tenant.trash)
=============================================================================
