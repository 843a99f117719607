---------------------------- MODULE BillingProofs ----------------------------
(***************************************************************************)
(* The life of a client for any number of invoices, payments and handlers, *)
(* any periods and any forms.                                              *)
(***************************************************************************)
EXTENDS TenantBilling, TLAPS

LEMMA DayFacts ==
    /\ 1 .. MaxDay \subseteq Days /\ 0 \in Days
    /\ \A d \in 1 .. MaxDay : d + Period \in Days /\ d + TrialDays \in Days
  BY DaysAssumption DEF Days

\* A row of a client with columns of a transaction written to it.
LEMMA WrittenRow ==
    ASSUME tenant \in Tenants, NEW c, Columns(c)
    PROVE  /\ Written(tenant, c) \in Tenants
           /\ \A f \in {"trial", "trash", "was", "unlimited", "gone"} : Written(tenant, c)[f] = tenant[f]
           /\ \A f \in {"live", "sub", "end", "blocked"} :
                 Written(tenant, c)[f] = IF f \in DOMAIN c THEN c[f] ELSE tenant[f]
<1> DEFINE w == Written(tenant, c)
<1>1. DOMAIN tenant = {"live", "sub", "end", "trial", "blocked", "trash", "was", "unlimited", "gone"}
  BY DEF Tenants
<1>2. w = [f \in DOMAIN tenant |-> IF f \in DOMAIN c THEN c[f] ELSE tenant[f]]
  BY DEF Written
<1>3. \A f \in {"trial", "trash", "was", "unlimited", "gone"} : w[f] = tenant[f]
  BY <1>1, <1>2 DEF Columns
<1>4. \A f \in {"live", "sub", "end", "blocked"} : w[f] = IF f \in DOMAIN c THEN c[f] ELSE tenant[f]
  BY <1>1, <1>2
<1>5. w["live"] \in BOOLEAN /\ w["blocked"] \in BOOLEAN
  <2>1. tenant["live"] \in BOOLEAN /\ tenant["blocked"] \in BOOLEAN
    BY DEF Tenants
  <2>2. \A f \in DOMAIN c \cap {"live", "blocked"} : c[f] \in BOOLEAN
    BY DEF Columns
  <2>3. w["live"] = (IF "live" \in DOMAIN c THEN c["live"] ELSE tenant["live"])
    BY <1>4
  <2>4. w["blocked"] = (IF "blocked" \in DOMAIN c THEN c["blocked"] ELSE tenant["blocked"])
    BY <1>4
  <2> HIDE DEF w
  <2> QED
    BY <2>1, <2>2, <2>3, <2>4, Zenon
<1>6. w["sub"] \in Statuses /\ w["end"] \in Days
  BY <1>4 DEF Columns, Tenants
<1>7. w = [live |-> w["live"], sub |-> w["sub"], end |-> w["end"], trial |-> tenant["trial"],
           blocked |-> w["blocked"], trash |-> tenant["trash"], was |-> tenant["was"],
           unlimited |-> tenant["unlimited"], gone |-> tenant["gone"]]
  BY <1>1, <1>2, <1>3
<1>8. w \in Tenants
  BY <1>5, <1>6, <1>7 DEF Tenants
<1> QED
  BY <1>3, <1>4, <1>8

\* The columns in which two rows of clients differ.
LEMMA ChangedColumns ==
    ASSUME tenant \in Tenants, NEW t \in Tenants,
           \A f \in {"trial", "trash", "was", "unlimited", "gone"} : t[f] = tenant[f]
    PROVE  /\ Columns(Changed(tenant, t))
           /\ \A f \in {"live", "sub", "end", "blocked"} :
                 /\ f \in DOMAIN Changed(tenant, t) <=> t[f] # tenant[f]
                 /\ f \in DOMAIN Changed(tenant, t) => Changed(tenant, t)[f] = t[f]
<1> DEFINE c == Changed(tenant, t)
<1>1. DOMAIN tenant = {"live", "sub", "end", "trial", "blocked", "trash", "was", "unlimited", "gone"}
  BY DEF Tenants
<1>2. c = [f \in {f \in DOMAIN tenant : t[f] # tenant[f]} |-> t[f]]
  BY DEF Changed
<1>3. DOMAIN c = {f \in DOMAIN tenant : t[f] # tenant[f]} /\ \A f \in DOMAIN c : c[f] = t[f]
  BY <1>2
<1>4. DOMAIN c \subseteq {"live", "sub", "end", "blocked"}
  BY <1>1, <1>3
<1>5. \A f \in DOMAIN c \cap {"live", "blocked"} : c[f] \in BOOLEAN
  <2>1. t["live"] \in BOOLEAN /\ t["blocked"] \in BOOLEAN
    BY DEF Tenants
  <2> HIDE DEF c
  <2> QED
    BY <1>3, <2>1, Zenon
<1>6. t["sub"] \in Statuses /\ t["end"] \in Days
  BY DEF Tenants
<1>7. Columns(c)
  BY <1>3, <1>4, <1>5, <1>6 DEF Columns
<1> QED
  BY <1>1, <1>3, <1>7

\* Marking what was written under the handlers keeps everything else of them.
LEMMA UnderKeeps ==
    ASSUME TypeOK, NEW cols, NEW h \in Handlers
    PROVE  /\ DOMAIN Under(cols) = Handlers
           /\ Under(cols)[h] = None <=> update[h] = None
           /\ update[h] # None => /\ Under(cols)[h].row = update[h].row
                                 /\ Under(cols)[h].status = update[h].status
                                 /\ Under(cols)[h].lost = update[h].lost \cup (cols \cap {"live", "blocked"})
                                 /\ Under(cols)[h] = [row |-> update[h].row, status |-> update[h].status,
                                                     lost |-> update[h].lost \cup (cols \cap {"live", "blocked"})]
<1>1. update[h] # None =>
          update[h] = [row |-> update[h].row, status |-> update[h].status, lost |-> update[h].lost]
  BY DEF TypeOK
<1>2. Under(cols)[h] = IF update[h] = None THEN None
                       ELSE [update[h] EXCEPT !.lost = @ \cup (cols \cap {"live", "blocked"})]
  BY DEF Under
<1>3. update[h] # None =>
          Under(cols)[h] = [row |-> update[h].row, status |-> update[h].status,
                            lost |-> update[h].lost \cup (cols \cap {"live", "blocked"})]
  BY <1>1, <1>2
<1>4. update[h] # None => Under(cols)[h] # None
  BY <1>3 DEF None
<1> QED
  BY <1>2, <1>3, <1>4 DEF Under

LEMMA UnderMoves ==
    ASSUME TypeOK, NEW cols, update' = Under(cols), NEW g \in Handlers, update'[g] # None
    PROVE  /\ update[g] # None
           /\ update'[g].row = update[g].row /\ update'[g].status = update[g].status
           /\ update'[g].lost = update[g].lost \cup (cols \cap {"live", "blocked"})
<1>1. Under(cols)[g] # None
  OBVIOUS
<1>2. update[g] # None
  BY <1>1, UnderKeeps
<1>3. /\ Under(cols)[g].row = update[g].row /\ Under(cols)[g].status = update[g].status
      /\ Under(cols)[g].lost = update[g].lost \cup (cols \cap {"live", "blocked"})
      /\ Under(cols)[g] = [row |-> update[g].row, status |-> update[g].status,
                          lost |-> update[g].lost \cup (cols \cap {"live", "blocked"})]
  BY <1>2, UnderKeeps
<1> QED
  BY <1>2, <1>3

\* The types of the updates in flight.
UpdatesOK(u, at) ==
    /\ DOMAIN u = Handlers
    /\ \A h \in Handlers : u[h] # None =>
          /\ at[h] # None
          /\ u[h].status \in InvoiceStatuses \cup {"same"}
          /\ u[h].lost \subseteq {"live", "blocked"}
          /\ u[h] = [row |-> u[h].row, status |-> u[h].status, lost |-> u[h].lost]
          /\ Columns(u[h].row)

LEMMA UnderTyped == ASSUME TypeOK, NEW cols PROVE UpdatesOK(Under(cols), handler)
<1> SUFFICES ASSUME NEW h \in Handlers, Under(cols)[h] # None
             PROVE  /\ handler[h] # None
                    /\ Under(cols)[h].status \in InvoiceStatuses \cup {"same"}
                    /\ Under(cols)[h].lost \subseteq {"live", "blocked"}
                    /\ Under(cols)[h] = [row |-> Under(cols)[h].row, status |-> Under(cols)[h].status,
                                        lost |-> Under(cols)[h].lost]
                    /\ Columns(Under(cols)[h].row)
  BY DEF UpdatesOK, Under
<1>1. update[h] # None
  BY UnderKeeps
<1>2. /\ handler[h] # None /\ update[h].status \in InvoiceStatuses \cup {"same"}
      /\ update[h].lost \subseteq {"live", "blocked"} /\ Columns(update[h].row)
  BY <1>1 DEF TypeOK
<1>3. /\ Under(cols)[h].row = update[h].row /\ Under(cols)[h].status = update[h].status
      /\ Under(cols)[h].lost = update[h].lost \cup (cols \cap {"live", "blocked"})
      /\ Under(cols)[h] = [row |-> update[h].row, status |-> update[h].status,
                          lost |-> update[h].lost \cup (cols \cap {"live", "blocked"})]
  BY <1>1, UnderKeeps
<1>4. Under(cols)[h].lost \subseteq {"live", "blocked"}
  BY <1>2, <1>3
<1>5. Under(cols)[h] = [row |-> Under(cols)[h].row, status |-> Under(cols)[h].status, lost |-> Under(cols)[h].lost]
  BY <1>3
<1> QED
  BY <1>2, <1>3, <1>4, <1>5

LEMMA BillingInit == Init => TypeOK
<1> SUFFICES ASSUME Init PROVE TypeOK
  OBVIOUS
<1>1. now \in 1 .. MaxDay
  BY DaysAssumption DEF Init
<1>2. tenant \in Tenants
  <2>1. PICK pay \in BOOLEAN, unlimited \in BOOLEAN : tenant = Registered(pay, unlimited)
    BY DEF Init
  <2>2. (IF ~pay /\ TrialDays > 0 THEN now + TrialDays ELSE 0) \in Days
    BY <1>1, DayFacts
  <2> QED
    BY <2>1, <2>2, DayFacts DEF Registered, Tenants, Statuses
<1>3. /\ invoice \in [Invoices -> [status : InvoiceStatuses, end : Days]]
      /\ hands \in 0 .. MaxHands
  BY DayFacts, HandsAssumption DEF Init, InvoiceStatuses
<1> QED
  BY <1>1, <1>2, <1>3 DEF Init, TypeOK

\* What an answer makes of the client is a client that differs in what is billed.
LEMMA AnsweredTyped ==
    ASSUME tenant \in Tenants, NEW status, NEW end \in Days
    PROVE  /\ Answered(status, end) \in Tenants
           /\ \A f \in {"trial", "trash", "was", "unlimited", "gone"} : Answered(status, end)[f] = tenant[f]
  BY DEF Answered, Activated, Tenants, Statuses

LEMMA EnforcedTyped ==
    ASSUME tenant \in Tenants
    PROVE  /\ Enforced(tenant) \in Tenants
           /\ \A f \in {"end", "trial", "trash", "was", "unlimited", "gone"} : Enforced(tenant)[f] = tenant[f]
  BY DEF Enforced, Tenants, Statuses

LEMMA BillingKept == TypeOK /\ [Next]_vars => TypeOK'
<1> SUFFICES ASSUME TypeOK, [Next]_vars PROVE TypeOK'
  OBVIOUS
<1> USE DEF TypeOK
<1>1. ASSUME NEW i \in Invoices, Checkout(i) PROVE TypeOK'
  <2>1. invoice' \in [Invoices -> [status : InvoiceStatuses, end : Days]]
    BY <1>1, DayFacts DEF Checkout, InvoiceStatuses
  <2> QED
    BY <1>1, <2>1 DEF Checkout
<1>2. ASSUME NEW i \in Invoices, CheckoutAgain(i) PROVE TypeOK'
  <2>1. invoice' \in [Invoices -> [status : InvoiceStatuses, end : Days]]
    BY <1>2 DEF CheckoutAgain, InvoiceStatuses
  <2> QED
    BY <1>2, <2>1 DEF CheckoutAgain
<1>3. ASSUME NEW i \in Invoices, NEW p \in Payments, Attempt(p, i) PROVE TypeOK'
  BY <1>3 DEF Attempt
<1>4. ASSUME NEW p \in Payments, Settle(p) PROVE TypeOK'
  BY <1>4 DEF Settle
<1>5. ASSUME NEW p \in Payments, NEW h \in Handlers, Fetch(h, p) PROVE TypeOK'
  BY <1>5 DEF Fetch
<1>6. ASSUME NEW h \in Handlers, Load(h) PROVE TypeOK'
  <2> DEFINE i == handler[h].of
             status == InvoiceStatus(handler[h].status)
             row == Changed(tenant, Answered(status, invoice[i].end))
  <2>1. i \in Invoices /\ status \in InvoiceStatuses
    BY <1>6 DEF Load, InvoiceStatus, InvoiceStatuses
  <2>2. invoice[i].end \in Days
    BY <2>1
  <2>3. Columns(row)
    BY <2>2, AnsweredTyped, ChangedColumns
  <2>4. update' = [update EXCEPT ![h] = [row |-> row, status |-> IF status = invoice[i].status THEN "same" ELSE status,
                                         lost |-> {}]]
    BY <1>6 DEF Load
  <2>5. UpdatesOK(update', handler')
    <3> HIDE DEF row, status, i
    <3>1. handler' = handler /\ handler[h] # None
      BY <1>6 DEF Load
    <3> SUFFICES ASSUME NEW g \in Handlers, update'[g] # None
                 PROVE  /\ handler'[g] # None
                        /\ update'[g].status \in InvoiceStatuses \cup {"same"}
                        /\ update'[g].lost \subseteq {"live", "blocked"}
                        /\ update'[g] = [row |-> update'[g].row, status |-> update'[g].status, lost |-> update'[g].lost]
                        /\ Columns(update'[g].row)
      BY <2>4 DEF UpdatesOK
    <3>2. CASE g = h
      BY <2>1, <2>3, <2>4, <3>1, <3>2
    <3>3. CASE g # h
      BY <2>4, <3>1, <3>3
    <3> QED
      BY <3>2, <3>3
  <2> QED
    BY <1>6, <2>5 DEF Load, UpdatesOK
<1>61. ASSUME NEW h \in Handlers, Commit(h) PROVE TypeOK'
  <2> DEFINE i == handler[h].of
  <2>1. i \in Invoices /\ update[h].status \in InvoiceStatuses \cup {"same"} /\ Columns(update[h].row)
    BY <1>61 DEF Commit
  <2>2. tenant' \in Tenants
    BY <1>61, <2>1, WrittenRow DEF Commit
  <2>3. invoice' \in [Invoices -> [status : InvoiceStatuses, end : Days]]
    BY <1>61, <2>1 DEF Commit
  <2>4. handler' \in [Handlers -> {None} \cup [of : Invoices, status : {"pending", "approved", "rejected", "refunded"}]]
    BY <1>61 DEF Commit
  <2>5. excuse' \in {"none", "hand", "race"}
    BY <1>61 DEF Commit
  <2>6. UpdatesOK(update', handler')
    BY <1>61 DEF Commit, UpdatesOK
  <2> QED
    BY <1>61, <2>2, <2>3, <2>4, <2>5, <2>6 DEF Commit, UpdatesOK
<1>7. ASSUME NEW h \in Handlers, NotProcessed(h) PROVE TypeOK'
  <2>1. UpdatesOK(update', handler')
    BY <1>7 DEF NotProcessed, UpdatesOK
  <2> QED
    BY <1>7, <2>1 DEF NotProcessed, UpdatesOK
<1>8. ASSUME EnforceRead PROVE TypeOK'
  <2>1. sweep' = Changed(tenant, Enforced(tenant))
    BY <1>8 DEF EnforceRead
  <2>2. Columns(sweep') /\ "end" \notin DOMAIN sweep'
    BY <2>1, EnforcedTyped, ChangedColumns
  <2> QED
    BY <1>8, <2>2 DEF EnforceRead
<1>9. ASSUME EnforceCommit PROVE TypeOK'
  <2>1. tenant' \in Tenants
    BY <1>9, WrittenRow DEF EnforceCommit
  <2>2. UpdatesOK(update', handler')
    BY <1>9, UnderTyped DEF EnforceCommit
  <2> QED
    BY <1>9, <2>1, <2>2 DEF EnforceCommit, UpdatesOK
<1>10. ASSUME DayPasses PROVE TypeOK'
  BY <1>10, DaysAssumption DEF DayPasses
<1>11. ASSUME NEW t \in Tenants, ByHand(t) PROVE TypeOK'
  <2>1. UpdatesOK(update', handler')
    BY <1>11, UnderTyped DEF ByHand
  <2> QED
    BY <1>11, <2>1, HandsAssumption DEF ByHand, Hand, UpdatesOK
<1>12. ASSUME Toggle PROVE TypeOK'
  BY <1>11, <1>12 DEF Toggle, Tenants
<1>13. ASSUME Edit PROVE TypeOK'
  BY <1>11, <1>13, FormsAssumption DEF Edit, Tenants
<1>14. ASSUME Trash PROVE TypeOK'
  BY <1>11, <1>14 DEF Trash, Tenants
<1>15. ASSUME Restore PROVE TypeOK'
  <2> DEFINE live == tenant.was /\ ~tenant.blocked /\ tenant.sub \notin {"pending_payment", "canceled"}
             t == [tenant EXCEPT !.live = live, !.trash = FALSE, !.was = FALSE]
  <2>1. live \in BOOLEAN
    BY Zenon
  <2>2. t \in Tenants
    <3> HIDE DEF live
    <3> QED
      BY <2>1 DEF Tenants
  <2>3. ByHand(t)
    BY <1>15 DEF Restore
  <2> QED
    BY <1>11, <2>2, <2>3
<1>16. ASSUME Purge PROVE TypeOK'
  <2>1. tenant' \in Tenants
    BY <1>16, DayFacts DEF Purge, Removed, Tenants, Statuses
  <2>2. invoice' \in [Invoices -> [status : InvoiceStatuses, end : Days]]
    BY <1>16, DayFacts DEF Purge, InvoiceStatuses
  <2>3. hands' \in 0 .. MaxHands
    BY <1>16, HandsAssumption DEF Purge, Hand
  <2> QED
    BY <1>16, <2>1, <2>2, <2>3 DEF Purge
<1>17. ASSUME UNCHANGED vars PROVE TypeOK'
  BY <1>17 DEF vars
<1> QED
  BY <1>1, <1>2, <1>3, <1>4, <1>5, <1>6, <1>61, <1>7, <1>8, <1>9, <1>10, <1>12, <1>13, <1>14, <1>15, <1>16, <1>17 DEF Next, Pays

\* Every reachable state has the declared types.
THEOREM BillingTypes == Spec => []TypeOK
  BY BillingInit, BillingKept, PTL DEF Spec

-----------------------------------------------------------------------------
(* What extends a subscription. *)

\* What was settled once as paid is remembered, and so is what a handler read.
PaidKnown ==
    /\ \A p \in Payments : payment[p] # None /\ payment[p].status \in {"approved", "refunded"} => payment[p].of \in approved
    /\ \A h \in Handlers : handler[h] # None /\ handler[h].status = "approved" => handler[h].of \in approved

\* While the client is there, an invoice somebody tried to pay stays checked
\* out, so no later checkout gives it another period.
InvoiceKept ==
    ~tenant.gone =>
        /\ \A p \in Payments : payment[p] # None => invoice[payment[p].of].status # "none"
        /\ \A h \in Handlers : handler[h] # None => invoice[handler[h].of].status # "none"
        /\ \A i \in approved : invoice[i].status # "none"
        /\ \A i \in Invoices : invoice[i].status # "none" => invoice[i].end # 0

Paid(h) == InvoiceStatus(handler[h].status) = "paid"

\* What a handler has read and not yet written stays right until its commit: it
\* writes no period but that of its paid invoice, closes and marks nobody, and
\* leaves a paid client open and unmarked unless somebody closed it meanwhile.
UpdateInv(h) ==
    ~tenant.gone /\ update[h] # None =>
        /\ update[h].status # "none"
        /\ "end" \in DOMAIN update[h].row => Paid(h) /\ update[h].row["end"] = invoice[handler[h].of].end
        /\ "live" \in DOMAIN update[h].row => Paid(h) /\ update[h].row["live"]
        /\ "blocked" \in DOMAIN update[h].row => ~update[h].row["blocked"]
        /\ Paid(h) => /\ "end" \in DOMAIN update[h].row \/ tenant.end # 0
                      /\ "live" \in DOMAIN update[h].row \/ tenant.live \/ "live" \in update[h].lost
                      /\ "blocked" \in DOMAIN update[h].row \/ ~tenant.blocked \/ "blocked" \in update[h].lost

PaidInv == PaidKnown /\ InvoiceKept /\ PeriodWasPaid /\ \A h \in Handlers : UpdateInv(h)

LEMMA PaidInit == Init => PaidInv
  BY DEF Init, Registered, PaidInv, PaidKnown, InvoiceKept, PeriodWasPaid, UpdateInv

\* What a commit of a handler makes of the client.
LEMMA CommitFacts ==
    ASSUME TypeOK, NEW h \in Handlers, Commit(h)
    PROVE  /\ tenant.gone = FALSE /\ tenant'.gone = FALSE /\ tenant'.trash = tenant.trash
           /\ tenant'.live = IF "live" \in DOMAIN update[h].row THEN update[h].row["live"] ELSE tenant.live
           /\ tenant'.end = IF "end" \in DOMAIN update[h].row THEN update[h].row["end"] ELSE tenant.end
           /\ tenant'.blocked = IF "blocked" \in DOMAIN update[h].row THEN update[h].row["blocked"] ELSE tenant.blocked
           /\ update'[h] = None /\ handler'[h] = None
           /\ \A g \in Handlers \ {h} : update'[g] = update[g] /\ handler'[g] = handler[g]
<1>1. tenant' = Written(tenant, update[h].row) /\ Columns(update[h].row) /\ tenant \in Tenants /\ ~tenant.gone
  BY DEF Commit, TypeOK
<1>2. tenant.gone = FALSE
  BY <1>1 DEF Tenants
<1>3. /\ update' = [update EXCEPT ![h] = None] /\ DOMAIN update = Handlers
      /\ handler' = [handler EXCEPT ![h] = None] /\ DOMAIN handler = Handlers
  BY DEF Commit, TypeOK
<1> QED
  BY <1>1, <1>2, <1>3, WrittenRow

\* What a commit of the policy makes of the client.
LEMMA PolicyFacts ==
    ASSUME TypeOK, EnforceCommit
    PROVE  /\ tenant'.end = tenant.end /\ tenant'.gone = tenant.gone /\ tenant'.trash = tenant.trash
           /\ tenant'.live = tenant.live \/ ("live" \in DOMAIN sweep /\ tenant'.live = sweep["live"])
           /\ tenant'.blocked = tenant.blocked \/ "blocked" \in DOMAIN sweep
<1>1. Columns(sweep) /\ "end" \notin DOMAIN sweep /\ tenant \in Tenants
  BY DEF TypeOK, EnforceCommit
<1>2. CASE tenant.gone
  BY <1>2 DEF EnforceCommit
<1>3. CASE ~tenant.gone
  BY <1>1, <1>3, WrittenRow DEF EnforceCommit
<1> QED
  BY <1>2, <1>3

\* What a handler reads.
LEMMA LoadFacts ==
    ASSUME TypeOK, NEW h \in Handlers, Load(h)
    PROVE  LET new == Answered(InvoiceStatus(handler[h].status), invoice[handler[h].of].end) IN
           /\ update'[h] # None /\ update'[h].status # "none" /\ UNCHANGED <<tenant, invoice, handler>>
           /\ \A f \in {"live", "end", "blocked"} :
                 /\ f \in DOMAIN update'[h].row <=> new[f] # tenant[f]
                 /\ f \in DOMAIN update'[h].row => update'[h].row[f] = new[f]
           /\ \A g \in Handlers \ {h} : update'[g] = update[g]
<1> DEFINE i == handler[h].of
           status == InvoiceStatus(handler[h].status)
           new == Answered(status, invoice[i].end)
<1>1. i \in Invoices /\ invoice[i].end \in Days /\ tenant \in Tenants /\ DOMAIN update = Handlers
  BY DEF Load, TypeOK
<1>2. new \in Tenants /\ \A f \in {"trial", "trash", "was", "unlimited", "gone"} : new[f] = tenant[f]
  BY <1>1, AnsweredTyped
<1>3. update' = [update EXCEPT ![h] = [row |-> Changed(tenant, new),
                                       status |-> IF status = invoice[i].status THEN "same" ELSE status,
                                       lost |-> {}]]
  BY DEF Load
<1>4. status # "none"
  BY DEF InvoiceStatus
<1> HIDE DEF new, status, i
<1>5. update'[h] = [row |-> Changed(tenant, new), status |-> IF status = invoice[i].status THEN "same" ELSE status,
                    lost |-> {}]
  BY <1>1, <1>3
<1>6. update'[h] # None /\ update'[h].status # "none" /\ update'[h].row = Changed(tenant, new)
  BY <1>4, <1>5 DEF None
<1>7. UNCHANGED <<tenant, invoice, handler>>
  BY DEF Load
<1>8. \A f \in {"live", "sub", "end", "blocked"} :
          /\ f \in DOMAIN Changed(tenant, new) <=> new[f] # tenant[f]
          /\ f \in DOMAIN Changed(tenant, new) => Changed(tenant, new)[f] = new[f]
  BY <1>1, <1>2, ChangedColumns
<1> QED
  BY <1>1, <1>3, <1>6, <1>7, <1>8 DEF new, status, i

\* A read of the client is right at first.
LEMMA LoadRight == ASSUME TypeOK, InvoiceKept, NEW h \in Handlers, Load(h) PROVE UpdateInv(h)'
<1> DEFINE new == Answered(InvoiceStatus(handler[h].status), invoice[handler[h].of].end)
<1>1. /\ update'[h].status # "none" /\ UNCHANGED <<tenant, invoice, handler>>
      /\ \A f \in {"live", "end", "blocked"} :
            /\ f \in DOMAIN update'[h].row <=> new[f] # tenant[f]
            /\ f \in DOMAIN update'[h].row => update'[h].row[f] = new[f]
  BY LoadFacts
<1>2. Paid(h) => new.live = TRUE /\ new.blocked = FALSE /\ new.end = invoice[handler[h].of].end
  BY DEF Paid, Answered, Activated, TypeOK, Tenants
<1>3. ~Paid(h) => new.live = tenant.live /\ new.blocked = tenant.blocked /\ new.end = tenant.end
  BY DEF Paid, Answered, TypeOK, Tenants
<1>4. ~tenant.gone => invoice[handler[h].of].end # 0
  BY DEF InvoiceKept, Load, TypeOK
<1>5. Paid(h)' <=> Paid(h)
  BY <1>1 DEF Paid
<1>6. tenant.live \in BOOLEAN /\ tenant.blocked \in BOOLEAN
  BY DEF TypeOK, Tenants
<1> HIDE DEF new
<1>7. "live" \in DOMAIN update'[h].row => Paid(h) /\ update'[h].row["live"]
  BY <1>1, <1>2, <1>3
<1>8. "blocked" \in DOMAIN update'[h].row => ~update'[h].row["blocked"]
  BY <1>1, <1>2, <1>3
<1>9. Paid(h) => /\ "live" \in DOMAIN update'[h].row \/ tenant.live
                 /\ "blocked" \in DOMAIN update'[h].row \/ ~tenant.blocked
  BY <1>1, <1>2, <1>6
<1>10. "end" \in DOMAIN update'[h].row => Paid(h) /\ update'[h].row["end"] = invoice[handler[h].of].end
  BY <1>1, <1>2, <1>3
<1>11. ~tenant.gone /\ Paid(h) => "end" \in DOMAIN update'[h].row \/ tenant.end # 0
  BY <1>1, <1>2, <1>4
<1> QED
  BY <1>1, <1>5, <1>7, <1>8, <1>9, <1>10, <1>11 DEF UpdateInv

\* What a handler has read stays right when others write, if it is marked.
LEMMA Carried ==
    ASSUME NEW g \in Handlers, UpdateInv(g),
           update'[g] # None =>
               /\ ~tenant'.gone => ~tenant.gone
               /\ update[g] # None /\ handler'[g] = handler[g]
               /\ update'[g].row = update[g].row /\ update'[g].status = update[g].status
               /\ update[g].lost \subseteq update'[g].lost
               /\ ~tenant.gone => invoice'[handler[g].of].end = invoice[handler[g].of].end
               /\ tenant'.end # 0 \/ tenant.end = 0
               /\ tenant'.live \/ ~tenant.live \/ "live" \in update'[g].lost
               /\ ~tenant'.blocked \/ tenant.blocked \/ "blocked" \in update'[g].lost
    PROVE  UpdateInv(g)'
  BY DEF UpdateInv, Paid

LEMMA Untouched ==
    ASSUME NEW g \in Handlers, UpdateInv(g), UNCHANGED <<tenant, update, handler>>,
           ~tenant.gone /\ update[g] # None => invoice'[handler[g].of].end = invoice[handler[g].of].end
    PROVE  UpdateInv(g)'
  BY DEF UpdateInv, Paid

\* A super administrator marks what it changes under the handlers.
LEMMA HandCarried ==
    ASSUME TypeOK, NEW g \in Handlers, UpdateInv(g), NEW t \in Tenants, ByHand(t),
           t.end = tenant.end, t.gone = tenant.gone, t.blocked = tenant.blocked
    PROVE  UpdateInv(g)'
<1>1. update' = Under(DOMAIN Changed(tenant, t)) /\ tenant' = t /\ UNCHANGED <<handler, invoice>>
  BY DEF ByHand
<1>2. t.live # tenant.live => "live" \in DOMAIN Changed(tenant, t)
  <2>1. "live" \in DOMAIN tenant
    BY DEF TypeOK, Tenants
  <2>2. DOMAIN Changed(tenant, t) = {f \in DOMAIN tenant : t[f] # tenant[f]}
    BY DEF Changed
  <2> QED
    BY <2>1, <2>2
<1>3. t.live \in BOOLEAN /\ tenant.live \in BOOLEAN /\ tenant.blocked \in BOOLEAN
  BY DEF TypeOK, Tenants
<1>4. update'[g] # None =>
          /\ update[g] # None
          /\ update'[g].row = update[g].row /\ update'[g].status = update[g].status
          /\ update'[g].lost = update[g].lost \cup (DOMAIN Changed(tenant, t) \cap {"live", "blocked"})
  BY <1>1, UnderMoves
<1>5. t.live = tenant.live \/ (update'[g] # None => "live" \in update'[g].lost)
  BY <1>2, <1>4
<1>6. tenant'.live = t.live /\ tenant'.end = tenant.end /\ tenant'.gone = tenant.gone /\ tenant'.blocked = tenant.blocked
  BY <1>1
<1>7. update'[g] # None => tenant'.live \/ ~tenant.live \/ "live" \in update'[g].lost
  BY <1>3, <1>5, <1>6
<1>8. ~tenant'.blocked \/ tenant.blocked
  BY <1>3, <1>6
<1>9. handler'[g] = handler[g] /\ invoice'[handler[g].of].end = invoice[handler[g].of].end
  BY <1>1
<1>10. update'[g] # None => update[g].lost \subseteq update'[g].lost
  BY <1>4
<1> QED
  BY <1>4, <1>6, <1>7, <1>8, <1>9, <1>10, Carried

LEMMA UpdatesKept ==
    ASSUME TypeOK, InvoiceKept, [Next]_vars, \A h \in Handlers : UpdateInv(h), NEW g \in Handlers
    PROVE  UpdateInv(g)'
<1>0. UpdateInv(g)
  OBVIOUS
<1>1. ASSUME NEW i \in Invoices, Checkout(i) PROVE UpdateInv(g)'
  <2>1. ~tenant.gone /\ update[g] # None => handler[g] # None /\ handler[g].of # i
    BY <1>1 DEF Checkout, InvoiceKept, TypeOK
  <2>2. ~tenant.gone /\ update[g] # None => invoice'[handler[g].of].end = invoice[handler[g].of].end
    BY <1>1, <2>1 DEF Checkout, TypeOK
  <2> QED
    BY <1>1, <2>2, Untouched DEF Checkout
<1>2. ASSUME NEW i \in Invoices, CheckoutAgain(i) PROVE UpdateInv(g)'
  <2>1. invoice'[handler[g].of].end = invoice[handler[g].of].end \/ update[g] = None
    BY <1>2 DEF CheckoutAgain, TypeOK
  <2> QED
    BY <1>2, <2>1, Untouched DEF CheckoutAgain
<1>3. ASSUME NEW i \in Invoices, NEW p \in Payments, Attempt(p, i) PROVE UpdateInv(g)'
  BY <1>3, Untouched DEF Attempt
<1>4. ASSUME NEW p \in Payments, Settle(p) PROVE UpdateInv(g)'
  BY <1>4, Untouched DEF Settle
<1>5. ASSUME NEW p \in Payments, NEW h \in Handlers, Fetch(h, p) PROVE UpdateInv(g)'
  <2>1. update[g] = None \/ g # h
    BY <1>5 DEF Fetch, TypeOK
  <2>2. CASE update[g] = None
    BY <1>5, <2>2 DEF Fetch, UpdateInv
  <2>3. CASE g # h
    <3>1. handler'[g] = handler[g]
      BY <1>5, <2>3 DEF Fetch, TypeOK
    <3> QED
      BY <1>5, <3>1 DEF Fetch, UpdateInv, Paid
  <2> QED
    BY <2>1, <2>2, <2>3
<1>6. ASSUME NEW h \in Handlers, Load(h) PROVE UpdateInv(g)'
  <2>1. CASE g = h
    BY <1>6, <2>1, LoadRight
  <2>2. CASE g # h
    <3>1. update'[g] = update[g] /\ UNCHANGED <<tenant, invoice, handler>>
      BY <1>6, <2>2, LoadFacts
    <3> QED
      BY <3>1 DEF UpdateInv, Paid
  <2> QED
    BY <2>1, <2>2
<1>61. ASSUME NEW h \in Handlers, Commit(h) PROVE UpdateInv(g)'
  <2>1. CASE g = h
    BY <1>61, <2>1, CommitFacts DEF UpdateInv
  <2>2. CASE g # h
    <3>1. update'[g] = update[g] /\ handler'[g] = handler[g]
      BY <1>61, <2>2, CommitFacts
    <3>2. update[g] # None => invoice'[handler[g].of].end = invoice[handler[g].of].end
      BY <1>61 DEF Commit, TypeOK
    <3>3. "end" \in DOMAIN update[h].row => update[h].row["end"] # 0
      BY <1>61 DEF Commit, UpdateInv, InvoiceKept, TypeOK
    <3>4. tenant'.end # 0 \/ tenant.end = 0
      BY <1>61, <3>3, CommitFacts
    <3>7. ~tenant.gone /\ update[h] # None
      BY <1>61 DEF Commit
    <3>8. tenant.live \in BOOLEAN /\ tenant.blocked \in BOOLEAN
      BY DEF TypeOK, Tenants
    <3>9. /\ tenant'.live = IF "live" \in DOMAIN update[h].row THEN update[h].row["live"] ELSE tenant.live
          /\ tenant'.blocked = IF "blocked" \in DOMAIN update[h].row THEN update[h].row["blocked"] ELSE tenant.blocked
      BY <1>61, CommitFacts
    <3>10. /\ "live" \in DOMAIN update[h].row => update[h].row["live"]
           /\ "blocked" \in DOMAIN update[h].row => ~update[h].row["blocked"]
      BY <1>61, <3>7 DEF UpdateInv
    <3>11. Columns(update[h].row)
      BY <3>7 DEF TypeOK
    <3>5. tenant'.live \/ ~tenant.live
      BY <3>8, <3>9, <3>10, <3>11, Zenon
    <3>6. ~tenant'.blocked \/ tenant.blocked
      BY <3>8, <3>9, <3>10, <3>11, Zenon
    <3> QED
      BY <3>1, <3>2, <3>4, <3>5, <3>6, <3>7, Carried
  <2> QED
    BY <2>1, <2>2
<1>7. ASSUME NEW h \in Handlers, NotProcessed(h) PROVE UpdateInv(g)'
  <2>1. CASE g = h
    BY <1>7, <2>1 DEF NotProcessed, TypeOK, UpdateInv
  <2>2. CASE g # h
    <3>1. update'[g] = update[g] /\ handler'[g] = handler[g]
      BY <1>7, <2>2 DEF NotProcessed, TypeOK
    <3> QED
      BY <1>7, <3>1 DEF NotProcessed, UpdateInv, Paid
  <2> QED
    BY <2>1, <2>2
<1>8. ASSUME EnforceRead PROVE UpdateInv(g)'
  BY <1>8, Untouched DEF EnforceRead
<1>9. ASSUME EnforceCommit PROVE UpdateInv(g)'
  <2>1. update' = Under(DOMAIN sweep) /\ UNCHANGED <<handler, invoice>>
    BY <1>9 DEF EnforceCommit
  <2>2. /\ tenant'.end = tenant.end /\ tenant'.gone = tenant.gone
        /\ tenant'.live = tenant.live \/ "live" \in DOMAIN sweep
        /\ tenant'.blocked = tenant.blocked \/ "blocked" \in DOMAIN sweep
    BY <1>9, PolicyFacts
  <2>3. update'[g] # None =>
            /\ update[g] # None
            /\ update'[g].row = update[g].row /\ update'[g].status = update[g].status
            /\ update'[g].lost = update[g].lost \cup (DOMAIN sweep \cap {"live", "blocked"})
    BY <2>1, UnderMoves
  <2>4. tenant.live \in BOOLEAN /\ tenant.blocked \in BOOLEAN
    BY DEF TypeOK, Tenants
  <2>5. update'[g] # None => tenant'.live \/ ~tenant.live \/ "live" \in update'[g].lost
    BY <2>2, <2>3, <2>4
  <2>6. update'[g] # None => ~tenant'.blocked \/ tenant.blocked \/ "blocked" \in update'[g].lost
    BY <2>2, <2>3, <2>4
  <2>7. update'[g] # None => update[g].lost \subseteq update'[g].lost
    BY <2>3
  <2> QED
    BY <2>1, <2>2, <2>3, <2>5, <2>6, <2>7, Carried
<1>10. ASSUME DayPasses PROVE UpdateInv(g)'
  BY <1>10, Untouched DEF DayPasses
<1>12. ASSUME Toggle PROVE UpdateInv(g)'
  BY <1>12, HandCarried DEF Toggle, TypeOK, Tenants
<1>13. ASSUME Edit PROVE UpdateInv(g)'
  BY <1>13, HandCarried, FormsAssumption DEF Edit, TypeOK, Tenants
<1>14. ASSUME Trash PROVE UpdateInv(g)'
  BY <1>14, HandCarried DEF Trash, TypeOK, Tenants
<1>15. ASSUME Restore PROVE UpdateInv(g)'
  BY <1>15, HandCarried DEF Restore, TypeOK, Tenants
<1>16. ASSUME Purge PROVE UpdateInv(g)'
  BY <1>16 DEF Purge, Removed, UpdateInv
<1>17. ASSUME UNCHANGED vars PROVE UpdateInv(g)'
  BY <1>17, Untouched DEF vars
<1> QED
  BY <1>1, <1>2, <1>3, <1>4, <1>5, <1>6, <1>61, <1>7, <1>8, <1>9, <1>10, <1>12, <1>13, <1>14, <1>15, <1>16, <1>17 DEF Next, Pays

LEMMA PaidKept == TypeOK /\ PaidInv /\ [Next]_vars => PaidInv'
<1> SUFFICES ASSUME TypeOK, PaidInv, [Next]_vars PROVE PaidInv'
  OBVIOUS
<1> DEFINE Inv == PaidKnown /\ InvoiceKept /\ PeriodWasPaid
<1>0. \A g \in Handlers : UpdateInv(g)'
  BY UpdatesKept DEF PaidInv
<1> SUFFICES Inv'
  BY <1>0 DEF PaidInv
<1> USE DEF PaidInv, PaidKnown, InvoiceKept, PeriodWasPaid
<1>1. ASSUME NEW i \in Invoices, Checkout(i) PROVE Inv'
  <2>1. /\ \A j \in Invoices \ {i} : invoice'[j] = invoice[j]
        /\ invoice[i].status = "none" /\ invoice'[i].status = "pending" /\ invoice'[i].end # 0
    BY <1>1, DaysAssumption DEF Checkout, TypeOK
  <2>2. PaidKnown' /\ PeriodWasPaid'
    BY <1>1, <2>1 DEF Checkout, TypeOK
  <2>3. InvoiceKept'
    BY <1>1, <2>1 DEF Checkout, TypeOK
  <2> QED
    BY <2>2, <2>3
<1>2. ASSUME NEW i \in Invoices, CheckoutAgain(i) PROVE Inv'
  BY <1>2 DEF CheckoutAgain, TypeOK
<1>3. ASSUME NEW i \in Invoices, NEW p \in Payments, Attempt(p, i) PROVE Inv'
  BY <1>3 DEF Attempt, TypeOK, None
<1>4. ASSUME NEW p \in Payments, Settle(p) PROVE Inv'
  BY <1>4 DEF Settle, TypeOK, None
<1>5. ASSUME NEW p \in Payments, NEW h \in Handlers, Fetch(h, p) PROVE Inv'
  BY <1>5 DEF Fetch, TypeOK
<1>6. ASSUME NEW h \in Handlers, Load(h) PROVE Inv'
  BY <1>6 DEF Load
<1>61. ASSUME NEW h \in Handlers, Commit(h) PROVE Inv'
  <2> DEFINE i == handler[h].of
  <2>1. /\ i \in Invoices /\ UpdateInv(h) /\ update[h] # None /\ update[h].status # "none" /\ handler[h] # None
        /\ ~tenant.gone
    BY <1>61 DEF Commit, UpdateInv, TypeOK
  <2>2. /\ \A j \in Invoices : invoice'[j].end = invoice[j].end
        /\ \A j \in Invoices : invoice[j].status # "none" => invoice'[j].status # "none"
        /\ invoice[i].status # "none"
        /\ \A j \in Invoices : invoice'[j].status # "none" => invoice[j].status # "none"
    BY <1>61, <2>1 DEF Commit, TypeOK
  <2>3. \A g \in Handlers : handler'[g] # None => handler[g] # None /\ handler'[g] = handler[g]
    BY <1>61, CommitFacts DEF Commit
  <2>4. Paid(h) => i \in approved
    BY <2>1 DEF Paid, InvoiceStatus, TypeOK
  <2>5. tenant'.end = tenant.end \/ (i \in approved /\ tenant'.end = invoice[i].end)
    BY <1>61, <2>1, <2>4, CommitFacts DEF UpdateInv
  <2>6. PeriodWasPaid'
    BY <1>61, <2>1, <2>2, <2>5 DEF Commit, TypeOK
  <2>7. PaidKnown' /\ InvoiceKept'
    BY <1>61, <2>1, <2>2, <2>3 DEF Commit, TypeOK
  <2> QED
    BY <2>6, <2>7
<1>7. ASSUME NEW h \in Handlers, NotProcessed(h) PROVE Inv'
  BY <1>7 DEF NotProcessed, TypeOK
<1>8. ASSUME EnforceRead PROVE Inv'
  BY <1>8 DEF EnforceRead
<1>9. ASSUME EnforceCommit PROVE Inv'
  BY <1>9, PolicyFacts DEF EnforceCommit
<1>10. ASSUME DayPasses PROVE Inv'
  BY <1>10 DEF DayPasses
<1>11. ASSUME NEW t, ByHand(t), t.end = tenant.end, t.gone = tenant.gone PROVE Inv'
  BY <1>11 DEF ByHand
<1>12. ASSUME Toggle PROVE Inv'
  BY <1>11, <1>12 DEF Toggle, TypeOK, Tenants
<1>13. ASSUME Edit PROVE Inv'
  BY <1>11, <1>13 DEF Edit, TypeOK, Tenants
<1>14. ASSUME Trash PROVE Inv'
  BY <1>11, <1>14 DEF Trash, TypeOK, Tenants
<1>15. ASSUME Restore PROVE Inv'
  BY <1>11, <1>15 DEF Restore, TypeOK, Tenants
<1>16. ASSUME Purge PROVE Inv'
  BY <1>16 DEF Purge, Removed, TypeOK, Tenants
<1>17. ASSUME UNCHANGED vars PROVE Inv'
  BY <1>17 DEF vars
<1> QED
  BY <1>1, <1>2, <1>3, <1>4, <1>5, <1>6, <1>61, <1>7, <1>8, <1>9, <1>10, <1>12, <1>13, <1>14, <1>15, <1>16, <1>17 DEF Next, Pays

\* For any number of invoices, attempts and handlers, and whatever order the
\* notifications are processed in, the period of a client is that of an invoice
\* which was paid once.
THEOREM PaidPeriods == Spec => []PeriodWasPaid
<1>1. TypeOK /\ PaidInv /\ [Next]_vars => TypeOK' /\ PaidInv'
  BY BillingKept, PaidKept
<1>2. PaidInv => PeriodWasPaid
  BY DEF PaidInv
<1> QED
  BY BillingInit, PaidInit, <1>1, <1>2, PTL DEF Spec

-----------------------------------------------------------------------------
(* What closes a client, and what opens it again. *)

\* What the policy decided stays right until it commits: it only closes, and
\* only a client whose period has ended, unless a payment came in between.
SweepSound ==
    sweep # None /\ "live" \in DOMAIN sweep =>
        /\ ~sweep["live"]
        /\ excuse = "none" => tenant.end < now

OpenInv == SweepSound /\ PaidStaysOpen

LEMMA OpenInit == Init => OpenInv
  BY DEF Init, Registered, OpenInv, SweepSound, PaidStaysOpen, None

\* The policy closes a client only after the end of its period, and opens none.
LEMMA ReadSound == TypeOK /\ EnforceRead => SweepSound'
<1> SUFFICES ASSUME TypeOK, EnforceRead, "live" \in DOMAIN sweep'
             PROVE  ~sweep'["live"] /\ tenant.end < now
  BY DEF SweepSound, EnforceRead
<1>1. sweep' = Changed(tenant, Enforced(tenant)) /\ tenant \in Tenants
  BY DEF EnforceRead, TypeOK
<1>2. Enforced(tenant).live # tenant.live /\ sweep'["live"] = Enforced(tenant).live
  BY <1>1, EnforcedTyped, ChangedColumns
<1>3. ShouldBlock(tenant)
  BY <1>1, <1>2 DEF Enforced, Tenants
<1>4. ~Enforced(tenant).live
  BY <1>1, <1>3 DEF Enforced, Tenants
<1>5. tenant.end < now
  BY <1>3, DaysAssumption DEF ShouldBlock, Overdue, DueAt, TypeOK, Tenants, Days
<1> QED
  BY <1>2, <1>4, <1>5

LEMMA OpenKept == TypeOK /\ PaidInv /\ OpenInv /\ [Next]_vars => OpenInv'
<1> SUFFICES ASSUME TypeOK, PaidInv, OpenInv, [Next]_vars PROVE OpenInv'
  OBVIOUS
<1> USE DEF OpenInv, SweepSound, PaidStaysOpen
<1>1. ASSUME UNCHANGED <<now, tenant, sweep, excuse>> PROVE OpenInv'
  BY <1>1
<1>2. ASSUME NEW i \in Invoices, Checkout(i) \/ CheckoutAgain(i) PROVE OpenInv'
  BY <1>1, <1>2 DEF Checkout, CheckoutAgain
<1>3. ASSUME NEW i \in Invoices, NEW p \in Payments, Attempt(p, i) PROVE OpenInv'
  BY <1>1, <1>3 DEF Attempt
<1>4. ASSUME NEW p \in Payments, Settle(p) PROVE OpenInv'
  BY <1>1, <1>4 DEF Settle
<1>5. ASSUME NEW p \in Payments, NEW h \in Handlers, Fetch(h, p) PROVE OpenInv'
  BY <1>1, <1>5 DEF Fetch
<1>6. ASSUME NEW h \in Handlers, Load(h) PROVE OpenInv'
  BY <1>1, <1>6 DEF Load
<1>61. ASSUME NEW h \in Handlers, Commit(h) PROVE OpenInv'
  <2>0. UpdateInv(h) /\ update[h] # None /\ ~tenant.gone /\ UNCHANGED <<now, sweep>>
    BY <1>61 DEF PaidInv, Commit
  <2>1. CASE Paid(h)
    <3>1. excuse' = IF "live" \in update[h].lost \/ (sweep # None /\ "live" \in DOMAIN sweep) THEN "race" ELSE "none"
      BY <1>61, <2>1 DEF Commit, Paid
    <3>2. "live" \notin update[h].lost => tenant'.live
      BY <1>61, <2>0, <2>1, CommitFacts DEF UpdateInv
    <3> QED
      BY <2>0, <3>1, <3>2
  <2>2. CASE ~Paid(h)
    <3>1. tenant'.live = tenant.live /\ tenant'.end = tenant.end /\ tenant'.trash = tenant.trash
      BY <1>61, <2>0, <2>2, CommitFacts DEF UpdateInv
    <3>2. excuse' = excuse
      BY <1>61, <2>2 DEF Commit, Paid
    <3> QED
      BY <2>0, <3>1, <3>2
  <2> QED
    BY <2>1, <2>2
<1>7. ASSUME NEW h \in Handlers, NotProcessed(h) PROVE OpenInv'
  BY <1>1, <1>7 DEF NotProcessed
<1>8. ASSUME EnforceRead PROVE OpenInv'
  BY <1>8, ReadSound DEF EnforceRead
<1>9. ASSUME EnforceCommit PROVE OpenInv'
  BY <1>9, PolicyFacts DEF EnforceCommit, TypeOK, Tenants, Days, None
<1>10. ASSUME DayPasses PROVE OpenInv'
  BY <1>10 DEF DayPasses, TypeOK, Tenants, Days
<1>12. ASSUME Toggle PROVE OpenInv'
  BY <1>12 DEF Toggle, ByHand, TypeOK, Tenants
<1>13. ASSUME Edit PROVE OpenInv'
  BY <1>13 DEF Edit, ByHand, TypeOK, Tenants
<1>14. ASSUME Trash PROVE OpenInv'
  BY <1>14 DEF Trash, ByHand, TypeOK, Tenants
<1>15. ASSUME Restore PROVE OpenInv'
  BY <1>15 DEF Restore, ByHand, TypeOK, Tenants
<1>16. ASSUME Purge PROVE OpenInv'
  BY <1>16 DEF Purge, Removed, TypeOK, Tenants
<1>17. ASSUME UNCHANGED vars PROVE OpenInv'
  BY <1>1, <1>17 DEF vars
<1> QED
  BY <1>2, <1>3, <1>4, <1>5, <1>6, <1>61, <1>7, <1>8, <1>9, <1>10, <1>12, <1>13, <1>14, <1>15, <1>16, <1>17 DEF Next, Pays

\* However late the notifications come, and whatever commits between the read and
\* the commit of the policy or of a payment, a client whose paid period has not
\* ended is open, unless a hand closed it, the policy had already decided to close
\* it when its payment was written, or it was closed while its payment was.
THEOREM PaidClientsOpen == Spec => []PaidStaysOpen
<1>1. TypeOK /\ PaidInv /\ OpenInv /\ [Next]_vars => TypeOK' /\ PaidInv' /\ OpenInv'
  BY BillingKept, PaidKept, OpenKept
<1>2. OpenInv => PaidStaysOpen
  BY DEF OpenInv
<1> QED
  BY BillingInit, PaidInit, OpenInit, <1>1, <1>2, PTL DEF Spec

\* What a step of a blocked, closed client may do to its switch.
ShutStep ==
    tenant.blocked /\ ~tenant.live /\ tenant'.live =>
        \/ \E h \in Handlers : /\ update[h] # None
                              /\ tenant'.blocked => "blocked" \in update[h].lost
                              /\ tenant'.end \in {invoice[i].end : i \in approved}
        \/ hands' # hands /\ ~tenant.trash

LEMMA ShutKept == TypeOK /\ PaidInv /\ OpenInv /\ [Next]_vars => ShutStep
<1> SUFFICES ASSUME TypeOK, PaidInv, PaidInv', OpenInv, [Next]_vars, tenant.blocked, ~tenant.live, tenant'.live
             PROVE  \/ \E h \in Handlers : /\ update[h] # None
                                          /\ tenant'.blocked => "blocked" \in update[h].lost
                                          /\ tenant'.end \in {invoice[i].end : i \in approved}
                    \/ hands' # hands /\ ~tenant.trash
  BY PaidKept DEF ShutStep
<1>1. tenant' # tenant
  OBVIOUS
<1>2. ASSUME NEW h \in Handlers, Commit(h)
      PROVE  /\ update[h] # None
             /\ tenant'.blocked => "blocked" \in update[h].lost
             /\ tenant'.end \in {invoice[i].end : i \in approved}
  <2>1. UpdateInv(h) /\ update[h] # None /\ ~tenant.gone
    BY <1>2 DEF PaidInv, Commit
  <2>2. "live" \in DOMAIN update[h].row /\ Paid(h)
    BY <1>2, <2>1, CommitFacts DEF UpdateInv
  <2>3. tenant'.blocked => "blocked" \in update[h].lost
    BY <1>2, <2>1, <2>2, CommitFacts DEF UpdateInv
  <2>4. handler[h].of \in approved /\ handler[h].of \in Invoices /\ handler[h] # None
    BY <2>1, <2>2 DEF Paid, InvoiceStatus, PaidInv, PaidKnown, TypeOK
  <2>5. CASE "end" \in DOMAIN update[h].row
    <3>1. tenant'.end = update[h].row["end"] /\ update[h].row["end"] = invoice[handler[h].of].end
      BY <1>2, <2>1, <2>5, CommitFacts DEF UpdateInv
    <3> QED
      BY <2>1, <2>3, <2>4, <3>1
  <2>6. CASE "end" \notin DOMAIN update[h].row
    <3>1. tenant'.end = tenant.end /\ tenant.end # 0
      BY <1>2, <2>1, <2>2, <2>6, CommitFacts DEF UpdateInv
    <3> QED
      BY <2>1, <2>3, <3>1 DEF PaidInv, PeriodWasPaid
  <2> QED
    BY <2>5, <2>6
<1>3. ~EnforceCommit
  BY PolicyFacts DEF OpenInv, SweepSound, EnforceCommit
<1>4. ASSUME Toggle \/ Edit PROVE hands' # hands /\ ~tenant.trash
  <2>1. hands' = hands + 1 /\ ~tenant.trash
    BY <1>4 DEF Toggle, Edit, ByHand, Hand
  <2>2. hands \in Int
    BY HandsAssumption DEF TypeOK
  <2> QED
    BY <2>1, <2>2
<1>5. ~Trash /\ ~Restore /\ ~Purge
  <2>1. ~Trash /\ ~Purge
    <3>1. ASSUME Trash PROVE FALSE
      <4>1. tenant' = [tenant EXCEPT !.was = tenant.live, !.live = FALSE, !.trash = TRUE]
        BY <3>1 DEF Trash, ByHand
      <4>2. tenant'.live = FALSE
        BY <4>1 DEF TypeOK, Tenants
      <4> QED
        BY <4>2
    <3>2. ASSUME Purge PROVE FALSE
      BY <3>2 DEF Purge, Removed
    <3> QED
      BY <3>1, <3>2
  <2>2. ASSUME Restore PROVE FALSE
    <3>1. tenant' = [tenant EXCEPT !.live = tenant.was /\ ~tenant.blocked /\ tenant.sub \notin {"pending_payment", "canceled"},
                                   !.trash = FALSE, !.was = FALSE]
      BY <2>2 DEF Restore, ByHand
    <3>2. DOMAIN tenant = {"live", "sub", "end", "trial", "blocked", "trash", "was", "unlimited", "gone"}
      BY DEF TypeOK, Tenants
    <3>3. tenant'.live = (tenant.was /\ ~tenant.blocked /\ tenant.sub \notin {"pending_payment", "canceled"})
      BY <3>1, <3>2, Zenon
    <3> QED
      BY <3>3
  <2> QED
    BY <2>1, <2>2
<1>6. ~Pays /\ ~EnforceRead /\ ~DayPasses /\ ~(UNCHANGED vars) /\ \A h \in Handlers : ~Load(h) /\ ~NotProcessed(h)
  BY <1>1 DEF Load, Pays, Checkout, CheckoutAgain, Attempt, Settle, Fetch, EnforceRead, DayPasses, NotProcessed, vars
<1> QED
  BY <1>2, <1>3, <1>4, <1>5, <1>6 DEF Next

\* For any forms the super administrators post, any order of the notifications
\* and any sweep in flight: a client the policy blocked is opened by a payment,
\* which gives it a paid period, or by the switch of a super administrator who
\* did not take it from the trash.
THEOREM BlockedShut == Spec => BlockedStaysShut
<1>1. TypeOK /\ PaidInv /\ OpenInv /\ [Next]_vars => TypeOK' /\ PaidInv' /\ OpenInv'
  BY BillingKept, PaidKept, OpenKept
<1>2. TypeOK /\ PaidInv /\ OpenInv /\ [Next]_vars => [ShutStep]_vars
  BY ShutKept
<1> QED
  BY BillingInit, PaidInit, OpenInit, <1>1, <1>2, PTL DEF Spec, ShutStep, BlockedStaysShut
=============================================================================
