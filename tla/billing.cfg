SPECIFICATION FairSpec
CONSTANTS
    NumInvoices = 1
    NumPayments = 2
    Handlers = {h1}
    TrialDays = 1
    Period = 1
    Grace = 1
    MaxDay = 4
    MaxHands = 2
    Forms <- MCForms
INVARIANTS PaidStaysOpen PeriodWasPaid
PROPERTIES BlockedStaysShut OverdueCloses
CHECK_DEADLOCK FALSE
