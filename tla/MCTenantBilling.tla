-------------------------- MODULE MCTenantBilling --------------------------
EXTENDS TenantBilling

\* Opened by courtesy, and no longer freed of payment.
MCForms == {[live |-> TRUE, sub |-> "active", unlimited |-> FALSE]}
=============================================================================
