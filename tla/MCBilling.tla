------------------------------ MODULE MCBilling ------------------------------
(***************************************************************************)
(* Small instances of Billing for TLC: which operations run side by side,  *)
(* which events Asaas reports, which plans are sold.                       *)
(***************************************************************************)
EXTENDS BillingProperties

One == 1
SameCustomer == [i \in Checkouts |-> One]

\* Two deliveries at once, and beside the second one everything the agency's
\* users and the clock ask for.
BothReceive == <<{"webhook"}, {"webhook", "sweep", "login", "session", "renew", "cancel"}>>

\* The scheduler has its own worker, and so has the webhook; what is canceled is
\* canceled at Asaas.
SweepBeside == <<{"webhook"}, {"sweep", "renew"}>>

\* Nobody logs in or polls a session: activation comes from the webhook alone.
PaidByWebhook == <<{"webhook", "sweep", "request", "renew", "cancel"}>>

\* The same, and the superadmin's switch.
WithSuperadmin == <<{"webhook", "sweep", "request", "renew", "cancel", "status"}>>
=============================================================================
