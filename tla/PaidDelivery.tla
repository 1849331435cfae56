---------------------------- MODULE PaidDelivery ----------------------------
(***************************************************************************)
(* What the gateway promises about one payment, whatever the number of     *)
(* handlers, retries and faults: a payment is redeemed at most once and    *)
(* only after it settled, by one request; the protected service runs at    *)
(* most once for it, for that request; one outcome is recorded, and a      *)
(* receipt exists only for a delivered one.                                *)
(***************************************************************************)

CONSTANTS Payments, Requests

VARIABLES
    paid,       \* settled payments
    redeemed,   \* payments that bought their one delivery
    runs,       \* <<payment, request>>: the service executed the request
    delivered,  \* payments recorded as delivered
    failed,     \* payments recorded as failed
    receipted   \* payments with a receipt

vars == <<paid, redeemed, runs, delivered, failed, receipted>>

TypeOK ==
    /\ paid \subseteq Payments
    /\ redeemed \subseteq Payments
    /\ runs \subseteq Payments \X Requests
    /\ delivered \subseteq Payments
    /\ failed \subseteq Payments
    /\ receipted \subseteq Payments

Init ==
    /\ paid = {}
    /\ redeemed = {}
    /\ runs = {}
    /\ delivered = {}
    /\ failed = {}
    /\ receipted = {}

Ran(p) == \E q \in Requests : <<p, q>> \in runs
Closed(p) == p \in delivered \cup failed

Settle(p) ==
    /\ paid' = paid \cup {p}
    /\ UNCHANGED <<redeemed, runs, delivered, failed, receipted>>

Redeem(p) ==
    /\ p \in paid \ redeemed
    /\ redeemed' = redeemed \cup {p}
    /\ UNCHANGED <<paid, runs, delivered, failed, receipted>>

\* May come after the outcome is closed as failed: the gateway stopped waiting.
Execute(p, q) ==
    /\ p \in redeemed
    /\ ~Ran(p)
    /\ runs' = runs \cup {<<p, q>>}
    /\ UNCHANGED <<paid, redeemed, delivered, failed, receipted>>

Deliver(p) ==
    /\ Ran(p)
    /\ ~Closed(p)
    /\ delivered' = delivered \cup {p}
    /\ UNCHANGED <<paid, redeemed, runs, failed, receipted>>

Fail(p) ==
    /\ p \in redeemed
    /\ ~Closed(p)
    /\ failed' = failed \cup {p}
    /\ UNCHANGED <<paid, redeemed, runs, delivered, receipted>>

GiveReceipt(p) ==
    /\ p \in delivered
    /\ receipted' = receipted \cup {p}
    /\ UNCHANGED <<paid, redeemed, runs, delivered, failed>>

Next ==
    \E p \in Payments :
        \/ Settle(p)
        \/ Redeem(p)
        \/ \E q \in Requests : Execute(p, q)
        \/ Deliver(p)
        \/ Fail(p)
        \/ GiveReceipt(p)

Spec == Init /\ [][Next]_vars

\* A receipt is for a delivered payment, delivery for an executed one, execution
\* for a redeemed one, and redemption for a paid one.
Chain ==
    /\ receipted \subseteq delivered
    /\ \A p \in delivered : Ran(p)
    /\ \A p \in Payments, q \in Requests : <<p, q>> \in runs => p \in redeemed
    /\ redeemed \subseteq paid

\* The service ran for at most one request per payment, and no payment is both
\* delivered and failed.
AtMostOnce ==
    /\ \A p \in Payments, q1, q2 \in Requests :
           <<p, q1>> \in runs /\ <<p, q2>> \in runs => q1 = q2
    /\ delivered \cap failed = {}
=============================================================================
