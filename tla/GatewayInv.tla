----------------------------- MODULE GatewayInv -----------------------------
(***************************************************************************)
(* The inductive invariant of Gateway.  The safety properties speak of the *)
(* tables and of what was served; to be preserved by every step they need  *)
(* what a handler knows at each await: the checks it made stay true while  *)
(* other handlers run, because it relies only on immutable columns and on  *)
(* a settled invoice, and the row it inserted is its own.                  *)
(***************************************************************************)
EXTENDS Gateway

\* The handler owns the redemption of its credential: it is between the commit
\* and its answer, or its request reached the service.
Holder(r) == stage[r] \in Redeeming \/ upstream[r] # "none"

\* The handler's redemption has no recorded outcome yet.
Recording == {"consumed", "upstream", "ok", "refused", "error"}

\* The credential a handler verifies passed the checks, and they still hold.
Verified(r) ==
    LET c == credential[r] IN
    /\ c \in Credential
    /\ c.hash = c.challenge.hash
    /\ resource_binding[c.challenge] = resource[r]
    /\ resource[r] \in Resources

HandlersOK ==
    \A r \in Requests :
        /\ stage[r] = "idle" => credential[r] = None
        /\ stage[r] \in {"issuing", "invoiced"} => resource[r] \in Resources
        /\ credential[r] # None => Verified(r)
        /\ stage[r] \in {"polling", "pending", "settled"} \cup Redeeming => credential[r] # None
        /\ stage[r] \in {"settled"} \cup Redeeming => invoices[credential[r].hash] = "Paid"
        /\ stage[r] \in {"idle", "issuing", "invoiced", "polling", "pending", "settled", "consumed"}
               => upstream[r] = "none"
        /\ stage[r] \in {"ok", "receipting"} => upstream[r] = "ok"
        /\ reply[r] # "none" => stage[r] = "done"

\* Freshness of payment hashes: one challenge per invoice, and the invoice a
\* handler has in hand is in no challenge and in no other handler's hands.
IssuingOK ==
    /\ \A i \in ChallengeId : Issued(i) => invoices[i.hash] # "none"
    /\ \A i, j \in ChallengeId : Issued(i) /\ Issued(j) /\ i.hash = j.hash => i = j
    /\ \A r \in Requests : stage[r] = "invoiced" =>
           /\ charge[r] \in Hashes
           /\ invoices[charge[r]] # "none"
           /\ \A i \in ChallengeId : Issued(i) => i.hash # charge[r]
           /\ \A s \in Requests : stage[s] = "invoiced" /\ charge[s] = charge[r] => s = r

\* Each redemption row is of a settled, issued, consumed challenge.
RowsOK ==
    \A row \in redemptions :
        /\ row = RowOf(row.credential)
        /\ row.hash = row.challenge.hash
        /\ row.challenge \in consumed_at
        /\ Issued(row.challenge)
        /\ invoices[row.hash] = "Paid"

\* A redemption has one owner.
HoldersOK ==
    /\ \A r \in Requests : Holder(r) =>
           credential[r] # None /\ RowOf(credential[r]) \in redemptions
    /\ \A r, s \in Requests :
           Holder(r) /\ Holder(s) /\ credential[r].challenge = credential[s].challenge
           => r = s

OutcomesOK ==
    \A r \in Requests :
        /\ stage[r] \in Recording => delivery_outcomes[credential[r].challenge] = "pending"
        /\ stage[r] = "receipting" => delivery_outcomes[credential[r].challenge] = "delivered"
        /\ reply[r] = "receipt" => credential[r] # None

\* A handler that turns a verified credential away saw a dead invoice, another
\* currency or a consumed challenge, unless the redemption row could not be inserted.
TurnedAway(r) == credential[r] # None /\ stage[r] \in {"issuing", "invoiced"}

RefusalsOK ==
    "insert" \notin Faults => \A r \in Requests : TurnedAway(r) =>
        \/ invoices[credential[r].hash] \in {"Cancelled", "Expired"}
        \/ credential[r].challenge.currency # config.currency
        \/ credential[r].challenge \in consumed_at

IInv ==
    /\ TypeOK
    /\ HandlersOK
    /\ IssuingOK
    /\ RowsOK
    /\ HoldersOK
    /\ RedeemedOnce
    /\ LedgerAgrees
    /\ OutcomesOK
    /\ ReceiptIsEarned
    /\ RefusalsOK
=============================================================================
