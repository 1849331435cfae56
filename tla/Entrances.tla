------------------------------ MODULE Entrances ------------------------------
(***************************************************************************)
(* The entrances of the TypeScript middleware: the Payment credential, the *)
(* F-L402 capability it can issue beside it, and the F402 and x402         *)
(* conversions an application puts in front of it.  Each ends in the same  *)
(* verifier and the same redemption table.                                 *)
(*                                                                         *)
(* An invoice stands for its address, amount, network and payment hash (in *)
(* the node's own writing); TermsOf gives what else it says, which charges *)
(* repeat.  Its preimage is known to whoever settled it.                   *)
(* A challenge stands for its identifier, computed from its fields and one *)
(* secret.  The delivery that follows a redemption is module Middleware's, *)
(* the polling of the node module Poll's.                                  *)
(***************************************************************************)
EXTENDS Naturals, FiniteSets

CONSTANTS
  Invoices,         \* invoices the node can make
  Scripts,          \* UDT type scripts
  TermsOf,          \* what each invoice says: hash algorithm, currency, the UDT
                    \* type script or Absent, and when it expires
  Offers,           \* [url, digest] of the protected requests
  Routes,           \* those among them the middleware itself protects
  Currencies,       \* currencies of the routes, as the operator wrote them
  FiberCurrency,    \* FIBER_CURRENCY, the currency invoices are asked for in
  NodeId,           \* the configured Fiber node id, or Absent
  L402Algorithm,    \* fl402.hashAlgorithm of the configuration, or Absent
  Absent,
  Ttl, Skew,        \* life of a challenge, tolerated clock skew
  MaxTime,          \* bound: last moment looked at
  MaxIssued,        \* bound: invoices the middleware asks for
  MaxTranslations,  \* bound: charges an application translates and saves
  MaxVerifying,     \* bound: verifications open side by side
  MaxRestarts       \* bound: restarts with a rotated secret or root key

ASSUME EntrancesAssumption ==
  /\ Routes \subseteq Offers
  /\ Ttl \in Nat /\ Skew \in Nat
  /\ MaxTime \in Nat /\ MaxTranslations \in Nat /\ MaxRestarts \in Nat
  /\ Absent \notin Scripts \cup Nat \cup {FiberCurrency}
  /\ \A i \in Invoices :
       /\ TermsOf[i].algorithm \in {"ckb_hash", "sha256"}
       /\ TermsOf[i].udt \in Scripts \cup {Absent}
       /\ TermsOf[i].expires \in Nat
  /\ L402Algorithm \in {Absent, "ckb_hash", "sha256"}

VARIABLES
  now,           \* the clock
  secret,        \* generation of the signing secret
  previous,      \* generations still in previousSecrets
  rootKey,       \* generation of the F-L402 root key (it has no predecessors)
  restarts,      \* restarts so far
  records,       \* the store's challenges: challenge -> bound resource
  translations,  \* translated challenges saved so far
  capabilities,  \* F-L402 capabilities handed out
  settled,       \* invoices the node reports as paid
  verifying,     \* credentials verified, their redemption not yet written
  rows,          \* rows of the redemption table
  granted        \* responses each payment has bought

entrances == <<now, secret, previous, rootKey, restarts, records, translations,
               capabilities, settled, verifying, rows, granted>>
keys == <<secret, previous, rootKey, restarts>>

-----------------------------------------------------------------------------
(* The shapes of a charge *)

\* The writings of the currencies of charges and invoices that matter here.
Lower(currency) ==
  CASE currency = "CKB" -> "ckb" [] currency = "Fibd" -> "fibd" [] OTHER -> currency

\* createChargeRequest: the charge repeats the invoice's terms beside the script
\* the route asked for, which the node's answer must have.
Charge(i, currency) ==
  [invoice |-> i, currency |-> currency, recipient |-> NodeId, note |-> TRUE,
   algorithm |-> TermsOf[i].algorithm, udt |-> TermsOf[i].udt,
   invoiceCurrency |-> FiberCurrency, invoiceExpires |-> TermsOf[i].expires,
   invoiceUdt |-> TermsOf[i].udt]

\* A charge of the few fields that F402 and F-L402 carry.
PlainCharge(invoice, currency, algorithm) ==
  [invoice |-> invoice, currency |-> currency, recipient |-> Absent, note |-> FALSE,
   algorithm |-> algorithm, udt |-> Absent,
   invoiceCurrency |-> Absent, invoiceExpires |-> Absent, invoiceUdt |-> Absent]

\* fl402ChallengeToMpp: the charge an F-L402 challenge names; its currency is
\* kept, the description, the UDT type script and what the invoice says are not.
L402Charge(charge, algorithm) == PlainCharge(charge.invoice, charge.currency, algorithm)

\* mppChallengeToF402Body: the body has no recipient, no description, no UDT type
\* script and nothing of the invoice's terms but the algorithm.
F402Body(charge) ==
  [invoice   |-> charge.invoice,
   currency  |-> charge.currency,
   algorithm |-> charge.algorithm]

F402Charge(body) == PlainCharge(body.invoice, Lower(body.currency), body.algorithm)

\* fiberChargeToX402Requirements; a charge without a recipient has none.
X402Requirements(charge) ==
  [asset     |-> Lower(charge.currency),
   currency  |-> Lower(charge.currency),
   payTo     |-> charge.recipient,
   invoice   |-> charge.invoice,
   note      |-> charge.note,
   algorithm |-> charge.algorithm,
   udt       |-> charge.udt,
   invoiceCurrency |-> charge.invoiceCurrency,
   invoiceExpires  |-> charge.invoiceExpires,
   invoiceUdt      |-> charge.invoiceUdt]

\* x402RequirementsToFiberCharge
X402Charge(req) ==
  [invoice   |-> req.invoice,
   currency  |-> req.currency,
   recipient |-> req.payTo,
   note      |-> req.note,
   algorithm |-> req.algorithm,
   udt       |-> req.udt,
   invoiceCurrency |-> req.invoiceCurrency,
   invoiceExpires  |-> req.invoiceExpires,
   invoiceUdt      |-> req.invoiceUdt]

\* bindChallengeId: the identifier covers the request, the expiry, the body's
\* digest and the gateway's opaque frame, but neither the description nor the
\* resource's URL, which only the stored record has.
Bind(charge, expires, digest, frame) ==
  [charge |-> charge, expires |-> expires, digest |-> digest,
   frame |-> frame, secret |-> secret]

\* Mutant: INSERT OR REPLACE.
RecordsReplacing(c, resource) ==
  [d \in DOMAIN records \cup {c} |-> IF d = c THEN resource ELSE records[d]]

\* INSERT OR IGNORE: the first record saved under an identifier stays.
RecordsWith(c, resource) ==
  [d \in DOMAIN records \cup {c} |->
     IF d \in DOMAIN records THEN records[d] ELSE resource]

-----------------------------------------------------------------------------
(* The credentials each entrance makes of what the payer brings *)

CredentialFor(c, source, invoice) ==
  [challenge |-> c, source |-> source, invoice |-> invoice]

\* issueFl402Challenge: the caveats repeat the challenge and its resource.
Capability(c, algorithm) ==
  [challenge |-> c, rootKey |-> rootKey, algorithm |-> algorithm]

\* verifyFl402Capability: signed by the present root key and not expired; the
\* clock skew is not granted here.
CapabilityHolds(cap) ==
  /\ cap.rootKey = rootKey
  /\ now <= cap.challenge.expires

\* verifyFl402Proof: the gateway rebuilds the challenge it compares with from
\* the capability's own caveats, so that the preimage's comparison remains,
\* under the algorithm the capability names.
ProofHolds(cap, preimageOf) ==
  /\ CapabilityHolds(cap)
  /\ preimageOf = cap.challenge.charge.invoice
  /\ cap.algorithm = TermsOf[preimageOf].algorithm

\* credentialFromFl402Authorization: a standard credential of the stored
\* challenge.
FromL402(cap, preimageOf) ==
  IF cap.challenge \in DOMAIN records /\ ProofHolds(cap, preimageOf)
  THEN {CredentialFor(cap.challenge, Absent, preimageOf)}
  ELSE {}

\* f402ProofToCredential
FromF402(c, invoice) ==
  IF invoice = c.charge.invoice THEN {CredentialFor(c, Absent, invoice)} ELSE {}

\* Mutant: the requirement that is expected keeps the charge's own currency.
FromX402AsWritten(c, accepted, invoice) ==
  IF /\ c.charge.recipient # Absent
     /\ accepted = [X402Requirements(c.charge) EXCEPT
                      !.currency = c.charge.currency]
     /\ invoice = accepted.invoice
  THEN {CredentialFor(c, "x402", invoice)}
  ELSE {}

\* x402PaymentPayloadToCredential: what the payer accepted must be exactly
\* the requirement made of the challenge.
FromX402(c, accepted, invoice) ==
  IF /\ c.charge.recipient # Absent
     /\ accepted = X402Requirements(c.charge)
     /\ invoice = accepted.invoice
  THEN {CredentialFor(c, "x402", invoice)}
  ELSE {}

\* What the charge says, or does not say, of the UDT type script and of the rest
\* of the invoice's terms; a script the invoice has must be named.
UdtMatches(charge) ==
  /\ charge.udt = TermsOf[charge.invoice].udt
  /\ charge.invoiceUdt \in {Absent, TermsOf[charge.invoice].udt}

\* assertInvoiceMatches, on the node's record of the invoice.
InvoiceMatches(charge) ==
  LET terms == TermsOf[charge.invoice]
      expected == IF charge.invoiceCurrency = Absent THEN FiberCurrency
                                                     ELSE charge.invoiceCurrency
  IN /\ Lower(terms.currency) = Lower(expected)
     /\ charge.algorithm = terms.algorithm
     /\ UdtMatches(charge)
     /\ charge.invoiceExpires \in {Absent, terms.expires}

\* verifyCredential up to consumeRedemption: the credential echoes a stored
\* challenge bound by a known secret, still alive with the skew, for this very
\* resource, and the node has its invoice as paid and as the charge describes it.
Verified(cred, resource) ==
  LET c == cred.challenge IN
  /\ c \in DOMAIN records
  /\ c.secret \in {secret} \cup previous
  /\ now <= c.expires + Skew
  /\ records[c] = resource
  /\ c.digest \in {Absent, resource.digest}
  /\ cred.invoice = c.charge.invoice
  /\ cred.invoice \in settled
  /\ InvoiceMatches(c.charge)

-----------------------------------------------------------------------------
(* Actions *)

EntrancesInit ==
  /\ now = 0 /\ secret = 0 /\ previous = {} /\ rootKey = 0 /\ restarts = 0
  /\ records = <<>> /\ translations = 0 /\ capabilities = {}
  /\ settled = {} /\ verifying = {} /\ rows = {}
  /\ granted = [i \in Invoices |-> 0]

IssuedInvoices == {c.charge.invoice : c \in DOMAIN records}

\* issueChallenge: a fresh invoice, a challenge bound to the request, and with
\* fl402 configured a capability whose algorithm is the configured one first.  An
\* invoice in another currency than the one asked for is not taken.
IssueChallenge(resource, currency) ==
  /\ Cardinality(IssuedInvoices) < MaxIssued
  /\ \E i \in Invoices \ IssuedInvoices :
       LET c == Bind(Charge(i, currency), now + Ttl, resource.digest, "gateway")
           algorithm == IF L402Algorithm = Absent THEN TermsOf[i].algorithm
                                                ELSE L402Algorithm
       IN /\ Lower(TermsOf[i].currency) = Lower(FiberCurrency)
          /\ records' = RecordsWith(c, resource)
          /\ capabilities' = capabilities \cup {Capability(c, algorithm)}
          /\ UNCHANGED <<now, keys, translations, settled, verifying,
                         rows, granted>>

\* An application takes a charge in another form, binds it as a challenge of
\* its own with the gateway's secret and saves the record, for the resource
\* it serves: f402ChallengeToMpp, x402PaymentRequiredToMpp, fl402ChallengeToMpp.
Translate(charge, expires, resource) ==
  /\ translations < MaxTranslations
  /\ translations' = translations + 1
  /\ records' =
       RecordsWith(Bind(charge, expires, resource.digest, "bridge"), resource)
  /\ UNCHANGED <<now, keys, capabilities, settled, verifying,
                 rows, granted>>

TranslateF402(c, resource) ==
  Translate(F402Charge(F402Body(c.charge)), c.expires, resource)

TranslateX402(c, resource) ==
  /\ c.charge.recipient # Absent
  /\ Translate(X402Charge(X402Requirements(c.charge)), c.expires, resource)

TranslateL402(cap, resource) ==
  Translate(L402Charge(cap.challenge.charge, cap.algorithm),
            cap.challenge.expires, resource)

\* The payer settles an invoice it was shown, and with it learns the preimage.
SettleInvoice(i) ==
  /\ i \in IssuedInvoices \ settled
  /\ settled' = settled \cup {i}
  /\ UNCHANGED <<now, keys, records, translations, capabilities, verifying,
                 rows, granted>>

\* protect and verifyCredential, up to the write of the redemption.  A refused
\* credential changes nothing here: the payer gets a new challenge instead.
Present(credentials, resource) ==
  /\ Cardinality(verifying) < MaxVerifying
  /\ \E cred \in credentials :
       /\ Verified(cred, resource)
       /\ verifying' = verifying \cup {[cred |-> cred, resource |-> resource]}
  /\ UNCHANGED <<now, keys, records, translations, capabilities, settled,
                 rows, granted>>

\* What a payer holds for challenge c it may bring with any challenge's form.
PresentPayment(c, i, resource) == Present({CredentialFor(c, Absent, i)}, resource)
PresentF402(c, i, resource)    == Present(FromF402(c, i), resource)
PresentL402(cap, i, resource)  == i \in settled /\ Present(FromL402(cap, i), resource)
PresentX402(c, shown, i, resource) ==
  Present(FromX402(c, X402Requirements(shown.charge), i), resource)

\* Mutant: only the challenge and the credential's hash are unique.
RowFreeWithoutPayment(cred) ==
  \A row \in rows : row.cred # cred /\ row.cred.challenge # cred.challenge

\* The challenge is not consumed, and neither the credential's hash nor the
\* payment hash has a row.
RowFree(cred) ==
  \A row \in rows :
    /\ row.cred.challenge # cred.challenge
    /\ row.cred # cred
    /\ row.cred.invoice # cred.invoice

\* consumeRedemption, one transaction.
Consume(v) ==
  /\ verifying' = verifying \ {v}
  /\ IF RowFree(v.cred)
     THEN /\ rows' = rows \cup {v}
          /\ granted' = [granted EXCEPT ![v.cred.invoice] = @ + 1]
     ELSE UNCHANGED <<rows, granted>>
  /\ UNCHANGED <<now, keys, records, translations, capabilities, settled>>

Tick ==
  /\ now < MaxTime
  /\ now' = now + 1
  /\ UNCHANGED <<keys, records, translations, capabilities, settled,
                 verifying, rows, granted>>

\* The operator restarts the gateway with a new secret (the old one kept as a
\* previous secret or not) or a new root key; open verifications are gone.
Restart(newSecret, kept, newRootKey) ==
  /\ restarts < MaxRestarts
  /\ restarts' = restarts + 1
  /\ secret' = newSecret /\ previous' = kept /\ rootKey' = newRootKey
  /\ verifying' = {}
  /\ UNCHANGED <<now, records, translations, capabilities, settled,
                 rows, granted>>

RotateSecret ==
  \E kept \in {{}, {secret}} : Restart(secret + 1, kept, rootKey)
RotateRootKey == Restart(secret, previous, rootKey + 1)

EntrancesNext ==
  \/ \E r \in Routes, currency \in Currencies : IssueChallenge(r, currency)
  \/ \E r \in Offers :
       \/ \E c \in DOMAIN records : TranslateF402(c, r) \/ TranslateX402(c, r)
       \/ \E cap \in capabilities : TranslateL402(cap, r)
       \/ \E i \in Invoices :
            \/ \E c \in DOMAIN records : PresentPayment(c, i, r) \/ PresentF402(c, i, r)
            \/ \E cap \in capabilities : PresentL402(cap, i, r)
            \/ \E c, shown \in DOMAIN records : PresentX402(c, shown, i, r)
  \/ \E i \in Invoices : SettleInvoice(i)
  \/ \E v \in verifying : Consume(v)
  \/ Tick \/ RotateSecret \/ RotateRootKey

EntrancesSpec == EntrancesInit /\ [][EntrancesNext]_entrances

-----------------------------------------------------------------------------
(* Properties *)

Charges ==
  [invoice : Invoices, currency : Currencies \cup {"ckb", "fibd"},
   recipient : {NodeId, Absent}, note : BOOLEAN,
   algorithm : {"ckb_hash", "sha256"}, udt : Scripts \cup {Absent},
   invoiceCurrency : {FiberCurrency, Absent}, invoiceExpires : Nat \cup {Absent},
   invoiceUdt : Scripts \cup {Absent}]

Challenges ==
  [charge : Charges, expires : Nat, digest : {Absent} \cup {r.digest : r \in Offers},
   frame : {"gateway", "bridge"}, secret : Nat]

Admissions ==
  [cred : [challenge : Challenges, source : {Absent, "x402"}, invoice : Invoices],
   resource : Offers]

\* Types of the variables.
EntrancesTypeOK ==
  /\ now \in 0..MaxTime /\ secret \in Nat /\ previous \subseteq Nat
  /\ rootKey \in Nat /\ restarts \in 0..MaxRestarts
  /\ DOMAIN records \subseteq Challenges
  /\ \A c \in DOMAIN records : records[c] \in Offers
  /\ translations \in 0..MaxTranslations
  /\ capabilities \subseteq [challenge : Challenges, rootKey : Nat,
                             algorithm : {"ckb_hash", "sha256"}]
  /\ settled \subseteq Invoices
  /\ verifying \subseteq Admissions /\ rows \subseteq Admissions
  /\ granted \in [Invoices -> Nat]

\* One payment buys one response: its invoice may be bound to several
\* challenges, and its credentials may differ with the entrance they came
\* through and be verified side by side, but one of them is redeemed.
OneResponsePerPayment == \A i \in Invoices : granted[i] <= 1

\* What was redeemed is still what the store says was sold: the payment is
\* settled, and the request answered is the one its challenge's record binds,
\* whatever was saved under the same identifier since.
RedeemedAsBound ==
  \A v \in rows :
    /\ v.cred.invoice \in settled
    /\ v.cred.challenge \in DOMAIN records
    /\ records[v.cred.challenge] = v.resource

\* A payer who paid what an entrance showed and returns through that entrance,
\* in time and to the same resource, is admitted, over every conversion in
\* between, with two exceptions the code makes.  F402 and F-L402 do not carry a
\* UDT type script: a charge translated through them for an invoice that has one
\* is refused as wrong-udt.  F-L402 is open only under the root key and the
\* algorithm its capability was issued with, which a configured hashAlgorithm may
\* make another one than the invoice's, and without the clock skew; a charge
\* translated from it has that algorithm.
ReturningPayerIsAdmitted ==
  \A c \in DOMAIN records :
    LET i == c.charge.invoice
        Admits(credentials) == \E cred \in credentials : Verified(cred, records[c])
    IN (/\ i \in settled
        /\ c.secret \in {secret} \cup previous
        /\ now <= c.expires + Skew
        /\ c.charge.algorithm = TermsOf[i].algorithm
        /\ c.charge.udt = TermsOf[i].udt) =>
         /\ Admits({CredentialFor(c, Absent, i)})
         /\ Admits(FromF402(c, F402Body(c.charge).invoice))
         /\ c.charge.recipient # Absent =>
              Admits(FromX402(c, X402Requirements(c.charge), i))
         /\ \A cap \in capabilities :
              (/\ cap.challenge = c /\ cap.rootKey = rootKey
               /\ cap.algorithm = TermsOf[i].algorithm /\ now <= c.expires) =>
                Admits(FromL402(cap, i))

=============================================================================
