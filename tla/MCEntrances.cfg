SPECIFICATION EntrancesSpec
CONSTANTS
  i1 = i1
  i2 = i2
  i3 = i3
  udt = udt
  Absent = Absent
  Invoices <- MCInvoices
  TermsOf <- MCTermsOf
  Scripts = {udt}
  FiberCurrency = "Fibd"
  Offers <- MCOffers
  Routes <- MCRoutes
  Currencies = {"CKB"}
  NodeId = "node"
  L402Algorithm = "ckb_hash"
  Ttl = 1
  Skew = 1
  MaxTime = 2
  MaxIssued = 1
  MaxTranslations = 2
  MaxVerifying = 2
  MaxRestarts = 1
INVARIANTS OneResponsePerPayment RedeemedAsBound ReturningPayerIsAdmitted
CHECK_DEADLOCK FALSE
