\* A prepaid buyer pays two charges of a subscription and a pack; two handlers
\* work on them, and two calls spend what they add.  One charge is not enough
\* for a call; the three payments are enough for two, but the day is not.
SPECIFICATION Spec
CONSTANTS
  ann = ann
  charge1 = charge1
  charge2 = charge2
  pack = pack
  PaymentIds = {charge1, charge2, pack}
  Packs = {pack}
  Pilots = {}
  Charges = {charge1, charge2}
  Accounts = {ann}
  BuyerOf <- OneBuyer
  WalletOf <- OneBuyer
  Credit <- PackOfTwo
  Handlers = {h1, h2}
  NoPayment = NoPayment
  Calls = {c1, c2}
  Actors = {ann}
  ActorOf <- OneActor
  AccountOf <- OneActor
  Worst <- TwoEach
  Costs = {1, 3}
  Prepaid = {ann}
  Monthly <- Four
  Daily <- Three
INVARIANTS
  TypeOK
  PlanAfterCredit
  AckedIsHonoured
  WithinBudgets
  PaidBefore
  NeverUndercounted
SYMMETRY Symmetry
\* Calls and payments end.
CHECK_DEADLOCK FALSE
