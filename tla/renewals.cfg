\* A buyer pays two orders for one plan, and two handlers activate them at one
\* time.
SPECIFICATION Spec
CONSTANTS
  ann = ann
  charge1 = charge1
  charge2 = charge2
  pack = pack
  PaymentIds = {charge1, charge2}
  Packs = {}
  Pilots = {}
  Charges = {}
  Accounts = {ann}
  BuyerOf <- OneBuyer
  WalletOf <- OneBuyer
  Credit <- PackOfTwo
  Handlers = {h1, h2}
  NoPayment = NoPayment
  Calls = {}
  Actors = {ann}
  ActorOf <- OneActor
  AccountOf <- OneActor
  Worst <- TwoEach
  Costs = {1, 3}
  Prepaid = {ann}
  Monthly <- Four
  Daily <- Three
INVARIANTS
  PeriodsApart
\* Payments end.
CHECK_DEADLOCK FALSE
