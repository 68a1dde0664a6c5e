\* Every configuration, collections and payouts over three networks.
SPECIFICATION ProcessorsSpec
\* One operation, and nothing after it.
CHECK_DEADLOCK FALSE
CONSTANTS
  Configurations <- MCConfigurations
  Modes = {"paystack", "sandbox", "jeko", "cinetpay"}
  Locals = {FALSE, TRUE}
  Directions = {"collection", "payout"}
  Currencies = {"XOF", "EUR"}
  Channels = {"none", "mobile_money", "card"}
  Networks = {"none", "orange", "wave"}
  Countries = {"CI", "ML"}
  Contacts <- MCContacts
  Amounts = {2}
  Deviations <- MCDeviations
  Fees = {0, 150}
  Echoes = {"ours"}
  Hiding <- MCHiding
INVARIANTS
  RoutingIsSound
  SuccessIsMoney
  FailureIsNoMoney
PROPERTIES
  MoneyIsSeen
