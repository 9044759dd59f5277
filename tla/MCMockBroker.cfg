SPECIFICATION FairBrokerSpec
CONSTANTS
  NoLimit = NoLimit
  NoQuote = NoQuote
  Accounts = {a1}
  Orders = {o1, o2, o3}
  Quantities = {2}
  Limits = {3}
  Quotes <- MCQuotes
  OpeningCash = 7
  OpeningQty = 3
  ReplenishCredit = 1
INVARIANTS
  TradesInBounds
  BooksAgree
PROPERTIES
  FateIsFinal
  DueIsFilled
CHECK_DEADLOCK TRUE
