SPECIFICATION CompensationSpec
CONSTANTS
  c1 = c1
  c2 = c2
  feed = feed
  rob = rob
  rae = rae
  NoCaller = NoCaller
  NoUpdater = NoUpdater
  Callers <- MCCallers
  Updaters <- MCUpdaters
  Receivers <- MCReceivers
  Fees <- MCFees
  Prices <- MCPrices
  InitialPrice <- MCInitialPrice
  StaleAfter = 0
  Day = 0
  MaxPerDay = 1
  MaxReceipts = 3
  MaxUpdates = 1
  MaxTime = 1
INVARIANTS
  DailyOverrunBounded
  PaymentsBounded
  QuoteUnlessOvertaken
PROPERTIES
  EveryQuoteAnswered
