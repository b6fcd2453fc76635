\* Every table of at most three rules; the conversations are held with the
\* table of the server.
CONSTANTS
  Rule <- MCRule
  MaxRules = 3
  Url <- MCUrl
  Token <- MCToken
  Talk <- MCTalk
  Served <- MCServed
  Files <- MCFiles
  MaxPairs = 2

SPECIFICATION ExchangeSpec
INVARIANTS
  HandledAsSent
  ResponsesFramed
  RoutesAgree
PROPERTY TextAsRead
\* The conversation ends.
CHECK_DEADLOCK FALSE
