SPECIFICATION FairSpec
CONSTANTS
  Callers <- MCCallers
  ExpiresIn <- MCExpiresIn
  DefaultLifetime = 2
  MaxTime = 4
INVARIANTS
  TypeOK
  SingleFlight
  HandedOutAlive
PROPERTIES
  ValidTokenKept
  HeaderReturns
