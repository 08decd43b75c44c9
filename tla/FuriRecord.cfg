SPECIFICATION FairSpec
CONSTANTS
  Names <- MCNames
  Clients <- MCClients
  MaxGen = 1
INVARIANTS
  NoUseAfterErase
  HoldersExact
PROPERTIES
  ImplementsRegistry
  OpenReturns
