\* Two resources whose IDs are written the same.
SPECIFICATION Spec
CONSTANTS
  IDs <- AliasIDs
  Drivers <- MCDrivers
  Definitions <- MCDefinitions
  SpecLists <- AliasLists
  InitialDefs <- MCInitialDefs
  Registrations = {}
INVARIANT DuplicateIsReal
