\* All graphs on three nodes, and lists of up to three specs with errors.
SPECIFICATION Spec
CONSTANTS
  IDs <- MCIDs
  Drivers <- MCDrivers
  Definitions <- MCDefinitions
  SpecLists <- MCSpecLists
  InitialDefs <- MCInitialDefs
  Registrations <- MCRegistrations
INVARIANTS TypeOK TopoOrdered TopoComplete CycleIsReal AcceptsTheValid DefinitionKept
