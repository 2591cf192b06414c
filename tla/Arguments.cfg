SPECIFICATION Spec
CONSTANTS
  Said <- SaidCharacters
  Configured <- ConfiguredCharacters
  MaxSaid = 6
  MaxConfigured = 5
INVARIANTS TypeOK MessageIsWords RestHasSameWords ParametersAreWords
