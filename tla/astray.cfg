SPECIFICATION ReadingsSpec
CONSTANTS
  Sensors <- AstraySensors
  RegistersOf <- MCAnswers
  MaxTries = 3
INVARIANT EveryKeyShowsItsOwn
