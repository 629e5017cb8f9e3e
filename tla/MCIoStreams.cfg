\* Two fields, the monitor and another task, two inputs or outputs; masks of two
\* words.  The model ends after these, or stops at an error in the file.
SPECIFICATION Spec
CONSTANTS
  MaxHistory = 25
  WordBits = 32
  Fields <- MCFields
  IoStrings <- MCIoStrings
  Setups <- MCSetups
  Others = {1}
  MaxIo = 2
INVARIANTS
  StreamsAsAsked
  SameFieldsEverywhere
CHECK_DEADLOCK FALSE
