\* As MCIoStreams.cfg; among the files is one with an error after a blank line.
SPECIFICATION Spec
CONSTANTS
  MaxHistory = 25
  WordBits = 32
  Fields <- MCFields
  IoStrings <- MCIoStrings
  Setups <- MCSetups
  Others = {1}
  MaxIo = 2
INVARIANTS
  NoIoUnderBadFile
CHECK_DEADLOCK FALSE
