SPECIFICATION Spec
CONSTANTS
  Seconds <- MCSeconds
  MaxTime = 6
  MaxLength = 7
INVARIANTS
  FieldsAgree
PROPERTY CountsDown
