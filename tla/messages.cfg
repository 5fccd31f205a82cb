\* An array of five bytes, parts of two, a space of three for a message in another.
CONSTANTS
  Fields <- MCFields
  ECSSMaxMessageSize = 5
  EmbeddedSize = 3
  SecondaryHeaderSize = 1
  MaxReadSize = 2
  PartSize = 2
  MaxFields = 6
SPECIFICATION Spec
INVARIANT TypeOK
INVARIANT ReadsBack
INVARIANT PartsRebuild
CHECK_DEADLOCK FALSE
