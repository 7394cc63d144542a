SPECIFICATION Spec
CONSTANTS
  Primary = Primary
  Standby = Standby
  MaxSigned = 1
  None = None
INVARIANTS
  TypeOK
  AtMostOneSigner
  HistoryNeverForks
PROPERTIES
  ImplementsSigning
