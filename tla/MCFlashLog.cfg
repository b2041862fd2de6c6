SPECIFICATION Spec
CONSTANTS
  FlashSize = 12
  RecordSize = 3
  Records = {r1, r2}
  Erased = Erased
INVARIANTS
  TypeOK
  RecordsIntact
  UploadFaithful
