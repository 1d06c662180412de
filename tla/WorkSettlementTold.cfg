SPECIFICATION Spec
CONSTANTS
  note = note
  copy = copy
  Carriers = {note, copy}
  CompWorkers = {cw1}
  OutboxWorkers = {ow1}
  MaxUnits = 3
  Units <- NoteUnits
  Price <- NotePrice
  Refundable <- AllRefundable
  Outcomes <- WholeOutcomes
  MaxFaults = 0
  MaxOrphans = 0
CHECK_DEADLOCK FALSE
INVARIANTS
  ToldOnlyWhenBack
