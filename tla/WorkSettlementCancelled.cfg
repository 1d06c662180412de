SPECIFICATION Spec
CONSTANTS
  note = note
  copy = copy
  Carriers = {note}
  CompWorkers = {cw1}
  OutboxWorkers = {ow1}
  MaxUnits = 3
  Units <- NoteUnits
  Price <- NotePrice
  Refundable <- AllRefundable
  Outcomes <- CancelledOutcomes
  MaxFaults = 1
  MaxOrphans = 0
CHECK_DEADLOCK FALSE
INVARIANTS
  ToldOnlyWhenBack
