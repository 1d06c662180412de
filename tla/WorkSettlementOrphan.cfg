SPECIFICATION Spec
CONSTANTS
  note = note
  copy = copy
  Carriers = {note}
  CompWorkers = {cw1}
  OutboxWorkers = {ow1}
  MaxUnits = 3
  Units <- NoteUnits
  Price <- NotePrice
  Refundable <- AllRefundable
  Outcomes <- PartialOutcomes
  MaxFaults = 0
  MaxOrphans = 1
CHECK_DEADLOCK FALSE
INVARIANTS
  ChargeMatchesDelivery
