SPECIFICATION FairSpec
CONSTANTS
  note = note
  copy = copy
  Carriers = {note}
  CompWorkers = {cw1}
  OutboxWorkers = {ow1}
  MaxUnits = 3
  Units <- NoteUnits
  Price <- CheapPrice
  Refundable <- AllRefundable
  Outcomes <- PartialOutcomes
  MaxFaults = 0
  MaxOrphans = 0
CHECK_DEADLOCK FALSE
PROPERTIES
  RefundReachesLedger
