SPECIFICATION FairSpec
CONSTANTS
  note = note
  copy = copy
  Carriers = {note}
  CompWorkers = {cw1, cw2}
  OutboxWorkers = {ow1, ow2}
  MaxUnits = 3
  Units <- NoteUnits
  Price <- NotePrice
  Refundable <- AllRefundable
  Outcomes <- WholeOutcomes
  MaxFaults = 2
  MaxOrphans = 1
CHECK_DEADLOCK FALSE
INVARIANTS
  SettledIsPaidOut
  ToldOnlyWhenBack
PROPERTIES
  OnlyOwnerReleases
  OwnedWorkSettles
