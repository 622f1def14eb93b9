SPECIFICATION Spec
CONSTANTS
  Outputs = {o}
  Processes = {p, q}
  Readers = {q}
  Verdicts = {"qa_passed"}
  None = None
  MaxRequests = 4
  MaxDisturbances = 2
CHECK_DEADLOCK FALSE
INVARIANTS
  RecordsAgree
  CommitIsRecorded
  ReceiptsReadable
  BarriersHaveOwners
