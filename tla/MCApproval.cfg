CONSTANTS
  Actions = {a1}
  Users = {u1, u2}
  Requests = {r1, r2, r3}
  TTL = 1
  MaxNow = 2
  None = None
SPECIFICATION FairSpec
INVARIANT OneDecider
INVARIANT WriteNeedsOwnersApproval
INVARIANT ExecutedWasSent
INVARIANT AuditFatesAgree
PROPERTY ProposalsAreSettled
PROPERTY ImplementsWritePermit
PROPERTY ApprovedIsNeverSwept
CHECK_DEADLOCK FALSE
