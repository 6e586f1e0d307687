\* Whether a possibly sent order stays recoverable.
SPECIFICATION Spec
CONSTANTS
  r1 = r1
  r2 = r2
  r3 = r3
  a1 = a1
  a2 = a2
  k1 = k1
  k2 = k2
  Operators = {p1}
  Releases = {r1}
  Approvals = {a1}
  Risks = {k1}
  approvalOf <- MCApprovalOf
  riskOf <- MCRiskOf
  Nobody = Nobody
  NoRelease = NoRelease
INVARIANT RecoveryStaysPossible
