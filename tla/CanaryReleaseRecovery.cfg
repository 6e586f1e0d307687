\* One release and two operators that keep recovering.
SPECIFICATION FairSpec
CONSTANTS
  r1 = r1
  r2 = r2
  r3 = r3
  a1 = a1
  a2 = a2
  k1 = k1
  k2 = k2
  Operators = {p1, p2}
  Releases = {r1}
  Approvals = {a1}
  Risks = {k1}
  approvalOf <- MCApprovalOf
  riskOf <- MCRiskOf
  Nobody = Nobody
  NoRelease = NoRelease
PROPERTY OutcomeIsLearned
