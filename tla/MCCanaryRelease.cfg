\* Three releases that compete for approvals, authorizations and the budget,
\* two operator processes.
SPECIFICATION Spec
CONSTANTS
  r1 = r1
  r2 = r2
  r3 = r3
  a1 = a1
  a2 = a2
  k1 = k1
  k2 = k2
  Operators = {p1, p2}
  Releases = {r1, r2, r3}
  Approvals = {a1, a2}
  Risks = {k1, k2}
  approvalOf <- MCApprovalOf
  riskOf <- MCRiskOf
  Nobody = Nobody
  NoRelease = NoRelease
SYMMETRY OperatorSymmetry
INVARIANTS TypeOK AtMostOnePost TokensSpentTogether PostIsJournaled PossibleSendRemembered VerdictIsTrue FillCountedOnce JournalClosedLast
PROPERTIES ReconciledIsFinal ImplementsOneShot
