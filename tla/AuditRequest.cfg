\* A request ends, and so does the model of it.
CHECK_DEADLOCK FALSE
SPECIFICATION AuditSpec
CONSTANTS
  r1 = r1  r2 = r2  n1 = n1  q1 = q1  t1 = t1  T1 = T1
  NoTable = NoTable  Unset = Unset
  Codes <- MCCodes
  Legacy <- MCLegacy
  ruleOf <- MCRuleOf
  DefaultLevel <- MCDefaultLevel
  Requests <- MCRequests
  Limits <- MCLimits
  Inputs <- MCInputs
  Req = q1
  AlterOnce = r1
  Breaks <- MCBreaks
  Alters <- MCAlters
  LowerName <- MCLowerName
  MaxPacket = 40
  MaxRequestBytes = 30
  MaxStatements = 3
  MaxStatementBytes = 12
INVARIANTS
  TypeOK
  LastSetWins
  SplitIsLexical
  StatementsKept
  ServerStaysUp
  ExecutedWasAdmitted
  ExecutedWasWritten
  OnePolicy
  AlterOnceFlagged
