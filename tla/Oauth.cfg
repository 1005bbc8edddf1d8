SPECIFICATION Spec
CONSTANTS
  c1 = c1
  c2 = c2
  alice = alice
  mallory = mallory
  Clients <- MCClients
  Logins <- MCLogins
  AllowedUsers <- MCAllowed
  Requests <- MCRequests
  NoLogin = NoLogin
  StateTTL = 1
  CodeTTL = 1
  AccessTTL = 1
  RefreshTTL = 2
  ClientTTL = 1
  MaxTime = 2
  MaxSerial = 7
  MaxRestarts = 1
SYMMETRY ClientSymmetry
INVARIANT TypeOK
INVARIANT TokensTraceToASignIn
PROPERTY EndedSessionsStayEnded
PROPERTY RestartKeepsSessions
