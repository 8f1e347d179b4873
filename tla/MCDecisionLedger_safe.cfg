SPECIFICATION LedgerSpec
CONSTANTS
  analyst = analyst
  chief = chief
  Decisions = {d1}
  Subjects <- MCSubjects
  Roles <- MCRoles
  Contents = {x1, x2}
  Clients = {c1, c2}
  RequireSeparation = TRUE
  Nobody = Nobody
  Blank = Blank
  MaxVersion = 5
SYMMETRY MCSymmetry
INVARIANTS
  LedgerTypeOK
  TrailMatchesSnapshot
  ApprovalBindsContent
  PacketTrailCoversSnapshot
PROPERTY GovernedSpec
