\* Two ghosts, of which ghost 0 starts off the graph and ghost 1 drives; a
\* session at the least price a ghost accepts and one a cent below.
CONSTANTS
  cell1 = cell1
  cell2 = cell2
  elsewhere = elsewhere
  fair = fair
  low = low
  None = None
  Nodes = {1, 2, 3}
  Length <- MCLength
  Edges <- MCEdges
  Fallback = 2
  CellAt <- MCCellAt
  Dt = 2
  N = 2
  MinCents = 8
  Sids = {fair, low}
  Offered <- MCOffered
  Many = 2
SPECIFICATION FairSpec
INVARIANTS
  TypeOK
  RegisteredWhereItIs
  BidsFollowInvites
PROPERTIES
  NoJump
  GhostsArrive
  InvitesAnswered
  RoundsGoOn
