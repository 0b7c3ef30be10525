SPECIFICATION FairSpec
CONSTANTS
  Users = {owner, guest}
  Owner = owner
  NoUser = NoUser
  Workspaces = {w}
  Workspace = w
  Queues = {c1}
  NoClient = NoClient
  QueueMax = 1
  MaxEvents = 2
INVARIANTS IInv GaplessDelivery NoSilentLoss NothingAfterRevocation NothingAfterLogout
PROPERTY UnentitledIsClosed
