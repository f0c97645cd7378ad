SPECIFICATION Spec
CONSTANTS
  Threads = {a}
  Users = {ann, bob, cat}
  MaxOrgs = 2
  MaxRequests = 4
INVARIANT
  InvitationsCanBeAccepted
CHECK_DEADLOCK FALSE
