SPECIFICATION Spec
CONSTANTS
  Threads = {a, b}
  Users = {ann, bob, cat}
  MaxOrgs = 2
  MaxRequests = 5
SYMMETRY ThreadsAndUsers
INVARIANTS
  TypeOK
  OwnersUnlessOvertaken
  AuthorityUnlessOvertaken
  TokensOpenOneMembership
PROPERTIES
  MembershipLifecycle
  ClaimedByInvitation
\* The requests are bounded: when they are served, everything has stopped.
CHECK_DEADLOCK FALSE
