SPECIFICATION Spec
CONSTANTS
  admin = admin
  customer = customer
  staff = staff
  roles = roles
  offline = offline
  uma = uma
  init = init
  closed = closed
  u1 = u1
  u2 = u2
  NoUser = NoUser
  Roles <- MCRoles
  States <- MCStates
  UserIds <- MCUserIds
  Groups <- MCGroups
  SystemGroups <- MCSystemGroups
  DefaultGroup = customer
  Supported <- MCSupported
  Tokens <- MCTokens
  Lets <- MCLets
  Docs <- MCDocs
INVARIANT TypeOK
INVARIANT LoopAgrees
INVARIANT AdmissionJustified
INVARIANT ListMatchesGet
INVARIANT SomeGroupStays
INVARIANT LookupLossFailsClosed
INVARIANT GuardKeepsOutNobody
PROPERTY RequestDecided
CHECK_DEADLOCK FALSE
