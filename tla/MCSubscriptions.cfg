SPECIFICATION ListeningSpec
CONSTANTS
  admin = admin
  user = user
  init = init
  profileCreated = profileCreated
  contactsCreated = contactsCreated
  u1 = u1
  u2 = u2
  profile = profile
  contacts = contacts
  data = data
  revised = revised
  rejected = rejected
  NoUser = NoUser
  NoState = NoState
  Absent = Absent
  None = None
  NoJob = NoJob
  NoResource = NoResource
  Roles <- MCRoles
  States <- MCStates
  UserIds <- MCUserIds
  Sections <- MCSections
  Payloads <- MCPayloads
  Rejections <- MCRejections
  GetLet <- MCGetLet
  CreateLet <- MCCreateLet
  UpdateLet <- MCUpdateLet
  DeleteLet <- MCDeleteLet
  CreateSet = init
  SectionApi <- MCSectionApi
  ValidBodies <- MCValidBodies
  ValidPayloads <- MCValidPayloads
  ValidDocs <- MCValidDocs
  Jobs <- MCListeningJobs
  StartDbs <- MCListeningDbs
  IdField = TRUE
  q1 = q1
  q2 = q2
  Requests = {q1, q2}
  Resources = {r1}
  MaxInFlight = 2
  l1 = l1
  Listeners = {l1}
  route = route
  exported = exported
  Instances <- MCInstances
  Routings <- MCRoutings
  At <- MCAt
  Visitors <- MCVisitors
  NoGrant = NoGrant
INVARIANT ListeningTypeOK
INVARIANT HeardIsDue
INVARIANT NothingMissed
PROPERTY ToldInTheEnd
PROPERTY SubscriptionsSettle
PROPERTY RequestsEnd
CHECK_DEADLOCK FALSE
