SPECIFICATION Spec
CONSTANTS
  admin = admin
  user = user
  init = init
  profileCreated = profileCreated
  contactsCreated = contactsCreated
  u1 = u1
  u2 = u2
  profile = profile
  contacts = contacts
  data = data
  revised = revised
  rejected = rejected
  NoUser = NoUser
  NoState = NoState
  Absent = Absent
  None = None
  NoJob = NoJob
  NoResource = NoResource
  Roles <- MCRoles
  States <- MCStates
  UserIds <- MCUserIds
  Sections <- MCSections
  Payloads <- MCPayloads
  Rejections <- MCRejections
  GetLet <- MCGetLet
  CreateLet <- MCCreateLet
  UpdateLet <- MCUpdateLet
  DeleteLet <- MCDeleteLet
  CreateSet = init
  SectionApi <- MCSectionApi
  ValidBodies <- MCValidBodies
  ValidPayloads <- MCValidPayloads
  ValidDocs <- MCValidDocs
  Jobs <- MCJobs
  StartDbs <- MCStartDbs
  IdField = FALSE
  Requests = {q1, q2}
  Resources = {r1}
  MaxInFlight = 2
PROPERTY TransitionsGoverned
CHECK_DEADLOCK FALSE
