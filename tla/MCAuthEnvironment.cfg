SPECIFICATION Spec
CONSTANTS
  alice = alice
  bob = bob
  carol = carol
  s1 = s1
  s2 = s2
  n1 = n1
  n2 = n2
  n3 = n3
  w1 = w1
  w2 = w2
  r1 = r1
  r2 = r2
  MaxTouched = 1
  Members <- MCMembers
  MemberNames <- MCMemberNames
  MatchesOf <- MCMatchesOf
  RBACRoles = {"view"}
  Bindings = {"rb1", "rb2"}
  FreshBinding = "fresh"
  Scopes <- MCScopes
  ProfileOf <- MCProfileOf
  Policies = {1, 2, 3}
  KeptBy <- MCKeptBy
  FreshPolicy = 4
  AuthRoles = {"use", "own"}
  RelationPage = 1
  ACNs <- MCACNs
  NodeNames = {"n1", "ip1", "n23"}
  NodesCalled <- MCNodesCalled
  Usable <- MCUsable
  Rules = {"rule1", "rule2"}
  VCs = {"mine", "theirs"}
  MyVC = "mine"
  Workspaces <- MCWorkspaces
  SSPRoles <- MCSSPRoles
  RoleNames = {"admin", "user"}
  RolesCalled <- MCRolesCalled
  Texts = {"x"}
  ClaimNamed <- MCClaimNamed
  MaxNodes = 6
  MaxCards = 4
  K8sNodes <- MCK8sNodes
  NodeArgs = {"h1", "ip1", "h2"}
  MaxArgs = 3
  NodeNamed <- MCNodeNamed

INVARIANT KeepsTheEnvironment
CHECK_DEADLOCK FALSE
