----------------------------- MODULE ConsoleApi -----------------------------
(***************************************************************************)
(* The API operations the web console calls: the permissions each one      *)
(* requires (require(...) in the handler) and the data it reads or writes, *)
(* as the names of the tables or external sources behind it.  Audit rows,  *)
(* which every write adds, are read by the audit page alone.               *)
(***************************************************************************)
LOCAL INSTANCE TLC

Op(needs, touches) == [needs |-> needs, touches |-> touches]

\* PERMISSIONS
Permissions == {
  "users:read", "users:write", "tenants:admin", "devices:read", "devices:write",
  "credentials:write", "tacacs:read", "tacacs:write", "tacacs:deploy", "configs:read",
  "configs:backup", "configs:restore", "configs:delete", "compliance:read",
  "compliance:write", "accounting:read", "sessions:read", "audit:read", "changes:read",
  "changes:write", "changes:approve", "integrations:write", "alerts:write", "reports:read"}

\* BUILTIN_ROLES
Roles == [
  engineer |-> {"devices:read", "devices:write", "tacacs:read", "configs:read", "configs:backup",
                "configs:restore", "compliance:read", "accounting:read", "sessions:read",
                "changes:read", "changes:write", "reports:read"},
  manager  |-> {"devices:read", "configs:read", "changes:read", "changes:write",
                "changes:approve", "audit:read", "reports:read"},
  noc      |-> {"devices:read", "configs:read", "compliance:read", "accounting:read", "changes:read"},
  auditor  |-> {"devices:read", "configs:read", "compliance:read", "accounting:read",
                "sessions:read", "audit:read", "changes:read", "tacacs:read", "reports:read",
                "users:read"},
  readOnly |-> {"devices:read", "configs:read", "compliance:read", "changes:read"}]

\* The admin role has every permission but tenants:admin; a superuser has them all.
AdminGrants == Permissions \ {"tenants:admin"}

InventoryApi == [
  sites        |-> Op({"devices:read"}, {"sites"}),
  racks        |-> Op({"devices:read"}, {"racks"}),
  platforms    |-> Op({"devices:read"}, {"platforms"}),
  vendors      |-> Op({"devices:read"}, {"vendors"}),
  credentials  |-> Op({"devices:read"}, {"credentials"}),
  deviceGroups |-> Op({"devices:read"}, {"deviceGroups"}),
  devices      |-> Op({"devices:read"}, {"devices"}),
  device       |-> Op({"devices:read"}, {"devices"}),
  topology     |-> Op({"devices:read"}, {"devices", "external"}),
  addSite      |-> Op({"devices:write"}, {"sites"}),
  addDevice    |-> Op({"devices:write"}, {"devices"}),
  setDevice    |-> Op({"devices:write"}, {"devices"}),
  dropDevice   |-> Op({"devices:write"}, {"devices"}),
  setCredential  |-> Op({"credentials:write"}, {"credentials"}),
  dropCredential |-> Op({"credentials:write"}, {"credentials"}),
  mainCredential |-> Op({"credentials:write"}, {"credentials"})]

PortsApi == [
  ports      |-> Op({"configs:read"}, {"deviceTypes"}),
  frontImage |-> Op({"configs:read"}, {"frontImages"}),
  setModel   |-> Op({"devices:write"}, {"deviceTypes"}),
  clearModel |-> Op({"devices:write"}, {"deviceTypes"})]

IpamApi == [
  ipamSummary |-> Op({"devices:read"}, {"external"}),
  ipamList    |-> Op({"devices:read"}, {"external"})]

ConfigApi == [
  backups        |-> Op({"configs:read"}, {"backups"}),
  backupActivity |-> Op({"configs:read"}, {"backups"}),
  runBackups     |-> Op({"configs:backup"}, {"backups", "commits"}),
  dropBackup     |-> Op({"configs:delete"}, {"backups"}),
  backupSettings |-> Op({"configs:read"}, {"backupSettings"}),
  setBackups     |-> Op({"configs:backup"}, {"backupSettings"}),
  config         |-> Op({"configs:read"}, {"commits"}),
  history        |-> Op({"configs:read"}, {"commits"}),
  diff           |-> Op({"configs:read"}, {"commits"}),
  restore        |-> Op({"configs:restore"}, {"commits", "backups"}),
  driftCheck     |-> Op({"configs:backup"}, {"drift"}),
  rules          |-> Op({"compliance:read"}, {"rules"}),
  setRule        |-> Op({"compliance:write"}, {"rules"}),
  dropRule       |-> Op({"compliance:write"}, {"rules"}),
  runCompliance  |-> Op({"compliance:write"}, {"runs"}),
  runs           |-> Op({"compliance:read"}, {"runs"}),
  run            |-> Op({"compliance:read"}, {"runs"})]

RancidApi == [
  importLogins  |-> Op({"credentials:write"}, {"credentials", "devices"}),
  rancidUpload  |-> Op({"configs:backup"}, {"rancid"}),
  rancidCompare |-> Op({"configs:read"}, {"rancid"}),
  rancidDiff    |-> Op({"configs:read"}, {"rancid"}),
  rancidClear   |-> Op({"configs:backup"}, {"rancid"}),
  pastStatus    |-> Op({"configs:read"}, {"past"}),
  pastUpload    |-> Op({"configs:backup"}, {"past"}),
  pastClear     |-> Op({"configs:backup"}, {"past"})]

ActivityApi == [
  commands       |-> Op({"accounting:read"}, {"accounting"}),
  commandStats   |-> Op({"accounting:read"}, {"accounting"}),
  commandTop     |-> Op({"accounting:read"}, {"accounting"}),
  recordings     |-> Op({"sessions:read"}, {"recordings"}),
  cast           |-> Op({"sessions:read"}, {"recordings"}),
  userSessions   |-> Op({"accounting:read"}, {"accounting"}),
  deviceActivity |-> Op({"configs:read"}, {"backups", "accounting"}),
  audit          |-> Op({"audit:read"}, {"audit"}),
  auditStats     |-> Op({"audit:read"}, {"audit"}),
  verifyAudit    |-> Op({"audit:read"}, {}),
  changes        |-> Op({"changes:read"}, {"changes"}),
  changeStats    |-> Op({"changes:read"}, {"changes"}),
  change         |-> Op({"changes:read"}, {"changes", "comments", "backups"}),
  addChange      |-> Op({"changes:write"}, {"changes"}),
  setChange      |-> Op({"changes:write"}, {"changes"}),
  comment        |-> Op({"changes:read"}, {"comments"})]

\* TRANSITIONS: what apply_transition asks of the caller besides the handler.
Transitions == [
  submit    |-> "changes:write",
  approve   |-> "changes:approve",
  reject    |-> "changes:approve",
  implement |-> "changes:write",
  close     |-> "changes:write",
  cancel    |-> "changes:write"]
TransitionApi == [t \in DOMAIN Transitions |-> Op({"changes:read", Transitions[t]}, {"changes", "comments"})]

OperationsApi == [
  integrations    |-> Op({"devices:read"}, {"integrations"}),
  addIntegration  |-> Op({"integrations:write"}, {"integrations"}),
  dropIntegration |-> Op({"integrations:write"}, {"integrations"}),
  sync            |-> Op({"integrations:write"}, {"integrations", "external"}),
  ixp             |-> Op({"devices:read"}, {"external"}),
  channels        |-> Op({"alerts:write"}, {"channels"}),
  addChannel      |-> Op({"alerts:write"}, {"channels"}),
  testChannel     |-> Op({"alerts:write"}, {}),
  dropChannel     |-> Op({"alerts:write"}, {"channels"}),
  alertRules      |-> Op({"alerts:write"}, {"alertRules"}),
  addAlertRule    |-> Op({"alerts:write"}, {"alertRules"}),
  dropAlertRule   |-> Op({"alerts:write"}, {"alertRules"}),
  alerts          |-> Op({"devices:read"}, {"alerts"}),
  ack             |-> Op({"devices:read"}, {"alerts"}),
  report          |-> Op({"reports:read"}, {"report"}),
  schedules       |-> Op({"reports:read"}, {"schedules"}),
  addSchedule     |-> Op({"reports:read", "alerts:write"}, {"schedules"}),
  dashboard       |-> Op({"devices:read"}, {"devices", "backups", "changes", "alerts", "runs", "accounting"}),
  search          |-> Op({"devices:read"}, {"devices", "sites", "users", "changes"})]

TacacsApi == [
  servers    |-> Op({"tacacs:read"}, {"servers"}),
  addServer  |-> Op({"tacacs:write"}, {"servers"}),
  dropServer |-> Op({"tacacs:write"}, {"servers"}),
  deploy     |-> Op({"tacacs:deploy"}, {"servers", "revisions"}),
  deployAll  |-> Op({"tacacs:deploy"}, {"servers", "revisions"}),
  revisions  |-> Op({"tacacs:read"}, {"revisions"}),
  render     |-> Op({"tacacs:read"}, {"policies", "nas", "mappings", "servers"}),
  nas        |-> Op({"tacacs:read"}, {"nas"}),
  addNas     |-> Op({"tacacs:write"}, {"nas"}),
  importNas  |-> Op({"tacacs:write"}, {"nas"}),
  rotateKey  |-> Op({"tacacs:write"}, {"nas"}),
  dropNas    |-> Op({"tacacs:write"}, {"nas"}),
  policies   |-> Op({"tacacs:read"}, {"policies"}),
  setPolicy  |-> Op({"tacacs:write"}, {"policies"}),
  dropPolicy |-> Op({"tacacs:write"}, {"policies"}),
  mappings   |-> Op({"tacacs:read"}, {"mappings"}),
  setMapping |-> Op({"tacacs:write"}, {"mappings"}),
  dropMapping |-> Op({"tacacs:write"}, {"mappings"}),
  events     |-> Op({"accounting:read"}, {"events"}),
  authStats  |-> Op({"accounting:read"}, {"events", "accounting"}),
  importTac  |-> Op({"tacacs:write"}, {"users", "groups", "mappings", "policies", "nas"})]

\* A role is bound by who has all its permissions, and the dialog offers every role:
\* of the built-in ones admin asks for most.  addRole and addToken want the same of
\* what they hand out, and their dialogs offer what the user has.
UsersApi == [
  users       |-> Op({"users:read"}, {"users"}),
  user        |-> Op({"users:read"}, {"users"}),
  addUser     |-> Op({"users:write"}, {"users"}),
  setUser     |-> Op({"users:write"}, {"users"}),
  dropUser    |-> Op({"users:write"}, {"users"}),
  groups      |-> Op({"users:read"}, {"groups"}),
  setGroup    |-> Op({"users:write"}, {"groups"}),
  dropGroup   |-> Op({"users:write"}, {"groups"}),
  permissions |-> Op({"users:read"}, {"permissions"}),
  roles       |-> Op({"users:read"}, {"roles"}),
  addRole     |-> Op({"users:write"}, {"roles"}),
  bindings    |-> Op({"users:read"}, {"bindings"}),
  addBinding  |-> Op({"users:write"} \cup AdminGrants, {"bindings"}),
  dropBinding |-> Op({"users:write"}, {"bindings"}),
  logins      |-> Op({"audit:read"}, {"logins"}),
  tenants     |-> Op({"tenants:admin"}, {"tenants"})]

\* A signed-in user's own account: get_ctx alone.
AccountApi == [
  me          |-> Op({}, {"me", "users", "groups", "roles", "bindings"}),
  setMe       |-> Op({}, {"me", "users"}),
  setPassword |-> Op({}, {"password"}),
  mfaSetup    |-> Op({}, {"mfaSecret"}),
  mfaVerify   |-> Op({}, {"me", "users"}),
  tokens      |-> Op({}, {"tokens"}),
  addToken    |-> Op({}, {"tokens"}),
  dropToken   |-> Op({}, {"tokens"})]

Api == InventoryApi @@ PortsApi @@ IpamApi @@ ConfigApi @@ RancidApi @@ ActivityApi
         @@ TransitionApi @@ OperationsApi @@ TacacsApi @@ UsersApi @@ AccountApi

RoleOf == Roles @@ [admin |-> AdminGrants, superuser |-> Permissions]
=============================================================================
