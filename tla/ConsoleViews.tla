---------------------------- MODULE ConsoleViews ----------------------------
(***************************************************************************)
(* The components of the web console as what they ask of the API: each     *)
(* query with its cache key, the operation it calls, the permissions the   *)
(* component checks before it is enabled and when it is polled; each       *)
(* mutation with its operation, the permissions that show its control, the *)
(* keys it invalidates, the keys it writes itself and the screen it opens. *)
(* A component that reads the authentication context is drawn again when   *)
(* the context changes; so is what it contains.                            *)
(***************************************************************************)
LOCAL INSTANCE TLC

Query(key, from) == [key |-> key, from |-> from, gate |-> {}, polled |-> "never"]
Polled(q)        == [q EXCEPT !.polled = "always"]
\* refetchInterval as a function of the data held: while they say work is under way.
PolledWhileBusy(q) == [q EXCEPT !.polled = "busy"]
If(perms, q)     == [q EXCEPT !.gate = perms]

Mutation(from, gate, invalidates) ==
  [from |-> from, gate |-> gate, invalidates |-> invalidates, writes |-> {}, opens |-> "",
   answered |-> TRUE, steps |-> 1, onError |-> FALSE]
Opening(m, screen) == [m EXCEPT !.opens = screen]
Writing(m, keys)   == [m EXCEPT !.writes = keys]
\* A mutation whose request only queues the work.
Queued(m)          == [m EXCEPT !.answered = FALSE]
\* A mutation of several requests, which refreshes when one of them fails too.
Several(m)         == [m EXCEPT !.steps = 2, !.onError = TRUE]

View(queries, mutations)  == [queries |-> queries, mutations |-> mutations, context |-> FALSE]
Aware(queries, mutations) == [queries |-> queries, mutations |-> mutations, context |-> TRUE]

-----------------------------------------------------------------------------
(* Hooks                                                                    *)

useSites        == Query(<<"sites">>, "sites")
usePlatforms    == Query(<<"platforms">>, "platforms")
useVendors      == Query(<<"vendors">>, "vendors")
useCredentials  == Query(<<"credentials">>, "credentials")
useDeviceGroups == Query(<<"device-groups">>, "deviceGroups")
useGroups       == If({"users:read"}, Query(<<"groups">>, "groups"))
useRoles        == If({"users:read"}, Query(<<"roles">>, "roles"))
useAllUsers     == If({"users:read"}, Query(<<"users", "all">>, "users"))
useDeviceNames  == Query(<<"devices", "names">>, "devices")
useDashboard    == Polled(If({"devices:read"}, Query(<<"dashboard">>, "dashboard")))
useTacacsCounts == If({"accounting:read"}, Query(<<"tacacs", "activity", "range">>, "authStats"))
useCommandActivity ==
  If({"accounting:read"}, Query(<<"accounting", "activity", "window">>, "commandStats"))
useBackupActivity ==
  If({"configs:read"}, Query(<<"backups", "activity", "range">>, "backupActivity"))
useDeviceHistory == Query(<<"device", "id", "history">>, "history")
useDeviceBackups == Query(<<"backups", "device", "id", "all">>, "backups")

-----------------------------------------------------------------------------
(* The shell around every screen                                            *)

AuthProvider     == Aware({Query(<<"auth", "me">>, "me")}, {})
SidebarNav       == Aware({useDashboard}, {})
TacacsHealthCard == Aware({Polled(If({"tacacs:read"}, Query(<<"tacacs", "servers">>, "servers")))}, {})
TenantSwitcher   == Aware({If({"tenants:admin"}, Query(<<"tenants">>, "tenants"))}, {})
CommandPalette   == Aware({If({"devices:read"}, Query(<<"search", "q">>, "search"))}, {})

\* Mounted around every screen, but for the palette: it covers them while it is open.
Shell == {AuthProvider, SidebarNav, TacacsHealthCard, TenantSwitcher}

-----------------------------------------------------------------------------
(* Overview                                                                 *)

DashboardPage == Aware(
  {useDashboard, useBackupActivity, useTacacsCounts, useCommandActivity,
   If({"devices:read"}, Query(<<"devices", "created">>, "devices")),
   If({"compliance:read"}, Query(<<"compliance", "runs", "1">>, "runs")),
   If({"compliance:read"}, Query(<<"compliance", "run", "latest">>, "run"))}, {})

DevicesPage == Aware(
  {Query(<<"devices", "list", "f">>, "devices"), useSites, usePlatforms},
  {Queued(Mutation("runBackups", {"configs:backup"}, {<<"backups">>}))})

\* One form creates a device and changes one.
DeviceFormDialog(opens) == View(
  {useSites, usePlatforms, useVendors, useCredentials, useDeviceGroups},
  {Opening(Writing(Mutation(IF opens = "" THEN "setDevice" ELSE "addDevice", {"devices:write"},
                            {<<"devices">>}), {<<"device", "id">>}), opens)})

SitesPage == Aware({Query(<<"sites">>, "sites"), Query(<<"racks">>, "racks")}, {})
SiteFormDialog == View({}, {Mutation("addSite", {"devices:write"}, {<<"sites">>})})

IpamPage == View({Query(<<"ipam", "summary">>, "ipamSummary"), Query(<<"ipam", "kind">>, "ipamList")}, {})
MapPage == View({useSites, Polled(Query(<<"topology", "f">>, "topology"))}, {})

AlertsList == View(
  {Polled(Query(<<"alerts", "list", "f">>, "alerts"))},
  {Mutation("ack", {}, {<<"alerts">>, <<"dashboard">>})})
ChannelsTab == View(
  {Query(<<"alerts", "channels">>, "channels")},
  {Mutation(op, {"alerts:write"}, {<<"alerts", "channels">>}) : op \in {"addChannel", "dropChannel"}}
    \cup {Mutation("testChannel", {"alerts:write"}, {})})
RulesTab == View(
  {Query(<<"alerts", "rules">>, "alertRules"), Query(<<"alerts", "channels">>, "channels")},
  {Mutation(op, {"alerts:write"}, {<<"alerts", "rules">>}) : op \in {"addAlertRule", "dropAlertRule"}})

-----------------------------------------------------------------------------
(* One device                                                               *)

DeviceDetailPage == Aware(
  {Query(<<"device", "id">>, "device")},
  {Queued(Mutation("runBackups", {"configs:backup"}, {<<"backups">>})),
   Opening(Mutation("dropDevice", {"devices:write"}, {<<"devices">>}), "devices")})

OverviewTab == Aware(
  {Query(<<"backups", "device", "id", "recent">>, "backups")},
  {Mutation("driftCheck", {"configs:backup"}, {})})
ActivityTab == View({Query(<<"device", "id", "activity">>, "deviceActivity")}, {})
FrontPhoto  == View({Query(<<"device", "id", "front-image">>, "frontImage")}, {})
PortsTab    == Aware({Query(<<"device", "id", "ports">>, "ports")}, {})
ModelDialog == View({}, {Mutation(op, {"devices:write"}, {<<"device", "id", "ports">>}) :
                         op \in {"setModel", "clearModel"}})
ConfigTab   == View({useDeviceHistory, Query(<<"device", "id", "config">>, "config")}, {})
HistoryTab  == View({useDeviceHistory}, {})
DiffTab     == View({useDeviceHistory, useDeviceBackups, Query(<<"device", "id", "diff">>, "diff")}, {})
ComplianceTab == View(
  {Query(<<"compliance", "runs", "1">>, "runs"), Query(<<"compliance", "run", "latest">>, "run")}, {})
CommandsTab == View({Query(<<"accounting", "device", "id">>, "commands")}, {})
RestoreTab  == Aware(
  {Query(<<"backups", "device", "id", "restorable">>, "backups"),
   If({"changes:read"}, Query(<<"changes", "approved">>, "changes"))},
  {Mutation("restore", {"configs:restore"}, {<<"backups">>, <<"device", "id">>})})

-----------------------------------------------------------------------------
(* Configuration                                                            *)

BackupsPage == Aware(
  {Polled(Query(<<"backups", "list", "f">>, "backups")), useBackupActivity, useDeviceNames},
  {Mutation("dropBackup", {"configs:delete"}, {<<"backups">>})})
RunBackupDialog == Aware(
  {If({"changes:read"}, Query(<<"changes", "open-for-backup">>, "changes")), useDeviceNames},
  {Queued(Mutation("runBackups", {"configs:backup"}, {<<"backups">>}))})
BackupSettingsDialog == Aware({Query(<<"backup-settings">>, "backupSettings")}, {})
PlatformRow == View({}, {Writing(Mutation("setBackups", {"configs:backup"}, {}), {<<"backup-settings">>})})

CredentialsPage == Aware(
  {Query(<<"credentials">>, "credentials")},
  {Mutation(op, {"credentials:write"}, {<<"credentials">>}) : op \in {"mainCredential", "dropCredential"}})
CredentialDialog == View({}, {Mutation("setCredential", {"credentials:write"}, {<<"credentials">>})})

CredentialsStep == View({}, {Mutation("importLogins", {"credentials:write"}, {<<"credentials">>, <<"devices">>})})
CompareStep == Aware(
  {Query(<<"rancid", "compare">>, "rancidCompare")},
  {Mutation(op, {"configs:backup"}, {<<"rancid">>}) : op \in {"rancidUpload", "rancidClear"}})
CompareDialog == View({Query(<<"rancid", "compare", "id">>, "rancidDiff")}, {})
\* Polled while an import is queued or running.
HistoryStep == Aware(
  {PolledWhileBusy(Query(<<"rancid", "history">>, "pastStatus"))},
  {Writing(Mutation("pastUpload", {"configs:backup"}, {}), {<<"rancid", "history">>}),
   Mutation("pastClear", {"configs:backup"}, {<<"rancid", "history">>, <<"device">>})})

CompliancePage == Aware(
  {}, {Opening(Mutation("runCompliance", {"compliance:write"}, {<<"compliance">>}), "run")})
RunsPanel  == View({Query(<<"compliance", "runs", "90">>, "runs"), Query(<<"compliance", "run", "latest">>, "run")}, {})
RulesPanel == Aware(
  {Query(<<"compliance", "rules">>, "rules")},
  {Mutation("dropRule", {"compliance:write"}, {<<"compliance", "rules">>})})
RuleDialog == View(
  {usePlatforms, useDeviceGroups},
  {Mutation("setRule", {"compliance:write"}, {<<"compliance", "rules">>})})
ComplianceRunPage == View({Query(<<"compliance", "run", "id">>, "run")}, {})

ChangesPage == Aware({Query(<<"changes", "list", "f">>, "changes"), Query(<<"changes", "stats">>, "changeStats")}, {})
ChangeFormDialog(op) == View(
  {useDeviceNames},
  {Opening(Mutation(op, {"changes:write"}, {<<"changes">>, <<"change", "id">>}),
           IF op = "addChange" THEN "change" ELSE "")})
ChangeDetailPage == Aware(
  {Query(<<"change", "id">>, "change"), useDeviceNames, useAllUsers},
  {Mutation("comment", {}, {<<"change", "id">>})})
\* Mutant: every transition is offered to who may write changes.
TransitionMetaOfWriters ==
  [t \in {"submit", "approve", "reject", "implement", "close", "cancel"} |-> "changes:write"]

\* TRANSITION_META: the page offers a transition to who has its permission.
TransitionMeta == [
  submit    |-> "changes:write",
  approve   |-> "changes:approve",
  reject    |-> "changes:approve",
  implement |-> "changes:write",
  close     |-> "changes:write",
  cancel    |-> "changes:write"]
TransitionDialog == View({}, {Mutation(t, {TransitionMeta[t]}, {<<"change", "id">>, <<"changes">>}) :
                              t \in DOMAIN TransitionMeta})

ReportsPage    == Aware({Query(<<"report", "type">>, "report"), Query(<<"report-schedules">>, "schedules")}, {})
ScheduleDialog == View({}, {Mutation("addSchedule", {"alerts:write"}, {<<"report-schedules">>})})

-----------------------------------------------------------------------------
(* Access                                                                   *)

TacacsPage == Aware({}, {})
ImportTacPlusDialog == View({}, {Mutation("importTac", {"tacacs:write"}, {<<"tacacs">>, <<"users">>, <<"groups">>})})
ServersTab == Aware(
  {Polled(Query(<<"tacacs", "servers">>, "servers"))},
  {Mutation(op, {"tacacs:deploy"}, {<<"tacacs">>}) : op \in {"deploy", "deployAll"}}
    \cup {Mutation("dropServer", {"tacacs:write"}, {<<"tacacs", "servers">>})})
CreateServerDialog == View({}, {Mutation("addServer", {"tacacs:write"}, {<<"tacacs", "servers">>})})
RevisionsDialog == View({Query(<<"tacacs", "revisions", "id">>, "revisions")}, {})
NasTab == Aware(
  {Query(<<"tacacs", "nas">>, "nas"), useDeviceGroups, useDeviceNames},
  {Mutation(op, {"tacacs:write"}, {<<"tacacs", "nas">>}) : op \in {"importNas", "rotateKey", "dropNas"}})
NasDialog == View(
  {useDeviceNames, useDeviceGroups},
  {Mutation("addNas", {"tacacs:write"}, {<<"tacacs", "nas">>})})
PoliciesTab == Aware(
  {Query(<<"tacacs", "policies">>, "policies"), useGroups, useDeviceGroups},
  {Mutation("dropPolicy", {"tacacs:write"}, {<<"tacacs">>})})
PolicyEditor == Aware({useGroups, useDeviceGroups}, {Mutation("setPolicy", {"tacacs:write"}, {<<"tacacs">>})})
TacacsUsersTab == Aware(
  {Query(<<"tacacs", "users">>, "mappings"), useAllUsers},
  {Mutation("dropMapping", {"tacacs:write"}, {<<"tacacs", "users">>})})
\* A new password replaces the mapping: the old one is deleted, then one is created.
MappingDialog == Aware({useAllUsers}, {Several(Mutation("setMapping", {"tacacs:write"}, {<<"tacacs", "users">>}))})
PreviewTab == View({Query(<<"tacacs", "servers">>, "servers"), Query(<<"tacacs", "render", "id">>, "render")}, {})
EventsTab  == Aware({Polled(Query(<<"tacacs", "events", "f">>, "events")), useTacacsCounts}, {})

AccountingPage == View(
  {Query(<<"accounting", "commands", "f">>, "commands"),
   Query(<<"accounting", "activity", "f">>, "commandStats"),
   Query(<<"accounting", "top", "days">>, "commandTop")}, {})

RecordingsTab     == View({Query(<<"sessions", "f">>, "recordings"), useDeviceNames}, {})
UserSessionsTab   == View({Query(<<"user-sessions", "f">>, "userSessions"), useDeviceNames}, {})
Transcript        == View({Query(<<"session-commands", "id">>, "commands")}, {})
SessionReplayPage == View({Query(<<"sessions", "meta", "id">>, "recordings"), Query(<<"sessions", "cast", "id">>, "cast")}, {})

AuditPage == View(
  {Query(<<"audit", "f">>, "audit"), Query(<<"audit", "activity", "f">>, "auditStats")},
  {Mutation("verifyAudit", {}, {})})

-----------------------------------------------------------------------------
(* Integrations                                                             *)

MembersTab     == View({Query(<<"ixp", "members", "q">>, "ixp")}, {})
RsTab          == View({Query(<<"ixp", "rs", "f">>, "ixp")}, {})
TrafficTab     == View({Query(<<"ixp", "fabric">>, "ixp")}, {})
TrafficChart   == View({Query(<<"ixp", "graph", "f">>, "ixp")}, {})
GraphHealth    == View({Query(<<"ixp", "graph-health">>, "ixp")}, {})
SflowCoverage  == View({Query(<<"ixp", "sflow-coverage", "p">>, "ixp")}, {})
P2PMatrix      == View({Query(<<"ixp", "p2p-matrix", "f">>, "ixp")}, {})
MemberTraffic  == View({Query(<<"ixp", "p2p", "f">>, "ixp")}, {})

IntegrationsPage == Aware(
  {Polled(Query(<<"integrations">>, "integrations"))},
  \* sync invalidates five seconds after its answer.
  {Queued(Mutation("sync", {"integrations:write"}, {<<"integrations">>})),
   Mutation("dropIntegration", {"integrations:write"}, {<<"integrations">>})})
CreateIntegrationDialog == View({}, {Mutation("addIntegration", {"integrations:write"}, {<<"integrations">>})})

-----------------------------------------------------------------------------
(* Administration                                                           *)

UsersTab == Aware({Query(<<"users", "list", "f">>, "users")}, {})
CreateUserDialog == Aware({useGroups}, {Mutation("addUser", {"users:write"}, {<<"users">>})})
UserDetailPage == Aware(
  {Query(<<"users", "detail", "id">>, "user"), useGroups},
  {Writing(Mutation("setUser", {"users:write"}, {<<"users">>, <<"auth", "me">>}), {<<"users", "detail", "id">>}),
   Opening(Mutation("dropUser", {"users:write"}, {<<"users">>}), "users")})
GroupsTab   == Aware({useGroups}, {Mutation("dropGroup", {"users:write"}, {<<"groups">>})})
GroupDialog == View({}, {Mutation("setGroup", {"users:write"}, {<<"groups">>})})
RolesTab    == Aware({useRoles}, {})
CreateRoleDialog == Aware({Query(<<"permissions">>, "permissions")}, {Mutation("addRole", {"users:write"}, {<<"roles">>})})
BindingsTab == Aware(
  {Query(<<"role-bindings">>, "bindings"), useAllUsers, useGroups, useSites, useDeviceGroups},
  {Mutation("dropBinding", {"users:write"}, {<<"role-bindings">>})})
BindingDialog == Aware(
  {useRoles, useAllUsers, useGroups, useSites, useDeviceGroups},
  {Mutation("addBinding", {"users:write"}, {<<"role-bindings">>})})
LoginsTab == View({Query(<<"login-history", "f">>, "logins")}, {})

ProfileCard  == Aware({}, {Mutation("setMe", {}, {<<"auth", "me">>})})
PasswordCard == Aware({}, {Mutation("setPassword", {}, {})})
MfaCard      == Aware({}, {Mutation("mfaSetup", {}, {}), Mutation("mfaVerify", {}, {<<"auth", "me">>})})
TokensCard   == Aware(
  {Query(<<"auth", "tokens">>, "tokens")},
  {Mutation(op, {}, {<<"auth", "tokens">>}) : op \in {"addToken", "dropToken"}})

-----------------------------------------------------------------------------
(* Screens: what is mounted together, tab by tab since a hidden tab is not  *)
(* mounted, and the permissions without which neither the navigation nor a  *)
(* link nor a tab leads there.                                              *)

Screen(perms, views) == [perms |-> perms, views |-> views]

OneDevice(perms, tab) ==
  Screen({"devices:read"} \cup perms, {DeviceDetailPage, DeviceFormDialog("")} \cup tab)
OneChange == Screen({"changes:read"}, {ChangeDetailPage, TransitionDialog, ChangeFormDialog("setChange")})
Tacacs(tab) == Screen({"tacacs:read"}, {TacacsPage, ImportTacPlusDialog} \cup tab)
Compliance(tab) == Screen({"compliance:read"}, {CompliancePage} \cup tab)
Alerts(perms, tab) == Screen({"devices:read"} \cup perms, tab)
Users(tab) == Screen({"users:read"}, tab)

Overview == [
  dashboard |-> Screen({"devices:read"}, {DashboardPage}),
  devices   |-> Screen({"devices:read"}, {DevicesPage, DeviceFormDialog("device")}),
  sites     |-> Screen({"devices:read"}, {SitesPage, SiteFormDialog}),
  ipam      |-> Screen({"devices:read"}, {IpamPage}),
  map       |-> Screen({"devices:read"}, {MapPage}),
  alerts    |-> Alerts({}, {AlertsList}),
  channels  |-> Alerts({"alerts:write"}, {ChannelsTab}),
  alertRules |-> Alerts({"alerts:write"}, {RulesTab})]

DeviceScreens == [
  device     |-> OneDevice({}, {OverviewTab}),
  activity   |-> OneDevice({}, {ActivityTab}),
  ports      |-> OneDevice({}, {PortsTab, FrontPhoto, ModelDialog}),
  config     |-> OneDevice({}, {ConfigTab}),
  history    |-> OneDevice({}, {HistoryTab}),
  diff       |-> OneDevice({}, {DiffTab}),
  deviceCompliance |-> OneDevice({"compliance:read"}, {ComplianceTab}),
  deviceCommands   |-> OneDevice({"accounting:read"}, {CommandsTab}),
  restore    |-> OneDevice({"configs:restore"}, {RestoreTab})]

Configuration == [
  backups    |-> Screen({"configs:read"}, {BackupsPage, RunBackupDialog, BackupSettingsDialog, PlatformRow}),
  credentials |-> Screen({"devices:read"}, {CredentialsPage, CredentialDialog}),
  rancid     |-> Screen({"configs:read"}, {CompareStep, CompareDialog, HistoryStep}),
  rancidLogins |-> Screen({"configs:read", "credentials:write"}, {CredentialsStep}),
  runs       |-> Compliance({RunsPanel}),
  rules      |-> Compliance({RulesPanel, RuleDialog}),
  run        |-> Screen({"compliance:read"}, {ComplianceRunPage}),
  changes    |-> Screen({"changes:read"}, {ChangesPage, ChangeFormDialog("addChange")}),
  change     |-> OneChange,
  reports    |-> Screen({"reports:read"}, {ReportsPage, ScheduleDialog})]

Access == [
  servers    |-> Tacacs({ServersTab, CreateServerDialog, RevisionsDialog}),
  nas        |-> Tacacs({NasTab, NasDialog}),
  policies   |-> Tacacs({PoliciesTab, PolicyEditor}),
  mappings   |-> Tacacs({TacacsUsersTab, MappingDialog}),
  preview    |-> Tacacs({PreviewTab}),
  events     |-> Tacacs({EventsTab}),
  accounting |-> Screen({"accounting:read"}, {AccountingPage}),
  recordings |-> Screen({"sessions:read"}, {RecordingsTab}),
  userSessions |-> Screen({"sessions:read"}, {UserSessionsTab, Transcript}),
  replay     |-> Screen({"sessions:read"}, {SessionReplayPage}),
  audit      |-> Screen({"audit:read"}, {AuditPage})]

Administration == [
  members    |-> Screen({"devices:read"}, {MembersTab, MemberTraffic}),
  routeServers |-> Screen({"devices:read"}, {RsTab}),
  traffic    |-> Screen({"devices:read"}, {TrafficTab, TrafficChart, GraphHealth, SflowCoverage, P2PMatrix}),
  integrations |-> Screen({"devices:read"}, {IntegrationsPage, CreateIntegrationDialog}),
  users      |-> Users({UsersTab, CreateUserDialog}),
  groups     |-> Users({GroupsTab, GroupDialog}),
  roles      |-> Users({RolesTab, CreateRoleDialog}),
  bindings   |-> Users({BindingsTab, BindingDialog}),
  logins     |-> Users({LoginsTab}),
  user       |-> Users({UserDetailPage}),
  search     |-> Screen({}, {CommandPalette}),
  settings   |-> Screen({}, {ProfileCard, PasswordCard, MfaCard, TokensCard})]

Screens == Overview @@ DeviceScreens @@ Configuration @@ Access @@ Administration
=============================================================================
