---------------------------- MODULE ConfigDeploy ----------------------------
(***************************************************************************)
(* How a TACACS configuration gets from the platform to tac_plus-ng:       *)
(* operators edit policy and deploy a render of it; the agent's            *)
(* ConfigDeployer polls, validates with tac_plus-ng -P, swaps the live     *)
(* file, reloads tac_plus-ng and sends a heartbeat; a failed reload is     *)
(* rolled back; a supervisor restarts both processes.                      *)
(*                                                                         *)
(* A configuration stands for its content and for its sha256.              *)
(***************************************************************************)
EXTENDS Naturals, FiniteSets

CONSTANTS
  Config,         \* configurations the platform can render
  ValidConfig,    \* those tac_plus-ng -P accepts
  Boot,           \* the bootstrap configuration
  None,           \* no configuration, no process
  MaxEdits,       \* policy edits (a bound of the model)
  MaxAgentDeaths, \* deaths of the agent process (a bound of the model)
  MaxTacDeaths    \* deaths of tac_plus-ng (a bound of the model)

ASSUME ConfigAssumption ==
  /\ ValidConfig \subseteq Config
  /\ Boot \notin Config /\ None \notin Config /\ None # Boot
ASSUME BoundsAssumption ==
  MaxEdits \in Nat /\ MaxAgentDeaths \in Nat /\ MaxTacDeaths \in Nat

VARIABLES
  policy,      \* what render_for_tenant yields now
  pending,     \* render held by a deploy request that has not committed yet
  deployed,    \* TacacsServer.config_sha256
  registered,  \* the TacacsServer row exists and is enabled
  running,     \* TacacsServer.running_sha256, from the last heartbeat
  status,      \* TacacsServer.agent_status
  file,        \* the live configuration file
  candidate,   \* the file next to it, being validated
  previous,    \* the copy kept for a rollback
  tac,         \* configuration tac_plus-ng has loaded, None when it is not running
  sighup,      \* the reload signal: "none", "pending" or "handled" by that process
  pc,          \* where sync_once is; "down" = no agent process
  new,         \* configuration being deployed
  runningSha,  \* ConfigDeployer.running_sha
  rejected,    \* ConfigDeployer._rejected
  beat,        \* status of the heartbeat about to be sent
  edits, agentDeaths, tacDeaths,
  deployedEver, \* configurations an operator deployed (history)
  before,       \* the live file when this sync began (history)
  mishaps       \* events the reload protocol does not survive (history)

platform == <<policy, pending, deployed, registered, edits, deployedEver>>
reported == <<running, status>>
files    == <<file, candidate, previous>>
daemon   == <<tac, sighup, tacDeaths>>
agent    == <<pc, new, runningSha, rejected, beat, agentDeaths, before>>
vars     == <<platform, reported, files, daemon, agent, mishaps>>

Content == Config \cup {Boot, None}
Steps   == {"down", "idle", "validate", "backup", "swap", "reload", "settle",
            "restore", "reload2", "settle2", "report"}
Mishaps == {"killed", "unsure"}

TypeOK ==
  /\ policy \in Config /\ pending \in Config \cup {None} /\ deployed \in Config \cup {None}
  /\ registered \in BOOLEAN /\ running \in Content /\ status \in {"none", "ok", "error"}
  /\ file \in Content /\ candidate \in Config \cup {None} /\ previous \in Content
  /\ tac \in Content /\ sighup \in {"none", "pending", "handled"}
  /\ pc \in Steps /\ new \in Config \cup {None} /\ runningSha \in Content
  /\ rejected \subseteq Config /\ beat \in {"ok", "error"}
  /\ edits \in 0..MaxEdits /\ agentDeaths \in 0..MaxAgentDeaths /\ tacDeaths \in 0..MaxTacDeaths
  /\ deployedEver \subseteq Config /\ before \in Content /\ mishaps \subseteq Mishaps

\* Supervisor._prepare installs the bootstrap file; a classic host may start with none.
Init ==
  /\ policy \in Config /\ pending = None /\ deployed = None /\ registered = TRUE
  /\ running = None /\ status = "none"
  /\ file \in {Boot, None} /\ candidate = None /\ previous = None
  /\ tac = file /\ sighup = "none"
  /\ pc = "idle" /\ new = None /\ runningSha = file /\ rejected = {} /\ beat = "ok"
  /\ edits = 0 /\ agentDeaths = 0 /\ tacDeaths = 0
  /\ deployedEver = {} /\ before = file /\ mishaps = {}

-----------------------------------------------------------------------------
(* The platform                                                             *)

\* A policy, NAS or user edit changes the render; nothing is deployed by it.
EditPolicy ==
  /\ edits < MaxEdits /\ edits' = edits + 1
  /\ policy' \in Config \ {policy}
  /\ UNCHANGED <<pending, deployed, registered, deployedEver, reported, files, daemon, agent, mishaps>>

\* _deploy renders, then commits: an edit or another deploy may come between.
DeployBegin ==
  /\ pending = None /\ registered
  /\ pending' = policy
  /\ UNCHANGED <<policy, deployed, registered, edits, deployedEver, reported, files, daemon, agent,
                 mishaps>>

DeployCommit ==
  /\ pending # None
  /\ deployed' = pending /\ deployedEver' = deployedEver \cup {pending} /\ pending' = None
  /\ UNCHANGED <<policy, registered, edits, reported, files, daemon, agent, mishaps>>

\* The server is deleted; a deploy request in flight fails, its agent gets 401 from now on.
DeleteServer ==
  /\ registered /\ registered' = FALSE
  /\ pending' = None
  /\ UNCHANGED <<policy, deployed, edits, deployedEver, reported, files, daemon, agent, mishaps>>

-----------------------------------------------------------------------------
(* The agent: ConfigDeployer.sync_once and _deploy                          *)

Report(s) == pc' = "report" /\ beat' = s

\* A deleted server's 401, or a transport error, ends the sync without a heartbeat.
FetchFailed == pc = "idle" /\ UNCHANGED vars

\* GET /tacacs/agent/config.  404, 409 and 304 end the sync with an "ok" heartbeat.
Fetch ==
  /\ pc = "idle" /\ registered
  /\ before' = file
  /\ IF deployed = None \/ policy # deployed \/ runningSha = deployed
     THEN Report("ok") /\ new' = None
     ELSE /\ new' = policy
          /\ IF policy \in rejected THEN Report("error") ELSE pc' = "validate" /\ beat' = beat
  /\ candidate' = IF pc' = "validate" THEN policy ELSE candidate
  /\ UNCHANGED <<platform, reported, file, previous, daemon, runningSha, rejected, agentDeaths,
                 mishaps>>

\* The body does not hash to its ETag.
FetchCorrupted ==
  /\ pc = "idle" /\ registered /\ deployed # None /\ policy = deployed /\ runningSha # deployed
  /\ before' = file /\ new' = None /\ Report("error")
  /\ UNCHANGED <<platform, reported, files, daemon, runningSha, rejected, agentDeaths, mishaps>>

\* Mutant: the exit status of tac_plus-ng -P is ignored.
ValidateIgnoringExit ==
  /\ pc = "validate"
  /\ pc' = "backup" /\ UNCHANGED <<candidate, rejected, beat>>
  /\ UNCHANGED <<platform, reported, file, previous, daemon, new, runningSha, agentDeaths,
                 before, mishaps>>

\* tac_plus-ng -P on the candidate.  It may time out on a valid one, which counts as
\* rejected just the same.
Validate ==
  /\ pc = "validate"
  /\ \/ candidate \in ValidConfig /\ pc' = "backup" /\ UNCHANGED <<candidate, rejected, beat>>
     \/ /\ rejected' = rejected \cup {new} /\ candidate' = None
        /\ Report("error")
  /\ UNCHANGED <<platform, reported, file, previous, daemon, new, runningSha, agentDeaths,
                 before, mishaps>>

Backup ==
  /\ pc = "backup"
  /\ previous' = IF file = None THEN previous ELSE file
  /\ pc' = "swap"
  /\ UNCHANGED <<platform, reported, file, candidate, daemon, new, runningSha, rejected, beat,
                 agentDeaths, before, mishaps>>

\* os.replace(candidate, config_path)
Swap ==
  /\ pc = "swap"
  /\ file' = candidate /\ candidate' = None
  /\ pc' = "reload"
  /\ UNCHANGED <<platform, reported, previous, daemon, new, runningSha, rejected, beat,
                 agentDeaths, before, mishaps>>

\* Mutant: running_sha is not updated after a deploy.
DeployedSilently ==
  /\ Report("ok") /\ rejected' = {} /\ UNCHANGED <<file, runningSha, previous>>

\* The reload worked.
Deployed ==
  /\ Report("ok")
  /\ runningSha' = new /\ rejected' = {}
  /\ UNCHANGED <<file, previous>>

\* The rollback is over, whether or not its own reload worked.
RolledBack ==
  /\ Report("error")
  /\ runningSha' = file
  /\ UNCHANGED <<file, previous, rejected>>

\* The first reload failed: restore the previous file, if there was one.
ReloadFailed ==
  IF before # None
  THEN pc' = "restore" /\ UNCHANGED <<file, previous, rejected, runningSha, beat>>
  ELSE RolledBack

\* What follows a reload that ended well or badly, for the deploy and for the rollback.
AfterReload(ok) ==
  IF pc \in {"reload", "settle"} THEN (IF ok THEN Deployed ELSE ReloadFailed) ELSE RolledBack

\* Mutant: the new file stays in place after a failed reload.
RestoreNothing ==
  /\ pc = "restore"
  /\ pc' = "reload2"
  /\ UNCHANGED <<platform, reported, files, daemon, new, runningSha, rejected,
                 beat, agentDeaths, before, mishaps>>

\* Mutant: the previous file is restored but tac_plus-ng is not told.
RestoreWithoutReload ==
  /\ pc = "restore"
  /\ file' = previous /\ previous' = None
  /\ Report("error") /\ runningSha' = previous
  /\ UNCHANGED <<platform, reported, candidate, daemon, new, rejected, agentDeaths, before,
                 mishaps>>

\* os.replace(previous_path, config_path)
Restore ==
  /\ pc = "restore"
  /\ file' = previous /\ previous' = None
  /\ pc' = "reload2"
  /\ UNCHANGED <<platform, reported, candidate, daemon, new, runningSha, rejected, beat,
                 agentDeaths, before, mishaps>>

\* signal_reloader: send SIGHUP, wait for it to be handled, look whether the process lives.
Signal ==
  /\ pc \in {"reload", "reload2"} /\ tac # None
  /\ sighup' = "pending"
  /\ pc' = IF pc = "reload" THEN "settle" ELSE "settle2"
  /\ UNCHANGED <<platform, reported, files, tac, tacDeaths, new, runningSha, rejected, beat,
                 agentDeaths, before, mishaps>>

SignalNoProcess ==
  /\ pc \in {"reload", "reload2"} /\ tac = None
  /\ AfterReload(FALSE)
  /\ UNCHANGED <<platform, reported, candidate, daemon, new, agentDeaths, before, mishaps>>

\* A reload that fails while tac_plus-ng runs: a pid file not rewritten yet, a reload
\* command that times out or exits non-zero - before or after it took effect.
ReloadUnsure ==
  /\ pc \in {"reload", "reload2"} /\ tac # None
  /\ tac' \in {tac, file}
  /\ mishaps' = mishaps \cup {"unsure"}
  /\ AfterReload(FALSE)
  /\ UNCHANGED <<platform, reported, candidate, sighup, tacDeaths, new, agentDeaths, before>>

\* Mutant: the reloader looks at once, without giving tac_plus-ng time to reload.
SettleAtOnce ==
  /\ pc \in {"settle", "settle2"}
  /\ AfterReload(tac # None)
  /\ sighup' = "none"
  /\ UNCHANGED <<platform, reported, candidate, tac, tacDeaths, new, agentDeaths, before, mishaps>>

\* The liveness look (kill 0) may also find a process that died but is not reaped yet.
Settle ==
  /\ pc \in {"settle", "settle2"} /\ sighup # "pending"
  /\ \E looksAlive \in {sighup = "handled", TRUE} : AfterReload(looksAlive)
  /\ sighup' = "none"
  /\ UNCHANGED <<platform, reported, candidate, tac, tacDeaths, new, agentDeaths, before, mishaps>>

\* Mutant: the step's name is sent as the status.
HeartbeatWithStep ==
  /\ pc = "report" /\ registered
  /\ running' = runningSha /\ status' = pc
  /\ pc' = "idle"
  /\ UNCHANGED <<platform, files, daemon, new, runningSha, rejected, beat, agentDeaths, before,
                 mishaps>>

\* POST /tacacs/agent/heartbeat arrives, or does not.
Heartbeat ==
  /\ pc = "report" /\ registered
  /\ running' = runningSha /\ status' = beat
  /\ pc' = "idle"
  /\ UNCHANGED <<platform, files, daemon, new, runningSha, rejected, beat, agentDeaths, before,
                 mishaps>>

HeartbeatLost ==
  /\ pc = "report"
  /\ pc' = "idle"
  /\ UNCHANGED <<platform, reported, files, daemon, new, runningSha, rejected, beat,
                 agentDeaths, before, mishaps>>

\* The agent dies; what it left half done stays as it is.
AgentDies ==
  /\ pc # "down" /\ agentDeaths < MaxAgentDeaths
  /\ agentDeaths' = agentDeaths + 1
  /\ pc' = "down"
  /\ mishaps' = IF pc \in {"reload", "settle", "restore", "reload2", "settle2"}
                THEN mishaps \cup {"killed"} ELSE mishaps
  /\ sighup' = IF sighup = "handled" THEN "none" ELSE sighup
  /\ UNCHANGED <<platform, reported, files, tac, tacDeaths, new, runningSha, rejected, beat,
                 before>>

\* ConfigDeployer.__init__: the running sha is taken to be that of the live file.
AgentStarts ==
  /\ pc = "down"
  /\ pc' = "idle" /\ runningSha' = file /\ rejected' = {} /\ new' = None /\ beat' = "ok"
  /\ UNCHANGED <<platform, reported, files, daemon, agentDeaths, before, mishaps>>

-----------------------------------------------------------------------------
(* tac_plus-ng and its supervisor                                           *)

TacReloads ==
  /\ sighup = "pending"
  /\ tac' = file
  /\ sighup' = IF pc \in {"settle", "settle2"} THEN "handled" ELSE "none"
  /\ UNCHANGED <<platform, reported, files, tacDeaths, agent, mishaps>>

TacDies ==
  /\ tac # None /\ tacDeaths < MaxTacDeaths
  /\ tac' = None /\ sighup' = "none" /\ tacDeaths' = tacDeaths + 1
  /\ UNCHANGED <<platform, reported, files, agent, mishaps>>

\* Supervisor._start; with a file it cannot parse tac_plus-ng exits at once (a stutter).
TacStarts ==
  /\ tac = None /\ file \in ValidConfig \cup {Boot}
  /\ tac' = file
  /\ UNCHANGED <<platform, reported, files, sighup, tacDeaths, agent, mishaps>>

-----------------------------------------------------------------------------
Platform == EditPolicy \/ DeployBegin \/ DeployCommit \/ DeleteServer
Deployer ==
  Fetch \/ Validate \/ Backup \/ Swap \/ Signal \/ SignalNoProcess \/ Settle \/ Restore
Next ==
  \/ Platform \/ Deployer
  \/ FetchFailed \/ FetchCorrupted \/ ReloadUnsure \/ Heartbeat \/ HeartbeatLost
  \/ AgentDies \/ AgentStarts \/ TacReloads \/ TacDies \/ TacStarts

\* The poll loop runs, the supervisor restarts what died, a signal is handled, a deploy
\* request ends, and heartbeats are not lost for ever.
Fairness ==
  /\ WF_vars(Deployer) /\ WF_vars(AgentStarts) /\ WF_vars(TacReloads) /\ WF_vars(TacStarts)
  /\ WF_vars(DeployCommit) /\ WF_vars(HeartbeatLost) /\ SF_vars(Heartbeat)

Spec == Init /\ [][Next]_vars
FairSpec == Spec /\ Fairness

-----------------------------------------------------------------------------
(* Properties                                                               *)

\* "The agent never runs a file that failed validation" (deployer.py), and never one that
\* no operator deployed: at every moment, mid-swap and after crashes included, what
\* tac_plus-ng would start with is such a file.
LiveFileFit == file \in {Boot, None} \cup (ValidConfig \cap deployedEver)

\* Between two syncs the live file, what the agent takes to be running and what
\* tac_plus-ng has loaded agree - after deploys, rollbacks and tac_plus-ng restarts.
Consistent ==
  mishaps = {} /\ pc \in {"idle", "report"} =>
    /\ runningSha = file
    /\ tac \in {None, file}

\* "If the reload fails the previous file is restored": a sync that ends in an error
\* leaves the live file as it found it, whenever there was one.
ErrorKeepsConfig ==
  pc = "report" /\ beat = "error" /\ before # None => file = before

\* The live file is on trial from the swap until the sync knows how the reload ended.
Trying == pc \in {"reload", "settle", "restore", "reload2", "settle2"}

Service == INSTANCE Rollout WITH
  Config <- Config, ValidConfig <- ValidConfig, Boot <- Boot, None <- None,
  released <- deployedEver, live <- file, fallback <- IF Trying THEN before ELSE file,
  trial <- Trying, loaded <- tac, told <- running, broken <- (mishaps # {})

\* Platform, agent, supervisor and tac_plus-ng together are a rollout that either ends with
\* tac_plus-ng running the new file or gives it up for the old one: no report, no next
\* deploy and no end of a rollback before what runs and what is live agree again.
ImplementsRollout == Service!Spec

\* An operator who deploys and then edits no more sees it running, or sees an error.
DeployIsAnswered ==
  <>[](deployed = policy /\ registered) => []<>(running = deployed \/ status = "error")

\* "reported by the agent on every heartbeat: what tac_plus-ng runs" (models/tacacs.py),
\* with the agent's death during a deploy as the only mishap.
HeartbeatTellsWhatRuns ==
  [][mishaps \subseteq {"killed"} => tac \in {None, running'}]_running
=============================================================================
