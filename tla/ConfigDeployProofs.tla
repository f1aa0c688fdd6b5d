------------------------- MODULE ConfigDeployProofs -------------------------
(***************************************************************************)
(* Proofs about ConfigDeploy, for every set of configurations and every    *)
(* bound: the types, the three safety invariants of run config_deploy, and *)
(* that deployments implement Rollout.                                     *)
(***************************************************************************)
EXTENDS ConfigDeploy, TLAPS

\* Configurations that may lie in the live file.
Fit == {Boot, None} \cup (ValidConfig \cap deployedEver)

\* Strengthens LiveFileFit: the rollback copy is fit as well, what is deployed was
\* deployed by an operator, and past validation the candidate is fit.
FitInv ==
  /\ file \in Fit
  /\ previous \in Fit
  /\ deployed # None => deployed \in deployedEver
  /\ pc = "validate" => candidate = new /\ new \in deployedEver
  /\ pc \in {"backup", "swap"} => candidate = new /\ new \in ValidConfig \cap deployedEver
  /\ pc \in {"reload", "settle"} => file = new

\* Strengthens Consistent to every step of a sync that was not cut short.
AgreeInv ==
  mishaps = {} =>
    /\ pc \in {"idle", "validate", "backup", "swap", "report"} => runningSha = file
    /\ pc \in {"idle", "validate", "backup", "swap", "report", "down"} => tac \in {None, file}
    /\ pc \in {"settle", "settle2"} /\ sighup # "pending" => tac \in {None, file}

\* Strengthens ErrorKeepsConfig: until the rollback is done its copy is the old file.
RollbackInv ==
  /\ pc \in {"validate", "backup", "swap"} => file = before
  /\ pc \in {"swap", "reload", "settle", "restore"} /\ before # None => previous = before
  /\ pc \in {"reload2", "settle2"} => file = before
  /\ pc = "restore" => before # None
  /\ pc = "report" /\ beat = "error" /\ before # None => file = before

IInv == TypeOK /\ FitInv /\ AgreeInv /\ RollbackInv

-----------------------------------------------------------------------------
\* Every step keeps the types.
LEMMA TypeStep ==
  ASSUME ConfigAssumption, BoundsAssumption, TypeOK, FitInv, [Next]_vars
  PROVE  TypeOK'
<1> USE DEF ConfigAssumption, BoundsAssumption, TypeOK, FitInv, Content, Steps, Mishaps
<1>1. CASE EditPolicy
  BY <1>1 DEF EditPolicy, vars, platform, reported, files, daemon, agent
<1>2. CASE DeployBegin
  BY <1>2 DEF DeployBegin, vars, platform, reported, files, daemon, agent
<1>3. CASE DeployCommit
  BY <1>3 DEF DeployCommit, vars, platform, reported, files, daemon, agent
<1>4. CASE DeleteServer
  <2>1. registered' \in BOOLEAN
    BY <1>4, Zenon DEF DeleteServer
  <2>2. pending' = None /\ UNCHANGED <<policy, deployed, edits, deployedEver, mishaps>>
    BY <1>4 DEF DeleteServer
  <2>3. UNCHANGED <<reported, files, daemon, agent>>
    BY <1>4 DEF DeleteServer
  <2> QED
    BY <2>1, <2>2, <2>3 DEF reported, files, daemon, agent
<1>5. CASE Fetch
  BY <1>5 DEF Fetch, Report, vars, platform, reported, files, daemon, agent
<1>6. CASE Validate
  BY <1>6 DEF Validate, Report, vars, platform, reported, files, daemon, agent
<1>7. CASE Backup
  BY <1>7 DEF Backup, vars, platform, reported, files, daemon, agent
<1>8. CASE Swap
  BY <1>8 DEF Swap, vars, platform, reported, files, daemon, agent
<1>9. CASE Signal
  BY <1>9 DEF Signal, vars, platform, reported, files, daemon, agent
<1>10. CASE SignalNoProcess
  BY <1>10 DEF SignalNoProcess, AfterReload, Deployed, RolledBack, ReloadFailed, Report, vars, platform, reported, files, daemon, agent
<1>11. CASE Settle
  BY <1>11 DEF Settle, AfterReload, Deployed, RolledBack, ReloadFailed, Report, vars, platform, reported, files, daemon, agent
<1>12. CASE Restore
  BY <1>12 DEF Restore, vars, platform, reported, files, daemon, agent
<1>13. CASE FetchFailed
  BY <1>13 DEF FetchFailed, vars, platform, reported, files, daemon, agent
<1>14. CASE FetchCorrupted
  BY <1>14 DEF FetchCorrupted, Report, vars, platform, reported, files, daemon, agent
<1>15. CASE ReloadUnsure
  BY <1>15 DEF ReloadUnsure, AfterReload, Deployed, RolledBack, ReloadFailed, Report, vars, platform, reported, files, daemon, agent
<1>16. CASE Heartbeat
  BY <1>16 DEF Heartbeat, vars, platform, reported, files, daemon, agent
<1>17. CASE HeartbeatLost
  BY <1>17 DEF HeartbeatLost, vars, platform, reported, files, daemon, agent
<1>18. CASE AgentDies
  BY <1>18 DEF AgentDies, vars, platform, reported, files, daemon, agent
<1>19. CASE AgentStarts
  BY <1>19 DEF AgentStarts, vars, platform, reported, files, daemon, agent
<1>20. CASE TacReloads
  BY <1>20 DEF TacReloads, vars, platform, reported, files, daemon, agent
<1>21. CASE TacDies
  BY <1>21 DEF TacDies, vars, platform, reported, files, daemon, agent
<1>22. CASE TacStarts
  BY <1>22 DEF TacStarts, vars, platform, reported, files, daemon, agent
<1>23. CASE UNCHANGED vars
  BY <1>23 DEF vars, platform, reported, files, daemon, agent
<1> QED
  BY <1>1, <1>2, <1>3, <1>4, <1>5, <1>6, <1>7, <1>8, <1>9, <1>10, <1>11, <1>12, <1>13, <1>14, <1>15, <1>16, <1>17, <1>18, <1>19, <1>20, <1>21, <1>22, <1>23 DEF Next, Platform, Deployer

\* Every step keeps the live file and the rollback copy fit.
LEMMA FitStep ==
  ASSUME ConfigAssumption, TypeOK, FitInv, [Next]_vars
  PROVE  FitInv'
<1> USE DEF ConfigAssumption, TypeOK, FitInv, Fit, Content, Steps
<1>1. CASE EditPolicy
  BY <1>1 DEF EditPolicy, vars, platform, reported, files, daemon, agent
<1>2. CASE DeployBegin
  BY <1>2 DEF DeployBegin, vars, platform, reported, files, daemon, agent
<1>3. CASE DeployCommit
  BY <1>3 DEF DeployCommit, vars, platform, reported, files, daemon, agent
<1>4. CASE DeleteServer
  BY <1>4 DEF DeleteServer, vars, platform, reported, files, daemon, agent
<1>5. CASE Fetch
  BY <1>5 DEF Fetch, Report, vars, platform, reported, files, daemon, agent
<1>6. CASE Validate
  BY <1>6 DEF Validate, Report, vars, platform, reported, files, daemon, agent
<1>7. CASE Backup
  BY <1>7 DEF Backup, vars, platform, reported, files, daemon, agent
<1>8. CASE Swap
  BY <1>8 DEF Swap, vars, platform, reported, files, daemon, agent
<1>9. CASE Signal
  BY <1>9 DEF Signal, vars, platform, reported, files, daemon, agent
<1>10. CASE SignalNoProcess
  BY <1>10 DEF SignalNoProcess, AfterReload, Deployed, RolledBack, ReloadFailed, Report, vars, platform, reported, files, daemon, agent
<1>11. CASE Settle
  BY <1>11 DEF Settle, AfterReload, Deployed, RolledBack, ReloadFailed, Report, vars, platform, reported, files, daemon, agent
<1>12. CASE Restore
  BY <1>12 DEF Restore, vars, platform, reported, files, daemon, agent
<1>13. CASE FetchFailed
  BY <1>13 DEF FetchFailed, vars, platform, reported, files, daemon, agent
<1>14. CASE FetchCorrupted
  BY <1>14 DEF FetchCorrupted, Report, vars, platform, reported, files, daemon, agent
<1>15. CASE ReloadUnsure
  BY <1>15 DEF ReloadUnsure, AfterReload, Deployed, RolledBack, ReloadFailed, Report, vars, platform, reported, files, daemon, agent
<1>16. CASE Heartbeat
  BY <1>16 DEF Heartbeat, vars, platform, reported, files, daemon, agent
<1>17. CASE HeartbeatLost
  BY <1>17 DEF HeartbeatLost, vars, platform, reported, files, daemon, agent
<1>18. CASE AgentDies
  BY <1>18 DEF AgentDies, vars, platform, reported, files, daemon, agent
<1>19. CASE AgentStarts
  BY <1>19 DEF AgentStarts, vars, platform, reported, files, daemon, agent
<1>20. CASE TacReloads
  BY <1>20 DEF TacReloads, vars, platform, reported, files, daemon, agent
<1>21. CASE TacDies
  BY <1>21 DEF TacDies, vars, platform, reported, files, daemon, agent
<1>22. CASE TacStarts
  BY <1>22 DEF TacStarts, vars, platform, reported, files, daemon, agent
<1>23. CASE UNCHANGED vars
  BY <1>23 DEF vars, platform, reported, files, daemon, agent
<1> QED
  BY <1>1, <1>2, <1>3, <1>4, <1>5, <1>6, <1>7, <1>8, <1>9, <1>10, <1>11, <1>12, <1>13, <1>14, <1>15, <1>16, <1>17, <1>18, <1>19, <1>20, <1>21, <1>22, <1>23 DEF Next, Platform, Deployer

\* Every step keeps the agent, the file and tac_plus-ng in agreement.
LEMMA AgreeStep ==
  ASSUME ConfigAssumption, TypeOK, FitInv, AgreeInv, [Next]_vars
  PROVE  AgreeInv'
<1> USE DEF ConfigAssumption, TypeOK, FitInv, AgreeInv, Content, Steps
<1>1. CASE EditPolicy
  BY <1>1 DEF EditPolicy, vars, platform, reported, files, daemon, agent
<1>2. CASE DeployBegin
  BY <1>2 DEF DeployBegin, vars, platform, reported, files, daemon, agent
<1>3. CASE DeployCommit
  BY <1>3 DEF DeployCommit, vars, platform, reported, files, daemon, agent
<1>4. CASE DeleteServer
  BY <1>4 DEF DeleteServer, vars, platform, reported, files, daemon, agent
<1>5. CASE Fetch
  BY <1>5 DEF Fetch, Report, vars, platform, reported, files, daemon, agent
<1>6. CASE Validate
  BY <1>6 DEF Validate, Report, vars, platform, reported, files, daemon, agent
<1>7. CASE Backup
  BY <1>7 DEF Backup, vars, platform, reported, files, daemon, agent
<1>8. CASE Swap
  BY <1>8 DEF Swap, vars, platform, reported, files, daemon, agent
<1>9. CASE Signal
  BY <1>9 DEF Signal, vars, platform, reported, files, daemon, agent
<1>10. CASE SignalNoProcess
  BY <1>10 DEF SignalNoProcess, AfterReload, Deployed, RolledBack, ReloadFailed, Report, vars, platform, reported, files, daemon, agent
<1>11. CASE Settle
  BY <1>11 DEF Settle, AfterReload, Deployed, RolledBack, ReloadFailed, Report, vars, platform, reported, files, daemon, agent
<1>12. CASE Restore
  BY <1>12 DEF Restore, vars, platform, reported, files, daemon, agent
<1>13. CASE FetchFailed
  BY <1>13 DEF FetchFailed, vars, platform, reported, files, daemon, agent
<1>14. CASE FetchCorrupted
  BY <1>14 DEF FetchCorrupted, Report, vars, platform, reported, files, daemon, agent
<1>15. CASE ReloadUnsure
  BY <1>15 DEF ReloadUnsure, AfterReload, Deployed, RolledBack, ReloadFailed, Report, vars, platform, reported, files, daemon, agent
<1>16. CASE Heartbeat
  BY <1>16 DEF Heartbeat, vars, platform, reported, files, daemon, agent
<1>17. CASE HeartbeatLost
  BY <1>17 DEF HeartbeatLost, vars, platform, reported, files, daemon, agent
<1>18. CASE AgentDies
  BY <1>18 DEF AgentDies, vars, platform, reported, files, daemon, agent
<1>19. CASE AgentStarts
  BY <1>19 DEF AgentStarts, vars, platform, reported, files, daemon, agent
<1>20. CASE TacReloads
  BY <1>20 DEF TacReloads, vars, platform, reported, files, daemon, agent
<1>21. CASE TacDies
  BY <1>21 DEF TacDies, vars, platform, reported, files, daemon, agent
<1>22. CASE TacStarts
  BY <1>22 DEF TacStarts, vars, platform, reported, files, daemon, agent
<1>23. CASE UNCHANGED vars
  BY <1>23 DEF vars, platform, reported, files, daemon, agent
<1> QED
  BY <1>1, <1>2, <1>3, <1>4, <1>5, <1>6, <1>7, <1>8, <1>9, <1>10, <1>11, <1>12, <1>13, <1>14, <1>15, <1>16, <1>17, <1>18, <1>19, <1>20, <1>21, <1>22, <1>23 DEF Next, Platform, Deployer

\* Every step keeps what a rollback will restore.
LEMMA RollbackStep ==
  ASSUME ConfigAssumption, TypeOK, RollbackInv, [Next]_vars
  PROVE  RollbackInv'
<1> USE DEF ConfigAssumption, TypeOK, RollbackInv, Content, Steps
<1>1. CASE EditPolicy
  BY <1>1 DEF EditPolicy, vars, platform, reported, files, daemon, agent
<1>2. CASE DeployBegin
  BY <1>2 DEF DeployBegin, vars, platform, reported, files, daemon, agent
<1>3. CASE DeployCommit
  BY <1>3 DEF DeployCommit, vars, platform, reported, files, daemon, agent
<1>4. CASE DeleteServer
  BY <1>4 DEF DeleteServer, vars, platform, reported, files, daemon, agent
<1>5. CASE Fetch
  BY <1>5 DEF Fetch, Report, vars, platform, reported, files, daemon, agent
<1>6. CASE Validate
  BY <1>6 DEF Validate, Report, vars, platform, reported, files, daemon, agent
<1>7. CASE Backup
  BY <1>7 DEF Backup, vars, platform, reported, files, daemon, agent
<1>8. CASE Swap
  BY <1>8 DEF Swap, vars, platform, reported, files, daemon, agent
<1>9. CASE Signal
  BY <1>9 DEF Signal, vars, platform, reported, files, daemon, agent
<1>10. CASE SignalNoProcess
  BY <1>10 DEF SignalNoProcess, AfterReload, Deployed, RolledBack, ReloadFailed, Report, vars, platform, reported, files, daemon, agent
<1>11. CASE Settle
  BY <1>11 DEF Settle, AfterReload, Deployed, RolledBack, ReloadFailed, Report, vars, platform, reported, files, daemon, agent
<1>12. CASE Restore
  BY <1>12 DEF Restore, vars, platform, reported, files, daemon, agent
<1>13. CASE FetchFailed
  BY <1>13 DEF FetchFailed, vars, platform, reported, files, daemon, agent
<1>14. CASE FetchCorrupted
  BY <1>14 DEF FetchCorrupted, Report, vars, platform, reported, files, daemon, agent
<1>15. CASE ReloadUnsure
  BY <1>15 DEF ReloadUnsure, AfterReload, Deployed, RolledBack, ReloadFailed, Report, vars, platform, reported, files, daemon, agent
<1>16. CASE Heartbeat
  BY <1>16 DEF Heartbeat, vars, platform, reported, files, daemon, agent
<1>17. CASE HeartbeatLost
  BY <1>17 DEF HeartbeatLost, vars, platform, reported, files, daemon, agent
<1>18. CASE AgentDies
  BY <1>18 DEF AgentDies, vars, platform, reported, files, daemon, agent
<1>19. CASE AgentStarts
  BY <1>19 DEF AgentStarts, vars, platform, reported, files, daemon, agent
<1>20. CASE TacReloads
  BY <1>20 DEF TacReloads, vars, platform, reported, files, daemon, agent
<1>21. CASE TacDies
  BY <1>21 DEF TacDies, vars, platform, reported, files, daemon, agent
<1>22. CASE TacStarts
  BY <1>22 DEF TacStarts, vars, platform, reported, files, daemon, agent
<1>23. CASE UNCHANGED vars
  BY <1>23 DEF vars, platform, reported, files, daemon, agent
<1> QED
  BY <1>1, <1>2, <1>3, <1>4, <1>5, <1>6, <1>7, <1>8, <1>9, <1>10, <1>11, <1>12, <1>13, <1>14, <1>15, <1>16, <1>17, <1>18, <1>19, <1>20, <1>21, <1>22, <1>23 DEF Next, Platform, Deployer

\* The four invariants together are inductive.
LEMMA IInvInductive ==
  ASSUME ConfigAssumption, BoundsAssumption, IInv, [Next]_vars
  PROVE  IInv'
BY TypeStep, FitStep, AgreeStep, RollbackStep DEF IInv

\* The invariant holds of the initial states.
LEMMA IInvInit ==
  ASSUME ConfigAssumption, BoundsAssumption, Init
  PROVE  IInv
<1>1. TypeOK
  BY DEF Init, ConfigAssumption, BoundsAssumption, TypeOK, Content, Steps, Mishaps
<1>2. FitInv
  BY DEF Init, FitInv, Fit
<1>3. AgreeInv
  BY DEF Init, AgreeInv
<1>4. RollbackInv
  BY DEF Init, RollbackInv
<1> QED
  BY <1>1, <1>2, <1>3, <1>4 DEF IInv

\* The invariant holds in every state a deployment can reach, through edits, crashes of both
\* processes and failed reloads.
THEOREM Invariance == Spec => []IInv
<1>1. Init => IInv
  BY IInvInit, ConfigAssumption, BoundsAssumption
<1>2. IInv /\ [Next]_vars => IInv'
  BY IInvInductive, ConfigAssumption, BoundsAssumption
<1> QED
  BY <1>1, <1>2, PTL DEF Spec

\* Every variable keeps its type: no step of an edit, a deploy, a rollback or a crash
\* puts the agent, the files or the daemon in a state the code does not know.
THEOREM TypeCorrect == Spec => []TypeOK
<1>1. IInv => TypeOK
  BY DEF IInv
<1> QED
  BY Invariance, <1>1, PTL

\* The live file is at every moment the bootstrap file or one that was deployed by an
\* operator and accepted by tac_plus-ng -P, whatever the configurations and the crashes.
THEOREM OnlyFitFilesLive == Spec => []LiveFileFit
<1>1. IInv => LiveFileFit
  BY DEF IInv, FitInv, Fit, LiveFileFit
<1> QED
  BY Invariance, <1>1, PTL

\* Between syncs the agent, the live file and tac_plus-ng agree, unless the agent was
\* killed during a reload or a reload failed although it may have taken effect.
THEOREM AgreementBetweenSyncs == Spec => []Consistent
<1>1. IInv => Consistent
  BY DEF IInv, AgreeInv, Consistent
<1> QED
  BY Invariance, <1>1, PTL

\* A sync that ends in an error leaves the live file as it found it.
THEOREM FailedSyncRollsBack == Spec => []ErrorKeepsConfig
<1>1. IInv => ErrorKeepsConfig
  BY DEF IInv, RollbackInv, ErrorKeepsConfig
<1> QED
  BY Invariance, <1>1, PTL

-----------------------------------------------------------------------------
(* The rollout. *)

\* What the rollout does not see of a step: neither the files, nor what runs or is reported,
\* nor whether there is a trial.
Hidden ==
  /\ UNCHANGED <<deployedEver, file, tac, running, mishaps>>
  /\ Trying' = Trying /\ (Trying => before' = before)

LEMMA HiddenStutters == Hidden => UNCHANGED Service!vars
BY DEF Hidden, Service!vars

\* The initial states are those of a service just installed.
LEMMA RolloutInit == Init => Service!Init
BY DEF Init, Service!Init, Trying

\* Once something went wrong every step is a disturbance at most: only fit files go live,
\* and tac_plus-ng loads nothing but the live file.
LEMMA DisturbedStep ==
  ASSUME ConfigAssumption, IInv, [Next]_vars, mishaps' # {}
  PROVE  Service!Disturb
<1> DEFINE old == IF Trying THEN before ELSE file
<1> USE DEF vars, platform, reported, files, daemon, agent
<1>1. deployedEver \subseteq deployedEver' /\ tac' \in {tac, file, None}
  <2>1. CASE Platform
    BY <2>1 DEF Platform, EditPolicy, DeployBegin, DeployCommit, DeleteServer
  <2>2. CASE Deployer
    BY <2>2 DEF Deployer, Fetch, Validate, Backup, Swap, Signal, SignalNoProcess, Settle, Restore
  <2> QED
    BY <2>1, <2>2 DEF Next, FetchFailed, FetchCorrupted, ReloadUnsure, Heartbeat, HeartbeatLost,
       AgentDies, AgentStarts, TacReloads, TacDies, TacStarts
<1>2. file' \in {file, old} \cup (ValidConfig \cap deployedEver) /\ old' \in {old, file'}
  <2> USE DEF Trying, AfterReload, Deployed, RolledBack, ReloadFailed, Report
  <2>1. CASE Platform \/ FetchFailed \/ FetchCorrupted \/ Heartbeat \/ HeartbeatLost
             \/ AgentDies \/ AgentStarts \/ TacReloads \/ TacDies \/ TacStarts \/ UNCHANGED vars
    BY <2>1 DEF Platform, EditPolicy, DeployBegin, DeployCommit, DeleteServer, FetchFailed,
       FetchCorrupted, Heartbeat, HeartbeatLost, AgentDies, AgentStarts, TacReloads, TacDies,
       TacStarts
  <2>2. CASE Fetch \/ Validate \/ Backup \/ Signal
    BY <2>2 DEF Fetch, Validate, Backup, Signal
  <2>3. CASE SignalNoProcess \/ ReloadUnsure \/ Settle
    BY <2>3 DEF SignalNoProcess, ReloadUnsure, Settle
  <2>4. CASE Swap
    BY <2>4 DEF Swap, IInv, FitInv, RollbackInv
  <2>5. CASE Restore
    BY <2>5 DEF Restore, IInv, RollbackInv
  <2> QED
    BY <2>1, <2>2, <2>3, <2>4, <2>5 DEF Next, Deployer
<1> QED
  BY <1>1, <1>2 DEF Service!Disturb

\* Before that each step is one of the rollout, or hidden.
LEMMA TrustedStep ==
  ASSUME ConfigAssumption, IInv, IInv', [Next]_vars, mishaps' = {}
  PROVE  Service!Next \/ Hidden
<1> USE DEF vars, platform, reported, files, daemon, agent, Hidden, Trying
<1>1. mishaps = {}
  BY DEF Next, Platform, Deployer, EditPolicy, DeployBegin, DeployCommit, DeleteServer, Fetch,
     Validate, Backup, Swap, Signal, SignalNoProcess, Settle, Restore, FetchFailed,
     FetchCorrupted, ReloadUnsure, Heartbeat, HeartbeatLost, AgentDies, AgentStarts,
     TacReloads, TacDies, TacStarts
<1>2. CASE EditPolicy \/ DeployBegin \/ DeleteServer \/ FetchFailed \/ UNCHANGED vars
  BY <1>2 DEF EditPolicy, DeployBegin, DeleteServer, FetchFailed
<1>3. CASE Fetch \/ FetchCorrupted \/ Validate \/ Backup \/ Signal
  BY <1>3 DEF Fetch, FetchCorrupted, Validate, Backup, Signal, Report
<1>4. CASE HeartbeatLost \/ AgentDies \/ AgentStarts
  BY <1>4 DEF HeartbeatLost, AgentDies, AgentStarts
<1>5. CASE DeployCommit
  <2>1. pending \in Config
    BY <1>5 DEF DeployCommit, IInv, TypeOK
  <2>2. Service!Release(pending)
    BY <1>5 DEF DeployCommit, Service!Release
  <2> QED
    BY <2>1, <2>2 DEF Service!Next
<1>6. CASE Swap
  <2>1. candidate \in ValidConfig \cap deployedEver /\ file = before
    BY <1>6 DEF Swap, IInv, FitInv, RollbackInv
  <2>2. Service!Try(candidate)
    BY <1>6, <2>1 DEF Swap, Service!Try
  <2> QED
    BY <2>1, <2>2, ConfigAssumption DEF Service!Next, ConfigAssumption
<1>7. CASE Restore
  <2>1. before # None /\ previous = before
    BY <1>7 DEF Restore, IInv, RollbackInv
  <2>2. Service!GiveUp
    BY <1>7, <2>1 DEF Restore, Service!GiveUp
  <2> QED
    BY <2>2 DEF Service!Next
<1>8. CASE SignalNoProcess \/ Settle
  <2>1. pc' = "report" \/ pc' = "restore"
    BY <1>8 DEF SignalNoProcess, Settle, AfterReload, Deployed, RolledBack, ReloadFailed, Report
  <2>2. /\ Trying
        /\ UNCHANGED <<deployedEver, file, tac, running, mishaps, before>>
    BY <1>8 DEF SignalNoProcess, Settle, AfterReload, Deployed, RolledBack, ReloadFailed
  <2>3. tac \in {None, file}
    BY <1>1, <1>8 DEF SignalNoProcess, Settle, IInv, AgreeInv
  <2>4. CASE pc' = "report"
    BY <2>2, <2>3, <2>4 DEF Service!Next, Service!Conclude
  <2> QED
    BY <2>1, <2>2, <2>4
<1>9. CASE Heartbeat
  <2>1. runningSha = file
    BY <1>1, <1>9 DEF Heartbeat, IInv, AgreeInv
  <2> QED
    BY <1>9, <2>1 DEF Heartbeat, Service!Next, Service!Tell
<1>10. CASE TacReloads \/ TacDies \/ TacStarts
  BY <1>10 DEF TacReloads, TacDies, TacStarts, Service!Next, Service!Load
<1>11. CASE ReloadUnsure
  BY <1>11 DEF ReloadUnsure
<1> QED
  BY <1>2, <1>3, <1>4, <1>5, <1>6, <1>7, <1>8, <1>9, <1>10, <1>11 DEF Next, Platform, Deployer

\* Deployments implement the rollout: with the steps of a sync, the candidate, the copy for
\* a rollback and the signal hidden, each step of platform, agent, supervisor and
\* tac_plus-ng is one the rollout may take, or a stutter.
THEOREM DeployImplements == Spec => ImplementsRollout
<1>1. Init => Service!Init
  BY RolloutInit
<1>2. IInv /\ IInv' /\ [Next]_vars => [Service!Next]_(Service!vars)
  <2> SUFFICES ASSUME IInv, IInv', [Next]_vars
               PROVE  [Service!Next]_(Service!vars)
    OBVIOUS
  <2>1. CASE mishaps' # {}
    BY <2>1, ConfigAssumption, DisturbedStep DEF Service!Next
  <2>2. CASE mishaps' = {}
    BY <2>2, ConfigAssumption, TrustedStep, HiddenStutters
  <2> QED
    BY <2>1, <2>2
<1> QED
  BY <1>1, <1>2, Invariance, PTL DEF Spec, ImplementsRollout, Service!Spec

\* The promise of the rollout is kept by every one of its steps.
LEMMA RolloutPromiseStep ==
  ASSUME Service!Promise, [Service!Next]_(Service!vars)
  PROVE  Service!Promise'
<1> USE DEF Service!Promise, Service!Fit
<1>1. CASE \E c \in Config : Service!Release(c)
  BY <1>1 DEF Service!Release
<1>2. CASE \E c \in Config : Service!Try(c)
  BY <1>2 DEF Service!Try
<1>3. CASE Service!GiveUp
  BY <1>3 DEF Service!GiveUp
<1>4. CASE Service!Conclude
  BY <1>4 DEF Service!Conclude
<1>5. CASE Service!Load
  BY <1>5 DEF Service!Load
<1>6. CASE Service!Tell
  BY <1>6 DEF Service!Tell
<1>7. CASE Service!Disturb
  BY <1>7 DEF Service!Disturb
<1>8. CASE UNCHANGED Service!vars
  BY <1>8 DEF Service!vars
<1> QED
  BY <1>1, <1>2, <1>3, <1>4, <1>5, <1>6, <1>7, <1>8 DEF Service!Next

\* So deployments keep it: tac_plus-ng never runs, and would never start with, anything but
\* the bootstrap file or a valid file an operator deployed, and until an agent is killed
\* amid a reload, or a reload's outcome is unknown, what runs and what was reported is right.
THEOREM RolloutKept == Spec => []Service!Promise
<1>1. Service!Init => Service!Promise
  BY DEF Service!Init, Service!Promise, Service!Fit
<1>2. Service!Promise /\ [Service!Next]_(Service!vars) => Service!Promise'
  BY RolloutPromiseStep
<1> QED
  BY <1>1, <1>2, DeployImplements, PTL DEF ImplementsRollout, Service!Spec
=============================================================================
