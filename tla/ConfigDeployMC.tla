--------------------------- MODULE ConfigDeployMC ---------------------------
(* A small instance of ConfigDeploy for TLC. *)
EXTENDS ConfigDeploy
CONSTANTS c1, c2, bad
Configs == {c1, c2, bad}
GoodConfigs == {c1, c2}
TwoConfigs == {c1, bad}
OneGood == {c1}
=============================================================================
