------------------------------ MODULE Rollout ------------------------------
(***************************************************************************)
(* The rollout of configurations to a service.  What goes live was         *)
(* released and is valid, and is on trial until the service has loaded it  *)
(* or is down; a trial is given up by going back to what was live before.  *)
(* Only what is live, and not on trial, is reported.  After a disturbance  *)
(* nobody promises what is loaded or reported, but still nothing else      *)
(* than the valid, released configurations goes live.                      *)
(***************************************************************************)
CONSTANTS
  Config,      \* what can be released
  ValidConfig, \* what the service can load
  Boot,        \* what it is installed with
  None         \* no configuration, no service

VARIABLES
  released, \* configurations released so far
  live,     \* what the service starts with and loads when told to
  fallback, \* what was live before the trial, or is live
  trial,    \* what is live is on trial
  loaded,   \* what the service runs with
  told,     \* what was last reported
  broken    \* there was a disturbance

vars == <<released, live, fallback, trial, loaded, told, broken>>

Fit == {Boot, None} \cup (ValidConfig \cap released)

Init ==
  /\ released = {}
  /\ live \in {Boot, None} /\ fallback = live /\ trial = FALSE
  /\ loaded = live /\ told = None
  /\ broken = FALSE

Release(c) ==
  /\ released' = released \cup {c}
  /\ UNCHANGED <<live, fallback, trial, loaded, told, broken>>

Try(c) ==
  /\ ~trial /\ c \in ValidConfig \cap released
  /\ live' = c /\ trial' = TRUE
  /\ UNCHANGED <<released, fallback, loaded, told, broken>>

GiveUp ==
  /\ trial /\ fallback # None
  /\ live' = fallback
  /\ UNCHANGED <<released, fallback, trial, loaded, told, broken>>

\* The trial ends, well or after it was given up.
Conclude ==
  /\ trial /\ loaded \in {None, live}
  /\ trial' = FALSE /\ fallback' = live
  /\ UNCHANGED <<released, live, loaded, told, broken>>

\* The service loads what is live, or exits.
Load ==
  /\ loaded' \in {live, None}
  /\ UNCHANGED <<released, live, fallback, trial, told, broken>>

Tell ==
  /\ ~trial /\ told' = live
  /\ UNCHANGED <<released, live, fallback, trial, loaded, broken>>

Disturb ==
  /\ broken' = TRUE
  /\ released \subseteq released'
  /\ live' \in {live, fallback} \cup (ValidConfig \cap released)
  /\ fallback' \in {fallback, live'}
  /\ loaded' \in {loaded, live, None}

Next ==
  \/ \E c \in Config : Release(c) \/ Try(c)
  \/ GiveUp \/ Conclude \/ Load \/ Tell \/ Disturb

Spec == Init /\ [][Next]_vars

\* What the rollout is for: only what was released and is valid is ever live or loaded,
\* and outside a trial the service runs what is live, unless it is down.
Promise ==
  /\ {live, fallback, loaded} \subseteq Fit
  /\ ~broken => told \in Fit /\ (trial \/ loaded \in {None, live})
=============================================================================
