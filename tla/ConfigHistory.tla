--------------------------- MODULE ConfigHistory ---------------------------
(***************************************************************************)
(* The history of a tenant's configurations.  Git holds the versions, and  *)
(* each version changes the configuration of one device.  The database     *)
(* names for each device a version that holds what it says the device had, *)
(* and notes versions as changes of the device they changed.  Versions     *)
(* nobody noted may exist: the database can fail where Git did not.        *)
(***************************************************************************)
EXTENDS Naturals, Sequences

CONSTANTS Device, Content, Absent, None

VARIABLES
  log,      \* the versions, oldest first: a file per device
  latest,   \* what the database says last of each device
  recorded, \* the versions it notes as changes of each device
  broken    \* a mishap the history does not survive: nothing is promised any more

vars == <<log, latest, recorded, broken>>

File(i, d) == IF i = 0 THEN Absent ELSE log[i][d]

\* Version i changed the configuration of d.
Touches(i, d) == i \in DOMAIN log /\ log[i][d] # File(i - 1, d)

Init ==
  /\ log = <<>>
  /\ latest = [d \in Device |-> None] /\ recorded = [d \in Device |-> {}]
  /\ broken = FALSE

\* A version in which device d has another configuration than in the one before.
Store(d, c) ==
  /\ c # File(Len(log), d)
  /\ log' = Append(log, [e \in Device |-> IF e = d THEN c ELSE File(Len(log), e)])
  /\ UNCHANGED <<latest, recorded, broken>>

\* The database catches up: it notes changes, and says of a device what a version holds.
Record ==
  /\ \A d \in Device :
       /\ \/ latest'[d] = latest[d]
          \/ /\ latest'[d].commit \in DOMAIN log
             /\ log[latest'[d].commit][d] = latest'[d].content
             /\ latest'[d].changed => latest'[d].commit \in recorded'[d]
       /\ recorded[d] \subseteq recorded'[d]
       /\ \A i \in recorded'[d] \ recorded[d] : Touches(i, d)
  /\ UNCHANGED <<log, broken>>

Break == broken' = TRUE

Next ==
  \/ \E d \in Device, c \in Content : Store(d, c)
  \/ Record
  \/ Break

Spec == Init /\ [][Next]_vars

\* What a reader of the history relies on: a version differs from the one before in the
\* file of one device, and what the database notes is true of Git.
Promise ==
  ~broken =>
    /\ \A i \in DOMAIN log : \E d \in Device :
         Touches(i, d) /\ \A e \in Device \ {d} : ~Touches(i, e)
    /\ \A d \in Device :
         /\ latest[d] # None =>
              latest[d].commit \in DOMAIN log /\ log[latest[d].commit][d] = latest[d].content
         /\ \A i \in recorded[d] : Touches(i, d)
=============================================================================
