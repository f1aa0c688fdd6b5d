--------------------------- MODULE ChangeWorkflow ---------------------------
(***************************************************************************)
(* What the change workflow promises about one change request (docs: draft *)
(* -> approval (four-eyes) -> implement -> close, a push to a device gated *)
(* by an approved change).  Next is the promise that survives handlers     *)
(* that work from what they read a moment ago: a step starts from a state  *)
(* the change has reached, so that no stage of the workflow is ever        *)
(* skipped.  StrictNext is the promise of the documents: a step starts     *)
(* from the state the change is in.                                        *)
(***************************************************************************)
CONSTANTS User, Requester, Approver, Device, Nobody

VARIABLES
  state,     \* of the change request
  reached,   \* the states it has been in
  approver,  \* who approved it last (Nobody: not approved yet)
  devices,   \* the devices it covers
  listed,    \* the devices it has ever covered
  pushed,    \* devices a configuration was pushed to under it
  recorded   \* those with a record of the push

vars == <<state, reached, approver, devices, listed, pushed, recorded>>

Steps ==
  {<<"draft", "pending_approval">>, <<"rejected", "pending_approval">>,
   <<"pending_approval", "approved">>, <<"pending_approval", "rejected">>,
   <<"approved", "implemented">>, <<"implemented", "closed">>}
  \cup {"draft", "pending_approval", "approved", "rejected"} \X {"cancelled"}

Init ==
  /\ state = "draft" /\ reached = {"draft"} /\ approver = Nobody
  /\ devices \in SUBSET Device /\ listed = devices
  /\ pushed = {} /\ recorded = {}

\* One step of the workflow from state s.
MoveFrom(s) ==
  /\ <<s, state'>> \in Steps
  /\ reached' = reached \cup {state'}
  /\ IF state' = "approved" THEN approver' \in Approver \ {Requester} ELSE approver' = approver
  /\ UNCHANGED <<devices, listed, pushed, recorded>>

Edit ==
  /\ devices' \in SUBSET Device
  /\ listed' = listed \cup devices'
  /\ UNCHANGED <<state, reached, approver, pushed, recorded>>

Push(d) ==
  /\ pushed' = pushed \cup {d}
  /\ UNCHANGED <<state, reached, approver, devices, listed, recorded>>

Record(d) ==
  /\ d \in pushed
  /\ recorded' = recorded \cup {d}
  /\ UNCHANGED <<state, reached, approver, devices, listed, pushed>>

Next ==
  \/ \E s \in reached : MoveFrom(s)
  \/ Edit
  \/ \E d \in listed : "approved" \in reached /\ Push(d)
  \/ \E d \in Device : Record(d)

Spec == Init /\ [][Next]_vars

StrictNext ==
  \/ MoveFrom(state)
  \/ state \in {"draft", "rejected"} /\ Edit
  \/ \E d \in devices : state = "approved" /\ Push(d)
  \/ \E d \in Device : Record(d)

StrictSpec == Init /\ [][StrictNext]_vars

\* What an auditor may conclude from a change, under the weak promise already: no stage was
\* skipped, somebody else approved it, only approved changes touch devices and nothing is
\* recorded that was not done.
Promise ==
  /\ state \in reached
  /\ {"approved", "rejected"} \cap reached # {} => "pending_approval" \in reached
  /\ "implemented" \in reached => "approved" \in reached
  /\ "closed" \in reached => "implemented" \in reached
  /\ IF "approved" \in reached THEN approver \in Approver \ {Requester} ELSE approver = Nobody
  /\ devices \subseteq listed /\ pushed \subseteq listed /\ recorded \subseteq pushed
  /\ pushed # {} => "approved" \in reached
=============================================================================
