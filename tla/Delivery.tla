------------------------------ MODULE Delivery ------------------------------
(***************************************************************************)
(* At-least-once delivery out of a store that forgets what has been        *)
(* acknowledged.  What is written is owed until it is acknowledged; what   *)
(* is owed may be taken and delivered any number of times; an              *)
(* acknowledgement forgets nothing that was not delivered or refused.  The *)
(* carrier may forget at any time what it has in hand.                     *)
(***************************************************************************)
CONSTANTS
  Item,      \* what there is to deliver
  Refusable  \* items the receiver never takes

VARIABLES
  written,    \* items in the store so far
  owed,       \* those a carrier that starts afresh would take
  inFlight,   \* those the carrier has in hand
  delivered,  \* those the receiver has
  refused,    \* those given up, because the receiver does not take them
  broken      \* the store was tampered with: nothing is promised any more

vars == <<written, owed, inFlight, delivered, refused, broken>>

Settled == delivered \cup refused

Init ==
  /\ written = {} /\ owed = {} /\ inFlight = {}
  /\ delivered = {} /\ refused = {}
  /\ broken = FALSE

Write(x) ==
  /\ written' = written \cup {x} /\ x \notin written
  /\ owed' = owed \cup {x}
  /\ UNCHANGED <<inFlight, delivered, refused, broken>>

Take ==
  /\ inFlight \subseteq inFlight' /\ inFlight' \subseteq owed
  /\ UNCHANGED <<written, owed, delivered, refused, broken>>

\* The receiver takes some of what is in hand; the carrier may not get to know.
Deliver(items) ==
  /\ delivered' = delivered \cup items
  /\ UNCHANGED <<written, owed, inFlight, refused, broken>>

Refuse(x) ==
  /\ refused' = refused \cup {x}
  /\ UNCHANGED <<written, owed, inFlight, delivered, broken>>

\* All that was in hand is settled: some of what is settled is owed no more.
Acknowledge ==
  /\ inFlight \subseteq Settled
  /\ inFlight' = {}
  /\ owed' \subseteq owed /\ owed \ owed' \subseteq Settled
  /\ UNCHANGED <<written, delivered, refused, broken>>

\* The carrier dies.
Forget ==
  /\ inFlight' = {}
  /\ UNCHANGED <<written, owed, delivered, refused, broken>>

Break == broken' = TRUE

Next ==
  \/ \E x \in Item : Write(x)
  \/ Take
  \/ \E items \in SUBSET (inFlight \ Refusable) : Deliver(items)
  \/ \E x \in inFlight \cap Refusable : Refuse(x)
  \/ Acknowledge
  \/ Forget
  \/ Break

Spec == Init /\ [][Next]_vars

\* What the channel is for: nothing is lost, only what was written and is not yet
\* acknowledged is in hand, and only what the receiver does not take is given up.
Promise ==
  ~broken =>
    /\ owed \subseteq written /\ written \ owed \subseteq Settled
    /\ inFlight \subseteq owed
    /\ Settled \subseteq written
    /\ refused = Settled \cap Refusable
=============================================================================
