------------------------------- MODULE SignOn -------------------------------
(***************************************************************************)
(* What a browser promises about who is signed in, without tabs, tokens    *)
(* and locks: one register.  A sign-in puts a new session there, a         *)
(* sign-out or an expiry empties it, and a renewal - one at a time, begun  *)
(* for the session that is in it - may bring back the session it was begun *)
(* for and no other.  The platform ends a session only when its user       *)
(* signed out or a renewal of it was lost.                                 *)
(***************************************************************************)
EXTENDS Naturals

CONSTANTS User, Id, None

VARIABLES
  sessions,  \* pairs of a session and whose it is, for every session begun
  session,   \* the one the browser acts for (None: nobody is signed in)
  renewing,  \* the one a renewal is on its way for, or none
  ended,     \* those the platform renews no more
  excused    \* those that were signed out or of which a renewal was lost

vars == <<sessions, session, renewing, ended, excused>>

Known == {p[1] : p \in sessions}

Init ==
  /\ sessions = {} /\ session = None
  /\ renewing = {} /\ ended = {} /\ excused = {}

SignIn(u) ==
  /\ session' \in Id \ Known
  /\ sessions' = sessions \cup {<<session', u>>}
  /\ UNCHANGED <<renewing, ended, excused>>

SignOut ==
  /\ session # None
  /\ session' = None
  /\ excused' = excused \cup {session}
  /\ UNCHANGED <<sessions, renewing, ended>>

Expire ==
  /\ session' = None
  /\ UNCHANGED <<sessions, renewing, ended, excused>>

Begin ==
  /\ renewing = {} /\ session # None
  /\ renewing' = {session}
  /\ UNCHANGED <<sessions, session, ended, excused>>

\* The renewal is answered: its session goes on, or it was refused.
Answer ==
  /\ renewing # {}
  /\ session' \in renewing \cup {None}
  /\ renewing' = {}
  /\ UNCHANGED <<sessions, ended, excused>>

\* No answer comes; the platform may have renewed the session all the same.
Lost ==
  /\ renewing # {}
  /\ excused' \in {excused, excused \cup renewing}
  /\ renewing' = {}
  /\ UNCHANGED <<sessions, session, ended>>

End(s) ==
  /\ ended' = ended \cup {s}
  /\ UNCHANGED <<sessions, session, renewing, excused>>

Next ==
  \/ \E u \in User : SignIn(u)
  \/ SignOut \/ Expire
  \/ Begin \/ Answer \/ Lost
  \/ \E s \in excused : End(s)

Spec == Init /\ [][Next]_vars

\* What a user may conclude: a session is one person's, the browser acts for and renews
\* only sessions somebody began here, and one that is signed in can be renewed unless it
\* was signed out or a renewal of it was lost.
Promise ==
  /\ \A p, q \in sessions : p[1] = q[1] => p = q
  /\ session # None => session \in Known
  /\ renewing \subseteq Known
  /\ ended \subseteq excused /\ excused \subseteq Known
=============================================================================
