------------------------------ MODULE Session ------------------------------
(***************************************************************************)
(* The session of one browser: the tabs of the console share the token     *)
(* pair and the tenant acted in through localStorage; access tokens expire *)
(* and are refreshed with a rotating refresh token, one refresh per tab    *)
(* and, under the Web Lock, one per browser; the platform revokes the      *)
(* whole family of a refresh token presented after it was replaced.        *)
(* Tokens, lock and storage are lib/api.ts, routes hooks/use-auth.tsx and  *)
(* the layouts, the platform services/auth/login.py.                       *)
(***************************************************************************)
EXTENDS Naturals, FiniteSets

CONSTANTS
  Tab,        \* tabs of the browser
  User,       \* people who sign in at it
  Superuser,  \* those of them who may act in another tenant
  Nobody,     \* neither a tab nor a user
  MaxTokens,  \* bound: token pairs the platform issues
  MaxAged,    \* bound: access tokens that age at all
  MaxFaults   \* bound: answers lost and tabs closed or reloaded

ASSUME ConstantsAssumption ==
  /\ Superuser \subseteq User
  /\ Nobody \notin Tab \cup User
  /\ MaxTokens \in Nat
  /\ MaxAged \in Nat
  /\ MaxFaults \in Nat

VARIABLES
  stored,   \* nom.auth: the token pair in localStorage, by number (0: none)
  acting,   \* nom.tenant is set: requests carry X-Tenant
  lock,     \* the tab that holds the Web Lock "nom-token-refresh"
  route,    \* of each tab: "login" or "app"
  me,       \* of each tab: whom its query cache belongs to (Nobody: it is empty)
  pc,       \* of each tab: what its request waits for
  token,    \* of each tab: the pair its request or refresh carries
  stale,    \* of each tab: the pair stored when its refresh was asked for
  again,    \* of each tab: the request is sent for the second time
  leaving,  \* of each tab: the pair a sign-out under way revokes (0: none)
  issued,   \* pairs issued so far
  owner,    \* whom each pair was issued to
  family,   \* the sign-in each pair descends from
  revoked,  \* refresh tokens that were replaced or revoked
  age,      \* of each access token: "fresh"; "due" for refresh at the client;
            \* "skewed", refused by the platform only; "dead", both
  faults,   \* answers lost and tabs closed so far
  broken,   \* history: families of which a refresh was lost or that signed out
  missed    \* history: tabs with a cache from before another tab, or a refresh that comes
            \* late, changed whose session is stored

vars == <<stored, acting, lock, route, me, pc, token, stale, again, leaving,
          issued, owner, family, revoked, age, faults, broken, missed>>
browser == <<stored, acting, lock>>
tab     == <<route, me, pc, token, stale, again, leaving>>
server  == <<issued, owner, family, revoked>>
history == <<faults, broken, missed>>

Pair == 1..MaxTokens

Init ==
  /\ stored = 0 /\ acting = FALSE /\ lock = Nobody
  /\ route = [t \in Tab |-> "login"]
  /\ me = [t \in Tab |-> Nobody]
  /\ pc = [t \in Tab |-> "idle"]
  /\ token = [t \in Tab |-> 0]
  /\ stale = [t \in Tab |-> 0]
  /\ again = [t \in Tab |-> FALSE]
  /\ leaving = [t \in Tab |-> 0]
  /\ issued = 0
  /\ owner = [n \in Pair |-> Nobody]
  /\ family = [n \in Pair |-> 0]
  /\ revoked = {}
  /\ age = [n \in Pair |-> "fresh"]
  /\ faults = 0 /\ broken = {} /\ missed = {}

Due(n)     == age[n] \in {"due", "dead"}
Refused(n) == age[n] \in {"skewed", "dead"}
Family(n)  == {m \in 1..issued : family[m] = family[n]}
Holder     == IF stored = 0 THEN Nobody ELSE owner[stored]

Caching    == {t \in Tab : me[t] # Nobody}

\* The other tabs keep their cache when tab t changes whose session is stored.
Missed(t) == missed \cup (Caching \ {t})

\* issue_tokens
Issue(u, f) ==
  /\ issued' = issued + 1
  /\ owner' = [owner EXCEPT ![issued + 1] = u]
  /\ family' = [family EXCEPT ![issued + 1] = f]

\* An access token nears its end, passes it, or the clocks disagree about it.
Age(n, to) ==
  /\ n <= issued
  /\ age[n] = "fresh" => Cardinality({m \in Pair : age[m] # "fresh"}) < MaxAged
  /\ <<age[n], to>> \in {<<"fresh", "due">>, <<"fresh", "skewed">>, <<"due", "dead">>}
  /\ age' = [age EXCEPT ![n] = to]
  /\ UNCHANGED <<browser, tab, server, history>>

-----------------------------------------------------------------------------
(* Entering the application, and the tenant                                 *)

\* The first query of the application is /auth/me; what an earlier visit left in the
\* tab's cache is used instead while it is fresh.
Enter(t, u) ==
  /\ route' = [route EXCEPT ![t] = "app"]
  /\ me' \in {[me EXCEPT ![t] = u], [me EXCEPT ![t] = IF @ = Nobody THEN u ELSE @]}

\* The login form or the single sign-on page, left open for as long as one likes:
\* setSession stores the new pair over whatever is stored.
Login(t, u) ==
  /\ route[t] = "login"
  /\ issued < MaxTokens
  /\ Issue(u, issued + 1)
  /\ stored' = issued + 1
  /\ missed' = Missed(t)
  /\ Enter(t, u)
  /\ UNCHANGED <<acting, lock, pc, token, stale, again, leaving, revoked, age, faults, broken>>

\* A tab opened, reloaded or sent to the login page finds a session stored.
Load(t) ==
  /\ route[t] = "login" /\ stored # 0
  /\ Enter(t, Holder)
  /\ UNCHANGED <<browser, pc, token, stale, again, leaving, server, age, history>>

\* useHasSession: the storage event of another tab, or the next look.
SeeSignedOut(t) ==
  /\ route[t] = "app" /\ stored = 0
  /\ route' = [route EXCEPT ![t] = "login"]
  /\ UNCHANGED <<browser, me, pc, token, stale, again, leaving, server, age, history>>

\* switchTenant: to another tenant or home.
SwitchTenant(t) ==
  /\ route[t] = "app" /\ me[t] \in Superuser
  /\ acting' = ~acting
  /\ UNCHANGED <<stored, lock, tab, server, age, history>>

-----------------------------------------------------------------------------
(* A request                                                                *)

Goto(t, to, n) ==
  /\ pc' = [pc EXCEPT ![t] = to]
  /\ token' = [token EXCEPT ![t] = n]

\* The request is over, with an answer or an error.
Done(t) ==
  /\ Goto(t, "idle", 0)
  /\ stale' = [stale EXCEPT ![t] = 0]
  /\ again' = [again EXCEPT ![t] = FALSE]

\* refresh(): the pair stored now is what it takes for stale.
AskRefresh(t) ==
  /\ Goto(t, "waiting", 0)
  /\ stale' = [stale EXCEPT ![t] = stored]

\* accessToken(), then send().
Request(t) ==
  /\ route[t] = "app" /\ pc[t] = "idle" /\ stored # 0
  /\ IF Due(stored) THEN AskRefresh(t) ELSE Goto(t, "sending", stored) /\ UNCHANGED stale
  /\ UNCHANGED <<browser, route, me, again, leaving, server, age, history>>

\* The platform answers it, by a 401 when it does not take the access token.
Serve(t) ==
  /\ pc[t] = "sending"
  /\ IF Refused(token[t])
     THEN Goto(t, "rejected", token[t]) /\ UNCHANGED <<stale, again>>
     ELSE Done(t)
  /\ UNCHANGED <<browser, route, me, leaving, server, age, history>>

\* Mutant: the query cache is not emptied when a session expires.
ExpireKeepingCache(t) ==
  /\ stored' = 0
  /\ route' = [route EXCEPT ![t] = "login"]
  /\ me' = me
  /\ missed' = Missed(t)

\* storage.clear() and, in the application, the listener of AuthProvider: the cache
\* is emptied and the login page shown.  The tenant stays stored.
Expire(t) ==
  /\ stored' = 0
  /\ route' = [route EXCEPT ![t] = "login"]
  /\ IF route[t] = "app"
     THEN me' = [me EXCEPT ![t] = Nobody] /\ missed' = Missed(t) \ {t}
     ELSE me' = me /\ missed' = Missed(t)

\* A 401 is refreshed and sent again once, the second ends the session.
Reject(t) ==
  /\ pc[t] = "rejected"
  /\ IF again[t]
     THEN Expire(t) /\ Done(t)
     ELSE /\ AskRefresh(t)
          /\ again' = [again EXCEPT ![t] = TRUE]
          /\ UNCHANGED <<stored, route, me, missed>>
  /\ UNCHANGED <<acting, lock, leaving, server, age, faults, broken>>

-----------------------------------------------------------------------------
(* A refresh                                                                *)

\* Another tab replaced the pair while this one waited for the lock.
Replaced(t) == stale[t] # 0 /\ stored # stale[t] /\ ~Due(stored)

\* Mutant: the token from before the wait for the lock is presented.
DoRefreshOfStale(t) ==
  /\ pc[t] = "waiting"
  /\ lock = Nobody
  /\ \/ stored = 0 /\ Expire(t) /\ Done(t) /\ UNCHANGED lock
     \/ /\ stored # 0
        /\ Goto(t, "refreshing", IF stale[t] = 0 THEN stored ELSE stale[t])
        /\ stale' = [stale EXCEPT ![t] = 0]
        /\ lock' = t
        /\ UNCHANGED <<stored, route, me, again, missed>>
  /\ UNCHANGED <<acting, leaving, server, age, faults, broken>>

\* The lock is granted and doRefresh looks at the storage again.
DoRefresh(t) ==
  /\ pc[t] = "waiting"
  /\ lock = Nobody
  /\ \/ stored = 0 /\ Expire(t) /\ Done(t) /\ UNCHANGED lock
     \/ /\ stored # 0 /\ Replaced(t)
        /\ Goto(t, "sending", stored)
        /\ stale' = [stale EXCEPT ![t] = 0]
        /\ UNCHANGED <<stored, route, me, again, missed, lock>>
     \/ /\ stored # 0 /\ ~Replaced(t)
        /\ Goto(t, "refreshing", stored)
        /\ stale' = [stale EXCEPT ![t] = 0]
        /\ lock' = t
        /\ UNCHANGED <<stored, route, me, again, missed>>
  /\ UNCHANGED <<acting, leaving, server, age, faults, broken>>

\* Mutant: the new pair does not stay in the family of the one it replaces.
RotateToNewFamily(t) ==
  /\ pc[t] = "refreshing"
  /\ token[t] \notin revoked /\ issued < MaxTokens
  /\ Issue(owner[token[t]], issued + 1)
  /\ revoked' = revoked \cup {token[t]}
  /\ Goto(t, "rotated", issued + 1)
  /\ UNCHANGED <<browser, route, me, stale, again, leaving, age, history>>

\* services/auth/login.py refresh: a replaced token revokes its family, a good one
\* is replaced by a new pair of it, one past its TTL or of a disabled user refused.
Rotate(t) ==
  /\ pc[t] = "refreshing"
  /\ \/ /\ token[t] \in revoked
        /\ revoked' = revoked \cup Family(token[t])
        /\ Goto(t, "denied", token[t])
        /\ UNCHANGED <<issued, owner, family>>
     \/ /\ token[t] \notin revoked
        /\ Goto(t, "denied", token[t])
        /\ UNCHANGED server
     \/ /\ token[t] \notin revoked /\ issued < MaxTokens
        /\ Issue(owner[token[t]], family[token[t]])
        /\ revoked' = revoked \cup {token[t]}
        /\ Goto(t, "rotated", issued + 1)
  /\ UNCHANGED <<browser, route, me, stale, again, leaving, age, history>>

Unlock(t) == lock' = IF lock = t THEN Nobody ELSE lock

\* Mutant: the new pair is used but not stored.
RotatedUnsaved(t) ==
  /\ pc[t] = "rotated"
  /\ stored' = stored
  /\ missed' = missed
  /\ Unlock(t)
  /\ Goto(t, "sending", token[t])
  /\ UNCHANGED <<acting, route, me, stale, again, leaving, server, age, faults, broken>>

\* setSession, and the request goes on.
Rotated(t) ==
  /\ pc[t] = "rotated"
  /\ stored' = token[t]
  /\ missed' = IF owner[token[t]] = Holder THEN missed ELSE missed \cup Caching
  /\ Unlock(t)
  /\ Goto(t, "sending", token[t])
  /\ UNCHANGED <<acting, route, me, stale, again, leaving, server, age, faults, broken>>

\* Mutant: the lock is not released when the refresh is refused.
DeniedLocked(t) ==
  /\ pc[t] = "denied"
  /\ Expire(t)
  /\ Done(t)
  /\ UNCHANGED <<acting, lock, leaving, server, age, faults, broken>>

\* A refused refresh ends the session.
Denied(t) ==
  /\ pc[t] = "denied"
  /\ Expire(t)
  /\ Unlock(t)
  /\ Done(t)
  /\ UNCHANGED <<acting, leaving, server, age, faults, broken>>

\* What the platform did for a refresh nobody hears of is done.
Unheard(t) ==
  IF pc[t] \in {"refreshing", "rotated"} THEN broken \cup {family[token[t]]} ELSE broken

\* Mutant: every lost request counts, without a limit.
LoseForEver(t) ==
  /\ pc[t] \in {"sending", "refreshing", "rotated", "denied"}
  /\ faults' = faults + 1
  /\ broken' = Unheard(t)
  /\ Unlock(t)
  /\ Done(t)
  /\ UNCHANGED <<stored, acting, route, me, leaving, server, age, missed>>

\* The network fails under a request or a refresh: it is an error, nothing else.
Lose(t) ==
  /\ pc[t] \in {"sending", "refreshing", "rotated", "denied"}
  /\ faults < MaxFaults
  /\ faults' = faults + 1
  /\ broken' = Unheard(t)
  /\ Unlock(t)
  /\ Done(t)
  /\ UNCHANGED <<stored, acting, route, me, leaving, server, age, missed>>

\* The tab is closed or reloaded, and with it goes all it had in memory: what it was
\* waiting for, its cache and the sign-out it had begun.
Close(t) ==
  /\ pc[t] # "idle" \/ leaving[t] # 0 \/ me[t] # Nobody
  /\ faults < MaxFaults
  /\ faults' = faults + 1
  /\ broken' = Unheard(t)
  /\ missed' = missed \ {t}
  /\ Unlock(t)
  /\ Done(t)
  /\ me' = [me EXCEPT ![t] = Nobody]
  /\ route' = [route EXCEPT ![t] = "login"]
  /\ leaving' = [leaving EXCEPT ![t] = 0]
  /\ UNCHANGED <<stored, acting, server, age>>

-----------------------------------------------------------------------------
(* Signing out                                                              *)

\* logout(): the storage is cleared first, then the platform is told.
Logout(t) ==
  /\ route[t] = "app" /\ leaving[t] = 0 /\ stored # 0
  /\ leaving' = [leaving EXCEPT ![t] = stored]
  /\ broken' = broken \cup {family[stored]}
  /\ stored' = 0
  /\ missed' = Missed(t)
  /\ UNCHANGED <<acting, lock, route, me, pc, token, stale, again, server, age, faults>>

\* services/auth/login.py logout, whose request may be lost; then the tenant, the
\* cache and the page.
Revoke(t) ==
  /\ leaving[t] # 0
  /\ \/ revoked' = revoked \cup Family(leaving[t]) /\ UNCHANGED faults
     \/ faults < MaxFaults /\ faults' = faults + 1 /\ UNCHANGED revoked
  /\ acting' = FALSE
  /\ me' = [me EXCEPT ![t] = Nobody]
  /\ missed' = missed \ {t}
  /\ leaving' = [leaving EXCEPT ![t] = 0]
  /\ route' = [route EXCEPT ![t] = "login"]
  /\ UNCHANGED <<stored, lock, pc, token, stale, again, issued, owner, family, age, broken>>

-----------------------------------------------------------------------------

Refreshing(t) == DoRefresh(t) \/ Rotate(t) \/ Rotated(t) \/ Denied(t)
Answering(t)  == Serve(t) \/ Reject(t) \/ Revoke(t)
Using(t) == Load(t) \/ SeeSignedOut(t) \/ SwitchTenant(t) \/ Request(t) \/ Logout(t)
              \/ \E u \in User : Login(t, u)

Next ==
  \/ \E t \in Tab : Using(t) \/ Refreshing(t) \/ Answering(t) \/ Lose(t) \/ Close(t)
  \/ \E n \in Pair, to \in {"due", "skewed", "dead"} : Age(n, to)

\* Requests are answered, answers are processed and the lock is granted in turn; the
\* users, the clock and the faults promise nothing.
Fairness == \A t \in Tab : SF_vars(Refreshing(t)) /\ WF_vars(Answering(t))

Spec == Init /\ [][Next]_vars
FairSpec == Spec /\ Fairness

-----------------------------------------------------------------------------
(* Properties                                                               *)

TypeOK ==
  /\ stored \in 0..issued
  /\ acting \in BOOLEAN
  /\ lock \in Tab \cup {Nobody}
  /\ route \in [Tab -> {"login", "app"}]
  /\ me \in [Tab -> User \cup {Nobody}]
  /\ pc \in [Tab -> {"idle", "waiting", "sending", "rejected", "refreshing", "rotated", "denied"}]
  /\ token \in [Tab -> 0..issued]
  /\ stale \in [Tab -> 0..issued]
  /\ again \in [Tab -> BOOLEAN]
  /\ leaving \in [Tab -> 0..issued]
  /\ issued \in 0..MaxTokens
  /\ owner \in [Pair -> User \cup {Nobody}]
  /\ family \in [Pair -> 0..MaxTokens]
  /\ revoked \subseteq 1..issued
  /\ age \in [Pair -> {"fresh", "due", "skewed", "dead"}]
  /\ faults \in 0..MaxFaults
  /\ broken \subseteq Pair
  /\ missed \subseteq Tab

\* "... so a rotated refresh token is never presented twice" (lib/api.ts): a refresh
\* on its way carries a token nobody replaced, unless the answer to an earlier one
\* was lost or its session was signed out.
NeverPresentedTwice ==
  \A t \in Tab : pc[t] = "refreshing" /\ token[t] \in revoked => family[token[t]] \in broken

\* What is stored can be refreshed: the pair in storage is the live one of its
\* family, or the answer that replaces it is on its way - with the same exceptions.
StoredIsLive ==
  stored \in revoked =>
    \/ family[stored] \in broken
    \/ \E t \in Tab : pc[t] = "rotated" /\ family[token[t]] = family[stored] /\ lock = t

\* The Web Lock is held for a refresh on its way and by nobody else: a refresh that
\* failed or a closed tab never leaves the others waiting.
LockHeldToRefresh ==
  \A t \in Tab : lock = t <=> pc[t] \in {"refreshing", "rotated", "denied"}

\* The application shows the data and the permissions of whoever is signed in: only
\* a tab that missed how the session changed, or one whose own sign-out is still under
\* way, shows somebody else's.
ShownIsTheSignedIn ==
  \A t \in Tab : route[t] = "app" /\ stored # 0 /\ me[t] # Holder =>
    t \in missed \/ leaving[t] # 0

\* Every request of a tab ends: with its answer, an error or on the login page.
Settles == \A t \in Tab : pc[t] # "idle" ~> pc[t] = "idle"

\* "the session is gone locally either way" (lib/api.ts, logout): once a user signed
\* out, no session is stored before somebody signs in.
SignedOutStays ==
  [][stored' # 0 => stored # 0 \/ issued' > issued]_vars

\* In terms of sign-ins: those begun and whose they are, the one stored, the one being
\* refreshed, and those of which every token is revoked.
Begun    == {<<family[n], owner[n]>> : n \in 1..issued}
SignedIn == IF stored = 0 THEN 0 ELSE family[stored]
Renewing == IF lock = Nobody THEN {} ELSE {family[token[lock]]}
Ended    == {family[n] : n \in {m \in revoked : Family(m) \subseteq revoked}}

\* What the browser promises whatever its tabs do: who is signed in is one register, in
\* which a refresh brings back only the sign-in it was sent for, and the platform refuses
\* only sign-ins that signed out or lost an answer.
Browser == INSTANCE SignOn WITH
  User     <- User,
  Id       <- Pair,
  None     <- 0,
  sessions <- Begun,
  session  <- SignedIn,
  renewing <- Renewing,
  ended    <- Ended,
  excused  <- broken

ImplementsSignOn == Browser!Spec

\* What is left of "the session is gone locally either way": a sign-in that is neither
\* stored nor being refreshed never comes back, whatever tabs, answers and later users do.
SignedOutForGood ==
  [][\A n \in 1..issued :
       family[n] \notin {SignedIn} \cup Renewing => family[n] \notin ({SignedIn} \cup Renewing)']_vars

\* "Superusers can act inside another tenant" (lib/api.ts): the X-Tenant header of
\* whoever is signed in is that of a superuser.
TenantIsTheUsers == acting /\ stored # 0 => Holder \in Superuser
=============================================================================
