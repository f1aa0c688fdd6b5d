--------------------------- MODULE SessionProofs ---------------------------
(***************************************************************************)
(* Proofs about Session, for any number of tabs, users, token pairs and    *)
(* faults: the types, who holds the Web Lock, that a refresh never         *)
(* presents a token that was replaced, whom a tab shows, and that the tabs *)
(* together implement SignOn.                                              *)
(***************************************************************************)
EXTENDS Session, TLAPS

\* A pair that was issued descends from one that was.
FamilyInv == \A n \in 1..issued : family[n] \in Pair

\* A refresh on its way, or answered, carries a live pair, the exceptions aside.
CarriedInv ==
  \A t \in Tab : pc[t] \in {"refreshing", "rotated"} =>
    /\ token[t] \in 1..issued
    /\ token[t] \in revoked => family[token[t]] \in broken

\* The family a sign-out revokes is one of the exceptions.
LeavingInv == \A t \in Tab : leaving[t] # 0 => family[leaving[t]] \in broken

IInv == TypeOK /\ FamilyInv /\ CarriedInv /\ LeavingInv /\ LockHeldToRefresh /\ StoredIsLive

-----------------------------------------------------------------------------
\* What the steps of a request leave well typed.

\* A tab that moves on with a token keeps the types.
LEMMA GotoType ==
  ASSUME NEW t \in Tab, NEW to, NEW n, TypeOK, Goto(t, to, n), issued' \in Nat, issued <= issued', n \in 0..issued',
         to \in {"idle", "waiting", "sending", "rejected", "refreshing", "rotated", "denied"}
  PROVE  /\ pc' \in [Tab -> {"idle", "waiting", "sending", "rejected", "refreshing", "rotated", "denied"}]
         /\ token' \in [Tab -> 0..issued']
         /\ pc'[t] = to /\ token'[t] = n
         /\ \A o \in Tab \ {t} : pc'[o] = pc[o] /\ token'[o] = token[o]
<1>1. issued \in Nat /\ 0..issued \subseteq 0..issued'
  BY ConstantsAssumption DEF TypeOK
<1>2. token' \in [Tab -> 0..issued']
  BY <1>1 DEF Goto, TypeOK
<1>3. pc' \in [Tab -> {"idle", "waiting", "sending", "rejected", "refreshing", "rotated", "denied"}]
  BY DEF Goto, TypeOK
<1> QED BY <1>2, <1>3 DEF Goto, TypeOK

\* A tab that is done with its request keeps the types.
LEMMA DoneType ==
  ASSUME NEW t \in Tab, TypeOK, Done(t), issued' = issued
  PROVE  /\ pc' \in [Tab -> {"idle", "waiting", "sending", "rejected", "refreshing", "rotated", "denied"}]
         /\ token' \in [Tab -> 0..issued']
         /\ stale' \in [Tab -> 0..issued']
         /\ again' \in [Tab -> BOOLEAN]
         /\ pc'[t] = "idle" /\ token'[t] = 0
         /\ \A o \in Tab \ {t} : pc'[o] = pc[o] /\ token'[o] = token[o]
<1>1. issued \in Nat
  BY ConstantsAssumption DEF TypeOK
<1>2. Goto(t, "idle", 0) /\ 0 \in 0..issued' /\ issued' \in Nat /\ issued <= issued'
  BY <1>1 DEF Done
<1>3. stale' \in [Tab -> 0..issued'] /\ again' \in [Tab -> BOOLEAN]
  BY <1>1 DEF Done, TypeOK
<1> QED BY <1>2, <1>3, GotoType

\* So does one that asks for the lock to refresh.
LEMMA AskType ==
  ASSUME NEW t \in Tab, TypeOK, AskRefresh(t), issued' = issued
  PROVE  /\ pc' \in [Tab -> {"idle", "waiting", "sending", "rejected", "refreshing", "rotated", "denied"}]
         /\ token' \in [Tab -> 0..issued']
         /\ stale' \in [Tab -> 0..issued']
         /\ pc'[t] = "waiting" /\ token'[t] = 0
         /\ \A o \in Tab \ {t} : pc'[o] = pc[o] /\ token'[o] = token[o]
<1>1. issued \in Nat
  BY ConstantsAssumption DEF TypeOK
<1>2. Goto(t, "waiting", 0) /\ 0 \in 0..issued' /\ issued' \in Nat /\ issued <= issued'
  BY <1>1 DEF AskRefresh
<1>3. stale' \in [Tab -> 0..issued']
  BY <1>1 DEF AskRefresh, TypeOK
<1> QED BY <1>2, <1>3, GotoType

\* So does one whose session has expired.
LEMMA ExpireType ==
  ASSUME NEW t \in Tab, TypeOK, Expire(t)
  PROVE  /\ stored' = 0
         /\ route' \in [Tab -> {"login", "app"}]
         /\ me' \in [Tab -> User \cup {Nobody}]
         /\ missed' \subseteq Tab
BY DEF Expire, Missed, Caching, TypeOK

\* So does one that enters the application.
LEMMA EnterType ==
  ASSUME NEW t \in Tab, NEW u \in User \cup {Nobody}, TypeOK, Enter(t, u)
  PROVE  /\ route' \in [Tab -> {"login", "app"}]
         /\ me' \in [Tab -> User \cup {Nobody}]
<1>1. route' \in [Tab -> {"login", "app"}]
  BY DEF Enter, TypeOK
<1>2. CASE me' = [me EXCEPT ![t] = u]
  BY <1>1, <1>2 DEF TypeOK
<1>3. CASE me' = [me EXCEPT ![t] = IF @ = Nobody THEN u ELSE @]
  BY <1>1, <1>3 DEF TypeOK
<1> QED BY <1>1, <1>2, <1>3 DEF Enter

\* The stored pair belongs to a user or there is none.
LEMMA HolderType == TypeOK => Holder \in User \cup {Nobody}
<1>1. ASSUME TypeOK, stored # 0 PROVE stored \in Pair
  BY <1>1, ConstantsAssumption DEF TypeOK, Pair
<1> QED BY <1>1 DEF Holder, TypeOK

\* A new pair takes the next number and leaves the others alone.
LEMMA IssueType ==
  ASSUME NEW u \in User \cup {Nobody}, NEW f \in Pair, TypeOK, issued < MaxTokens, Issue(u, f)
  PROVE  /\ issued' = issued + 1 /\ issued' \in 0..MaxTokens /\ issued' \in Pair
         /\ owner' \in [Pair -> User \cup {Nobody}]
         /\ family' \in [Pair -> 0..MaxTokens]
         /\ family'[issued'] = f
         /\ \A n \in 1..issued : n \in Pair /\ n # issued' /\ family'[n] = family[n]
<1>1. issued \in Nat /\ MaxTokens \in Nat /\ issued + 1 \in Pair
  BY ConstantsAssumption DEF TypeOK, Pair
<1>2. \A n \in 1..issued : n \in Pair /\ n # issued + 1
  BY <1>1, ConstantsAssumption DEF TypeOK, Pair
<1>3. f \in 0..MaxTokens
  BY ConstantsAssumption DEF Pair
<1> QED BY <1>1, <1>2, <1>3 DEF Issue, TypeOK

\* A lost refresh adds its family to the exceptions.
LEMMA UnheardType ==
  ASSUME NEW t \in Tab, TypeOK, FamilyInv, CarriedInv
  PROVE  /\ Unheard(t) \subseteq Pair /\ broken \subseteq Unheard(t)
         /\ pc[t] \in {"refreshing", "rotated"} => family[token[t]] \in Unheard(t)
BY DEF Unheard, TypeOK, FamilyInv, CarriedInv

-----------------------------------------------------------------------------
\* Types

\* The types hold of the initial states.
LEMMA InitType == Init => TypeOK
<1> SUFFICES ASSUME Init PROVE TypeOK
  OBVIOUS
<1>1. /\ issued \in 0..MaxTokens /\ stored \in 0..issued /\ faults \in 0..MaxFaults
      /\ revoked \subseteq 1..issued /\ 0 \in 0..issued
  BY ConstantsAssumption DEF Init
<1>2. token \in [Tab -> 0..issued] /\ stale \in [Tab -> 0..issued] /\ leaving \in [Tab -> 0..issued]
  BY <1>1 DEF Init
<1>3. family \in [Pair -> 0..MaxTokens]
  BY ConstantsAssumption DEF Init
<1> QED BY <1>1, <1>2, <1>3 DEF Init, TypeOK

\* Every step keeps them.
LEMMA TypeStep == IInv /\ [Next]_vars => TypeOK'
<1> SUFFICES ASSUME IInv, [Next]_vars PROVE TypeOK'
  OBVIOUS
<1> USE DEF browser, tab, server, history
<1>i. TypeOK /\ FamilyInv /\ CarriedInv
  BY DEF IInv
<1>n. issued \in Nat /\ stored \in 0..issued /\ 0 \in 0..issued /\ issued \in 0..issued
  BY <1>i, ConstantsAssumption DEF TypeOK
<1>p. 1..issued \subseteq Pair /\ issued \in 0..MaxTokens
  BY <1>i, ConstantsAssumption DEF TypeOK, Pair
<1>0. CASE UNCHANGED vars
  BY <1>0, <1>i DEF vars, TypeOK
<1>1. ASSUME NEW t \in Tab, NEW u \in User, Login(t, u) PROVE TypeOK'
  <2>1. issued + 1 \in Pair
    BY <1>1, <1>n, ConstantsAssumption DEF Login, Pair
  <2>2. /\ issued' = issued + 1 /\ issued' \in 0..MaxTokens
        /\ owner' \in [Pair -> User \cup {Nobody}] /\ family' \in [Pair -> 0..MaxTokens]
    BY <1>1, <1>i, <2>1, IssueType DEF Login
  <2>3. 0..issued \subseteq 0..issued' /\ 1..issued \subseteq 1..issued' /\ stored' \in 0..issued'
    BY <1>1, <1>n, <2>2 DEF Login
  <2>4. route' \in [Tab -> {"login", "app"}] /\ me' \in [Tab -> User \cup {Nobody}]
    BY <1>1, <1>i, EnterType DEF Login
  <2>5. token' \in [Tab -> 0..issued'] /\ stale' \in [Tab -> 0..issued'] /\ leaving' \in [Tab -> 0..issued']
    BY <1>1, <1>i, <2>3 DEF Login, TypeOK
  <2>6. revoked' \subseteq 1..issued' /\ missed' \subseteq Tab
    BY <1>1, <1>i, <2>3 DEF Login, TypeOK, Missed, Caching
  <2> QED BY <1>1, <1>i, <2>2, <2>3, <2>4, <2>5, <2>6 DEF Login, TypeOK
<1>2. ASSUME NEW t \in Tab, Load(t) PROVE TypeOK'
  <2>1. route' \in [Tab -> {"login", "app"}] /\ me' \in [Tab -> User \cup {Nobody}]
    BY <1>2, <1>i, EnterType, HolderType DEF Load
  <2> QED BY <1>2, <1>i, <2>1 DEF Load, TypeOK
<1>3. ASSUME NEW t \in Tab, SeeSignedOut(t) PROVE TypeOK'
  BY <1>3, <1>i DEF SeeSignedOut, TypeOK
<1>4. ASSUME NEW t \in Tab, SwitchTenant(t) PROVE TypeOK'
  BY <1>4, <1>i DEF SwitchTenant, TypeOK
<1>5. ASSUME NEW t \in Tab, Request(t) PROVE TypeOK'
  <2>1. CASE AskRefresh(t)
    BY <1>5, <1>i, <2>1, AskType DEF Request, TypeOK
  <2>2. CASE Goto(t, "sending", stored) /\ UNCHANGED stale
    BY <1>5, <1>i, <1>n, <2>2, GotoType DEF Request, TypeOK
  <2> QED BY <1>5, <2>1, <2>2 DEF Request
<1>6. ASSUME NEW t \in Tab, Logout(t) PROVE TypeOK'
  <2>1. stored \in 1..issued
    BY <1>6, <1>n DEF Logout
  <2>2. broken' \subseteq Pair
    BY <1>6, <1>i, <2>1 DEF Logout, FamilyInv, TypeOK
  <2> QED BY <1>6, <1>i, <1>n, <2>2 DEF Logout, Missed, Caching, TypeOK
<1>7. ASSUME NEW t \in Tab, DoRefresh(t) PROVE TypeOK'
  <2>1. CASE stored = 0 /\ Expire(t) /\ Done(t) /\ UNCHANGED lock
    BY <1>7, <1>i, <1>n, <2>1, ExpireType, DoneType DEF DoRefresh, TypeOK
  <2>2. CASE UNCHANGED <<stored, route, me, again, missed>>
    <3>1. PICK to \in {"idle", "sending", "refreshing"} : Goto(t, to, stored)
      BY <1>7 DEF DoRefresh, Done
    <3>2. stale' \in [Tab -> 0..issued']
      BY <1>7, <2>2, <1>i, <1>n DEF DoRefresh, Done, TypeOK
    <3>3. lock' \in Tab \cup {Nobody}
      BY <1>7, <1>i DEF DoRefresh, TypeOK
    <3> QED BY <1>7, <2>2, <1>i, <1>n, <3>1, <3>2, <3>3, GotoType DEF DoRefresh, TypeOK
  <2> QED BY <1>7, <2>1, <2>2 DEF DoRefresh
<1>8. ASSUME NEW t \in Tab, Rotate(t) PROVE TypeOK'
  <2>0. token[t] \in 1..issued
    BY <1>8, <1>i DEF Rotate, CarriedInv
  <2>1. CASE Goto(t, "denied", token[t]) /\ UNCHANGED <<issued, owner, family>> /\ revoked' \subseteq 1..issued
    BY <1>8, <1>i, <1>n, <2>0, <2>1, GotoType DEF Rotate, TypeOK
  <2>2. CASE /\ issued < MaxTokens /\ Issue(owner[token[t]], family[token[t]])
             /\ revoked' = revoked \cup {token[t]} /\ Goto(t, "rotated", issued + 1)
    <3>1. owner[token[t]] \in User \cup {Nobody} /\ family[token[t]] \in Pair
      BY <2>0, <1>i, <1>p DEF FamilyInv, TypeOK
    <3>2. /\ issued' = issued + 1 /\ issued' \in 0..MaxTokens
          /\ owner' \in [Pair -> User \cup {Nobody}] /\ family' \in [Pair -> 0..MaxTokens]
      BY <2>2, <1>i, <3>1, IssueType
    <3>3. 0..issued \subseteq 0..issued' /\ 1..issued \subseteq 1..issued' /\ issued + 1 \in 0..issued'
      BY <1>n, <3>2
    <3>4. stale' \in [Tab -> 0..issued'] /\ leaving' \in [Tab -> 0..issued'] /\ revoked' \subseteq 1..issued'
          /\ stored' \in 0..issued'
      BY <1>8, <2>2, <2>0, <1>i, <3>3 DEF Rotate, TypeOK
    <3>5. /\ pc' \in [Tab -> {"idle", "waiting", "sending", "rejected", "refreshing", "rotated", "denied"}]
          /\ token' \in [Tab -> 0..issued']
      BY <2>2, <1>i, <1>n, <3>2, <3>3, GotoType
    <3> QED BY <1>8, <1>i, <3>2, <3>4, <3>5 DEF Rotate, TypeOK
  <2> QED BY <1>8, <1>i, <1>n, <2>1, <2>2 DEF Rotate, Family, TypeOK
<1>9. ASSUME NEW t \in Tab, Rotated(t) PROVE TypeOK'
  <2>1. token[t] \in 1..issued
    BY <1>9, <1>i DEF Rotated, CarriedInv
  <2>2. token[t] \in 0..issued
    BY <2>1
  <2> QED BY <1>9, <1>i, <1>n, <2>2, GotoType DEF Rotated, Unlock, Caching, TypeOK
<1>10. ASSUME NEW t \in Tab, Denied(t) PROVE TypeOK'
  BY <1>10, <1>i, <1>n, ExpireType, DoneType DEF Denied, Unlock, TypeOK
<1>11. ASSUME NEW t \in Tab, Serve(t) PROVE TypeOK'
  <2>1. CASE Goto(t, "rejected", token[t]) /\ UNCHANGED <<stale, again>>
    <3>1. token[t] \in 0..issued
      BY <1>i DEF TypeOK
    <3> QED BY <1>11, <1>i, <1>n, <2>1, <3>1, GotoType DEF Serve, TypeOK
  <2>2. CASE Done(t)
    BY <1>11, <1>i, <2>2, DoneType DEF Serve, TypeOK
  <2> QED BY <1>11, <2>1, <2>2 DEF Serve
<1>12. ASSUME NEW t \in Tab, Reject(t) PROVE TypeOK'
  <2>1. CASE Expire(t) /\ Done(t)
    BY <1>12, <1>i, <1>n, <2>1, ExpireType, DoneType DEF Reject, TypeOK
  <2>2. CASE AskRefresh(t) /\ again' = [again EXCEPT ![t] = TRUE] /\ UNCHANGED <<stored, route, me, missed>>
    BY <1>12, <1>i, <2>2, AskType DEF Reject, TypeOK
  <2> QED BY <1>12, <2>1, <2>2 DEF Reject
<1>13. ASSUME NEW t \in Tab, Revoke(t) PROVE TypeOK'
  <2>1. revoked' \subseteq 1..issued
    BY <1>13, <1>i DEF Revoke, Family, TypeOK
  <2>2. faults' \in 0..MaxFaults
    BY <1>13, <1>i, ConstantsAssumption DEF Revoke, TypeOK
  <2> QED BY <1>13, <1>i, <1>n, <2>1, <2>2 DEF Revoke, TypeOK
<1>14. ASSUME NEW t \in Tab, Lose(t) PROVE TypeOK'
  <2>1. broken' \subseteq Pair /\ faults' \in 0..MaxFaults
    BY <1>14, <1>i, UnheardType, ConstantsAssumption DEF Lose, TypeOK
  <2> QED BY <1>14, <1>i, <2>1, DoneType DEF Lose, Unlock, TypeOK
<1>15. ASSUME NEW t \in Tab, Close(t) PROVE TypeOK'
  <2>1. broken' \subseteq Pair /\ faults' \in 0..MaxFaults
    BY <1>15, <1>i, UnheardType, ConstantsAssumption DEF Close, TypeOK
  <2> QED BY <1>15, <1>i, <1>n, <2>1, DoneType DEF Close, Unlock, TypeOK
<1>16. ASSUME NEW n \in Pair, NEW to \in {"due", "skewed", "dead"}, Age(n, to) PROVE TypeOK'
  BY <1>16, <1>i DEF Age, TypeOK
<1> QED BY <1>0, <1>1, <1>2, <1>3, <1>4, <1>5, <1>6, <1>7, <1>8, <1>9, <1>10, <1>11, <1>12, <1>13, <1>14,
           <1>15, <1>16 DEF Next, Using, Refreshing, Answering

-----------------------------------------------------------------------------
\* The lock

\* Where a step leaves the tab that takes it; the other tabs' requests stay.
LEMMA LockStep == IInv /\ [Next]_vars => LockHeldToRefresh'
<1> SUFFICES ASSUME IInv, [Next]_vars PROVE LockHeldToRefresh'
  OBVIOUS
<1> USE DEF browser, tab, server, history
<1>i. TypeOK /\ LockHeldToRefresh
  BY DEF IInv
<1>k. ASSUME UNCHANGED <<lock, pc>> PROVE LockHeldToRefresh'
  BY <1>k, <1>i DEF LockHeldToRefresh
<1>u. ASSUME NEW t \in Tab, Unlock(t) \/ (lock # t /\ UNCHANGED lock), NEW to, NEW n, Goto(t, to, n),
             to \notin {"refreshing", "rotated", "denied"}
      PROVE  LockHeldToRefresh'
  BY <1>u, <1>i, ConstantsAssumption DEF Unlock, Goto, LockHeldToRefresh, TypeOK
<1>1. ASSUME NEW t \in Tab, Request(t) \/ Serve(t) \/ Reject(t) PROVE LockHeldToRefresh'
  <2>1. lock # t /\ UNCHANGED lock
    BY <1>1, <1>i DEF Request, Serve, Reject, LockHeldToRefresh
  <2>2. \E to \in {"waiting", "sending", "idle", "rejected"}, n \in {0, stored, token[t]} : Goto(t, to, n)
    BY <1>1 DEF Request, Serve, Reject, AskRefresh, Done
  <2> QED BY <2>1, <2>2, <1>u
<1>2. ASSUME NEW t \in Tab, DoRefresh(t) PROVE LockHeldToRefresh'
  <2>1. CASE UNCHANGED lock
    <3>1. lock # t
      BY <1>2, ConstantsAssumption DEF DoRefresh
    <3>2. \E to \in {"idle", "sending"}, n \in {0, stored} : Goto(t, to, n)
      BY <1>2, <2>1, <3>1 DEF DoRefresh, Done
    <3> QED BY <2>1, <3>1, <3>2, <1>u
  <2>2. CASE lock' = t /\ Goto(t, "refreshing", stored)
    BY <1>2, <2>2, <1>i, ConstantsAssumption DEF DoRefresh, Goto, LockHeldToRefresh, TypeOK
  <2> QED BY <1>2, <2>1, <2>2 DEF DoRefresh
<1>3. ASSUME NEW t \in Tab, Rotate(t) PROVE LockHeldToRefresh'
  <2>1. UNCHANGED lock /\ lock = t
    BY <1>3, <1>i DEF Rotate, LockHeldToRefresh
  <2>2. \E to \in {"denied", "rotated"} : pc' = [pc EXCEPT ![t] = to]
    BY <1>3 DEF Rotate, Goto
  <2> QED BY <2>1, <2>2, <1>i DEF LockHeldToRefresh, TypeOK
<1>4. ASSUME NEW t \in Tab, Rotated(t) \/ Denied(t) \/ Lose(t) \/ Close(t) PROVE LockHeldToRefresh'
  <2>1. Unlock(t) /\ \E to \in {"idle", "sending"}, n \in {0, token[t]} : Goto(t, to, n)
    BY <1>4 DEF Rotated, Denied, Lose, Close, Done
  <2> QED BY <2>1, <1>u
<1> QED BY <1>1, <1>2, <1>3, <1>4, <1>k DEF Next, vars, Using, Refreshing, Answering, Login, Load,
           SeeSignedOut, SwitchTenant, Logout, Revoke, Age

-----------------------------------------------------------------------------
\* Families

\* What the other parts need of a step: pairs keep their family, new ones descend from
\* an issued one, and an exception stays one.
LEMMA GrowStep ==
  IInv /\ [Next]_vars =>
    /\ FamilyInv' /\ issued \in Nat /\ issued' \in Nat /\ issued <= issued'
    /\ \A n \in 1..issued : family'[n] = family[n]
    /\ broken \subseteq broken'
<1> SUFFICES ASSUME IInv, [Next]_vars
             PROVE  /\ FamilyInv' /\ issued \in Nat /\ issued' \in Nat /\ issued <= issued'
                    /\ \A n \in 1..issued : family'[n] = family[n]
                    /\ broken \subseteq broken'
  OBVIOUS
<1> USE DEF browser, tab, server, history
<1>i. TypeOK /\ FamilyInv /\ CarriedInv
  BY DEF IInv
<1>n. issued \in Nat /\ 1..issued \subseteq Pair
  BY <1>i, ConstantsAssumption DEF TypeOK, Pair
<1>b. broken \subseteq broken'
  BY DEF vars, Next, Using, Refreshing, Answering, Login, Load, SeeSignedOut, SwitchTenant, Request, Logout,
         DoRefresh, Rotate, Rotated, Denied, Serve, Reject, Revoke, Lose, Close, Age, Unheard
<1>k. CASE UNCHANGED <<issued, family>>
  BY <1>k, <1>i, <1>n, <1>b DEF FamilyInv
<1>m. ASSUME NEW u \in User \cup {Nobody}, NEW f \in Pair, issued < MaxTokens, Issue(u, f)
      PROVE  /\ FamilyInv' /\ issued' \in Nat /\ issued <= issued'
             /\ \A n \in 1..issued : family'[n] = family[n]
  <2>1. \A n \in 1..issued' : n = issued' \/ n \in 1..issued
    BY <1>m, <1>n, <1>i, IssueType
  <2> QED BY <1>m, <1>n, <1>i, <2>1, IssueType DEF FamilyInv
<1>1. ASSUME NEW t \in Tab, NEW u \in User, Login(t, u), ~UNCHANGED <<issued, family>>
      PROVE  /\ FamilyInv' /\ issued' \in Nat /\ issued <= issued'
             /\ \A n \in 1..issued : family'[n] = family[n]
  <2>1. issued + 1 \in Pair
    BY <1>1, <1>n, ConstantsAssumption DEF Login, Pair
  <2> QED BY <1>1, <2>1, <1>m DEF Login
<1>2. ASSUME NEW t \in Tab, Rotate(t), ~UNCHANGED <<issued, family>>
      PROVE  /\ FamilyInv' /\ issued' \in Nat /\ issued <= issued'
             /\ \A n \in 1..issued : family'[n] = family[n]
  <2>1. token[t] \in 1..issued
    BY <1>2, <1>i DEF Rotate, CarriedInv
  <2>2. owner[token[t]] \in User \cup {Nobody} /\ family[token[t]] \in Pair
    BY <2>1, <1>n, <1>i DEF FamilyInv, TypeOK
  <2>3. issued < MaxTokens /\ Issue(owner[token[t]], family[token[t]])
    BY <1>2 DEF Rotate
  <2> QED BY <2>2, <2>3, <1>m
<1> QED BY <1>1, <1>2, <1>k, <1>n, <1>b DEF Next, vars, Using, Refreshing, Answering, Load, SeeSignedOut,
           SwitchTenant, Request, Logout, DoRefresh, Rotated, Denied, Serve, Reject, Revoke, Lose, Close, Age

\* A sign-out under way is one of the exceptions as long as it lasts.
LEMMA LeavingStep == IInv /\ [Next]_vars => LeavingInv'
<1> SUFFICES ASSUME IInv, [Next]_vars, NEW t \in Tab, leaving'[t] # 0
             PROVE  family'[leaving'[t]] \in broken'
  BY DEF LeavingInv
<1> USE DEF browser, tab, server, history
<1>i. TypeOK /\ LeavingInv
  BY DEF IInv
<1>g. /\ issued \in Nat /\ \A n \in 1..issued : family'[n] = family[n]
      /\ broken \subseteq broken'
  BY GrowStep
<1>1. CASE leaving'[t] = leaving[t]
  <2>1. leaving[t] \in 1..issued
    BY <1>1, <1>i, <1>g DEF TypeOK
  <2> QED BY <1>1, <2>1, <1>i, <1>g DEF LeavingInv
<1>2. CASE Logout(t)
  <2>1. stored \in 1..issued /\ leaving'[t] = stored
    BY <1>2, <1>i, <1>g DEF Logout, TypeOK
  <2> QED BY <1>2, <2>1, <1>g DEF Logout
<1>3. ASSUME NEW o \in Tab, Logout(o) \/ Revoke(o) \/ Close(o) PROVE leaving'[t] = leaving[t] \/ Logout(t)
  BY <1>3, <1>i DEF Logout, Revoke, Close, TypeOK
<1> QED BY <1>1, <1>2, <1>3 DEF Next, vars, Using, Refreshing, Answering, Login, Load, SeeSignedOut,
           SwitchTenant, Request, DoRefresh, Rotate, Rotated, Denied, Serve, Reject, Lose, Age

-----------------------------------------------------------------------------
\* Refresh tokens

\* The refresh of the tab that holds the lock is answered by a new pair.
Answered(t) ==
  /\ lock = t /\ lock' = t /\ stored' = stored
  /\ pc[t] = "refreshing" /\ pc'[t] = "rotated"
  /\ issued' = issued + 1 /\ token'[t] = issued + 1
  /\ family'[issued + 1] = family[token[t]]

\* What becomes revoked: the family of an exception, or the token just replaced.
LEMMA RevokedStep ==
  IInv /\ [Next]_vars =>
    \A n \in revoked' :
      /\ n \in 1..issued
      /\ n \in revoked \/ family[n] \in broken \/ \E t \in Tab : Answered(t) /\ n = token[t]
<1> SUFFICES ASSUME IInv, [Next]_vars, NEW n \in revoked', n \notin revoked
             PROVE  n \in 1..issued /\ (family[n] \in broken \/ \E t \in Tab : Answered(t) /\ n = token[t])
  BY DEF IInv, TypeOK
<1> USE DEF browser, tab, server, history
<1>i. TypeOK /\ CarriedInv /\ LeavingInv /\ LockHeldToRefresh
  BY DEF IInv
<1>1. ASSUME NEW t \in Tab, Rotate(t) PROVE n \in 1..issued /\ (family[n] \in broken \/ (Answered(t) /\ n = token[t]))
  <2>0. token[t] \in 1..issued /\ lock = t
    BY <1>1, <1>i DEF Rotate, CarriedInv, LockHeldToRefresh
  <2>1. CASE token[t] \in revoked /\ revoked' = revoked \cup Family(token[t])
    <3>1. pc[t] = "refreshing" /\ n \in Family(token[t])
      BY <1>1, <2>1 DEF Rotate
    <3> QED BY <2>1, <3>1, <1>i DEF Family, CarriedInv
  <2>2. CASE issued < MaxTokens /\ Issue(owner[token[t]], family[token[t]]) /\ revoked' = revoked \cup {token[t]}
    <3>1. n = token[t] /\ pc[t] = "refreshing" /\ lock' = lock /\ stored' = stored /\ issued' = issued + 1
      BY <1>1, <2>2 DEF Rotate, Issue
    <3>2. issued + 1 \in Pair
      BY <1>i, <2>2, ConstantsAssumption DEF TypeOK, Pair
    <3>3. family'[issued + 1] = family[token[t]]
      BY <2>2, <3>2, <1>i DEF Issue, TypeOK
    <3>4. Goto(t, "rotated", issued + 1)
      BY <1>1, <2>0, <2>2, <3>1, <1>i DEF Rotate, TypeOK
    <3>5. pc'[t] = "rotated" /\ token'[t] = issued + 1
      BY <3>4, <1>i DEF Goto, TypeOK
    <3> QED BY <2>0, <3>1, <3>3, <3>5 DEF Answered
  <2> QED BY <1>1, <2>1, <2>2 DEF Rotate
<1>2. ASSUME NEW t \in Tab, Revoke(t) PROVE n \in 1..issued /\ family[n] \in broken
  BY <1>2, <1>i DEF Revoke, Family, LeavingInv
<1> QED BY <1>1, <1>2 DEF Next, vars, Using, Refreshing, Answering, Login, Load, SeeSignedOut, SwitchTenant,
           Request, Logout, DoRefresh, Rotated, Denied, Serve, Reject, Lose, Close, Age

\* How a refresh comes to be on its way, or answered: it was before, it is sent under
\* the lock just taken, or the platform answers it by a new pair.
LEMMA Carrying ==
  ASSUME IInv, [Next]_vars, NEW t \in Tab, pc'[t] \in {"refreshing", "rotated"}
  PROVE  \/ pc'[t] = pc[t] /\ token'[t] = token[t]
         \/ lock = Nobody /\ stored # 0 /\ token'[t] = stored /\ UNCHANGED <<issued, family, revoked, broken>>
         \/ token'[t] = issued + 1 /\ issued' = issued + 1
<1> SUFFICES ASSUME ~(pc'[t] = pc[t] /\ token'[t] = token[t])
             PROVE  \/ /\ lock = Nobody /\ stored # 0 /\ token'[t] = stored
                       /\ UNCHANGED <<issued, family, revoked, broken>>
                    \/ token'[t] = issued + 1 /\ issued' = issued + 1
  OBVIOUS
<1> USE DEF browser, tab, server, history
<1>i. TypeOK
  BY DEF IInv
<1>1. ASSUME NEW o \in Tab, NEW to, NEW n, Goto(o, to, n) PROVE o = t /\ pc'[t] = to /\ token'[t] = n
  BY <1>1, <1>i DEF Goto, TypeOK
<1>2. ASSUME NEW o \in Tab, Request(o) \/ Serve(o) \/ Reject(o) \/ Rotated(o) \/ Denied(o) \/ Lose(o) \/ Close(o)
      PROVE  FALSE
  <2>1. \E to \in {"waiting", "sending", "idle", "rejected"}, n \in {0, stored, token[o]} : Goto(o, to, n)
    BY <1>2 DEF Request, Serve, Reject, Rotated, Denied, Lose, Close, AskRefresh, Done
  <2> QED BY <2>1, <1>1
<1>3. ASSUME NEW o \in Tab, DoRefresh(o)
      PROVE  lock = Nobody /\ stored # 0 /\ token'[t] = stored /\ UNCHANGED <<issued, family, revoked, broken>>
  <2>1. lock = Nobody /\ UNCHANGED <<issued, family, revoked, broken>>
    BY <1>3 DEF DoRefresh
  <2>2. \/ \E to \in {"idle", "sending"}, n \in {0, stored} : Goto(o, to, n)
        \/ stored # 0 /\ Goto(o, "refreshing", stored)
    BY <1>3 DEF DoRefresh, Done
  <2> QED BY <2>1, <2>2, <1>1
<1>4. ASSUME NEW o \in Tab, Rotate(o) PROVE token'[t] = issued + 1 /\ issued' = issued + 1
  <2>1. Goto(o, "denied", token[o]) \/ (Goto(o, "rotated", issued + 1) /\ issued' = issued + 1)
    BY <1>4 DEF Rotate, Issue, Family
  <2> QED BY <2>1, <1>1
<1> QED BY <1>2, <1>3, <1>4 DEF Next, vars, Using, Refreshing, Answering, Login, Load, SeeSignedOut,
           SwitchTenant, Logout, Revoke, Age

\* Every step keeps what a refresh carries live.
LEMMA CarriedStep == IInv /\ [Next]_vars => CarriedInv'
<1> SUFFICES ASSUME IInv, [Next]_vars, NEW t \in Tab, pc'[t] \in {"refreshing", "rotated"}
             PROVE  /\ token'[t] \in 1..issued'
                    /\ token'[t] \in revoked' => family'[token'[t]] \in broken'
  BY DEF CarriedInv
<1>i. TypeOK /\ CarriedInv /\ LockHeldToRefresh /\ StoredIsLive
  BY DEF IInv
<1>g. /\ issued \in Nat /\ issued' \in Nat /\ issued <= issued'
      /\ \A n \in 1..issued : family'[n] = family[n]
      /\ broken \subseteq broken'
  BY GrowStep
<1>1. CASE pc'[t] = pc[t] /\ token'[t] = token[t]
  <2>1. token[t] \in 1..issued /\ lock = t
    BY <1>1, <1>i DEF CarriedInv, LockHeldToRefresh
  <2>2. \A o \in Tab : ~Answered(o) \/ o # t
    BY <1>1 DEF Answered
  <2>3. token[t] \in revoked' => token[t] \in revoked \/ family[token[t]] \in broken
    BY <2>1, <2>2, RevokedStep DEF Answered
  <2> QED BY <1>1, <2>1, <2>3, <1>i, <1>g DEF CarriedInv
<1>2. CASE lock = Nobody /\ stored # 0 /\ token'[t] = stored /\ UNCHANGED <<issued, family, revoked, broken>>
  <2>1. stored \in revoked => family[stored] \in broken
    BY <1>2, <1>i, ConstantsAssumption DEF StoredIsLive
  <2> QED BY <1>2, <2>1, <1>i, <1>g DEF TypeOK
<1>3. CASE token'[t] = issued + 1 /\ issued' = issued + 1
  <2>1. token'[t] \notin revoked'
    BY <1>3, <1>g, RevokedStep
  <2> QED BY <1>3, <2>1, <1>g
<1> QED BY <1>1, <1>2, <1>3, Carrying

\* The new pair of a refresh is stored, or its family becomes an exception.
LEMMA AnswerStep ==
  ASSUME IInv, [Next]_vars, NEW t \in Tab, pc[t] = "rotated", lock = t
  PROVE  \/ pc'[t] = pc[t] /\ token'[t] = token[t] /\ lock' = lock
         \/ Rotated(t)
         \/ family[token[t]] \in broken'
<1> SUFFICES ASSUME ~(pc'[t] = pc[t] /\ token'[t] = token[t] /\ lock' = lock)
             PROVE  Rotated(t) \/ family[token[t]] \in broken'
  OBVIOUS
<1> USE DEF browser, tab, server, history
<1>i. TypeOK /\ LockHeldToRefresh
  BY DEF IInv
<1>1. ASSUME NEW o \in Tab, o # t, \/ Request(o) \/ Serve(o) \/ Reject(o) \/ DoRefresh(o) \/ Rotate(o)
                                 \/ Rotated(o) \/ Denied(o) \/ Lose(o) \/ Close(o)
      PROVE  FALSE
  <2>1. \E to, n : Goto(o, to, n)
    BY <1>1 DEF Request, Serve, Reject, DoRefresh, Rotate, Rotated, Denied, Lose, Close, AskRefresh, Done
  <2>2. pc'[t] = pc[t] /\ token'[t] = token[t]
    BY <1>1, <2>1, <1>i DEF Goto, TypeOK
  <2>3. lock' = lock
    BY <1>1, ConstantsAssumption DEF Request, Serve, Reject, DoRefresh, Rotate, Rotated, Denied, Lose, Close, Unlock
  <2> QED BY <2>2, <2>3
<1>2. CASE Lose(t) \/ Close(t)
  BY <1>2 DEF Lose, Close, Unheard
<1>3. ~(Request(t) \/ Serve(t) \/ Reject(t) \/ DoRefresh(t) \/ Rotate(t) \/ Denied(t))
  BY DEF Request, Serve, Reject, DoRefresh, Rotate, Denied
<1> QED BY <1>1, <1>2, <1>3 DEF Next, vars, Using, Refreshing, Answering, Login, Load, SeeSignedOut,
           SwitchTenant, Logout, Revoke, Age

\* Where what is stored comes from.
LEMMA Storing ==
  ASSUME IInv, [Next]_vars
  PROVE  \/ stored' = stored
         \/ stored' = 0
         \/ stored' = issued + 1
         \/ \E t \in Tab : Rotated(t)
<1> USE DEF browser, tab, server, history
<1> QED BY DEF Next, vars, Using, Refreshing, Answering, Login, Load, SeeSignedOut, SwitchTenant, Request,
           Logout, DoRefresh, Rotate, Denied, Serve, Reject, Revoke, Lose, Close, Age, Expire

\* Every step keeps the stored pair live.
LEMMA LiveStep == IInv /\ [Next]_vars => StoredIsLive'
<1> SUFFICES ASSUME IInv, [Next]_vars, stored' \in revoked'
             PROVE  \/ family'[stored'] \in broken'
                    \/ \E t \in Tab : pc'[t] = "rotated" /\ family'[token'[t]] = family'[stored'] /\ lock' = t
  BY DEF StoredIsLive
<1>i. TypeOK /\ CarriedInv /\ LockHeldToRefresh /\ StoredIsLive
  BY DEF IInv
<1>g. /\ issued \in Nat /\ issued' \in Nat /\ issued <= issued'
      /\ \A n \in 1..issued : family'[n] = family[n]
      /\ broken \subseteq broken'
  BY GrowStep
<1>s. stored' \in 1..issued
  BY RevokedStep
<1>1. ASSUME NEW t \in Tab, Rotated(t) PROVE family'[stored'] \in broken'
  <2>1. stored' = token[t] /\ revoked' = revoked /\ pc[t] = "rotated"
    BY <1>1 DEF Rotated, server
  <2> QED BY <2>1, <1>i, <1>g DEF CarriedInv
<1>2. CASE stored' = stored /\ \A t \in Tab : ~Rotated(t)
  <2>1. CASE family[stored] \in broken
    BY <1>2, <2>1, <1>s, <1>g
  <2>2. ASSUME NEW t \in Tab, pc[t] = "rotated", family[token[t]] = family[stored], lock = t
        PROVE  \/ family'[stored'] \in broken'
               \/ pc'[t] = "rotated" /\ family'[token'[t]] = family'[stored'] /\ lock' = t
    <3>1. token[t] \in 1..issued
      BY <2>2, <1>i DEF CarriedInv
    <3> QED BY <1>2, <2>2, <3>1, <1>s, <1>g, AnswerStep
  <2>3. ASSUME NEW t \in Tab, Answered(t), stored = token[t]
        PROVE  pc'[t] = "rotated" /\ family'[token'[t]] = family'[stored'] /\ lock' = t
    BY <1>2, <2>3, <1>s, <1>g DEF Answered
  <2> QED BY <1>2, <2>1, <2>2, <2>3, <1>i, RevokedStep DEF StoredIsLive
<1> QED BY <1>1, <1>2, <1>s, <1>g, Storing

-----------------------------------------------------------------------------

\* The invariant holds of the initial states.
LEMMA InitIInv == Init => IInv
<1> SUFFICES ASSUME Init PROVE IInv
  OBVIOUS
<1>1. FamilyInv /\ CarriedInv /\ LeavingInv
  BY DEF Init, FamilyInv, CarriedInv, LeavingInv
<1>2. LockHeldToRefresh /\ StoredIsLive
  BY ConstantsAssumption DEF Init, LockHeldToRefresh, StoredIsLive
<1> QED BY <1>1, <1>2, InitType DEF IInv

\* Every step keeps it.
LEMMA IInvStep == IInv /\ [Next]_vars => IInv'
BY TypeStep, GrowStep, CarriedStep, LeavingStep, LockStep, LiveStep DEF IInv

\* It holds in every state sessions can reach.
LEMMA Invariance == Spec => []IInv
BY InitIInv, IInvStep, PTL DEF Spec

\* Of any session of a browser: every variable keeps its type.
THEOREM Typed == Spec => []TypeOK
<1>1. IInv => TypeOK
  BY DEF IInv
<1> QED BY <1>1, Invariance, PTL

\* With any number of tabs that refresh, lose their answers, close and sign out: the lock
\* is held by the one tab with a refresh on its way, and by nobody else.
THEOREM LockHeld == Spec => []LockHeldToRefresh
<1>1. IInv => LockHeldToRefresh
  BY DEF IInv
<1> QED BY <1>1, Invariance, PTL

\* The pair in storage can be refreshed, the exceptions aside.
THEOREM StoredLive == Spec => []StoredIsLive
<1>1. IInv => StoredIsLive
  BY DEF IInv
<1> QED BY <1>1, Invariance, PTL

\* A rotated refresh token is never presented twice, the exceptions aside.
THEOREM PresentedOnce == Spec => []NeverPresentedTwice
<1>1. IInv => NeverPresentedTwice
  BY DEF IInv, CarriedInv, NeverPresentedTwice
<1> QED BY <1>1, Invariance, PTL

-----------------------------------------------------------------------------
\* Whom a tab shows

OwnerInv == \A n \in 1..issued : owner[n] \in User

\* A tab in the application has a cache.  One on the login page that still has a cache,
\* or one with somebody else's, missed a change or is signing out.
CacheInv ==
  \A t \in Tab :
    /\ route[t] = "app" => me[t] # Nobody
    /\ me[t] # Nobody /\ (route[t] = "login" \/ me[t] # Holder) => t \in missed \/ leaving[t] # 0

ShownInv == IInv /\ OwnerInv /\ CacheInv

\* The owner of a pair never changes.
LEMMA OwnerStep ==
  ShownInv /\ [Next]_vars => OwnerInv' /\ \A n \in 1..issued : owner'[n] = owner[n]
<1> SUFFICES ASSUME ShownInv, [Next]_vars
             PROVE  OwnerInv' /\ \A n \in 1..issued : owner'[n] = owner[n]
  OBVIOUS
<1> USE DEF browser, tab, server, history
<1>i. TypeOK /\ CarriedInv /\ OwnerInv
  BY DEF ShownInv, IInv
<1>k. CASE UNCHANGED <<issued, owner>>
  BY <1>k, <1>i DEF OwnerInv
<1>m. ASSUME NEW u \in User, NEW f, issued < MaxTokens, Issue(u, f)
      PROVE  OwnerInv' /\ \A n \in 1..issued : owner'[n] = owner[n]
  <2>1. issued \in Nat /\ issued' = issued + 1 /\ issued + 1 \in Pair
    BY <1>m, <1>i, ConstantsAssumption DEF Issue, TypeOK, Pair
  <2>2. \A n \in 1..issued' : n = issued + 1 \/ n \in 1..issued
    BY <2>1
  <2>3. \A n \in 1..issued : n \in Pair /\ n # issued + 1
    BY <2>1, ConstantsAssumption DEF Pair
  <2> QED BY <1>m, <1>i, <2>1, <2>2, <2>3 DEF Issue, OwnerInv, TypeOK
<1>1. ASSUME NEW t \in Tab, NEW u \in User, Login(t, u)
      PROVE  OwnerInv' /\ \A n \in 1..issued : owner'[n] = owner[n]
  BY <1>1, <1>m DEF Login
<1>2. ASSUME NEW t \in Tab, Rotate(t), ~UNCHANGED <<issued, owner>>
      PROVE  OwnerInv' /\ \A n \in 1..issued : owner'[n] = owner[n]
  <2>1. token[t] \in 1..issued
    BY <1>2, <1>i DEF Rotate, CarriedInv
  <2> QED BY <1>2, <2>1, <1>i, <1>m DEF Rotate, OwnerInv
<1> QED BY <1>1, <1>2, <1>k DEF Next, vars, Using, Refreshing, Answering, Load, SeeSignedOut,
           SwitchTenant, Request, Logout, DoRefresh, Rotated, Denied, Serve, Reject, Revoke, Lose, Close, Age

\* Every step keeps the account of the caches.
LEMMA CacheStep == ShownInv /\ [Next]_vars => CacheInv'
<1> SUFFICES ASSUME ShownInv, [Next]_vars PROVE CacheInv'
  OBVIOUS
<1> USE DEF browser, tab, server, history
<1>i. TypeOK /\ CarriedInv /\ OwnerInv /\ CacheInv
  BY DEF ShownInv, IInv
<1>o. OwnerInv' /\ \A n \in 1..issued : owner'[n] = owner[n]
  BY OwnerStep
<1>n. issued \in Nat
  BY <1>i, ConstantsAssumption DEF TypeOK
<1>h. ASSUME stored' = stored PROVE Holder' = Holder
  BY <1>h, <1>i, <1>o, <1>n DEF Holder, TypeOK
<1>k. CASE UNCHANGED <<stored, route, me, missed, leaving>>
  BY <1>k, <1>i, <1>h DEF CacheInv
<1>c. ASSUME NEW t \in Tab, missed' = Missed(t), UNCHANGED leaving, NEW o \in Tab \ {t}, me'[o] = me[o],
             route'[o] = route[o]
      PROVE  /\ route'[o] = "app" => me'[o] # Nobody
             /\ me'[o] # Nobody => o \in missed'
  BY <1>c, <1>i DEF Missed, Caching, CacheInv
<1>1. ASSUME NEW t \in Tab, NEW u \in User, Login(t, u) PROVE CacheInv'
  <2>1. /\ stored' = issued + 1 /\ stored' # 0 /\ missed' = Missed(t) /\ UNCHANGED leaving
        /\ route' = [route EXCEPT ![t] = "app"] /\ route[t] = "login"
    BY <1>1, <1>n DEF Login, Enter
  <2>2. Holder' = u
    BY <1>1, <2>1, <1>n, <1>i, ConstantsAssumption DEF Login, Issue, Holder, TypeOK, Pair
  <2>3. /\ \A o \in Tab \ {t} : me'[o] = me[o]
        /\ me'[t] = u \/ (me'[t] = me[t] /\ me[t] # Nobody)
    BY <1>1, <1>i DEF Login, Enter, TypeOK
  <2>4. \A o \in Tab \ {t} : route'[o] = route[o]
    BY <2>1, <1>i DEF TypeOK
  <2>5. route'[t] = "app" /\ u # Nobody
    BY <2>1, <1>i, ConstantsAssumption DEF TypeOK
  <2>6. me[t] # Nobody => t \in missed' \/ leaving'[t] # 0
    BY <2>1, <1>i DEF CacheInv, Missed
  <2> QED BY <2>1, <2>2, <2>3, <2>4, <2>5, <2>6, <1>c DEF CacheInv
<1>2. ASSUME NEW t \in Tab, Load(t) PROVE CacheInv'
  <2>1. Holder' = Holder /\ Holder \in User /\ Holder # Nobody
    BY <1>2, <1>h, <1>i, <1>n, ConstantsAssumption DEF Load, Holder, OwnerInv, TypeOK
  <2>2. \A o \in Tab \ {t} : me'[o] = me[o] /\ route'[o] = route[o]
    BY <1>2, <1>i DEF Load, Enter, TypeOK
  <2>3. route'[t] = "app" /\ (me'[t] = Holder \/ (me'[t] = me[t] /\ me[t] # Nobody))
    BY <1>2, <1>i DEF Load, Enter, TypeOK
  <2> QED BY <1>2, <2>1, <2>2, <2>3, <1>i DEF Load, CacheInv
<1>3. ASSUME NEW t \in Tab, SeeSignedOut(t) PROVE CacheInv'
  <2>1. Holder' = Holder /\ Holder = Nobody
    BY <1>3, <1>h DEF SeeSignedOut, Holder
  <2> QED BY <1>3, <2>1, <1>i DEF SeeSignedOut, CacheInv, TypeOK
<1>4. ASSUME NEW t \in Tab, Logout(t) PROVE CacheInv'
  <2>1. leaving'[t] # 0 /\ \A o \in Tab \ {t} : leaving'[o] = leaving[o]
    BY <1>4, <1>i DEF Logout, TypeOK
  <2>2. \A o \in Tab \ {t} : me[o] # Nobody => o \in missed'
    BY <1>4 DEF Logout, Missed, Caching
  <2> QED BY <1>4, <2>1, <2>2, <1>i DEF Logout, CacheInv
<1>5. ASSUME NEW t \in Tab, Expire(t), UNCHANGED leaving PROVE CacheInv'
  <2>1. \A o \in Tab \ {t} : /\ me'[o] = me[o] /\ route'[o] = route[o]
                             /\ me[o] # Nobody => o \in missed'
    BY <1>5, <1>i DEF Expire, Missed, Caching, TypeOK
  <2>2. route'[t] = "login"
    BY <1>5, <1>i DEF Expire, TypeOK
  <2>3. me'[t] = Nobody \/ (route[t] = "login" /\ me'[t] = me[t] /\ missed \subseteq missed')
    <3>1. CASE route[t] = "app"
      BY <1>5, <3>1, <1>i DEF Expire, TypeOK
    <3>2. CASE route[t] = "login"
      BY <1>5, <3>2 DEF Expire, Missed
    <3> QED BY <3>1, <3>2, <1>i DEF TypeOK
  <2> QED BY <1>5, <2>1, <2>2, <2>3, <1>i DEF CacheInv
<1>6. ASSUME NEW t \in Tab, Rotated(t) PROVE CacheInv'
  <2>1. token[t] \in 1..issued /\ stored' = token[t] /\ UNCHANGED <<owner, route, me, leaving>>
    BY <1>6, <1>i DEF Rotated, CarriedInv
  <2>2. Holder' = owner[token[t]]
    BY <2>1, <1>n DEF Holder
  <2>3. CASE owner[token[t]] = Holder
    BY <1>6, <2>1, <2>2, <2>3, <1>i DEF Rotated, CacheInv
  <2>4. CASE owner[token[t]] # Holder
    <3>1. \A o \in Tab : me[o] # Nobody => o \in missed'
      BY <1>6, <2>4 DEF Rotated, Caching
    <3> QED BY <2>1, <3>1, <1>i DEF CacheInv
  <2> QED BY <2>3, <2>4
<1>7. ASSUME NEW t \in Tab, Revoke(t) \/ Close(t) PROVE CacheInv'
  <2>1. me'[t] = Nobody /\ route'[t] = "login" /\ stored' = stored
    BY <1>7, <1>i DEF Revoke, Close, TypeOK
  <2>2. \A o \in Tab \ {t} : /\ me'[o] = me[o] /\ route'[o] = route[o] /\ leaving'[o] = leaving[o]
                             /\ o \in missed => o \in missed'
    BY <1>7, <1>i DEF Revoke, Close, TypeOK
  <2> QED BY <2>1, <2>2, <1>h, <1>i DEF CacheInv
<1>8. ASSUME NEW t \in Tab, DoRefresh(t) \/ Reject(t) \/ Denied(t) PROVE CacheInv'
  <2>1. UNCHANGED leaving /\ (Expire(t) \/ UNCHANGED <<stored, route, me, missed>>)
    BY <1>8 DEF DoRefresh, Reject, Denied
  <2> QED BY <2>1, <1>5, <1>k
<1> QED BY <1>1, <1>2, <1>3, <1>4, <1>6, <1>7, <1>8, <1>k DEF Next, vars, Using, Refreshing, Answering,
           SwitchTenant, Request, Rotate, Serve, Lose, Age

\* Whoever signs in and out in however many tabs: a tab shows somebody else's data only
\* when it missed how the session changed or is signing out itself.
THEOREM Shown == Spec => []ShownIsTheSignedIn
<1>1. Init => ShownInv
  BY InitIInv DEF Init, ShownInv, OwnerInv, CacheInv
<1>2. ShownInv /\ [Next]_vars => ShownInv'
  BY IInvStep, OwnerStep, CacheStep DEF ShownInv
<1>3. ShownInv => ShownIsTheSignedIn
  BY DEF ShownInv, CacheInv, ShownIsTheSignedIn
<1> QED BY <1>1, <1>2, <1>3, PTL DEF Spec
-----------------------------------------------------------------------------
\* The register of who is signed in

\* A sign-in is named by the pair it began with and belongs to one person.
Descent ==
  /\ \A n \in 1..issued : family[n] \in 1..issued
  /\ \A m, n \in 1..issued : family[m] = family[n] => owner[m] = owner[n]

\* So it is, a refused refresh carries a pair that was issued, and the exceptions are sign-ins.
SignInv ==
  /\ Descent
  /\ \A t \in Tab : pc[t] = "denied" => token[t] \in 1..issued
  /\ \A f \in broken : \E n \in 1..issued : family[n] = f

RegisterInv == ShownInv /\ SignInv

\* What a new pair leaves of it: it begins a sign-in or goes on with one of its owner.
LEMMA IssueStep ==
  ASSUME RegisterInv, NEW u \in User, NEW f \in Pair, issued < MaxTokens, Issue(u, f),
         f = issued + 1 \/ \E n \in 1..issued : f = family[n] /\ u = owner[n]
  PROVE  /\ issued \in Nat /\ issued' = issued + 1
         /\ family'[issued + 1] = f /\ owner'[issued + 1] = u
         /\ \A n \in 1..issued : family'[n] = family[n] /\ owner'[n] = owner[n]
         /\ \A n \in 1..issued' : n = issued + 1 \/ n \in 1..issued
         /\ Descent'
<1>i. TypeOK /\ Descent
  BY DEF RegisterInv, ShownInv, IInv, SignInv
<1>1. /\ issued \in Nat /\ issued' = issued + 1 /\ issued + 1 \in Pair
      /\ \A n \in 1..issued : n \in Pair /\ n # issued + 1
  BY <1>i, ConstantsAssumption DEF Issue, TypeOK, Pair
<1>2. /\ family'[issued + 1] = f /\ owner'[issued + 1] = u
      /\ \A n \in 1..issued : family'[n] = family[n] /\ owner'[n] = owner[n]
  BY <1>1, <1>i DEF Issue, TypeOK
<1>3. \A n \in 1..issued' : n = issued + 1 \/ n \in 1..issued
  BY <1>1
<1>4. \A n \in 1..issued : family[n] \in 1..issued /\ family[n] # issued + 1
  BY <1>1, <1>i DEF Descent
<1>5. \A n \in 1..issued : family[n] = f => owner[n] = u
  BY <1>4, <1>i DEF Descent
<1>6. f \in 1..issued' /\ 1..issued \subseteq 1..issued'
  BY <1>1, <1>4
<1>7. \A n \in 1..issued' : family'[n] \in 1..issued'
  BY <1>2, <1>3, <1>4, <1>6
<1>8. ASSUME NEW m \in 1..issued', NEW n \in 1..issued', family'[m] = family'[n]
      PROVE  owner'[m] = owner'[n]
  <2>1. CASE m \in 1..issued /\ n \in 1..issued
    BY <2>1, <1>8, <1>2, <1>i DEF Descent
  <2> QED BY <2>1, <1>8, <1>2, <1>3, <1>5
<1> QED BY <1>1, <1>2, <1>3, <1>7, <1>8 DEF Descent

\* Every step keeps the account of the sign-ins.
LEMMA SignStep == RegisterInv /\ [Next]_vars => SignInv'
<1> SUFFICES ASSUME RegisterInv, [Next]_vars PROVE SignInv'
  OBVIOUS
<1> USE DEF browser, tab, server, history
<1>i. IInv /\ TypeOK /\ CarriedInv /\ OwnerInv /\ SignInv
  BY DEF RegisterInv, ShownInv, IInv
<1>g. /\ issued \in Nat /\ issued' \in Nat /\ issued <= issued'
      /\ \A n \in 1..issued : family'[n] = family[n]
  BY <1>i, GrowStep
<1>s. \A n \in 1..issued : n \in 1..issued'
  BY <1>g
<1>1. Descent'
  <2>1. CASE UNCHANGED <<issued, owner, family>>
    BY <2>1, <1>i DEF SignInv, Descent
  <2>2. ASSUME NEW t \in Tab, NEW u \in User, Login(t, u) PROVE Descent'
    <3>1. issued + 1 \in Pair /\ issued < MaxTokens /\ Issue(u, issued + 1)
      BY <2>2, <1>g, ConstantsAssumption DEF Login, Pair
    <3> QED BY <3>1, IssueStep
  <2>3. ASSUME NEW t \in Tab, Rotate(t), ~UNCHANGED <<issued, owner, family>> PROVE Descent'
    <3>1. token[t] \in 1..issued /\ issued < MaxTokens /\ Issue(owner[token[t]], family[token[t]])
      BY <2>3, <1>i DEF Rotate, CarriedInv
    <3>2. owner[token[t]] \in User /\ family[token[t]] \in Pair
      BY <3>1, <1>i DEF OwnerInv, IInv, FamilyInv
    <3> QED BY <3>1, <3>2, IssueStep
  <2> QED BY <2>1, <2>2, <2>3 DEF Next, vars, Using, Refreshing, Answering, Load, SeeSignedOut,
           SwitchTenant, Request, Logout, DoRefresh, Rotated, Denied, Serve, Reject, Revoke, Lose, Close, Age
<1>2. ASSUME NEW t \in Tab, pc'[t] = "denied" PROVE token'[t] \in 1..issued'
  <2>1. CASE pc'[t] = pc[t] /\ token'[t] = token[t]
    BY <1>2, <2>1, <1>i, <1>s DEF SignInv
  <2>2. ASSUME NEW o \in Tab, NEW to, NEW n, Goto(o, to, n), ~(pc'[t] = pc[t] /\ token'[t] = token[t])
        PROVE  o = t /\ pc'[t] = to /\ token'[t] = n
    BY <2>2, <1>i DEF Goto, TypeOK
  <2>3. ASSUME NEW o \in Tab, Request(o) \/ Serve(o) \/ Reject(o) \/ DoRefresh(o) \/ Rotated(o)
                             \/ Denied(o) \/ Lose(o) \/ Close(o)
        PROVE  pc'[t] = pc[t] /\ token'[t] = token[t]
    <3>1. \E to \in {"waiting", "sending", "idle", "rejected", "refreshing"}, n \in {0, stored, token[o]} :
            Goto(o, to, n)
      BY <2>3 DEF Request, Serve, Reject, DoRefresh, Rotated, Denied, Lose, Close, AskRefresh, Done
    <3> QED BY <3>1, <2>2, <1>2
  <2>4. ASSUME NEW o \in Tab, Rotate(o) PROVE token'[t] \in 1..issued'
    <3>1. token[o] \in 1..issued
      BY <2>4, <1>i DEF Rotate, CarriedInv
    <3>2. Goto(o, "denied", token[o]) \/ (Goto(o, "rotated", issued + 1) /\ issued' = issued + 1)
      BY <2>4 DEF Rotate, Issue
    <3> QED BY <1>2, <2>1, <3>1, <3>2, <2>2, <1>s
  <2> QED BY <2>1, <2>3, <2>4 DEF Next, vars, Using, Refreshing, Answering, Login, Load, SeeSignedOut,
           SwitchTenant, Logout, Revoke, Age
<1>3. ASSUME NEW f \in broken' PROVE \E n \in 1..issued' : family'[n] = f
  <2>1. CASE f \in broken
    BY <2>1, <1>i, <1>g, <1>s DEF SignInv
  <2>2. ASSUME NEW n \in 1..issued, f = family[n] PROVE \E k \in 1..issued' : family'[k] = f
    BY <2>2, <1>g, <1>s
  <2>3. ASSUME NEW t \in Tab, Lose(t) \/ Close(t), f \notin broken PROVE \E n \in 1..issued : f = family[n]
    BY <2>3, <1>3, <1>i DEF Lose, Close, Unheard, CarriedInv
  <2>4. ASSUME NEW t \in Tab, Logout(t), f \notin broken PROVE \E n \in 1..issued : f = family[n]
    <3>1. stored \in 1..issued /\ f = family[stored]
      BY <2>4, <1>3, <1>i, <1>g DEF Logout, TypeOK
    <3> QED BY <3>1
  <2> QED BY <2>1, <2>2, <2>3, <2>4, <1>3 DEF Next, vars, Using, Refreshing, Answering, Login, Load,
           SeeSignedOut, SwitchTenant, Request, DoRefresh, Rotate, Rotated, Denied, Serve, Reject, Revoke, Age
<1> QED BY <1>1, <1>2, <1>3 DEF SignInv

\* What the platform keeps of sign-ins changes with its tokens only.
LEMMA ServerKept == UNCHANGED server => Begun' = Begun /\ Ended' = Ended
BY DEF server, Begun, Ended, Family

\* The stored sign-in changes with the stored pair only.
LEMMA StoredKept == RegisterInv /\ [Next]_vars /\ stored' = stored => SignedIn' = SignedIn
<1> SUFFICES ASSUME RegisterInv, [Next]_vars, stored' = stored PROVE SignedIn' = SignedIn
  OBVIOUS
<1>1. IInv /\ TypeOK
  BY DEF RegisterInv, ShownInv, IInv
<1>2. issued \in Nat /\ \A n \in 1..issued : family'[n] = family[n]
  BY <1>1, GrowStep
<1>3. stored = 0 \/ stored \in 1..issued
  BY <1>1, <1>2 DEF TypeOK
<1> QED BY <1>2, <1>3 DEF SignedIn

\* A refresh in flight carries a pair that was issued.
LEMMA InFlight == RegisterInv /\ lock # Nobody => lock \in Tab /\ token[lock] \in 1..issued
BY DEF RegisterInv, ShownInv, IInv, TypeOK, LockHeldToRefresh, CarriedInv, SignInv

\* The sign-in of a refresh in flight changes with the lock and what its tab carries.
LEMMA RenewingKept ==
  ASSUME RegisterInv, [Next]_vars, lock' = lock, lock # Nobody => token'[lock] = token[lock]
  PROVE  Renewing' = Renewing
<1>1. \A n \in 1..issued : family'[n] = family[n]
  BY GrowStep DEF RegisterInv, ShownInv
<1> QED BY <1>1, InFlight DEF Renewing

\* To revoke a family ends its sign-in and no other.
LEMMA EndedByRevoking ==
  ASSUME TypeOK, NEW k \in 1..issued, revoked' = revoked \cup Family(k), UNCHANGED <<issued, family>>
  PROVE  Ended' = Ended \cup {family[k]}
<1>1. \A m \in 1..issued : m \in Family(m) /\ Family(m)' = Family(m)
  BY DEF Family
<1>2. revoked' \subseteq 1..issued /\ revoked \subseteq 1..issued
  BY DEF TypeOK, Family
<1>3. ASSUME NEW m \in revoked', Family(m)' \subseteq revoked', family[m] # family[k]
      PROVE  m \in revoked /\ Family(m) \subseteq revoked
  <2>1. \A n \in Family(m) : n \notin Family(k)
    BY <1>3 DEF Family
  <2> QED BY <1>1, <1>2, <1>3, <2>1
<1>4. Ended' \subseteq Ended \cup {family[k]}
  BY <1>3 DEF Ended
<1>5. k \in revoked' /\ Family(k)' \subseteq revoked'
  BY <1>1
<1>6. Ended \subseteq Ended'
  <2>1. ASSUME NEW m \in revoked, Family(m) \subseteq revoked PROVE m \in revoked' /\ Family(m)' \subseteq revoked'
    BY <2>1, <1>1, <1>2
  <2> QED BY <2>1 DEF Ended
<1>7. family[k] \in Ended'
  BY <1>5 DEF Ended
<1> QED BY <1>4, <1>6, <1>7

\* A new pair ends no sign-in, as long as its own was not ended.
LEMMA EndedByIssuing ==
  ASSUME TypeOK, issued \in Nat, issued' = issued + 1, \A n \in 1..issued : family'[n] = family[n],
         revoked \subseteq revoked', revoked' \subseteq 1..issued,
         \A m \in 1..issued : family[m] # family'[issued + 1] => (m \in revoked' => m \in revoked),
         \A m \in revoked : family[m] = family'[issued + 1] => ~(Family(m) \subseteq revoked)
  PROVE  Ended' = Ended
<1>1. \A n \in 1..issued' : n = issued + 1 \/ n \in 1..issued
  OBVIOUS
<1>2. issued + 1 \in 1..issued' /\ issued + 1 \notin 1..issued /\ 1..issued \subseteq 1..issued'
  OBVIOUS
<1>3. revoked \subseteq 1..issued
  BY DEF TypeOK
<1>4. \A m \in 1..issued : family[m] # family'[issued + 1] => Family(m)' = Family(m)
  BY <1>1, <1>2 DEF Family
<1>5. \A m \in 1..issued : family[m] = family'[issued + 1] => issued + 1 \in Family(m)'
  BY <1>2 DEF Family
<1>6. ASSUME NEW m \in revoked', Family(m)' \subseteq revoked'
      PROVE  m \in revoked /\ Family(m) \subseteq revoked /\ family'[m] = family[m]
  <2>1. m \in 1..issued /\ family[m] # family'[issued + 1] /\ family'[m] = family[m]
    BY <1>6, <1>2, <1>5
  <2>2. \A n \in Family(m) : n \in 1..issued /\ family[n] = family[m] /\ n \in revoked'
    BY <1>6, <2>1, <1>4 DEF Family
  <2> QED BY <2>1, <2>2
<1>7. ASSUME NEW m \in revoked, Family(m) \subseteq revoked
      PROVE  m \in revoked' /\ Family(m)' \subseteq revoked' /\ family'[m] = family[m]
  BY <1>7, <1>3, <1>4
<1>8. Ended' \subseteq Ended
  BY <1>6 DEF Ended
<1>9. Ended \subseteq Ended'
  BY <1>7 DEF Ended
<1> QED BY <1>8, <1>9

\* A step that leaves the register, the refresh in flight, the platform and the exceptions
\* alone is none of the register's.
LEMMA Quiet ==
  ASSUME RegisterInv, [Next]_vars, UNCHANGED <<stored, lock, server, broken>>,
         lock # Nobody => token'[lock] = token[lock]
  PROVE  UNCHANGED Browser!vars
BY ServerKept, StoredKept, RenewingKept DEF Browser!vars

\* One that empties the storage besides is an expiry.
LEMMA Emptied ==
  ASSUME RegisterInv, [Next]_vars, stored' = 0, UNCHANGED <<lock, server, broken>>,
         lock # Nobody => token'[lock] = token[lock]
  PROVE  Browser!Expire
<1>1. SignedIn' = 0
  BY DEF SignedIn
<1> QED BY <1>1, ServerKept, RenewingKept DEF Browser!Expire

\* A sign-in puts a new session into the register.
LEMMA LoginSignsIn ==
  ASSUME RegisterInv, [Next]_vars, NEW t \in Tab, NEW u \in User, Login(t, u)
  PROVE  Browser!SignIn(u)
<1>i. TypeOK /\ Descent
  BY DEF RegisterInv, ShownInv, IInv, SignInv
<1>n. issued \in Nat /\ issued + 1 \in Pair
  BY <1>i, ConstantsAssumption DEF Login, TypeOK, Pair
<1>1. issued < MaxTokens /\ Issue(u, issued + 1) /\ stored' = issued + 1 /\ UNCHANGED <<lock, token, revoked, broken>>
  BY DEF Login
<1>2. /\ issued' = issued + 1 /\ family'[issued + 1] = issued + 1 /\ owner'[issued + 1] = u
      /\ \A n \in 1..issued : family'[n] = family[n] /\ owner'[n] = owner[n]
      /\ \A n \in 1..issued' : n = issued + 1 \/ n \in 1..issued
  BY <1>1, <1>n, IssueStep
<1>3. SignedIn' = issued + 1
  BY <1>1, <1>2, <1>n DEF SignedIn
<1>4. issued + 1 \notin Browser!Known
  <2>1. \A n \in 1..issued : family[n] # issued + 1
    BY <1>i, <1>n DEF Descent
  <2> QED BY <2>1 DEF Browser!Known, Begun
<1>5. Begun' = Begun \cup {<<issued + 1, u>>}
  <2>1. issued + 1 \in 1..issued' /\ 1..issued \subseteq 1..issued'
    BY <1>2, <1>n
  <2> QED BY <1>2, <2>1 DEF Begun
<1>6. Ended' = Ended
  <2>1. revoked \subseteq 1..issued
    BY <1>i DEF TypeOK
  <2>2. \A m \in 1..issued : family[m] # family'[issued + 1]
    BY <1>2, <1>n, <1>i DEF Descent
  <2> QED BY <1>1, <1>2, <1>n, <1>i, <2>1, <2>2, EndedByIssuing
<1>7. Renewing' = Renewing
  BY <1>1, RenewingKept
<1> QED BY <1>1, <1>3, <1>4, <1>5, <1>6, <1>7, <1>n DEF Browser!SignIn

\* A sign-out empties it and excuses its session.
LEMMA LogoutSignsOut ==
  ASSUME RegisterInv, [Next]_vars, NEW t \in Tab, Logout(t)
  PROVE  Browser!SignOut
<1>i. TypeOK /\ FamilyInv
  BY DEF RegisterInv, ShownInv, IInv
<1>1. /\ stored # 0 /\ stored' = 0 /\ broken' = broken \cup {family[stored]}
      /\ UNCHANGED <<lock, token, server>>
  BY DEF Logout
<1>2. stored \in 1..issued /\ family[stored] # 0
  BY <1>1, <1>i, ConstantsAssumption DEF TypeOK, FamilyInv, Pair
<1>3. SignedIn = family[stored] /\ SignedIn # 0 /\ SignedIn' = 0
  BY <1>1, <1>2 DEF SignedIn
<1> QED BY <1>1, <1>3, ServerKept, RenewingKept DEF Browser!SignOut

\* The lock granted, a refresh begins for the session in the register, or none does.
LEMMA DoRefreshBegins ==
  ASSUME RegisterInv, [Next]_vars, NEW t \in Tab, DoRefresh(t)
  PROVE  Browser!Begin \/ Browser!Expire \/ UNCHANGED Browser!vars
<1>i. TypeOK /\ FamilyInv
  BY DEF RegisterInv, ShownInv, IInv
<1>1. lock = Nobody /\ UNCHANGED <<server, broken>>
  BY DEF DoRefresh
<1>2. CASE stored = 0 /\ Expire(t) /\ Done(t) /\ UNCHANGED lock
  BY <1>1, <1>2, Emptied DEF Expire
<1>3. CASE UNCHANGED <<stored, lock>>
  BY <1>1, <1>3, Quiet
<1>4. CASE stored # 0 /\ Goto(t, "refreshing", stored) /\ lock' = t /\ UNCHANGED stored
  <2>1. stored \in 1..issued /\ family[stored] # 0
    BY <1>4, <1>i, ConstantsAssumption DEF TypeOK, FamilyInv, Pair
  <2>2. Renewing = {} /\ SignedIn = family[stored] /\ SignedIn # 0
    BY <1>1, <1>4, <2>1 DEF Renewing, SignedIn
  <2>3. lock' # Nobody /\ token'[lock'] = stored
    BY <1>4, <1>i, ConstantsAssumption DEF Goto, TypeOK
  <2>4. Renewing' = {SignedIn}
    BY <1>1, <2>2, <2>3 DEF Renewing, server
  <2>5. SignedIn' = SignedIn
    BY <1>4, StoredKept
  <2> QED BY <1>1, <2>2, <2>4, <2>5, ServerKept DEF Browser!Begin
<1> QED BY <1>2, <1>3, <1>4 DEF DoRefresh

\* What the platform does for a refresh shows nowhere, or ends an excused session.
LEMMA RotateEnds ==
  ASSUME RegisterInv, [Next]_vars, NEW t \in Tab, Rotate(t)
  PROVE  (\E s \in broken : Browser!End(s)) \/ UNCHANGED Browser!vars
<1>i. IInv /\ TypeOK /\ FamilyInv /\ OwnerInv /\ CarriedInv /\ LockHeldToRefresh
  BY DEF RegisterInv, ShownInv, IInv
<1>1. /\ pc[t] = "refreshing" /\ lock = t /\ token[t] \in 1..issued
      /\ token[t] \in revoked => family[token[t]] \in broken
      /\ UNCHANGED <<stored, lock, broken>>
  BY <1>i DEF Rotate, LockHeldToRefresh, CarriedInv, browser, history
<1>s. SignedIn' = SignedIn
  BY <1>1, StoredKept
<1>2. CASE token[t] \in revoked /\ revoked' = revoked \cup Family(token[t]) /\ Goto(t, "denied", token[t])
           /\ UNCHANGED <<issued, owner, family>>
  <2>1. Ended' = Ended \cup {family[token[t]]}
    BY <1>1, <1>2, <1>i, EndedByRevoking
  <2>2. token'[lock] = token[lock]
    BY <1>1, <1>2, <1>i DEF Goto, TypeOK
  <2>3. Renewing' = Renewing
    BY <1>1, <2>2, RenewingKept
  <2>4. Begun' = Begun
    BY <1>2 DEF Begun
  <2> QED BY <1>1, <1>2, <1>s, <2>1, <2>3, <2>4 DEF Browser!End
<1>3. CASE Goto(t, "denied", token[t]) /\ UNCHANGED server
  <2>1. token'[lock] = token[lock]
    BY <1>1, <1>3, <1>i DEF Goto, TypeOK
  <2> QED BY <1>1, <1>3, <2>1, Quiet
<1>4. CASE /\ token[t] \notin revoked /\ issued < MaxTokens /\ Issue(owner[token[t]], family[token[t]])
           /\ revoked' = revoked \cup {token[t]} /\ Goto(t, "rotated", issued + 1)
  <2>1. owner[token[t]] \in User /\ family[token[t]] \in Pair
    BY <1>1, <1>i DEF OwnerInv, FamilyInv
  <2>2. /\ issued \in Nat /\ issued' = issued + 1
        /\ family'[issued + 1] = family[token[t]] /\ owner'[issued + 1] = owner[token[t]]
        /\ \A n \in 1..issued : family'[n] = family[n] /\ owner'[n] = owner[n]
        /\ \A n \in 1..issued' : n = issued + 1 \/ n \in 1..issued
    BY <1>1, <1>4, <2>1, IssueStep
  <2>3. Begun' = Begun
    <3>1. issued + 1 \in 1..issued' /\ 1..issued \subseteq 1..issued'
      BY <2>2
    <3>2. Begun' \subseteq Begun
      BY <1>1, <2>2 DEF Begun
    <3>3. Begun \subseteq Begun'
      BY <2>2, <3>1 DEF Begun
    <3> QED BY <3>2, <3>3
  <2>4. Ended' = Ended
    <3>1. revoked' \subseteq 1..issued /\ revoked \subseteq revoked'
      BY <1>1, <1>4, <1>i DEF TypeOK
    <3>2. \A m \in 1..issued : family[m] # family[token[t]] => (m \in revoked' => m \in revoked)
      BY <1>4
    <3>3. \A m \in revoked : family[m] = family[token[t]] => ~(Family(m) \subseteq revoked)
      BY <1>1, <1>4 DEF Family
    <3> QED BY <2>2, <3>1, <3>2, <3>3, <1>i, EndedByIssuing
  <2>5. Renewing' = Renewing
    <3>1. token'[t] = issued + 1 /\ t # Nobody
      BY <1>4, <1>i, ConstantsAssumption DEF Goto, TypeOK
    <3> QED BY <1>1, <2>2, <3>1 DEF Renewing
  <2> QED BY <1>1, <1>s, <2>3, <2>4, <2>5 DEF Browser!vars
<1> QED BY <1>2, <1>3, <1>4 DEF Rotate

\* The answer to a refresh brings its session back or empties the register.
LEMMA AnswerReturns ==
  ASSUME RegisterInv, [Next]_vars, NEW t \in Tab, Rotated(t) \/ Denied(t)
  PROVE  Browser!Answer
<1>i. TypeOK /\ LockHeldToRefresh
  BY DEF RegisterInv, ShownInv, IInv
<1>1. lock = t /\ lock' = Nobody /\ UNCHANGED <<server, broken>>
  BY <1>i DEF Rotated, Denied, LockHeldToRefresh, Unlock
<1>2. token[t] \in 1..issued /\ t # Nobody
  BY <1>1, InFlight, ConstantsAssumption
<1>3. Renewing = {family[token[t]]} /\ Renewing' = {}
  BY <1>1, <1>2 DEF Renewing
<1>4. SignedIn' \in Renewing \cup {0}
  <2>1. stored' = token[t] \/ stored' = 0
    BY DEF Rotated, Denied, Expire
  <2> QED BY <1>1, <1>3, <2>1 DEF SignedIn, server
<1> QED BY <1>1, <1>3, <1>4, ServerKept DEF Browser!Answer

\* A lost answer or a closed tab excuses the session of its refresh.
LEMMA LossExcuses ==
  ASSUME RegisterInv, [Next]_vars, NEW t \in Tab, Lose(t) \/ Close(t)
  PROVE  Browser!Lost \/ UNCHANGED Browser!vars
<1>i. TypeOK /\ LockHeldToRefresh
  BY DEF RegisterInv, ShownInv, IInv
<1>1. Unlock(t) /\ Done(t) /\ broken' = Unheard(t) /\ UNCHANGED <<stored, server>>
  BY DEF Lose, Close
<1>2. CASE lock = t
  <2>1. Renewing = {family[token[t]]} /\ Renewing' = {}
    BY <1>1, <1>2, ConstantsAssumption DEF Renewing, Unlock
  <2>2. broken' \in {broken, broken \cup Renewing}
    BY <1>1, <2>1 DEF Unheard
  <2> QED BY <1>1, <2>1, <2>2, ServerKept, StoredKept DEF Browser!Lost
<1>3. CASE lock # t
  <2>1. broken' = broken /\ lock' = lock
    BY <1>1, <1>3, <1>i DEF LockHeldToRefresh, Unheard, Unlock
  <2>2. lock # Nobody => token'[lock] = token[lock]
    BY <1>1, <1>3, <1>i DEF Done, Goto, TypeOK
  <2> QED BY <1>1, <2>1, <2>2, Quiet
<1> QED BY <1>2, <1>3

\* The platform hears of a sign-out: the excused session ends.
LEMMA RevokeEnds ==
  ASSUME RegisterInv, [Next]_vars, NEW t \in Tab, Revoke(t)
  PROVE  (\E s \in broken : Browser!End(s)) \/ UNCHANGED Browser!vars
<1>i. TypeOK /\ LeavingInv
  BY DEF RegisterInv, ShownInv, IInv
<1>1. UNCHANGED <<stored, lock, token, issued, owner, family, broken>>
  BY DEF Revoke
<1>2. CASE revoked' = revoked
  BY <1>1, <1>2, Quiet DEF server
<1>3. CASE revoked' = revoked \cup Family(leaving[t])
  <2>1. leaving[t] \in 1..issued /\ family[leaving[t]] \in broken
    BY <1>i, ConstantsAssumption DEF Revoke, TypeOK, LeavingInv
  <2>2. Ended' = Ended \cup {family[leaving[t]]}
    BY <1>1, <1>3, <2>1, <1>i, EndedByRevoking
  <2>3. Begun' = Begun
    BY <1>1 DEF Begun
  <2> QED BY <1>1, <2>1, <2>2, <2>3, StoredKept, RenewingKept DEF Browser!End
<1> QED BY <1>2, <1>3 DEF Revoke

\* A request that is not a refresh in flight leaves the register alone or empties it.
LEMMA RequestKeeps ==
  ASSUME RegisterInv, [Next]_vars, NEW t \in Tab, Request(t) \/ Serve(t) \/ Reject(t)
  PROVE  Browser!Expire \/ UNCHANGED Browser!vars
<1>i. TypeOK /\ LockHeldToRefresh
  BY DEF RegisterInv, ShownInv, IInv
<1>1. lock # t /\ UNCHANGED <<lock, server, broken>> /\ (stored' = stored \/ stored' = 0)
  BY <1>i DEF Request, Serve, Reject, LockHeldToRefresh, browser, history, Expire
<1>2. \E to, n : Goto(t, to, n)
  BY DEF Request, Serve, Reject, AskRefresh, Done
<1>3. lock # Nobody => token'[lock] = token[lock]
  BY <1>1, <1>2, <1>i DEF Goto, TypeOK
<1> QED BY <1>1, <1>3, Quiet, Emptied

\* Every step of the tabs is one of the register or shows nowhere in it.
LEMMA RegisterStep == RegisterInv /\ [Next]_vars => [Browser!Next]_(Browser!vars)
<1> SUFFICES ASSUME RegisterInv, [Next]_vars PROVE Browser!Next \/ UNCHANGED Browser!vars
  OBVIOUS
<1>1. CASE UNCHANGED vars
  BY <1>1, Quiet DEF vars, server
<1>2. ASSUME NEW t \in Tab, Load(t) \/ SeeSignedOut(t) \/ SwitchTenant(t) PROVE UNCHANGED Browser!vars
  BY <1>2, Quiet DEF Load, SeeSignedOut, SwitchTenant, browser, tab, history
<1>3. ASSUME NEW n \in Pair, NEW to, Age(n, to) PROVE UNCHANGED Browser!vars
  BY <1>3, Quiet DEF Age, browser, tab, history
<1> QED BY <1>1, <1>2, <1>3, LoginSignsIn, LogoutSignsOut, DoRefreshBegins, RotateEnds, AnswerReturns,
           LossExcuses, RevokeEnds, RequestKeeps DEF Next, Using, Refreshing, Answering, Browser!Next

\* It holds in every state sessions can reach.
LEMMA RegisterInvariance == Spec => []RegisterInv
<1>1. Init => RegisterInv
  BY InitIInv, ConstantsAssumption DEF Init, RegisterInv, ShownInv, OwnerInv, CacheInv, SignInv, Descent
<1>2. RegisterInv /\ [Next]_vars => RegisterInv'
  BY IInvStep, OwnerStep, CacheStep, SignStep DEF RegisterInv, ShownInv
<1> QED BY <1>1, <1>2, PTL DEF Spec

\* However many tabs sign in and out, refresh, expire, lose answers and close: together they
\* are one register of who is signed in.
THEOREM SessionImplements == Spec => ImplementsSignOn
<1>1. Init => Browser!Init
  BY DEF Init, Browser!Init, Begun, SignedIn, Renewing, Ended
<1>2. RegisterInv /\ [Next]_vars => [Browser!Next]_(Browser!vars)
  BY RegisterStep
<1> QED BY <1>1, <1>2, RegisterInvariance, PTL DEF Spec, ImplementsSignOn, Browser!Spec

\* A sign-in neither stored nor being refreshed stays away, step by step.
LEMMA GoneStep ==
  ASSUME RegisterInv, [Next]_vars, NEW n \in 1..issued, family[n] \notin {SignedIn} \cup Renewing
  PROVE  family'[n] \notin ({SignedIn} \cup Renewing)'
<1>1. family'[n] = family[n] /\ family[n] # 0
  BY GrowStep, ConstantsAssumption DEF RegisterInv, ShownInv, IInv, FamilyInv, Pair
<1>2. family[n] \in Browser!Known
  <2>1. <<family[n], owner[n]>> \in Begun
    BY DEF Begun
  <2>2. <<family[n], owner[n]>>[1] = family[n]
    OBVIOUS
  <2> QED BY <2>1, <2>2 DEF Browser!Known
<1>3. SignedIn' \in {SignedIn, 0} \cup Renewing \/ SignedIn' \notin Browser!Known
  BY RegisterStep DEF Browser!Next, Browser!vars, Browser!SignIn, Browser!SignOut, Browser!Expire,
     Browser!Begin, Browser!Answer, Browser!Lost, Browser!End
<1>4. Renewing' \subseteq Renewing \cup {SignedIn}
  BY RegisterStep DEF Browser!Next, Browser!vars, Browser!SignIn, Browser!SignOut, Browser!Expire,
     Browser!Begin, Browser!Answer, Browser!Lost, Browser!End
<1> QED BY <1>1, <1>2, <1>3, <1>4

\* Once a session is out and no refresh of it is in flight, nothing brings it back: neither
\* the other tabs, nor a late answer, nor whoever signs in after it.
THEOREM GoneForGood == Spec => SignedOutForGood
<1>1. RegisterInv /\ [Next]_vars =>
        [\A n \in 1..issued :
           family[n] \notin {SignedIn} \cup Renewing => family[n] \notin ({SignedIn} \cup Renewing)']_vars
  <2>1. ASSUME RegisterInv, [Next]_vars, NEW n \in 1..issued, family[n] \notin {SignedIn} \cup Renewing
        PROVE  family[n] \notin ({SignedIn} \cup Renewing)'
    <3>1. family'[n] = family[n]
      BY <2>1, GrowStep DEF RegisterInv, ShownInv
    <3> QED BY <2>1, <3>1, GoneStep
  <2> QED BY <2>1
<1> QED BY <1>1, RegisterInvariance, PTL DEF Spec, SignedOutForGood

\* What SignOn promises follows from its steps alone, and so holds of the tabs.
THEOREM SignOnKept == Spec => []Browser!Promise
<1> USE ConstantsAssumption DEF Pair
<1>1. Browser!Init => Browser!Promise
  BY DEF Browser!Init, Browser!Promise, Browser!Known
<1>2. Browser!Promise /\ [Browser!Next]_(Browser!vars) => Browser!Promise'
  <2> SUFFICES ASSUME Browser!Promise, [Browser!Next]_(Browser!vars) PROVE Browser!Promise'
    OBVIOUS
  <2>1. ASSUME NEW u \in User, Browser!SignIn(u) PROVE Browser!Promise'
    <3>1. <<SignedIn', u>>[1] = SignedIn'
      OBVIOUS
    <3>2. Browser!Known' = Browser!Known \cup {SignedIn'}
      BY <2>1, <3>1 DEF Browser!SignIn, Browser!Known
    <3>3. \A p, q \in Begun' : p[1] = q[1] => p = q
      BY <2>1, <3>1 DEF Browser!SignIn, Browser!Known, Browser!Promise
    <3> QED BY <2>1, <3>2, <3>3 DEF Browser!SignIn, Browser!Promise
  <2>2. CASE Browser!SignOut \/ Browser!Expire \/ Browser!Begin \/ Browser!Answer \/ Browser!Lost
             \/ (\E s \in broken : Browser!End(s)) \/ UNCHANGED Browser!vars
    <3>1. Begun' = Begun /\ Browser!Known' = Browser!Known
      BY <2>2 DEF Browser!SignOut, Browser!Expire, Browser!Begin, Browser!Answer, Browser!Lost, Browser!End,
         Browser!vars, Browser!Known
    <3> QED BY <2>2, <3>1 DEF Browser!SignOut, Browser!Expire, Browser!Begin, Browser!Answer, Browser!Lost,
         Browser!End, Browser!vars, Browser!Promise
  <2> QED BY <2>1, <2>2 DEF Browser!Next
<1> QED BY <1>1, <1>2, SessionImplements, PTL DEF ImplementsSignOn, Browser!Spec
=============================================================================
