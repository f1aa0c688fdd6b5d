--------------------------- MODULE ConsoleProofs ---------------------------
(***************************************************************************)
(* Proofs about Console, for any number of versions of the data and of     *)
(* faults and for every screen, query and mutation of the tables: the      *)
(* types, that nothing shown gives way to something older, and that a      *)
(* screen at rest shows its user's change.  Of the tables only             *)
(* CoverageAssumption is used.                                             *)
(***************************************************************************)
EXTENDS Console, TLAPS

\* A mutation of which a part failed is one of several requests.
PartInv == saving.phase = "failed" => at.mutation.steps > 1

\* An answer on its way is not older than what is held.
AnswerInv ==
  fetch.phase = "answered" => fetch.saw >= entry.data \/ at.query.key \in at.mutation.writes

\* What a user changed is held, or the entry is stale and on screen a fetch that will
\* see the change is on its way or has failed.
OnItsWay ==
  /\ \/ entry.data >= own
     \/ entry.stale /\ (mounted => fetch.phase # "none" \/ entry.failed)
  /\ fetch.phase = "answered" => fetch.saw >= own

ShownInv == ShownAtOnce(at.mutation, at.query) /\ ~crossed => OnItsWay

IInv == TypeOK /\ PartInv /\ ShownInv

-----------------------------------------------------------------------------
\* What the query, the mutation and the case followed are is never opened: only that
\* they stay what they are.
LEMMA Fixed == ASSUME [Next]_vars PROVE at' = at
BY DEF Next, Browser, Platform, Open, Leave, Poll, Land, Submit, Succeed, Fail, Read, Apply,
       ApplyPart, Change, Age, Retry, GiveUp, Lose, vars

\* Asking for a fetch gives a fetch.
LEMMA StartType ==
  ASSUME NEW d \in Nat, NEW f \in [phase : {"none", "asked", "answered"}, saw : 0..d]
  PROVE  Start(f) \in [phase : {"none", "asked", "answered"}, saw : 0..d]
BY DEF Start, Asked

\* What a callback leaves of the entry and the fetch.
LEMMA RefreshType ==
  ASSUME TypeOK, NEW wrote, NEW shows, Refresh(wrote, shows)
  PROVE  /\ entry' \in [data : 0..db, stale : BOOLEAN, failed : BOOLEAN]
         /\ fetch' \in [phase : {"none", "asked", "answered"}, saw : 0..db]
         /\ mounted' \in BOOLEAN
         /\ crossed' \in BOOLEAN
<1>1. db \in Nat BY BoundsAssumption DEF TypeOK, Version
<1> DEFINE Entries == [data : 0..db, stale : BOOLEAN, failed : BOOLEAN]
           Fetches == [phase : {"none", "asked", "answered"}, saw : 0..db]
           held == IF wrote THEN [data |-> saving.saw, stale |-> FALSE, failed |-> FALSE] ELSE entry
           matches == Invalidates(at.mutation, at.query)
           asks == IF matches /\ mounted THEN Refetch(held, fetch) ELSE fetch
<1>2. held \in Entries BY DEF TypeOK
<1>3. entry' = IF matches THEN [held EXCEPT !.stale = TRUE] ELSE held BY DEF Refresh
<1>4. entry' \in Entries BY <1>2, <1>3
<1>5. Asked \in Fetches BY <1>1 DEF Asked
<1>6. Start(fetch) \in Fetches BY <1>1, StartType DEF TypeOK
<1>7. asks \in Fetches BY <1>5, <1>6 DEF TypeOK, Refetch
<1>8. Start(asks) \in Fetches BY <1>1, <1>7, StartType
<1>9. fetch' \in {asks, Start(asks)} BY DEF Refresh
<1>10. fetch' \in Fetches BY <1>7, <1>8, <1>9
<1>11. mounted' \in BOOLEAN /\ crossed' \in BOOLEAN BY DEF Refresh, TypeOK
<1> QED BY <1>4, <1>10, <1>11

\* Every step keeps the types.
LEMMA TypeStep == ASSUME TypeOK, [Next]_vars PROVE TypeOK'
<1> USE BoundsAssumption
<1>1. db \in Nat /\ db >= 1 BY DEF TypeOK, Version
<1>2. CASE Open BY <1>1, <1>2, StartType DEF TypeOK, Open
<1>3. CASE Leave BY <1>3 DEF TypeOK, Leave
<1>4. CASE Poll BY <1>1, <1>4, StartType DEF TypeOK, Poll
<1>5. CASE Land BY <1>1, <1>5 DEF TypeOK, Land, Idle
<1>6. CASE Submit BY <1>1, <1>6 DEF TypeOK, Submit, Asked
<1>7. CASE Succeed
  <2>1. Refresh(at.query.key \in at.mutation.writes, at.mutation.opens # "") BY <1>7 DEF Succeed
  <2>2. /\ entry' \in [data : 0..db, stale : BOOLEAN, failed : BOOLEAN]
        /\ fetch' \in [phase : {"none", "asked", "answered"}, saw : 0..db]
        /\ mounted' \in BOOLEAN
        /\ crossed' \in BOOLEAN
    BY <2>1, RefreshType
  <2>3. saving.saw \in 0..db BY DEF TypeOK
  <2>4. own' \in 0..(db + 1) /\ (at.mutation.answered => own' <= db)
    <3>1. ASSUME at.mutation.answered PROVE own' \in 0..(db + 1) /\ own' <= db
      <4>1. own' = saving.saw BY <1>7, <3>1, Zenon DEF Succeed
      <4> QED BY <1>1, <2>3, <4>1
    <3>2. ASSUME ~at.mutation.answered PROVE own' \in 0..(db + 1)
      <4>1. own' = saving.saw + 1 BY <1>7, <3>2, Zenon DEF Succeed
      <4> QED BY <1>1, <2>3, <4>1
    <3> QED BY <3>1, <3>2, Zenon
  <2>5. saving' \in [phase : {"none", "asked", "answered", "failed"}, saw : 0..db]
    <3>1. saving' = [phase |-> "none", saw |-> 0] BY <1>7, Zenon DEF Succeed, Idle
    <3> QED BY <1>1, <3>1
  <2>6. UNCHANGED <<at, busy, db, faults>> BY <1>7 DEF Succeed
  <2>7. (at.mutation.answered => own <= db)' BY <2>4, <2>6, Zenon
  <2> QED BY <2>2, <2>4, <2>5, <2>6, <2>7 DEF TypeOK
<1>8. CASE Fail
  <2>1. Refresh(FALSE, FALSE) \/ UNCHANGED <<entry, fetch, mounted, crossed>> BY <1>8 DEF Fail
  <2>2. /\ entry' \in [data : 0..db, stale : BOOLEAN, failed : BOOLEAN]
        /\ fetch' \in [phase : {"none", "asked", "answered"}, saw : 0..db]
        /\ mounted' \in BOOLEAN
        /\ crossed' \in BOOLEAN
    <3>1. CASE Refresh(FALSE, FALSE) BY <3>1, RefreshType
    <3>2. CASE UNCHANGED <<entry, fetch, mounted, crossed>> BY <3>2 DEF TypeOK
    <3> QED BY <2>1, <3>1, <3>2
  <2> QED BY <1>1, <1>8, <2>2 DEF TypeOK, Fail, Idle
<1>9. CASE Read BY <1>1, <1>9 DEF TypeOK, Read
<1>10. CASE Apply BY <1>1, <1>10 DEF TypeOK, Apply, Version
<1>11. CASE ApplyPart BY <1>1, <1>11 DEF TypeOK, ApplyPart, Version
<1>12. CASE Change BY <1>1, <1>12 DEF TypeOK, Change, Version
<1>13. CASE Age BY <1>13 DEF TypeOK, Age
<1>14. CASE Retry BY <1>1, <1>14 DEF TypeOK, Retry, Asked
<1>15. CASE GiveUp
  <2>1. entry' \in [data : 0..db, stale : BOOLEAN, failed : BOOLEAN]
    <3>1. entry.data \in 0..db BY DEF TypeOK
    <3>2. entry' = [data |-> entry.data, stale |-> TRUE, failed |-> TRUE] BY <1>15 DEF GiveUp, TypeOK
    <3> QED BY <3>1, <3>2
  <2>2. fetch' \in [phase : {"none", "asked", "answered"}, saw : 0..db] BY <1>1, <1>15 DEF GiveUp, Idle
  <2>3. faults' \in 0..MaxFaults BY <1>15 DEF GiveUp, TypeOK
  <2> QED BY <1>15, <2>1, <2>2, <2>3 DEF GiveUp, TypeOK
<1>16. CASE Lose BY <1>1, <1>16 DEF TypeOK, Lose, Idle
<1>17. CASE UNCHANGED vars BY <1>17 DEF TypeOK, vars
<1> QED BY <1>2, <1>3, <1>4, <1>5, <1>6, <1>7, <1>8, <1>9, <1>10, <1>11, <1>12, <1>13, <1>14,
           <1>15, <1>16, <1>17 DEF Next, Browser, Platform

\* The types hold of the initial states.
LEMMA TypeInit == Init => TypeOK
<1> SUFFICES ASSUME Init PROVE TypeOK OBVIOUS
<1>1. MaxVersion \in Nat /\ MaxVersion >= 1 /\ MaxFaults \in Nat BY BoundsAssumption
<1>2. mounted \in BOOLEAN BY DEF Init
<1>3. /\ entry \in [data : 0..1, stale : BOOLEAN, failed : BOOLEAN]
      /\ fetch \in [phase : {"none", "asked", "answered"}, saw : 0..1]
  <2>1. CASE entry = [data |-> 0, stale |-> FALSE, failed |-> FALSE] /\ fetch = Asked
    BY <2>1 DEF Asked
  <2>2. ASSUME NEW stale \in BOOLEAN, entry = [data |-> 1, stale |-> stale, failed |-> FALSE],
               fetch = Idle
        PROVE  /\ entry \in [data : 0..1, stale : BOOLEAN, failed : BOOLEAN]
               /\ fetch \in [phase : {"none", "asked", "answered"}, saw : 0..1]
    BY <2>2 DEF Idle
  <2> QED BY <2>1, <2>2 DEF Init
<1>4. /\ at \in Cases /\ db = 1 /\ own = 0 /\ crossed = FALSE /\ faults = 0
      /\ saving = [phase |-> "none", saw |-> 0]
  BY DEF Init, Idle
<1>5. saving \in [phase : {"none", "asked", "answered", "failed"}, saw : 0..1] BY <1>4
<1>6. db \in Version \ {0} /\ own \in 0..(db + 1) /\ faults \in 0..MaxFaults
  BY <1>1, <1>4 DEF Version
<1>7. own <= db BY <1>4
<1>8. busy \subseteq Versions
  <2>1. busy \in IF at.query.polled = "busy" THEN SUBSET Versions ELSE {{}} BY DEF Init
  <2> QED BY <2>1
<1> QED BY <1>2, <1>3, <1>4, <1>5, <1>6, <1>7, <1>8, Zenon DEF TypeOK

\* Every variable keeps its type, and nothing claims a version that is not there yet
\* (the query cache of components/providers.tsx).
THEOREM Typed == Spec => []TypeOK
<1>1. Init => TypeOK BY TypeInit
<1>2. TypeOK /\ [Next]_vars => TypeOK' BY TypeStep
<1> QED BY <1>1, <1>2, PTL DEF Spec

-----------------------------------------------------------------------------
\* What is shown, and the answers on their way.

\* A fetch in flight is joined, otherwise one is asked for.
LEMMA Started == ASSUME NEW f PROVE Start(f) = f \/ Start(f) = Asked
BY DEF Start

\* A callback that writes nothing keeps what is held, and the fetch is the one before
\* or a new one.
LEMMA RefreshKeeps ==
  ASSUME TypeOK, NEW wrote, ~wrote, NEW shows, Refresh(wrote, shows)
  PROVE  entry'.data = entry.data /\ fetch' \in {fetch, Asked}
<1> DEFINE held == IF wrote THEN [data |-> saving.saw, stale |-> FALSE, failed |-> FALSE] ELSE entry
           matches == Invalidates(at.mutation, at.query)
           asks == IF matches /\ mounted THEN Refetch(held, fetch) ELSE fetch
<1>1. entry' = IF matches THEN [held EXCEPT !.stale = TRUE] ELSE held BY DEF Refresh
<1>2. entry'.data = entry.data BY <1>1 DEF TypeOK
<1>3. asks \in {fetch, Asked} BY Started DEF Refetch
<1>4. fetch' \in {asks, Start(asks)} BY DEF Refresh
<1>5. Start(asks) \in {asks, Asked} BY Started
<1>6. fetch' \in {fetch, Asked} BY <1>3, <1>4, <1>5
<1> QED BY <1>2, <1>6

\* Every step brings an entry no older data, unless a mutation writes its own answer there.
LEMMA AnswerStep ==
  ASSUME TypeOK, AnswerInv, [Next]_vars, at.query.key \notin at.mutation.writes
  PROVE  entry'.data >= entry.data /\ (fetch'.phase = "answered" => fetch'.saw >= entry'.data)
<1>1. db \in Nat /\ entry.data \in 0..db /\ fetch.saw \in 0..db
  BY BoundsAssumption DEF TypeOK, Version
<1>2. fetch.phase = "answered" => fetch.saw >= entry.data BY DEF AnswerInv
<1>3. Asked.phase # "answered" BY DEF Asked
<1>4. Start(fetch) \in {fetch, Asked} BY Started
<1>5. CASE entry' = entry /\ fetch' \in {fetch, Asked} BY <1>1, <1>2, <1>3, <1>5
<1>6. CASE Open BY <1>4, <1>5, <1>6 DEF Open
<1>7. CASE Leave BY <1>5, <1>7 DEF Leave
<1>8. CASE Poll BY <1>4, <1>5, <1>8 DEF Poll
<1>9. CASE Land
  <2>1. entry'.data = fetch.saw /\ fetch.phase = "answered" BY <1>9 DEF Land
  <2>2. fetch'.phase # "answered" BY <1>9 DEF Land, Idle
  <2> QED BY <1>1, <1>2, <2>1, <2>2
<1>10. CASE Submit BY <1>5, <1>10 DEF Submit
<1>11. CASE Succeed
  <2>1. Refresh(at.query.key \in at.mutation.writes, at.mutation.opens # "") BY <1>11 DEF Succeed
  <2>2. entry'.data = entry.data /\ fetch' \in {fetch, Asked} BY <2>1, RefreshKeeps
  <2> QED BY <1>1, <1>2, <1>3, <2>2
<1>12. CASE Fail
  <2>1. CASE Refresh(FALSE, FALSE)
    <3>1. entry'.data = entry.data /\ fetch' \in {fetch, Asked} BY <2>1, RefreshKeeps
    <3> QED BY <1>1, <1>2, <1>3, <3>1
  <2>2. CASE UNCHANGED <<entry, fetch, mounted, crossed>> BY <1>5, <2>2
  <2> QED BY <1>12, <2>1, <2>2 DEF Fail
<1>13. CASE Read
  <2>1. entry' = entry /\ fetch'.saw = db BY <1>13 DEF Read
  <2> QED BY <1>1, <2>1
<1>14. CASE Apply BY <1>5, <1>14 DEF Apply
<1>15. CASE ApplyPart BY <1>5, <1>15 DEF ApplyPart
<1>16. CASE Change BY <1>5, <1>16 DEF Change
<1>17. CASE Age
  <2>1. entry'.data = entry.data /\ fetch' = fetch BY <1>17 DEF Age, TypeOK
  <2> QED BY <1>1, <1>2, <2>1
<1>18. CASE Retry BY <1>5, <1>18 DEF Retry
<1>19. CASE GiveUp
  <2>1. entry'.data = entry.data BY <1>19 DEF GiveUp, TypeOK
  <2>2. fetch'.phase # "answered" BY <1>19 DEF GiveUp, Idle
  <2> QED BY <1>1, <2>1, <2>2
<1>20. CASE Lose BY <1>5, <1>20 DEF Lose
<1>21. CASE UNCHANGED vars BY <1>5, <1>21 DEF vars
<1> QED BY <1>6, <1>7, <1>8, <1>9, <1>10, <1>11, <1>12, <1>13, <1>14, <1>15, <1>16, <1>17, <1>18,
           <1>19, <1>20, <1>21 DEF Next, Browser, Platform

\* What is shown never gives way to something older, whatever is saved, polled, lost
\* and answered late; a query the mutation writes itself is excepted.
THEOREM Forwards == Spec => NeverBackwards
<1>1. Init => AnswerInv BY DEF Init, AnswerInv, Asked, Idle
<1>2. TypeOK /\ AnswerInv /\ [Next]_vars => AnswerInv'
  <2> SUFFICES ASSUME TypeOK, AnswerInv, [Next]_vars PROVE AnswerInv' OBVIOUS
  <2>1. at' = at BY Fixed
  <2>2. CASE at.query.key \in at.mutation.writes BY <2>1, <2>2 DEF AnswerInv
  <2>3. CASE at.query.key \notin at.mutation.writes BY <2>3, AnswerStep DEF AnswerInv
  <2> QED BY <2>2, <2>3
<1>3. TypeOK /\ AnswerInv /\ [Next]_vars =>
        [entry'.data >= entry.data \/ at.query.key \in at.mutation.writes]_vars
  BY AnswerStep
<1> QED BY <1>1, <1>2, <1>3, Typed, PTL DEF Spec, NeverBackwards

-----------------------------------------------------------------------------
\* The user's own change.

\* A callback that invalidates or writes the query leaves the change held or on its way,
\* or a fetch in flight it could not cancel.
LEMMA RefreshShows ==
  ASSUME TypeOK, NEW wrote, NEW shows, Refresh(wrote, shows),
         Invalidates(at.mutation, at.query) \/ wrote,
         own' = saving.saw, ~crossed'
  PROVE  OnItsWay'
<1> DEFINE held == IF wrote THEN [data |-> saving.saw, stale |-> FALSE, failed |-> FALSE] ELSE entry
           matches == Invalidates(at.mutation, at.query)
           asks == IF matches /\ mounted THEN Refetch(held, fetch) ELSE fetch
           next == IF matches THEN [held EXCEPT !.stale = TRUE] ELSE held
<1>1. /\ entry' = next
      /\ fetch' = IF shows /\ (next.data = 0 \/ next.stale) THEN Start(asks) ELSE asks
      /\ crossed' = (fetch.phase # "none" /\ ~(matches /\ mounted /\ held.data # 0))
      /\ mounted' = (mounted \/ shows)
  BY DEF Refresh
<1>2. saving.saw \in Nat BY BoundsAssumption DEF TypeOK, Version
<1>3. Asked.phase = "asked" BY DEF Asked
<1>4. matches => entry'.stale
  <2>1. held \in [data : 0..db, stale : BOOLEAN, failed : BOOLEAN] BY DEF TypeOK
  <2> QED BY <1>1, <2>1
<1>5. CASE matches /\ mounted /\ held.data # 0
  <2>1. asks = Asked BY <1>5 DEF Refetch
  <2>2. Start(asks) = Asked BY <2>1, Started
  <2>3. fetch'.phase = "asked" BY <1>1, <1>3, <2>1, <2>2
  <2> QED BY <1>4, <1>5, <2>3 DEF OnItsWay
<1>6. CASE ~(matches /\ mounted /\ held.data # 0)
  <2>1. fetch.phase = "none" BY <1>1, <1>6
  <2>2. Start(fetch) = Asked BY <2>1 DEF Start
  <2>3. asks \in {fetch, Asked} BY <1>6, <2>2 DEF Refetch
  <2>4. Start(asks) = Asked BY <2>2, <2>3, Started
  <2>5. fetch' \in {fetch, Asked} BY <1>1, <2>3, <2>4
  <2>6. fetch'.phase # "answered" BY <1>3, <2>1, <2>5
  <2>7. CASE matches
    <3>1. mounted => asks = Asked BY <1>6, <2>2, <2>7 DEF Refetch
    <3>2. next.stale BY <1>1, <1>4, <2>7
    <3>3. mounted' => fetch' = Asked BY <1>1, <2>4, <3>1, <3>2
    <3> QED BY <1>3, <1>4, <2>6, <2>7, <3>3 DEF OnItsWay
  <2>8. CASE ~matches
    <3>1. wrote BY <2>8
    <3>2. entry'.data = saving.saw BY <1>1, <2>8, <3>1
    <3> QED BY <1>2, <2>6, <3>2 DEF OnItsWay
  <2> QED BY <2>7, <2>8
<1> QED BY <1>5, <1>6

\* Only a mutation of several requests fails in part.
LEMMA PartStep == ASSUME TypeOK, PartInv, [Next]_vars PROVE PartInv'
<1>1. at' = at BY Fixed
<1>2. CASE saving' = saving BY <1>1, <1>2 DEF PartInv
<1>3. CASE saving'.phase # "failed" BY <1>3 DEF PartInv
<1>4. CASE ApplyPart BY <1>1, <1>4 DEF ApplyPart, PartInv
<1>5. CASE Submit \/ Succeed \/ Fail \/ Lose
  <2>1. saving' \in {Asked, Idle} BY <1>5, Zenon DEF Submit, Succeed, Fail, Lose
  <2> QED BY <1>3, <2>1 DEF Asked, Idle
<1>6. CASE Apply BY <1>3, <1>6 DEF Apply
<1>7. CASE Open \/ Leave \/ Poll \/ Land \/ Read \/ Change \/ Age \/ Retry \/ GiveUp \/ UNCHANGED vars
  BY <1>2, <1>7 DEF Open, Leave, Poll, Land, Read, Change, Age, Retry, GiveUp, vars
<1> QED BY <1>4, <1>5, <1>6, <1>7 DEF Next, Browser, Platform

\* Every step keeps the own change held or on its way.
LEMMA ShownStep == ASSUME IInv, [Next]_vars PROVE ShownInv'
<1> SUFFICES ASSUME ShownAtOnce(at.mutation, at.query)', ~crossed' PROVE OnItsWay'
  BY DEF ShownInv
<1> USE DEF IInv
<1>1. at' = at BY Fixed
<1>2. ShownAtOnce(at.mutation, at.query) BY <1>1
<1>3. /\ db \in Nat /\ entry.data \in 0..db /\ fetch.saw \in 0..db /\ own \in 0..(db + 1)
      /\ entry.stale \in BOOLEAN /\ entry.failed \in BOOLEAN
  BY BoundsAssumption DEF TypeOK, Version
<1>4. at.mutation.answered BY <1>2 DEF ShownAtOnce
<1>5. own <= db BY <1>4 DEF TypeOK
<1>6. ~crossed => OnItsWay BY <1>2 DEF ShownInv
<1>7. \/ Invalidates(at.mutation, at.query) /\ (at.mutation.steps > 1 => at.mutation.onError)
      \/ at.query.key \in at.mutation.writes /\ at.mutation.steps = 1
  <2>1. at \in Cases BY DEF TypeOK
  <2> QED BY <1>2, <2>1, CoverageAssumption, Zenon
<1>8. Asked.phase = "asked" BY DEF Asked
<1>9. (Start(fetch) = fetch /\ fetch.phase # "none") \/ Start(fetch) = Asked BY DEF Start
<1>10. CASE UNCHANGED <<entry, own, crossed, mounted, fetch>>
  BY <1>6, <1>10 DEF OnItsWay
<1>11. CASE Open
  <2>1. ~crossed /\ UNCHANGED <<entry, own>> BY <1>11 DEF Open
  <2>2. fetch' \in {fetch, Asked} BY <1>9, <1>11 DEF Open
  <2>3. entry.stale => fetch'.phase # "none" BY <1>8, <1>9, <1>11 DEF Open
  <2> QED BY <1>6, <1>8, <2>1, <2>2, <2>3 DEF OnItsWay
<1>12. CASE Leave
  <2>1. ~crossed /\ UNCHANGED <<entry, own, fetch>> /\ ~mounted' BY <1>12 DEF Leave
  <2> QED BY <1>6, <2>1 DEF OnItsWay
<1>13. CASE Poll
  <2>1. ~crossed /\ UNCHANGED <<entry, own, mounted>> /\ fetch' = Start(fetch) BY <1>13 DEF Poll
  <2> QED BY <1>6, <1>8, <1>9, <2>1 DEF OnItsWay
<1>14. CASE Land
  <2>1. entry'.data = fetch.saw /\ fetch.phase = "answered" /\ own' = own BY <1>14 DEF Land
  <2>2. fetch'.phase = "none" BY <1>14 DEF Land, Idle
  <2>3. ~(crossed /\ fetch.saw < own)
    <3>1. crossed' = (crossed /\ fetch.saw < own) BY <1>14 DEF Land
    <3> QED BY <3>1, Zenon
  <2>4. fetch.saw >= own
    <3>1. CASE crossed BY <1>3, <2>3, <3>1
    <3>2. CASE ~crossed BY <1>6, <2>1, <3>2 DEF OnItsWay
    <3> QED BY <3>1, <3>2
  <2> QED BY <2>1, <2>2, <2>4 DEF OnItsWay
<1>15. CASE Succeed
  <2>1. Refresh(at.query.key \in at.mutation.writes, at.mutation.opens # "") BY <1>15 DEF Succeed
  <2>2. own' = saving.saw BY <1>4, <1>15, Zenon DEF Succeed
  <2> QED BY <1>7, <2>1, <2>2, RefreshShows
<1>16. CASE Fail
  <2>1. at.mutation.steps > 1 BY <1>16 DEF Fail, PartInv
  <2>2. Invalidates(at.mutation, at.query) /\ at.mutation.onError BY <1>7, <2>1
  <2>3. Refresh(FALSE, FALSE)
    <3>1. IF at.mutation.onError THEN Refresh(FALSE, FALSE)
          ELSE UNCHANGED <<entry, fetch, mounted, crossed>>
      BY <1>16 DEF Fail
    <3> QED BY <2>2, <3>1, Zenon
  <2>4. own' = saving.saw BY <1>16 DEF Fail
  <2> QED BY <2>2, <2>3, <2>4, RefreshShows
<1>17. CASE Read
  <2>1. ~crossed /\ UNCHANGED <<entry, own, mounted>> BY <1>17 DEF Read
  <2>2. fetch' = [phase |-> "answered", saw |-> db] BY <1>17 DEF Read
  <2> QED BY <1>5, <1>6, <2>1, <2>2 DEF OnItsWay
<1>18. CASE Age
  <2>1. ~crossed /\ UNCHANGED <<fetch, own, mounted>> BY <1>18 DEF Age
  <2>2. entry'.data = entry.data /\ entry'.stale /\ entry'.failed = entry.failed BY <1>18 DEF Age, TypeOK
  <2> QED BY <1>6, <2>1, <2>2 DEF OnItsWay
<1>19. CASE Retry
  <2>1. ~crossed /\ UNCHANGED <<entry, own, mounted>> /\ fetch' = Asked BY <1>19 DEF Retry
  <2> QED BY <1>6, <1>8, <2>1 DEF OnItsWay
<1>20. CASE GiveUp
  <2>1. ~crossed /\ UNCHANGED <<own, mounted>> BY <1>20 DEF GiveUp
  <2>2. fetch'.phase = "none" BY <1>20 DEF GiveUp, Idle
  <2>3. entry'.stale /\ entry'.failed BY <1>20 DEF GiveUp, TypeOK
  <2> QED BY <2>1, <2>2, <2>3 DEF OnItsWay
<1>21. CASE Submit \/ Apply \/ ApplyPart \/ Change \/ Lose \/ UNCHANGED vars
  BY <1>10, <1>21 DEF Submit, Apply, ApplyPart, Change, Lose, vars
<1> QED BY <1>11, <1>12, <1>13, <1>14, <1>15, <1>16, <1>17, <1>18, <1>19, <1>20, <1>21
        DEF Next, Browser, Platform

\* A screen at rest shows what its user changed: the invalidations of every mutation and
\* the handling of fetches in flight are enough, however many saves, polls and failures.
THEOREM OwnShown == Spec => []OwnChangeShown
<1>1. Init => IInv
  <2>1. Init => PartInv BY DEF Init, PartInv, Idle
  <2>2. Init => ShownInv
    <3> SUFFICES ASSUME Init PROVE OnItsWay BY DEF ShownInv
    <3>1. own = 0 BY DEF Init
    <3>2. fetch.phase # "answered" BY DEF Init, Idle, Asked
    <3>3. entry.data >= 0 BY DEF Init
    <3> QED BY <3>1, <3>2, <3>3 DEF OnItsWay
  <2> QED BY <2>1, <2>2, TypeInit DEF IInv
<1>2. IInv /\ [Next]_vars => IInv' BY TypeStep, PartStep, ShownStep DEF IInv
<1>3. IInv => OwnChangeShown
  <2> SUFFICES ASSUME IInv, mounted, fetch.phase = "none", ~entry.failed, ~crossed,
                      ShownAtOnce(at.mutation, at.query)
               PROVE  entry.data >= own
    BY DEF OwnChangeShown
  <2> QED BY DEF IInv, ShownInv, OnItsWay
<1> QED BY <1>1, <1>2, <1>3, PTL DEF Spec
=============================================================================
