------------------------------ MODULE Console ------------------------------
(***************************************************************************)
(* How the web console keeps what it shows in step with the platform.      *)
(* TanStack Query holds one cache entry per query key; entries do not      *)
(* influence one another, so the module follows one query of a screen      *)
(* together with one mutation of that screen, for every screen, query and  *)
(* mutation of ConsoleViews, while others change the same data, answers    *)
(* are lost and the user leaves and comes back.                            *)
(***************************************************************************)
EXTENDS Naturals, FiniteSets, SequencesExt, ConsoleViews, ConsoleApi

CONSTANTS
  MaxVersion,  \* bound: versions of the data the platform goes through
  MaxFaults    \* bound: answers lost on the way

ASSUME BoundsAssumption == MaxVersion \in Nat \ {0} /\ MaxFaults \in Nat

VARIABLES
  at,       \* the screen, the query and the mutation followed: fixed
  busy,     \* the versions that say that work is under way: fixed, and of interest
            \* only to a query that is polled while what it holds says so
  db,       \* version of the data on the platform
  entry,    \* the cache entry: version held (0: none), stale, last fetch failed
  fetch,    \* the fetch in flight and the version its answer carries
  mounted,  \* a component showing the query is on screen
  saving,   \* the mutation in flight and the version it made
  own,      \* the version of the user's latest own change the console knows of, or
            \* the one that queued work is to make
  crossed,  \* own was confirmed while a fetch it could not cancel was in flight
  faults

vars == <<at, busy, db, entry, fetch, mounted, saving, own, crossed, faults>>

QueriesOf(s)   == UNION {v.queries : v \in Screens[s].views}
MutationsOf(s) == UNION {v.mutations : v \in Screens[s].views}
ShellQueries   == UNION {v.queries : v \in Shell}
Target(s, m)   == IF m.opens = "" THEN s ELSE m.opens

\* The permissions of the signed-in user are read once and kept.
OwnGrants      == <<"auth", "me">>
\* A user who changes nothing.
Reading        == Mutation("me", {}, {})

\* invalidateQueries matches every key its argument is a prefix of.
Invalidates(m, q) == \E k \in m.invalidates : IsPrefix(k, q.key)
Concerns(m, q)    == Api[m.from].touches \cap Api[q.from].touches # {}

\* A mutation with each query whose data it changes, or a query alone.
Case(s, m, q) == [screen |-> s, mutation |-> m, query |-> q]
Cases ==
  LET Concerned(s, m) == {q \in QueriesOf(Target(s, m)) \cup ShellQueries :
                          Concerns(m, q) \/ q.key = OwnGrants}
  IN UNION {{Case(s, Reading, q) : q \in QueriesOf(s)} : s \in DOMAIN Screens}
     \cup {Case("settings", Reading, q) : q \in ShellQueries}
     \cup UNION {UNION {{Case(s, m, q) : q \in Concerned(s, m)} : m \in MutationsOf(s)} :
                 s \in DOMAIN Screens}

\* A change that can be shown at once: the mutation is answered when it is done, and
\* the query is not left to its timer or never read again.
ShownAtOnce(m, q) ==
  /\ m # Reading /\ m.answered
  /\ Concerns(m, q)
  /\ q.polled = "always" => Invalidates(m, q)
  /\ q.key # OwnGrants

\* The tables of the components agree with one another, mutation by mutation.
ASSUME CoverageAssumption ==
  \A c \in Cases : ShownAtOnce(c.mutation, c.query) =>
    \/ Invalidates(c.mutation, c.query) /\ (c.mutation.steps > 1 => c.mutation.onError)
    \/ c.query.key \in c.mutation.writes /\ c.mutation.steps = 1

Versions == 1..MaxVersion

Idle  == [phase |-> "none", saw |-> 0]
Asked == [phase |-> "asked", saw |-> 0]

\* A fetch nothing else started.
Start(f) == IF f.phase = "none" THEN Asked ELSE f
\* invalidateQueries of a query on screen: a fetch in flight is cancelled and
\* started again, unless it is the first one.
Refetch(e, f) == IF e.data = 0 THEN Start(f) ELSE Asked

-----------------------------------------------------------------------------

Init ==
  /\ at \in Cases
  /\ busy \in IF at.query.polled = "busy" THEN SUBSET Versions ELSE {{}}
  /\ db = 1
  /\ mounted = (at.query \in QueriesOf(at.screen) \cup ShellQueries)
  /\ \/ /\ mounted
        /\ entry = [data |-> 0, stale |-> FALSE, failed |-> FALSE]
        /\ fetch = Asked
     \/ /\ \E stale \in BOOLEAN : entry = [data |-> 1, stale |-> stale, failed |-> FALSE]
        /\ fetch = Idle
  /\ saving = Idle
  /\ own = 0
  /\ crossed = FALSE
  /\ faults = 0

\* Somebody else, or a worker, changes the data.
Change ==
  /\ db < MaxVersion
  /\ db' = db + 1
  /\ UNCHANGED <<at, busy, entry, fetch, mounted, saving, own, crossed, faults>>

\* staleTime passes.
Age ==
  /\ entry.data # 0
  /\ entry' = [entry EXCEPT !.stale = TRUE]
  /\ UNCHANGED <<at, busy, db, fetch, mounted, saving, own, crossed, faults>>

\* A component that uses the query mounts: it fetches what is missing or stale.
Open ==
  /\ ~mounted
  /\ mounted' = TRUE
  /\ fetch' = IF entry.data = 0 \/ entry.stale THEN Start(fetch) ELSE fetch
  /\ UNCHANGED <<at, busy, db, entry, saving, own, crossed, faults>>

\* The last one unmounts; a fetch in flight goes on.
Leave ==
  /\ mounted
  /\ at.query \notin ShellQueries
  /\ mounted' = FALSE
  /\ UNCHANGED <<at, busy, db, entry, fetch, saving, own, crossed, faults>>

\* refetchInterval as the query stands: a condition on the data held is not met
\* before the first answer.
Ticking ==
  \/ at.query.polled = "always"
  \/ at.query.polled = "busy" /\ entry.data \in busy

\* The timer of refetchInterval joins a fetch in flight.
Poll ==
  /\ mounted
  /\ Ticking
  /\ fetch' = Start(fetch)
  /\ UNCHANGED <<at, busy, db, entry, mounted, saving, own, crossed, faults>>

\* Mutant: an older answer is taken from the browser's HTTP cache.
ReadFromHttpCache ==
  /\ fetch.phase = "asked"
  /\ \E v \in 1..db : fetch' = [phase |-> "answered", saw |-> v]
  /\ UNCHANGED <<at, busy, db, entry, mounted, saving, own, crossed, faults>>

\* The platform answers the request.
Read ==
  /\ fetch.phase = "asked"
  /\ fetch' = [phase |-> "answered", saw |-> db]
  /\ UNCHANGED <<at, busy, db, entry, mounted, saving, own, crossed, faults>>

\* The answer arrives.
Land ==
  /\ fetch.phase = "answered"
  /\ entry' = [data |-> fetch.saw, stale |-> FALSE, failed |-> FALSE]
  /\ fetch' = Idle
  /\ crossed' = (crossed /\ fetch.saw < own)
  /\ UNCHANGED <<at, busy, db, mounted, saving, own, faults>>

\* Mutant: a failed request is asked again without a limit.
RetryForEver ==
  /\ fetch.phase # "none"
  /\ faults' = faults + 1
  /\ fetch' = Asked
  /\ UNCHANGED <<at, busy, db, entry, mounted, saving, own, crossed>>

\* The request or its answer is lost, or the platform fails: it is asked again.
Retry ==
  /\ fetch.phase # "none"
  /\ faults < MaxFaults
  /\ faults' = faults + 1
  /\ fetch' = Asked
  /\ UNCHANGED <<at, busy, db, entry, mounted, saving, own, crossed>>

\* The third loss, or an answer 4xx: the fetch fails and what was shown stays.
GiveUp ==
  /\ fetch.phase # "none"
  /\ faults < MaxFaults
  /\ faults' = faults + 1
  /\ fetch' = Idle
  /\ entry' = [entry EXCEPT !.stale = TRUE, !.failed = TRUE]
  /\ UNCHANGED <<at, busy, db, mounted, saving, own, crossed>>

-----------------------------------------------------------------------------

\* mutate(): the request leaves.
Submit ==
  /\ saving.phase = "none"
  /\ at.mutation # Reading
  /\ saving' = Asked
  /\ UNCHANGED <<at, busy, db, entry, fetch, mounted, own, crossed, faults>>

\* The platform carries the request out, or queues the work for a worker.
Apply ==
  /\ saving.phase = "asked"
  /\ IF at.mutation.answered
     THEN db < MaxVersion /\ db' = db + 1
     ELSE db' = db
  /\ saving' = [phase |-> "answered", saw |-> db']
  /\ UNCHANGED <<at, busy, entry, fetch, mounted, own, crossed, faults>>

\* Of several requests one was carried out before the next one fails.
ApplyPart ==
  /\ saving.phase = "asked"
  /\ at.mutation.steps > 1
  /\ db < MaxVersion
  /\ db' = db + 1
  /\ saving' = [phase |-> "failed", saw |-> db']
  /\ UNCHANGED <<at, busy, entry, fetch, mounted, own, crossed, faults>>

\* Mutant: the query is marked stale and not fetched again.
RefreshMarking(wrote, shows) ==
  /\ entry' = [entry EXCEPT !.stale = Invalidates(at.mutation, at.query)]
  /\ crossed' = (fetch.phase # "none")
  /\ UNCHANGED <<fetch, mounted>>

\* What a callback of the mutation does to the query: setQueryData with the
\* answer, then invalidateQueries, then router.push.
Refresh(wrote, shows) ==
  LET matches == Invalidates(at.mutation, at.query)
      held    == IF wrote THEN [data |-> saving.saw, stale |-> FALSE, failed |-> FALSE] ELSE entry
      asks    == IF matches /\ mounted THEN Refetch(held, fetch) ELSE fetch
      next    == IF matches THEN [held EXCEPT !.stale = TRUE] ELSE held
  IN /\ entry' = next
     /\ fetch' = IF shows /\ (next.data = 0 \/ next.stale) THEN Start(asks) ELSE asks
     /\ crossed' = (fetch.phase # "none" /\ ~(matches /\ mounted /\ held.data # 0))
     /\ mounted' = (mounted \/ shows)

\* onSuccess.
Succeed ==
  /\ saving.phase = "answered"
  /\ Refresh(at.query.key \in at.mutation.writes, at.mutation.opens # "")
  /\ own' = IF at.mutation.answered THEN saving.saw ELSE saving.saw + 1
  /\ saving' = Idle
  /\ UNCHANGED <<at, busy, db, faults>>

\* onError after a part was carried out.
Fail ==
  /\ saving.phase = "failed"
  /\ IF at.mutation.onError
     THEN Refresh(FALSE, FALSE) ELSE UNCHANGED <<entry, fetch, mounted, crossed>>
  /\ own' = saving.saw
  /\ saving' = Idle
  /\ UNCHANGED <<at, busy, db, faults>>

\* The request is refused, or its answer is lost after it was carried out.
Lose ==
  /\ saving.phase \in {"asked", "answered"}
  /\ faults < MaxFaults
  /\ faults' = faults + 1
  /\ saving' = Idle
  /\ UNCHANGED <<at, busy, db, entry, fetch, mounted, own, crossed>>

Browser == Open \/ Leave \/ Poll \/ Land \/ Submit \/ Succeed \/ Fail
Platform == Read \/ Apply \/ ApplyPart \/ Change
Next == Browser \/ Platform \/ Age \/ Retry \/ GiveUp \/ Lose

\* Timers fire, requests are answered and answers arrive; the user, the others
\* and the network's faults promise nothing.
Fairness == WF_vars(Poll) /\ WF_vars(Read) /\ WF_vars(Land) /\ WF_vars(Succeed) /\ WF_vars(Fail)

Spec == Init /\ [][Next]_vars /\ Fairness

-----------------------------------------------------------------------------
(* Properties                                                               *)

Version == 0..MaxVersion

\* Every variable keeps its type, and nothing claims a version that is not there yet.
TypeOK ==
  /\ at \in Cases
  /\ busy \subseteq Versions
  /\ db \in Version \ {0}
  /\ entry \in [data : 0..db, stale : BOOLEAN, failed : BOOLEAN]
  /\ fetch \in [phase : {"none", "asked", "answered"}, saw : 0..db]
  /\ mounted \in BOOLEAN
  /\ saving \in [phase : {"none", "asked", "answered", "failed"}, saw : 0..db]
  /\ own \in 0..(db + 1)
  /\ at.mutation.answered => own <= db
  /\ crossed \in BOOLEAN
  /\ faults \in 0..MaxFaults

\* A screen at rest shows what its user changed: once the console knows that a
\* mutation was carried out, wholly or in part, a query on screen that has nothing
\* in flight and did not fail shows it.  A fetch the mutation could not cancel may
\* still bring the older answer (crossed); a query that is left to a constant
\* interval shows it later; and the permissions of the user are not read again.
OwnChangeShown ==
  (/\ mounted
   /\ fetch.phase = "none"
   /\ ~entry.failed
   /\ ~crossed
   /\ ShownAtOnce(at.mutation, at.query)) => entry.data >= own

\* No request that the console lets a holder of a built-in role make is refused for
\* a missing permission: what hides a screen, a control and a query agrees with what
\* the handlers require, with what the workflow of a change requires of each
\* transition, and with what the binding of a built-in role requires of its giver.
NothingForbidden ==
  LET MayBeAt(r)   == Screens[at.screen].perms \subseteq RoleOf[r]
      Allowed(r, x) == x.gate \subseteq RoleOf[r] => Api[x.from].needs \subseteq RoleOf[r]
      Asks(r)      == /\ MayBeAt(r)
                      /\ at.mutation.opens = "" \/ at.mutation.gate \subseteq RoleOf[r]
  IN \A r \in DOMAIN RoleOf :
       /\ saving.phase = "asked" /\ MayBeAt(r) => Allowed(r, at.mutation)
       /\ fetch.phase = "asked" /\ mounted /\ Asks(r) => Allowed(r, at.query)

\* What is shown never gives way to something older, except where a mutation writes
\* its answer into the cache beside a fetch that is in flight.
NeverBackwards ==
  [][entry'.data >= entry.data \/ at.query.key \in at.mutation.writes]_vars

\* What others and the workers change reaches a query that is polled while it stays
\* on screen, unless the user saves so often that every answer is cancelled.  A query
\* polled while it shows work under way gets there or shows that the work has ended,
\* and nothing is promised of it before it shows such work: no import is left
\* spinning on the screen.
PollsCatchUp ==
  <>[](saving.phase = "none") =>
    \A v \in Versions :
      (Ticking /\ mounted /\ db = v) ~> (~mounted \/ ~Ticking \/ entry.data >= v)

\* "The new revision will appear in History once collected.": what the user is
\* told on asking for a backup of the device on screen.
RevisionAppears ==
  (at.screen = "history" /\ at.query.from = "history") =>
    \A v \in Versions :
      (own = v /\ db >= v /\ mounted) ~> (~mounted \/ entry.data >= v \/ own # v)
=============================================================================
