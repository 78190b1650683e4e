---------------------------- MODULE UsageSummary ----------------------------
(***************************************************************************)
(* The summary of the last days: aggregated rows of one time zone in the   *)
(* database, the mark of the zone and days they cover, rebuilds in         *)
(* goroutines, reloads of the configuration that may change the zone, and  *)
(* queries that use the rows when they are covered and the requests        *)
(* themselves when not.                                                    *)
(* internal/tracking/usage_summary.go, queries.go, database.go,            *)
(* internal/timezone/policy.go, app.go.                                    *)
(*                                                                         *)
(* A day of the model is one of the window the summary keeps, the same in  *)
(* every zone; what is aggregated is the number of requests of each day.   *)
(* Retention is longer than the window: a cleanup deletes nothing in it.   *)
(***************************************************************************)
EXTENDS Integers

CONSTANTS Zones, Initial, Days, MaxRequests, MaxReloads, MaxCleanups

VARIABLES zone,      \* the policy's active zone
          log,       \* requests recorded, by day
          today,
          stored,    \* usage_summary: [zone, sums], sums by day
          covered,   \* summaryReadyTimezone and its end date: [zone, upto], << >> for none
          reload,    \* a reload between the new zone and the end of the old mark
          wanted,    \* rebuilds started and still waiting for summaryRebuildMu
          build,     \* the rebuild that holds it: [at, zone, upto, sums], << >> for none
          query,     \* [at, zone, upto, ...], << >> for none
          seen,      \* what log has been
          requests, reloads, cleanups
summaryVars == <<zone, log, today, stored, covered, reload, wanted, build, query, seen,
                 requests, reloads, cleanups>>

-----------------------------------------------------------------------------
Upto(sums, day) == [d \in 1..Days |-> IF d <= day THEN sums[d] ELSE 0]
Nothing == [d \in 1..Days |-> 0]
summaryCovers(z, day) == covered # << >> /\ covered.zone = z /\ day <= covered.upto

\* NewUsageTracker builds the cache before anything else runs.
Init ==
  /\ zone = Initial /\ log = Nothing /\ today = 1 /\ seen = {log}
  /\ stored = [zone |-> Initial, sums |-> Nothing]
  /\ covered = [zone |-> Initial, upto |-> 1]
  /\ reload = FALSE /\ wanted = 0 /\ build = << >> /\ query = << >>
  /\ requests = 0 /\ reloads = 0 /\ cleanups = 0

\* A request is inserted with the day it began on.
Record ==
  /\ requests < MaxRequests
  /\ log' = [log EXCEPT ![today] = @ + 1] /\ seen' = seen \cup {log'} /\ requests' = requests + 1
  /\ UNCHANGED <<zone, today, stored, covered, reload, wanted, build, query, reloads, cleanups>>
Midnight ==
  /\ today < Days /\ today' = today + 1
  /\ UNCHANGED <<zone, log, stored, covered, reload, wanted, build, query, seen, requests, reloads, cleanups>>

-----------------------------------------------------------------------------
(* Reload: the callback of setupConfigReload, under App.mu *)

Update(z) ==
  /\ ~reload /\ reloads < MaxReloads
  /\ zone' = z /\ reload' = TRUE /\ reloads' = reloads + 1
  /\ query' = IF query # << >> THEN [query EXCEPT !.met = TRUE] ELSE query
  /\ UNCHANGED <<log, today, stored, covered, wanted, build, seen, requests, cleanups>>
MarkKept ==                                                     \* faulty variant
  /\ reload
  /\ reload' = FALSE /\ wanted' = wanted + 1
  /\ UNCHANGED <<zone, log, today, stored, covered, build, query, seen, requests, reloads, cleanups>>
OnTimezoneChanged ==
  /\ reload
  /\ covered' = << >> /\ reload' = FALSE /\ wanted' = wanted + 1
  /\ UNCHANGED <<zone, log, today, stored, build, query, seen, requests, reloads, cleanups>>
\* The end of cleanupOldRecords.
Cleanup ==
  /\ cleanups < MaxCleanups
  /\ cleanups' = cleanups + 1 /\ wanted' = wanted + 1
  /\ UNCHANGED <<zone, log, today, stored, covered, reload, build, query, seen, requests, reloads>>

-----------------------------------------------------------------------------
(* rebuildRecentUsageSummary *)

\* The lock and the snapshot of the policy; then the aggregation, which may fail.
BuildStarts ==
  /\ wanted > 0 /\ build = << >>
  /\ build' = [at |-> "aggregate", zone |-> zone, upto |-> today, sums |-> Nothing]
  /\ wanted' = wanted - 1
  /\ UNCHANGED <<zone, log, today, stored, covered, reload, query, seen, requests, reloads, cleanups>>
BuildFails ==
  /\ build # << >> /\ build.at \in {"aggregate", "commit"}
  /\ build' = << >>
  /\ UNCHANGED <<zone, log, today, stored, covered, reload, wanted, query, seen, requests, reloads, cleanups>>
Aggregates ==
  /\ build # << >> /\ build.at = "aggregate"
  /\ build' = [build EXCEPT !.at = "commit", !.sums = Upto(log, build.upto)]
  /\ UNCHANGED <<zone, log, today, stored, covered, reload, wanted, query, seen, requests, reloads, cleanups>>
\* One transaction: rows of this zone replaced, rows of every other removed.
Commits ==
  /\ build # << >> /\ build.at = "commit"
  /\ stored' = [zone |-> build.zone, sums |-> build.sums]
  /\ build' = [build EXCEPT !.at = "check"]
  /\ UNCHANGED <<zone, log, today, covered, reload, wanted, query, seen, requests, reloads, cleanups>>
\* The mark is set only if the zone is still the active one, a moment ago.
Checks ==
  /\ build # << >> /\ build.at = "check"
  /\ build' = IF zone = build.zone THEN [build EXCEPT !.at = "mark"] ELSE << >>
  /\ UNCHANGED <<zone, log, today, stored, covered, reload, wanted, query, seen, requests, reloads, cleanups>>
Marks ==
  /\ build # << >> /\ build.at = "mark"
  /\ covered' = [zone |-> build.zone, upto |-> build.upto]
  /\ build' = << >>
  /\ UNCHANGED <<zone, log, today, stored, reload, wanted, query, seen, requests, reloads, cleanups>>

-----------------------------------------------------------------------------
(* QueryUsageSummary: the zone and the end date, the check of the mark, and  *)
(* the read.  met: a reload was under way, or began, during the query.       *)

QueryStarts(day) ==
  /\ query = << >> /\ day <= today
  /\ query' = [at |-> "check", zone |-> zone, upto |-> day, met |-> reload, cached |-> FALSE, sums |-> Nothing]
  /\ UNCHANGED <<zone, log, today, stored, covered, reload, wanted, build, seen, requests, reloads, cleanups>>
QueryChecks ==
  /\ query # << >> /\ query.at = "check"
  /\ query' = [query EXCEPT !.at = "read", !.cached = summaryCovers(query.zone, query.upto)]
  /\ UNCHANGED <<zone, log, today, stored, covered, reload, wanted, build, seen, requests, reloads, cleanups>>
QueryReads ==
  /\ query # << >> /\ query.at = "read"
  /\ query' = [query EXCEPT !.at = "answered",
                 !.sums = IF ~query.cached THEN Upto(log, query.upto)
                          ELSE IF stored.zone = query.zone THEN Upto(stored.sums, query.upto)
                          ELSE Nothing]
  /\ UNCHANGED <<zone, log, today, stored, covered, reload, wanted, build, seen, requests, reloads, cleanups>>
QueryEnds ==
  /\ query # << >> /\ query.at = "answered"
  /\ query' = << >>
  /\ UNCHANGED <<zone, log, today, stored, covered, reload, wanted, build, seen, requests, reloads, cleanups>>

Next == \/ Record \/ Midnight
        \/ \E z \in Zones : Update(z)
        \/ OnTimezoneChanged \/ Cleanup
        \/ BuildStarts \/ BuildFails \/ Aggregates \/ Commits \/ Checks \/ Marks
        \/ \E day \in 1..Days : QueryStarts(day)
        \/ QueryChecks \/ QueryReads \/ QueryEnds
Spec == Init /\ [][Next]_summaryVars

-----------------------------------------------------------------------------
\* An answer counts the requests of one moment, and rows from the cache were
\* built in the query's own zone: whatever earlier reloads, rebuilds of either
\* zone still running and midnight do, the mark never covers rows of another
\* zone or another day.  (A reload during the query may leave the answer empty.)
CoveredIsBuilt ==
  query # << >> /\ query.at = "answered" /\ ~query.met =>
    /\ query.cached => stored.zone = query.zone
    /\ \E past \in seen : query.sums = Upto(past, query.upto)
=============================================================================
