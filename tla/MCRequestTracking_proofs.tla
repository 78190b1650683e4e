---------------------- MODULE MCRequestTracking_proofs -----------------------
(***************************************************************************)
(* Theorems about the other parts that MCRequestTracking runs, for any     *)
(* days, zones, requests and prices: the summary of past days, the costs   *)
(* and the prices they are reckoned with, the range of a date, and the     *)
(* pages of a listing.                                                     *)
(***************************************************************************)
EXTENDS MCRequestTracking, Ordering, FiniteSetTheorems, NaturalsInduction,
        WellFoundedInduction, TLAPS

-----------------------------------------------------------------------------
(* The summary of past days.  Its inductive invariant, in parts.            *)

Sums == [1 .. SummaryDays -> Int]

\* What is summed up was the log at some moment, up to a day.
Built(sums, day) == \E past \in seen : sums = Summary!Upto(past, day)

SummaryTypes ==
  /\ today \in 1 .. SummaryDays /\ log \in Sums /\ log \in seen /\ seen \subseteq Sums
  /\ reload \in BOOLEAN
  /\ covered # << >> => covered.upto \in Int
  /\ build # << >> =>
       /\ build = [at |-> build.at, zone |-> build.zone, upto |-> build.upto, sums |-> build.sums]
       /\ build.at \in {"aggregate", "commit", "check", "mark"} /\ build.upto \in 1 .. today
  /\ query # << >> =>
       /\ query = [at |-> query.at, zone |-> query.zone, upto |-> query.upto, met |-> query.met,
                   cached |-> query.cached, sums |-> query.sums]
       /\ query.at \in {"check", "read", "answered"} /\ query.upto \in 1 .. SummaryDays
       /\ query.met \in BOOLEAN /\ query.cached \in BOOLEAN

\* The mark never reaches beyond the rows, nor beyond a rebuild under way.
MarkIsBehind ==
  /\ \E day \in Int : /\ Built(stored.sums, day)
                      /\ covered # << >> => covered.upto <= day
  /\ covered # << >> => /\ covered.upto <= today
                        /\ build # << >> => covered.upto <= build.upto

\* Once the old mark is gone, a mark of the active zone stands for its rows, and no
\* rebuild of another zone is under way.
MarkIsOfZone ==
  ~reload /\ covered # << >> /\ covered.zone = zone =>
    /\ stored.zone = zone
    /\ build # << >> => build.zone = zone

\* A rebuild commits sums of one moment; then the rows are its own.
BuildIsOfMoment ==
  build # << >> =>
    /\ build.at = "commit" => Built(build.sums, build.upto)
    /\ build.at \in {"check", "mark"} => stored.zone = build.zone /\ Built(stored.sums, build.upto)

\* A query no reload has met asks for the active zone, and what it found covered stays so.
QueryIsAnswered ==
  query # << >> /\ ~query.met =>
    /\ ~reload /\ query.zone = zone
    /\ query.at \in {"read", "answered"} /\ query.cached => Summary!summaryCovers(zone, query.upto)
    /\ query.at = "answered" => Built(query.sums, query.upto)

SummaryInv ==
  SummaryTypes /\ MarkIsBehind /\ MarkIsOfZone /\ BuildIsOfMoment /\ QueryIsAnswered

\* A moment of the log stays one; part of its days are part of its days.
LEMMA BuiltStays ==
  ASSUME seen \subseteq seen', NEW sums, NEW day, Built(sums, day)
  PROVE  \E past \in seen' : sums = Summary!Upto(past, day)
BY DEF Built

\* Sums up to a day, cut at an earlier one, are the sums up to that one.
LEMMA BuiltShortened ==
  ASSUME NEW sums, NEW day \in Int, NEW n \in Int, n <= day, Built(sums, day)
  PROVE  Built(Summary!Upto(sums, n), n)
<1>1. PICK past \in seen : sums = Summary!Upto(past, day)
  BY DEF Built
<1>2. SummaryDays \in Nat
  BY PartsAssumption
<1>3. Summary!Upto(sums, n) = Summary!Upto(past, n)
  BY <1>1, <1>2 DEF Summary!Upto
<1> QED BY <1>3 DEF Built

\* A request is recorded, or a day ends.
LEMMA TimeKeeps ==
  ASSUME SummaryInv, Summary!Record \/ Summary!Midnight
  PROVE  SummaryInv'
<1>1. /\ UNCHANGED <<zone, stored, covered, reload, build, query>> /\ seen \subseteq seen'
  BY DEF Summary!Record, Summary!Midnight
<1>2. today' \in 1 .. SummaryDays /\ today <= today' /\ today \in Int
  <2>1. SummaryDays \in Nat /\ today \in 1 .. SummaryDays
    BY PartsAssumption DEF SummaryInv, SummaryTypes
  <2>2. today' = today \/ (today < SummaryDays /\ today' = today + 1)
    BY DEF Summary!Record, Summary!Midnight
  <2> QED BY <2>1, <2>2
<1>3. log' \in Sums /\ log' \in seen' /\ seen' \subseteq Sums
  BY DEF SummaryInv, SummaryTypes, Summary!Record, Summary!Midnight, Sums
<1>4. SummaryTypes'
  <2>1. build # << >> => build.upto \in 1 .. today'
    BY <1>2 DEF SummaryInv, SummaryTypes
  <2> QED BY <1>1, <1>2, <1>3, <2>1 DEF SummaryInv, SummaryTypes
<1>5. MarkIsBehind'
  <2>1. PICK day \in Int : /\ Built(stored.sums, day)
                           /\ covered # << >> => covered.upto <= day
    BY DEF SummaryInv, MarkIsBehind
  <2>2. covered # << >> => /\ covered.upto <= today'
                           /\ build # << >> => covered.upto <= build.upto
    BY <1>2 DEF SummaryInv, MarkIsBehind, SummaryTypes
  <2> QED BY <1>1, <2>1, <2>2, BuiltStays DEF MarkIsBehind, Built
<1>6. MarkIsOfZone'
  BY <1>1 DEF SummaryInv, MarkIsOfZone
<1>7. BuildIsOfMoment'
  BY <1>1, BuiltStays DEF SummaryInv, BuildIsOfMoment, Built
<1>8. QueryIsAnswered'
  BY <1>1, BuiltStays DEF SummaryInv, QueryIsAnswered, Built, Summary!summaryCovers
<1> QED BY <1>4, <1>5, <1>6, <1>7, <1>8 DEF SummaryInv

\* A reload: a new zone, then the end of the old mark.
LEMMA ReloadKeeps ==
  ASSUME SummaryInv, (\E z \in Zones : Summary!Update(z)) \/ Summary!OnTimezoneChanged
  PROVE  SummaryInv'
<1>1. UNCHANGED <<log, today, stored, build, seen>>
  BY DEF Summary!Update, Summary!OnTimezoneChanged
<1>2. CASE \E z \in Zones : Summary!Update(z)
  <2>1. /\ reload' = TRUE /\ covered' = covered
        /\ query' = IF query # << >> THEN [query EXCEPT !.met = TRUE] ELSE query
    BY <1>2 DEF Summary!Update
  <2>2. CASE query = << >>
    <3>1. query' = << >>
      BY <2>1, <2>2
    <3> QED BY <1>1, <2>1, <3>1 DEF SummaryInv, SummaryTypes, MarkIsBehind, MarkIsOfZone, BuildIsOfMoment,
               QueryIsAnswered, Built
  <2>3. CASE query # << >>
    <3>1. query = [at |-> query.at, zone |-> query.zone, upto |-> query.upto, met |-> query.met,
                   cached |-> query.cached, sums |-> query.sums]
      BY <2>3 DEF SummaryInv, SummaryTypes
    <3>2. query' = [query EXCEPT !.met = TRUE]
      BY <2>1, <2>3
    <3>3. query' = [at |-> query.at, zone |-> query.zone, upto |-> query.upto, met |-> TRUE,
                    cached |-> query.cached, sums |-> query.sums]
      BY <3>1, <3>2
    <3>4. /\ query'.at = query.at /\ query'.zone = query.zone /\ query'.upto = query.upto
          /\ query'.met = TRUE /\ query'.cached = query.cached /\ query'.sums = query.sums
      BY <3>3
    <3>5. SummaryTypes'
      BY <1>1, <2>1, <2>3, <3>3, <3>4 DEF SummaryInv, SummaryTypes
    <3> QED BY <1>1, <2>1, <3>4, <3>5 DEF SummaryInv, MarkIsBehind, MarkIsOfZone, BuildIsOfMoment,
               QueryIsAnswered, Built
  <2> QED BY <2>2, <2>3
<1>3. CASE Summary!OnTimezoneChanged
  <2>1. reload /\ reload' = FALSE /\ covered' = << >> /\ query' = query /\ zone' = zone
    BY <1>3 DEF Summary!OnTimezoneChanged, SummaryInv, SummaryTypes
  <2>2. SummaryTypes'
    BY <1>1, <2>1 DEF SummaryInv, SummaryTypes
  <2> QED BY <1>1, <2>1, <2>2 DEF SummaryInv, MarkIsBehind, MarkIsOfZone, BuildIsOfMoment,
             QueryIsAnswered, Built
<1> QED BY <1>2, <1>3

\* A rebuild that begins, fails or ends without a mark.
LEMMA BuildEndsKeeps ==
  ASSUME SummaryInv, Summary!Cleanup \/ Summary!BuildFails \/ (Summary!Checks /\ zone # build.zone)
  PROVE  SummaryInv'
<1>1. /\ UNCHANGED <<zone, log, today, stored, covered, reload, query, seen>>
      /\ build' \in {build, << >>}
  BY DEF Summary!Cleanup, Summary!BuildFails, Summary!Checks
<1>2. SummaryTypes'
  BY <1>1 DEF SummaryInv, SummaryTypes
<1> QED BY <1>1, <1>2 DEF SummaryInv, MarkIsBehind, MarkIsOfZone, BuildIsOfMoment, QueryIsAnswered, Built,
            Summary!summaryCovers

\* A step of a rebuild that leaves rows and mark.
LEMMA BuildGoesOn ==
  ASSUME SummaryInv, UNCHANGED <<zone, log, today, stored, covered, reload, query, seen>>,
         NEW at \in {"aggregate", "commit", "check", "mark"}, NEW z, NEW day \in 1 .. today, NEW sums,
         build' = [at |-> at, zone |-> z, upto |-> day, sums |-> sums],
         covered # << >> => covered.upto <= day,
         ~reload /\ covered # << >> /\ covered.zone = zone => z = zone,
         at = "commit" => Built(sums, day),
         at \in {"check", "mark"} => stored.zone = z /\ Built(stored.sums, day)
  PROVE  SummaryInv'
<1>1. build'.at = at /\ build'.zone = z /\ build'.upto = day /\ build'.sums = sums
  OBVIOUS
<1>2. SummaryTypes'
  BY <1>1 DEF SummaryInv, SummaryTypes
<1>3. MarkIsBehind' /\ MarkIsOfZone'
  BY <1>1 DEF SummaryInv, MarkIsBehind, MarkIsOfZone, Built
<1>4. BuildIsOfMoment'
  BY <1>1 DEF BuildIsOfMoment, Built
<1>5. QueryIsAnswered'
  BY DEF SummaryInv, QueryIsAnswered, Built, Summary!summaryCovers
<1> QED BY <1>2, <1>3, <1>4, <1>5 DEF SummaryInv

\* A rebuild aggregates the log up to its day, in the zone it began with.
LEMMA BuildKeeps ==
  ASSUME SummaryInv,
         Summary!BuildStarts \/ Summary!Aggregates \/ (Summary!Checks /\ zone = build.zone)
  PROVE  SummaryInv'
<1>1. UNCHANGED <<zone, log, today, stored, covered, reload, query, seen>>
  BY DEF Summary!BuildStarts, Summary!Aggregates, Summary!Checks
<1>2. today \in 1 .. today /\ today \in Int
  BY PartsAssumption DEF SummaryInv, SummaryTypes
<1>3. CASE Summary!BuildStarts
  <2>1. build' = [at |-> "aggregate", zone |-> zone, upto |-> today, sums |-> Summary!Nothing]
    BY <1>3 DEF Summary!BuildStarts
  <2>2. covered # << >> => covered.upto <= today
    BY DEF SummaryInv, MarkIsBehind
  <2> QED BY <1>1, <1>2, <2>1, <2>2, BuildGoesOn
<1>4. ASSUME build # << >>
      PROVE  /\ build = [at |-> build.at, zone |-> build.zone, upto |-> build.upto, sums |-> build.sums]
             /\ build.upto \in 1 .. today
             /\ covered # << >> => covered.upto <= build.upto
             /\ ~reload /\ covered # << >> /\ covered.zone = zone => build.zone = zone
  BY <1>4 DEF SummaryInv, SummaryTypes, MarkIsBehind, MarkIsOfZone
<1>5. CASE Summary!Aggregates
  <2> DEFINE sums == Summary!Upto(log, build.upto)
  <2>1. build # << >> /\ build' = [[build EXCEPT !.at = "commit"] EXCEPT !.sums = sums]
    BY <1>5 DEF Summary!Aggregates
  <2>2. Built(sums, build.upto)
    BY DEF SummaryInv, SummaryTypes, Built
  <2> HIDE DEF sums
  <2>3. build' = [at |-> "commit", zone |-> build.zone, upto |-> build.upto, sums |-> sums]
    BY <1>4, <2>1
  <2> QED BY <1>1, <1>4, <2>1, <2>2, <2>3, BuildGoesOn
<1>6. CASE Summary!Checks /\ zone = build.zone
  <2>1. build # << >> /\ build.at = "check" /\ build' = [build EXCEPT !.at = "mark"]
    BY <1>6 DEF Summary!Checks
  <2>2. build' = [at |-> "mark", zone |-> build.zone, upto |-> build.upto, sums |-> build.sums]
    BY <1>4, <2>1
  <2>3. stored.zone = build.zone /\ Built(stored.sums, build.upto)
    BY <2>1 DEF SummaryInv, BuildIsOfMoment
  <2> QED BY <1>1, <1>4, <2>1, <2>2, <2>3, BuildGoesOn
<1> QED BY <1>3, <1>5, <1>6

\* The transaction of a rebuild: its rows reach as far as the mark at least, and a mark
\* of the active zone is of the rebuild's.
LEMMA CommitsKeeps ==
  ASSUME SummaryInv, Summary!Commits
  PROVE  SummaryInv'
<1>1. /\ build # << >> /\ build.at = "commit"
      /\ stored' = [zone |-> build.zone, sums |-> build.sums]
      /\ build' = [build EXCEPT !.at = "check"]
      /\ UNCHANGED <<zone, log, today, covered, reload, query, seen>>
  BY DEF Summary!Commits
<1>2. /\ build = [at |-> build.at, zone |-> build.zone, upto |-> build.upto, sums |-> build.sums]
      /\ build.upto \in 1 .. today /\ today \in Int /\ Built(build.sums, build.upto)
  BY <1>1, PartsAssumption DEF SummaryInv, SummaryTypes, BuildIsOfMoment
<1>3. build' = [at |-> "check", zone |-> build.zone, upto |-> build.upto, sums |-> build.sums]
  BY <1>1, <1>2
<1>4. /\ build'.at = "check" /\ build'.zone = build.zone /\ build'.upto = build.upto
      /\ build'.sums = build.sums /\ stored'.zone = build.zone /\ stored'.sums = build.sums
  BY <1>1, <1>3
<1>5. SummaryTypes'
  BY <1>1, <1>2, <1>3, <1>4 DEF SummaryInv, SummaryTypes
<1>6. Built(stored.sums, build.upto)'
  BY <1>1, <1>2, <1>4 DEF Built
<1>7. MarkIsBehind'
  BY <1>1, <1>2, <1>4, <1>6 DEF SummaryInv, MarkIsBehind
<1>8. MarkIsOfZone'
  BY <1>1, <1>4 DEF SummaryInv, MarkIsOfZone
<1>9. BuildIsOfMoment'
  BY <1>4, <1>6 DEF BuildIsOfMoment
<1>10. QueryIsAnswered'
  BY <1>1 DEF SummaryInv, QueryIsAnswered, Built, Summary!summaryCovers
<1> QED BY <1>5, <1>7, <1>8, <1>9, <1>10 DEF SummaryInv

\* The mark of a rebuild: no query loses what it found covered.
LEMMA MarksKeeps ==
  ASSUME SummaryInv, Summary!Marks
  PROVE  SummaryInv'
<1>1. /\ build # << >> /\ build.at = "mark" /\ build' = << >>
      /\ covered' = [zone |-> build.zone, upto |-> build.upto]
      /\ UNCHANGED <<zone, log, today, stored, reload, query, seen>>
  BY DEF Summary!Marks
<1>2. covered' # << >> /\ covered'.zone = build.zone /\ covered'.upto = build.upto
  BY <1>1
<1>3. /\ build.upto \in 1 .. today /\ today \in Int
      /\ stored.zone = build.zone /\ Built(stored.sums, build.upto)
  BY <1>1, PartsAssumption DEF SummaryInv, SummaryTypes, BuildIsOfMoment
<1>4. SummaryTypes'
  BY <1>1, <1>2, <1>3 DEF SummaryInv, SummaryTypes
<1>5. MarkIsBehind'
  BY <1>1, <1>2, <1>3 DEF MarkIsBehind, Built
<1>6. MarkIsOfZone' /\ BuildIsOfMoment'
  BY <1>1, <1>2, <1>3 DEF MarkIsOfZone, BuildIsOfMoment
<1>7. QueryIsAnswered'
  <2>1. ASSUME NEW day \in Int, ~reload, Summary!summaryCovers(zone, day)
        PROVE  Summary!summaryCovers(zone, day)'
    BY <1>1, <1>2, <1>3, <2>1 DEF SummaryInv, SummaryTypes, MarkIsBehind, MarkIsOfZone, Summary!summaryCovers
  <2>2. query # << >> => query.upto \in Int
    BY DEF SummaryInv, SummaryTypes
  <2> QED BY <1>1, <2>1, <2>2 DEF SummaryInv, QueryIsAnswered, Built
<1> QED BY <1>4, <1>5, <1>6, <1>7 DEF SummaryInv

\* A query step that answers what it may.
LEMMA QueryGoesOn ==
  ASSUME SummaryInv, UNCHANGED <<zone, log, today, stored, covered, reload, build, seen>>,
         SummaryTypes', QueryIsAnswered'
  PROVE  SummaryInv'
BY DEF SummaryInv, MarkIsBehind, MarkIsOfZone, BuildIsOfMoment, Built

\* What a query that has met no reload reads are the sums of one moment.
LEMMA QueryKeeps ==
  ASSUME SummaryInv,
         \/ \E day \in 1 .. SummaryDays : Summary!QueryStarts(day)
         \/ Summary!QueryChecks \/ Summary!QueryReads \/ Summary!QueryEnds
  PROVE  SummaryInv'
<1>1. UNCHANGED <<zone, log, today, stored, covered, reload, build, seen>>
  BY DEF Summary!QueryStarts, Summary!QueryChecks, Summary!QueryReads, Summary!QueryEnds
<1>2. CASE \E day \in 1 .. SummaryDays : Summary!QueryStarts(day)
  <2>1. PICK day \in 1 .. SummaryDays :
          query' = [at |-> "check", zone |-> zone, upto |-> day, met |-> reload, cached |-> FALSE,
                    sums |-> Summary!Nothing]
    BY <1>2 DEF Summary!QueryStarts
  <2>2. /\ query'.at = "check" /\ query'.zone = zone /\ query'.upto = day /\ query'.met = reload
        /\ query'.cached = FALSE /\ query'.sums = Summary!Nothing
    BY <2>1
  <2>3. SummaryTypes'
    BY <1>1, <2>1, <2>2 DEF SummaryInv, SummaryTypes
  <2>4. QueryIsAnswered'
    BY <1>1, <2>2 DEF QueryIsAnswered
  <2> QED BY <1>1, <2>3, <2>4, QueryGoesOn
<1>3. ASSUME query # << >>
      PROVE  /\ query = [at |-> query.at, zone |-> query.zone, upto |-> query.upto, met |-> query.met,
                         cached |-> query.cached, sums |-> query.sums]
             /\ query.upto \in 1 .. SummaryDays /\ query.met \in BOOLEAN /\ query.cached \in BOOLEAN
  BY <1>3 DEF SummaryInv, SummaryTypes
<1>4. CASE Summary!QueryChecks
  <2> DEFINE found == Summary!summaryCovers(query.zone, query.upto)
  <2>1. query # << >> /\ query' = [[query EXCEPT !.at = "read"] EXCEPT !.cached = found]
    BY <1>4 DEF Summary!QueryChecks
  <2>2. found \in BOOLEAN
    BY DEF Summary!summaryCovers
  <2>3. found <=> Summary!summaryCovers(query.zone, query.upto)
    OBVIOUS
  <2> HIDE DEF found
  <2>4. query' = [at |-> "read", zone |-> query.zone, upto |-> query.upto, met |-> query.met,
                  cached |-> found, sums |-> query.sums]
    BY <1>3, <2>1
  <2>5. /\ query'.at = "read" /\ query'.zone = query.zone /\ query'.upto = query.upto
        /\ query'.met = query.met /\ query'.cached = found /\ query'.sums = query.sums
    BY <2>4
  <2>6. SummaryTypes'
    BY <1>1, <1>3, <2>1, <2>2, <2>4, <2>5 DEF SummaryInv, SummaryTypes
  <2>7. QueryIsAnswered'
    BY <1>1, <2>1, <2>3, <2>5 DEF SummaryInv, QueryIsAnswered, Summary!summaryCovers
  <2> QED BY <1>1, <2>6, <2>7, QueryGoesOn
<1>5. CASE Summary!QueryReads
  <2> DEFINE read == IF ~query.cached THEN Summary!Upto(log, query.upto)
                     ELSE IF stored.zone = query.zone THEN Summary!Upto(stored.sums, query.upto)
                     ELSE Summary!Nothing
  <2>1. query # << >> /\ query.at = "read" /\ query' = [[query EXCEPT !.at = "answered"] EXCEPT !.sums = read]
    BY <1>5 DEF Summary!QueryReads
  <2>2. ASSUME ~query.met
        PROVE  Built(read, query.upto)
    <3>1. CASE ~query.cached
      BY <3>1 DEF SummaryInv, SummaryTypes, Built
    <3>2. CASE query.cached
      <4>1. /\ ~reload /\ query.zone = zone /\ covered # << >> /\ covered.zone = zone
            /\ query.upto <= covered.upto /\ covered.upto \in Int /\ query.upto \in Int
        BY <1>3, <2>1, <2>2, <3>2 DEF SummaryInv, SummaryTypes, QueryIsAnswered, Summary!summaryCovers
      <4>2. stored.zone = query.zone
        BY <4>1 DEF SummaryInv, MarkIsOfZone
      <4>3. PICK day \in Int : Built(stored.sums, day) /\ covered.upto <= day
        BY <4>1 DEF SummaryInv, MarkIsBehind
      <4>4. query.upto <= day
        BY <4>1, <4>3
      <4>5. Built(Summary!Upto(stored.sums, query.upto), query.upto)
        BY <4>1, <4>3, <4>4, BuiltShortened
      <4> QED BY <3>2, <4>2, <4>5
    <3> QED BY <3>1, <3>2
  <2> HIDE DEF read
  <2>3. query' = [at |-> "answered", zone |-> query.zone, upto |-> query.upto, met |-> query.met,
                  cached |-> query.cached, sums |-> read]
    BY <1>3, <2>1
  <2>4. /\ query'.at = "answered" /\ query'.zone = query.zone /\ query'.upto = query.upto
        /\ query'.met = query.met /\ query'.cached = query.cached /\ query'.sums = read
    BY <2>3
  <2>5. SummaryTypes'
    BY <1>1, <1>3, <2>1, <2>3, <2>4 DEF SummaryInv, SummaryTypes
  <2>6. QueryIsAnswered'
    BY <1>1, <2>1, <2>2, <2>4 DEF SummaryInv, QueryIsAnswered, Built, Summary!summaryCovers
  <2> QED BY <1>1, <2>5, <2>6, QueryGoesOn
<1>6. CASE Summary!QueryEnds
  <2>1. query' = << >>
    BY <1>6 DEF Summary!QueryEnds
  <2>2. SummaryTypes' /\ QueryIsAnswered'
    BY <1>1, <2>1 DEF SummaryInv, SummaryTypes, QueryIsAnswered
  <2> QED BY <1>1, <2>2, QueryGoesOn
<1> QED BY <1>2, <1>4, <1>5, <1>6

\* The tracker has built the summary before anything else runs.
LEMMA SummaryInitial == Summary!Init => SummaryInv
<1> SUFFICES ASSUME Summary!Init
             PROVE  SummaryInv
  OBVIOUS
<1>1. /\ zone = Initial /\ log = Summary!Nothing /\ today = 1 /\ seen = {log}
      /\ stored = [zone |-> Initial, sums |-> Summary!Nothing] /\ covered = [zone |-> Initial, upto |-> 1]
      /\ reload = FALSE /\ build = << >> /\ query = << >>
  BY DEF Summary!Init
<1>2. covered.upto = 1 /\ stored.zone = Initial /\ stored.sums = Summary!Nothing /\ 1 \in 1 .. SummaryDays
  BY <1>1, PartsAssumption
<1>3. Summary!Nothing \in Sums /\ Summary!Upto(Summary!Nothing, 1) = Summary!Nothing
  BY DEF Sums, Summary!Nothing, Summary!Upto
<1>4. Built(stored.sums, 1)
  BY <1>1, <1>2, <1>3 DEF Built
<1>5. SummaryTypes
  <2>1. today \in 1 .. SummaryDays /\ log \in Sums /\ log \in seen /\ seen \subseteq Sums
    BY <1>1, <1>2, <1>3
  <2>2. reload \in BOOLEAN
    BY <1>1
  <2>3. covered.upto \in Int
    BY <1>2
  <2> QED BY <1>1, <2>1, <2>2, <2>3 DEF SummaryTypes
<1>6. MarkIsBehind
  BY <1>1, <1>2, <1>4 DEF MarkIsBehind
<1> QED BY <1>1, <1>2, <1>5, <1>6 DEF SummaryInv, MarkIsOfZone, BuildIsOfMoment, QueryIsAnswered

\* Every step leaves the invariant.
LEMMA SummaryStep == SummaryInv /\ [Summary!Next]_summaryVars => SummaryInv'
<1> SUFFICES ASSUME SummaryInv, [Summary!Next]_summaryVars
             PROVE  SummaryInv'
  OBVIOUS
<1>1. CASE UNCHANGED summaryVars
  BY <1>1 DEF summaryVars, SummaryInv, SummaryTypes, MarkIsBehind, MarkIsOfZone, BuildIsOfMoment,
     QueryIsAnswered, Built, Summary!summaryCovers
<1> QED BY <1>1, TimeKeeps, ReloadKeeps, BuildEndsKeeps, BuildKeeps, CommitsKeeps, MarksKeeps, QueryKeeps
        DEF Summary!Next

\* What the specification with all its parts does to the variables of the summary.
LEMMA SummaryParts ==
  /\ MCInit => Summary!Init
  /\ [MCNext]_allVars => [Summary!Next]_summaryVars
BY DEF MCInit, MCNext, allVars, summaryVars

\* For any zones, days, reloads and rebuilds: an answer of the summary that no reload
\* met counts the requests of one moment, and cached rows are of the query's own zone
\* (rebuildRecentUsageSummary, QueryUsageSummary).
THEOREM CoveredStands == MCSpec => []CoveredIsBuilt
<1>1. MCSpec => []SummaryInv
  BY SummaryParts, SummaryInitial, SummaryStep, PTL DEF MCSpec
<1>2. SummaryInv => CoveredIsBuilt
  <2> SUFFICES ASSUME SummaryInv, query # << >>, query.at = "answered", ~query.met
               PROVE  /\ query.cached => stored.zone = query.zone
                      /\ \E past \in seen : query.sums = Summary!Upto(past, query.upto)
    BY DEF CoveredIsBuilt, Summary!CoveredIsBuilt
  <2> QED BY DEF SummaryInv, QueryIsAnswered, MarkIsOfZone, Built, Summary!summaryCovers
<1> QED BY <1>1, <1>2, PTL

-----------------------------------------------------------------------------
(* Costs, and the prices behind them.                                       *)

\* Both copies of prices and rates were in force at some time.
CostInv ==
  /\ Costs!CostOfItsTokens
  /\ prices \in seenPrices /\ archPrices \in seenPrices
  /\ rates \in seenRates /\ archRates \in seenRates

\* The first copies are in force.
LEMMA CostInitial == Costs!Init => CostInv
BY DEF Costs!Init, CostInv, Costs!CostOfItsTokens

\* What was in force stays among what has been.
LEMMA PricesChangeKeeps ==
  ASSUME CostInv,
         \/ \E t \in Tables : Costs!NewPrices(t)
         \/ \E t \in RateTables : Costs!NewRates(t)
         \/ Costs!ReachArchiver
  PROVE  CostInv'
<1>1. /\ UNCHANGED <<costRow, shown, own, via, included>>
      /\ seenPrices \subseteq seenPrices' /\ seenRates \subseteq seenRates'
  BY DEF Costs!NewPrices, Costs!NewRates, Costs!ReachArchiver
<1>2. /\ prices' \in seenPrices' /\ archPrices' \in seenPrices'
      /\ rates' \in seenRates' /\ archRates' \in seenRates'
  BY DEF CostInv, Costs!NewPrices, Costs!NewRates, Costs!ReachArchiver
<1>3. Costs!CostOfItsTokens'
  BY <1>1 DEF CostInv, Costs!CostOfItsTokens
<1> QED BY <1>2, <1>3 DEF CostInv

\* Every place that writes a cost takes prices and rates that were in force.
LEMMA CostStepKeeps == CostInv /\ [Costs!Next]_costVars => CostInv'
<1> SUFFICES ASSUME CostInv, [Costs!Next]_costVars
             PROVE  CostInv'
  OBVIOUS
<1>1. CASE UNCHANGED costVars
  BY <1>1 DEF costVars, CostInv, Costs!CostOfItsTokens
<1>2. CASE \E u \in Usages, m \in Models : Costs!Report(u, m)
  BY <1>2 DEF Costs!Report, CostInv, Costs!CostOfItsTokens
<1>3. CASE Costs!Archive
  <2> DEFINE new == [model |-> entry.model, usage |-> entry.usage,
                     cost |-> Costs!Calculated(archPrices, archRates, entry)]
  <2>1. /\ costRow' = new
        /\ UNCHANGED <<prices, rates, archPrices, archRates, via, included, own, shown, seenPrices, seenRates>>
    BY <1>3 DEF Costs!Archive
  <2>2. /\ new.model = entry.model /\ new.usage = entry.usage
        /\ own # 0 => new.cost = own
        /\ own = 0 => new.cost = Costs!CostV2(new.usage, Costs!PriceOf(archPrices, new.model),
                                              Costs!RateOf(archRates, via), included)
    BY DEF Costs!Calculated
  <2> HIDE DEF new
  <2> QED BY <2>1, <2>2 DEF CostInv, Costs!CostOfItsTokens
<1>4. CASE Costs!WriteLate
  <2> DEFINE new == Costs!Updated(late[1])
  <2>1. /\ costRow' = new
        /\ UNCHANGED <<prices, rates, archPrices, archRates, via, included, own, shown, seenPrices, seenRates>>
    BY <1>4 DEF Costs!WriteLate
  <2>2. new.cost = Costs!CostV2(new.usage, Costs!GetPricing(prices, new.model), Costs!NoRate, included)
    BY DEF Costs!Updated
  <2> HIDE DEF new
  <2> QED BY <2>1, <2>2 DEF CostInv, Costs!CostOfItsTokens
<1>5. CASE Costs!Show
  <2> DEFINE new == [model |-> entry.model, usage |-> entry.usage,
                     cost |-> Costs!Calculated(prices, rates, entry)]
  <2>1. /\ shown' = new
        /\ UNCHANGED <<prices, rates, archPrices, archRates, via, included, own, costRow, seenPrices, seenRates>>
    BY <1>5 DEF Costs!Show
  <2>2. /\ new.model = entry.model /\ new.usage = entry.usage
        /\ own # 0 => new.cost = own
        /\ own = 0 => new.cost = Costs!CostV2(new.usage, Costs!PriceOf(prices, new.model),
                                              Costs!RateOf(rates, via), included)
    BY DEF Costs!Calculated
  <2> HIDE DEF new
  <2> QED BY <2>1, <2>2 DEF CostInv, Costs!CostOfItsTokens
<1> QED BY <1>1, <1>2, <1>3, <1>4, <1>5, PricesChangeKeeps DEF Costs!Next

\* Rows that are records, at most one of them the default.
PriceRowsFine(f) ==
  /\ f = [m \in DOMAIN f |-> f[m]]
  /\ \A m \in DOMAIN f : f[m] = [price |-> f[m].price, default |-> f[m].default] /\ f[m].default \in BOOLEAN
  /\ \A m, n \in Pricing!Defaults(f) : m = n

\* A call has records to write; once it has cleared the mark, no other row has it.
PriceCall ==
  call # << >> =>
    /\ call = [what |-> call.what, name |-> call.name, record |-> call.record]
    /\ call.what \in {"create", "update", "create, clearing", "update, clearing"}
    /\ call.record = [price |-> call.record.price, default |-> call.record.default]
    /\ call.record.default \in BOOLEAN
    /\ ~Pricing!Clearing /\ call.record.default => Pricing!Defaults(priceRows) \subseteq {call.name}

CacheFollows == \A m \in DOMAIN cache : m \in DOMAIN priceRows /\ cache[m].price = priceRows[m].price

PricingInv == PriceRowsFine(priceRows) /\ PriceCall /\ CacheFollows

\* A start adds rows without the mark, unless there was none at all.
LEMMA StartedFine ==
  /\ PriceRowsFine(Pricing!Started(Pricing!Empty))
  /\ \A f : PriceRowsFine(f) => PriceRowsFine(Pricing!Started(f))
<1>1. \A p, d : Pricing!Record(p, d).price = p /\ Pricing!Record(p, d).default = d
  BY DEF Pricing!Record
<1>2. PriceRowsFine(Pricing!Official)
  BY <1>1 DEF PriceRowsFine, Pricing!Official, Pricing!Record, Pricing!Defaults
<1>3. ASSUME NEW f, PriceRowsFine(Pricing!Seeded(f))
      PROVE  PriceRowsFine(Pricing!Started(f))
  <2> DEFINE s == Pricing!Seeded(f)
             g == Pricing!Started(f)
  <2>1. g = [m \in DOMAIN s \cup Ensured |-> IF m \in DOMAIN s THEN s[m] ELSE Pricing!Record(EnsuredPrice, FALSE)]
    BY DEF Pricing!Started
  <2>2. PriceRowsFine(s)
    BY <1>3
  <2> HIDE DEF s, g
  <2>3. /\ g = [m \in DOMAIN g |-> g[m]]
        /\ \A m \in DOMAIN g : \/ m \in DOMAIN s /\ g[m] = s[m]
                               \/ g[m] = [price |-> EnsuredPrice, default |-> FALSE]
    BY <2>1 DEF Pricing!Record
  <2>4. ASSUME NEW m \in DOMAIN g
        PROVE  /\ g[m] = [price |-> g[m].price, default |-> g[m].default] /\ g[m].default \in BOOLEAN
               /\ g[m].default => m \in Pricing!Defaults(s)
    <3>1. CASE m \in DOMAIN s /\ g[m] = s[m]
      BY <2>2, <3>1 DEF PriceRowsFine, Pricing!Defaults
    <3>2. CASE g[m] = [price |-> EnsuredPrice, default |-> FALSE]
      BY <3>2
    <3> QED BY <2>3, <3>1, <3>2
  <2>5. \A m, n \in Pricing!Defaults(g) : m = n
    BY <2>2, <2>4 DEF PriceRowsFine, Pricing!Defaults
  <2>6. PriceRowsFine(g)
    BY <2>3, <2>4, <2>5 DEF PriceRowsFine
  <2> QED BY <2>6 DEF g
<1>4. DOMAIN Pricing!Empty = {}
  BY DEF Pricing!Empty
<1>5. PriceRowsFine(Pricing!Seeded(Pricing!Empty))
  BY <1>2, <1>4 DEF Pricing!Seeded
<1>6. \A f : PriceRowsFine(f) => PriceRowsFine(Pricing!Seeded(f))
  BY <1>2 DEF Pricing!Seeded
<1> QED BY <1>3, <1>5, <1>6

\* The first start.
LEMMA PricingInitial == Pricing!Init => PricingInv
BY StartedFine DEF Pricing!Init, PricingInv, PriceCall, CacheFollows

\* A restart reads what is stored.
LEMMA PricingRestartKeeps ==
  ASSUME PricingInv, Pricing!Restart
  PROVE  PricingInv'
<1>1. priceRows' = Pricing!Started(priceRows) /\ cache' = priceRows' /\ call' = << >>
  BY DEF Pricing!Restart
<1>2. PriceRowsFine(priceRows')
  BY <1>1, StartedFine DEF PricingInv
<1> QED BY <1>1, <1>2 DEF PricingInv, PriceCall, CacheFollows

\* A call begins: it clears the marks, or it needs not.
LEMMA CallBeginsKeeps ==
  ASSUME PricingInv, NEW m, NEW p, NEW d \in BOOLEAN,
         Pricing!CreatePricing(m, p, d) \/ Pricing!UpdatePricing(m, p, d)
  PROVE  PricingInv'
<1>1. PICK what \in {"create", "update", "create, clearing", "update, clearing"} :
        /\ call' = [what |-> what, name |-> m, record |-> [price |-> p, default |-> d]]
        /\ UNCHANGED <<priceRows, cache>>
        /\ what \in {"create", "update"} /\ d =>
             what = "update" /\ m \in DOMAIN priceRows /\ priceRows[m].default
  BY DEF Pricing!CreatePricing, Pricing!UpdatePricing, Pricing!Begins, Pricing!Pending, Pricing!Record
<1>2. /\ call'.what = what /\ call'.name = m /\ call'.record = [price |-> p, default |-> d]
      /\ call'.record.price = p /\ call'.record.default = d
  BY <1>1
<1>3. what \in {"create", "update"} /\ d => Pricing!Defaults(priceRows) \subseteq {m}
  BY <1>1 DEF PricingInv, PriceRowsFine, Pricing!Defaults
<1>4. PriceCall'
  BY <1>1, <1>2, <1>3 DEF PriceCall, Pricing!Clearing
<1> QED BY <1>1, <1>4 DEF PricingInv, CacheFollows

\* A mark is cleared, or there is none left.
LEMMA ClearKeeps ==
  ASSUME PricingInv, Pricing!clearDefaultFlag
  PROVE  PricingInv'
<1>1. /\ call # << >> /\ call = [what |-> call.what, name |-> call.name, record |-> call.record]
      /\ call.record = [price |-> call.record.price, default |-> call.record.default]
      /\ call.record.default \in BOOLEAN /\ UNCHANGED cache
      /\ call.what \in {"create, clearing", "update, clearing"}
  BY DEF Pricing!clearDefaultFlag, Pricing!Clearing, PricingInv, PriceCall
<1>2. CASE Pricing!Defaults(priceRows) = {}
  <2> DEFINE next == IF call.what = "create, clearing" THEN "create" ELSE "update"
  <2>1. priceRows' = priceRows /\ call' = [call EXCEPT !.what = next]
    BY <1>2 DEF Pricing!clearDefaultFlag
  <2>2. next \in {"create", "update"}
    OBVIOUS
  <2> HIDE DEF next
  <2>3. call' = [what |-> next, name |-> call.name, record |-> call.record]
    BY <1>1, <2>1
  <2>4. call'.what = next /\ call'.name = call.name /\ call'.record = call.record
    BY <2>3
  <2>5. PriceCall'
    BY <1>1, <1>2, <2>1, <2>2, <2>3, <2>4 DEF PriceCall
  <2> QED BY <1>1, <2>1, <2>5 DEF PricingInv, CacheFollows
<1>3. CASE Pricing!Defaults(priceRows) # {}
  <2>1. PICK m \in Pricing!Defaults(priceRows) :
          priceRows' = [priceRows EXCEPT ![m].default = FALSE] /\ call' = call
    BY <1>3 DEF Pricing!clearDefaultFlag
  <2>2. m \in DOMAIN priceRows /\ PriceRowsFine(priceRows)
    BY DEF Pricing!Defaults, PricingInv
  <2>3. /\ priceRows' = [x \in DOMAIN priceRows |-> priceRows'[x]] /\ DOMAIN priceRows' = DOMAIN priceRows
        /\ \A x \in DOMAIN priceRows \ {m} : priceRows'[x] = priceRows[x]
        /\ priceRows'[m] = [priceRows[m] EXCEPT !.default = FALSE]
    BY <2>1, <2>2 DEF PriceRowsFine
  <2> DEFINE old == priceRows[m]
  <2>4. old = [price |-> old.price, default |-> old.default] /\ priceRows'[m] = [old EXCEPT !.default = FALSE]
    BY <2>2, <2>3 DEF PriceRowsFine
  <2>5. old.price = priceRows[m].price
    OBVIOUS
  <2> HIDE DEF old
  <2>6. priceRows'[m] = [price |-> old.price, default |-> FALSE]
    BY <2>4
  <2>7. priceRows'[m].price = priceRows[m].price /\ priceRows'[m].default = FALSE
    BY <2>5, <2>6
  <2>8. Pricing!Defaults(priceRows') \subseteq Pricing!Defaults(priceRows)
    BY <2>3, <2>7 DEF Pricing!Defaults
  <2>9. PriceRowsFine(priceRows')
    BY <2>2, <2>3, <2>6, <2>7, <2>8 DEF PriceRowsFine
  <2>10. PriceCall'
    BY <1>1, <2>1, <2>8 DEF PriceCall, Pricing!Clearing
  <2>11. CacheFollows'
    BY <1>1, <2>3, <2>7 DEF PricingInv, CacheFollows
  <2> QED BY <2>9, <2>10, <2>11 DEF PricingInv
<1> QED BY <1>2, <1>3

\* The write and the cache behind it.
LEMMA PriceWriteKeeps ==
  ASSUME PricingInv, Pricing!Write
  PROVE  PricingInv'
<1>1. /\ call # << >> /\ ~Pricing!Clearing /\ call' = << >>
      /\ priceRows' = Pricing!With(priceRows, call.name, call.record)
      /\ cache' = Pricing!With(cache, call.name, call.record)
  BY DEF Pricing!Write, Pricing!updateCache
<1>2. /\ priceRows' = [x \in DOMAIN priceRows \cup {call.name} |-> IF x = call.name THEN call.record ELSE priceRows[x]]
      /\ cache' = [x \in DOMAIN cache \cup {call.name} |-> IF x = call.name THEN call.record ELSE cache[x]]
  BY <1>1 DEF Pricing!With
<1>3. /\ call.record = [price |-> call.record.price, default |-> call.record.default]
      /\ call.record.default \in BOOLEAN
      /\ call.record.default => Pricing!Defaults(priceRows) \subseteq {call.name}
  BY <1>1 DEF PricingInv, PriceCall
<1>4. \A m, n \in Pricing!Defaults(priceRows') : m = n
  BY <1>2, <1>3 DEF PricingInv, PriceRowsFine, Pricing!Defaults
<1>5. PriceRowsFine(priceRows')
  BY <1>2, <1>3, <1>4 DEF PricingInv, PriceRowsFine
<1>6. CacheFollows'
  BY <1>2 DEF PricingInv, CacheFollows
<1> QED BY <1>1, <1>5, <1>6 DEF PricingInv, PriceCall

\* Calls of one write, reads, and the end of a call that fails.
LEMMA OneWriteKeeps ==
  ASSUME PricingInv,
         \/ Pricing!Fails \/ Pricing!GetDefaultPricing
         \/ \E m \in PricedModels : Pricing!DeletePricing(m) \/ Pricing!SetDefaultPricing(m) \/ Pricing!GetPricing(m)
  PROVE  PricingInv'
<1>1. CASE Pricing!Fails
  BY <1>1 DEF Pricing!Fails, PricingInv, PriceCall, CacheFollows
<1>2. CASE Pricing!GetDefaultPricing
  BY <1>2 DEF Pricing!GetDefaultPricing, PricingInv, PriceCall, CacheFollows
<1>3. ASSUME NEW m \in PricedModels, Pricing!DeletePricing(m)
      PROVE  PricingInv'
  <2>1. /\ priceRows' = [x \in DOMAIN priceRows \ {m} |-> priceRows[x]]
        /\ cache' = [x \in DOMAIN cache \ {m} |-> cache[x]] /\ call' = << >>
    BY <1>3 DEF Pricing!DeletePricing, Pricing!Without
  <2>2. PriceRowsFine(priceRows')
    BY <2>1 DEF PricingInv, PriceRowsFine, Pricing!Defaults
  <2> QED BY <2>1, <2>2 DEF PricingInv, PriceCall, CacheFollows
<1>4. ASSUME NEW m \in PricedModels, Pricing!SetDefaultPricing(m)
      PROVE  PricingInv'
  <2>1. /\ priceRows' = [x \in DOMAIN priceRows |-> [price |-> priceRows[x].price, default |-> x = m]]
        /\ DOMAIN cache' = {} /\ call' = << >>
    BY <1>4 DEF Pricing!SetDefaultPricing, Pricing!clearCache, Pricing!Record, Pricing!Empty
  <2>2. \A x \in DOMAIN priceRows' : /\ priceRows'[x] = [price |-> priceRows'[x].price, default |-> priceRows'[x].default]
                                     /\ priceRows'[x].default \in BOOLEAN /\ (priceRows'[x].default => x = m)
    BY <2>1
  <2>3. priceRows' = [x \in DOMAIN priceRows' |-> priceRows'[x]]
    BY <2>1
  <2>4. PriceRowsFine(priceRows')
    BY <2>2, <2>3 DEF PriceRowsFine, Pricing!Defaults
  <2> QED BY <2>1, <2>4 DEF PricingInv, PriceCall, CacheFollows
<1>5. ASSUME NEW m \in PricedModels, Pricing!GetPricing(m)
      PROVE  PricingInv'
  <2>1. /\ cache' = [x \in DOMAIN cache \cup {m} |-> IF x = m THEN priceRows[m] ELSE cache[x]]
        /\ m \in DOMAIN priceRows /\ call' = call /\ call = << >> /\ priceRows' = priceRows
    BY <1>5 DEF Pricing!GetPricing, Pricing!updateCache, Pricing!With
  <2> QED BY <2>1 DEF PricingInv, PriceCall, CacheFollows
<1> QED BY <1>1, <1>2, <1>3, <1>4, <1>5

\* Every step leaves the invariant.
LEMMA PricingStepKeeps == PricingInv /\ [Pricing!Next]_pricingVars => PricingInv'
<1> SUFFICES ASSUME PricingInv, [Pricing!Next]_pricingVars
             PROVE  PricingInv'
  OBVIOUS
<1>1. CASE UNCHANGED pricingVars
  BY <1>1 DEF pricingVars, PricingInv, PriceCall, CacheFollows, Pricing!Clearing
<1>2. ASSUME NEW m \in PricedModels, NEW p \in Prices, NEW d \in BOOLEAN,
             Pricing!CreatePricing(m, p, d) \/ Pricing!UpdatePricing(m, p, d)
      PROVE  PricingInv'
  BY <1>2, CallBeginsKeeps
<1> QED BY <1>1, <1>2, ClearKeeps, PriceWriteKeeps, OneWriteKeeps, PricingRestartKeeps DEF Pricing!Next

\* What the specification with all its parts does to the variables of either.
LEMMA CostParts ==
  /\ MCInit => Costs!Init /\ Pricing!Init
  /\ [MCNext]_allVars => [Costs!Next]_costVars /\ [Pricing!Next]_pricingVars
BY DEF MCInit, MCNext, allVars, costVars, pricingVars

\* For any prices, rates, models and calls: what is stored or shown as the cost of a
\* request is what its tokens cost at prices and rates that were in force, and between
\* calls the cached prices are the stored ones, with one default at most
\* (insertRequestEventLocked, buildWriteQuery, ActiveRequestToDetail; ModelPricingService).
THEOREM CostsStand == MCSpec => []CostsAreRight
<1>1. MCSpec => [](CostInv /\ PricingInv)
  BY CostParts, CostInitial, PricingInitial, CostStepKeeps, PricingStepKeeps, PTL DEF MCSpec
<1>2. CostInv /\ PricingInv => CostsAreRight
  BY DEF CostInv, PricingInv, PriceRowsFine, CacheFollows, CostsAreRight, Pricing!PricesAgree
<1> QED BY <1>1, <1>2, PTL

-----------------------------------------------------------------------------
(* Dates: the moments the range of a day holds.                             *)

\* Clocks that change once, by an hour at most, with offsets among those tried.
Zoning == {z \in [before : Int, after : Int, at : Int] :
             {z.before, z.after} \subseteq 0 - Window .. Window /\ z.after - z.before \in 0 - 1 .. 1}

\* A clock never goes back by more than the hour that passes meanwhile: a later
\* moment shows no earlier time.
LEMMA LaterShowsLater ==
  ASSUME NEW z \in Zoning, NEW t \in Int, NEW u \in Int, t <= u
  PROVE  Days!Local(z, t) <= Days!Local(z, u) /\ Days!Local(z, t) \in Int
BY DEF Zoning, Days!Local, Days!Offset

\* The candidates are the moments that show the time.
LEMMA CandidatesShow ==
  ASSUME NEW z \in Zoning, NEW wall \in Int, NEW t \in Int
  PROVE  t \in Days!Candidates(z, wall) <=> Days!Local(z, t) = wall
<1>1. t \in Days!Candidates(z, wall) <=>
        \E p \in Days!candidateOffsets(z, wall) : Days!Local(z, wall - p) = wall /\ t = wall - p
  BY DEF Days!Candidates
<1>2. \A p \in Days!candidateOffsets(z, wall) : p \in Int
  BY DEF Zoning, Days!candidateOffsets, Days!Offset
<1>3. Days!Local(z, t) = wall => Days!Offset(z, t) \in Days!candidateOffsets(z, wall)
  <2> DEFINE h == 0 - Days!Offset(z, t)
  <2> HAVE Days!Local(z, t) = wall
  <2>1. h \in 0 - Window .. Window /\ wall + h = t
    BY PartsAssumption DEF Zoning, Days!Local, Days!Offset
  <2>2. Days!Offset(z, t) = Days!Offset(z, wall + h)
    BY <2>1
  <2> HIDE DEF h
  <2> QED
    BY <2>1, <2>2, Zenon DEF Days!candidateOffsets
<1>4. Days!Local(z, t) = wall => t = wall - Days!Offset(z, t)
  BY DEF Zoning, Days!Local, Days!Offset
<1> QED
  BY <1>1, <1>3, <1>4

\* The date of a time is the number of whole days up to it.
LEMMA DivisionCounts ==
  ASSUME NEW x \in Int, NEW n \in Int, n > 0, NEW d \in Int
  PROVE  d * n <= x /\ x < (d + 1) * n <=> x \div n = d
<1> DEFINE q == x \div n
<1>1. q \in Int /\ q * n <= x /\ x < q * n + n
  OBVIOUS
<1> HIDE DEF q
<1>2. \A e \in Int : e < q => e * n + n <= q * n
  <2> TAKE e \in Int
  <2> HAVE e < q
  <2>1. (q - e - 1) * n >= 0
    BY <1>1
  <2> QED
    BY <1>1, <2>1
<1>3. \A e \in Int : q < e => q * n + n <= e * n
  <2> TAKE e \in Int
  <2> HAVE q < e
  <2>1. (e - q - 1) * n >= 0
    BY <1>1
  <2> QED
    BY <1>1, <2>1
<1> QED
  BY <1>1, <1>2, <1>3 DEF q

\* A day starts at the first moment that shows its midnight, so what comes from it
\* on is what shows midnight or later.
LEMMA StartOfDay ==
  ASSUME NEW z \in Zoning, NEW wall \in Int, Days!Exists(z, wall), NEW t \in Int
  PROVE  /\ Days!resolveWallTime(z, wall) \in Int
         /\ Days!resolveWallTime(z, wall) <= t <=> wall <= Days!Local(z, t)
<1> DEFINE C == Days!Candidates(z, wall)
           s == Days!resolveWallTime(z, wall)
<1>1. C # {} /\ \A u \in C : u \in Int
  BY DEF Days!Exists, Days!Candidates, Days!candidateOffsets, Days!Offset, Zoning
<1>2. \A u \in C : u = wall - z.before \/ u = wall - z.after
  BY DEF Days!Candidates, Days!candidateOffsets, Days!Offset, Zoning
<1>3. \E u \in C : \A v \in C : u <= v
  <2> HIDE DEF C
  <2>1. PICK u \in C : TRUE
    BY <1>1
  <2>2. wall - z.before \in Int /\ wall - z.after \in Int
    BY DEF Zoning
  <2>3. CASE wall - z.before \in C /\ wall - z.after \in C
    BY <1>2, <2>2, <2>3
  <2>4. CASE ~(wall - z.before \in C /\ wall - z.after \in C)
    BY <1>2, <2>1, <2>2, <2>4
  <2> QED
    BY <2>3, <2>4
<1>4. s \in C /\ \A v \in C : s <= v
  <2>1. s = CHOOSE u \in C : \A v \in C : u <= v
    BY Zenon DEF Days!resolveWallTime, Days!Min
  <2> HIDE DEF s, C
  <2> QED
    BY <1>3, <2>1
<1> HIDE DEF s
<1>5. s \in Int /\ Days!Local(z, s) = wall
  BY <1>1, <1>4, CandidatesShow
<1>6. t \in C <=> Days!Local(z, t) = wall
  BY CandidatesShow
<1> HIDE DEF C
<1>7. s <= t => wall <= Days!Local(z, t)
  BY <1>5, LaterShowsLater
<1>8. t < s => Days!Local(z, t) < wall
  <2> HAVE t < s
  <2>1. Days!Local(z, t) <= Days!Local(z, s) /\ Days!Local(z, t) \in Int
    BY <1>5, LaterShowsLater
  <2>2. t \notin C
    BY <1>4, <1>5
  <2> QED
    BY <1>5, <1>6, <2>1, <2>2
<1>9. Days!Local(z, t) \in Int
  BY LaterShowsLater
<1> QED
  BY <1>5, <1>7, <1>8, <1>9 DEF s

\* Whatever the offsets of a zone and whenever its clock changes by an hour: the range
\* of a date holds the moments of that date, and no other (policy.go).
THEOREM DatesHoldTheirMoments ==
  ASSUME NEW z \in Zoning
  PROVE  Days!DayHoldsItsMoments(z)
<1> SUFFICES ASSUME NEW d \in 0 .. LastDay, Days!HasRange(z, d), NEW t \in Days!Moments
             PROVE  Days!InDay(z, d, t) <=> Days!BusinessDate(z, t) = d
  BY DEF Days!DayHoldsItsMoments
<1>1. t \in Int /\ Days!Local(z, t) \in Int
  BY LaterShowsLater DEF Days!Moments
<1>2. /\ DayLength \in Int /\ DayLength > 0 /\ d \in Int
      /\ d * DayLength \in Int /\ (d + 1) * DayLength = d * DayLength + DayLength
  BY PartsAssumption
<1>3. Days!DayStart(z, d) \in Int /\ (Days!DayStart(z, d) <= t <=> d * DayLength <= Days!Local(z, t))
  BY <1>1, <1>2, StartOfDay DEF Days!HasRange, Days!DayStart
<1>4. /\ Days!DayEnd(z, d) \in Int
      /\ Days!DayEnd(z, d) <= t <=> (d + 1) * DayLength <= Days!Local(z, t)
  <2>1. (d + 1) * DayLength \in Int
    BY <1>2
  <2> QED
    BY <1>1, <2>1, StartOfDay DEF Days!HasRange, Days!DayEnd
<1>5. d * DayLength <= Days!Local(z, t) /\ Days!Local(z, t) < (d + 1) * DayLength
        <=> Days!Local(z, t) \div DayLength = d
  BY <1>1, <1>2, DivisionCounts
<1> QED
  BY <1>1, <1>2, <1>3, <1>4, <1>5 DEF Days!InDay, Days!BusinessDate

-----------------------------------------------------------------------------
(* Counting and adding up, by induction over the number of members.         *)

\* The natural numbers, in their order, are well founded.
LEMMA Less == IsWellFoundedOn({ss \in Nat \X Nat : ss[1] < ss[2]}, Nat)
  BY NatLessThanWellFounded, Zenon DEF OpToRel

\* What holds of 0 and with every number of the next holds up to n.
LEMMA UpTo ==
  ASSUME NEW n \in Nat, NEW S, 0 \in S, \A k \in 0 .. n - 1 : k \in S => k + 1 \in S
  PROVE  \A k \in 0 .. n : k \in S
<1>1. SUFFICES ASSUME {k \in 0 .. n : k \notin S} # {} PROVE FALSE
  OBVIOUS
<1>2. PICK m \in {k \in 0 .. n : k \notin S} :
             \A y \in {k \in 0 .. n : k \notin S} : ~(<<y, m>> \in {ss \in Nat \X Nat : ss[1] < ss[2]})
  BY <1>1, Less, WFMin, {k \in 0 .. n : k \notin S} \in SUBSET Nat
<1>3. m \in Nat /\ m # 0 /\ m - 1 \in 0 .. n - 1 /\ (m - 1) + 1 = m
  OBVIOUS
<1>4. m - 1 \in {k \in 0 .. n : k \notin S}
  BY <1>3
<1>5. <<m - 1, m>> \in {ss \in Nat \X Nat : ss[1] < ss[2]}
  BY <1>3
<1> QED
  BY <1>2, <1>4, <1>5

\* One member less is one less to count.
LEMMA OneLess ==
  ASSUME NEW W, IsFiniteSet(W), NEW s \in SUBSET W
  PROVE  /\ IsFiniteSet(s) /\ Cardinality(s) \in 0 .. Cardinality(W) /\ Cardinality(W) \in Nat
         /\ Cardinality(s) = 0 <=> s = {}
         /\ \A x \in s : s \ {x} \in SUBSET W /\ Cardinality(s \ {x}) = Cardinality(s) - 1
<1>1. IsFiniteSet(s) /\ Cardinality(s) <= Cardinality(W)
  BY FS_Subset
<1>2. Cardinality(s) \in Nat /\ Cardinality(W) \in Nat
  BY <1>1, FS_CardinalityType
<1>3. Cardinality(s) = 0 <=> s = {}
  BY <1>1, FS_EmptySet
<1>4. \A x \in s : Cardinality(s \ {x}) = Cardinality(s) - 1
  BY <1>1, FS_RemoveElement
<1> QED
  BY <1>1, <1>2, <1>3, <1>4

\* Without one of its members a set has one less.
LEMMA SizeOfRest ==
  ASSUME NEW W, IsFiniteSet(W), NEW s \in SUBSET W, NEW k \in Nat, Cardinality(s) = k + 1
  PROVE  s # {} /\ \A x \in s : s \ {x} \in SUBSET W /\ Cardinality(s \ {x}) = k
<1>1. /\ Cardinality(s) = 0 <=> s = {}
      /\ \A x \in s : s \ {x} \in SUBSET W /\ Cardinality(s \ {x}) = Cardinality(s) - 1
  BY OneLess
<1>2. k + 1 # 0 /\ (k + 1) - 1 = k
  OBVIOUS
<1> QED
  BY <1>1, <1>2

\* What adding up the members of W one after the other fills in.
PickOf(s) == CHOOSE x \in s : TRUE
SumOver(g, f, s) == IF s = {} THEN 0 ELSE PickOf(s)[f] + g[s \ {PickOf(s)}]
SumTable(g, W, f) == g = [s \in SUBSET W |-> SumOver(g, f, s)]

\* The member that is picked of a set is one of it.
LEMMA PickIn == \A s : s # {} => PickOf(s) \in s
  BY DEF PickOf

\* Adding up member after member has a result for every part of a finite set.
LEMMA SumTableExists ==
  ASSUME NEW W, IsFiniteSet(W), NEW f
  PROVE  \E g : SumTable(g, W, f)
<1> DEFINE N == Cardinality(W)
           Part(g, n) == \A s \in SUBSET W : Cardinality(s) <= n => g[s] = SumOver(g, f, s)
           S == {n \in 0 .. N : \E g : Part(g, n)}
<1>1. N \in Nat
  BY FS_CardinalityType
<1>2. 0 \in S
  <2>1. Part([s \in SUBSET W |-> 0], 0)
    <3> SUFFICES ASSUME NEW s \in SUBSET W, Cardinality(s) <= 0
                 PROVE  s = {}
      BY DEF SumOver
    <3> QED
      BY OneLess
  <2> HIDE DEF Part
  <2> QED
    BY <1>1, <2>1
<1>3. ASSUME NEW k \in 0 .. N - 1, k \in S PROVE k + 1 \in S
  <2>1. PICK g : Part(g, k)
    BY <1>3
  <2> DEFINE h == [s \in SUBSET W |-> IF Cardinality(s) <= k THEN g[s] ELSE SumOver(g, f, s)]
  <2>2. ASSUME NEW s \in SUBSET W, Cardinality(s) <= k + 1
        PROVE  h[s] = SumOver(h, f, s)
    <3>1. h[s] = SumOver(g, f, s)
      BY <2>1
    <3>2. CASE s = {}
      BY <3>1, <3>2 DEF SumOver
    <3>3. CASE s # {}
      <4> DEFINE t == s \ {PickOf(s)}
      <4>1. t \in SUBSET W /\ Cardinality(t) <= k
        <5>1. t \in SUBSET W /\ Cardinality(t) = Cardinality(s) - 1 /\ Cardinality(s) \in Int
          BY <1>1, <3>3, OneLess, PickIn
        <5> HIDE DEF t
        <5> QED
          BY <1>1, <2>2, <5>1
      <4>2. h[t] = g[t]
        BY <4>1
      <4> HIDE DEF h
      <4> QED
        BY <3>1, <3>3, <4>2, Zenon DEF SumOver
    <3> QED
      BY <3>2, <3>3
  <2> HIDE DEF h
  <2>3. Part(h, k + 1)
    BY <2>2
  <2> HIDE DEF Part
  <2>4. k + 1 \in 0 .. N
    BY <1>1
  <2> QED
    BY <2>3, <2>4
<1>4. N \in S
  <2>1. N \in 0 .. N
    BY <1>1
  <2> HIDE DEF S, N
  <2> QED
    BY <1>1, <1>2, <1>3, <2>1, UpTo
<1>5. PICK g : Part(g, N)
  BY <1>4
<1> DEFINE h == [s \in SUBSET W |-> g[s]]
<1>6. ASSUME NEW s \in SUBSET W PROVE h[s] = SumOver(h, f, s)
  <2>1. g[s] = SumOver(g, f, s)
    <3>1. Cardinality(s) <= N
      BY FS_Subset
    <3> QED
      BY <1>5, <3>1
  <2>2. s # {} => h[s \ {PickOf(s)}] = g[s \ {PickOf(s)}]
    OBVIOUS
  <2>3. h[s] = g[s]
    OBVIOUS
  <2> HIDE DEF h
  <2> QED
    BY <2>1, <2>2, <2>3, Zenon DEF SumOver
<1>7. h = [s \in SUBSET W |-> h[s]]
  BY Zenon
<1> HIDE DEF h
<1>8. SumTable(h, W, f)
  BY <1>6, <1>7, Zenon DEF SumTable
<1> QED
  BY <1>8

\* The results are numbers when what is added up is.
LEMMA SumsAreNumbers ==
  ASSUME NEW W, IsFiniteSet(W), NEW f, \A r \in W : r[f] \in Nat, NEW g, SumTable(g, W, f)
  PROVE  \A s \in SUBSET W : g[s] \in Nat
<1> DEFINE N == Cardinality(W)
           S == {n \in 0 .. N : \A s \in SUBSET W : Cardinality(s) = n => g[s] \in Nat}
<1>1. N \in Nat
  BY FS_CardinalityType
<1>2. \A s \in SUBSET W : g[s] = SumOver(g, f, s)
  BY Zenon DEF SumTable
<1>3. 0 \in S
  <2>1. \A s \in SUBSET W : Cardinality(s) = 0 => g[s] = 0
    BY <1>2, OneLess DEF SumOver
  <2> QED
    BY <1>1, <2>1
<1>4. ASSUME NEW k \in 0 .. N - 1, k \in S PROVE k + 1 \in S
  <2>1. ASSUME NEW s \in SUBSET W, Cardinality(s) = k + 1
        PROVE  g[s] \in Nat
    <3> DEFINE y == PickOf(s)
    <3>1. s # {} /\ \A x \in s : s \ {x} \in SUBSET W /\ Cardinality(s \ {x}) = k
      BY <1>1, <2>1, SizeOfRest
    <3>2. y \in s /\ g[s] = y[f] + g[s \ {y}]
      BY <1>2, <3>1, PickIn, Zenon DEF SumOver
    <3> HIDE DEF y
    <3>3. g[s \ {y}] \in Nat
      BY <1>4, <3>1, <3>2
    <3> QED
      BY <3>2, <3>3
  <2>2. k + 1 \in 0 .. N
    BY <1>1
  <2> QED
    BY <2>1, <2>2
<1>5. ASSUME NEW s \in SUBSET W PROVE g[s] \in Nat
  <2>1. Cardinality(s) \in 0 .. N
    BY OneLess
  <2> HIDE DEF N
  <2>2. Cardinality(s) \in S
    <3> HIDE DEF S
    <3> QED
      BY <1>1, <1>3, <1>4, <2>1, UpTo
  <2> QED
    BY <2>2
<1> QED
  BY <1>5

\* The order in which they are added up does not matter.
Numbers(W, f) == \A r \in W : r[f] \in Nat
SumsUp(g, W, f) == \A s \in SUBSET W : g[s] \in Nat /\ \A x \in s : g[s] = x[f] + g[s \ {x}]

\* The result is what any one member has and the result of the others.
LEMMA SumTableSums ==
  ASSUME NEW W, IsFiniteSet(W), NEW f, Numbers(W, f), NEW g, SumTable(g, W, f)
  PROVE  SumsUp(g, W, f)
<1> DEFINE N == Cardinality(W)
           Fine(s) == g[s] \in Nat /\ \A x \in s : g[s] = x[f] + g[s \ {x}]
           S == {n \in 0 .. N : \A s \in SUBSET W : Cardinality(s) = n => Fine(s)}
<1>1. N \in Nat
  BY FS_CardinalityType
<1>2. \A s \in SUBSET W : g[s] = SumOver(g, f, s)
  BY Zenon DEF SumTable
<1>6. \A s \in SUBSET W : g[s] \in Nat
  BY SumsAreNumbers DEF Numbers
<1>3. 0 \in S
  <2>1. \A s \in SUBSET W : Cardinality(s) = 0 => s = {} /\ g[s] = 0
    BY <1>2, OneLess DEF SumOver
  <2>2. \A s \in SUBSET W : Cardinality(s) = 0 => Fine(s)
    BY <2>1
  <2> HIDE DEF Fine
  <2> QED
    BY <1>1, <2>2
<1>4. ASSUME NEW k \in 0 .. N - 1, k \in S PROVE k + 1 \in S
  <2>1. \A s \in SUBSET W : Cardinality(s) = k => Fine(s)
    BY <1>4
  <2>2. ASSUME NEW s \in SUBSET W, Cardinality(s) = k + 1
        PROVE  Fine(s)
    <3> DEFINE y == PickOf(s)
    <3>1. s # {} /\ \A x \in s : s \ {x} \in SUBSET W /\ Cardinality(s \ {x}) = k
      BY <1>1, <2>2, SizeOfRest
    <3>2. y \in s /\ g[s] = y[f] + g[s \ {y}]
      BY <1>2, <3>1, PickIn, Zenon DEF SumOver
    <3> HIDE DEF y
    <3>3. \A x \in s : Fine(s \ {x})
      BY <2>1, <3>1
    <3>4. \A x \in s : x[f] \in Nat
      BY DEF Numbers
    <3>5. ASSUME NEW x \in s PROVE g[s] = x[f] + g[s \ {x}]
      <4>1. CASE x = y
        BY <3>2, <4>1
      <4>2. CASE x # y
        <5>1. g[s \ {y}] = x[f] + g[(s \ {y}) \ {x}]
          BY <3>2, <3>3, <4>2
        <5>2. g[s \ {x}] = y[f] + g[(s \ {x}) \ {y}]
          BY <3>2, <3>3, <4>2
        <5>3. (s \ {x}) \ {y} = (s \ {y}) \ {x}
          OBVIOUS
        <5>4. g[(s \ {y}) \ {x}] \in Nat
          BY <1>6
        <5>5. g[(s \ {x}) \ {y}] = g[(s \ {y}) \ {x}]
          BY <5>3
        <5>6. x[f] \in Nat /\ y[f] \in Nat
          BY <3>2, <3>4
        <5> HIDE DEF Fine
        <5> QED
          BY <3>2, <5>1, <5>2, <5>4, <5>5, <5>6
      <4> QED
        BY <4>1, <4>2
    <3>6. g[s] \in Nat
      BY <1>6
    <3> QED
      BY <3>5, <3>6
  <2> HIDE DEF Fine
  <2>3. k + 1 \in 0 .. N
    BY <1>1
  <2> QED
    BY <2>2, <2>3
<1>5. ASSUME NEW s \in SUBSET W PROVE Fine(s)
  <2>1. Cardinality(s) \in 0 .. N
    BY OneLess
  <2> HIDE DEF Fine, N
  <2>2. Cardinality(s) \in S
    <3> HIDE DEF S
    <3> QED
      BY <1>1, <1>3, <1>4, <2>1, UpTo
  <2> QED
    BY <2>2
<1> QED
  BY <1>5 DEF SumsUp

\* However many more there are, the members of a set add up to the same.
LEMMA SameSums ==
  ASSUME NEW W, IsFiniteSet(W), NEW V \in SUBSET W, NEW f, NEW g, SumTable(g, W, f),
         NEW h, SumTable(h, V, f)
  PROVE  g[V] = h[V]
<1> DEFINE N == Cardinality(V)
           S == {n \in 0 .. N : \A s \in SUBSET V : Cardinality(s) = n => g[s] = h[s]}
<1>1. N \in Nat /\ IsFiniteSet(V)
  BY FS_CardinalityType, FS_Subset
<1>2. \A s \in SUBSET V : g[s] = SumOver(g, f, s) /\ h[s] = SumOver(h, f, s)
  <2>1. \A s \in SUBSET V : s \in SUBSET W
    OBVIOUS
  <2>2. (\A s \in SUBSET W : g[s] = SumOver(g, f, s)) /\ \A s \in SUBSET V : h[s] = SumOver(h, f, s)
    BY Zenon DEF SumTable
  <2> QED
    BY <2>1, <2>2
<1>3. 0 \in S
  <2>1. \A s \in SUBSET V : Cardinality(s) = 0 => g[s] = h[s]
    BY <1>1, <1>2, OneLess DEF SumOver
  <2> QED
    BY <1>1, <2>1
<1>4. ASSUME NEW k \in 0 .. N - 1, k \in S PROVE k + 1 \in S
  <2>1. ASSUME NEW s \in SUBSET V, Cardinality(s) = k + 1
        PROVE  g[s] = h[s]
    <3>1. s # {} /\ \A x \in s : s \ {x} \in SUBSET V /\ Cardinality(s \ {x}) = k
      BY <1>1, <2>1, SizeOfRest
    <3>2. g[s \ {PickOf(s)}] = h[s \ {PickOf(s)}]
      BY <1>4, <3>1, PickIn
    <3> QED
      BY <1>2, <3>1, <3>2, Zenon DEF SumOver
  <2>2. k + 1 \in 0 .. N
    BY <1>1
  <2> QED
    BY <2>1, <2>2
<1>5. N \in S
  <2>1. N \in 0 .. N
    BY <1>1
  <2> HIDE DEF S, N
  <2> QED
    BY <1>1, <1>3, <1>4, <2>1, UpTo
<1>6. V \in SUBSET V
  OBVIOUS
<1> QED
  BY <1>5, <1>6

\* That is how the listing adds up a field.
LEMMA SumOfTable == \A rs, f : Listing!SumOf(rs, f) = (CHOOSE g : SumTable(g, rs, f))[rs]
BY Zenon DEF Listing!SumOf, Listing!MapThenSumSet, Listing!MapThenFoldSet, SumTable, SumOver, PickOf

\* A sum over requests, one of them and the rest.
LEMMA SumRest ==
  ASSUME NEW W, IsFiniteSet(W), NEW f, Numbers(W, f)
  PROVE  /\ Listing!SumOf(W, f) \in Nat
         /\ W = {} => Listing!SumOf(W, f) = 0
         /\ \A x \in W : Listing!SumOf(W, f) = x[f] + Listing!SumOf(W \ {x}, f)
<1> DEFINE g == CHOOSE g : SumTable(g, W, f)
<1>1. SumTable(g, W, f)
  BY SumTableExists
<1>2. Listing!SumOf(W, f) = g[W]
  BY SumOfTable, Zenon
<1> HIDE DEF g
<1>3. W \in SUBSET W
  OBVIOUS
<1>4. g[W] \in Nat /\ \A x \in W : g[W] = x[f] + g[W \ {x}]
  <2>1. SumsUp(g, W, f)
    BY <1>1, SumTableSums, Zenon
  <2> QED
    BY <1>3, <2>1 DEF SumsUp
<1>5. W = {} => g[W] = 0
  BY <1>1, <1>3, Zenon DEF SumTable, SumOver
<1>6. \A x \in W : Listing!SumOf(W \ {x}, f) = g[W \ {x}]
  <2> TAKE x \in W
  <2> DEFINE V == W \ {x}
             h == CHOOSE h : SumTable(h, V, f)
  <2>1. V \in SUBSET W /\ IsFiniteSet(V)
    BY FS_Subset
  <2>2. SumTable(h, V, f)
    BY <2>1, SumTableExists
  <2>3. Listing!SumOf(V, f) = h[V]
    BY SumOfTable, Zenon
  <2> HIDE DEF h, V
  <2>4. g[V] = h[V]
    BY <1>1, <2>1, <2>2, SameSums
  <2>5. Listing!SumOf(V, f) = g[V]
    BY <2>3, <2>4
  <2> QED
    BY <2>5 DEF V
<1> QED
  BY <1>2, <1>4, <1>5, <1>6

\* The sum over two lots that share nothing is the sum over each.
LEMMA SumUnion ==
  ASSUME NEW A, NEW B, IsFiniteSet(A), IsFiniteSet(B), A \cap B = {},
         NEW f, Numbers(A \cup B, f)
  PROVE  Listing!SumOf(A \cup B, f) = Listing!SumOf(A, f) + Listing!SumOf(B, f)
<1> DEFINE Sum(s) == Listing!SumOf(s, f)
           N == Cardinality(B)
           S == {n \in 0 .. N :
                   \A s \in SUBSET B : Cardinality(s) = n => Sum(A \cup s) = Sum(A) + Sum(s)}
<1>1. N \in Nat
  BY FS_CardinalityType
<1>2. \A s \in SUBSET B : IsFiniteSet(s) /\ IsFiniteSet(A \cup s)
  BY FS_Subset, FS_Union
<1>3. ASSUME NEW s, s \in SUBSET (A \cup B)
      PROVE  /\ Sum(s) \in Nat
             /\ s = {} => Sum(s) = 0
             /\ \A x \in s : Sum(s) = x[f] + Sum(s \ {x})
  <2>1. IsFiniteSet(A \cup B)
    BY FS_Union
  <2>2. IsFiniteSet(s) /\ Numbers(s, f)
    BY <1>3, <2>1, FS_Subset DEF Numbers
  <2> QED
    BY <2>2, SumRest
<1> HIDE DEF Sum
<1>4. Sum(A) \in Nat /\ \A s \in SUBSET B : Sum(s) \in Nat
  BY <1>3
<1>5. 0 \in S
  <2>1. ASSUME NEW s \in SUBSET B, Cardinality(s) = 0 PROVE Sum(A \cup s) = Sum(A) + Sum(s)
    <3>1. s = {} /\ A \cup s = A
      BY <2>1, OneLess
    <3>2. Sum(s) = 0
      BY <1>3, <3>1
    <3> QED
      BY <1>4, <3>1, <3>2
  <2> QED
    BY <1>1, <2>1
<1>6. ASSUME NEW k \in 0 .. N - 1, k \in S PROVE k + 1 \in S
  <2>1. ASSUME NEW s \in SUBSET B, Cardinality(s) = k + 1
        PROVE  Sum(A \cup s) = Sum(A) + Sum(s)
    <3>1. s # {} /\ \A x \in s : s \ {x} \in SUBSET B /\ Cardinality(s \ {x}) = k
      BY <1>1, <2>1, SizeOfRest
    <3>2. PICK x \in s : TRUE
      BY <3>1
    <3>3. Sum(A \cup (s \ {x})) = Sum(A) + Sum(s \ {x})
      BY <1>6, <3>1
    <3>4. (A \cup s) \ {x} = A \cup (s \ {x}) /\ x \in A \cup s
      BY <3>2
    <3>5. Sum(s) = x[f] + Sum(s \ {x})
      BY <1>3
    <3>6. Sum(A \cup s) = x[f] + Sum(A \cup (s \ {x}))
      <4>1. A \cup s \in SUBSET (A \cup B)
        OBVIOUS
      <4> QED
        BY <1>3, <3>4, <4>1
    <3>7. x[f] \in Nat /\ Sum(s \ {x}) \in Nat
      BY <1>4 DEF Numbers
    <3> QED
      BY <1>4, <3>3, <3>5, <3>6, <3>7
  <2>2. k + 1 \in 0 .. N
    BY <1>1
  <2> QED
    BY <2>1, <2>2
<1>7. N \in S
  <2>1. N \in 0 .. N
    BY <1>1
  <2> HIDE DEF S, N
  <2> QED
    BY <1>1, <1>5, <1>6, <2>1, UpTo
<1>8. B \in SUBSET B
  OBVIOUS
<1> QED
  BY <1>7, <1>8 DEF Sum

-----------------------------------------------------------------------------
(* The statistics of a listing.                                             *)

\* The listing has operators of Ordering and of FiniteSets of its own.
LEMMA SameCount == \A S : Listing!Cardinality(S) = Cardinality(S)
  BY Zenon DEF Listing!Cardinality, Cardinality

\* It arranges as Ordering does.
LEMMA SameArranged == \A S, R : Listing!Arranged(S, R) = Arranged(S, R)
  BY Zenon DEF Listing!Arranged, Arranged, Listing!Cardinality, Cardinality

\* Requests as the pool and the rows hold them: one for an id, at different times.
Entries(rs) ==
  /\ IsFiniteSet(rs)
  /\ \A r \in rs : r.start \in Int /\ r.kind \in {"endpoint", "account"}
  /\ Numbers(rs, "tokens") /\ Numbers(rs, "took")
Apart(rs) == \A r, s \in rs : r.id = s.id \/ r.start = s.start => r = s

Measures == {"requests", "good", "failed", "tokens", "took", "timed"}

\* Parts that share nothing are counted one and the other.
LEMMA CountParts ==
  ASSUME NEW X, NEW Y, IsFiniteSet(X), IsFiniteSet(Y), X \cap Y = {}
  PROVE  /\ Cardinality(X \cup Y) = Cardinality(X) + Cardinality(Y)
         /\ Cardinality(X) \in Nat /\ Cardinality(Y) \in Nat
<1>1. Cardinality(X \cup Y) = Cardinality(X) + Cardinality(Y) - Cardinality({})
  BY FS_Union
<1>2. Cardinality({}) = 0 /\ Cardinality(X) \in Nat /\ Cardinality(Y) \in Nat
  BY FS_EmptySet, FS_CardinalityType
<1> QED
  BY <1>1, <1>2

\* The measures of the statistics, by name.
LEMMA MeasuresOf ==
  ASSUME NEW rs
  PROVE  LET s == Listing!Stats(rs) IN
         /\ DOMAIN s = Measures
         /\ s["requests"] = Cardinality(rs)
         /\ s["good"] = Cardinality({r \in rs : r.status \in Listing!GoodStatuses})
         /\ s["failed"] = Cardinality({r \in rs : r.status \in Listing!FailedStatuses})
         /\ s["tokens"] = Listing!SumOf(rs, "tokens")
         /\ s["took"] = Listing!SumOf(rs, "took")
         /\ s["timed"] = Cardinality({r \in rs : r.took > 0})
<1> DEFINE a == Cardinality(rs)
           b == Cardinality({r \in rs : r.status \in Listing!GoodStatuses})
           c == Cardinality({r \in rs : r.status \in Listing!FailedStatuses})
           d == Listing!SumOf(rs, "tokens")
           e == Listing!SumOf(rs, "took")
           f == Cardinality({r \in rs : r.took > 0})
<1>1. Listing!Stats(rs)
        = [requests |-> a, good |-> b, failed |-> c, tokens |-> d, took |-> e, timed |-> f]
  BY SameCount, Zenon DEF Listing!Stats
<1> HIDE DEF a, b, c, d, e, f
<1>2. /\ DOMAIN Listing!Stats(rs) = Measures
      /\ Listing!Stats(rs)["requests"] = a /\ Listing!Stats(rs)["good"] = b
      /\ Listing!Stats(rs)["failed"] = c /\ Listing!Stats(rs)["tokens"] = d
      /\ Listing!Stats(rs)["took"] = e /\ Listing!Stats(rs)["timed"] = f
  BY <1>1 DEF Measures
<1> QED
  BY <1>2 DEF a, b, c, d, e, f

\* What is measured of two lots of requests is what is measured of the one and the other.
LEMMA MeasuredTogether ==
  ASSUME NEW A, NEW B, Entries(A), Entries(B), A \cap B = {}, NEW m \in Measures
  PROVE  /\ Listing!Stats(A \cup B)[m] = Listing!Stats(A)[m] + Listing!Stats(B)[m]
         /\ Listing!Stats(A)[m] \in Nat /\ Listing!Stats(B)[m] \in Nat
<1> DEFINE one == Listing!Stats(A)[m]
           other == Listing!Stats(B)[m]
           both == Listing!Stats(A \cup B)[m]
<1> HIDE DEF one, other, both
<1>1. IsFiniteSet(A) /\ IsFiniteSet(B)
  BY DEF Entries
<1> SUFFICES both = one + other /\ one \in Nat /\ other \in Nat
  BY DEF one, other, both
<1>2. CASE m = "requests"
  <2> DEFINE P(rs) == rs
  <2>1. P(A \cup B) = P(A) \cup P(B) /\ P(A) \cap P(B) = {}
    OBVIOUS
  <2>2. IsFiniteSet(P(A)) /\ IsFiniteSet(P(B))
    BY <1>1, FS_Subset
  <2>3. both = Cardinality(P(A \cup B)) /\ one = Cardinality(P(A)) /\ other = Cardinality(P(B))
    BY <1>2, MeasuresOf DEF one, other, both
  <2> HIDE DEF P
  <2>4. /\ Cardinality(P(A) \cup P(B)) = Cardinality(P(A)) + Cardinality(P(B))
        /\ Cardinality(P(A)) \in Nat /\ Cardinality(P(B)) \in Nat
    BY <2>1, <2>2, CountParts
  <2> QED
    BY <2>1, <2>3, <2>4
<1>3. CASE m = "good"
  <2> DEFINE P(rs) == {r \in rs : r.status \in Listing!GoodStatuses}
  <2>1. P(A \cup B) = P(A) \cup P(B) /\ P(A) \cap P(B) = {}
    OBVIOUS
  <2>2. IsFiniteSet(P(A)) /\ IsFiniteSet(P(B))
    BY <1>1, FS_Subset
  <2>3. both = Cardinality(P(A \cup B)) /\ one = Cardinality(P(A)) /\ other = Cardinality(P(B))
    BY <1>3, MeasuresOf DEF one, other, both
  <2> HIDE DEF P
  <2>4. /\ Cardinality(P(A) \cup P(B)) = Cardinality(P(A)) + Cardinality(P(B))
        /\ Cardinality(P(A)) \in Nat /\ Cardinality(P(B)) \in Nat
    BY <2>1, <2>2, CountParts
  <2> QED
    BY <2>1, <2>3, <2>4
<1>4. CASE m = "failed"
  <2> DEFINE P(rs) == {r \in rs : r.status \in Listing!FailedStatuses}
  <2>1. P(A \cup B) = P(A) \cup P(B) /\ P(A) \cap P(B) = {}
    OBVIOUS
  <2>2. IsFiniteSet(P(A)) /\ IsFiniteSet(P(B))
    BY <1>1, FS_Subset
  <2>3. both = Cardinality(P(A \cup B)) /\ one = Cardinality(P(A)) /\ other = Cardinality(P(B))
    BY <1>4, MeasuresOf DEF one, other, both
  <2> HIDE DEF P
  <2>4. /\ Cardinality(P(A) \cup P(B)) = Cardinality(P(A)) + Cardinality(P(B))
        /\ Cardinality(P(A)) \in Nat /\ Cardinality(P(B)) \in Nat
    BY <2>1, <2>2, CountParts
  <2> QED
    BY <2>1, <2>3, <2>4
<1>5. CASE m = "timed"
  <2> DEFINE P(rs) == {r \in rs : r.took > 0}
  <2>1. P(A \cup B) = P(A) \cup P(B) /\ P(A) \cap P(B) = {}
    OBVIOUS
  <2>2. IsFiniteSet(P(A)) /\ IsFiniteSet(P(B))
    BY <1>1, FS_Subset
  <2>3. both = Cardinality(P(A \cup B)) /\ one = Cardinality(P(A)) /\ other = Cardinality(P(B))
    BY <1>5, MeasuresOf DEF one, other, both
  <2> HIDE DEF P
  <2>4. /\ Cardinality(P(A) \cup P(B)) = Cardinality(P(A)) + Cardinality(P(B))
        /\ Cardinality(P(A)) \in Nat /\ Cardinality(P(B)) \in Nat
    BY <2>1, <2>2, CountParts
  <2> QED
    BY <2>1, <2>3, <2>4
<1>6. CASE m \in {"tokens", "took"}
  <2>1. Numbers(A, m) /\ Numbers(B, m) /\ Numbers(A \cup B, m)
    BY <1>6 DEF Entries, Numbers
  <2>2. /\ both = Listing!SumOf(A \cup B, m)
        /\ one = Listing!SumOf(A, m) /\ other = Listing!SumOf(B, m)
    BY <1>6, MeasuresOf DEF one, other, both
  <2>3. Listing!SumOf(A, m) \in Nat /\ Listing!SumOf(B, m) \in Nat
    BY <1>1, <2>1, SumRest
  <2>4. Listing!SumOf(A \cup B, m) = Listing!SumOf(A, m) + Listing!SumOf(B, m)
    BY <1>1, <2>1, SumUnion
  <2> QED
    BY <2>2, <2>3, <2>4
<1> QED
  BY <1>2, <1>3, <1>4, <1>5, <1>6 DEF Measures

\* Rows that are in the pool too are taken off again: what is left are the
\* statistics of the others.
LEMMA MeasuredOnce ==
  ASSUME NEW F, NEW O \in SUBSET F, NEW H, Entries(F), Entries(H), H \cap (F \ O) = {}
  PROVE  Listing!Added(Listing!Subtracted(Listing!Stats(F), Listing!Stats(O)), Listing!Stats(H))
           = Listing!Stats(H \cup (F \ O))
<1> DEFINE E == F \ O
           f == Listing!Stats(F)
           o == Listing!Stats(O)
           h == Listing!Stats(H)
           t == Listing!Stats(H \cup E)
<1>1. Entries(E) /\ Entries(O) /\ E \cap O = {} /\ E \cup O = F
  <2>1. IsFiniteSet(E) /\ IsFiniteSet(O)
    BY FS_Subset DEF Entries
  <2> QED
    BY <2>1 DEF Entries, Numbers
<1>2. DOMAIN f = Measures /\ DOMAIN o = Measures /\ DOMAIN h = Measures /\ DOMAIN t = Measures
  BY MeasuresOf
<1>3. ASSUME NEW m \in Measures
      PROVE  Listing!NotNegative(f[m] - o[m]) + h[m] = t[m]
  <2> DEFINE e == Listing!Stats(E)
  <2> HIDE DEF e, f, o, h, t, E
  <2>1. f[m] = e[m] + o[m] /\ e[m] \in Nat /\ o[m] \in Nat
    <3>1. /\ Listing!Stats(E \cup O)[m] = Listing!Stats(E)[m] + Listing!Stats(O)[m]
          /\ Listing!Stats(E)[m] \in Nat /\ Listing!Stats(O)[m] \in Nat
      BY <1>1, MeasuredTogether
    <3> QED
      BY <1>1, <3>1 DEF e, f, o
  <2>2. t[m] = h[m] + e[m] /\ h[m] \in Nat
    <3>1. /\ Listing!Stats(H \cup E)[m] = Listing!Stats(H)[m] + Listing!Stats(E)[m]
          /\ Listing!Stats(H)[m] \in Nat /\ Listing!Stats(E)[m] \in Nat
      <4>1. H \cap E = {}
        BY DEF E
      <4> QED
        BY <1>1, <4>1, MeasuredTogether
    <3> QED
      BY <3>1 DEF t, h, e
  <2> QED
    BY <2>1, <2>2 DEF Listing!NotNegative
<1>4. t = [m \in Measures |-> t[m]]
  <2>1. t = [requests |-> t["requests"], good |-> t["good"], failed |-> t["failed"],
             tokens |-> t["tokens"], took |-> t["took"], timed |-> t["timed"]]
    BY SameCount, MeasuresOf, Zenon DEF Listing!Stats
  <2> HIDE DEF t
  <2> QED
    BY <2>1 DEF Measures
<1> HIDE DEF f, o, h, t
<1>5. Listing!Subtracted(f, o) = [m \in Measures |-> Listing!NotNegative(f[m] - o[m])]
  BY <1>2, Zenon DEF Listing!Subtracted
<1>6. Listing!Added(Listing!Subtracted(f, o), h)
        = [m \in Measures |-> Listing!NotNegative(f[m] - o[m]) + h[m]]
  BY <1>5 DEF Listing!Added
<1> QED
  BY <1>3, <1>4, <1>6 DEF f, o, h, t, E

-----------------------------------------------------------------------------
(* The two lists of a listing, and its total.                               *)

\* Sequence q has every member of S at its rank in the order R: after as many as are
\* before it.
Ranked(q, S, R) ==
  /\ q \in Seq(S) /\ Len(q) = Cardinality(S) /\ Cardinality(S) \in Nat
  /\ \A x \in S : LET k == Cardinality({y \in S : <<y, x>> \in R}) + 1
                  IN  k \in 1 .. Len(q) /\ q[k] = x
  /\ \A i, j \in 1 .. Len(q) : i < j => q[i] # q[j] /\ <<q[i], q[j]>> \in R

\* Relation R is a strict and total order on S.
Orders(R, S) ==
  /\ \A x \in S : <<x, x>> \notin R
  /\ \A x, y \in S : x # y => (<<x, y>> \in R <=> <<y, x>> \notin R)
  /\ \A x, y, z \in S : <<x, y>> \in R /\ <<y, z>> \in R => <<x, z>> \in R

\* A strict and total order puts every member of a finite set at one place: the
\* numbers of those before it are all different.
LEMMA ArrangedRanks ==
  ASSUME NEW S, NEW R, IsFiniteSet(S), Orders(R, S)
  PROVE  Ranked(Arranged(S, R), S, R)
<1> DEFINE n == Cardinality(S)
           before(x) == {y \in S : <<y, x>> \in R}
           rank == [x \in S |-> Cardinality(before(x))]
           q == Arranged(S, R)
<1>1. n \in Nat
  BY FS_CardinalityType
<1>2. \A x \in S : IsFiniteSet(before(x)) /\ Cardinality(before(x)) \in Nat /\ Cardinality(before(x)) < n
  <2> TAKE x \in S
  <2>1. before(x) \in SUBSET S /\ before(x) # S
    BY DEF Orders
  <2>2. IsFiniteSet(before(x)) /\ Cardinality(before(x)) <= n /\ Cardinality(before(x)) # n
    BY <2>1, FS_Subset
  <2>3. Cardinality(before(x)) \in Nat
    BY <2>2, FS_CardinalityType
  <2> QED
    BY <1>1, <2>2, <2>3
<1>3. \A x, y \in S : <<x, y>> \in R => rank[x] < rank[y]
  <2> TAKE x, y \in S
  <2> HAVE <<x, y>> \in R
  <2>1. before(x) \in SUBSET before(y)
    BY DEF Orders
  <2>3. x \in before(y) /\ x \notin before(x)
    BY DEF Orders
  <2>2. /\ Cardinality(before(x)) <= Cardinality(before(y))
        /\ Cardinality(before(x)) # Cardinality(before(y))
    BY <1>2, <2>1, <2>3, FS_Subset
  <2>4. Cardinality(before(x)) \in Nat /\ Cardinality(before(y)) \in Nat
    BY <1>2
  <2>5. rank[x] = Cardinality(before(x)) /\ rank[y] = Cardinality(before(y))
    OBVIOUS
  <2> HIDE DEF rank, before
  <2> QED
    BY <2>2, <2>4, <2>5
<1>4. rank \in [S -> 0 .. n - 1]
  <2>1. \A x \in S : Cardinality(before(x)) \in 0 .. n - 1
    <3> HIDE DEF n, before, rank, q
    <3> QED
      BY <1>1, <1>2
  <2> HIDE DEF n, before, q
  <2> QED
    BY <2>1
<1>5. \A x \in S : rank[x] = Cardinality(before(x))
  OBVIOUS
<1>6. rank \in Surjection(S, 0 .. n - 1)
  <2>1. rank \in Injection(S, 0 .. n - 1)
    <3>1. \A x, y \in S : x # y => rank[x] # rank[y]
      <4> TAKE x, y \in S
      <4> HAVE x # y
      <4>1. <<x, y>> \in R \/ <<y, x>> \in R
        BY DEF Orders
      <4>2. rank[x] \in 0 .. n - 1 /\ rank[y] \in 0 .. n - 1
        BY <1>4
      <4> QED
        BY <1>1, <1>3, <4>1, <4>2
    <3> QED
      BY <1>4, <3>1 DEF Injection, IsInjective
  <2>2. IsFiniteSet(0 .. n - 1) /\ Cardinality(0 .. n - 1) = n
    <3>1. 0 \in Int /\ n - 1 \in Int
      BY <1>1
    <3>2. IsFiniteSet(0 .. n - 1) /\ Cardinality(0 .. n - 1) = IF 0 > n - 1 THEN 0 ELSE (n - 1) - 0 + 1
      BY <3>1, FS_Interval
    <3> QED
      BY <1>1, <3>2
  <2> QED
    BY <2>1, <2>2, FS_Injection
<1>7. \A k \in 1 .. n : \E x \in S : rank[x] = k - 1
  <2>1. \A m \in 0 .. n - 1 : \E x \in S : rank[x] = m
    BY <1>6, Zenon DEF Surjection
  <2> HIDE DEF rank, n
  <2>2. \A k \in 1 .. n : k - 1 \in 0 .. n - 1
    BY <1>1
  <2> QED
    BY <2>1, <2>2, Zenon
<1>8. q = [k \in 1 .. n |-> CHOOSE x \in S : Cardinality(before(x)) = k - 1]
  BY Zenon DEF Arranged
<1>9. \A k \in 1 .. n : q[k] \in S /\ rank[q[k]] = k - 1
  <2> TAKE k \in 1 .. n
  <2>1. q[k] = CHOOSE x \in S : Cardinality(before(x)) = k - 1
    BY <1>8
  <2>2. \E x \in S : Cardinality(before(x)) = k - 1
    BY <1>5, <1>7
  <2> HIDE DEF rank, q
  <2>3. q[k] \in S /\ Cardinality(before(q[k])) = k - 1
    BY <2>1, <2>2
  <2> QED
    BY <1>5, <2>3
<1>10. q \in Seq(S) /\ Len(q) = n
  <2>1. q = [k \in 1 .. n |-> q[k]]
    BY <1>8
  <2> HIDE DEF q, rank
  <2> QED
    BY <1>1, <1>9, <2>1
<1> HIDE DEF q, rank, n
<1>11. \A x \in S : rank[x] + 1 \in 1 .. n /\ q[rank[x] + 1] = x
  <2> TAKE x \in S
  <2>1. rank[x] + 1 \in 1 .. n /\ rank[x] \in Int
    BY <1>1, <1>4
  <2>2. q[rank[x] + 1] \in S /\ rank[q[rank[x] + 1]] = rank[x]
    BY <1>9, <2>1
  <2>3. q[rank[x] + 1] = x
    <3> SUFFICES ASSUME q[rank[x] + 1] # x PROVE FALSE
      OBVIOUS
    <3>1. <<q[rank[x] + 1], x>> \in R \/ <<x, q[rank[x] + 1]>> \in R
      BY <2>2 DEF Orders
    <3> QED
      BY <1>3, <2>1, <2>2, <3>1
  <2> QED
    BY <2>1, <2>3
<1>12. \A i, j \in 1 .. n : i < j => q[i] # q[j] /\ <<q[i], q[j]>> \in R
  <2> TAKE i, j \in 1 .. n
  <2> HAVE i < j
  <2>1. q[i] \in S /\ q[j] \in S /\ rank[q[i]] < rank[q[j]]
    BY <1>1, <1>9
  <2>2. q[i] # q[j] /\ ~(rank[q[j]] < rank[q[i]])
    BY <1>1, <1>9, <2>1
  <2> QED
    BY <1>3, <2>1, <2>2 DEF Orders
<1>13. \A x \in S : Cardinality(before(x)) + 1 \in 1 .. n /\ q[Cardinality(before(x)) + 1] = x
  BY <1>5, <1>11
<1> QED
  BY <1>1, <1>10, <1>12, <1>13 DEF Ranked, q, n

Newer(rs) == {x \in rs \X rs : x[1].start > x[2].start}

\* Sorting by the start puts every entry at its place.
LEMMA NewestRanked ==
  ASSUME NEW rs, Entries(rs), Apart(rs)
  PROVE  Ranked(Listing!Newest(rs), rs, Newer(rs))
<1>1. \A x, y \in rs : <<x, y>> \in Newer(rs) <=> x.start > y.start
  BY DEF Newer
<1>2. \A x \in rs : x.start \in Int
  BY DEF Entries
<1>3. Orders(Newer(rs), rs)
  BY <1>1, <1>2 DEF Orders, Apart
<1>4. IsFiniteSet(rs)
  BY DEF Entries
<1>5. Listing!Newest(rs) = Arranged(rs, Newer(rs))
  BY SameArranged, Zenon DEF Listing!Newest, Newer
<1> QED
  BY <1>3, <1>4, <1>5, ArrangedRanks

\* What a listing is asked of: any finite pool and rows, any filter, any limit.
Asked(c) ==
  /\ Entries(c.pool) /\ Apart(c.pool) /\ Entries(c.rows) /\ Apart(c.rows)
  /\ c.opts.kind \in {"all", "endpoint", "account"} /\ c.opts.limit \in Nat \ {0}
InPool(c) == {r \in c.pool : Listing!PoolFits(c.opts, r)}

\* Some of the entries are entries.
LEMMA PartIsListed ==
  ASSUME NEW rs, NEW some \in SUBSET rs, Entries(rs), Apart(rs)
  PROVE  Entries(some) /\ Apart(some)
<1>1. IsFiniteSet(some)
  BY FS_Subset DEF Entries
<1> QED
  BY <1>1 DEF Entries, Apart, Numbers

\* The ids of a list are those of the entries it was made from.
LEMMA IdsOfList ==
  ASSUME NEW rs, IsFiniteSet(rs), NEW q, NEW R, Ranked(q, rs, R)
  PROVE  /\ Listing!Ids(q) = {r.id : r \in rs} /\ Listing!ToSet(q) = rs
         /\ Cardinality(Listing!Ids(q)) \in Nat
<1>1. q \in Seq(rs) /\ Len(q) \in Nat /\ DOMAIN q = 1 .. Len(q)
  BY DEF Ranked
<1>2. \A x \in rs : \E k \in 1 .. Len(q) : q[k] = x
  BY Zenon DEF Ranked
<1>3. Listing!ToSet(q) = rs
  BY <1>1, <1>2 DEF Listing!ToSet
<1>4. Listing!Ids(q) = {r.id : r \in rs}
  BY <1>1, <1>2 DEF Listing!Ids
<1>5. Cardinality({r.id : r \in rs}) \in Nat
  <2> DEFINE T == {r.id : r \in rs}
             f == [r \in rs |-> r.id]
  <2>1. f \in Surjection(rs, T)
    BY DEF Surjection
  <2> QED
    BY <2>1, FS_Surjection, FS_CardinalityType
<1> QED
  BY <1>3, <1>4, <1>5

\* Everything that is said of a listing that is asked for.
Laid(c) ==
  LET H == InPool(c)
      F == Listing!Found(c)
      E == Listing!Unpooled(c)
      ids == Listing!Ids(Listing!Hot(c))
      O == Listing!Overlap(c, ids)
  IN  /\ Ranked(Listing!Hot(c), H, Newer(H)) /\ Ranked(Listing!Newest(F), F, Newer(F))
      /\ Ranked(Listing!Newest(E), E, Newer(E))
      /\ Entries(H) /\ Entries(F) /\ Entries(E) /\ Apart(F)
      /\ O \in SUBSET F /\ E = F \ O /\ H \cap E = {}
      /\ E = {r \in F : r.id \notin ids} /\ Cardinality(ids) \in Nat

\* Every listing that is asked for is laid out so.
LEMMA ListingLaid ==
  ASSUME NEW c, Asked(c)
  PROVE  Laid(c)
<1> DEFINE H == InPool(c)
           F == Listing!Found(c)
           E == Listing!Unpooled(c)
           ids == Listing!Ids(Listing!Hot(c))
           O == Listing!Overlap(c, ids)
<1>1. Entries(H) /\ Apart(H)
  <2>1. H \in SUBSET c.pool
    BY DEF InPool
  <2> QED
    BY <2>1, PartIsListed DEF Asked
<1>2. Entries(F) /\ Apart(F)
  <2>1. F \in SUBSET c.rows
    BY DEF Listing!Found
  <2> QED
    BY <2>1, PartIsListed DEF Asked
<1>3. O \in SUBSET F /\ E = {r \in F : r.id \notin ids} /\ O = {r \in F : r.id \in ids}
  BY DEF Listing!Unpooled, Listing!Overlap
<1>4. E \in SUBSET F /\ E = F \ O
  BY <1>3
<1>5. Entries(E) /\ Apart(E)
  BY <1>2, <1>4, PartIsListed
<1>6. /\ Ranked(Listing!Newest(H), H, Newer(H)) /\ Ranked(Listing!Newest(F), F, Newer(F))
      /\ Ranked(Listing!Newest(E), E, Newer(E))
  BY <1>1, <1>2, <1>5, NewestRanked
<1>7. Listing!Hot(c) = Listing!Newest(H)
  BY DEF Listing!Hot, InPool
<1>8. ids = {r.id : r \in H} /\ Cardinality(ids) \in Nat
  <2>1. IsFiniteSet(H)
    BY <1>1 DEF Entries
  <2> QED
    BY <1>6, <1>7, <2>1, IdsOfList
<1>9. H \cap E = {}
  BY <1>3, <1>8
<1> HIDE DEF H, F, E, ids, O
<1>10. Ranked(Listing!Hot(c), H, Newer(H))
  BY <1>6, <1>7
<1> QED
  BY <1>1, <1>2, <1>3, <1>4, <1>5, <1>6, <1>8, <1>9, <1>10, Zenon DEF Laid, H, F, E, ids, O

\* Every row that fits is of one of the kinds, so it is counted once.
LEMMA CountIsOfAll ==
  ASSUME NEW c, Asked(c), Entries(Listing!Found(c))
  PROVE  Listing!Count(c) = Cardinality(Listing!Found(c))
<1> DEFINE F == Listing!Found(c)
           K(kind) == {r \in F : r.kind = kind}
<1>1. \A kind : Listing!CountKind(c, kind) = Cardinality(K(kind))
  BY SameCount, Zenon DEF Listing!CountKind
<1>2. IsFiniteSet(F) /\ \A r \in F : r.kind \in {"endpoint", "account"}
  BY DEF Entries
<1>3. CASE c.opts.kind = "all"
  <2>1. Listing!Count(c) = Cardinality(K("endpoint")) + Cardinality(K("account"))
    BY <1>1, <1>3 DEF Listing!Count
  <2>2. K("endpoint") \cup K("account") = F /\ K("endpoint") \cap K("account") = {}
    BY <1>2
  <2>3. IsFiniteSet(K("endpoint")) /\ IsFiniteSet(K("account"))
    BY <1>2, FS_Subset
  <2> HIDE DEF K, F
  <2>4. Cardinality(K("endpoint") \cup K("account"))
          = Cardinality(K("endpoint")) + Cardinality(K("account"))
    BY <2>2, <2>3, CountParts
  <2> QED
    BY <2>1, <2>2, <2>4 DEF F
<1>4. CASE c.opts.kind # "all"
  <2>1. Listing!Count(c) = Cardinality(K(c.opts.kind))
    BY <1>1, <1>4, Zenon DEF Listing!Count
  <2>2. \A r \in F : r.kind = c.opts.kind
    BY <1>4 DEF Listing!Found, Listing!RowFits, Listing!KindFits
  <2>3. K(c.opts.kind) = F
    BY <2>2
  <2> QED
    BY <2>1, <2>3
<1> QED
  BY <1>3, <1>4

\* The total is the length of the list.
LEMMA TotalIsLength ==
  ASSUME NEW c, Asked(c), Laid(c)
  PROVE  Listing!Total(c, Listing!Hot(c)) = Len(Listing!Hot(c) \o Listing!Newest(Listing!Unpooled(c)))
<1> DEFINE F == Listing!Found(c)
           E == Listing!Unpooled(c)
           hot == Listing!Hot(c)
           O == Listing!Overlap(c, Listing!Ids(hot))
           rest == Listing!Newest(E)
<1>1. /\ Ranked(hot, InPool(c), Newer(InPool(c))) /\ Ranked(rest, E, Newer(E))
      /\ Entries(F) /\ O \in SUBSET F /\ E = F \ O
  BY DEF Laid
<1>2. IsFiniteSet(E) /\ IsFiniteSet(O) /\ E \cap O = {} /\ E \cup O = F
  BY <1>1, FS_Subset DEF Entries
<1> HIDE DEF F, E, O, hot, rest
<1>3. /\ Cardinality(F) = Cardinality(E) + Cardinality(O)
      /\ Cardinality(E) \in Nat /\ Cardinality(O) \in Nat
  <2>1. /\ Cardinality(E \cup O) = Cardinality(E) + Cardinality(O)
        /\ Cardinality(E) \in Nat /\ Cardinality(O) \in Nat
    BY <1>2, CountParts
  <2> QED
    BY <1>2, <2>1
<1>4. Listing!Count(c) = Cardinality(F)
  BY <1>1, CountIsOfAll DEF F
<1>5. Listing!Total(c, hot) = Len(hot) + Cardinality(F) - Listing!Least(Cardinality(O), Cardinality(F))
  BY <1>4, SameCount, Zenon DEF Listing!Total, O
<1>6. Listing!Least(Cardinality(O), Cardinality(F)) = Cardinality(O)
  BY <1>3 DEF Listing!Least
<1>7. Len(hot) \in Nat /\ hot \in Seq(InPool(c)) /\ rest \in Seq(E) /\ Len(rest) = Cardinality(E)
  BY <1>1 DEF Ranked
<1>8. Len(hot \o rest) = Len(hot) + Len(rest)
  BY <1>7
<1> QED
  BY <1>3, <1>5, <1>6, <1>7, <1>8 DEF hot, rest, E

-----------------------------------------------------------------------------
(* The reading of rows, chunk after chunk.  Rows are folded into what has   *)
(* been read so far, and so are chunks.                                     *)

\* Of numbers up to n + 1, itself among them, n + 1 is the greatest: it is folded last.
LEMMA MaxOfPrefix ==
  ASSUME NEW n \in Nat, NEW s \in SUBSET (1 .. n + 1), n + 1 \in s
  PROVE  Listing!Max(s) = n + 1
<1>1. \A x \in s : n + 1 >= x
  OBVIOUS
<1>2. \A y \in s : (\A x \in s : y >= x) => y = n + 1
  OBVIOUS
<1> QED
  BY <1>1, <1>2, Zenon DEF Listing!Max

\* The first n + 1 numbers are the first n and one more.
LEMMA OneMore ==
  ASSUME NEW n \in Nat, NEW k \in 0 .. n - 1
  PROVE  /\ 1 .. k + 1 \in SUBSET (1 .. n) /\ 1 .. k + 1 # {}
         /\ k + 1 \in 1 .. k + 1 /\ (1 .. k + 1) \ {k + 1} = 1 .. k
         /\ k \in 0 .. n /\ k + 1 \in 0 .. n /\ k \in Nat
<1>1. k \in Nat /\ k + 1 <= n
  OBVIOUS
<1>2. \A x : x \in (1 .. k + 1) \ {k + 1} <=> x \in 1 .. k
  BY <1>1
<1> QED
  BY <1>1, <1>2

\* A reading q is of certain rows, in chunks, and leaves out certain ids; it skips some
\* rows and takes up to a limit.  What one row does to what has been read, and one chunk.
Reading(what, q, x, r) ==
  IF what = "row" THEN Listing!TakeRow(x, r, q.ids, q.skip, q.limit)
  ELSE IF x.done THEN x
  ELSE Listing!TakeBatch(x, Listing!Batch(q.rows, x.at, q.chunk), q.chunk, q.ids, q.skip, q.limit)

\* The table that folding the first n of them fills in.
Filled(g, what, q, p, ls, n) ==
  g = [s \in SUBSET (1 .. n) |->
         IF s = {} THEN p ELSE Reading(what, q, g[s \ {Listing!Max(s)}], ls[Listing!Max(s)])]

\* A table of the first n gives one of the first n + 1.
LEMMA TableGrows ==
  ASSUME NEW what, NEW q, NEW p, NEW ls, NEW k \in Nat, NEW g, Filled(g, what, q, p, ls, k)
  PROVE  \E h : Filled(h, what, q, p, ls, k + 1)
<1> DEFINE h == [s \in SUBSET (1 .. k + 1) |->
                   IF k + 1 \in s THEN Reading(what, q, g[s \ {k + 1}], ls[k + 1]) ELSE g[s]]
<1>1. ASSUME NEW s \in SUBSET (1 .. k + 1)
      PROVE  h[s] = IF s = {} THEN p
                    ELSE Reading(what, q, h[s \ {Listing!Max(s)}], ls[Listing!Max(s)])
  <2>1. CASE k + 1 \in s
    <3>1. Listing!Max(s) = k + 1
      BY <2>1, MaxOfPrefix
    <3>2. h[s \ {k + 1}] = g[s \ {k + 1}]
      OBVIOUS
    <3>3. s # {} /\ h[s] = Reading(what, q, g[s \ {k + 1}], ls[k + 1])
      BY <2>1
    <3> QED
      BY <3>1, <3>2, <3>3, Zenon
  <2>2. CASE k + 1 \notin s
    <3>1. s \in SUBSET (1 .. k) /\ h[s] = g[s]
      BY <2>2
    <3>2. g[s] = IF s = {} THEN p
                 ELSE Reading(what, q, g[s \ {Listing!Max(s)}], ls[Listing!Max(s)])
      BY <3>1, Zenon DEF Filled
    <3>3. h[s \ {Listing!Max(s)}] = g[s \ {Listing!Max(s)}]
      BY <2>2
    <3> QED
      BY <3>1, <3>2, <3>3, Zenon
  <2> QED
    BY <2>1, <2>2
<1>2. h = [s \in SUBSET (1 .. k + 1) |-> h[s]]
  BY Zenon
<1> HIDE DEF h
<1>3. Filled(h, what, q, p, ls, k + 1)
  BY <1>1, <1>2, Zenon DEF Filled
<1> QED
  BY <1>3, Zenon

\* There is a table for any number of entries.
LEMMA TableExists ==
  ASSUME NEW what, NEW q, NEW p, NEW ls, NEW n \in Nat
  PROVE  \E g : Filled(g, what, q, p, ls, n)
<1> DEFINE S == {k \in 0 .. n : \E g : Filled(g, what, q, p, ls, k)}
<1>1. 0 \in S
  <2>1. \A s \in SUBSET (1 .. 0) : s = {}
    OBVIOUS
  <2>2. Filled([s \in SUBSET (1 .. 0) |-> p], what, q, p, ls, 0)
    BY <2>1, Zenon DEF Filled
  <2> QED
    BY <2>2, SMT
<1>2. ASSUME NEW k \in 0 .. n - 1, k \in S PROVE k + 1 \in S
  <2>1. \E g : Filled(g, what, q, p, ls, k + 1)
    BY <1>2, TableGrows
  <2>2. k + 1 \in 0 .. n
    OBVIOUS
  <2> QED
    BY <2>1, <2>2, Zenon
<1>3. n \in 0 .. n
  OBVIOUS
<1> HIDE DEF S
<1>4. n \in S
  BY <1>1, <1>2, <1>3, UpTo
<1> QED
  BY <1>4 DEF S

\* Folding is taking one after the other.
OneByOne(a, what, q, p, ls) ==
  /\ a[0] = p
  /\ \A k \in 0 .. Len(ls) - 1 : a[k + 1] = Reading(what, q, a[k], ls[k + 1])

\* The fold over a sequence is its last state when it is taken entry by entry.
LEMMA TableOneByOne ==
  ASSUME NEW what, NEW q, NEW p, NEW T, NEW ls \in Seq(T), NEW g, Filled(g, what, q, p, ls, Len(ls))
  PROVE  \E a : OneByOne(a, what, q, p, ls) /\ g[1 .. Len(ls)] = a[Len(ls)]
<1> DEFINE n == Len(ls)
           a == [k \in 0 .. n |-> g[1 .. k]]
<1>0. n \in Nat
  OBVIOUS
<1>1. a[0] = p
  <2>1. 1 .. 0 = {} /\ {} \in SUBSET (1 .. n) /\ 0 \in 0 .. n
    BY <1>0
  <2>2. g[{}] = p
    BY <2>1, Zenon DEF Filled
  <2> QED
    BY <2>1, <2>2
<1>2. ASSUME NEW k \in 0 .. n - 1 PROVE a[k + 1] = Reading(what, q, a[k], ls[k + 1])
  <2>1. /\ 1 .. k + 1 \in SUBSET (1 .. n) /\ 1 .. k + 1 # {}
        /\ k + 1 \in 1 .. k + 1 /\ (1 .. k + 1) \ {k + 1} = 1 .. k
        /\ k \in 0 .. n /\ k + 1 \in 0 .. n /\ k \in Nat
    BY <1>0, OneMore
  <2>2. Listing!Max(1 .. k + 1) = k + 1
    BY <2>1, MaxOfPrefix
  <2>3. g[1 .. k + 1] = Reading(what, q, g[1 .. k], ls[k + 1])
    BY <2>1, <2>2, Zenon DEF Filled
  <2> QED
    BY <2>1, <2>3, Zenon
<1>3. a[n] = g[1 .. n]
  BY <1>0
<1> HIDE DEF a
<1> QED
  BY <1>1, <1>2, <1>3, Zenon DEF OneByOne

\* The rows of a chunk are taken one by one.
LEMMA RowsOneByOne ==
  ASSUME NEW q, NEW acc, NEW T, NEW batch \in Seq(T)
  PROVE  \E a : /\ OneByOne(a, "row", q, acc, batch)
               /\ Listing!TakeRows(acc, batch, q.ids, q.skip, q.limit) = a[Len(batch)]
<1> DEFINE g == CHOOSE g : Filled(g, "row", q, acc, batch, Len(batch))
<1>0. DOMAIN batch = 1 .. Len(batch) /\ Len(batch) \in Nat
  OBVIOUS
<1>1. Filled(g, "row", q, acc, batch, Len(batch))
  BY <1>0, TableExists, Zenon
<1>2. Listing!TakeRows(acc, batch, q.ids, q.skip, q.limit) = g[1 .. Len(batch)]
  BY <1>0, Zenon DEF Listing!TakeRows, Listing!FoldLeft, Listing!MapThenFoldSet, Filled, Reading
<1> HIDE DEF g
<1>3. \E a : OneByOne(a, "row", q, acc, batch) /\ g[1 .. Len(batch)] = a[Len(batch)]
  BY <1>1, TableOneByOne
<1> QED
  BY <1>2, <1>3, Zenon

Unread == [out |-> << >>, skipped |-> 0, at |-> 0, done |-> FALSE]

\* The rows are read chunk by chunk.
LEMMA ChunksOneByOne ==
  ASSUME NEW q, NEW T, q.rows \in Seq(T)
  PROVE  \E a : LET n == Len(q.rows) + 1 IN
           /\ OneByOne(a, "chunk", q, Unread, [k \in 1 .. n |-> k])
           /\ Listing!FromRows(q.rows, q.ids, q.skip, q.limit, q.chunk) = a[n].out
<1> DEFINE n == Len(q.rows) + 1
           ks == [k \in 1 .. n |-> k]
           g == CHOOSE g : Filled(g, "chunk", q, Unread, ks, n)
<1>0. DOMAIN ks = 1 .. n /\ n \in Nat /\ ks \in Seq(Nat) /\ Len(ks) = n
  OBVIOUS
<1>1. Filled(g, "chunk", q, Unread, ks, n)
  BY <1>0, TableExists, Zenon
<1>2. Listing!FromRows(q.rows, q.ids, q.skip, q.limit, q.chunk) = g[1 .. n].out
  <2>1. "chunk" # "row"
    OBVIOUS
  <2>2. DOMAIN [k \in 1 .. n |-> k] = 1 .. n
    BY <1>0
  <2> QED
    BY <2>1, <2>2, ZenonT(60)
    DEF Listing!FromRows, Listing!FoldLeft, Listing!MapThenFoldSet, Filled, Reading, Unread
<1> HIDE DEF g, ks
<1>3. \E a : OneByOne(a, "chunk", q, Unread, ks) /\ g[1 .. n] = a[n]
  BY <1>0, <1>1, TableOneByOne
<1> QED
  BY <1>2, <1>3, Zenon DEF ks

\* The order of what is left of the rows: at[n] of the first n are left, and rest has
\* each of them at its place.
Sieved(q, T, rest, at) ==
  /\ q.rows \in Seq(T) /\ q.skip \in Nat /\ q.limit \in Nat \ {0} /\ q.chunk \in Nat \ {0}
  /\ rest \in Seq(T) /\ at[0] = 0 /\ Len(rest) = at[Len(q.rows)]
  /\ \A n \in 0 .. Len(q.rows) : at[n] \in Nat /\ at[n] <= Len(rest)
  /\ \A n \in 0 .. Len(q.rows) - 1 :
       IF q.rows[n + 1].id \in q.ids THEN at[n + 1] = at[n]
       ELSE at[n + 1] = at[n] + 1 /\ rest[at[n] + 1] = q.rows[n + 1]

Accounts(T) == [out : Seq(T), skipped : Nat, at : Nat, done : BOOLEAN]
Most(q, m) == IF m <= q.skip THEN 0 ELSE Listing!Least(q.limit, m - q.skip)

\* What has been read of the first n rows: the rest of them from where it begins, and
\* all of it when it is done.
ReadTo(q, T, rest, at, acc, n) ==
  /\ acc \in Accounts(T)
  /\ \A j \in 1 .. Len(acc.out) : acc.out[j] = rest[q.skip + j]
  /\ acc.done => Len(acc.out) = Most(q, Len(rest))
  /\ ~acc.done => /\ acc.skipped = Listing!Least(at[n], q.skip)
                  /\ Len(acc.out) = IF at[n] > q.skip THEN at[n] - q.skip ELSE 0
                  /\ Len(acc.out) < q.limit

\* What one row does to what has been read.
LEMMA RowTaken ==
  ASSUME NEW T, NEW acc \in Accounts(T), NEW r \in T, NEW ids, NEW skip \in Nat, NEW limit \in Nat
  PROVE  LET b == Listing!TakeRow(acc, r, ids, skip, limit) IN
         /\ b \in Accounts(T) /\ b.at = acc.at
         /\ acc.done \/ r.id \in ids => b = acc
         /\ ~acc.done /\ r.id \notin ids /\ acc.skipped < skip =>
              b.skipped = acc.skipped + 1 /\ b.out = acc.out /\ ~b.done
         /\ ~acc.done /\ r.id \notin ids /\ ~(acc.skipped < skip) =>
              /\ b.skipped = acc.skipped /\ b.out = Append(acc.out, r)
              /\ b.done <=> Len(acc.out) + 1 >= limit
<1> DEFINE b == Listing!TakeRow(acc, r, ids, skip, limit)
<1>1. CASE acc.done \/ r.id \in ids
  <2>1. b = acc
    BY <1>1 DEF Listing!TakeRow
  <2> HIDE DEF b
  <2> QED
    BY <1>1, <2>1 DEF b
<1>2. CASE ~(acc.done \/ r.id \in ids) /\ acc.skipped < skip
  <2>1. b = [acc EXCEPT !.skipped = acc.skipped + 1]
    BY <1>2, Zenon DEF Listing!TakeRow
  <2> HIDE DEF b
  <2>2. /\ b \in Accounts(T) /\ b.at = acc.at /\ b.skipped = acc.skipped + 1
        /\ b.out = acc.out /\ b.done = acc.done
    BY <2>1 DEF Accounts
  <2> QED
    BY <1>2, <2>2 DEF b
<1>3. CASE ~(acc.done \/ r.id \in ids) /\ ~(acc.skipped < skip)
  <2> DEFINE o == Append(acc.out, r)
             d == Len(acc.out) + 1 >= limit
  <2>1. b = [acc EXCEPT !.out = o, !.done = d]
    BY <1>3, Zenon DEF Listing!TakeRow
  <2>2. o \in Seq(T) /\ d \in BOOLEAN
    BY DEF Accounts
  <2> HIDE DEF b, o, d
  <2>3. b \in Accounts(T) /\ b.at = acc.at /\ b.skipped = acc.skipped /\ b.out = o /\ b.done = d
    <3>1. \A x \in Seq(T), y \in BOOLEAN :
            LET c == [acc EXCEPT !.out = x, !.done = y]
            IN  c \in Accounts(T) /\ c.at = acc.at /\ c.skipped = acc.skipped /\ c.out = x /\ c.done = y
      BY DEF Accounts
    <3> QED
      BY <2>1, <2>2, <3>1, ZenonT(60)
  <2> QED
    BY <1>3, <2>3 DEF b, o, d
<1> QED
  BY <1>1, <1>2, <1>3

\* One more row is read (queryRequestDetailsFromDBExcludingHotPool).
LEMMA RowRead ==
  ASSUME NEW q, NEW T, NEW rest, NEW at, Sieved(q, T, rest, at), NEW n \in 0 .. Len(q.rows) - 1,
         NEW acc, ReadTo(q, T, rest, at, acc, n)
  PROVE  LET b == Listing!TakeRow(acc, q.rows[n + 1], q.ids, q.skip, q.limit)
         IN  ReadTo(q, T, rest, at, b, n + 1) /\ b.at = acc.at
<1> DEFINE r == q.rows[n + 1]
           b == Listing!TakeRow(acc, r, q.ids, q.skip, q.limit)
<1>1. /\ q.rows \in Seq(T) /\ q.skip \in Nat /\ q.limit \in Nat \ {0} /\ rest \in Seq(T)
      /\ n \in 0 .. Len(q.rows) /\ n + 1 \in 0 .. Len(q.rows) /\ n + 1 \in 1 .. Len(q.rows)
  BY DEF Sieved
<1>2. /\ at[n] \in Nat /\ at[n + 1] \in Nat /\ at[n + 1] <= Len(rest) /\ Len(rest) \in Nat
      /\ IF r.id \in q.ids THEN at[n + 1] = at[n] ELSE at[n + 1] = at[n] + 1 /\ rest[at[n] + 1] = r
  BY <1>1 DEF Sieved
<1>3. /\ acc \in Accounts(T)
      /\ \A j \in 1 .. Len(acc.out) : acc.out[j] = rest[q.skip + j]
      /\ acc.done => Len(acc.out) = Most(q, Len(rest))
      /\ ~acc.done => /\ acc.skipped = Listing!Least(at[n], q.skip)
                      /\ Len(acc.out) = IF at[n] > q.skip THEN at[n] - q.skip ELSE 0
                      /\ Len(acc.out) < q.limit
  BY DEF ReadTo
<1>4. r \in T /\ acc.out \in Seq(T) /\ Len(acc.out) \in Nat /\ acc.skipped \in Nat
  BY <1>1, <1>3 DEF Accounts
<1>5. /\ b \in Accounts(T) /\ b.at = acc.at
      /\ acc.done \/ r.id \in q.ids => b = acc
      /\ ~acc.done /\ r.id \notin q.ids /\ acc.skipped < q.skip =>
           b.skipped = acc.skipped + 1 /\ b.out = acc.out /\ ~b.done
      /\ ~acc.done /\ r.id \notin q.ids /\ ~(acc.skipped < q.skip) =>
           /\ b.skipped = acc.skipped /\ b.out = Append(acc.out, r)
           /\ b.done <=> Len(acc.out) + 1 >= q.limit
  BY <1>1, <1>3, <1>4, RowTaken
<1> HIDE DEF b, r
<1>6. CASE acc.done \/ r.id \in q.ids
  BY <1>2, <1>3, <1>5, <1>6 DEF ReadTo, b, r
<1>7. CASE ~acc.done /\ r.id \notin q.ids /\ acc.skipped < q.skip
  <2>1. at[n] < q.skip /\ acc.skipped = at[n] /\ Len(acc.out) = 0
    BY <1>1, <1>2, <1>3, <1>7 DEF Listing!Least
  <2>2. /\ b.skipped = Listing!Least(at[n + 1], q.skip)
        /\ Len(b.out) = IF at[n + 1] > q.skip THEN at[n + 1] - q.skip ELSE 0
    BY <1>1, <1>2, <1>5, <1>7, <2>1 DEF Listing!Least
  <2> QED
    BY <1>3, <1>5, <1>7, <2>2 DEF ReadTo, b, r
<1>8. CASE ~acc.done /\ r.id \notin q.ids /\ ~(acc.skipped < q.skip)
  <2>1. at[n] >= q.skip /\ acc.skipped = q.skip /\ Len(acc.out) = at[n] - q.skip
    BY <1>1, <1>2, <1>3, <1>8 DEF Listing!Least
  <2>2. /\ b.out = Append(acc.out, r) /\ Len(b.out) = Len(acc.out) + 1
        /\ b.out[Len(acc.out) + 1] = r /\ \A j \in 1 .. Len(acc.out) : b.out[j] = acc.out[j]
    BY <1>4, <1>5, <1>8
  <2>3. \A j \in 1 .. Len(b.out) : b.out[j] = rest[q.skip + j]
    <3> TAKE j \in 1 .. Len(b.out)
    <3>1. CASE j \in 1 .. Len(acc.out)
      BY <1>3, <2>2, <3>1
    <3>2. CASE j \notin 1 .. Len(acc.out)
      <4>1. j = Len(acc.out) + 1
        <5>1. Len(acc.out) \in Nat /\ Len(b.out) = Len(acc.out) + 1
          BY <1>4, <2>2
        <5> HIDE DEF b
        <5> QED
          BY <3>2, <5>1
      <4>2. q.skip + j = at[n] + 1
        BY <1>1, <1>2, <1>4, <2>1, <4>1
      <4> QED
        BY <1>2, <1>8, <2>2, <4>1, <4>2
    <3> QED
      BY <3>1, <3>2
  <2>4. Len(b.out) = at[n + 1] - q.skip /\ at[n + 1] > q.skip /\ b.skipped = q.skip
    <3>1. at[n + 1] = at[n] + 1
      BY <1>2, <1>8
    <3>2. b.skipped = q.skip
      BY <1>5, <1>8, <2>1
    <3>3. at[n] \in Nat /\ q.skip \in Nat
      BY <1>1, <1>2
    <3> QED
      BY <2>1, <2>2, <3>1, <3>2, <3>3
  <2>5. b.done => Len(b.out) = Most(q, Len(rest))
    <3> HAVE b.done
    <3>1. Len(b.out) = q.limit
      BY <1>1, <1>3, <1>4, <1>5, <1>8, <2>2
    <3> QED
      BY <1>1, <1>2, <2>4, <3>1 DEF Most, Listing!Least
  <2>6. ~b.done => Len(b.out) < q.limit /\ b.skipped = Listing!Least(at[n + 1], q.skip)
    <3>1. ~b.done => ~(Len(acc.out) + 1 >= q.limit)
      BY <1>5, <1>8
    <3>2. q.skip = Listing!Least(at[n + 1], q.skip)
      BY <1>1, <1>2, <2>4 DEF Listing!Least
    <3> QED
      BY <1>1, <1>4, <2>2, <2>4, <3>1, <3>2
  <2> QED
    BY <1>5, <2>3, <2>4, <2>5, <2>6 DEF ReadTo, b, r
<1> QED
  BY <1>6, <1>7, <1>8

\* Part of a list: k of its entries from the one after o, or what there is.
IsPart(b, T, list, o, k) ==
  /\ b \in Seq(T)
  /\ Len(b) = IF o >= Len(list) THEN 0 ELSE Listing!Least(k, Len(list) - o)
  /\ \A j \in 1 .. Len(b) : b[j] = list[o + j]

\* A batch is part of its list.
LEMMA PartOfList ==
  ASSUME NEW T, NEW list \in Seq(T), NEW o \in Nat, NEW k \in Nat
  PROVE  IsPart(Listing!Batch(list, o, k), T, list, o, k)
<1> DEFINE u == Listing!Least(o + k, Len(list))
           b == SubSeq(list, o + 1, u)
<1>1. Listing!Batch(list, o, k) = b
  BY DEF Listing!Batch
<1>2. u \in Nat /\ u <= Len(list) /\ Len(list) \in Nat
  BY DEF Listing!Least
<1>3. Len(b) = IF o >= Len(list) THEN 0 ELSE Listing!Least(k, Len(list) - o)
  <2>1. Len(b) = IF o + 1 <= u THEN u - o ELSE 0
    BY <1>2
  <2> QED
    BY <1>2, <2>1 DEF Listing!Least
<1>4. \A j \in o + 1 .. u : list[j] \in T
  BY <1>2
<1>5. b \in Seq(T)
  BY <1>2, <1>4
<1>6. \A j \in 1 .. Len(b) : b[j] = list[o + j]
  BY <1>2
<1> HIDE DEF b
<1> QED
  BY <1>1, <1>3, <1>5, <1>6 DEF IsPart

ChunkTo(b, T, acc, more, last) ==
  /\ b \in Accounts(T) /\ b.out = acc.out /\ b.skipped = acc.skipped
  /\ b.done <=> acc.done \/ last
  /\ b.at = acc.at + more

\* What is noted after a chunk.
LEMMA ChunkTaken ==
  ASSUME NEW T, NEW acc \in Accounts(T), NEW more \in Nat, NEW last \in BOOLEAN
  PROVE  ChunkTo([acc EXCEPT !.done = @ \/ last, !.at = @ + more], T, acc, more, last)
<1> DEFINE d == acc.done \/ last
           m == acc.at + more
           b == [acc EXCEPT !.done = @ \/ last, !.at = @ + more]
<1>1. b = [acc EXCEPT !.done = d, !.at = m]
  OBVIOUS
<1>2. d \in BOOLEAN /\ m \in Nat
  BY DEF Accounts
<1>3. \A x \in BOOLEAN, y \in Nat :
        LET c == [acc EXCEPT !.done = x, !.at = y]
        IN  c \in Accounts(T) /\ c.out = acc.out /\ c.skipped = acc.skipped /\ c.done = x /\ c.at = y
  BY DEF Accounts
<1> HIDE DEF b, d, m
<1>4. b \in Accounts(T) /\ b.out = acc.out /\ b.skipped = acc.skipped /\ b.done = d /\ b.at = m
  BY <1>1, <1>2, <1>3, ZenonT(60)
<1>5. (b.done <=> acc.done \/ last) /\ b.at = acc.at + more
  BY <1>4 DEF d, m
<1>6. ChunkTo(b, T, acc, more, last)
  BY <1>4, <1>5, Zenon DEF ChunkTo
<1> QED
  BY <1>6 DEF b

\* A chunk is read row by row; after one that is not full there are no more rows.
LEMMA ChunkRead ==
  ASSUME NEW q, NEW T, NEW rest, NEW at, Sieved(q, T, rest, at),
         NEW acc, ReadTo(q, T, rest, at, acc, acc.at), ~acc.done, acc.at <= Len(q.rows)
  PROVE  LET b == Listing!TakeBatch(acc, Listing!Batch(q.rows, acc.at, q.chunk), q.chunk,
                                    q.ids, q.skip, q.limit)
         IN  /\ ReadTo(q, T, rest, at, b, b.at) /\ b.at \in acc.at .. Len(q.rows)
             /\ ~b.done => b.at = acc.at + q.chunk
<1> DEFINE N == Len(q.rows)
           n == acc.at
           batch == Listing!Batch(q.rows, n, q.chunk)
           m == Listing!Least(q.chunk, N - n)
           b == Listing!TakeBatch(acc, batch, q.chunk, q.ids, q.skip, q.limit)
<1>1. /\ q.rows \in Seq(T) /\ q.skip \in Nat /\ q.limit \in Nat \ {0} /\ q.chunk \in Nat \ {0}
      /\ rest \in Seq(T) /\ N \in Nat /\ Len(rest) = at[N] /\ Len(rest) \in Nat
  BY DEF Sieved
<1>2. n \in 0 .. N /\ acc \in Accounts(T)
  BY <1>1 DEF ReadTo, Accounts
<1>3. /\ batch \in Seq(T) /\ Len(batch) = m /\ m \in 0 .. N - n
      /\ \A k \in 1 .. m : batch[k] = q.rows[n + k]
  <2>1. n \in Nat /\ n <= N /\ q.chunk \in Nat
    BY <1>1, <1>2
  <2>4. IsPart(batch, T, q.rows, n, q.chunk)
    BY <1>1, <2>1, PartOfList
  <2>2. /\ batch \in Seq(T)
        /\ Len(batch) = IF n >= N THEN 0 ELSE Listing!Least(q.chunk, N - n)
        /\ \A j \in 1 .. Len(batch) : batch[j] = q.rows[n + j]
    BY <2>4, Zenon DEF IsPart
  <2>3. m \in 0 .. N - n /\ (n >= N => m = 0)
    BY <1>1, <2>1 DEF Listing!Least
  <2> HIDE DEF n, batch
  <2> QED
    BY <1>1, <2>1, <2>2, <2>3
<1>4. (m < q.chunk => n + m = N) /\ (~(m < q.chunk) => m = q.chunk)
  <2>1. n \in Nat /\ n <= N /\ q.chunk \in Nat /\ N \in Nat
    BY <1>1, <1>2
  <2> HIDE DEF n, N
  <2> QED
    BY <2>1 DEF Listing!Least
<1> HIDE DEF batch, m, N
<1>5. PICK a : /\ OneByOne(a, "row", q, acc, batch)
               /\ Listing!TakeRows(acc, batch, q.ids, q.skip, q.limit) = a[m]
  <2>1. batch \in Seq(T) /\ Len(batch) = m
    BY <1>3
  <2> HIDE DEF b, n
  <2>2. PICK a : /\ OneByOne(a, "row", q, acc, batch)
                 /\ Listing!TakeRows(acc, batch, q.ids, q.skip, q.limit) = a[Len(batch)]
    BY <2>1, RowsOneByOne, Zenon
  <2> QED
    BY <2>1, <2>2
<1>6. /\ a[0] = acc
      /\ \A k \in 0 .. m - 1 : a[k + 1] = Listing!TakeRow(a[k], batch[k + 1], q.ids, q.skip, q.limit)
  BY <1>3, <1>5, Zenon DEF OneByOne, Reading
<1> DEFINE S == {k \in 0 .. m : ReadTo(q, T, rest, at, a[k], n + k) /\ a[k].at = n}
<1>7. 0 \in S
  <2>1. 0 \in 0 .. m /\ n + 0 = n
    BY <1>2, <1>3
  <2> QED
    BY <1>6, <2>1
<1>8. ASSUME NEW k \in 0 .. m - 1, k \in S PROVE k + 1 \in S
  <2>1. /\ k + 1 \in 0 .. m /\ k + 1 \in 1 .. m /\ n + k \in 0 .. N - 1
        /\ (n + k) + 1 = n + (k + 1)
    <3>1. n \in Nat /\ N \in Nat /\ m \in Nat /\ n + m <= N
      BY <1>1, <1>2, <1>3
    <3> HIDE DEF n, b, S
    <3> QED
      BY <3>1
  <2>2. batch[k + 1] = q.rows[(n + k) + 1]
    BY <1>3, <2>1
  <2>3. a[k + 1] = Listing!TakeRow(a[k], q.rows[(n + k) + 1], q.ids, q.skip, q.limit)
    BY <1>6, <2>2
  <2>4. ReadTo(q, T, rest, at, a[k], n + k) /\ a[k].at = n
    BY <1>8
  <2>5. ReadTo(q, T, rest, at, a[k + 1], (n + k) + 1) /\ a[k + 1].at = a[k].at
    <3> DEFINE p == n + k
               c == a[k]
               d == a[k + 1]
    <3>1. p \in 0 .. Len(q.rows) - 1
      BY <2>1 DEF N
    <3>2. d = Listing!TakeRow(c, q.rows[p + 1], q.ids, q.skip, q.limit) /\ ReadTo(q, T, rest, at, c, p)
      BY <2>3, <2>4
    <3> HIDE DEF p, c, d
    <3>3. ReadTo(q, T, rest, at, d, p + 1) /\ d.at = c.at
      BY <3>1, <3>2, RowRead
    <3> QED
      BY <3>3 DEF p, c, d
  <2> QED
    BY <2>1, <2>4, <2>5
<1>9. m \in S
  <2>1. m \in Nat /\ m \in 0 .. m
    BY <1>1, <1>2, <1>3
  <2> HIDE DEF S
  <2> QED
    BY <1>7, <1>8, <2>1, UpTo
<1>10. ReadTo(q, T, rest, at, a[m], n + m) /\ a[m].at = n /\ m \in Nat
  BY <1>1, <1>2, <1>3, <1>9
<1>11. b = [a[m] EXCEPT !.done = @ \/ m < q.chunk, !.at = @ + m]
  BY <1>3, <1>5, Zenon DEF Listing!TakeBatch
<1>12. /\ b \in Accounts(T) /\ b.out = a[m].out /\ b.skipped = a[m].skipped
       /\ b.done <=> a[m].done \/ m < q.chunk
       /\ b.at = n + m
  <2>1. a[m] \in Accounts(T)
    BY <1>10 DEF ReadTo
  <2> DEFINE last == m < q.chunk
  <2>2. last \in BOOLEAN
    OBVIOUS
  <2>3. b = [a[m] EXCEPT !.done = @ \/ last, !.at = @ + m]
    BY <1>11
  <2> HIDE DEF last, b
  <2>5. ChunkTo(b, T, a[m], m, last)
    <3> DEFINE c == a[m]
    <3> HIDE DEF c
    <3>1. ChunkTo([c EXCEPT !.done = @ \/ last, !.at = @ + m], T, c, m, last)
      BY <1>10, <2>1, <2>2, ChunkTaken DEF c
    <3> QED
      BY <2>3, <3>1 DEF c
  <2>4. /\ b \in Accounts(T) /\ b.out = a[m].out /\ b.skipped = a[m].skipped
        /\ b.done <=> a[m].done \/ last
        /\ b.at = a[m].at + m
    BY <2>5, Zenon DEF ChunkTo
  <2> QED
    BY <1>10, <2>4 DEF last
<1> HIDE DEF b, n
<1>13. ReadTo(q, T, rest, at, b, b.at)
  <2>1. b.done => Len(b.out) = Most(q, Len(rest))
    <3>1. CASE a[m].done
      BY <1>10, <1>12, <3>1 DEF ReadTo
    <3>2. CASE ~a[m].done /\ m < q.chunk
      <4>1. /\ Len(b.out) = IF at[N] > q.skip THEN at[N] - q.skip ELSE 0
            /\ Len(b.out) < q.limit
        BY <1>4, <1>10, <1>12, <3>2 DEF ReadTo
      <4> QED
        BY <1>1, <4>1 DEF Most, Listing!Least
    <3> QED
      BY <1>12, <3>1, <3>2
  <2> QED
    BY <1>10, <1>12, <2>1 DEF ReadTo
<1>14. b.at \in n .. N /\ (~b.done => b.at = n + q.chunk)
  BY <1>1, <1>2, <1>3, <1>4, <1>12
<1> QED
  BY <1>13, <1>14 DEF b, n, N, batch

\* Chunk after chunk, all rows are read that are asked for.
LEMMA RestRead ==
  ASSUME NEW q, NEW T, NEW rest, NEW at, Sieved(q, T, rest, at)
  PROVE  IsPart(Listing!FromRows(q.rows, q.ids, q.skip, q.limit, q.chunk), T, rest, q.skip, q.limit)
<1> DEFINE N == Len(q.rows)
           ks == [k \in 1 .. N + 1 |-> k]
<1>1. /\ q.rows \in Seq(T) /\ q.skip \in Nat /\ q.limit \in Nat \ {0} /\ q.chunk \in Nat \ {0}
      /\ rest \in Seq(T) /\ N \in Nat /\ Len(rest) \in Nat /\ at[0] = 0
  BY DEF Sieved
<1>2. PICK a : /\ OneByOne(a, "chunk", q, Unread, ks)
               /\ Listing!FromRows(q.rows, q.ids, q.skip, q.limit, q.chunk) = a[N + 1].out
  BY <1>1, ChunksOneByOne
<1>3. /\ a[0] = Unread
      /\ \A k \in 0 .. N :
           a[k + 1] = IF a[k].done THEN a[k]
                      ELSE Listing!TakeBatch(a[k], Listing!Batch(q.rows, a[k].at, q.chunk), q.chunk,
                                             q.ids, q.skip, q.limit)
  <2>1. Len(ks) = N + 1 /\ (N + 1) - 1 = N /\ "chunk" # "row"
    BY <1>1
  <2> HIDE DEF ks, N
  <2> QED
    BY <1>2, <2>1, Zenon DEF OneByOne, Reading
<1> DEFINE Good(x, k) == /\ ReadTo(q, T, rest, at, x, x.at) /\ x.at \in 0 .. N
                         /\ x.done \/ x.at >= k
           S == {k \in 0 .. N + 1 : Good(a[k], k)}
<1>4. 0 \in S
  <2>1. /\ Unread \in Accounts(T) /\ Unread.at = 0 /\ Unread.out = << >>
        /\ ~Unread.done /\ Unread.skipped = 0
    BY DEF Unread, Accounts
  <2>2. ReadTo(q, T, rest, at, Unread, 0)
    <3>1. Listing!Least(at[0], q.skip) = 0 /\ ~(at[0] > q.skip) /\ 0 < q.limit
      BY <1>1 DEF Listing!Least
    <3> QED
      BY <2>1, <3>1 DEF ReadTo
  <2> QED
    BY <1>1, <1>3, <2>1, <2>2
<1>5. ASSUME NEW k \in 0 .. (N + 1) - 1, k \in S PROVE k + 1 \in S
  <2> DEFINE x == a[k]
             y == a[k + 1]
  <2>1. Good(x, k) /\ k \in 0 .. N /\ k + 1 \in 0 .. N + 1
    BY <1>1, <1>5
  <2>2. y = IF x.done THEN x
            ELSE Listing!TakeBatch(x, Listing!Batch(q.rows, x.at, q.chunk), q.chunk,
                                   q.ids, q.skip, q.limit)
    BY <1>3, <2>1
  <2> HIDE DEF x, y
  <2>3. CASE x.done
    <3>1. y = x
      BY <2>2, <2>3
    <3>2. Good(y, k + 1)
      BY <2>1, <2>3, <3>1
    <3> QED
      BY <2>1, <3>2 DEF y
  <2>4. CASE ~x.done
    <3>1. y = Listing!TakeBatch(x, Listing!Batch(q.rows, x.at, q.chunk), q.chunk, q.ids, q.skip, q.limit)
      BY <2>2, <2>4
    <3>2. x.at \in Nat /\ x.at <= N /\ x.at >= k
      BY <1>1, <2>1, <2>4
    <3>3. /\ ReadTo(q, T, rest, at, y, y.at) /\ y.at \in x.at .. N
          /\ ~y.done => y.at = x.at + q.chunk
      BY <2>1, <2>4, <3>1, <3>2, ChunkRead
    <3>4. y.at \in 0 .. N /\ (y.done \/ y.at >= k + 1)
      BY <1>1, <2>1, <3>2, <3>3
    <3>5. Good(y, k + 1)
      BY <3>3, <3>4
    <3> QED
      BY <2>1, <3>5 DEF y
  <2> QED
    BY <2>3, <2>4
<1>6. Good(a[N + 1], N + 1)
  <2>1. N + 1 \in 0 .. N + 1 /\ N + 1 \in Nat
    BY <1>1
  <2> HIDE DEF Good
  <2>2. N + 1 \in S
    <3> HIDE DEF S
    <3> QED
      BY <1>4, <1>5, <2>1, UpTo
  <2> QED
    BY <2>2
<1>7. a[N + 1].done /\ ReadTo(q, T, rest, at, a[N + 1], a[N + 1].at)
  BY <1>1, <1>6
<1> QED
  BY <1>1, <1>2, <1>7 DEF ReadTo, IsPart, Most, Accounts

\* The rows that are left have their places in the list of them.
LEMMA RowsSieved ==
  ASSUME NEW F, Entries(F), Apart(F), NEW q, Ranked(q.rows, F, Newer(F)),
         NEW E, E = {r \in F : r.id \notin q.ids}, NEW rest, Ranked(rest, E, Newer(E)),
         q.skip \in Nat, q.limit \in Nat \ {0}, q.chunk \in Nat \ {0}
  PROVE  \E at : Sieved(q, F, rest, at)
<1> DEFINE N == Len(q.rows)
           left(n) == {x \in E : \E k \in 1 .. n : q.rows[k] = x}
           at == [n \in 0 .. N |-> Cardinality(left(n))]
<1>1. /\ q.rows \in Seq(F) /\ N \in Nat /\ \A x \in F : \E k \in 1 .. N : q.rows[k] = x
      /\ \A i, j \in 1 .. N : i < j => q.rows[i] # q.rows[j] /\ <<q.rows[i], q.rows[j]>> \in Newer(F)
  <2>1. \A x \in F : \E k \in 1 .. N : q.rows[k] = x
    BY Zenon DEF Ranked
  <2> QED
    BY <2>1 DEF Ranked
<1>2. /\ rest \in Seq(E) /\ Len(rest) = Cardinality(E) /\ Cardinality(E) \in Nat
      /\ \A x \in E : rest[Cardinality({y \in E : <<y, x>> \in Newer(E)}) + 1] = x
  <2>1. \A x \in E : rest[Cardinality({y \in E : <<y, x>> \in Newer(E)}) + 1] = x
    BY Zenon DEF Ranked
  <2> QED
    BY <2>1 DEF Ranked
<1>3. E \in SUBSET F /\ IsFiniteSet(E)
  BY FS_Subset DEF Entries
<1>4. rest \in Seq(F)
  BY <1>2, <1>3
<1>5. \A n \in 0 .. N : /\ left(n) \in SUBSET E /\ IsFiniteSet(left(n))
                        /\ Cardinality(left(n)) \in Nat /\ Cardinality(left(n)) <= Cardinality(E)
  <2> TAKE n \in 0 .. N
  <2> DEFINE L == left(n)
  <2>1. L \in SUBSET E
    OBVIOUS
  <2> HIDE DEF L
  <2>2. IsFiniteSet(L) /\ Cardinality(L) <= Cardinality(E) /\ Cardinality(L) \in Nat
    BY <1>3, <2>1, FS_Subset, FS_CardinalityType
  <2> QED
    BY <2>1, <2>2 DEF L
<1>6. at[0] = 0
  <2>1. left(0) = {} /\ 0 \in 0 .. N
    BY <1>1
  <2> QED
    BY <2>1, FS_EmptySet
<1>7. at[N] = Len(rest)
  <2>1. left(N) = E /\ N \in 0 .. N
    BY <1>1, <1>3
  <2> QED
    BY <1>2, <2>1
<1>8. ASSUME NEW n \in 0 .. N - 1
      PROVE  IF q.rows[n + 1].id \in q.ids THEN at[n + 1] = at[n]
             ELSE at[n + 1] = at[n] + 1 /\ rest[at[n] + 1] = q.rows[n + 1]
  <2> DEFINE x == q.rows[n + 1]
  <2>1. /\ n \in 0 .. N /\ n + 1 \in 0 .. N /\ n + 1 \in 1 .. N /\ n \in Nat
        /\ \A k \in 1 .. n + 1 : k \in 1 .. n \/ k = n + 1
        /\ \A k \in 1 .. n : k \in 1 .. n + 1 /\ k \in 1 .. N /\ k < n + 1
    <3>1. N \in Nat
      BY <1>1
    <3> HIDE DEF N, left, at, x
    <3> QED
      BY <3>1
  <2>2. at[n] = Cardinality(left(n)) /\ at[n + 1] = Cardinality(left(n + 1)) /\ x \in F
    <3>1. x \in F
      BY <1>1, <2>1
    <3> HIDE DEF left, x
    <3> QED
      BY <2>1, <3>1
  <2> HIDE DEF at
  <2>3. CASE x.id \in q.ids
    <3>1. x \notin E
      BY <2>3
    <3>2. left(n + 1) = left(n)
      BY <2>1, <3>1
    <3> QED
      BY <2>2, <2>3, <3>2
  <2>4. CASE x.id \notin q.ids
    <3>1. x \in E
      BY <2>2, <2>4
    <3>2. left(n + 1) = left(n) \cup {x}
      BY <2>1, <3>1
    <3>3. x \notin left(n)
      BY <1>1, <2>1
    <3>4. Cardinality(left(n + 1)) = Cardinality(left(n)) + 1
      <4> DEFINE L == left(n)
      <4>1. IsFiniteSet(L) /\ x \notin L
        BY <1>5, <2>1, <3>3
      <4> HIDE DEF L, x
      <4>2. Cardinality(L \cup {x}) = Cardinality(L) + 1
        BY <4>1, FS_AddElement
      <4> QED
        BY <3>2, <4>2 DEF L
    <3>5. left(n) = {y \in E : <<y, x>> \in Newer(E)}
      <4>1. \A y, z \in F : <<y, z>> \in Newer(F) <=> y.start > z.start
        BY DEF Newer
      <4>2. \A y, z \in E : <<y, z>> \in Newer(E) <=> y.start > z.start
        BY DEF Newer
      <4>3. \A y \in F : y.start \in Int
        BY DEF Entries
      <4>4. ASSUME NEW y \in E, NEW k \in 1 .. n, q.rows[k] = y PROVE y.start > x.start
        <5>1. k \in 1 .. N /\ n + 1 \in 1 .. N /\ k < n + 1
          BY <2>1
        <5>2. <<q.rows[k], q.rows[n + 1]>> \in Newer(F)
          BY <1>1, <5>1
        <5>3. y \in F /\ x \in F /\ <<y, x>> \in Newer(F)
          BY <1>3, <2>2, <4>4, <5>2
        <5> HIDE DEF x
        <5> QED
          BY <4>1, <5>3
      <4>5. ASSUME NEW y \in E, y.start > x.start PROVE \E k \in 1 .. n : q.rows[k] = y
        <5>1. PICK k \in 1 .. N : q.rows[k] = y
          BY <1>1, <1>3
        <5>2. y \in F /\ y.start \in Int /\ x.start \in Int /\ ~(x.start > y.start)
          BY <1>3, <2>2, <4>3, <4>5
        <5>3. k # n + 1
          BY <4>5, <5>1, <5>2
        <5>4. ~(n + 1 < k)
          <6> SUFFICES ASSUME n + 1 < k PROVE FALSE
            OBVIOUS
          <6>1. <<x, y>> \in Newer(F)
            BY <1>1, <2>1, <5>1
          <6> QED
            BY <2>2, <4>1, <5>2, <6>1
        <5>5. k \in 1 .. n
          BY <2>1, <5>3, <5>4
        <5> QED
          BY <5>1, <5>5
      <4> HIDE DEF x
      <4>6. \A y \in E : y \in left(n) <=> <<y, x>> \in Newer(E)
        BY <3>1, <4>2, <4>4, <4>5
      <4> QED
        BY <4>6
    <3>6. rest[Cardinality(left(n)) + 1] = x
      BY <1>2, <3>1, <3>5
    <3> QED
      BY <2>2, <2>4, <3>4, <3>6
  <2> QED
    BY <2>3, <2>4
<1>9. \A n \in 0 .. N : at[n] \in Nat /\ at[n] <= Len(rest)
  <2> HIDE DEF left, N
  <2>1. \A n \in 0 .. N : at[n] = Cardinality(left(n))
    OBVIOUS
  <2> HIDE DEF at
  <2> QED
    BY <1>2, <1>5, <2>1
<1> HIDE DEF at
<1>10. Sieved(q, F, rest, at)
  BY <1>1, <1>4, <1>6, <1>7, <1>8, <1>9 DEF Sieved
<1> QED
  BY <1>10

\* A part is what it should be.
LEMMA OnePart ==
  ASSUME NEW T, NEW list, NEW o \in Nat, NEW k \in Nat, NEW b, IsPart(b, T, list, o, k),
         NEW c, IsPart(c, T, list, o, k)
  PROVE  b = c
<1>1. b \in Seq(T) /\ c \in Seq(T) /\ Len(b) = Len(c) /\ \A j \in 1 .. Len(b) : b[j] = c[j]
  BY DEF IsPart
<1> QED
  BY <1>1

\* How many entries of a page are of the first h of a list, and which of the other r.
Held(h, o, l) == IF o >= h THEN 0 ELSE Listing!Least(l, h - o)
FirstFit(h, r, o, l, f) ==
  f <= l /\ (\A j \in 1 .. f : o + j \in 1 .. h) /\ (f = l => f = Held(h + r, o, l))
MoreFit(h, r, o, l, f, s, m) ==
  /\ f + m = Held(h + r, o, l)
  /\ \A i \in 1 .. m : s + i \in 1 .. r /\ o + (f + i) = h + (s + i)

\* How many come from the pool.
LEMMA PageNumbers ==
  ASSUME NEW h \in Nat, NEW r \in Nat, NEW o \in Nat, NEW l \in Nat \ {0},
         NEW f \in Nat, f = Held(h, o, l)
  PROVE  FirstFit(h, r, o, l, f)
<1>1. CASE o >= h
  BY <1>1 DEF Listing!Least, Held, FirstFit
<1>2. CASE o < h
  BY <1>2 DEF Listing!Least, Held, FirstFit
<1> QED
  BY <1>1, <1>2

\* How many come from the rows, and from where on.
LEMMA MoreNumbers ==
  ASSUME NEW h \in Nat, NEW r \in Nat, NEW o \in Nat, NEW l \in Nat \ {0},
         NEW f \in Nat, f = Held(h, o, l), f # l,
         NEW s \in Nat, s = Listing!Skip(o, h),
         NEW m \in Nat, m = Held(r, s, l - f)
  PROVE  MoreFit(h, r, o, l, f, s, m)
<1>1. CASE o > h
  <2>1. f = 0 /\ s = o - h
    BY <1>1 DEF Listing!Skip, Held
  <2> QED
    BY <1>1, <2>1 DEF Listing!Least, Held, MoreFit
<1>2. CASE o <= h
  <2>1. f = h - o /\ s = 0
    BY <1>2 DEF Listing!Skip, Listing!Least, Held
  <2> QED
    BY <1>2, <2>1 DEF Listing!Least, Held, MoreFit
<1> QED
  BY <1>1, <1>2

\* A part of one list, and of the next the part that follows, are part of both in a row.
LEMMA PartOfBoth ==
  ASSUME NEW T, NEW hot \in Seq(T), NEW rest \in Seq(T), NEW o \in Nat, NEW l \in Nat \ {0},
         NEW first, IsPart(first, T, hot, o, l)
  PROVE  /\ Len(first) \in Nat /\ Len(first) <= l
         /\ Len(first) = l => IsPart(first, T, hot \o rest, o, l)
         /\ Len(first) # l =>
              \A more : IsPart(more, T, rest, Listing!Skip(o, Len(hot)), l - Len(first)) =>
                          IsPart(first \o more, T, hot \o rest, o, l)
<1> DEFINE h == Len(hot)
           r == Len(rest)
           f == Len(first)
           list == hot \o rest
<1>1. /\ list \in Seq(T) /\ Len(list) = h + r
      /\ \A j \in 1 .. h : list[j] = hot[j]
      /\ \A j \in 1 .. r : list[h + j] = rest[j]
  OBVIOUS
<1>0. h \in Nat /\ r \in Nat
  OBVIOUS
<1>2. /\ first \in Seq(T)
      /\ \A j \in 1 .. f : first[j] = hot[o + j]
  BY DEF IsPart
<1>9. f = Held(h, o, l)
  BY DEF IsPart, Held
<1>3. f \in Nat
  BY <1>2
<1> HIDE DEF h, r, f, list
<1>10. FirstFit(h, r, o, l, f)
  BY <1>0, <1>3, <1>9, PageNumbers
<1>4. /\ f <= l /\ \A j \in 1 .. f : o + j \in 1 .. h
      /\ f = l => f = Held(h + r, o, l)
  BY <1>10, Zenon DEF FirstFit
<1>5. \A j \in 1 .. f : first[j] = list[o + j]
  BY <1>1, <1>2, <1>4
<1>6. f = l => IsPart(first, T, list, o, l)
  BY <1>1, <1>2, <1>4, <1>5 DEF IsPart, f, Held
<1>7. ASSUME f # l, NEW more, IsPart(more, T, rest, Listing!Skip(o, h), l - f)
      PROVE  IsPart(first \o more, T, list, o, l)
  <2> DEFINE s == Listing!Skip(o, h)
             m == Len(more)
             page == first \o more
  <2>1. s \in Nat
    BY <1>0 DEF Listing!Skip
  <2>2. /\ more \in Seq(T)
        /\ \A j \in 1 .. m : more[j] = rest[s + j]
    BY <1>7 DEF IsPart
  <2>8. m = Held(r, s, l - f)
    BY <1>7 DEF IsPart, r, Held
  <2>3. m \in Nat
    BY <2>2
  <2>4. /\ page \in Seq(T) /\ Len(page) = f + m
        /\ \A j \in 1 .. f : page[j] = first[j]
        /\ \A j \in 1 .. m : page[f + j] = more[j]
    <3>1. first \in Seq(T) /\ more \in Seq(T)
      BY <1>2, <2>2
    <3> USE DEF f
    <3>2. page \in Seq(T) /\ Len(page) = f + m
      BY ONLY <3>1
    <3>3. \A j \in 1 .. f : page[j] = first[j]
      BY ONLY <3>1
    <3>4. \A j \in 1 .. m : page[f + j] = more[j]
      BY ONLY <3>1
    <3> QED
      BY <3>2, <3>3, <3>4
  <2>5. s = Listing!Skip(o, h)
    OBVIOUS
  <2> HIDE DEF s, m, page
  <2>9. MoreFit(h, r, o, l, f, s, m)
    BY <1>0, <1>3, <1>9, <1>7, <2>1, <2>3, <2>5, <2>8, MoreNumbers
  <2>6. /\ f + m = Held(h + r, o, l)
        /\ \A i \in 1 .. m : s + i \in 1 .. r /\ o + (f + i) = h + (s + i)
    BY <2>9, Zenon DEF MoreFit
  <2>7. ASSUME NEW j \in 1 .. f + m PROVE page[j] = list[o + j]
    <3>1. CASE j \in 1 .. f
      BY <1>5, <2>4, <3>1
    <3>2. CASE j \notin 1 .. f
      <4>1. PICK i \in 1 .. m : j = f + i
        <5>1. j - f \in 1 .. m /\ j = f + (j - f)
          BY <1>3, <2>3, <3>2
        <5> QED
          BY <5>1
      <4>2. page[j] = rest[s + i]
        BY <2>2, <2>4, <4>1
      <4>3. list[o + j] = rest[s + i]
        BY <1>1, <2>6, <4>1
      <4> QED
        BY <4>2, <4>3
    <3> QED
      BY <3>1, <3>2
  <2> QED
    BY <1>1, <2>4, <2>6, <2>7 DEF IsPart, page, Held
<1> QED
  BY <1>3, <1>4, <1>6, <1>7 DEF h, f, list

\* A page is the part of the list from its offset on: first of what is in the pool,
\* then of the rows that are not.
LEMMA PageIsPart ==
  ASSUME NEW T, NEW hot \in Seq(T), NEW rest \in Seq(T), NEW rows, NEW offset \in Nat,
         NEW limit \in Nat \ {0},
         Cardinality(Listing!Ids(hot)) \in Nat,
         \A skip \in Nat, n \in Nat \ {0}, chunk \in Nat \ {0} :
           IsPart(Listing!FromRows(rows, Listing!Ids(hot), skip, n, chunk), T, rest, skip, n)
  PROVE  Listing!Page(rows, hot, offset, limit) = Listing!Batch(hot \o rest, offset, limit)
<1> DEFINE first == Listing!FromPool(hot, offset, limit)
           list == hot \o rest
           ids == Listing!Ids(hot)
           n == limit - Len(first)
           skip == Listing!Skip(offset, Len(hot))
           chunk == Listing!Chunk(n, ids)
           more == Listing!FromRows(rows, ids, skip, n, chunk)
           page == Listing!Page(rows, hot, offset, limit)
<1>1. list \in Seq(T) /\ Len(hot) \in Nat
  OBVIOUS
<1>2. IsPart(first, T, hot, offset, limit)
  <2>1. first = Listing!Batch(hot, offset, limit)
    BY DEF Listing!FromPool, Listing!Batch
  <2> QED
    BY <2>1, PartOfList
<1>3. page = IF Len(first) = limit THEN first ELSE first \o more
  BY Zenon DEF Listing!Page, Listing!Fill
<1> HIDE DEF first, page
<1>4. /\ Len(first) \in Nat /\ Len(first) <= limit
      /\ Len(first) = limit => IsPart(first, T, list, offset, limit)
      /\ Len(first) # limit =>
           \A x : IsPart(x, T, rest, skip, n) => IsPart(first \o x, T, list, offset, limit)
  BY <1>2, PartOfBoth
<1>5. Len(first) # limit => IsPart(more, T, rest, skip, n)
  <2> HAVE Len(first) # limit
  <2>1. n \in Nat \ {0} /\ skip \in Nat
    BY <1>1, <1>4 DEF Listing!Skip
  <2>2. chunk \in Nat \ {0}
    <3>1. Listing!Cardinality(ids) \in Nat
      BY SameCount
    <3>2. MinChunk \in Nat \ {0} /\ MaxChunk \in Nat \ {0}
      BY PartsAssumption
    <3> HIDE DEF n, ids
    <3> QED
      BY <2>1, <3>1, <3>2 DEF Listing!Chunk, Listing!Least
  <2> HIDE DEF n, skip, chunk
  <2> QED
    BY <2>1, <2>2
<1> HIDE DEF list, more, n, skip
<1>6. IsPart(page, T, list, offset, limit)
  BY <1>3, <1>4, <1>5
<1>7. IsPart(Listing!Batch(list, offset, limit), T, list, offset, limit)
  BY <1>1, PartOfList
<1>8. page = Listing!Batch(list, offset, limit)
  BY <1>6, <1>7, OnePart
<1> QED
  BY <1>8 DEF page, list

\* A sequence of some is a sequence of more.
LEMMA PartOfMore ==
  ASSUME NEW F, NEW T, F \subseteq T, NEW b, NEW list, NEW o, NEW k, IsPart(b, F, list, o, k)
  PROVE  IsPart(b, T, list, o, k)
<1>1. b \in Seq(F)
  BY DEF IsPart
<1>2. b \in Seq(T)
  <2>1. b = [j \in 1 .. Len(b) |-> b[j]] /\ Len(b) \in Nat /\ \A j \in 1 .. Len(b) : b[j] \in T
    BY <1>1
  <2> QED
    BY <2>1
<1> QED
  BY <1>2 DEF IsPart

\* From the rows come those that are left, whatever chunk is read at a time.
LEMMA RowsArePart ==
  ASSUME NEW F, Entries(F), Apart(F), NEW rows, Ranked(rows, F, Newer(F)), NEW ids,
         NEW E, E = {r \in F : r.id \notin ids}, NEW rest, Ranked(rest, E, Newer(E)),
         NEW skip \in Nat, NEW n \in Nat \ {0}, NEW chunk \in Nat \ {0}
  PROVE  IsPart(Listing!FromRows(rows, ids, skip, n, chunk), F, rest, skip, n)
<1> DEFINE q == [rows |-> rows, ids |-> ids, skip |-> skip, limit |-> n, chunk |-> chunk]
<1>1. q.rows = rows /\ q.ids = ids /\ q.skip = skip /\ q.limit = n /\ q.chunk = chunk
  OBVIOUS
<1> HIDE DEF q
<1>2. E = {r \in F : r.id \notin q.ids} /\ Ranked(q.rows, F, Newer(F))
  BY <1>1
<1>3. q.skip \in Nat /\ q.limit \in Nat \ {0} /\ q.chunk \in Nat \ {0}
  BY <1>1
<1>4. PICK at : Sieved(q, F, rest, at)
  BY <1>2, <1>3, RowsSieved
<1>5. IsPart(Listing!FromRows(q.rows, q.ids, q.skip, q.limit, q.chunk), F, rest, q.skip, q.limit)
  BY <1>4, RestRead
<1> QED
  BY <1>1, <1>5

\* Turning the pages of any listing shows every request that fits once, the total says
\* how many they are, and the statistics are theirs.
THEOREM PagesShowAll ==
  ASSUME NEW c, Asked(c)
  PROVE  Listing!PagesShowEachOnce(c)
<1> DEFINE H == InPool(c)
           F == Listing!Found(c)
           E == Listing!Unpooled(c)
           hot == Listing!Hot(c)
           rows == Listing!Newest(F)
           rest == Listing!Newest(E)
           ids == Listing!Ids(hot)
           O == Listing!Overlap(c, ids)
           T == H \cup F
           list == hot \o rest
<1>1. Laid(c)
  BY ListingLaid
<1>2. /\ Ranked(hot, H, Newer(H)) /\ Ranked(rows, F, Newer(F)) /\ Ranked(rest, E, Newer(E))
      /\ Entries(H) /\ Entries(F) /\ Entries(E) /\ Apart(F)
      /\ O \in SUBSET F /\ E = F \ O /\ H \cap E = {}
      /\ E = {r \in F : r.id \notin ids} /\ Cardinality(ids) \in Nat
  BY <1>1, Zenon DEF Laid
<1>3. c.opts.limit \in Nat \ {0}
  BY DEF Asked
<1>4. Listing!Total(c, hot) = Len(list)
  BY <1>1, TotalIsLength
<1>5. Listing!Aggregate(c, hot)
        = Listing!Added(Listing!Subtracted(Listing!Stats(F), Listing!Stats(O)),
                        Listing!Stats(Listing!ToSet(hot)))
  BY Zenon DEF Listing!Aggregate
<1>6. Listing!PagesShowEachOnce(c) = Listing!Right(c, hot, rows, list)
  BY Zenon DEF Listing!PagesShowEachOnce
<1> HIDE DEF H, F, E, hot, rows, rest, ids, O
<1>7. hot \in Seq(T) /\ rest \in Seq(T)
  <2>1. hot \in Seq(H) /\ rest \in Seq(E)
    BY <1>2 DEF Ranked
  <2>2. \A q, X : q \in Seq(X) /\ X \subseteq T => q \in Seq(T)
    <3> TAKE q, X
    <3> HAVE q \in Seq(X) /\ X \subseteq T
    <3>1. q = [j \in 1 .. Len(q) |-> q[j]] /\ Len(q) \in Nat /\ \A j \in 1 .. Len(q) : q[j] \in T
      OBVIOUS
    <3> QED
      BY <3>1
  <2>3. H \subseteq T /\ E \subseteq T
    BY <1>2
  <2> HIDE DEF T
  <2> QED
    BY <2>1, <2>2, <2>3
<1>8. \A skip \in Nat, n \in Nat \ {0}, chunk \in Nat \ {0} :
        IsPart(Listing!FromRows(rows, ids, skip, n, chunk), T, rest, skip, n)
  <2> TAKE skip \in Nat, n \in Nat \ {0}, chunk \in Nat \ {0}
  <2>1. IsPart(Listing!FromRows(rows, ids, skip, n, chunk), F, rest, skip, n)
    BY <1>2, RowsArePart
  <2>2. F \subseteq T
    OBVIOUS
  <2> HIDE DEF T
  <2> QED
    BY <2>1, <2>2, PartOfMore
<1> HIDE DEF T
<1>9. ASSUME NEW offset \in 0 .. Len(list)
      PROVE  Listing!Page(rows, hot, offset, c.opts.limit) = Listing!Batch(list, offset, c.opts.limit)
  <2>1. offset \in Nat
    OBVIOUS
  <2>2. Cardinality(Listing!Ids(hot)) \in Nat
    BY <1>2 DEF ids
  <2> DEFINE limit == c.opts.limit
  <2>3. limit \in Nat \ {0}
    BY <1>3
  <2> HIDE DEF limit
  <2>4. Listing!Page(rows, hot, offset, limit) = Listing!Batch(hot \o rest, offset, limit)
    BY <1>7, <1>8, <2>1, <2>2, <2>3, PageIsPart DEF ids
  <2> QED
    BY <2>4 DEF limit
<1>10. Listing!ToSet(list) = H \cup (F \ O)
  <2>1. Listing!ToSet(hot) = H /\ Listing!ToSet(rest) = E
    <3>1. IsFiniteSet(H) /\ IsFiniteSet(E)
      BY <1>2 DEF Entries
    <3> QED
      BY <1>2, <3>1, IdsOfList
  <2>2. Listing!ToSet(list) = Listing!ToSet(hot) \cup Listing!ToSet(rest)
    <3>1. /\ Len(hot) \in Nat /\ Len(rest) \in Nat /\ Len(list) = Len(hot) + Len(rest)
          /\ DOMAIN list = 1 .. Len(list) /\ DOMAIN hot = 1 .. Len(hot) /\ DOMAIN rest = 1 .. Len(rest)
          /\ \A j \in 1 .. Len(list) : list[j] = IF j <= Len(hot) THEN hot[j] ELSE rest[j - Len(hot)]
      BY <1>7
    <3> HIDE DEF list
    <3>2. \A j \in 1 .. Len(hot) : j \in 1 .. Len(list) /\ list[j] = hot[j]
      BY <3>1
    <3>3. \A j \in 1 .. Len(rest) : Len(hot) + j \in 1 .. Len(list) /\ list[Len(hot) + j] = rest[j]
      BY <3>1
    <3>4. \A j \in 1 .. Len(list) : list[j] \in Listing!ToSet(hot) \cup Listing!ToSet(rest)
      BY <3>1 DEF Listing!ToSet
    <3>5. \A x \in Listing!ToSet(hot) : x \in Listing!ToSet(list)
      BY <3>1, <3>2 DEF Listing!ToSet
    <3>6. \A x \in Listing!ToSet(rest) : x \in Listing!ToSet(list)
      BY <3>1, <3>3 DEF Listing!ToSet
    <3>7. \A x \in Listing!ToSet(list) : x \in Listing!ToSet(hot) \cup Listing!ToSet(rest)
      BY <3>1, <3>4 DEF Listing!ToSet
    <3> QED
      BY <3>5, <3>6, <3>7, Zenon
  <2> QED
    BY <1>2, <2>1, <2>2
<1>11. Listing!Aggregate(c, hot) = Listing!Stats(Listing!ToSet(list))
  <2>1. Listing!ToSet(hot) = H
    BY <1>2, IdsOfList DEF Entries
  <2>2. Listing!Added(Listing!Subtracted(Listing!Stats(F), Listing!Stats(O)), Listing!Stats(H))
          = Listing!Stats(H \cup (F \ O))
    <3>1. H \cap (F \ O) = {}
      BY <1>2
    <3> QED
      BY <1>2, <3>1, MeasuredOnce
  <2> QED
    BY <1>5, <1>10, <2>1, <2>2
<1>12. Listing!Right(c, hot, rows, list)
  BY <1>4, <1>9, <1>11, Zenon DEF Listing!Right
<1> QED
  BY <1>6, <1>12

\* What the listings that are tried are made of.
Numbered(r, k) ==
  /\ r.id = k /\ r.start = k /\ r.kind \in {"endpoint", "account"}
  /\ r.tokens \in Nat /\ r.took \in Nat

\* Such a request has its number as its id and its start.
LEMMA RequestNumbered ==
  ASSUME NEW k \in 1 .. 4, NEW where, NEW inRow \in BOOLEAN
  PROVE  Numbered(Request(k, where, inRow), k)
<1> DEFINE kind == IF k = 2 THEN "account" ELSE "endpoint"
           status == IF ~inRow THEN (IF k = 3 THEN "failed" ELSE "pending")
                     ELSE IF where = "both" THEN "pending" ELSE IF k = 1 THEN "timeout" ELSE "completed"
           tokens == IF inRow THEN k ELSE 10 * k
           took == IF inRow /\ where # "both" THEN k ELSE 0
           r == Request(k, where, inRow)
<1>1. r = [id |-> k, start |-> k, kind |-> kind, status |-> status, tokens |-> tokens, took |-> took]
  BY Zenon DEF Request
<1>2. kind \in {"endpoint", "account"}
  OBVIOUS
<1>3. tokens \in Nat /\ took \in Nat
  OBVIOUS
<1> HIDE DEF kind, status, tokens, took, r
<1>4. r.id = k /\ r.start = k /\ r.kind = kind /\ r.tokens = tokens /\ r.took = took
  BY <1>1
<1> QED
  BY <1>2, <1>3, <1>4 DEF Numbered, r

\* Some of the requests, placed, are entries of a pool or of rows.
LEMMA PlacedAreEntries ==
  ASSUME NEW p, NEW places, NEW b \in BOOLEAN
  PROVE  Entries(Placed(p, places, b)) /\ Apart(Placed(p, places, b))
<1> DEFINE K == {j \in 1 .. 4 : p[j] \in places}
           rs == Placed(p, places, b)
<1>1. rs = {Request(k, p[k], b) : k \in K}
  BY DEF Placed
<1>2. K \in SUBSET (1 .. 4) /\ IsFiniteSet(K)
  <2>1. IsFiniteSet(1 .. 4)
    <3>1. 1 \in Int /\ 4 \in Int
      OBVIOUS
    <3> QED
      BY <3>1, FS_Interval
  <2>2. K \in SUBSET (1 .. 4)
    OBVIOUS
  <2> QED
    BY <2>1, <2>2, FS_Subset
<1> HIDE DEF K, rs
<1>3. IsFiniteSet(rs)
  <2> DEFINE f == [k \in K |-> Request(k, p[k], b)]
  <2>1. f \in Surjection(K, rs)
    BY <1>1 DEF Surjection
  <2> HIDE DEF f
  <2> QED
    BY <1>2, <2>1, FS_Surjection
<1>4. \A r \in rs : \E k \in K : r = Request(k, p[k], b) /\ Numbered(r, k)
  <2> TAKE r \in rs
  <2>1. PICK k \in K : r = Request(k, p[k], b)
    BY <1>1, Zenon
  <2>2. k \in 1 .. 4
    BY <1>2, Zenon
  <2>3. Numbered(r, k)
    BY <2>1, <2>2, RequestNumbered, Zenon
  <2> QED
    BY <2>1, <2>3
<1>5. K \subseteq Int
  BY <1>2
<1>6. Entries(rs)
  BY <1>3, <1>4, <1>5 DEF Entries, Numbers, Numbered
<1>7. \A r, s \in rs : r.id = s.id \/ r.start = s.start => r = s
  <2> TAKE r, s \in rs
  <2>1. PICK k \in K : Numbered(r, k) /\ r = Request(k, p[k], b)
    BY <1>4
  <2>2. PICK l \in K : Numbered(s, l) /\ s = Request(l, p[l], b)
    BY <1>4
  <2>3. r.id = k /\ r.start = k /\ s.id = l /\ s.start = l
    BY <2>1, <2>2, Zenon DEF Numbered
  <2> QED
    BY <2>1, <2>2, <2>3, Zenon
<1>8. Apart(rs)
  BY <1>7, Zenon DEF Apart
<1> QED
  BY <1>6, <1>8 DEF rs

\* The filters that are tried ask for a kind and for at least one entry.
LEMMA FiltersAsked ==
  \A o \in Filters : o.kind \in {"all", "endpoint", "account"} /\ o.limit \in Nat \ {0}
<1> TAKE o \in Filters
<1>1. o \in [kind : {"all", "endpoint", "account"}, status : {"", "pending", "failed"},
            from : {0, 2}, to : {0, 4}, limit : 1..2]
  BY Zenon DEF Filters
<1>2. o.kind \in {"all", "endpoint", "account"} /\ o.limit \in 1 .. 2
  BY <1>1
<1> QED
  BY <1>2

\* The listings that are tried are among those asked for.
LEMMA ListingsAsked == \A c \in Listings : Asked(c)
<1> TAKE c \in Listings
<1>1. PICK p \in [1..4 -> {"none", "pool", "row", "both"}], o \in Filters : c = Asking(p, o)
  BY DEF Listings
<1>2. /\ c.pool = Placed(p, {"pool", "both"}, FALSE) /\ c.rows = Placed(p, {"row", "both"}, TRUE)
      /\ c.opts = o
  BY <1>1 DEF Asking
<1>3. Entries(c.pool) /\ Apart(c.pool) /\ Entries(c.rows) /\ Apart(c.rows)
  BY <1>2, PlacedAreEntries
<1>4. o.kind \in {"all", "endpoint", "account"} /\ o.limit \in Nat \ {0}
  BY FiltersAsked
<1> QED
  BY <1>2, <1>3, <1>4, Zenon DEF Asked

\* So are the clocks.
LEMMA ClocksZoned == Clocks \subseteq Zoning
<1> SUFFICES ASSUME NEW z \in Clocks PROVE z \in Zoning
  OBVIOUS
<1>1. z \in [before : -3..3, after : -3..3, at : -2..12] /\ z.after - z.before \in -1..1
  BY DEF Clocks
<1> QED
  BY <1>1, PartsAssumption DEF Zoning

QueryInput ==
  in # << >> => \/ in[1] = "pages" /\ Asked(in[2])
                \/ in[1] = "days" /\ in[2] \in Zoning

\* The input is a listing that can be asked for, or a clock.
LEMMA QueryInputStands == MCSpec => []QueryInput
<1>1. MCInit => QueryInput
  BY DEF MCInit, QueryInput
<1>2. QueryInput /\ [MCNext]_allVars => QueryInput'
  <2> SUFFICES ASSUME QueryInput, [MCNext]_allVars PROVE QueryInput'
    OBVIOUS
  <2>1. CASE in' = in
    BY <2>1 DEF QueryInput
  <2>2. CASE Input
    <3>1. CASE \E c \in Listings : in' = <<"pages", c>>
      <4>1. PICK c \in Listings : in' = <<"pages", c>>
        BY <3>1
      <4>2. Asked(c)
        BY ListingsAsked
      <4>3. in'[1] = "pages" /\ in'[2] = c
        BY <4>1
      <4> QED
        BY <4>2, <4>3, Zenon DEF QueryInput
    <3>2. CASE \E z \in Clocks : in' = <<"days", z>>
      <4>1. PICK z \in Clocks : in' = <<"days", z>>
        BY <3>2
      <4>2. z \in Zoning
        BY ClocksZoned
      <4> QED
        BY <4>1, <4>2 DEF QueryInput
    <3> QED
      BY <2>2, <3>1, <3>2, Zenon DEF Input
  <2> QED
    BY <2>1, <2>2, Zenon DEF MCNext, allVars
<1> QED
  BY <1>1, <1>2, PTL DEF MCSpec

\* In every state the pages of the listing that was asked for show every request once,
\* with the right totals, and the moments of the clock belong to the day they are shown
\* with.
THEOREM QueriesStand == MCSpec => []QueriesAreRight
<1>1. QueryInput => QueriesAreRight
  <2> SUFFICES ASSUME QueryInput, in # << >>
               PROVE  IF in[1] = "pages" THEN Listing!PagesShowEachOnce(in[2])
                      ELSE Days!DayHoldsItsMoments(in[2])
    BY DEF QueriesAreRight
  <2>1. CASE in[1] = "pages" /\ Asked(in[2])
    BY <2>1, PagesShowAll
  <2>2. CASE in[1] = "days" /\ in[2] \in Zoning
    BY <2>2, DatesHoldTheirMoments
  <2> QED
    BY <2>1, <2>2, Zenon DEF QueryInput
<1> QED
  BY <1>1, QueryInputStands, PTL
=============================================================================
