------------------------- MODULE MCRequestTracking --------------------------
(***************************************************************************)
(* Small instances for TLC of what is recorded of requests and how it is   *)
(* read: the record itself, its cost, the prices behind it, the summary of *)
(* past days, and over bounded inputs the pages of a listing and the       *)
(* bounds of a day.  A behaviour is the one part that `part` names; for    *)
(* pages and days it is one input, chosen into `in`.                       *)
(***************************************************************************)
EXTENDS RequestTracking, TLC

CONSTANTS
  Models, Overrides, MaxChanges,                                              \* of RequestCosts
  PricedModels, Prices, Ensured, EnsuredPrice, MaxCalls, MaxFaults, MaxRestarts,  \* of ModelPricing
  Zones, Initial, SummaryDays, MaxRequests, MaxReloads, MaxCleanups,          \* of UsageSummary
  MinChunk, MaxChunk,                                                         \* of RequestPages
  DayLength, Window, LastDay                                                  \* of TimezoneDays

ASSUME PartsAssumption ==
  /\ {MaxChanges, MaxCalls, MaxFaults, MaxRestarts, MaxRequests, MaxReloads, MaxCleanups} \subseteq Nat
  /\ Initial \in Zones /\ {SummaryDays, MinChunk, MaxChunk, DayLength} \subseteq Nat \ {0}
  /\ {Window, LastDay} \subseteq Nat /\ Window >= 3

VARIABLES
  part,
  prices, rates, archPrices, archRates, half, via, included, own, entry, costRow, late, shown,
  seenPrices, seenRates, changes,
  priceRows, cache, fallback, table, call, calls, faults, restarts,
  zone, log, today, stored, covered, reload, wanted, build, query, seen, requests, reloads, cleanups,
  in

costVars == <<prices, rates, archPrices, archRates, half, via, included, own, entry, costRow, late,
              shown, seenPrices, seenRates, changes>>
pricingVars == <<priceRows, cache, fallback, table, call, calls, faults, restarts>>
summaryVars == <<zone, log, today, stored, covered, reload, wanted, build, query, seen, requests,
                 reloads, cleanups>>
allVars == <<part, vars, costVars, pricingVars, summaryVars, in>>

-----------------------------------------------------------------------------
Used(i, o, m, m5, m1, r) ==
  [input |-> i, output |-> o, made |-> m, made5 |-> m5, made1 |-> m1, read |-> r]
Price(i, o, m, m1, r) == [input |-> i, output |-> o, made |-> m, made1 |-> m1, read |-> r]
Rate(t, i, o, a, b, r) == [total |-> t, input |-> i, output |-> o, made5 |-> a, made1 |-> b, read |-> r]

Usages     == {Used(3, 1, 2, 0, 0, 2), Used(1, 1, 2, 1, 1, 0)}
Tables     == {("m" :> Price(2, 5, 3, 0, 1)) @@ ("_default" :> Price(1, 3, 2, 7, 1)),
               "m" :> Price(4, 9, 5, 0, 1)}
RateTables == {"endpoint" :> Rate(3, 1, 1, 1, 1, 1),
               ("endpoint" :> Rate(0, 2, 0, 1, 3, 1)) @@ ("account" :> Rate(5, 1, 1, 1, 1, 1))}
Costs == INSTANCE RequestCosts WITH row <- costRow

OfficialPrices == ("_default" :> 3) @@ ("opus" :> 5)
Pricing == INSTANCE ModelPricing WITH rows <- priceRows, Models <- PricedModels

Summary == INSTANCE UsageSummary WITH Days <- SummaryDays

Listing == INSTANCE RequestPages

\* Four requests, each in the pool, in the database, in both or nowhere.
Request(k, where, inRow) ==
  [id |-> k, start |-> k, kind |-> IF k = 2 THEN "account" ELSE "endpoint",
   status |-> IF ~inRow THEN (IF k = 3 THEN "failed" ELSE "pending")
              ELSE IF where = "both" THEN "pending" ELSE IF k = 1 THEN "timeout" ELSE "completed",
   tokens |-> IF inRow THEN k ELSE 10 * k, took |-> IF inRow /\ where # "both" THEN k ELSE 0]
Filters == {o \in [kind : {"all", "endpoint", "account"}, status : {"", "pending", "failed"},
                   from : {0, 2}, to : {0, 4}, limit : 1..2] : o.from = 0 <=> o.to = 0}
Placed(p, places, inRow) == {Request(k, p[k], inRow) : k \in {j \in 1..4 : p[j] \in places}}
Asking(p, o) ==
  [pool |-> Placed(p, {"pool", "both"}, FALSE), rows |-> Placed(p, {"row", "both"}, TRUE), opts |-> o]
Listings == {Asking(p, o) : p \in [1..4 -> {"none", "pool", "row", "both"}], o \in Filters}

Days == INSTANCE TimezoneDays

\* Clocks that change once, by an hour at most, with offsets of three hours at most.
Clocks == {z \in [before : -3..3, after : -3..3, at : -2..12] : z.after - z.before \in -1..1}

-----------------------------------------------------------------------------
MCInit ==
  /\ part \in {"record", "cost", "prices", "summary", "inputs"}
  /\ Init /\ Costs!Init /\ Pricing!Init /\ Summary!Init /\ in = << >>
  /\ part # "cost" => /\ DOMAIN prices = {"m"} /\ DOMAIN rates = {"endpoint"}
                      /\ via = "endpoint" /\ included /\ own = 0

Input == /\ in = << >>
         /\ \/ \E c \in Listings : in' = <<"pages", c>>
            \/ \E z \in Clocks : in' = <<"days", z>>

MCNext ==
  /\ UNCHANGED part
  /\ \/ part = "record" /\ Next /\ UNCHANGED <<costVars, pricingVars, summaryVars, in>>
     \/ part = "cost" /\ Costs!Next /\ UNCHANGED <<vars, pricingVars, summaryVars, in>>
     \/ part = "prices" /\ Pricing!Next /\ UNCHANGED <<vars, costVars, summaryVars, in>>
     \/ part = "summary" /\ Summary!Next /\ UNCHANGED <<vars, costVars, pricingVars, in>>
     \/ part = "inputs" /\ Input /\ UNCHANGED <<vars, costVars, pricingVars, summaryVars>>

MCSpec == MCInit /\ [][MCNext]_allVars

\* Requests are interchangeable; no liveness is checked.
Symmetry == Permutations(Requests) \cup Permutations(Notes)

-----------------------------------------------------------------------------
\* What is stored and shown as the cost of a request is what its tokens cost at prices
\* and rates that were in force; between calls the rows of the prices, the cache and
\* the tracker's copy agree as far as the program promises.
CostsAreRight == Costs!CostOfItsTokens /\ Pricing!PricesAgree

\* A day that counts as covered has its sums in the summary.
CoveredIsBuilt == Summary!CoveredIsBuilt

\* The pages of a listing show every request once, and a moment belongs to the one day
\* whose range holds it.
QueriesAreRight ==
  in # << >> => IF in[1] = "pages" THEN Listing!PagesShowEachOnce(in[2])
                ELSE Days!DayHoldsItsMoments(in[2])
=============================================================================
