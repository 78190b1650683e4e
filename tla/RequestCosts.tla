---------------------------- MODULE RequestCosts ----------------------------
(***************************************************************************)
(* What a request costs: its tokens, at the prices of its model, times the *)
(* rates (multipliers) of the endpoint or account it used.  Three places   *)
(* compute it: the list of requests, the archiver that inserts the row,    *)
(* and the event that updates a row with tokens that came late.            *)
(* internal/tracking/tracker.go, archive_manager.go, database.go, app.go.  *)
(*                                                                         *)
(* One request.  Prices and rates are small integers, a price table a      *)
(* function from models; the tables of the tracker and of the archiver are *)
(* two copies.  Tokens are a record [input, output, made, made5, made1,    *)
(* read]: made is what was written to the cache, made5 and made1 its split.*)
(***************************************************************************)
EXTENDS Integers, Sequences, TLC

CONSTANTS Usages,        \* token counts an upstream may report
          Tables,        \* price tables: functions from models to prices
          RateTables,    \* functions from {"endpoint", "account"} to rates
          Models,        \* models an upstream may report, "" is none
          Overrides,     \* costs a caller may set itself (images); 0 is none
          MaxChanges     \* changes of prices and rates

VARIABLES prices, rates,            \* the tracker's copies
          archPrices, archRates,    \* the archiver's
          half,                     \* an update that has reached the tracker only
          via, included,            \* what the request used; its input tokens include cache reads
          own,                      \* the cost its caller sets, 0 for none
          entry,                    \* in the hot pool: [model, usage]; << >> when gone
          row,                      \* in the database: [model, usage, cost], << >> before
          late,                     \* token events in the queue
          shown,                    \* the cost the list showed last, with the tokens it is for
          seenPrices, seenRates, changes
costVars == <<prices, rates, archPrices, archRates, half, via, included, own, entry, row, late, shown,
              seenPrices, seenRates, changes>>

-----------------------------------------------------------------------------
(* CalculateCostV2 *)

OrOne(m) == IF m <= 0 THEN 1 ELSE m
\* A total rate above zero replaces the rates of the parts.
Rate(rate, part) == IF rate.total > 0 THEN rate.total ELSE OrOne(rate[part])
NoRate == [total |-> 1, input |-> 1, output |-> 1, made5 |-> 1, made1 |-> 1, read |-> 1]

Input(u, reads) == IF ~reads THEN u.input
                   ELSE IF u.input < u.read THEN 0 ELSE u.input - u.read
HourPrice(p) == IF p.made1 <= 0 THEN 2 * p.input ELSE p.made1
Split(u)     == u.made5 > 0 \/ u.made1 > 0

CostV2(u, p, rate, reads) ==
  Input(u, reads) * p.input * Rate(rate, "input")
  + u.output * p.output * Rate(rate, "output")
  + u.read * p.read * Rate(rate, "read")
  + (IF Split(u) THEN u.made5 * p.made * Rate(rate, "made5")
                      + u.made1 * HourPrice(p) * Rate(rate, "made1")
     ELSE u.made * p.made * Rate(rate, "made5"))

NoTokens == [input |-> 0, output |-> 0, made |-> 0, made5 |-> 0, made1 |-> 0, read |-> 0]
NoPrice == [input |-> 0, output |-> 0, made |-> 0, made1 |-> 0, read |-> 0]
\* The pool and the archiver fall back to the entry "_default", an event does
\* not: GetPricing falls back to the DefaultPricing of the configuration,
\* which setupUsageTracker leaves empty.
PriceOf(table, model) ==
  IF model \in DOMAIN table THEN table[model]
  ELSE IF "_default" \in DOMAIN table THEN table["_default"] ELSE NoPrice
GetPricing(table, model) == IF model \in DOMAIN table THEN table[model] ELSE NoPrice
RateOf(table, used) == IF used \in DOMAIN table THEN table[used] ELSE NoRate

Calculated(table, rateTable, e) ==
  IF own # 0 THEN own
  ELSE CostV2(e.usage, PriceOf(table, e.model), RateOf(rateTable, via), included)

-----------------------------------------------------------------------------
Init ==
  /\ prices \in Tables /\ archPrices = prices /\ seenPrices = {prices}
  /\ rates \in RateTables /\ archRates = rates /\ seenRates = {rates}
  /\ half = "none" /\ changes = 0
  /\ via \in {"endpoint", "account"} /\ included \in BOOLEAN /\ own \in Overrides
  /\ entry = [model |-> "", usage |-> NoTokens]
  /\ row = << >> /\ late = << >> /\ shown = << >>

\* UpdatePricing, UpdateEndpointMultipliers, UpdateAccountMultipliers: the
\* tracker's table under its lock, then the archiver's under another one.
NewPrices(t) ==
  /\ half = "none" /\ changes < MaxChanges
  /\ prices' = t /\ half' = "prices" /\ seenPrices' = seenPrices \cup {t} /\ changes' = changes + 1
  /\ UNCHANGED <<rates, archPrices, archRates, via, included, own, entry, row, late, shown, seenRates>>
NewRates(t) ==
  /\ half = "none" /\ changes < MaxChanges
  /\ rates' = t /\ half' = "rates" /\ seenRates' = seenRates \cup {t} /\ changes' = changes + 1
  /\ UNCHANGED <<prices, archPrices, archRates, via, included, own, entry, row, late, shown, seenPrices>>
ReachArchiver ==
  /\ half # "none"
  /\ archPrices' = IF half = "prices" THEN prices ELSE archPrices
  /\ archRates'  = IF half = "rates" THEN rates ELSE archRates
  /\ half' = "none"
  /\ UNCHANGED <<prices, rates, via, included, own, entry, row, late, shown, seenPrices, seenRates, changes>>

\* RecordFailedRequestTokens, RecoverRequestTokens: into the entry while there
\* is one, else as an event; an unknown model replaces the entry's only there.
Report(u, m) ==
  /\ IF entry # << >>
     THEN /\ entry' = [model |-> IF m = "" THEN entry.model ELSE m, usage |-> u]
          /\ late' = late
     ELSE /\ row # << >> /\ late = << >>
          /\ late' = <<[model |-> m, usage |-> u]>> /\ entry' = entry
  /\ UNCHANGED <<prices, rates, archPrices, archRates, half, via, included, own, row, shown,
                 seenPrices, seenRates, changes>>

\* insertRequestEventLocked: the row of the finished request, at the
\* archiver's prices and rates.
Archive ==
  /\ entry # << >>
  /\ row' = [model |-> entry.model, usage |-> entry.usage,
             cost |-> Calculated(archPrices, archRates, entry)]
  /\ entry' = << >>
  /\ UNCHANGED <<prices, rates, archPrices, archRates, half, via, included, own, late, shown,
                 seenPrices, seenRates, changes>>

\* buildWriteQuery of token_recovery and failed_request_tokens: tokens, model
\* and cost are replaced together; the rate is not looked up.
Updated(e) == [model |-> e.model, usage |-> e.usage,
               cost |-> CostV2(e.usage, GetPricing(prices, e.model), NoRate, included)]
TokensOnly ==                                                   \* faulty variant
  /\ late # << >>
  /\ row' = [row EXCEPT !.model = late[1].model, !.usage = late[1].usage]
  /\ late' = Tail(late)
  /\ UNCHANGED <<prices, rates, archPrices, archRates, half, via, included, own, entry, shown,
                 seenPrices, seenRates, changes>>
WriteLate ==
  /\ late # << >>
  /\ row' = Updated(late[1])
  /\ late' = Tail(late)
  /\ UNCHANGED <<prices, rates, archPrices, archRates, half, via, included, own, entry, shown,
                 seenPrices, seenRates, changes>>

\* ActiveRequestToDetail: the list reads the tracker's tables.
Show ==
  /\ entry # << >>
  /\ shown' = [model |-> entry.model, usage |-> entry.usage, cost |-> Calculated(prices, rates, entry)]
  /\ UNCHANGED <<prices, rates, archPrices, archRates, half, via, included, own, entry, row, late,
                 seenPrices, seenRates, changes>>

Next == \/ \E t \in Tables : NewPrices(t)
        \/ \E t \in RateTables : NewRates(t)
        \/ ReachArchiver \/ Archive \/ WriteLate \/ Show
        \/ \E u \in Usages, m \in Models : Report(u, m)
Spec == Init /\ [][Next]_costVars

-----------------------------------------------------------------------------
\* A cost belongs to the tokens beside it: what a row holds, and what the list
\* shows, is the cost of the tokens recorded with it at a price and a rate that
\* were in force since the request began, whichever of the three places wrote
\* it and whatever changed meanwhile.  (A late report is charged at rate 1.)
CostOfItsTokens ==
  /\ row # << >> =>
       \/ own # 0 /\ row.cost = own
       \/ \E t \in seenPrices, rs \in seenRates :
            row.cost = CostV2(row.usage, PriceOf(t, row.model), RateOf(rs, via), included)
       \/ \E t \in seenPrices :
            row.cost = CostV2(row.usage, GetPricing(t, row.model), NoRate, included)
  /\ shown # << >> =>
       \/ own # 0 /\ shown.cost = own
       \/ \E t \in seenPrices, rs \in seenRates :
            shown.cost = CostV2(shown.usage, PriceOf(t, shown.model), RateOf(rs, via), included)
=============================================================================
