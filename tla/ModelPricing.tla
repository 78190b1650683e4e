---------------------------- MODULE ModelPricing ----------------------------
(***************************************************************************)
(* The prices of models: rows in the database, the service's cache of      *)
(* them, the mark of the default row, and the table the tracker charges    *)
(* requests by, which is filled when the program starts.                   *)
(* internal/service/model_pricing.go, internal/store/model_pricing.go,     *)
(* app_api_model_pricing.go, app_model_pricing_defaults.go, app.go.        *)
(*                                                                         *)
(* A record is [price, default]; the five prices of the code move together *)
(* and are one.  Calls are made one at a time; a write of one may fail     *)
(* after earlier ones, and the program may be killed in between.           *)
(***************************************************************************)
EXTENDS Integers

CONSTANTS Models,          \* names a user may give
          Prices,          \* prices a user may give
          OfficialPrices,  \* prices by name of the rows an empty table gets; has "_default"
          Ensured,         \* names whose rows are added at each start when missing
          EnsuredPrice,    \* their price
          MaxCalls, MaxFaults, MaxRestarts

VARIABLES rows,      \* in the database: function from names to records
          cache,     \* the service's cache of rows
          fallback,  \* its cached default record, << >> when there is none
          table,     \* the tracker's prices, by name
          call,      \* the call in progress, << >> between calls
          calls, faults, restarts
pricingVars == <<rows, cache, fallback, table, call, calls, faults, restarts>>

-----------------------------------------------------------------------------
Empty == [m \in {} |-> 0]
Record(p, d)   == [price |-> p, default |-> d]
With(f, m, r)  == [x \in DOMAIN f \cup {m} |-> IF x = m THEN r ELSE f[x]]
Without(f, m)  == [x \in DOMAIN f \ {m} |-> f[x]]
Defaults(f)    == {m \in DOMAIN f : f[m].default}
PricesOf(f)    == [m \in DOMAIN f |-> f[m].price]

updateCache(m, r) ==
  /\ cache' = With(cache, m, r)
  /\ fallback' = IF r.default THEN r ELSE fallback
clearCache == cache' = Empty /\ fallback' = << >>

\* What is still to be done of a call: rows to unmark first, then a write.
Pending(what, m, r) == [what |-> what, name |-> m, record |-> r]

-----------------------------------------------------------------------------
(* Startup: setupModelPricingStore *)

Official == [m \in DOMAIN OfficialPrices |-> Record(OfficialPrices[m], m = "_default")]
\* The table after initDefaultModelPricing (an empty one only) and
\* ensureGPT56ModelPricing; LoadCache and syncPricingToTracker take what is there.
Seeded(f)   == IF DOMAIN f = {} THEN Official ELSE f
Started(f)  == [m \in DOMAIN Seeded(f) \cup Ensured |->
                  IF m \in DOMAIN Seeded(f) THEN Seeded(f)[m] ELSE Record(EnsuredPrice, FALSE)]
ReachTracker(f) == table' = PricesOf(f)

Init ==
  /\ rows = Started(Empty) /\ cache = rows /\ table = PricesOf(rows)
  /\ fallback = rows["_default"]
  /\ call = << >> /\ calls = 0 /\ faults = 0 /\ restarts = 0

\* Killed at any point, and started again.
Restart ==
  /\ restarts < MaxRestarts
  /\ rows' = Started(rows) /\ cache' = rows' /\ ReachTracker(rows')
  /\ fallback' = IF Defaults(rows') = {} THEN << >> ELSE rows'[CHOOSE m \in Defaults(rows') : TRUE]
  /\ call' = << >> /\ restarts' = restarts + 1
  /\ UNCHANGED <<calls, faults>>

-----------------------------------------------------------------------------
(* CreatePricing, UpdatePricing: the checks, the unmarking of the old       *)
(* default row by row (clearDefaultFlag), the write, the cache.             *)

Begins(m, p, d, what) ==
  /\ call = << >> /\ calls < MaxCalls
  /\ call' = Pending(what, m, Record(p, d)) /\ calls' = calls + 1
  /\ UNCHANGED <<rows, cache, fallback, table, faults, restarts>>
CreatePricing(m, p, d) == m \notin DOMAIN rows /\ Begins(m, p, d, IF d THEN "create, clearing" ELSE "create")
\* The mark is cleared only when the row gains it; an edit may drop it.
UpdatePricing(m, p, d) ==
  /\ m \in DOMAIN rows
  /\ Begins(m, p, d, IF d /\ ~rows[m].default THEN "update, clearing" ELSE "update")

Clearing == call # << >> /\ call.what \in {"create, clearing", "update, clearing"}
clearDefaultFlag ==
  /\ Clearing
  /\ IF Defaults(rows) = {}
     THEN /\ call' = [call EXCEPT !.what = IF call.what = "create, clearing" THEN "create" ELSE "update"]
          /\ UNCHANGED rows
     ELSE /\ \E m \in Defaults(rows) : rows' = [rows EXCEPT ![m].default = FALSE]
          /\ UNCHANGED call
  /\ UNCHANGED <<cache, fallback, table, calls, faults, restarts>>
Write ==
  /\ call # << >> /\ ~Clearing
  /\ rows' = With(rows, call.name, call.record)
  /\ updateCache(call.name, call.record)
  /\ call' = << >>
  /\ UNCHANGED <<table, calls, faults, restarts>>
\* One of the writes fails: the call ends where it is.
Fails ==
  /\ call # << >> /\ faults < MaxFaults
  /\ call' = << >> /\ faults' = faults + 1
  /\ UNCHANGED <<rows, cache, fallback, table, calls, restarts>>

-----------------------------------------------------------------------------
(* Calls of one write *)

DeletePricing(m) ==
  /\ call = << >> /\ calls < MaxCalls
  /\ m \in DOMAIN rows /\ ~rows[m].default
  /\ rows' = Without(rows, m) /\ cache' = Without(cache, m) /\ calls' = calls + 1
  /\ UNCHANGED <<fallback, table, call, faults, restarts>>
\* One transaction: every mark is cleared and one is set; none for an unknown name.
SetDefaultPricing(m) ==
  /\ call = << >> /\ calls < MaxCalls /\ m \in DOMAIN rows
  /\ rows' = [x \in DOMAIN rows |-> Record(rows[x].price, x = m)]
  /\ clearCache /\ calls' = calls + 1
  /\ UNCHANGED <<table, call, faults, restarts>>
\* GetPricing fills the cache from the row; GetDefaultPricing the default.
GetPricing(m) ==
  /\ call = << >> /\ m \in DOMAIN rows \ DOMAIN cache
  /\ updateCache(m, rows[m])
  /\ UNCHANGED <<rows, table, call, calls, faults, restarts>>
GetDefaultPricing ==
  /\ call = << >> /\ fallback = << >> /\ Defaults(rows) # {}
  /\ \E m \in Defaults(rows) : fallback' = rows[m]
  /\ UNCHANGED <<rows, cache, table, call, calls, faults, restarts>>

Next == \/ \E m \in Models, p \in Prices, d \in BOOLEAN : CreatePricing(m, p, d) \/ UpdatePricing(m, p, d)
        \/ clearDefaultFlag \/ Write \/ Fails
        \/ \E m \in Models : DeletePricing(m) \/ SetDefaultPricing(m) \/ GetPricing(m)
        \/ GetDefaultPricing \/ Restart
Spec == Init /\ [][Next]_pricingVars

-----------------------------------------------------------------------------
\* The cached price of a model is the stored one, and at most one row is the
\* default, after any sequence of calls, failures in the middle of one and
\* restarts.  (A failure between the unmarking and the write leaves no default,
\* and so does an edit that drops the mark; calls that overlap may leave two.)
PricesAgree ==
  /\ call = << >> => \A m \in DOMAIN cache : m \in DOMAIN rows /\ cache[m].price = rows[m].price
  /\ \A m, n \in Defaults(rows) : m = n
=============================================================================
