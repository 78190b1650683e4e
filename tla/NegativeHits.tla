---------------------------- MODULE NegativeHits ----------------------------
(***************************************************************************)
(* The negative cache of the scheduler: what an endpoint has rejected for  *)
(* good (a model, a request field, a body size) is not sent to it again    *)
(* for a while.  Each class of rejections has its own map and its own      *)
(* order, in which a recorded key moves to the end; a map above its        *)
(* capacity loses the keys at the head.  Clearing one endpoint, and        *)
(* expiry, leave stale keys in the order.                                  *)
(* internal/endpoint/route_state.go.                                       *)
(***************************************************************************)
EXTENDS Integers, FiniteSets

CONSTANTS
  Endpoints,
  Values,      \* what is rejected, as 1..n: models, or body buckets by size
  Capacity, TTL,
  MaxTime, MaxRecords   \* bounds

VARIABLES
  now,
  hits,      \* class -> key -> expiry, 0 = not in the map
  order,     \* class -> key -> place in the slice, growing to its tail; 0 = not in it
  records,
  stamp      \* ghost: class -> key -> number and expiry of its last record

hitVars == <<now, hits, order, records, stamp>>

Classes == {"model", "body"}
Keys    == Endpoints \X Values
Stored(h) == {k \in Keys : h[k] # 0}

Init ==
  /\ now = 1 /\ records = 0
  /\ hits = [c \in Classes |-> [k \in Keys |-> 0]]
  /\ order = [c \in Classes |-> [k \in Keys |-> 0]]
  /\ stamp = [c \in Classes |-> [k \in Keys |-> [n |-> 0, until |-> 0]]]

\* removeOrderKey, append
KeepPlace(o, k) == IF o[k] # 0 THEN o ELSE [o EXCEPT ![k] = records + 1]       \* faulty variant
MoveToEnd(o, k) == [o EXCEPT ![k] = records + 1]

\* trim: the shortest head of the order without which the map is within its
\* capacity, or the whole order, leaves both.
HeadOf(o, n) == {k \in Keys : o[k] \in 1 .. n}
Over(h, o, n) == Cardinality(Stored(h) \ HeadOf(o, n)) > Capacity
Cut(h, o) ==
  CHOOSE n \in 0 .. (records + 1) : /\ Over(h, o, n) => n = records + 1
                                    /\ \A m \in 0 .. (n - 1) : Over(h, o, m)
Without(f, gone) == [k \in Keys |-> IF k \in gone THEN 0 ELSE f[k]]

Record(c, k) ==
  /\ records < MaxRecords /\ records' = records + 1
  /\ LET h    == [hits[c] EXCEPT ![k] = now + TTL]
         o    == MoveToEnd(order[c], k)
         gone == HeadOf(o, Cut(h, o))
     IN hits' = [hits EXCEPT ![c] = Without(h, gone)] /\ order' = [order EXCEPT ![c] = Without(o, gone)]
  /\ stamp' = [stamp EXCEPT ![c][k] = [n |-> records + 1, until |-> now + TTL]]
  /\ UNCHANGED now

\* The keys Has looks at: the model itself; every bucket up to the body's.
Asked(c, k) ==
  IF c = "model" THEN {k} ELSE {<<k[1], v>> : v \in {v \in Values : v <= k[2]}}

Answers(c, k) == \E x \in Asked(c, k) : hits[c][x] # 0 /\ now <= hits[c][x]

\* A look drops the expired keys it meets before the first answer.
Has(c, k) ==
  /\ hits' = [hits EXCEPT ![c] = [x \in Keys |->
        IF /\ x \in Asked(c, k) /\ now > hits[c][x]
           /\ \A y \in Asked(c, k) : y[2] < x[2] => now > hits[c][y]
        THEN 0 ELSE hits[c][x]]]
  /\ UNCHANGED <<now, order, records, stamp>>

Forgotten(es) ==
  [c \in Classes |-> [k \in Keys |-> IF k[1] \in es THEN [stamp[c][k] EXCEPT !.until = 0]
                                    ELSE stamp[c][k]]]

\* Clear: one endpoint's keys, or everything and the order with it.
Clear(e) ==
  /\ hits' = [c \in Classes |-> [k \in Keys |-> IF k[1] = e THEN 0 ELSE hits[c][k]]]
  /\ stamp' = Forgotten({e})
  /\ UNCHANGED <<now, order, records>>

ClearAll ==
  /\ hits' = [c \in Classes |-> [k \in Keys |-> 0]]
  /\ order' = [c \in Classes |-> [k \in Keys |-> 0]]
  /\ stamp' = Forgotten(Endpoints)
  /\ UNCHANGED <<now, records>>

Tick == now < MaxTime /\ now' = now + 1 /\ UNCHANGED <<hits, order, records, stamp>>

Next ==
  \/ \E c \in Classes, k \in Keys : Record(c, k) \/ Has(c, k)
  \/ \E e \in Endpoints : Clear(e)
  \/ ClearAll \/ Tick

Spec == Init /\ [][Next]_hitVars

-----------------------------------------------------------------------------
\* A rejection that was recorded, not cleared, whose time has not run out
\* and which is among the Capacity newest of its class is answered, for the
\* rejected value and for every larger body; and no map outgrows Capacity.
\* Older keys take no room from it, be they cleared, expired or still there.
RejectionRemembered ==
  \A c \in Classes :
    /\ Cardinality(Stored(hits[c])) <= Capacity
    /\ \A k \in Keys :
         /\ stamp[c][k].until >= now
         /\ Cardinality({x \in Keys : stamp[c][x].n > stamp[c][k].n}) < Capacity
         => Answers(c, k) /\ (c = "body" => \A v \in Values : v >= k[2] => Answers(c, <<k[1], v>>))
=============================================================================
