---------------------------- MODULE RequestPages ----------------------------
(***************************************************************************)
(* The list of requests and its totals: unfinished requests come from the  *)
(* hot pool, finished ones from the database, and a request that is in     *)
(* both is shown once.  internal/tracking/tracker.go and queries.go.       *)
(*                                                                         *)
(* A query c is [pool, rows, opts]: pool and rows are sets of requests     *)
(*   [id, start, kind, status, tokens, took]                               *)
(* with one element for an id and different starts; the same request may   *)
(* have an older status and fewer tokens in its row.                       *)
(* opts is [kind, status, from, to, limit]; "all", "" and 0 do not         *)
(* restrict.  Model, family and name filters work as kind does.            *)
(***************************************************************************)
EXTENDS Ordering, SequencesExt, FiniteSetsExt

CONSTANTS MinChunk, MaxChunk       \* rows read at a time: 64 and 512 in the code

FailedStatuses == {"failed", "error", "auth_error", "rate_limited", "server_error",
                   "network_error", "stream_error", "timeout"}
GoodStatuses   == {"completed", "processing"}

\* requestStatusMatchesFilter, and the same in SQL: appendRequestStatusFilter.
StatusFits(wanted, status) ==
  IF wanted = "failed" THEN status \in FailedStatuses ELSE wanted \in {"", status}

\* resolveRequestQuerySource: "all" reads both kinds.
KindFits(wanted, kind) == wanted \in {"all", kind}

\* appendRequestQueryFilters for a row, getFilteredHotPoolRequests for an entry.
RowFits(o, r)  == /\ StatusFits(o.status, r.status)
                  /\ KindFits(o.kind, r.kind)
                  /\ o.from = 0 \/ r.start >= o.from
                  /\ o.to = 0 \/ r.start < o.to
PoolFits(o, r) == /\ StatusFits(o.status, r.status)
                  /\ KindFits(o.kind, r.kind)
                  /\ ~(o.from # 0 /\ r.start < o.from)
                  /\ ~(o.to # 0 /\ r.start >= o.to)

Newest(rs) == Arranged(rs, {x \in rs \X rs : x[1].start > x[2].start})
Hot(c)     == Newest({r \in c.pool : PoolFits(c.opts, r)})
Ids(list)  == {list[k].id : k \in DOMAIN list}
Found(c)   == {r \in c.rows : RowFits(c.opts, r)}

\* CountRequestDetails: all is the sum of the two kinds.
CountKind(c, kind) == Cardinality({r \in Found(c) : r.kind = kind})
Count(c) == IF c.opts.kind = "all" THEN CountKind(c, "endpoint") + CountKind(c, "account")
            ELSE CountKind(c, c.opts.kind)
\* countRequestDetailsOverlapsByRequestIDs
Overlap(c, ids) == {r \in Found(c) : r.id \in ids}
Least(a, b) == IF a < b THEN a ELSE b
Total(c, hot) ==
  Len(hot) + Count(c) - Least(Cardinality(Overlap(c, Ids(hot))), Count(c))

-----------------------------------------------------------------------------
\* QueryRequestDetails: rows offset + 1 to offset + n, the newest first.
Batch(rows, offset, n) == SubSeq(rows, offset + 1, Least(offset + n, Len(rows)))

Chunk(limit, ids) ==
  LET wanted == limit + Cardinality(ids) IN
  IF wanted < MinChunk THEN MinChunk ELSE Least(wanted, MaxChunk)

\* queryRequestDetailsFromDBExcludingHotPool
TakeRow(acc, r, ids, skip, limit) ==
  IF acc.done \/ r.id \in ids THEN acc
  ELSE IF acc.skipped < skip THEN [acc EXCEPT !.skipped = @ + 1]
  ELSE [acc EXCEPT !.out = Append(@, r), !.done = Len(acc.out) + 1 >= limit]
TakeRows(acc, batch, ids, skip, limit) ==
  FoldLeft(LAMBDA a, r : TakeRow(a, r, ids, skip, limit), acc, batch)
TakeBatch(acc, batch, chunk, ids, skip, limit) ==
  LET taken == TakeRows(acc, batch, ids, skip, limit)
  IN [taken EXCEPT !.done = @ \/ Len(batch) < chunk, !.at = @ + Len(batch)]
FromRows(rows, ids, skip, limit, chunk) ==
  FoldLeft(LAMBDA acc, k : IF acc.done THEN acc
                           ELSE TakeBatch(acc, Batch(rows, acc.at, chunk), chunk, ids, skip, limit),
           [out |-> << >>, skipped |-> 0, at |-> 0, done |-> FALSE],
           [k \in 1 .. Len(rows) + 1 |-> k]).out

\* QueryRequestDetailsWithHotPool: the page from offset on.
OffsetOnly(offset, hot) == offset                               \* faulty variant
Skip(offset, hot) == IF offset > hot THEN offset - hot ELSE 0
FromPool(hot, offset, limit) == SubSeq(hot, offset + 1, Least(offset + limit, Len(hot)))
Fill(first, rows, hot, offset, limit) ==
  IF Len(first) = limit THEN first
  ELSE first \o FromRows(rows, Ids(hot), Skip(offset, Len(hot)), limit - Len(first),
                         Chunk(limit - Len(first), Ids(hot)))
Page(rows, hot, offset, limit) == Fill(FromPool(hot, offset, limit), rows, hot, offset, limit)

-----------------------------------------------------------------------------
\* QueryAggregatedRequestStatsWithHotPool.
SumOf(rs, field) == MapThenSumSet(LAMBDA r : r[field], rs)
Stats(rs) == [ requests |-> Cardinality(rs),
               good     |-> Cardinality({r \in rs : r.status \in GoodStatuses}),
               failed   |-> Cardinality({r \in rs : r.status \in FailedStatuses}),
               tokens   |-> SumOf(rs, "tokens"),
               took     |-> SumOf(rs, "took"),
               timed    |-> Cardinality({r \in rs : r.took > 0}) ]
NotNegative(n)    == IF n < 0 THEN 0 ELSE n
Subtracted(s, t)  == [f \in DOMAIN s |-> NotNegative(s[f] - t[f])]
Added(s, t)       == [f \in DOMAIN s |-> s[f] + t[f]]
Aggregate(c, hot) ==
  Added(Subtracted(Stats(Found(c)), Stats(Overlap(c, Ids(hot)))), Stats(ToSet(hot)))

-----------------------------------------------------------------------------
\* Turning pages shows everything once: a page, wherever it begins, is its part of
\* one list, which has each request that fits exactly once, as the pool has it when
\* the pool has it, the pool's first and each part the newest first; the total says
\* how many there are, and the statistics are theirs.
Right(c, hot, rows, list) ==
  /\ \A offset \in 0 .. Len(list) :
       Page(rows, hot, offset, c.opts.limit) = Batch(list, offset, c.opts.limit)
  /\ Total(c, hot) = Len(list)
  /\ Aggregate(c, hot) = Stats(ToSet(list))
Unpooled(c) == {r \in Found(c) : r.id \notin Ids(Hot(c))}
PagesShowEachOnce(c) ==
  Right(c, Hot(c), Newest(Found(c)), Hot(c) \o Newest(Unpooled(c)))
=============================================================================
