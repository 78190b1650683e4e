--------------------------- MODULE AccountRanking ---------------------------
(***************************************************************************)
(* How the account pool ranks the schedulable accounts of a request: by    *)
(* group, within the group by how fast each account's quota would have to  *)
(* be spent before it resets, and with some inertia for the account that   *)
(* served last.                                                            *)
(* internal/service/account_pool_scheduler.go and the choice in            *)
(* account_pool_runtime_cache.go.                                          *)
(*                                                                         *)
(* A pool s is a record:                                                   *)
(*   accounts   sequence; an account's ID is its place.  Each is a record: *)
(*              tier; oauth; free (plan); quota "ok", "exhausted" or       *)
(*              "unknown"; rem5, remW percent left in the two windows, -1  *)
(*              unknown; q5, qW quarters of an hour to their reset, 0 no   *)
(*              reset to come; fails; last success: 0 never, 1 long ago,   *)
(*              2 within the last minute                                   *)
(*   search     the request goes to the standalone search                  *)
(*   pinned     account the user pinned, 0 none                            *)
(*   preferred, retained   per tier, 0 none                                *)
(***************************************************************************)
EXTENDS Ordering, FiniteSetsExt, SequencesExt

\* Scores are whole numbers, exact for resets whose quarters of an hour
\* divide Unit; the code divides floating-point numbers.
Unit == 96

Ids(s) == DOMAIN s.accounts

\* pressureScore: percent left per hour to the reset, which counts as minimal at least.
Pressure(left, quarters, minimal) ==
  (left * Unit) \div (IF quarters < minimal THEN minimal ELSE quarters)

Known5(a) == a.rem5 >= 0 /\ a.q5 > 0
KnownW(a) == a.remW >= 0 /\ a.qW > 0

\* utilizationScore; the week counts a fifth.
KnownQuota(a) == KnownW(a) \/ (~a.free /\ Known5(a))
Utilization(a) ==
  IF a.free THEN 5 * Pressure(a.remW, a.qW, 24)
  ELSE (IF Known5(a) THEN 5 * Pressure(a.rem5, a.q5, 1) ELSE 0)
       + (IF KnownW(a) THEN Pressure(a.remW, a.qW, 24) ELSE 0)

\* applyWeeklyGuardrail, in tenths
Guardrail(a) ==
  CASE a.remW < 0 -> 10 [] a.remW \in 0 .. 10 -> 3 [] a.remW \in 11 .. 20 -> 6 [] OTHER -> 10

\* applyRecentSuccessSuppression, in twentieths
Suppression(a) == IF a.last = 2 THEN 17 ELSE 20

\* hasExhaustedQuotaReset
Exhausted(a) ==
  /\ a.quota = "exhausted"
  /\ \/ a.remW = 0 /\ a.qW > 0
     \/ ~a.free /\ a.rem5 = 0 /\ a.q5 > 0

\* classifySchedulableAccount: quotas known, unknown, or an API key.
Bucket(a) ==
  CASE ~a.oauth -> 3 [] a.oauth /\ a.quota = "ok" /\ KnownQuota(a) -> 1 [] OTHER -> 2
Score(a) == IF Bucket(a) = 1 THEN Utilization(a) * Guardrail(a) * Suppression(a) ELSE 0

Skipped(s, i) == LET a == s.accounts[i] IN
  (a.oauth /\ Exhausted(a)) \/ (s.search /\ ~a.oauth)

\* rankPriorityTier's order
Before(s, i, j) ==
  LET a == s.accounts[i]  b == s.accounts[j] IN
  \/ Bucket(a) < Bucket(b)
  \/ /\ Bucket(a) = Bucket(b)
     /\ \/ Score(a) > Score(b)
        \/ /\ Score(a) = Score(b)
           /\ \/ a.fails < b.fails
              \/ a.fails = b.fails /\ (a.last > b.last \/ (a.last = b.last /\ i < j))

Tier(s, t) ==
  Arranged({i \in Ids(s) : s.accounts[i].tier = t /\ ~Skipped(s, i)},
           {x \in Ids(s) \X Ids(s) : Before(s, x[1], x[2])})

\* selectFirstEligibleTier; 4 is no tier.
FirstTier(s) == Min({4} \cup {t \in 1 .. 3 : Tier(s, t) # << >>})

\* shouldRetainAutoActiveSelection
Keeps(b, a) ==
  /\ Bucket(a) = Bucket(b)
  /\ \/ Bucket(a) # 1
     \/ Score(a) = 0 /\ Score(b) = 0
     \/ 4 * Score(b) < 5 * Score(a)

\* resolveActiveSelection: the tier, and the account that comes first in it.
Pinned(s) == s.pinned # 0 /\ ~(s.search /\ ~s.accounts[s.pinned].oauth)

ChosenTier(s) ==
  IF Pinned(s) /\ Tier(s, s.accounts[s.pinned].tier) # << >>
  THEN s.accounts[s.pinned].tier ELSE FirstTier(s)

Among(i, q, else) == IF i \in ToSet(q) THEN i ELSE else
First(s, t, q) ==
  IF Pinned(s) THEN Among(s.pinned, q, q[1])
  ELSE Among(s.preferred[t], q,
             IF s.retained[t] \in ToSet(q) /\ Keeps(s.accounts[q[1]], s.accounts[s.retained[t]])
             THEN s.retained[t] ELSE q[1])

\* selectedTierEligibleOrder: the list the request tries.
ToFront(i, q) == <<i>> \o Only(q, ToSet(q) \ {i})
Ordered(s, t, q) == IF q = << >> THEN q ELSE ToFront(First(s, t, q), q)
InTier(s, t) == Ordered(s, t, Tier(s, t))
Schedule(s) == InTier(s, ChosenTier(s))

\* rankSchedulableAccounts: what the snapshot says of each account, tier by tier.
AllSkipped(s, t) ==
  {<<i, "skipped">> : i \in {i \in Ids(s) : s.accounts[i].tier = t /\ Skipped(s, i)}}
Decided(s, t, p) ==
  (IF p # << >> /\ s.accounts[p[1]].tier = t
   THEN [i \in DOMAIN p |-> <<p[i], IF i = 1 THEN "selected" ELSE "eligible">>]
   ELSE [i \in DOMAIN Tier(s, t) |-> <<Tier(s, t)[i], "skipped">>])
  \o SetToSeq(AllSkipped(s, t))
Decisions(s, p) == Decided(s, 1, p) \o Decided(s, 2, p) \o Decided(s, 3, p)

\* A success of account i, without a pin: markSuccess.
AfterSuccess(s, i) ==
  [s EXCEPT !.accounts[i].last = 2, !.accounts[i].fails = 0,
            !.retained[s.accounts[i].tier] = i]

-----------------------------------------------------------------------------
\* The list holds every usable account of one tier once, the best tier that
\* has one unless the user pinned elsewhere; no exhausted account and, for
\* the search, no API key; accounts with a known quota come before the
\* others and API keys last, but for the first.  The snapshot decides every
\* account exactly once and says "selected" of the one that is tried first.
Usable(s) == {i \in Ids(s) : IF s.accounts[i].oauth THEN ~Exhausted(s.accounts[i]) ELSE ~s.search}
Sound(s, p, d, usable) ==
  /\ IsInjective(p) /\ ToSet(p) \subseteq usable
  /\ p = << >> => usable = {}
  /\ \A i \in ToSet(p) : \A j \in usable \ ToSet(p) :
       s.pinned = 0 => s.accounts[i].tier < s.accounts[j].tier
  /\ \A m, n \in 2 .. Len(p) : m < n => Bucket(s.accounts[p[m]]) <= Bucket(s.accounts[p[n]])
  /\ Len(d) = Len(s.accounts) /\ {x[1] : x \in ToSet(d)} = Ids(s)
  /\ {x[1] : x \in {y \in ToSet(d) : y[2] = "selected"}} = IF p = << >> THEN {} ELSE {p[1]}
ScheduleIsSound(s) == Sound(s, Schedule(s), Decisions(s, Schedule(s)), Usable(s))

\* The penalty for a recent success does not send the next request to another
\* account: one that came first by its rank comes first again after its own
\* success, as long as nothing else changes.  (An account that was already
\* retained over a better one is not protected: the penalty may use up its lead.)
StaysFirst(s, q) ==
  q # << >> /\ First(s, s.accounts[q[1]].tier, q) = q[1]
  => Head(Schedule(AfterSuccess(s, q[1]))) = q[1]
ChosenStays(s) == s.pinned = 0 => StaysFirst(s, Tier(s, FirstTier(s)))
=============================================================================
