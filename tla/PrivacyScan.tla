----------------------------- MODULE PrivacyScan -----------------------------
(***************************************************************************)
(* One scan of a request body by the privacy rules: which texts are looked *)
(* at, what each rule finds, which finds count when they overlap, and the  *)
(* body that results.                                                      *)
(* internal/privacy/engine.go, json_walker.go and rules.go; exact secrets  *)
(* from service/privacy_exact_secrets.go.                                  *)
(*                                                                         *)
(* An input s is a record:                                                 *)
(*   body     sequence of pieces: [text |-> FALSE] is what lies between    *)
(*            the scannable fields of the JSON document, [text |-> TRUE,   *)
(*            value |-> v] a field, v a sequence of symbols                *)
(*   rules    sequence in the order of the store; a rule has id > 0, prio, *)
(*            pattern (a sequence of symbols; regular expressions and the  *)
(*            built-in matchers find intervals in the same way), redact    *)
(*   secrets  sequence of exact secrets, each a sequence of symbols        *)
(*   redact   mode "redact", else "detect"                                 *)
(*   limit, refuse   scan_max_bytes, and whether to refuse beyond it       *)
(***************************************************************************)
EXTENDS Ordering, SequencesExt

SecretPriority == -100000

\* exactSecretRules: the longer secrets first; their rules have ids below 0.
Longer(secrets) ==
  {x \in (DOMAIN secrets) \X (DOMAIN secrets) :
     \/ Len(secrets[x[1]]) > Len(secrets[x[2]])
     \/ Len(secrets[x[1]]) = Len(secrets[x[2]]) /\ x[1] < x[2]}
SecretRules(secrets) ==
  LET at == Arranged(DOMAIN secrets, Longer(secrets))
  IN [k \in DOMAIN at |-> [id |-> -at[k], prio |-> SecretPriority + k - 1,
                           pattern |-> secrets[at[k]], redact |-> TRUE]]

\* CompileRules
Precedes(a, b) == a.prio < b.prio \/ (a.prio = b.prio /\ a.id < b.id)
Precedence(rules) == {x \in (DOMAIN rules) \X (DOMAIN rules) : Precedes(rules[x[1]], rules[x[2]])}
InOrder(rules) ==
  LET at == Arranged(DOMAIN rules, Precedence(rules)) IN [k \in DOMAIN at |-> rules[at[k]]]
AllRules(s) == InOrder(s.rules \o SecretRules(s.secrets))

\* findRuleMatches: from the left, without overlaps among themselves.
Matches(t, pattern, i) == SubSeq(t, i, i + Len(pattern) - 1) = pattern
TakeMatch(acc, i, t, pattern) ==
  IF (acc = << >> \/ Last(acc)[2] < i) /\ Matches(t, pattern, i)
  THEN Append(acc, <<i, i + Len(pattern) - 1>>) ELSE acc
Starts(t, pattern) == [i \in 1 .. Len(t) - Len(pattern) + 1 |-> i]
Found(t, pattern) ==
  FoldLeft(LAMBDA acc, i : TakeMatch(acc, i, t, pattern), << >>, Starts(t, pattern))

\* collectMatchSpans: a find that overlaps one that counts already is dropped.
Overlap(a, b) == a[1] <= b[2] /\ b[1] <= a[2]
OverlapsAny(accepted, find) == \E x \in accepted : Overlap(<<x.first, x.last>>, find)
TakeFind(acc, find, r) ==
  IF OverlapsAny(acc, find) THEN acc
  ELSE acc \cup {[first |-> find[1], last |-> find[2], id |-> r.id, redact |-> r.redact]}
TakeRule(acc, r, t) == FoldLeft(LAMBDA a, f : TakeFind(a, f, r), acc, Found(t, r.pattern))
Spans(rules, t)     == FoldLeft(LAMBDA acc, r : TakeRule(acc, r, t), {}, rules)

\* applySpans: what is kept, by its place, and a placeholder for each span.
Symbol(i)       == [at |-> i, id |-> 0]
Placeholder(id) == [at |-> 0, id |-> id]
Whole(v)        == [i \in DOMAIN v |-> Symbol(i)]
Begins(spans)   == {x.first : x \in spans}
Stays(t, spans) == Begins(spans) \cup {i \in DOMAIN t : \A x \in spans : i \notin x.first .. x.last}
Ascending(S)    == Arranged(S, {x \in S \X S : x[1] < x[2]})
Marked(at, spans) ==
  [k \in DOMAIN at |-> IF at[k] \in Begins(spans)
                       THEN Placeholder((CHOOSE x \in spans : x.first = at[k]).id)
                       ELSE Symbol(at[k])]
Redacted(t, spans) == Marked(Ascending(Stays(t, spans)), spans)

\* scanSegments: one field; cut is how much of it the limit leaves.
TailDropped(v, cut, spans) == Redacted(SubSeq(v, 1, cut), spans)     \* faulty variant
Replaced(v, cut, spans) == Redacted(v, spans)
Replacing(s, spans) == IF s.redact THEN {x \in spans : x.redact} ELSE {}

Least(a, b) == IF a < b THEN a ELSE b
State(scanned, truncated, refused, hits, out) ==
  [scanned |-> scanned, truncated |-> truncated, refused |-> refused, hits |-> hits, out |-> out]
Passed(acc, out) == State(acc.scanned, acc.truncated, acc.refused, acc.hits, Append(acc.out, out))
Field(s, acc, v, cut, spans) ==
  State(acc.scanned + cut, cut < Len(v), FALSE, acc.hits + Cardinality(spans),
        Append(acc.out, Replaced(v, cut, Replacing(s, spans))))
Scanned(s, acc, v, cut, rules) == Field(s, acc, v, cut, Spans(rules, SubSeq(v, 1, cut)))

\* Nothing is left for the field, or not enough.
Beyond(s, acc, v) == s.limit = acc.scanned \/ Len(v) > s.limit - acc.scanned
TakePiece(acc, piece, s, rules) ==
  IF ~piece.text \/ acc.refused THEN Passed(acc, << >>)
  ELSE IF acc.truncated THEN Passed(acc, Whole(piece.value))
  ELSE IF s.refuse /\ Beyond(s, acc, piece.value)
       THEN State(acc.scanned, FALSE, TRUE, acc.hits, Append(acc.out, << >>))
  ELSE IF s.limit = acc.scanned
       THEN State(acc.scanned, TRUE, FALSE, acc.hits, Append(acc.out, Whole(piece.value)))
  ELSE Scanned(s, acc, piece.value, Least(Len(piece.value), s.limit - acc.scanned), rules)
Scan(s, rules) ==
  FoldLeft(LAMBDA acc, piece : TakePiece(acc, piece, s, rules),
           State(0, FALSE, FALSE, 0, << >>), s.body)

-----------------------------------------------------------------------------
\* How much of a field the limit leaves.
Earlier(s, k) == SubSeq(s.body, 1, k - 1)
Before(s, k) ==
  FoldLeft(LAMBDA n, p : IF p.text THEN n + Len(p.value) ELSE n, 0, Earlier(s, k))
InScan(s, k) ==
  LET left == s.limit - Before(s, k)
  IN IF left < 0 THEN 0 ELSE Least(left, Len(s.body[k].value))

\* The occurrences of a pattern in the first n symbols of v.
Places(v, pattern, n) == {i \in 1 .. n - Len(pattern) + 1 : Matches(v, pattern, i)}
Span(r, i) == <<i, i + Len(r.pattern) - 1>>

\* The placeholders of a field stand for occurrences of their rules: with the
\* kept symbols they make up the field, in order, and nothing else is gone.
StandsFor(x, at, v, rules) ==
  {r \in {rules[q] : q \in DOMAIN rules} : r.id = x.id /\ at \in Places(v, r.pattern, Len(v))}
After(at, x, v, rules) ==
  IF x.at # 0 THEN (IF x.at = at THEN at + 1 ELSE 0)
  ELSE IF StandsFor(x, at, v, rules) = {} THEN 0
  ELSE at + Len((CHOOSE r \in StandsFor(x, at, v, rules) : TRUE).pattern)
Accounted(out, v, rules) == FoldLeft(LAMBDA at, x : After(at, x, v, rules), 1, out) = Len(v) + 1

\* An occurrence of rule r at i is displaced by one of a rule that precedes it, or
\* overlaps an earlier one of its own, which is kept or displaced itself.
Better(v, rules, r, i, n) ==
  \E q \in DOMAIN rules : /\ Precedes(rules[q], r)
                          /\ \E j \in Places(v, rules[q].pattern, n) : Overlap(Span(rules[q], j), Span(r, i))
Displaced(v, rules, r, i, n) ==
  \/ Better(v, rules, r, i, n)
  \/ \E j \in Places(v, r.pattern, n) :
       j < i /\ Overlap(Span(r, j), Span(r, i)) /\ Better(v, rules, r, j, n)
Gone(out, r, i) == \E j \in i .. i + Len(r.pattern) - 1 : \A k \in DOMAIN out : out[k] # Symbol(j)

FieldKept(s, rules, v, n, out) ==
  /\ Accounted(out, v, rules)
  /\ ~s.redact => out = Whole(v)
  /\ s.redact => \A r \in {rules[q] : q \in DOMAIN rules} : r.redact =>
       \A i \in Places(v, r.pattern, n) : Gone(out, r, i) \/ Displaced(v, rules, r, i, n)

\* A scan redacts what it promises and touches nothing else: outside of the
\* placeholders the body is what it was; in detect mode it is what it was;
\* what a redacting rule finds whole within the limit does not remain in it
\* unless a rule of a smaller priority displaces it, so that an exact secret
\* of the greatest length never does; a body is refused only when it is over
\* the limit or has a field beyond it.
Kept(s, rules, res) ==
  IF res.refused
  THEN s.refuse /\ \E k \in DOMAIN s.body :
         s.body[k].text /\ (s.limit = Before(s, k) \/ Len(s.body[k].value) > s.limit - Before(s, k))
  ELSE \A k \in DOMAIN s.body : s.body[k].text =>
         FieldKept(s, rules, s.body[k].value, InScan(s, k), res.out[k])
RedactsWhatItFinds(s) == Kept(s, AllRules(s), Scan(s, AllRules(s)))
=============================================================================
