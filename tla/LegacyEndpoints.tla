--------------------------- MODULE LegacyEndpoints ---------------------------
(***************************************************************************)
(* How the migration turns the endpoints of the old YAML file into rows: an *)
(* entry with several tokens or API keys becomes one row for each pair,     *)
(* and what referred to endpoints by name follows.                          *)
(* internal/migration/endpoint_flatten.go and schema_migration.go.          *)
(*                                                                          *)
(* A file c is [entries, scope, target]: scope is the set of endpoint names *)
(* of one privacy rule, target the fixed route.  An entry is                *)
(*   name       a sequence of parts: << >> is a blank name, <<"x", "t">>    *)
(*              the name "x · t"                                            *)
(*   url        TRUE when there is one                                      *)
(*   group      "" inherits the previous entry's                            *)
(*   token, key            the single credentials, 0 none                   *)
(*   tokens, keys          the lists: sequences of labels, "" unlabelled    *)
(*   on         availability and failover, as the entry has them            *)
(*   prio, groupPrio       0 unset                                          *)
(* Timeouts and headers are inherited from the first entry as keys are and  *)
(* are left out.                                                            *)
(***************************************************************************)
EXTENDS Ordering, SequencesExt

\* FlattenLegacyEndpoints refuses the file.
Rejected(c) ==
  \/ \E i \in DOMAIN c.entries : c.entries[i].name = << >> \/ ~c.entries[i].url
  \/ \E i, j \in DOMAIN c.entries : i # j /\ c.entries[i].name = c.entries[j].name

\* The group an entry is in: the last one named, "Default" before any is.
GroupOf(es, i) ==
  LET named == {j \in 1 .. i : es[j].group # ""} IN
  IF named = {} THEN "Default" ELSE es[CHOOSE j \in named : \A k \in named : k <= j].group

\* The first value that entries of i's group have, 0 when none has one.
FromGroup(es, i, value) ==
  LET with == {j \in DOMAIN es : GroupOf(es, j) = GroupOf(es, i) /\ value[j] # 0} IN
  IF with = {} THEN 0 ELSE value[CHOOSE j \in with : \A k \in with : j <= k]

\* resolveLegacyEndpoints: a key comes from the entry, the first entry or the
\* group; a token from the entry or the group.
KeyOf(es, i) == IF es[i].key # 0 THEN es[i].key ELSE es[1].key
Key(es, i)   == IF KeyOf(es, i) # 0 THEN KeyOf(es, i)
                ELSE FromGroup(es, i, [j \in DOMAIN es |-> KeyOf(es, j)])
Token(es, i) == IF es[i].token # 0 THEN es[i].token ELSE FromGroup(es, i, [j \in DOMAIN es |-> es[j].token])
Prio(e)      == IF e.prio = 0 THEN e.groupPrio ELSE e.prio

\* tokenCandidates, apiKeyCandidates: <<label, value>>; a member of a list has
\* its place as its value, an unlabelled one its place in its label.
Listed(list, prefix) ==
  [k \in DOMAIN list |-> <<IF list[k] = "" THEN <<prefix, k>> ELSE <<list[k], 0>>, <<"listed", k>>>>]
Candidates(list, prefix, single) ==
  IF list = << >> THEN <<<<<< >>, <<"single", single>>>>>> ELSE Listed(list, prefix)

\* derivedEndpointName: the joined name, with the first free number from 2.
Join(base, label) == IF label = << >> THEN base ELSE Append(base, label)
Free(name, used) ==
  <<name, CHOOSE n \in 1 .. Cardinality(used) + 1 :
            <<name, n>> \notin used /\ \A k \in 1 .. n - 1 : <<name, k>> \in used>>

Tokens(es, i) == Candidates(es[i].tokens, "token", Token(es, i))
Keys(es, i)   == Candidates(es[i].keys, "api-key", Key(es, i))

\* The loops of FlattenLegacyEndpoints: entries, their tokens, their keys.
CombinationsOf(es, i) == {<<i, j, k>> : j \in DOMAIN Tokens(es, i), k \in DOMAIN Keys(es, i)}
Combinations(es) == UNION {CombinationsOf(es, i) : i \in DOMAIN es}
Sooner(a, b) ==
  \/ a[1] < b[1]
  \/ a[1] = b[1] /\ a[2] < b[2]
  \/ a[1] = b[1] /\ a[2] = b[2] /\ a[3] < b[3]
InTurn(es) ==
  Arranged(Combinations(es), {x \in Combinations(es) \X Combinations(es) : Sooner(x[1], x[2])})

\* One row: the first combination keeps the entry's name and switches, every other
\* is derived and switched off.
Row(es, c, used) ==
  LET entry == es[c[1]]
      token == Tokens(es, c[1])[c[2]]
      key   == Keys(es, c[1])[c[3]]
      first == c[2] = 1 /\ c[3] = 1
  IN [source |-> c[1], derived |-> ~first, token |-> token[2], key |-> key[2],
      on |-> first /\ entry.on, prio |-> Prio(entry),
      name |-> IF first THEN <<entry.name, 1>>
               ELSE Free(Join(Join(entry.name, token[1]), key[1]), used)]

\* FlattenLegacyEndpoints: the names of all entries are taken before any is derived.
Names(es)      == {<<es[i].name, 1>> : i \in DOMAIN es}
Used(es, rows) == Names(es) \cup {rows[k].name : k \in DOMAIN rows}
AddRow(rows, c, es) == Append(rows, Row(es, c, Used(es, rows)))
RowsOf(es, cs) == FoldLeft(LAMBDA rows, c : AddRow(rows, c, es), << >>, cs)
Flatten(es)    == RowsOf(es, InTurn(es))

\* expandPrivacyEndpointScopes: what it derived follows each name the scope had before.
DerivedOf(rows, es, name) ==
  {rows[k].name : k \in {h \in DOMAIN rows : rows[h].derived /\ es[rows[h].source].name = name}}
Expand(rows, es, scope) ==
  {<<name, 1>> : name \in scope} \cup UNION {DerivedOf(rows, es, name) : name \in scope}

\* repairClaudeRoutingTarget: << >> is automatic.
Repair(rows, target) ==
  IF \E k \in DOMAIN rows : rows[k].name = <<target, 1>> THEN target ELSE << >>

-----------------------------------------------------------------------------
\* Splitting loses and mixes nothing: every name is used once; each entry has
\* one row for each pair of its credentials and one row that keeps its name
\* and switches, so that no entry is tried with a second credential it did
\* not use before; a token never comes from another group, nor a key but the
\* first entry's; a privacy rule applies to all rows of the entries it
\* applied to, and to no other's; a fixed route keeps a target that remains.
Own(rows, i) == {k \in DOMAIN rows : rows[k].source = i}
Size(list)   == IF list = << >> THEN 1 ELSE Len(list)

\* Each pair of an entry's credentials has one row, and one row the entry's switches.
PairsKept(es, rows, i) ==
  /\ Cardinality({<<rows[k].token, rows[k].key>> : k \in Own(rows, i)}) = Cardinality(Own(rows, i))
  /\ Cardinality(Own(rows, i)) = Size(es[i].tokens) * Size(es[i].keys)
  /\ {k \in Own(rows, i) : rows[k].on}
       = {k \in Own(rows, i) : rows[k].name = <<es[i].name, 1>> /\ es[i].on}

CredentialsKept(es, r) ==
  /\ r.token[1] = "single" /\ r.token[2] # 0 =>
       \E j \in DOMAIN es : es[j].token = r.token[2] /\ GroupOf(es, j) = GroupOf(es, r.source)
  /\ r.key[1] = "single" /\ r.key[2] # 0 =>
       \E j \in DOMAIN es : /\ es[j].key = r.key[2]
                            /\ j = 1 \/ GroupOf(es, j) = GroupOf(es, r.source)

ScopeKept(es, rows, scope) ==
  {k \in DOMAIN rows : rows[k].name \in Expand(rows, es, scope)}
    = {k \in DOMAIN rows : es[rows[k].source].name \in scope}

Kept(es, rows, scope, target) ==
  /\ \A j, k \in DOMAIN rows : j # k => rows[j].name # rows[k].name
  /\ \A i \in DOMAIN es : PairsKept(es, rows, i)
  /\ \A k \in DOMAIN rows : rows[k].source \in DOMAIN es /\ CredentialsKept(es, rows[k])
  /\ ScopeKept(es, rows, scope)
  /\ (\E i \in DOMAIN es : es[i].name = target) => Repair(rows, target) = target
SplitLosesNothing(c) ==
  ~Rejected(c) => Kept(c.entries, Flatten(c.entries), c.scope, c.target)
=============================================================================
