--------------------------- MODULE ScanPredicates ---------------------------
(***************************************************************************)
(* The predicate algebra of store/schema/scan.py: what a filter needs from *)
(* a row, how a scan takes a filter apart (a prefix to list by, the part   *)
(* about keys alone, the conjuncts by what they read) and how the sugar of *)
(* scan() becomes one filter.                                              *)
(*                                                                         *)
(* A predicate is a record whose field op names its class.  A row is       *)
(* [key, value, stat]; value is None where the scan brought none, and stat *)
(* is None, "new", "old" or "dead": modified after or before the time a    *)
(* predicate names, or past its expiry.                                    *)
(*                                                                         *)
(* The functions of scan.py recur over a predicate.  Each is a parameter   *)
(* here, and the operator named after it with Of is its body, in which the *)
(* parameter stands for the recursive call: a configuration gives          *)
(* Evaluate the value EvaluateOf, and so on.                               *)
(***************************************************************************)
EXTENDS Naturals, Sequences, KeyValue

CONSTANTS
    Good,       \* ValueWhere holds of the value Good
    Under,      \* the keys that start with the prefix scans ask for
    Named,      \* the keys of KeyIn (KeyRange and KeyMatches tell keys alike)
    None

CONSTANTS
    Needs(_), Evaluate(_, _), ExtractKeyPrefix(_), PeelKeyPrefix(_), IsKeyOnly(_),
    SplitKeyPredicates(_), IsGcPredicate(_), FlattenAnd(_)

ASSUME PredicatesAssumption ==
    /\ Under \subseteq Key /\ Named \subseteq Key
    /\ Good \in Value /\ None \notin Value /\ None \notin {"new", "old", "dead"} \cup Key

Stat == {None, "new", "old", "dead"}
Row == [key : Key, value : Value \cup {None}, stat : Stat]

AlwaysTrue == [op |-> "true"]
KeyPrefix == [op |-> "prefix"]
KeyIn == [op |-> "keyin"]
ModifiedBefore == [op |-> "before"]
Expired == [op |-> "expired"]
ValueWhere == [op |-> "value"]
And(l, r) == [op |-> "and", left |-> l, right |-> r]
Or(l, r) == [op |-> "or", left |-> l, right |-> r]
Not(p) == [op |-> "not", inner |-> p]

IsKeyPredicate(p) == p.op \in {"prefix", "keyin"}
IsStatPredicate(p) == p.op \in {"before", "expired"}

(* Predicate.needs: what a row must carry for the predicate to be asked.   *)
NeedsOf(p) ==
    CASE p.op = "true" -> {}
      [] IsKeyPredicate(p) -> {"key"}
      [] IsStatPredicate(p) -> {"stat"}
      [] p.op = "value" -> {"value"}
      [] p.op = "not" -> Needs(p.inner)
      [] OTHER -> Needs(p.left) \cup Needs(p.right)

(* Predicate.evaluate.  A row without the stat or the value asked about    *)
(* does not satisfy the question, so it satisfies the question's negation. *)
EvaluateOf(p, row) ==
    CASE p.op = "true" -> TRUE
      [] p.op = "prefix" -> row.key \in Under
      [] p.op = "keyin" -> row.key \in Named
      [] p.op = "before" -> row.stat \in {"old", "dead"}
      [] p.op = "expired" -> row.stat = "dead"
      [] p.op = "value" -> row.value = Good
      [] p.op = "not" -> ~ Evaluate(p.inner, row)
      [] p.op = "and" -> Evaluate(p.left, row) /\ Evaluate(p.right, row)
      [] p.op = "or" -> Evaluate(p.left, row) \/ Evaluate(p.right, row)

(* sugar_to_spec: where and prefix become one predicate.                   *)
SugarToWhere(where, prefixed) ==
    IF ~ prefixed THEN where
    ELSE IF where = AlwaysTrue THEN KeyPrefix ELSE And(where, KeyPrefix)

KeepsOneSide(l, r) == IF l = AlwaysTrue THEN r ELSE l

(* And of two predicates, where AlwaysTrue is left out.                    *)
AndUnlessTrue(l, r) ==
    IF l = AlwaysTrue THEN r ELSE IF r = AlwaysTrue THEN l ELSE And(l, r)

(* extract_key_prefix: whether an And holds a KeyPrefix.                   *)
ExtractKeyPrefixOf(p) ==
    \/ p.op = "prefix"
    \/ p.op = "and" /\ (ExtractKeyPrefix(p.left) \/ ExtractKeyPrefix(p.right))

(* peel_key_prefix: [prefix, residual].  The first prefix found is given   *)
(* to the listing; the residual is the predicate without it.               *)
PeelKeyPrefixOf(p) ==
    IF p.op = "prefix" THEN [prefix |-> TRUE, residual |-> AlwaysTrue]
    ELSE IF p.op # "and" THEN [prefix |-> FALSE, residual |-> p]
    ELSE LET l == PeelKeyPrefix(p.left)
             r == PeelKeyPrefix(p.right)
         IN CASE l.prefix ->
                   [prefix |-> TRUE,
                    residual |-> IF l.residual = AlwaysTrue THEN p.right
                                 ELSE And(l.residual, p.right)]
              [] ~ l.prefix /\ r.prefix ->
                   [prefix |-> TRUE,
                    residual |-> IF r.residual = AlwaysTrue THEN p.left
                                 ELSE And(p.left, r.residual)]
              [] OTHER -> [prefix |-> FALSE, residual |-> p]

(* is_key_only_predicate.                                                  *)
IsKeyOnlyOf(p) ==
    \/ p.op = "true"
    \/ IsKeyPredicate(p)
    \/ p.op \in {"and", "or"} /\ IsKeyOnly(p.left) /\ IsKeyOnly(p.right)
    \/ p.op = "not" /\ IsKeyOnly(p.inner)

(* split_key_predicates: [keys, residual].  keys may be sent to the store  *)
(* that lists the keys; residual is asked of the assembled record.         *)
SplitKeyPredicatesOf(p) ==
    CASE p.op = "true" -> [keys |-> AlwaysTrue, residual |-> AlwaysTrue]
      [] IsKeyPredicate(p) -> [keys |-> p, residual |-> AlwaysTrue]
      [] IsStatPredicate(p) \/ p.op = "value" ->
           [keys |-> AlwaysTrue, residual |-> p]
      [] p.op = "not" ->
           LET s == SplitKeyPredicates(p.inner)
           IN CASE s.residual = AlwaysTrue /\ s.keys # AlwaysTrue ->
                     [keys |-> Not(s.keys), residual |-> AlwaysTrue]
                [] s.keys = AlwaysTrue /\ s.residual # AlwaysTrue ->
                     [keys |-> AlwaysTrue, residual |-> Not(s.residual)]
                [] OTHER -> [keys |-> AlwaysTrue, residual |-> p]
      [] p.op = "and" ->
           LET l == SplitKeyPredicates(p.left)
               r == SplitKeyPredicates(p.right)
           IN [keys |-> AndUnlessTrue(l.keys, r.keys),
               residual |-> AndUnlessTrue(l.residual, r.residual)]
      [] p.op = "or" ->
           IF IsKeyOnly(p) THEN [keys |-> p, residual |-> AlwaysTrue]
           ELSE [keys |-> AlwaysTrue, residual |-> p]

(* is_gc_predicate: Expired, or And and Or of nothing else.                *)
IsGcPredicateOf(p) ==
    \/ p.op = "expired"
    \/ p.op \in {"and", "or"} /\ IsGcPredicate(p.left) /\ IsGcPredicate(p.right)

(* flatten_and: the conjuncts.  Each is asked of a row, in no order that    *)
(* matters.                                                                *)
FlattenAndOf(p) ==
    CASE p.op = "and" -> FlattenAnd(p.left) \cup FlattenAnd(p.right)
      [] p.op = "true" -> {}
      [] OTHER -> {p}

(* partition_by_needs: a conjunct is asked as late as what it reads.       *)
PartitionByNeeds(p) ==
    LET readsValue(c) == "value" \in Needs(c)
        readsStat(c) == "stat" \in Needs(c)
    IN [key |-> {c \in FlattenAnd(p) : ~ readsValue(c) /\ ~ readsStat(c)},
        stat |-> {c \in FlattenAnd(p) : ~ readsValue(c) /\ readsStat(c)},
        value |-> {c \in FlattenAnd(p) : readsValue(c)}]

(* _all_pass.                                                              *)
AllPass(preds, row) == \A p \in preds : Evaluate(p, row)
=============================================================================
