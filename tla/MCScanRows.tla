----------------------------- MODULE MCScanRows -----------------------------
EXTENDS ScanRows

(* The functions of scan.py call themselves: each is its body, with itself *)
(* for the calls in it.  (The LET keeps TLC's coverage from unfolding an   *)
(* operator for ever.)                                                     *)
MCNeeds(p) == LET answer == NeedsOf(p) IN answer
MCEvaluate(p, row) == LET answer == EvaluateOf(p, row) IN answer
MCExtractKeyPrefix(p) == LET answer == ExtractKeyPrefixOf(p) IN answer
MCPeelKeyPrefix(p) == LET answer == PeelKeyPrefixOf(p) IN answer
MCIsKeyOnly(p) == LET answer == IsKeyOnlyOf(p) IN answer
MCSplitKeyPredicates(p) == LET answer == SplitKeyPredicatesOf(p) IN answer
MCIsGcPredicate(p) == LET answer == IsGcPredicateOf(p) IN answer
MCFlattenAnd(p) == LET answer == FlattenAndOf(p) IN answer

MCListing == <<"a", "b", "c">>
MCByColumn == <<"c", "a", "b">>
MCForward == [v \in Value |-> 1 - v]
MCRenamed == [k \in Key |-> CASE k = "a" -> "b" [] k = "b" -> "a" [] OTHER -> k]

Of(views, leaf) == {[view |-> v, leaf |-> leaf] : v \in views}

AllStores ==
    Of({"leaf", "mapped", "commit", "rekeyed"}, "sql") \cup Of({"leaf", "mapped"}, "object")
        \cup Of({"leaf", "through", "union"}, "memory") \cup Of({"leaf"}, "redis")

SqlLeaf == Of({"leaf"}, "sql")

Ask(where, project, limit) ==
    [where |-> where, refine |-> FALSE, project |-> project, limit |-> limit,
     orderBy |-> FALSE, strict |-> FALSE, delete |-> FALSE]

Filter == {AlwaysTrue, SugarToWhere(AlwaysTrue, TRUE), SugarToWhere(KeyIn, TRUE), ValueWhere,
           Not(ModifiedBefore), And(KeyIn, ValueWhere), Or(KeyIn, ValueWhere)}

SomeSpecs ==
    {Ask(w, p, l) : w \in Filter, p \in {"keys", "entries"}, l \in {1, NoLimit}}
    \cup {[Ask(w, p, 2) EXCEPT !.orderBy = TRUE] : w \in {AlwaysTrue, ModifiedBefore, ValueWhere},
                                                   p \in {"stats", "entries"}}
    \cup {[Ask(w, "keys", l) EXCEPT !.refine = TRUE] : w \in {AlwaysTrue, ValueWhere}, l \in {1, NoLimit}}
    \cup {[Ask(w, "keys", NoLimit) EXCEPT !.delete = TRUE] : w \in {ValueWhere, KeyIn}}
    \cup {[Ask(w, "keys", NoLimit) EXCEPT !.strict = TRUE] : w \in {KeyPrefix, ValueWhere}}

LimitedSpecs == {Ask(w, "keys", 1) : w \in Filter}

Atoms == {AlwaysTrue, KeyPrefix, KeyIn, ModifiedBefore, Expired, ValueWhere}
Above(ps) == {Not(p) : p \in ps} \cup {And(p, q) : p \in ps, q \in Atoms}
                 \cup {Or(p, q) : p \in ps, q \in Atoms}
AllTrees == LET one == Atoms \cup Above(Atoms) IN one \cup Above(one)
NoTrees == {}

Held(f, g) == [p \in Parts |-> [k \in Key |-> IF p = 1 THEN f[k] ELSE g[k]]]
abc(x, y, z) == [k \in Key |-> CASE k = "a" -> x [] k = "b" -> y [] OTHER -> z]
SomeContents == {Held(abc(0, 1, 1), abc(1, None, 1)), Held(abc(1, None, 0), abc(0, 1, None))}
=============================================================================
