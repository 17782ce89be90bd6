--------------------------- MODULE ResponseMatch ----------------------------
(***************************************************************************)
(* How a response body is compared with what a case expects                *)
(* (src/api_log_test_mcp/matching/response_matcher.py): pruning of the     *)
(* ignored paths, comparison in exact and json_subset mode, and, apart     *)
(* from both, what an expectation demands of a body.                       *)
(*                                                                         *)
(* A document is a record whose field tells its kind; scalars are strings  *)
(* and keep their JSON type in their spelling.  Each recursive function is *)
(* given here by its body, with the recursive call as a parameter: Matcher *)
(* closes the recursion.                                                   *)
(***************************************************************************)
EXTENDS Integers, Sequences, SequencesExt, Functions, TLC

CONSTANT IndexOf   \* the place in a list, from 1, a segment of digits names

Scalar(v) == [value |-> v]
Obj(f)    == [fields |-> f]
List(s)   == [items |-> s]
ANY_VALUE == [any |-> "<<any>>"]

IsObj(d)  == "fields" \in DOMAIN d
IsList(d) == "items" \in DOMAIN d

\* What a document is made of.
Children(d) == IF IsObj(d) THEN Range(d.fields) ELSE IF IsList(d) THEN Range(d.items) ELSE {}

-----------------------------------------------------------------------------
(* _prune *)

\* The keys of an object, and the places of a list, that a segment stands for.
Targets(head, keys)   == IF head = "*" THEN keys ELSE {head} \cap keys
Indices(head, places) ==
  IF head = "*" THEN places ELSE {IndexOf[s] : s \in {head} \cap DOMAIN IndexOf} \cap places

Popped(items, indices) ==
  CASE indices = {}           -> items
    [] indices = DOMAIN items -> <<>>
    [] OTHER                  -> RemoveAt(items, CHOOSE idx \in indices : TRUE)

PruneOneBody(prune_one(_, _), d, segments) ==
  LET rest == Tail(segments)
      Below(f, hit) == [k \in DOMAIN f |-> IF k \in hit THEN prune_one(f[k], rest) ELSE f[k]]
      keys == Targets(Head(segments), DOMAIN d.fields)
      places == Indices(Head(segments), DOMAIN d.items)
  IN  CASE IsObj(d) -> Obj(IF rest = <<>> THEN Restrict(d.fields, DOMAIN d.fields \ keys)
                           ELSE Below(d.fields, keys))
        [] IsList(d) -> List(IF rest = <<>> THEN Popped(d.items, places)
                             ELSE Below(d.items, places))
        [] OTHER -> d

\* One path after the other: a later path sees the places an earlier left.
PruneBody(prune(_, _), prune_one(_, _), d, paths) ==
  IF paths = <<>> THEN d ELSE prune(prune_one(d, Head(paths)), Tail(paths))

-----------------------------------------------------------------------------
(* _compare *)

\* Fault: one expected element is a template in exact mode as well.
IsTemplateAlways(items, subset) == Len(items) = 1

IsTemplate(items, subset) == subset /\ Len(items) = 1

\* The messages of the diffs; where they are is left out.
CompareBody(compare(_, _, _), e, a, subset) ==
  LET EachItem ==
        IF IsTemplate(e.items, subset)
        THEN UNION {compare(e.items[1], a.items[n], subset) : n \in DOMAIN a.items}
        ELSE (IF ~subset /\ Len(e.items) # Len(a.items) THEN {"list length mismatch"} ELSE {})
             \cup {"missing list item" : n \in DOMAIN e.items \ DOMAIN a.items}
             \cup UNION {compare(e.items[n], a.items[n], subset) :
                           n \in DOMAIN e.items \cap DOMAIN a.items}
      EachKey ==
        {"unexpected key" : k \in IF subset THEN {} ELSE DOMAIN a.fields \ DOMAIN e.fields}
        \cup {"missing key" : k \in DOMAIN e.fields \ DOMAIN a.fields}
        \cup UNION {compare(e.fields[k], a.fields[k], subset) :
                      k \in DOMAIN e.fields \cap DOMAIN a.fields}
  IN  CASE e = ANY_VALUE         -> {}
        [] IsObj(e) /\ IsObj(a)   -> EachKey
        [] IsList(e) /\ IsList(a) -> EachItem
        [] OTHER -> IF e = a THEN {} ELSE {"mismatch"}

-----------------------------------------------------------------------------
(* The reference: an expectation demands something of a body or of a part  *)
(* of it, and a body fits when it meets every demand.  A demand on a part  *)
(* says where: at a key, at a place in a list, at each of its elements.    *)

AtKey(k)   == [key |-> k]
AtPlace(n) == [place |-> n]
AtEach     == [each |-> TRUE]

OnPart(where, qs) == {[at |-> where, then |-> q] : q \in qs}

DemandsBody(demands(_, _), e, subset) ==
  CASE e = ANY_VALUE -> {[be |-> "present"]}
    [] IsObj(e) ->
         {IF subset THEN [be |-> "object"] ELSE [keys |-> DOMAIN e.fields]}
         \cup UNION {OnPart(AtKey(k), demands(e.fields[k], subset)) : k \in DOMAIN e.fields}
    [] IsList(e) ->
         {IF subset THEN [be |-> "list"] ELSE [length |-> Len(e.items)]}
         \cup UNION {OnPart(IF subset /\ Len(e.items) = 1 THEN AtEach ELSE AtPlace(n),
                            demands(e.items[n], subset)) : n \in DOMAIN e.items}
    [] OTHER -> {e}

Satisfies(d, q) ==
  \/ q \in {d, [be |-> "present"]}
  \/ IsObj(d) /\ q \in {[be |-> "object"], [keys |-> DOMAIN d.fields]}
  \/ IsList(d) /\ q \in {[be |-> "list"], [length |-> Len(d.items)]}

MeetsBody(meets(_, _), d, q) ==
  IF "at" \notin DOMAIN q THEN Satisfies(d, q)
  ELSE \/ IsObj(d) /\ \E k \in DOMAIN d.fields : q.at = AtKey(k) /\ meets(d.fields[k], q.then)
       \/ IsList(d) /\ \E n \in DOMAIN d.items : q.at = AtPlace(n) /\ meets(d.items[n], q.then)
       \/ IsList(d) /\ q.at = AtEach /\ \A n \in DOMAIN d.items : meets(d.items[n], q.then)

=============================================================================
