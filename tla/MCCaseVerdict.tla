--------------------------- MODULE MCCaseVerdict -----------------------------
(* An instance of CaseVerdict for TLC: small documents, and logs of events. *)
EXTENDS CaseVerdict, Matcher

CONSTANT other

Partial(keys, values) == UNION {[k -> values] : k \in SUBSET keys}

Objects(keys, values) == {Obj(f) : f \in Partial(keys, values)}
Lists(values) == {List(s) : s \in {<<>>} \cup {<<v>> : v \in values}
                                 \cup {<<v, w>> : v, w \in values}}

One == Scalar("1")
Two == Scalar("2")

\* Scalars, objects, lists, and those in an object or a list: up to an object
\* of a list of objects.
Nested(scalars) ==
  LET records == Lists(Objects({"b"}, scalars))
  IN  scalars \cup Objects({"a", "b"}, scalars) \cup Lists(scalars) \cup records
      \cup Objects({"a"}, Lists(scalars) \cup Objects({"b"}, scalars) \cup records)

Expectations == Nested({One, Two, ANY_VALUE})
Answers == Nested({One, Two}) \cup {List(s) : s \in [1..3 -> {One, Two}]}

Ignores ==
  {<<>>, <<<<"a">>>>, <<<<"a", "b">>>>, <<<<"*", "b">>>>, <<<<"a", "*", "b">>>>, <<<<"*">>>>,
   <<<<"b">>, <<"a">>>>, <<<<"0">>>>, <<<<"1", "b">>, <<"0">>>>}

\* An event: who wrote it, its first line and what the others say; the id is
\* in its first line, in its second, or (a heartbeat, a cut event) nowhere.
Lines(writer, whole, place, said) ==
  [n \in DOMAIN said |->
     [id |-> IF n = place THEN writer ELSE NoId, stamped |-> whole /\ n = 1,
      says |-> said[n], writer |-> writer]]

Said == {<<{"x"}>>, <<{}, {"x"}>>, <<{"y"}, {"x"}>>}

Events ==
  {Lines(w, TRUE, p, s) : w \in {Mine, other}, p \in {1, 2}, s \in Said}
  \cup {Lines(NoId, TRUE, 0, s) : s \in Said}

\* The download may begin in the middle of an event.
Openings == {<<>>} \cup {Lines(w, FALSE, 0, s) : w \in {Mine, NoId}, s \in Said}

Instances == {o \o e : o \in Openings, e \in Events} \cup {e \o f : e, f \in Events}

SmallLogs == {<<i>> : i \in Instances} \cup {<<i, o \o e>> : i \in Events, o \in Openings, e \in Events}

XY == {"x", "y"}

\* The places segments name, the paths there are below those to ignore, and all
\* documents met: those with elements removed are among the given ones.
Zero_One == ("0" :> 1) @@ ("1" :> 2)

Segments ==
  LET Tails(p) == {SubSeq(p, n, Len(p)) : n \in DOMAIN p}
  IN  UNION {UNION {Tails(paths[n]) : n \in DOMAIN paths} : paths \in Ignores}

AllDocs == UNION {Parts(d) : d \in Expectations \cup Answers}
=============================================================================
