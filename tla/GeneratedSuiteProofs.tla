------------------------- MODULE GeneratedSuiteProofs -------------------------
(***************************************************************************)
(* Proofs about GeneratedSuite, for every document and application.        *)
(***************************************************************************)
EXTENDS GeneratedSuite, FiniteSetTheorems, WellFoundedInduction, TLAPS

-----------------------------------------------------------------------------
(* What a case sends *)

RequestFields == {"op", "method", "resource", "path", "query", "header", "content", "body",
                  "accept", "auth"}

Sends(c, r) == \A x \in RequestFields : c[x] = r[x]

\* _add keeps the request and names what is expected of it.
LEMMA Added ==
  ASSUME NEW r, DOMAIN r = RequestFields, NEW category, NEW status, NEW expected
  PROVE  LET c == Add(r, category, status, expected)
         IN  /\ Sends(c, r)
             /\ c.category = category /\ c.status = status /\ c.logs = ExpectedLogs(status)
             /\ c.expected = expected /\ c.mode = "json_subset"
             /\ DOMAIN c = RequestFields \cup {"category", "status", "expected", "mode", "logs"}
BY DEF Add, Sends, RequestFields, Besides

\* The same for a case of the flows.
LEMMA FlowAdded ==
  ASSUME NEW r, DOMAIN r = RequestFields, NEW category, NEW status, NEW response, NEW logs
  PROVE  LET c == Flow(r, category, status, response, logs)
         IN  Sends(c, r) /\ c.category = category /\ c.logs = logs
BY DEF Flow, Sends, RequestFields, Besides

\* The valid request of an operation, field by field.
LEMMA ValidFields ==
  ASSUME NEW i
  PROVE  LET r == ValidRequest(i)
         IN  /\ DOMAIN r = RequestFields
             /\ r.op = i /\ r.method = spec.ops[i].method /\ r.resource = spec.ops[i].path
             /\ r.content = IF HasBody(spec.ops[i]) THEN "json" ELSE "none"
             /\ r.body = IF HasBody(spec.ops[i]) THEN [json |-> Baseline(spec.ops[i])]
                         ELSE [raw |-> ""]
             /\ r.auth = "none"
BY DEF ValidRequest, RequestFields

-----------------------------------------------------------------------------
(* Faults, one by one *)

Places == {"query", "header", "path"}

\* A parameter that is sent breaks its rules, one that is not is missing.
LEMMA ParamFault ==
  ASSUME NEW op, NEW c, NEW place, NEW f
  PROVE  f \in ParamFaults(op, c, place) <=>
           \E p \in Params(op, place) :
             \/ /\ p.name \in DOMAIN c[place]
                /\ \E rule \in Breaks(c[place][p.name], p.schema) : f = <<place, p.name, rule>>
             \/ p.name \notin DOMAIN c[place] /\ p.required /\ f = <<place, p.name, "required">>
<1> DEFINE Of(p) == IF p.name \in DOMAIN c[place]
                    THEN {<<place, p.name, rule>> : rule \in Breaks(c[place][p.name], p.schema)}
                    ELSE {<<place, p.name, "required">> : x \in IF p.required THEN {1} ELSE {}}
<1>1. ParamFaults(op, c, place) = UNION {Of(p) : p \in Params(op, place)}
  BY DEF ParamFaults
<1>2. ASSUME NEW p
      PROVE  f \in Of(p) <=>
               \/ /\ p.name \in DOMAIN c[place]
                  /\ \E rule \in Breaks(c[place][p.name], p.schema) : f = <<place, p.name, rule>>
               \/ p.name \notin DOMAIN c[place] /\ p.required /\ f = <<place, p.name, "required">>
  OBVIOUS
<1> HIDE DEF Of
<1> QED  BY <1>1, <1>2

\* A body in JSON lacks a field, has a bad one, or has one too many.
LEMMA BodyFault ==
  ASSUME NEW op, NEW c, c.content # "text", "raw" \notin DOMAIN c.body, NEW f
  PROVE  LET b == c.body.json
         IN  f \in BodyFaults(op, c) <=>
               \/ \E n \in op.body.required \ DOMAIN b : f = <<"body", n, "required">>
               \/ \E n \in DOMAIN b \cap DOMAIN op.body.fields :
                    \E rule \in Breaks(b[n], op.body.fields[n]) : f = <<"body", n, rule>>
               \/ /\ op.body.closed
                  /\ \E n \in DOMAIN b \ DOMAIN op.body.fields : f = <<"body", n, "closed">>
<1> DEFINE b == c.body.json
           Missing == {<<"body", n, "required">> : n \in op.body.required \ DOMAIN b}
           Of(n) == {<<"body", n, rule>> : rule \in Breaks(b[n], op.body.fields[n])}
           Declared == UNION {Of(n) : n \in DOMAIN b \cap DOMAIN op.body.fields}
           Extra == IF op.body.closed
                    THEN {<<"body", n, "closed">> : n \in DOMAIN b \ DOMAIN op.body.fields} ELSE {}
<1>1. BodyFaults(op, c) = Missing \cup Declared \cup Extra
  BY DEF BodyFaults
<1>2. f \in Declared <=> \E n \in DOMAIN b \cap DOMAIN op.body.fields : f \in Of(n)
  BY DEF Declared
<1>3. \A n : f \in Of(n) <=> \E rule \in Breaks(b[n], op.body.fields[n]) : f = <<"body", n, rule>>
  BY DEF Of
<1>4. f \in Missing <=> \E n \in op.body.required \ DOMAIN b : f = <<"body", n, "required">>
  BY DEF Missing
<1>5. f \in Extra <=> /\ op.body.closed
                      /\ \E n \in DOMAIN b \ DOMAIN op.body.fields : f = <<"body", n, "closed">>
  BY DEF Extra
<1> HIDE DEF Missing, Of, Declared, Extra
<1> QED  BY <1>1, <1>2, <1>3, <1>4, <1>5

\* The faults of a request are those of its parameters, of its body, of the
\* resource and of its credentials.
LEMMA Fault ==
  ASSUME NEW c, NEW f
  PROVE  f \in Faults(c) <=>
           \/ \E place \in Places : f \in ParamFaults(spec.ops[c.op], c, place)
           \/ HasBody(spec.ops[c.op]) /\ f \in BodyFaults(spec.ops[c.op], c)
           \/ f = <<"resource", "", "exists">> /\ \E m \in DOMAIN c.path : c.path[m] = Bogus
           \/ f = <<"auth", "", "credentials">> /\ c.auth = "invalid"
<1> DEFINE op == spec.ops[c.op]
           Ps == UNION {ParamFaults(op, c, place) : place \in {"query", "header", "path"}}
           Bs == IF HasBody(op) THEN BodyFaults(op, c) ELSE {}
           Rs == {<<"resource", "", "exists">> : n \in {m \in DOMAIN c.path : c.path[m] = Bogus}}
           As == IF c.auth = "invalid" THEN {<<"auth", "", "credentials">>} ELSE {}
<1>1. Faults(c) = Ps \cup Bs \cup Rs \cup As
  BY DEF Faults
<1>2. f \in Ps <=> \E place \in Places : f \in ParamFaults(op, c, place)
  BY DEF Ps, Places
<1>3. f \in Bs <=> HasBody(op) /\ f \in BodyFaults(op, c)
  BY DEF Bs
<1>4. f \in Rs <=> f = <<"resource", "", "exists">> /\ \E m \in DOMAIN c.path : c.path[m] = Bogus
  BY DEF Rs
<1>5. f \in As <=> f = <<"auth", "", "credentials">> /\ c.auth = "invalid"
  BY DEF As
<1> HIDE DEF Ps, Bs, Rs, As
<1> QED  BY <1>1, <1>2, <1>3, <1>4, <1>5

\* What is wrong with a case is wrong with the request it sends.
LEMMA FaultsOfRequest ==
  ASSUME NEW c, NEW r, Sends(c, r)
  PROVE  Faults(c) = Faults(r)
<1>1. /\ c.op = r.op /\ c.path = r.path /\ c.query = r.query /\ c.header = r.header
      /\ c.content = r.content /\ c.body = r.body /\ c.auth = r.auth
  BY DEF Sends, RequestFields
<1>2. ASSUME NEW op, NEW place \in Places
      PROVE  ParamFaults(op, c, place) = ParamFaults(op, r, place)
  <2>1. c[place] = r[place]  BY <1>1 DEF Places
  <2> QED  BY <2>1 DEF ParamFaults
<1>3. ASSUME NEW op PROVE BodyFaults(op, c) = BodyFaults(op, r)
  BY <1>1 DEF BodyFaults
<1>4. ASSUME NEW f PROVE f \in Faults(c) <=> f \in Faults(r)
  <2> DEFINE op == spec.ops[r.op]
             Wrong(x) == \/ \E place \in Places : f \in ParamFaults(op, x, place)
                         \/ HasBody(op) /\ f \in BodyFaults(op, x)
                         \/ f = <<"resource", "", "exists">> /\ \E m \in DOMAIN x.path : x.path[m] = Bogus
                         \/ f = <<"auth", "", "credentials">> /\ x.auth = "invalid"
  <2>1. f \in Faults(r) <=> Wrong(r)
    BY Fault
  <2>2. f \in Faults(c) <=> Wrong(c)
    BY <1>1, Fault
  <2>3. Wrong(c) <=> Wrong(r)
    BY <1>1, <1>2, <1>3
  <2> HIDE DEF Wrong
  <2> QED  BY <2>1, <2>2, <2>3
<1> QED  BY <1>4

-----------------------------------------------------------------------------
(* Values that are made to be invalid *)

\* A keyword of a schema that a value of its type breaks.
LEMMA Broken ==
  ASSUME NEW v, NEW s, NEW rule \in DOMAIN s,
         \/ /\ KindOf(v) = "string"
            /\ \/ rule = "pattern" /\ v \notin s.pattern
               \/ rule = "minLength" /\ v.len < s.minLength
               \/ rule = "maxLength" /\ v.len > s.maxLength
         \/ /\ KindOf(v) = "integer"
            /\ \/ rule = "minimum" /\ v.number < s.minimum
               \/ rule = "maximum" /\ v.number > s.maximum
         \/ /\ KindOf(v) = "array"
            /\ \/ rule = "maxItems" /\ Len(v.elements) > s.maxItems
               \/ rule = "uniqueItems" /\ s.uniqueItems /\ ~IsInjective(v.elements)
               \/ rule = "items" /\ "maxLength" \in DOMAIN s.items
                    /\ \E n \in DOMAIN v.elements : v.elements[n].len > s.items.maxLength
         \/ rule = "enum" /\ v \notin Range(s.enum)
  PROVE  rule \in Breaks(v, s)
<1> DEFINE k == KindOf(v)
           BreaksText(x) == CASE x = "pattern" -> v \notin s.pattern
                              [] x = "minLength" -> v.len < s.minLength
                              [] x = "maxLength" -> v.len > s.maxLength
                              [] OTHER -> FALSE
           BreaksNumber(x) == CASE x = "minimum" -> v.number < s.minimum
                                [] x = "maximum" -> v.number > s.maximum
                                [] OTHER -> FALSE
           BreaksArray(x) == CASE x = "maxItems" -> Len(v.elements) > s.maxItems
                               [] x = "minItems" -> Len(v.elements) < s.minItems
                               [] x = "uniqueItems" -> s.uniqueItems /\ ~IsInjective(v.elements)
                               [] x = "items" -> "maxLength" \in DOMAIN s.items /\
                                    \E n \in DOMAIN v.elements :
                                      v.elements[n].len > s.items.maxLength
                               [] OTHER -> FALSE
<1>1. Breaks(v, s) = {x \in DOMAIN s :
                        \/ x = "type" /\ s.type # k
                        \/ x = "enum" /\ v \notin Range(s.enum)
                        \/ k = "string" /\ BreaksText(x)
                        \/ k = "integer" /\ BreaksNumber(x)
                        \/ k = "array" /\ BreaksArray(x)}
  BY DEF Breaks
<1>2. BreaksText("pattern") = (v \notin s.pattern)  OBVIOUS
<1>3. BreaksText("minLength") = (v.len < s.minLength)  OBVIOUS
<1>4. BreaksText("maxLength") = (v.len > s.maxLength)  OBVIOUS
<1>5. BreaksNumber("minimum") = (v.number < s.minimum)  OBVIOUS
<1>6. BreaksNumber("maximum") = (v.number > s.maximum)  OBVIOUS
<1>7. BreaksArray("maxItems") = (Len(v.elements) > s.maxItems)  OBVIOUS
<1>8. BreaksArray("uniqueItems") = (s.uniqueItems /\ ~IsInjective(v.elements))  OBVIOUS
<1>9. BreaksArray("items") = ("maxLength" \in DOMAIN s.items /\
        \E n \in DOMAIN v.elements : v.elements[n].len > s.items.maxLength)  OBVIOUS
<1> HIDE DEF BreaksText, BreaksNumber, BreaksArray
<1> QED  BY <1>1, <1>2, <1>3, <1>4, <1>5, <1>6, <1>7, <1>8, <1>9

\* The keywords there are negatives for, of parameters and of fields.
Negatives(s) == ScalarNegatives(s) \cup ArrayNegatives(s)

LEMMA FieldNegative ==
  ASSUME NEW s, NEW k \in FieldNegatives(s)
  PROVE  k \in Negatives(s)
BY DEF FieldNegatives, Negatives

\* Every one is broken by its value.
LEMMA ViolationBreaks ==
  ASSUME NEW s, KnownSchema(s), NEW k \in Negatives(s)
  PROVE  k \in Breaks(Violation(s, k), s)
<1> DEFINE v == Violation(s, k)
<1> SUFFICES k \in Breaks(v, s)
  OBVIOUS
<1>1. k \in DOMAIN s
  BY DEF Negatives, ScalarNegatives, ArrayNegatives
<1>2. CASE k = "enum"
  <2>1. v \notin Range(s.enum)  BY <1>1, <1>2 DEF KnownSchema
  <2> HIDE DEF v
  <2> QED  BY <1>1, <1>2, <2>1, Broken
<1>3. CASE k = "pattern"
  <2>1. v \notin s.pattern  BY <1>1, <1>3 DEF KnownSchema
  <2>2. v = [text |-> "!bad!", len |-> 5]  BY <1>3 DEF Violation, Text
  <2>3. KindOf(v) = "string"  BY <2>2 DEF KindOf
  <2> HIDE DEF v
  <2> QED  BY <1>1, <1>3, <2>1, <2>3, Broken
<1>4. CASE k = "minLength"
  <2>1. s.minLength \in Nat  BY <1>1, <1>4 DEF KnownSchema
  <2>2. v = [text |-> "x", len |-> s.minLength - 1]  BY <1>4 DEF Violation, Xs, Text
  <2>3. KindOf(v) = "string" /\ v.len < s.minLength  BY <2>1, <2>2 DEF KindOf
  <2> HIDE DEF v
  <2> QED  BY <1>1, <1>4, <2>3, Broken
<1>5. CASE k = "maxLength"
  <2>1. s.maxLength \in Nat  BY <1>1, <1>5 DEF KnownSchema
  <2>2. v = [text |-> "x", len |-> s.maxLength + 1]  BY <1>5 DEF Violation, Xs, Text
  <2>3. KindOf(v) = "string" /\ v.len > s.maxLength  BY <2>1, <2>2 DEF KindOf
  <2> HIDE DEF v
  <2> QED  BY <1>1, <1>5, <2>3, Broken
<1>6. CASE k = "minimum"
  <2>1. s.minimum \in Int  BY <1>1, <1>6 DEF KnownSchema
  <2>2. v = [number |-> s.minimum - 1]  BY <1>6 DEF Violation, Number
  <2>3. KindOf(v) = "integer" /\ v.number < s.minimum  BY <2>1, <2>2 DEF KindOf
  <2> HIDE DEF v
  <2> QED  BY <1>1, <1>6, <2>3, Broken
<1>7. CASE k = "maximum"
  <2>1. s.maximum \in Int  BY <1>1, <1>7 DEF KnownSchema
  <2>2. v = [number |-> s.maximum + 1]  BY <1>7 DEF Violation, Number
  <2>3. KindOf(v) = "integer" /\ v.number > s.maximum  BY <2>1, <2>2 DEF KindOf
  <2> HIDE DEF v
  <2> QED  BY <1>1, <1>7, <2>3, Broken
<1>8. CASE k = "maxItems"
  <2>1. s.maxItems \in Nat  BY <1>1, <1>8 DEF KnownSchema
  <2> DEFINE e == [n \in 1..s.maxItems + 1 |-> Text("tag" \o ToString(n), 4)]
  <2>2. v = [elements |-> e]  BY <1>8 DEF Violation, Items
  <2>3. Len(e) = s.maxItems + 1  BY <2>1
  <2> HIDE DEF e
  <2>4. KindOf(v) = "array" /\ Len(v.elements) > s.maxItems  BY <2>1, <2>2, <2>3 DEF KindOf
  <2> HIDE DEF v
  <2> QED  BY <1>1, <1>8, <2>4, Broken
<1>9. CASE k = "uniqueItems"
  <2>1. v = [elements |-> <<Text("dup", 3), Text("dup", 3)>>]  BY <1>9 DEF Violation, Items
  <2>2. KindOf(v) = "array"  BY <2>1 DEF KindOf
  <2>3. ~IsInjective(v.elements)  BY <2>1 DEF IsInjective
  <2>4. s.uniqueItems  BY <1>9 DEF Negatives, ScalarNegatives, ArrayNegatives
  <2> HIDE DEF v
  <2> QED  BY <1>1, <1>9, <2>2, <2>3, <2>4, Broken
<1>10. CASE k = "items"
  <2>1. "maxLength" \in DOMAIN s.items /\ s.items.maxLength \in Nat
    BY <1>1, <1>10 DEF KnownSchema, Negatives, ScalarNegatives, ArrayNegatives
  <2>2. v = [elements |-> <<[text |-> "x", len |-> s.items.maxLength + 1]>>]
    BY <1>10 DEF Violation, Items, Xs, Text
  <2>3. KindOf(v) = "array" /\ 1 \in DOMAIN v.elements
        /\ v.elements[1].len > s.items.maxLength
    BY <2>1, <2>2 DEF KindOf
  <2> HIDE DEF v
  <2> QED  BY <1>1, <1>10, <2>1, <2>3, Broken
<1> QED
  BY <1>2, <1>3, <1>4, <1>5, <1>6, <1>7, <1>8, <1>9, <1>10
     DEF Negatives, ScalarNegatives, ArrayNegatives

\* No invalid value is the id of the resource that does not exist.
LEMMA ViolationNotBogus ==
  ASSUME NEW s, NEW k \in Negatives(s)
  PROVE  Violation(s, k) # Bogus
<1>1. k \in {"enum", "pattern", "minLength", "maxLength", "minimum", "maximum", "maxItems",
             "uniqueItems", "items"}
  BY DEF Negatives, ScalarNegatives, ArrayNegatives
<1>2. DOMAIN Bogus = {"text", "len"} /\ Bogus.text = "Nonexistent-ZZZ-000"
  BY DEF Bogus, Text
<1>3. k \in {"enum", "pattern", "minLength", "maxLength"} =>
        Violation(s, k).text \in {"__INVALID_ENUM__", "!bad!", "x"}
  BY DEF Violation, Xs, Text
<1>4. k \in {"minimum", "maximum"} => DOMAIN Violation(s, k) = {"number"}
  BY DEF Violation, Number
<1>5. k \in {"maxItems", "uniqueItems", "items"} => DOMAIN Violation(s, k) = {"elements"}
  BY DEF Violation, Items
<1> QED  BY <1>1, <1>2, <1>3, <1>4, <1>5

\* Of a schema every keyword the generator knows has a negative, in a body and,
\* but for an array, anywhere else.
LEMMA KeywordsKnown ==
  ASSUME NEW s, KnownSchema(s), NEW k \in Keywords(s)
  PROVE  k \in FieldNegatives(s) /\ (s.type # "array" => k \in ScalarNegatives(s))
BY DEF Keywords, FieldNegatives, ScalarNegatives, ArrayNegatives, KnownSchema

-----------------------------------------------------------------------------
(* A request changed in one place *)

\* Outside of a name two records are the same.
SameBut(f, g, name) ==
  \A n : n # name => (n \in DOMAIN f <=> n \in DOMAIN g) /\ (n \in DOMAIN f => f[n] = g[n])

\* A field put into a record, or dropped from it, changes that field alone.
LEMMA PutOne ==
  ASSUME NEW f, NEW name, NEW v
  PROVE  /\ name \in DOMAIN Put(f, name, v) /\ Put(f, name, v)[name] = v
         /\ SameBut(Put(f, name, v), f, name)
BY DEF Put, SameBut

LEMMA DropOne ==
  ASSUME NEW f, NEW name
  PROVE  name \notin DOMAIN Drop(f, name) /\ SameBut(Drop(f, name), f, name)
BY DEF Drop, Restrict, SameBut

\* A parameter that is missing is a fault of the request,
LEMMA ParamMissing ==
  ASSUME NEW o, NEW place \in Places, NEW p \in Params(spec.ops[o.op], place),
         p.required, p.name \notin DOMAIN o[place]
  PROVE  <<place, p.name, "required">> \in Faults(o)
<1>1. <<place, p.name, "required">> \in ParamFaults(spec.ops[o.op], o, place)
  BY ParamFault
<1> QED  BY <1>1, Fault

\* and so is one that breaks a rule.
LEMMA ParamBroken ==
  ASSUME NEW o, NEW place \in Places, NEW p \in Params(spec.ops[o.op], place),
         p.name \in DOMAIN o[place], NEW k \in Breaks(o[place][p.name], p.schema)
  PROVE  <<place, p.name, k>> \in Faults(o)
<1>1. <<place, p.name, k>> \in ParamFaults(spec.ops[o.op], o, place)
  BY ParamFault
<1> QED  BY <1>1, Fault

ParamRequest(i, place, given) == [ValidRequest(i) EXCEPT ![place] = given]

\* A fault of a request that is another but for a parameter, and is not
\* wrong itself, is that parameter's.
LEMMA ParamLocal ==
  ASSUME NEW i, NEW place \in Places, NEW name, NEW given, NEW o,
         Sends(o, ParamRequest(i, place, given)), SameBut(given, ValidRequest(i)[place], name),
         Faults(ValidRequest(i)) = {},
         name \in DOMAIN given => given[name] # Bogus,
         NEW f \in Faults(o)
  PROVE  f[1] = place /\ f[2] = name
<1> DEFINE r == ValidRequest(i)
           op == spec.ops[i]
           q == [r EXCEPT ![place] = given]
<1>1. /\ DOMAIN r = RequestFields /\ r.op = i /\ r.auth = "none"
  BY ValidFields
<1>2. /\ q.op = i /\ q.auth = "none" /\ q.body = r.body /\ q.content = r.content
      /\ q[place] = given /\ \A x \in Places : x # place => q[x] = r[x]
  BY <1>1 DEF Places, RequestFields
<1>3. f \in Faults(q)
  BY FaultsOfRequest DEF ParamRequest
<1>4. \A g : g \notin Faults(r)
  OBVIOUS
<1> HIDE DEF q, r
<1>5. CASE \E x \in Places : f \in ParamFaults(op, q, x)
  <2>1. PICK x \in Places : f \in ParamFaults(op, q, x)
    BY <1>5
  <2>2. PICK p \in Params(op, x) :
             \/ /\ p.name \in DOMAIN q[x]
                /\ \E rule \in Breaks(q[x][p.name], p.schema) : f = <<x, p.name, rule>>
             \/ p.name \notin DOMAIN q[x] /\ p.required /\ f = <<x, p.name, "required">>
    BY <2>1, ParamFault
  <2>3. ASSUME x # place \/ p.name # name PROVE FALSE
    <3>1. /\ p.name \in DOMAIN q[x] <=> p.name \in DOMAIN r[x]
          /\ p.name \in DOMAIN q[x] => q[x][p.name] = r[x][p.name]
      BY <1>2, <2>3 DEF SameBut, r
    <3>2. f \in Faults(r)
      BY <1>1, <2>2, <3>1, ParamMissing, ParamBroken
    <3> QED  BY <1>4, <3>2
  <2> QED  BY <2>2, <2>3
<1>6. CASE HasBody(op) /\ f \in BodyFaults(op, q)
  <2>1. q.body = r.body /\ q.content = r.content
    BY <1>2
  <2>2. BodyFaults(op, q) = BodyFaults(op, r)
    BY <2>1 DEF BodyFaults
  <2> QED  BY <1>1, <1>4, <1>6, <2>2, Fault
<1>7. CASE f = <<"resource", "", "exists">> /\ \E m \in DOMAIN q.path : q.path[m] = Bogus
  <2>1. PICK m \in DOMAIN q.path : q.path[m] = Bogus
    BY <1>7
  <2>2. m \in DOMAIN r.path /\ r.path[m] = Bogus
    <3>1. CASE place = "path"
      BY <1>2, <2>1, <3>1 DEF SameBut, r
    <3>2. CASE place # "path"
      BY <1>2, <2>1, <3>2 DEF Places
    <3> QED  BY <3>1, <3>2
  <2> QED  BY <1>4, <1>7, <2>2, Fault
<1> QED
  BY <1>2, <1>3, <1>5, <1>6, <1>7, Fault

\* The required headers that a case about a body is sent without.
HeadersMissing(op) ==
  {<<"header", n, "required">> : n \in Names(Required(Params(op, "header")))}

\* A fault of a request that is another but for its body, and perhaps its
\* headers, is a fault of that body or a required header.
LEMMA BodyLocal ==
  ASSUME NEW i, NEW o,
         LET r == ValidRequest(i)
         IN  /\ o.op = i /\ o.path = r.path /\ o.query = r.query /\ o.header \in {r.header, Empty}
             /\ o.auth = "none" /\ Faults(r) = {},
         NEW f \in Faults(o)
  PROVE  \/ o.header = Empty /\ f \in HeadersMissing(spec.ops[i])
         \/ HasBody(spec.ops[i]) /\ f \in BodyFaults(spec.ops[i], o)
<1> DEFINE r == ValidRequest(i)
           op == spec.ops[i]
<1>1. r.op = i /\ \A g : g \notin Faults(r)
  BY ValidFields
<1>2. /\ o.op = i /\ o.path = r.path /\ o.query = r.query /\ o.header \in {r.header, Empty}
      /\ o.auth = "none"
  OBVIOUS
<1> HIDE DEF r
<1>3. CASE \E x \in Places : f \in ParamFaults(op, o, x)
  <2>1. PICK x \in Places : f \in ParamFaults(op, o, x)
    BY <1>3
  <2>2. PICK p \in Params(op, x) :
             \/ /\ p.name \in DOMAIN o[x]
                /\ \E rule \in Breaks(o[x][p.name], p.schema) : f = <<x, p.name, rule>>
             \/ p.name \notin DOMAIN o[x] /\ p.required /\ f = <<x, p.name, "required">>
    BY <2>1, ParamFault
  <2>3. CASE o[x] = r[x]
    BY <1>1, <2>2, <2>3, ParamMissing, ParamBroken
  <2>4. CASE x = "header" /\ o.header = Empty
    <3>1. p.name \notin DOMAIN o[x]
      BY <2>4 DEF Empty
    <3>2. p \in Required(Params(op, "header")) /\ f = <<"header", p.name, "required">>
      BY <2>2, <2>4, <3>1 DEF Required
    <3>3. f \in HeadersMissing(op)
      BY <3>2 DEF HeadersMissing, Names
    <3> QED  BY <2>4, <3>3
  <2> QED  BY <1>2, <2>3, <2>4 DEF Places
<1>4. ASSUME f = <<"resource", "", "exists">>, \E m \in DOMAIN o.path : o.path[m] = Bogus
      PROVE  FALSE
  BY <1>1, <1>2, <1>4, Fault
<1> QED
  BY <1>2, <1>3, <1>4, Fault

\* The body of a request is another's, which has no fault, but for a field.
FineBut(op, c, d, name) ==
  /\ c.content # "text" /\ "raw" \notin DOMAIN c.body
  /\ d.content # "text" /\ "raw" \notin DOMAIN d.body
  /\ SameBut(c.body.json, d.body.json, name) /\ BodyFaults(op, d) = {}

\* A fault of such a body is that field's.
LEMMA FieldLocal ==
  ASSUME NEW op, NEW c, NEW d, NEW name, FineBut(op, c, d, name), NEW f \in BodyFaults(op, c)
  PROVE  f[1] = "body" /\ f[2] = name
<1>0. /\ c.content # "text" /\ "raw" \notin DOMAIN c.body
      /\ d.content # "text" /\ "raw" \notin DOMAIN d.body
      /\ SameBut(c.body.json, d.body.json, name) /\ BodyFaults(op, d) = {}
  BY DEF FineBut
<1> DEFINE b == c.body.json
           a == d.body.json
<1>1. \A g : g \notin BodyFaults(op, d)
  BY <1>0
<1>2. CASE \E n \in op.body.required \ DOMAIN b : f = <<"body", n, "required">>
  <2>1. PICK n \in op.body.required \ DOMAIN b : f = <<"body", n, "required">>
    BY <1>2
  <2>2. ASSUME n # name PROVE f \in BodyFaults(op, d)
    <3>1. n \in op.body.required \ DOMAIN a
      BY <1>0, <2>1, <2>2 DEF SameBut
    <3> QED  BY <1>0, <2>1, <3>1, BodyFault
  <2>3. n = name
    BY <1>1, <2>2
  <2> QED  BY <2>1, <2>3
<1>3. CASE \E n \in DOMAIN b \cap DOMAIN op.body.fields :
             \E rule \in Breaks(b[n], op.body.fields[n]) : f = <<"body", n, rule>>
  <2>1. PICK n \in DOMAIN b \cap DOMAIN op.body.fields :
               \E rule \in Breaks(b[n], op.body.fields[n]) : f = <<"body", n, rule>>
    BY <1>3
  <2>2. ASSUME n # name PROVE f \in BodyFaults(op, d)
    <3>1. n \in DOMAIN a \cap DOMAIN op.body.fields /\ a[n] = b[n]
      BY <1>0, <2>1, <2>2 DEF SameBut
    <3> QED  BY <1>0, <2>1, <3>1, BodyFault
  <2>3. n = name
    BY <1>1, <2>2
  <2> QED  BY <2>1, <2>3
<1>4. CASE op.body.closed /\ \E n \in DOMAIN b \ DOMAIN op.body.fields : f = <<"body", n, "closed">>
  <2>1. PICK n \in DOMAIN b \ DOMAIN op.body.fields : f = <<"body", n, "closed">>
    BY <1>4
  <2>2. ASSUME n # name PROVE f \in BodyFaults(op, d)
    <3>1. n \in DOMAIN a \ DOMAIN op.body.fields
      BY <1>0, <2>1, <2>2 DEF SameBut
    <3> QED  BY <1>0, <1>4, <2>1, <3>1, BodyFault
  <2>3. n = name
    BY <1>1, <2>2
  <2> QED  BY <2>1, <2>3
<1> QED
  BY <1>0, <1>2, <1>3, <1>4, BodyFault

\* If the field is declared and breaks no rule, there is none at all.
LEMMA FieldFine ==
  ASSUME NEW op, NEW c, NEW d, NEW name,
         c.content # "text", "raw" \notin DOMAIN c.body,
         d.content # "text", "raw" \notin DOMAIN d.body,
         SameBut(c.body.json, d.body.json, name), BodyFaults(op, d) = {},
         name \in DOMAIN c.body.json, name \in DOMAIN op.body.fields,
         Breaks(c.body.json[name], op.body.fields[name]) = {}
  PROVE  BodyFaults(op, c) = {}
<1> DEFINE b == c.body.json
<1>1. ASSUME NEW f \in BodyFaults(op, c) PROVE FALSE
  <2>0. FineBut(op, c, d, name)
    BY DEF FineBut
  <2>1. f[1] = "body" /\ f[2] = name
    BY <1>1, <2>0, FieldLocal
  <2>2. \/ \E n \in op.body.required \ DOMAIN b : f = <<"body", n, "required">>
        \/ \E n \in DOMAIN b \cap DOMAIN op.body.fields :
             \E rule \in Breaks(b[n], op.body.fields[n]) : f = <<"body", n, rule>>
        \/ /\ op.body.closed
           /\ \E n \in DOMAIN b \ DOMAIN op.body.fields : f = <<"body", n, "closed">>
    BY <1>1, BodyFault, SMTT(20)
  <2> QED  BY <2>1, <2>2
<1> QED  BY <1>1

\* A field that is missing, breaks a rule or is not declared is a fault of the
\* request.
LEMMA FieldMissing ==
  ASSUME NEW o, NEW b, HasBody(spec.ops[o.op]), o.content = "json", o.body = [json |-> b],
         NEW n \in spec.ops[o.op].body.required \ DOMAIN b
  PROVE  <<"body", n, "required">> \in Faults(o)
<1>1. <<"body", n, "required">> \in BodyFaults(spec.ops[o.op], o)
  BY BodyFault
<1> QED  BY <1>1, Fault

LEMMA FieldBroken ==
  ASSUME NEW o, NEW b, HasBody(spec.ops[o.op]), o.content = "json", o.body = [json |-> b],
         NEW n \in DOMAIN b \cap DOMAIN spec.ops[o.op].body.fields,
         NEW k \in Breaks(b[n], spec.ops[o.op].body.fields[n])
  PROVE  <<"body", n, k>> \in Faults(o)
<1>1. <<"body", n, k>> \in BodyFaults(spec.ops[o.op], o)
  BY BodyFault
<1> QED  BY <1>1, Fault

LEMMA FieldExtra ==
  ASSUME NEW o, NEW b, HasBody(spec.ops[o.op]), o.content = "json", o.body = [json |-> b],
         spec.ops[o.op].body.closed, NEW n \in DOMAIN b \ DOMAIN spec.ops[o.op].body.fields
  PROVE  <<"body", n, "closed">> \in Faults(o)
<1>1. <<"body", n, "closed">> \in BodyFaults(spec.ops[o.op], o)
  BY BodyFault
<1> QED  BY <1>1, Fault

-----------------------------------------------------------------------------
(* The cases of an operation *)

\* A negative sends the request it is made from.
LEMMA NegativeSends ==
  ASSUME NEW r, DOMAIN r = RequestFields, NEW category, NEW status
  PROVE  LET o == Negative(r, category, status)
         IN  Sends(o, r) /\ o.category = category /\ o.status = status
BY Added DEF Negative

\* A negative about a parameter, and one about the body.
ParamCase(i, place, given) == Negative(ParamRequest(i, place, given), Validation[place], 400)

BodyRequest(i, body) == [[ValidRequest(i) EXCEPT !.header = Empty] EXCEPT !.body = body]

BodyCase(i, b) == Negative(BodyRequest(i, [json |-> b]), "body_validation", 400)

TextCase(i) ==
  Negative([[ValidRequest(i) EXCEPT !.header = Empty] EXCEPT !.content = "text"],
           "media_type", 415)

BaseBody(i) == ValidRequest(i).body.json

\* The cases of an operation are made of these.
LEMMA ParamNegativesAre ==
  ASSUME NEW i, NEW place, NEW o
  PROVE  o \in ParamNegatives(i, place) <=>
           \/ \E p \in Required(Params(spec.ops[i], place)) :
                place # "path" /\ o = ParamCase(i, place, Drop(ValidRequest(i)[place], p.name))
           \/ \E p \in Params(spec.ops[i], place) : \E k \in ScalarNegatives(p.schema) :
                o = ParamCase(i, place, Put(ValidRequest(i)[place], p.name, Violation(p.schema, k)))
<1> DEFINE r == ValidRequest(i)
           Dropped == {ParamCase(i, place, Drop(r[place], p.name)) :
                         p \in IF place = "path" THEN {} ELSE Required(Params(spec.ops[i], place))}
           Of(p) == {ParamCase(i, place, Put(r[place], p.name, Violation(p.schema, k))) :
                       k \in ScalarNegatives(p.schema)}
<1>1. ParamNegatives(i, place) = Dropped \cup UNION {Of(p) : p \in Params(spec.ops[i], place)}
  BY DEF ParamNegatives, ParamCase, ParamRequest
<1>2. o \in Dropped <=> \E p \in Required(Params(spec.ops[i], place)) :
                          place # "path" /\ o = ParamCase(i, place, Drop(r[place], p.name))
  BY DEF Dropped
<1>3. \A p : o \in Of(p) <=> \E k \in ScalarNegatives(p.schema) :
                o = ParamCase(i, place, Put(r[place], p.name, Violation(p.schema, k)))
  BY DEF Of
<1> HIDE DEF Dropped, Of
<1> QED  BY <1>1, <1>2, <1>3

LEMMA BodyNegativesAre ==
  ASSUME NEW i, NEW o
  PROVE  LET body == spec.ops[i].body
         IN  o \in BodyNegatives(i) <=>
               /\ HasBody(spec.ops[i])
               /\ \/ \E f \in body.required : o = BodyCase(i, Drop(BaseBody(i), f))
                  \/ \E f \in DOMAIN body.fields : \E k \in FieldNegatives(body.fields[f]) :
                       o = BodyCase(i, Put(BaseBody(i), f, Violation(body.fields[f], k)))
                  \/ body.closed /\ o = BodyCase(i, Put(BaseBody(i), "unexpectedField", Xs(1)))
                  \/ o = Negative(BodyRequest(i, [raw |-> "malformed"]), "bad_request", 400)
                  \/ o = TextCase(i)
<1> DEFINE op == spec.ops[i]
           base == [ValidRequest(i) EXCEPT !.header = Empty].body.json
           Dropped == {BodyCase(i, Drop(base, f)) : f \in op.body.required}
           Of(f) == {BodyCase(i, Put(base, f, Violation(op.body.fields[f], k))) :
                       k \in FieldNegatives(op.body.fields[f])}
           Surplus == IF op.body.closed THEN {BodyCase(i, Put(base, "unexpectedField", Xs(1)))} ELSE {}
           Others == {Negative(BodyRequest(i, [raw |-> "malformed"]), "bad_request", 400),
                      TextCase(i)}
<1>0. base = BaseBody(i)
  BY ValidFields DEF BaseBody, RequestFields
<1>1. BodyNegatives(i) = IF ~HasBody(op) THEN {}
        ELSE Dropped \cup (UNION {Of(f) : f \in DOMAIN op.body.fields}) \cup Surplus \cup Others
  BY Zenon DEF BodyNegatives, BodyCase, BodyRequest, TextCase
<1>2. o \in Dropped <=> \E f \in op.body.required : o = BodyCase(i, Drop(base, f))
  BY DEF Dropped
<1>3. \A f : o \in Of(f) <=> \E k \in FieldNegatives(op.body.fields[f]) :
                o = BodyCase(i, Put(base, f, Violation(op.body.fields[f], k)))
  BY DEF Of
<1>4. o \in Surplus <=>
        op.body.closed /\ o = BodyCase(i, Put(base, "unexpectedField", Xs(1)))
  BY DEF Surplus
<1>5. o \in Others <=>
        \/ o = Negative(BodyRequest(i, [raw |-> "malformed"]), "bad_request", 400)
        \/ o = TextCase(i)
  BY DEF Others
<1> HIDE DEF base, Dropped, Of, Surplus, Others
<1> QED  BY <1>0, <1>1, <1>2, <1>3, <1>4, <1>5

\* What a negative about a parameter sends.
LEMMA ParamSends ==
  ASSUME NEW i, NEW place \in Places, NEW given
  PROVE  LET o == ParamCase(i, place, given)
         IN  /\ Sends(o, ParamRequest(i, place, given))
             /\ o.op = i /\ o[place] = given /\ o.category = Validation[place] /\ o.status = 400
<1> DEFINE r == ValidRequest(i)
           q == [r EXCEPT ![place] = given]
<1>1. DOMAIN r = RequestFields /\ r.op = i
  BY ValidFields
<1> HIDE DEF r
<1>2. DOMAIN q = RequestFields /\ q.op = i /\ q[place] = given
  BY <1>1 DEF RequestFields, Places
<1> HIDE DEF q
<1>3. LET o == Negative(q, Validation[place], 400)
      IN  Sends(o, q) /\ o.category = Validation[place] /\ o.status = 400
  BY <1>2, NegativeSends
<1> QED  BY <1>2, <1>3 DEF Sends, RequestFields, Places, q, r, ParamRequest, ParamCase

\* What a negative about the body sends.
LEMMA BodySends ==
  ASSUME NEW i, HasBody(spec.ops[i]), NEW body, NEW category, NEW status
  PROVE  LET r == ValidRequest(i)
             o == Negative(BodyRequest(i, body), category, status)
         IN  /\ o.op = i /\ o.path = r.path /\ o.query = r.query /\ o.header = Empty
             /\ o.content = "json" /\ o.body = body /\ o.auth = "none"
             /\ o.category = category /\ o.status = status
<1> DEFINE r == ValidRequest(i)
           s == BodyRequest(i, body)
<1>1. /\ DOMAIN r = RequestFields /\ r.op = i /\ r.auth = "none" /\ r.content = "json"
  BY ValidFields
<1> HIDE DEF r
<1>2. /\ DOMAIN s = RequestFields /\ s.op = i /\ s.path = r.path /\ s.query = r.query
      /\ s.header = Empty /\ s.content = "json" /\ s.body = body /\ s.auth = "none"
  BY <1>1 DEF RequestFields, BodyRequest, r
<1> HIDE DEF s
<1>3. LET o == Negative(s, category, status)
      IN  Sends(o, s) /\ o.category = category /\ o.status = status
  BY <1>2, NegativeSends
<1> QED  BY <1>2, <1>3 DEF Sends, RequestFields, s, r

\* The case of the media type sends text.
LEMMA TextSends ==
  ASSUME NEW i
  PROVE  LET r == ValidRequest(i)
             o == TextCase(i)
         IN  /\ o.op = i /\ o.path = r.path /\ o.query = r.query /\ o.header = Empty
             /\ o.content = "text" /\ o.auth = "none"
             /\ o.category = "media_type" /\ o.status = 415
<1> DEFINE r == ValidRequest(i)
           s == [[r EXCEPT !.header = Empty] EXCEPT !.content = "text"]
<1>1. /\ DOMAIN r = RequestFields /\ r.op = i /\ r.auth = "none"
  BY ValidFields
<1> HIDE DEF r
<1>2. /\ DOMAIN s = RequestFields /\ s.op = i /\ s.path = r.path /\ s.query = r.query
      /\ s.header = Empty /\ s.content = "text" /\ s.auth = "none"
  BY <1>1 DEF RequestFields
<1> HIDE DEF s
<1>3. LET o == Negative(s, "media_type", 415)
      IN  Sends(o, s) /\ o.category = "media_type" /\ o.status = 415
  BY <1>2, NegativeSends
<1> QED  BY <1>2, <1>3 DEF Sends, RequestFields, s, r, TextCase

\* The fields of it that the rules are about.
LEMMA ParamSendsGiven ==
  ASSUME NEW i, NEW place \in Places, NEW given
  PROVE  LET o == ParamCase(i, place, given)
         IN  o.op = i /\ o.status = 400 /\ o[place] = given /\ o.category = Validation[place]
<1> DEFINE o == ParamCase(i, place, given)
<1>1. /\ Sends(o, ParamRequest(i, place, given))
      /\ o.op = i /\ o[place] = given /\ o.category = Validation[place] /\ o.status = 400
  BY ParamSends
<1> HIDE DEF o
<1> QED  BY <1>1 DEF o

\* A rule is about a parameter, a body or its media type.
LEMMA RulePlace ==
  ASSUME NEW op, KnownOperation(op), NEW rule \in Rules(op)
  PROVE  rule[1] \in Places \cup {"body", "content"}
<1>1. \A p \in op.params : p.in \in Places
  BY DEF KnownOperation, Places
<1>2. \/ \E p \in op.params : \E k : rule = <<p.in, p.name, k>>
      \/ \E f, k : rule = <<"body", f, k>>
      \/ rule = <<"content", "", "type">>
  BY DEF Rules, Required
<1>3. CASE \E p \in op.params : \E k : rule = <<p.in, p.name, k>>
  <2>1. PICK p \in op.params : \E k : rule = <<p.in, p.name, k>>
    BY <1>3
  <2>2. rule[1] = p.in
    BY <2>1
  <2> QED  BY <1>1, <2>2
<1>4. CASE \E f, k : rule = <<"body", f, k>>
  <2>1. rule[1] = "body"
    BY <1>4
  <2> QED  BY <2>1
<1>5. CASE rule = <<"content", "", "type">>
  <2>1. rule[1] = "content"
    BY <1>5
  <2> QED  BY <2>1
<1> QED  BY <1>2, <1>3, <1>4, <1>5

\* A case that is made for a rule is one about parameters or about the body.
MadeFor(o, rule) ==
  o.category \in IF rule[1] \in Places
                 THEN {"query_validation", "header_validation", "path_validation"}
                 ELSE {"body_validation", "bad_request", "media_type"}

\* A case of an operation that breaks a rule, and the status it expects.
Breaking(o, i, status, rule) ==
  o.op = i /\ o.status = status /\ MadeFor(o, rule) /\ rule \in Faults(o)

\* Rules have cases that break them: a parameter that is required,
LEMMA ParamRequired ==
  ASSUME NEW i, NEW place \in Places \ {"path"}, NEW p \in Params(spec.ops[i], place), p.required
  PROVE  \E o \in ParamNegatives(i, place) : Breaking(o, i, 400, <<place, p.name, "required">>)
<1> DEFINE given == Drop(ValidRequest(i)[place], p.name)
           o == ParamCase(i, place, given)
<1>1. p \in Required(Params(spec.ops[i], place))
  BY DEF Required
<1>2. o \in ParamNegatives(i, place)
  BY <1>1, ParamNegativesAre
<1>3. o.op = i /\ o.status = 400 /\ o[place] = given /\ o.category = Validation[place]
  BY ParamSendsGiven
<1>4. p.name \notin DOMAIN given
  BY DropOne
<1> HIDE DEF o, given
<1>5. <<place, p.name, "required">> \in Faults(o)
  BY <1>3, <1>4, ParamMissing, ParamBroken
<1>6. MadeFor(o, <<place, p.name, "required">>)
  BY <1>3 DEF MadeFor, Validation, Places
<1> QED  BY <1>2, <1>3, <1>5, <1>6 DEF Breaking

\* a keyword of a parameter,
LEMMA ParamKeyword ==
  ASSUME NEW i, NEW place \in Places, NEW p \in Params(spec.ops[i], place), KnownSchema(p.schema),
         p.schema.type # "array", NEW k \in Keywords(p.schema)
  PROVE  \E o \in ParamNegatives(i, place) : Breaking(o, i, 400, <<place, p.name, k>>)
<1> DEFINE v == Violation(p.schema, k)
           given == Put(ValidRequest(i)[place], p.name, v)
           o == ParamCase(i, place, given)
<1>1. k \in ScalarNegatives(p.schema) /\ k \in Breaks(v, p.schema)
  BY KeywordsKnown, ViolationBreaks DEF Negatives
<1>2. o \in ParamNegatives(i, place)
  BY <1>1, ParamNegativesAre
<1>3. o.op = i /\ o.status = 400 /\ o[place] = given /\ o.category = Validation[place]
  BY ParamSendsGiven
<1> HIDE DEF v
<1>4. p.name \in DOMAIN given /\ given[p.name] = v
  BY PutOne
<1> HIDE DEF o, given
<1>5. <<place, p.name, k>> \in Faults(o)
  BY <1>1, <1>3, <1>4, ParamMissing, ParamBroken
<1>6. MadeFor(o, <<place, p.name, k>>)
  BY <1>3 DEF MadeFor, Validation, Places
<1> QED  BY <1>2, <1>3, <1>5, <1>6 DEF Breaking

\* a field that is required,
LEMMA FieldRequired ==
  ASSUME NEW i, HasBody(spec.ops[i]), NEW f \in spec.ops[i].body.required
  PROVE  \E o \in BodyNegatives(i) : Breaking(o, i, 400, <<"body", f, "required">>)
<1> DEFINE b == Drop(BaseBody(i), f)
           o == BodyCase(i, b)
<1>1. o \in BodyNegatives(i)
  BY BodyNegativesAre
<1>2. o.op = i /\ o.status = 400 /\ o.category = "body_validation"
       /\ o.content = "json" /\ o.body = [json |-> b]
  BY BodySends DEF BodyCase
<1>3. f \notin DOMAIN b
  BY DropOne
<1> HIDE DEF o, b
<1>4. <<"body", f, "required">> \in Faults(o)
  BY <1>2, <1>3, FieldMissing
<1>5. MadeFor(o, <<"body", f, "required">>)
  BY <1>2 DEF MadeFor, Places
<1> QED  BY <1>1, <1>2, <1>4, <1>5 DEF Breaking

\* a keyword of a field,
LEMMA FieldKeyword ==
  ASSUME NEW i, HasBody(spec.ops[i]), NEW f \in DOMAIN spec.ops[i].body.fields,
         KnownSchema(spec.ops[i].body.fields[f]), NEW k \in Keywords(spec.ops[i].body.fields[f])
  PROVE  \E o \in BodyNegatives(i) : Breaking(o, i, 400, <<"body", f, k>>)
<1> DEFINE s == spec.ops[i].body.fields[f]
           v == Violation(s, k)
           b == Put(BaseBody(i), f, v)
           o == BodyCase(i, b)
<1>1. k \in FieldNegatives(s) /\ k \in Breaks(v, s)
  BY KeywordsKnown, FieldNegative, ViolationBreaks
<1>2. o \in BodyNegatives(i)
  BY <1>1, BodyNegativesAre
<1>3. o.op = i /\ o.status = 400 /\ o.category = "body_validation"
       /\ o.content = "json" /\ o.body = [json |-> b]
  BY BodySends DEF BodyCase
<1> HIDE DEF v
<1>4. f \in DOMAIN b /\ b[f] = v
  BY PutOne
<1> HIDE DEF o, b
<1>5. <<"body", f, k>> \in Faults(o)
  <2>1. spec.ops[o.op] = spec.ops[i]
    BY <1>3
  <2>2. f \in DOMAIN b \cap DOMAIN spec.ops[i].body.fields
    BY <1>4
  <2>3. k \in Breaks(b[f], spec.ops[i].body.fields[f])
    BY <1>1, <1>4
  <2> QED  BY <1>3, <2>1, <2>2, <2>3, FieldBroken
<1>6. MadeFor(o, <<"body", f, k>>)
  BY <1>3 DEF MadeFor, Places
<1> QED  BY <1>2, <1>3, <1>5, <1>6 DEF Breaking

\* a body that is closed,
LEMMA BodyClosed ==
  ASSUME NEW i, HasBody(spec.ops[i]), spec.ops[i].body.closed,
         "unexpectedField" \notin DOMAIN spec.ops[i].body.fields
  PROVE  \E o \in BodyNegatives(i) : Breaking(o, i, 400, <<"body", "unexpectedField", "closed">>)
<1> DEFINE b == Put(BaseBody(i), "unexpectedField", Xs(1))
           o == BodyCase(i, b)
<1>1. o \in BodyNegatives(i)
  BY BodyNegativesAre
<1>2. o.op = i /\ o.status = 400 /\ o.category = "body_validation"
       /\ o.content = "json" /\ o.body = [json |-> b]
  BY BodySends DEF BodyCase
<1>3. "unexpectedField" \in DOMAIN b
  BY PutOne
<1> HIDE DEF o, b
<1>4. <<"body", "unexpectedField", "closed">> \in Faults(o)
  BY <1>2, <1>3, FieldExtra
<1>5. MadeFor(o, <<"body", "unexpectedField", "closed">>)
  BY <1>2 DEF MadeFor, Places
<1> QED  BY <1>1, <1>2, <1>4, <1>5 DEF Breaking

\* that a body is JSON,
LEMMA BodyIsJson ==
  ASSUME NEW i, HasBody(spec.ops[i])
  PROVE  \E o \in BodyNegatives(i) : Breaking(o, i, 400, <<"body", "", "syntax">>)
<1> DEFINE o == Negative(BodyRequest(i, [raw |-> "malformed"]), "bad_request", 400)
<1>1. o \in BodyNegatives(i)
  BY BodyNegativesAre
<1>2. o.op = i /\ o.status = 400 /\ o.category = "bad_request"
       /\ o.content = "json" /\ o.body = [raw |-> "malformed"]
  BY BodySends
<1> HIDE DEF o
<1>3. <<"body", "", "syntax">> \in BodyFaults(spec.ops[i], o)
  BY <1>2 DEF BodyFaults
<1>4. <<"body", "", "syntax">> \in Faults(o)
  BY <1>2, <1>3, Fault
<1>5. MadeFor(o, <<"body", "", "syntax">>)
  BY <1>2 DEF MadeFor, Places
<1> QED  BY <1>1, <1>2, <1>4, <1>5 DEF Breaking

\* and that it says so.
LEMMA BodySaysJson ==
  ASSUME NEW i, HasBody(spec.ops[i])
  PROVE  \E o \in BodyNegatives(i) : Breaking(o, i, 415, <<"content", "", "type">>)
<1> DEFINE o == TextCase(i)
<1>1. o \in BodyNegatives(i)
  BY BodyNegativesAre
<1>2. o.op = i /\ o.status = 415 /\ o.category = "media_type"
       /\ o.content = "text"
  BY TextSends
<1> HIDE DEF o
<1>3. <<"content", "", "type">> \in BodyFaults(spec.ops[i], o)
  BY <1>2 DEF BodyFaults
<1>4. <<"content", "", "type">> \in Faults(o)
  BY <1>2, <1>3, Fault
<1>5. MadeFor(o, <<"content", "", "type">>)
  BY <1>2 DEF MadeFor, Places
<1> QED  BY <1>1, <1>2, <1>4, <1>5 DEF Breaking

\* Every rule of an operation has a case that breaks it and expects the status
\* for it.
LEMMA RuleProbed ==
  ASSUME NEW i, KnownOperation(spec.ops[i]), NEW rule \in Rules(spec.ops[i])
  PROVE  \E o \in OperationCases(i) :
           Breaking(o, i, StatusFor(rule), rule)
<1> DEFINE op == spec.ops[i]
           Probed(n) == \E o \in OperationCases(i) : Breaking(o, i, n, rule)
<1>1. ASSUME NEW p \in op.params
      PROVE  p.in \in Places /\ KnownSchema(p.schema) /\ p \in Params(op, p.in)
  BY DEF KnownOperation, Places, Params
<1>2. \A place \in Places : \A o \in ParamNegatives(i, place) : o \in OperationCases(i)
  BY DEF OperationCases, Places
<1>3. \A o \in BodyNegatives(i) : o \in OperationCases(i)
  BY DEF OperationCases
<1>4. ASSUME NEW p \in Required(op.params), p.in # "path", rule = <<p.in, p.name, "required">>
      PROVE  Probed(400) /\ StatusFor(rule) = 400
  <2>1. p \in op.params /\ p.required
    BY DEF Required
  <2>2. p.in \in Places \ {"path"} /\ p \in Params(op, p.in)
    BY <1>1, <1>4, <2>1
  <2>3. Probed(400)
    BY <1>2, <1>4, <2>1, <2>2, ParamRequired
  <2>4. StatusFor(rule) = 400
    BY <1>4, <2>2 DEF StatusFor, Places
  <2> QED  BY <2>3, <2>4
<1>5. ASSUME NEW p \in op.params, p.schema.type # "array", NEW k \in Keywords(p.schema),
             rule = <<p.in, p.name, k>>
      PROVE  Probed(400) /\ StatusFor(rule) = 400
  <2>1. Probed(400)
    BY <1>1, <1>2, <1>5, ParamKeyword
  <2>2. StatusFor(rule) = 400
    BY <1>1, <1>5 DEF StatusFor, Places
  <2> QED  BY <2>1, <2>2
<1>6. ASSUME HasBody(op), NEW f \in op.body.required, rule = <<"body", f, "required">>
      PROVE  Probed(400) /\ StatusFor(rule) = 400
  <2>1. Probed(400)
    BY <1>3, <1>6, FieldRequired
  <2> QED  BY <1>6, <2>1 DEF StatusFor
<1>7. ASSUME HasBody(op), NEW f \in DOMAIN op.body.fields, NEW k \in Keywords(op.body.fields[f]),
             rule = <<"body", f, k>>
      PROVE  Probed(400) /\ StatusFor(rule) = 400
  <2>1. KnownSchema(op.body.fields[f])
    BY <1>7 DEF KnownOperation
  <2>2. Probed(400)
    BY <1>3, <1>7, <2>1, FieldKeyword
  <2> QED  BY <1>7, <2>2 DEF StatusFor
<1>8. ASSUME HasBody(op), op.body.closed, rule = <<"body", "unexpectedField", "closed">>
      PROVE  Probed(400) /\ StatusFor(rule) = 400
  <2>1. "unexpectedField" \notin DOMAIN op.body.fields
    BY <1>8 DEF KnownOperation
  <2>2. Probed(400)
    BY <1>3, <1>8, <2>1, BodyClosed
  <2> QED  BY <1>8, <2>2 DEF StatusFor
<1>9. ASSUME HasBody(op), rule = <<"body", "", "syntax">>
      PROVE  Probed(400) /\ StatusFor(rule) = 400
  <2>1. Probed(400)
    BY <1>3, <1>9, BodyIsJson
  <2> QED  BY <1>9, <2>1 DEF StatusFor
<1>10. ASSUME HasBody(op), rule = <<"content", "", "type">>
       PROVE  Probed(415) /\ StatusFor(rule) = 415
  <2>1. Probed(415)
    BY <1>3, <1>10, BodySaysJson
  <2> QED  BY <1>10, <2>1 DEF StatusFor
<1> HIDE DEF Probed
<1>11. \/ \E p \in Required(op.params) : p.in # "path" /\ rule = <<p.in, p.name, "required">>
       \/ \E p \in op.params : p.schema.type # "array" /\ \E k \in Keywords(p.schema) :
            rule = <<p.in, p.name, k>>
       \/ /\ HasBody(op)
          /\ \/ \E f \in op.body.required : rule = <<"body", f, "required">>
             \/ \E f \in DOMAIN op.body.fields :
                  \E k \in Keywords(op.body.fields[f]) : rule = <<"body", f, k>>
             \/ op.body.closed /\ rule = <<"body", "unexpectedField", "closed">>
             \/ rule = <<"body", "", "syntax">>
             \/ rule = <<"content", "", "type">>
  BY DEF Rules
<1>12. Probed(StatusFor(rule))
  BY <1>4, <1>5, <1>6, <1>7, <1>8, <1>9, <1>10, <1>11
<1> QED  BY <1>12 DEF Probed

-----------------------------------------------------------------------------
(* One fault per case *)

\* A negative has faults in one place, for which its status is, a positive none.
OneFault(o) ==
  IF o.status < 400 THEN Faults(o) = {}
  ELSE /\ \E place, name : Faults(o) # {} /\ \A f \in Faults(o) : f[1] = place /\ f[2] = name
       /\ \A f \in Faults(o) : StatusFor(f) = o.status

\* The status of a fault is that of its place.
LEMMA StatusOf ==
  ASSUME NEW f
  PROVE  /\ f[1] \in Places \cup {"body"} => StatusFor(f) = 400
         /\ f[1] = "content" => StatusFor(f) = 415
         /\ f[1] = "resource" => StatusFor(f) = 404
         /\ f[1] = "auth" => StatusFor(f) = 401
BY DEF StatusFor, Places

\* Counted, that is what the property says.
LEMMA Counted ==
  ASSUME NEW o, OneFault(o)
  PROVE  Cardinality({<<f[1], f[2]>> : f \in Faults(o)}) = IF o.status < 400 THEN 0 ELSE 1
<1> DEFINE S == {<<f[1], f[2]>> : f \in Faults(o)}
<1>1. CASE o.status < 400
  <2>1. S = {}  BY <1>1 DEF OneFault
  <2> QED  BY <1>1, <2>1, FS_EmptySet
<1>2. CASE ~(o.status < 400)
  <2>1. PICK place, name : Faults(o) # {} /\ \A f \in Faults(o) : f[1] = place /\ f[2] = name
    BY <1>2 DEF OneFault
  <2>2. S = {<<place, name>>}
    BY <2>1
  <2> QED  BY <1>2, <2>2, FS_Singleton
<1> QED  BY <1>1, <1>2

\* A negative about a parameter is wrong in that parameter.
LEMMA ParamOneFault ==
  ASSUME NEW i, KnownOperation(spec.ops[i]), ValidKnown(i), NEW place \in Places,
         NEW o \in ParamNegatives(i, place)
  PROVE  OneFault(o)
<1> DEFINE r == ValidRequest(i)
<1>1. Faults(r) = {}
  BY DEF ValidKnown
<1>2. ASSUME NEW p \in Params(spec.ops[i], place), NEW given, o = ParamCase(i, place, given),
             SameBut(given, r[place], p.name), p.name \in DOMAIN given => given[p.name] # Bogus,
             Faults(o) # {}
      PROVE  OneFault(o)
  <2>1. Sends(o, ParamRequest(i, place, given)) /\ o.category = Validation[place] /\ o.status = 400
    BY <1>2, ParamSends
  <2>3. ASSUME NEW f \in Faults(o) PROVE f[1] = place /\ f[2] = p.name
    <3>1. PICK name : name = p.name
      OBVIOUS
    <3>2. /\ Sends(o, ParamRequest(i, place, given)) /\ SameBut(given, ValidRequest(i)[place], name)
          /\ Faults(ValidRequest(i)) = {}
      BY <1>1, <1>2, <2>1, <3>1
    <3>3. name \in DOMAIN given => given[name] # Bogus
      BY <1>2, <3>1
    <3>4. f[1] = place /\ f[2] = name
      BY <2>3, <3>2, <3>3, ParamLocal
    <3> QED  BY <3>1, <3>4
  <2>4. \A f \in Faults(o) : StatusFor(f) = o.status
    BY <2>1, <2>3, StatusOf
  <2> QED  BY <1>2, <2>1, <2>3, <2>4 DEF OneFault
<1>3. ASSUME NEW p \in Required(Params(spec.ops[i], place)),
             o = ParamCase(i, place, Drop(r[place], p.name))
      PROVE  OneFault(o)
  <2> DEFINE given == Drop(r[place], p.name)
  <2>1. p \in Params(spec.ops[i], place) /\ p.required
    BY DEF Required
  <2>2. p.name \notin DOMAIN given /\ SameBut(given, r[place], p.name)
    BY DropOne
  <2> HIDE DEF given
  <2>3. o.op = i /\ o[place] = given
    BY <1>3, ParamSendsGiven DEF given
  <2>4. Faults(o) # {}
    BY <2>1, <2>2, <2>3, ParamMissing
  <2> QED  BY <1>2, <1>3, <2>1, <2>2, <2>4 DEF given
<1>4. ASSUME NEW p \in Params(spec.ops[i], place), NEW k \in ScalarNegatives(p.schema),
             o = ParamCase(i, place, Put(r[place], p.name, Violation(p.schema, k)))
      PROVE  OneFault(o)
  <2> DEFINE v == Violation(p.schema, k)
             given == Put(r[place], p.name, v)
  <2>1. KnownSchema(p.schema)
    BY DEF KnownOperation, Params
  <2>2. k \in Breaks(v, p.schema) /\ v # Bogus
    BY <2>1, ViolationBreaks, ViolationNotBogus DEF Negatives
  <2> HIDE DEF v
  <2>3. p.name \in DOMAIN given /\ given[p.name] = v /\ SameBut(given, r[place], p.name)
    BY PutOne
  <2> HIDE DEF given
  <2>4. o.op = i /\ o[place] = given
    BY <1>4, ParamSendsGiven DEF given, v
  <2>5. Faults(o) # {}
    BY <2>2, <2>3, <2>4, ParamBroken
  <2> QED  BY <1>2, <1>4, <2>2, <2>3, <2>5 DEF given, v
<1> QED  BY <1>3, <1>4, ParamNegativesAre

\* A negative with a single fault has one.
LEMMA SingleFault ==
  ASSUME NEW o, NEW f0 \in Faults(o), \A f \in Faults(o) : f = f0, o.status \in 400..599,
         StatusFor(f0) = o.status
  PROVE  OneFault(o)
<1>1. ~(o.status < 400)
  OBVIOUS
<1>2. PICK place, name : place = f0[1] /\ name = f0[2]
  OBVIOUS
<1>3. Faults(o) # {} /\ \A f \in Faults(o) : f[1] = place /\ f[2] = name
  BY <1>2
<1>4. \A f \in Faults(o) : StatusFor(f) = o.status
  OBVIOUS
<1> QED  BY <1>1, <1>3, <1>4 DEF OneFault

\* A negative about the body is wrong there, or in its media type, if there is
\* no header it is sent without.
LEMMA BodyOneFault ==
  ASSUME NEW i, KnownOperation(spec.ops[i]), ValidKnown(i), NEW o \in BodyNegatives(i),
         RequiredHeaders(spec.ops[i]) = {}
  PROVE  OneFault(o)
<1> DEFINE r == ValidRequest(i)
           op == spec.ops[i]
           base == BaseBody(i)
<1>1. Faults(r) = {} /\ HasBody(op)
  BY BodyNegativesAre DEF ValidKnown
<1>2. r.op = i /\ r.content = "json" /\ r.body = [json |-> base]
  <2>1. r.body = [json |-> Baseline(op)]
    BY <1>1, ValidFields
  <2>2. base = Baseline(op)
    BY <2>1 DEF BaseBody
  <2> QED  BY <1>1, <2>1, <2>2, ValidFields
<1>3. BodyFaults(op, r) = {}
  BY <1>1, <1>2, Fault
<1> HIDE DEF r, base
<1>4. ASSUME o.op = i, o.path = r.path, o.query = r.query, o.header = Empty, o.auth = "none"
      PROVE  \A f \in Faults(o) : f \in BodyFaults(op, o)
  <2>1. HeadersMissing(op) = {}
    BY DEF HeadersMissing, RequiredHeaders, Names
  <2>2. ASSUME NEW f \in Faults(o) PROVE f \in HeadersMissing(op) \/ f \in BodyFaults(op, o)
    BY <1>1, <1>4, BodyLocal DEF r
  <2> QED  BY <2>1, <2>2
<1>5. ASSUME NEW b, NEW name, o = BodyCase(i, b), SameBut(b, base, name),
             \E f \in Faults(o) : f[1] = "body"
      PROVE  OneFault(o)
  <2>1. /\ o.op = i /\ o.path = r.path /\ o.query = r.query /\ o.header = Empty
        /\ o.content = "json" /\ o.body = [json |-> b] /\ o.auth = "none"
        /\ o.category = "body_validation" /\ o.status = 400
    BY <1>1, <1>5, BodySends DEF BodyCase, r
  <2>2. ASSUME NEW f \in Faults(o) PROVE f[1] = "body" /\ f[2] = name
    <3>1. f \in BodyFaults(op, o)
      BY <1>4, <2>1, <2>2
    <3>2. /\ o.content # "text" /\ "raw" \notin DOMAIN o.body /\ o.body.json = b
          /\ r.content # "text" /\ "raw" \notin DOMAIN r.body /\ r.body.json = base
      BY <1>2, <2>1
    <3>3. FineBut(op, o, r, name)
      BY <1>3, <1>5, <3>2 DEF FineBut
    <3> QED  BY <3>1, <3>3, FieldLocal
  <2>3. Faults(o) # {}
    BY <1>5
  <2>4. \A f \in Faults(o) : StatusFor(f) = o.status
    BY <2>1, <2>2, StatusOf
  <2> QED  BY <2>1, <2>2, <2>3, <2>4 DEF OneFault
<1>6. ASSUME NEW f \in op.body.required, o = BodyCase(i, Drop(base, f))
      PROVE  OneFault(o)
  <2> DEFINE b == Drop(base, f)
  <2>1. f \notin DOMAIN b /\ SameBut(b, base, f)
    BY DropOne
  <2> HIDE DEF b
  <2>2. o.op = i /\ o.content = "json" /\ o.body = [json |-> b]
    BY <1>1, <1>6, BodySends DEF BodyCase, b
  <2>3. <<"body", f, "required">> \in Faults(o)
    BY <1>1, <2>1, <2>2, FieldMissing
  <2>4. \E x \in Faults(o) : x[1] = "body"
    BY <2>3
  <2> QED  BY <1>5, <1>6, <2>1, <2>4 DEF b
<1>7. ASSUME NEW f \in DOMAIN op.body.fields, NEW k \in FieldNegatives(op.body.fields[f]),
             o = BodyCase(i, Put(base, f, Violation(op.body.fields[f], k)))
      PROVE  OneFault(o)
  <2> DEFINE v == Violation(op.body.fields[f], k)
             b == Put(base, f, v)
  <2>1. KnownSchema(op.body.fields[f])
    BY <1>1 DEF KnownOperation
  <2>2. k \in Breaks(v, op.body.fields[f])
    BY <2>1, FieldNegative, ViolationBreaks
  <2> HIDE DEF v
  <2>3. f \in DOMAIN b /\ b[f] = v /\ SameBut(b, base, f)
    BY PutOne
  <2> HIDE DEF b
  <2>4. o.op = i /\ o.content = "json" /\ o.body = [json |-> b]
    BY <1>1, <1>7, BodySends DEF BodyCase, b, v
  <2>5. <<"body", f, k>> \in Faults(o)
    BY <1>1, <2>2, <2>3, <2>4, FieldBroken
  <2>6. \E x \in Faults(o) : x[1] = "body"
    BY <2>5
  <2> QED  BY <1>5, <1>7, <2>3, <2>6 DEF b, v
<1>8. ASSUME op.body.closed, o = BodyCase(i, Put(base, "unexpectedField", Xs(1)))
      PROVE  OneFault(o)
  <2> DEFINE b == Put(base, "unexpectedField", Xs(1))
  <2>1. "unexpectedField" \in DOMAIN b /\ SameBut(b, base, "unexpectedField")
    BY PutOne
  <2>2. "unexpectedField" \notin DOMAIN op.body.fields
    BY <1>1, <1>8 DEF KnownOperation
  <2> HIDE DEF b
  <2>3. o.op = i /\ o.content = "json" /\ o.body = [json |-> b]
    BY <1>1, <1>8, BodySends DEF BodyCase, b
  <2>4. <<"body", "unexpectedField", "closed">> \in Faults(o)
    BY <1>1, <1>8, <2>1, <2>2, <2>3, FieldExtra
  <2>5. \E x \in Faults(o) : x[1] = "body"
    BY <2>4
  <2> QED  BY <1>5, <1>8, <2>1, <2>5 DEF b
<1>9. ASSUME o = Negative(BodyRequest(i, [raw |-> "malformed"]), "bad_request", 400)
      PROVE  OneFault(o)
  <2>1. /\ o.op = i /\ o.path = r.path /\ o.query = r.query /\ o.header = Empty
        /\ o.content = "json" /\ o.body = [raw |-> "malformed"] /\ o.auth = "none"
        /\ o.category = "bad_request" /\ o.status = 400
    BY <1>1, <1>9, BodySends DEF r
  <2>2. BodyFaults(op, o) = {<<"body", "", "syntax">>}
    BY <2>1 DEF BodyFaults
  <2>3. <<"body", "", "syntax">> \in Faults(o)
    BY <1>1, <2>1, <2>2, Fault
  <2> DEFINE f0 == <<"body", "", "syntax">>
  <2>4. StatusFor(f0) = 400
    BY StatusOf
  <2>5. f0 \in Faults(o) /\ BodyFaults(op, o) = {f0}
    BY <2>2, <2>3
  <2> HIDE DEF f0
  <2>6. f0 \in Faults(o) /\ \A f \in Faults(o) : f = f0
    BY <1>4, <2>1, <2>5
  <2> QED  BY <2>1, <2>4, <2>6, SingleFault
<1>10. ASSUME o = TextCase(i)
       PROVE  OneFault(o)
  <2>1. /\ o.op = i /\ o.path = r.path /\ o.query = r.query /\ o.header = Empty
        /\ o.content = "text" /\ o.auth = "none"
        /\ o.category = "media_type" /\ o.status = 415
    BY <1>1, <1>10, TextSends DEF r
  <2>2. BodyFaults(op, o) = {<<"content", "", "type">>}
    BY <2>1 DEF BodyFaults
  <2>3. <<"content", "", "type">> \in Faults(o)
    BY <1>1, <2>1, <2>2, Fault
  <2> DEFINE f0 == <<"content", "", "type">>
  <2>4. StatusFor(f0) = 415
    BY DEF StatusFor
  <2>5. f0 \in Faults(o) /\ BodyFaults(op, o) = {f0}
    BY <2>2, <2>3
  <2> HIDE DEF f0
  <2>6. f0 \in Faults(o) /\ \A f \in Faults(o) : f = f0
    BY <1>4, <2>1, <2>5
  <2> QED  BY <2>1, <2>4, <2>6, SingleFault
<1> QED  BY <1>6, <1>7, <1>8, <1>9, <1>10, BodyNegativesAre DEF base

\* The resource that does not exist is the one of all ids, if they are allowed.
LEMMA NotFoundOneFault ==
  ASSUME NEW i, ValidKnown(i), NEW o \in NotFound(i), \A f \in Faults(o) : f[1] # "path"
  PROVE  OneFault(o)
<1> DEFINE r == ValidRequest(i)
           op == spec.ops[i]
           nowhere == [n \in DOMAIN r.path |-> Bogus]
           q == [r EXCEPT !.path = nowhere]
           f0 == <<"resource", "", "exists">>
<1>1. Faults(r) = {} /\ DOMAIN r = RequestFields /\ r.op = i /\ r.auth = "none"
  BY ValidFields DEF ValidKnown
<1>2. o = Negative(q, "not_found", 404) /\ r.path # Empty
  BY <1>1 DEF NotFound, RequestFields
<1>3. r.path = [n \in DOMAIN r.path |-> r.path[n]]
  BY DEF ValidRequest, ValidValues
<1>4. PICK m : m \in DOMAIN r.path
  <2>1. DOMAIN r.path = {} => r.path = Empty
    BY <1>3 DEF Empty
  <2> QED  BY <1>2, <2>1
<1> HIDE DEF r
<1>5. /\ DOMAIN q = RequestFields /\ q.op = i /\ q.path = nowhere /\ q.query = r.query
      /\ q.header = r.header /\ q.content = r.content /\ q.body = r.body /\ q.auth = "none"
  BY <1>1 DEF RequestFields
<1> HIDE DEF q
<1>6. Sends(o, q) /\ o.category = "not_found" /\ o.status = 404
  BY <1>2, <1>5, NegativeSends
<1>7. /\ o.op = i /\ o.path = nowhere /\ o.query = r.query /\ o.header = r.header
      /\ o.content = r.content /\ o.body = r.body /\ o.auth = "none"
  BY <1>5, <1>6 DEF Sends, RequestFields
<1>9. f0 \in Faults(o)
  <2>1. m \in DOMAIN o.path /\ o.path[m] = Bogus
    BY <1>4, <1>7
  <2> QED  BY <2>1, Fault
<1>10. ASSUME NEW f \in Faults(o) PROVE f = f0
  <2>1. CASE \E x \in Places : f \in ParamFaults(op, o, x)
    <3>1. PICK x \in Places : f \in ParamFaults(op, o, x)
      BY <2>1
    <3>2. f[1] = x
      BY <3>1, ParamFault
    <3>3. x # "path"
      BY <1>10, <3>2
    <3>4. o[x] = r[x]
      BY <1>7, <3>3 DEF Places
    <3>5. ParamFaults(op, o, x) = ParamFaults(op, r, x)
      BY <3>4 DEF ParamFaults
    <3>6. f \in Faults(r)
      BY <1>1, <3>1, <3>5, Fault
    <3> QED  BY <1>1, <3>6
  <2>2. CASE HasBody(op) /\ f \in BodyFaults(op, o)
    <3>1. BodyFaults(op, o) = BodyFaults(op, r)
      BY <1>7 DEF BodyFaults
    <3>2. f \in Faults(r)
      BY <1>1, <2>2, <3>1, Fault
    <3> QED  BY <1>1, <3>2
  <2> QED  BY <1>7, <2>1, <2>2, Fault
<1>11. StatusFor(f0) = 404
  BY DEF StatusFor
<1> HIDE DEF f0
<1>12. f0 \in Faults(o) /\ \A f \in Faults(o) : f = f0
  BY <1>9, <1>10
<1> QED  BY <1>6, <1>11, <1>12, SingleFault

\* The credentials are the only fault of the case that sends bad ones.
LEMMA AuthOneFault ==
  ASSUME NEW i, ValidKnown(i), NEW o \in Auth(i)
  PROVE  OneFault(o)
<1> DEFINE r == ValidRequest(i)
           q == [r EXCEPT !.auth = "invalid"]
           f0 == <<"auth", "", "credentials">>
<1>1. Faults(r) = {} /\ DOMAIN r = RequestFields /\ r.op = i /\ r.auth = "none"
  BY ValidFields DEF ValidKnown
<1>2. o = Negative(q, "auth", 401)
  BY DEF Auth
<1> HIDE DEF r
<1>3. /\ DOMAIN q = RequestFields /\ q.op = i /\ q.path = r.path /\ q.query = r.query
      /\ q.header = r.header /\ q.content = r.content /\ q.body = r.body /\ q.auth = "invalid"
  BY <1>1 DEF RequestFields
<1> HIDE DEF q
<1>4. Sends(o, q) /\ o.category = "auth" /\ o.status = 401
  BY <1>2, <1>3, NegativeSends
<1>5. /\ o.op = i /\ o.path = r.path /\ o.query = r.query /\ o.header = r.header
      /\ o.content = r.content /\ o.body = r.body /\ o.auth = "invalid"
  BY <1>3, <1>4 DEF Sends, RequestFields
<1>7. f0 \in Faults(o)
  BY <1>5, Fault
<1>8. ASSUME NEW f \in Faults(o) PROVE f = f0 \/ f \in Faults(r)
  <2>1. BodyFaults(spec.ops[i], o) = BodyFaults(spec.ops[i], r)
    BY <1>5 DEF BodyFaults
  <2>2. ASSUME NEW x \in Places
        PROVE  ParamFaults(spec.ops[i], o, x) = ParamFaults(spec.ops[i], r, x)
    <3>1. o[x] = r[x]
      BY <1>5 DEF Places
    <3> QED  BY <3>1 DEF ParamFaults
  <2> DEFINE op == spec.ops[o.op]
             Rest == \/ \E x \in Places : f \in ParamFaults(op, o, x)
                     \/ HasBody(op) /\ f \in BodyFaults(op, o)
                     \/ f = <<"resource", "", "exists">> /\ \E m \in DOMAIN o.path : o.path[m] = Bogus
                     \/ f = <<"auth", "", "credentials">> /\ o.auth = "invalid"
  <2>3. f \in Faults(o) <=> Rest
    BY Fault
  <2> QED  BY <1>1, <1>5, <2>1, <2>2, <2>3, Fault
<1>9. StatusFor(f0) = 401
  BY DEF StatusFor
<1> HIDE DEF f0
<1>10. f0 \in Faults(o) /\ \A f \in Faults(o) : f = f0
  BY <1>1, <1>7, <1>8
<1> QED  BY <1>4, <1>9, <1>10, SingleFault

\* The status of a success is a number below those of failures.
LEMMA StatusKnown ==
  ASSUME NEW op, KnownOperation(op)
  PROVE  op.success.status \in Nat /\ op.success.status < 400
<1>1. op.success.status \in 200..399
  BY DEF KnownOperation
<1> QED  BY <1>1

\* The positive has none.
LEMMA PositiveOneFault ==
  ASSUME NEW i, KnownOperation(spec.ops[i]), ValidKnown(i), NEW o \in Positive(i)
  PROVE  OneFault(o)
<1> DEFINE r == ValidRequest(i)
<1>1. Faults(r) = {} /\ DOMAIN r = RequestFields
  BY ValidFields DEF ValidKnown
<1>2. o = Add(r, "positive", spec.ops[i].success.status, SuccessExpected(spec.ops[i]))
  BY DEF Positive
<1> HIDE DEF r
<1>3. Sends(o, r) /\ o.status = spec.ops[i].success.status
  BY <1>1, <1>2, Added
<1>4. Faults(o) = {}
  BY <1>1, <1>3, FaultsOfRequest
<1>5. o.status < 400
  BY <1>3, StatusKnown
<1> QED  BY <1>4, <1>5 DEF OneFault

\* So every case of an operation that is as asked has one fault, or none.
LEMMA OperationOneFault ==
  ASSUME NEW i, KnownOperation(spec.ops[i]), ValidKnown(i), NEW o \in OperationCases(i), AsAsked(o)
  PROVE  OneFault(o)
<1>1. \/ o \in Positive(i)
      \/ \E place \in Places : o \in ParamNegatives(i, place)
      \/ o \in BodyNegatives(i) \/ o \in NotFound(i) \/ o \in Auth(i)
  BY DEF OperationCases, Places
<1>2. ASSUME o \in BodyNegatives(i) PROVE OneFault(o)
  <2>1. /\ HasBody(spec.ops[i])
        /\ \/ \E b : o = BodyCase(i, b)
           \/ o = Negative(BodyRequest(i, [raw |-> "malformed"]), "bad_request", 400)
           \/ o = TextCase(i)
    BY <1>2, BodyNegativesAre
  <2>2. o.op = i /\ o.category \in {"body_validation", "bad_request", "media_type"}
    <3>1. CASE \E b : o = BodyCase(i, b)
      <4>1. PICK b : o = Negative(BodyRequest(i, [json |-> b]), "body_validation", 400)
        BY <3>1 DEF BodyCase
      <4> QED  BY <2>1, <4>1, BodySends
    <3>2. CASE o = Negative(BodyRequest(i, [raw |-> "malformed"]), "bad_request", 400)
      BY <2>1, <3>2, BodySends
    <3>3. CASE o = TextCase(i)
      BY <3>3, TextSends
    <3> QED  BY <2>1, <3>1, <3>2, <3>3
  <2>3. RequiredHeaders(spec.ops[i]) = {}
    BY <2>2 DEF AsAsked
  <2> QED  BY <1>2, <2>3, BodyOneFault
<1>3. ASSUME o \in NotFound(i) PROVE OneFault(o)
  <2> DEFINE q == [ValidRequest(i) EXCEPT !.path = [n \in DOMAIN ValidRequest(i).path |-> Bogus]]
  <2>1. DOMAIN ValidRequest(i) = RequestFields
    BY ValidFields
  <2>2. o = Negative(q, "not_found", 404)
    BY <1>3, <2>1 DEF NotFound, RequestFields
  <2>3. DOMAIN q = RequestFields
    BY <2>1
  <2> HIDE DEF q
  <2>4. o.category = "not_found"
    BY <2>2, <2>3, NegativeSends
  <2> QED  BY <1>3, <2>4, NotFoundOneFault DEF AsAsked
<1> QED  BY <1>1, <1>2, <1>3, PositiveOneFault, ParamOneFault, AuthOneFault

-----------------------------------------------------------------------------
(* The cases, as they are written *)

CaseFields == RequestFields \cup {"category", "status", "expected", "mode", "logs"}

\* Two cases that send the same and expect the same status.
SameCase(c, o) == Sends(c, o) /\ c.category = o.category /\ c.status = o.status

\* A failure is expected to say all that one says, a success what is declared.
Declared(o, i) ==
  \/ o.status \in Failures /\ o.expected = ErrorExpected(o.status)
  \/ o.status = spec.ops[i].success.status /\ o.expected = SuccessExpected(spec.ops[i])

\* The cases of an operation are its own, and none is that of a branch.
LEMMA OperationMade ==
  ASSUME NEW i, KnownOperation(spec.ops[i]), NEW o \in OperationCases(i)
  PROVE  /\ DOMAIN o = CaseFields /\ o.op = i /\ o.mode = "json_subset" /\ Declared(o, i)
         /\ o.category # "branch_logic" /\ o.status \in Nat
<1> DEFINE Own(x) == /\ DOMAIN x = CaseFields /\ x.op = i /\ x.mode = "json_subset" /\ Declared(x, i)
                     /\ x.category # "branch_logic" /\ x.status \in Nat
<1> HIDE DEF Own
<1>0. Failures = {400, 401, 404, 415} /\ spec.ops[i].success.status \in Nat
  BY StatusKnown DEF Failures
<1>1. ASSUME NEW r, DOMAIN r = RequestFields, r.op = i, NEW category, NEW status, NEW expected,
             o = Add(r, category, status, expected), category # "branch_logic",
             \/ status \in Failures /\ expected = ErrorExpected(status)
             \/ status = spec.ops[i].success.status /\ expected = SuccessExpected(spec.ops[i])
      PROVE  Own(o)
  <2>1. /\ Sends(o, r) /\ o.category = category /\ o.status = status /\ DOMAIN o = CaseFields
        /\ o.expected = expected /\ o.mode = "json_subset"
    BY <1>1, Added DEF CaseFields
  <2>2. o.status \in Nat
    BY <1>0, <1>1, <2>1
  <2>3. Declared(o, i)
    BY <1>1, <2>1 DEF Declared
  <2> QED  BY <1>1, <2>1, <2>2, <2>3 DEF Own, Sends, RequestFields
<1>2. DOMAIN ValidRequest(i) = RequestFields /\ ValidRequest(i).op = i
  BY ValidFields
<1>3. ASSUME o \in Positive(i) PROVE Own(o)
  BY <1>1, <1>2, <1>3 DEF Positive
<1>4. ASSUME NEW place \in Places, o \in ParamNegatives(i, place)
      PROVE  Own(o)
  <2>1. PICK given : o = ParamCase(i, place, given)
    BY <1>4, ParamNegativesAre
  <2> DEFINE q == ParamRequest(i, place, given)
  <2>2. DOMAIN q = RequestFields /\ q.op = i
    BY <1>2 DEF RequestFields, Places, ParamRequest
  <2>3. o = Add(q, Validation[place], 400, ErrorExpected(400))
    BY <2>1 DEF ParamCase, Negative
  <2>4. Validation[place] # "branch_logic"
    BY DEF Validation, Places
  <2> HIDE DEF q
  <2> QED  BY <1>0, <1>1, <2>2, <2>3, <2>4
<1>5. ASSUME o \in BodyNegatives(i) PROVE Own(o)
  <2> DEFINE r == [ValidRequest(i) EXCEPT !.header = Empty]
  <2>1. \A body : DOMAIN BodyRequest(i, body) = RequestFields /\ BodyRequest(i, body).op = i
    BY <1>2 DEF BodyRequest, RequestFields
  <2>2. DOMAIN [r EXCEPT !.content = "text"] = RequestFields /\ [r EXCEPT !.content = "text"].op = i
    BY <1>2 DEF RequestFields
  <2>3. CASE \E b : o = BodyCase(i, b)
    BY <1>0, <1>1, <2>1, <2>3 DEF BodyCase, Negative
  <2>4. CASE o = Negative(BodyRequest(i, [raw |-> "malformed"]), "bad_request", 400)
    BY <1>0, <1>1, <2>1, <2>4 DEF Negative
  <2>5. CASE o = TextCase(i)
    <3> DEFINE q == [r EXCEPT !.content = "text"]
    <3>1. DOMAIN q = RequestFields /\ q.op = i
      BY <2>2
    <3>2. o = Negative(q, "media_type", 415)
      BY <2>5 DEF TextCase
    <3> HIDE DEF q
    <3> QED  BY <1>0, <1>1, <3>1, <3>2 DEF Negative
  <2> QED  BY <1>5, <2>3, <2>4, <2>5, BodyNegativesAre
<1>6. ASSUME o \in NotFound(i) PROVE Own(o)
  <2> DEFINE q == [ValidRequest(i) EXCEPT !.path = [n \in DOMAIN ValidRequest(i).path |-> Bogus]]
  <2>1. o = Negative(q, "not_found", 404)
    BY <1>2, <1>6 DEF NotFound, RequestFields
  <2>2. DOMAIN q = RequestFields /\ q.op = i
    BY <1>2 DEF RequestFields
  <2> HIDE DEF q
  <2> QED  BY <1>0, <1>1, <2>1, <2>2 DEF Negative
<1>7. ASSUME o \in Auth(i) PROVE Own(o)
  <2> DEFINE q == [ValidRequest(i) EXCEPT !.auth = "invalid"]
  <2>1. o = Negative(q, "auth", 401)
    BY <1>7 DEF Auth
  <2>2. DOMAIN q = RequestFields /\ q.op = i
    BY <1>2 DEF RequestFields
  <2> HIDE DEF q
  <2> QED  BY <1>0, <1>1, <2>1, <2>2 DEF Negative
<1>8. Own(o)
  BY <1>3, <1>4, <1>5, <1>6, <1>7 DEF OperationCases, Places
<1> QED  BY <1>8 DEF Own

\* The facts of a flow go into a success, those of the error handlers into a failure.
LEMMA OverlaidIs ==
  ASSUME NEW c, c.status \in Nat, NEW i
  PROVE  LET env == ErrorEnvelope(app)
             loggers == FlowLoggers(app, Key(i))
             response == FlowResponse(app, Key(i))
         IN  /\ c.status < 400 =>
                  Overlaid(c, i) = [c EXCEPT !.logs = IF loggers = {} THEN @ ELSE loggers,
                                             !.expected = IF response = Empty THEN @ ELSE AsDoc(response)]
             /\ c.status >= 400 /\ c.status \in DOMAIN env =>
                  Overlaid(c, i) = [c EXCEPT !.expected = AsDoc(env[c.status])]
             /\ c.status >= 400 /\ c.status \notin DOMAIN env => Overlaid(c, i) = c
<1> DEFINE loggers == FlowLoggers(app, Key(i))
           response == FlowResponse(app, Key(i))
           env == ErrorEnvelope(app)
           First == [c EXCEPT !.logs = IF loggers = {} THEN @ ELSE loggers,
                              !.expected = IF response = Empty THEN @ ELSE AsDoc(response)]
           Second == [c EXCEPT !.expected = AsDoc(env[c.status])]
           small == c.status < 400
           large == c.status >= 400
           listed == c.status \in DOMAIN env
<1>1. Overlaid(c, i) = CASE small -> First [] large /\ listed -> Second [] OTHER -> c
  BY DEF Overlaid
<1>2. (small /\ ~large) \/ (~small /\ large)
  OBVIOUS
<1> SUFFICES /\ small => Overlaid(c, i) = First
             /\ large /\ listed => Overlaid(c, i) = Second
             /\ large /\ ~listed => Overlaid(c, i) = c
  OBVIOUS
<1> HIDE DEF First, Second, small, large, listed
<1> QED  BY <1>1, <1>2, Zenon

\* They change what a case expects, not what it sends.
LEMMA OverlaidSame ==
  ASSUME NEW c, DOMAIN c = CaseFields, c.status \in Nat, NEW i
  PROVE  SameCase(Overlaid(c, i), c)
<1> DEFINE Kept(d) == \A x \in RequestFields \cup {"category", "status"} : d[x] = c[x]
<1>1. ASSUME NEW d, NEW e, d = [c EXCEPT !.expected = e] PROVE Kept(d)
  BY <1>1 DEF CaseFields, RequestFields
<1>2. ASSUME NEW d, NEW l, NEW e, d = [c EXCEPT !.logs = l, !.expected = e] PROVE Kept(d)
  BY <1>2 DEF CaseFields, RequestFields
<1>3. Kept(c)
  OBVIOUS
<1>4. c.status < 400 \/ c.status >= 400
  OBVIOUS
<1> DEFINE env == ErrorEnvelope(app)
           loggers == FlowLoggers(app, Key(i))
           response == FlowResponse(app, Key(i))
<1> HIDE DEF Kept
<1>5. CASE c.status < 400
  <2>1. Overlaid(c, i) = [c EXCEPT !.logs = IF loggers = {} THEN @ ELSE loggers,
                                   !.expected = IF response = Empty THEN @ ELSE AsDoc(response)]
    BY <1>5, OverlaidIs
  <2>2. PICK l, e : Overlaid(c, i) = [c EXCEPT !.logs = l, !.expected = e]
    BY <2>1
  <2>3. Kept(Overlaid(c, i))
    BY <1>2, <2>2
  <2> QED  BY <2>3 DEF SameCase, Sends, Kept
<1>6. CASE c.status >= 400 /\ c.status \in DOMAIN env
  <2>1. PICK e : Overlaid(c, i) = [c EXCEPT !.expected = e]
    BY <1>6, OverlaidIs
  <2>2. Kept(Overlaid(c, i))
    BY <1>1, <2>1
  <2> QED  BY <2>2 DEF SameCase, Sends, Kept
<1>7. CASE c.status >= 400 /\ c.status \notin DOMAIN env
  <2>1. Overlaid(c, i) = c
    BY <1>7, OverlaidIs
  <2>2. Kept(Overlaid(c, i))
    BY <1>3, <2>1
  <2> QED  BY <2>2 DEF SameCase, Sends, Kept
<1> QED  BY <1>4, <1>5, <1>6, <1>7

\* What the flow of an operation sets.
Response(i) == IF app = NoApp THEN Empty ELSE FlowResponse(app, Key(i))

\* A failure is expected to say what the application makes of one or all that
\* one says, a success what the flow sets or is declared; for a branch that
\* is nothing.
Wants(c) ==
  LET op == spec.ops[c.op]
  IN  /\ c.mode = "json_subset"
      /\ \/ /\ c.status \in Failures
            /\ c.expected = IF app # NoApp /\ c.status \in DOMAIN ErrorEnvelope(app)
                            THEN AsDoc(ErrorEnvelope(app)[c.status]) ELSE ErrorExpected(c.status)
         \/ /\ c.status = op.success.status
            /\ c.expected = IF Response(c.op) # Empty THEN AsDoc(Response(c.op))
                            ELSE IF c.category = "branch_logic" THEN Null ELSE SuccessExpected(op)

\* So it is with the cases of an operation, as they are made and as they are written.
LEMMA OperationWants ==
  ASSUME NEW i, KnownOperation(spec.ops[i]), NEW o \in OperationCases(i)
  PROVE  IF app = NoApp THEN Wants(o) ELSE Wants(Overlaid(o, i))
<1> DEFINE op == spec.ops[i]
           env == ErrorEnvelope(app)
           response == FlowResponse(app, Key(i))
<1>1. /\ DOMAIN o = CaseFields /\ o.op = i /\ o.mode = "json_subset" /\ Declared(o, i)
      /\ o.category # "branch_logic" /\ o.status \in Nat
  BY OperationMade
<1>2. CASE app = NoApp
  BY <1>1, <1>2 DEF Wants, Declared, Response
<1>3. CASE app # NoApp
  <2> DEFINE c == Overlaid(o, i)
  <2>1. c.op = i /\ c.category = o.category /\ c.status = o.status
    BY <1>1, OverlaidSame DEF SameCase, Sends, RequestFields
  <2>2. CASE o.status \in Failures /\ o.expected = ErrorExpected(o.status)
    <3>1. o.status >= 400
      BY <2>2 DEF Failures
    <3>2. CASE o.status \in DOMAIN env
      <4>1. c = [o EXCEPT !.expected = AsDoc(env[o.status])]
        BY <1>1, <3>1, <3>2, OverlaidIs
      <4>2. c.mode = "json_subset" /\ c.expected = AsDoc(env[o.status])
        BY <1>1, <4>1 DEF CaseFields
      <4> HIDE DEF c
      <4> QED  BY <1>3, <2>1, <2>2, <3>2, <4>2 DEF Wants, c
    <3>3. CASE o.status \notin DOMAIN env
      <4>1. c = o
        BY <1>1, <3>1, <3>3, OverlaidIs
      <4> HIDE DEF c
      <4> QED  BY <1>1, <1>3, <2>2, <3>3, <4>1 DEF Wants, c
    <3> QED  BY <3>2, <3>3
  <2>3. CASE o.status = op.success.status /\ o.expected = SuccessExpected(op)
    <3>1. o.status < 400
      BY <2>3, StatusKnown
    <3> DEFINE loggers == FlowLoggers(app, Key(i))
    <3>2. c = [o EXCEPT !.logs = IF loggers = {} THEN @ ELSE loggers,
                        !.expected = IF response = Empty THEN @ ELSE AsDoc(response)]
      BY <1>1, <3>1, OverlaidIs
    <3>3. /\ c.mode = "json_subset"
          /\ c.expected = IF response = Empty THEN SuccessExpected(op) ELSE AsDoc(response)
      BY <1>1, <2>3, <3>2 DEF CaseFields
    <3> HIDE DEF c
    <3> QED  BY <1>1, <1>3, <2>1, <2>3, <3>3 DEF Wants, Response, c
  <2>4. \/ o.status \in Failures /\ o.expected = ErrorExpected(o.status)
        \/ o.status = op.success.status /\ o.expected = SuccessExpected(op)
    BY <1>1 DEF Declared
  <2> QED  BY <1>3, <2>2, <2>3, <2>4
<1> QED  BY <1>2, <1>3

\* The case of a branch sends the valid request with the body for the branch,
\* and asks for the branch's logger.
LEMMA BranchSends ==
  ASSUME NEW i, NEW o \in BranchCases(i)
  PROVE  \E b \in Branches(app, Key(i)) :
           LET r == ValidRequest(i)
           IN  /\ o.op = i /\ o.method = r.method /\ o.resource = r.resource /\ o.path = r.path
               /\ o.query = r.query /\ o.header = r.header /\ o.content = r.content
               /\ o.auth = r.auth /\ o.body = [json |-> BranchBody(Body(r), b)]
               /\ o.category = "branch_logic" /\ o.status = spec.ops[i].success.status
               /\ b.logger \in o.logs
               /\ o.mode = "json_subset"
               /\ o.expected = IF FlowResponse(app, Key(i)) = Empty THEN Null
                               ELSE AsDoc(FlowResponse(app, Key(i)))
<1> DEFINE r == ValidRequest(i)
           base == IF HasBody(spec.ops[i]) THEN r.body.json ELSE Empty
           Sent(b) == [r EXCEPT !.body = [json |-> BranchBody(base, b)]]
<1>1. base = Body(r)
  <2>1. CASE HasBody(spec.ops[i])
    <3>1. r.body = [json |-> Baseline(spec.ops[i])]
      BY <2>1, ValidFields
    <3> QED  BY <2>1, <3>1 DEF Body
  <2>2. CASE ~HasBody(spec.ops[i])
    <3>1. r.body = [raw |-> ""]
      BY <2>2, ValidFields
    <3> QED  BY <2>2, <3>1 DEF Body
  <2> QED  BY <2>1, <2>2
<1> DEFINE response == FlowResponse(app, Key(i))
           expected == IF response = Empty THEN Null ELSE AsDoc(response)
<1>2. PICK b \in Branches(app, Key(i)) :
             o = [Add(Sent(b), "branch_logic", spec.ops[i].success.status, expected)
                    EXCEPT !.logs = FlowLoggers(app, Key(i)) \cup {b.logger}]
  BY DEF BranchCases
<1>3. DOMAIN r = RequestFields /\ r.op = i
  BY ValidFields
<1> DEFINE q == Sent(b)
<1> HIDE DEF r, base, expected
<1>4. /\ DOMAIN q = RequestFields /\ q.op = i /\ q.method = r.method /\ q.resource = r.resource
      /\ q.path = r.path /\ q.query = r.query /\ q.header = r.header /\ q.content = r.content
      /\ q.auth = r.auth /\ q.body = [json |-> BranchBody(base, b)]
  BY <1>3 DEF RequestFields
<1> HIDE DEF Sent, q
<1> DEFINE a == Add(q, "branch_logic", spec.ops[i].success.status, expected)
<1>5. /\ Sends(a, q) /\ DOMAIN a = CaseFields
      /\ a.category = "branch_logic" /\ a.status = spec.ops[i].success.status
      /\ a.expected = expected /\ a.mode = "json_subset"
  BY <1>4, Added DEF CaseFields
<1>6. o = [a EXCEPT !.logs = FlowLoggers(app, Key(i)) \cup {b.logger}]
  BY <1>2 DEF q
<1> HIDE DEF a
<1>7. /\ \A x \in RequestFields \cup {"category", "status", "expected", "mode"} : o[x] = a[x]
      /\ b.logger \in o.logs
  BY <1>5, <1>6 DEF CaseFields, RequestFields
<1>8. \A x \in RequestFields : o[x] = q[x]
  BY <1>5, <1>7 DEF Sends
<1>9. /\ o.op = q.op /\ o.method = q.method /\ o.resource = q.resource /\ o.path = q.path
      /\ o.query = q.query /\ o.header = q.header /\ o.content = q.content /\ o.auth = q.auth
      /\ o.body = q.body
  BY <1>8 DEF RequestFields
<1>10. o.mode = "json_subset" /\ o.expected = expected
  BY <1>5, <1>7
<1> QED  BY <1>1, <1>4, <1>5, <1>7, <1>9, <1>10 DEF r, expected

\* A case of the router, or of a bad request, is of no operation and of no branch.
LEMMA FailureMade ==
  ASSUME NEW r, DOMAIN r = RequestFields, r.op = 0, NEW category, category # "branch_logic",
         NEW status, NEW o \in Failure(r, category, status)
  PROVE  o.op = 0 /\ o.category # "branch_logic"
<1>1. PICK e, response, logs : o = Flow(r, category, e, response, logs)
  BY DEF Failure
<1>2. Sends(o, r) /\ o.category = category
  BY <1>1, FlowAdded
<1> QED  BY <1>2 DEF Sends, RequestFields

LEMMA PlainFields ==
  ASSUME NEW key
  PROVE  LET r == PlainRequest(key)
         IN  /\ DOMAIN r = RequestFields /\ r.op = 0 /\ r.method = key[1] /\ r.resource = key[2]
BY DEF PlainRequest, RequestFields

LEMMA RouterMade ==
  ASSUME NEW get, DOMAIN get = RequestFields, get.op = 0, NEW o \in RouterFailures(get)
  PROVE  o.op = 0 /\ o.category # "branch_logic"
<1>1. \/ o \in Failure(PlainRequest(<<"GET", "/__nonexistent__">>), "not_found", 404)
      \/ o \in Failure(PlainRequest(<<Unused, Endpoints(app)[1][2]>>), "method_not_allowed", 405)
      \/ o \in Failure([get EXCEPT !.accept = "xml"], "not_acceptable", 406)
  BY DEF RouterFailures
<1>2. DOMAIN [get EXCEPT !.accept = "xml"] = RequestFields /\ [get EXCEPT !.accept = "xml"].op = 0
  BY DEF RequestFields
<1>3. CASE o \in Failure(PlainRequest(<<"GET", "/__nonexistent__">>), "not_found", 404)
  BY <1>3, PlainFields, FailureMade
<1>4. CASE o \in Failure(PlainRequest(<<Unused, Endpoints(app)[1][2]>>), "method_not_allowed", 405)
  BY <1>4, PlainFields, FailureMade
<1>5. CASE o \in Failure([get EXCEPT !.accept = "xml"], "not_acceptable", 406)
  <2> DEFINE q == [get EXCEPT !.accept = "xml"]
  <2>1. o \in Failure(q, "not_acceptable", 406) /\ DOMAIN q = RequestFields /\ q.op = 0
    BY <1>2, <1>5
  <2> HIDE DEF q
  <2> QED  BY <2>1, FailureMade
<1> QED  BY <1>1, <1>3, <1>4, <1>5

-----------------------------------------------------------------------------
(* What is compared *)

\* The parts of what is given are compared as well.
Whole(d) == d \in Documents /\ Children(d) \subseteq Documents

LEMMA GivenWhole ==
  ASSUME NEW d \in Given
  PROVE  Whole(d) /\ \A part \in Children(d) : Whole(part)
<1> DEFINE inner == UNION {Children(x) : x \in Given}
<1>1. Documents = Given \cup inner \cup (UNION {Children(x) : x \in inner})
  BY DEF Documents
<1>2. Children(d) \subseteq inner
  OBVIOUS
<1>3. ASSUME NEW part \in Children(d) PROVE part \in inner /\ Children(part) \subseteq Documents
  BY <1>1, <1>2
<1> HIDE DEF inner
<1> QED  BY <1>1, <1>2, <1>3 DEF Whole

\* The kinds of documents there are to tell apart.
LEMMA Kinds ==
  /\ ~IsObj(ANY_VALUE) /\ ~IsList(ANY_VALUE)
  /\ \A v : ~IsObj(Scalar(v)) /\ ~IsList(Scalar(v)) /\ Scalar(v) # ANY_VALUE
  /\ \A f : IsObj(Obj(f)) /\ ~IsList(Obj(f)) /\ Obj(f) # ANY_VALUE /\ Obj(f).fields = f
  /\ \A s : IsList(List(s)) /\ ~IsObj(List(s)) /\ List(s) # ANY_VALUE /\ List(s).items = s
<1>1. DOMAIN ANY_VALUE = {"any"}
  BY DEF ANY_VALUE
<1>2. ASSUME NEW v PROVE DOMAIN Scalar(v) = {"value"}
  BY DEF Scalar
<1>3. ASSUME NEW f PROVE DOMAIN Obj(f) = {"fields"} /\ Obj(f).fields = f
  BY DEF Obj
<1>4. ASSUME NEW s PROVE DOMAIN List(s) = {"items"} /\ List(s).items = s
  BY DEF List
<1>5. ASSUME NEW v PROVE Scalar(v) # ANY_VALUE
  <2>1. DOMAIN Scalar(v) # DOMAIN ANY_VALUE
    BY <1>1, <1>2
  <2> QED  BY <2>1
<1>6. ASSUME NEW f PROVE Obj(f) # ANY_VALUE
  <2>1. DOMAIN Obj(f) # DOMAIN ANY_VALUE
    BY <1>1, <1>3
  <2> QED  BY <2>1
<1>7. ASSUME NEW s PROVE List(s) # ANY_VALUE
  <2>1. DOMAIN List(s) # DOMAIN ANY_VALUE
    BY <1>1, <1>4
  <2> QED  BY <2>1
<1> QED  BY <1>1, <1>2, <1>3, <1>4, <1>5, <1>6, <1>7 DEF IsObj, IsList

\* The wildcard agrees with everything, a scalar with itself, null with nothing else.
LEMMA LeafAgrees ==
  ASSUME NEW e \in Documents, NEW a \in Documents
  PROVE  /\ e = ANY_VALUE => compare(e, a, TRUE) = {}
         /\ ~IsObj(e) /\ ~IsList(e) /\ e # ANY_VALUE => (compare(e, a, TRUE) = {} <=> e = a)
<1>1. compare(e, a, TRUE) = CompareBody(compare, e, a, TRUE)
  BY CompareOK
<1>2. CASE e = ANY_VALUE
  BY <1>1, <1>2, Kinds DEF CompareBody
<1>3. CASE ~IsObj(e) /\ ~IsList(e) /\ e # ANY_VALUE
  BY <1>1, <1>3 DEF CompareBody
<1> QED  BY <1>2, <1>3

\* Objects agree where the fields that are expected do.
LEMMA ObjectsAgree ==
  ASSUME NEW e \in Documents, NEW a \in Documents, e # ANY_VALUE, IsObj(e), ~IsList(e), IsObj(a),
         DOMAIN e.fields \subseteq DOMAIN a.fields,
         \A k \in DOMAIN e.fields : compare(e.fields[k], a.fields[k], TRUE) = {}
  PROVE  compare(e, a, TRUE) = {}
<1> DEFINE Same(k) == compare(e.fields[k], a.fields[k], TRUE)
           Extra == {"unexpected key" : k \in IF TRUE THEN {} ELSE DOMAIN a.fields \ DOMAIN e.fields}
           Missing == {"missing key" : k \in DOMAIN e.fields \ DOMAIN a.fields}
<1>1. compare(e, a, TRUE) =
        Extra \cup Missing \cup UNION {Same(k) : k \in DOMAIN e.fields \cap DOMAIN a.fields}
  <2>1. compare(e, a, TRUE) = CompareBody(compare, e, a, TRUE)
    BY CompareOK
  <2> QED  BY <2>1 DEF CompareBody
<1>2. Extra = {} /\ Missing = {}
  OBVIOUS
<1> HIDE DEF Extra, Missing
<1>3. \A k \in DOMAIN e.fields \cap DOMAIN a.fields : Same(k) = {}
  OBVIOUS
<1> HIDE DEF Same
<1>4. UNION {Same(k) : k \in DOMAIN e.fields \cap DOMAIN a.fields} = {}
  BY <1>3
<1> QED  BY <1>1, <1>2, <1>4

\* The only element expected agrees with every one there is.
LEMMA ListsAgree ==
  ASSUME NEW e \in Documents, NEW a \in Documents, e # ANY_VALUE, IsList(e), ~IsObj(e), IsList(a),
         Len(e.items) = 1,
         \A n \in DOMAIN a.items : compare(e.items[1], a.items[n], TRUE) = {}
  PROVE  compare(e, a, TRUE) = {}
<1> DEFINE Same(n) == compare(e.items[1], a.items[n], TRUE)
<1>1. compare(e, a, TRUE) = CompareBody(compare, e, a, TRUE)
  BY CompareOK
<1>2. IsTemplate(e.items, TRUE)
  BY DEF IsTemplate
<1>3. compare(e, a, TRUE) = UNION {Same(n) : n \in DOMAIN a.items}
  BY <1>1, <1>2 DEF CompareBody
<1>4. \A n \in DOMAIN a.items : Same(n) = {}
  OBVIOUS
<1> HIDE DEF Same
<1> QED  BY <1>3, <1>4

\* Objects whose fields are expected to be there, or to be a scalar that they are.
LEMMA FlatAgree ==
  ASSUME NEW e, NEW a, Whole(Obj(e)), Whole(Obj(a)), DOMAIN e \subseteq DOMAIN a,
         \A k \in DOMAIN e : e[k] = ANY_VALUE \/ \E v : e[k] = Scalar(v) /\ a[k] = Scalar(v)
  PROVE  compare(Obj(e), Obj(a), TRUE) = {}
<1>1. ASSUME NEW f, NEW k \in DOMAIN f, Whole(Obj(f)) PROVE f[k] \in Documents
  <2>1. Children(Obj(f)) = Range(f)
    BY Kinds DEF Children
  <2> QED  BY <1>1, <2>1 DEF Whole, Range
<1>2. ASSUME NEW k \in DOMAIN e PROVE compare(e[k], a[k], TRUE) = {}
  <2>1. e[k] \in Documents /\ a[k] \in Documents
    BY <1>1
  <2>2. PICK x \in Documents, y \in Documents : x = e[k] /\ y = a[k]
    BY <2>1
  <2>3. CASE x = ANY_VALUE
    <3>1. compare(x, y, TRUE) = {}
      BY <2>3, LeafAgrees
    <3> QED  BY <2>2, <3>1
  <2>4. CASE x # ANY_VALUE
    <3>1. PICK v : x = Scalar(v) /\ y = Scalar(v)
      BY <2>2, <2>4
    <3>2. ~IsObj(x) /\ ~IsList(x) /\ x = y
      BY <3>1, Kinds
    <3>3. compare(x, y, TRUE) = {}
      BY <2>4, <3>2, LeafAgrees
    <3> QED  BY <2>2, <3>3
  <2> QED  BY <2>3, <2>4
<1> DEFINE oe == Obj(e)
           oa == Obj(a)
<1>3. /\ oe \in Documents /\ oa \in Documents /\ oe # ANY_VALUE /\ IsObj(oe) /\ ~IsList(oe)
      /\ IsObj(oa) /\ oe.fields = e /\ oa.fields = a
  BY Kinds DEF Whole
<1> HIDE DEF oe, oa
<1>4. compare(oe, oa, TRUE) = {}
  BY <1>2, <1>3, ObjectsAgree
<1> QED  BY <1>4 DEF oe, oa

\* What an application sends is what is expected of it.
LEMMA SetAgrees ==
  ASSUME NEW f, AsDoc(f) \in Given
  PROVE  compare(AsDoc(f), AsDoc(f), TRUE) = {} /\ AsDoc(f) # Null
<1> DEFINE g == [k \in DOMAIN f |-> Scalar(f[k])]
<1>1. AsDoc(f) = Obj(g) /\ Whole(Obj(g))
  BY GivenWhole DEF AsDoc
<1>2. \A k \in DOMAIN g : \E v : g[k] = Scalar(v) /\ g[k] = Scalar(v)
  OBVIOUS
<1> HIDE DEF g
<1>3. Obj(g) # Null
  <2>1. IsObj(Obj(g)) /\ ~IsObj(Null)
    BY Kinds DEF Null
  <2> QED  BY <2>1
<1> QED  BY <1>1, <1>2, <1>3, FlatAgree

\* A failure is what is expected of one.
LEMMA FailureAgrees ==
  ASSUME NEW d \in Specs, NEW status \in Failures
  PROVE  LET e == ErrorBody(d.errors, status)
         IN  compare(e, Filled(e), TRUE) = {} /\ e # Null
<1> DEFINE e == ErrorBody(d.errors, status)
           names == IF d.errors = {} THEN {"status", "error"} ELSE d.errors
           g == [f \in names |-> CASE f = "status" -> Scalar(Number(status))
                                   [] f = "error"  -> Scalar([reason |-> status])
                                   [] OTHER        -> ANY_VALUE]
           h == [f \in DOMAIN e.fields |-> IF e.fields[f] = ANY_VALUE THEN Scalar(Text("any", 3))
                                           ELSE e.fields[f]]
<1>1. e = Obj(g) /\ Filled(e) = Obj(h)
  BY DEF ErrorBody, Filled
<1>2. e \in Given /\ Filled(e) \in Given
  BY DEF Given
<1>3. ASSUME NEW k \in DOMAIN g PROVE g[k] = ANY_VALUE \/ \E v : g[k] = Scalar(v)
  OBVIOUS
<1> HIDE DEF g
<1>4. e.fields = g
  BY <1>1, Kinds
<1>5. DOMAIN h = DOMAIN g /\ \A k \in DOMAIN g : g[k] # ANY_VALUE => h[k] = g[k]
  BY <1>4
<1>6. Whole(Obj(g)) /\ Whole(Obj(h))
  BY <1>1, <1>2, GivenWhole
<1>7. Obj(g) # Null
  <2>1. IsObj(Obj(g)) /\ ~IsObj(Null)
    BY Kinds DEF Null
  <2> QED  BY <2>1
<1> HIDE DEF h, e
<1>8. \A k \in DOMAIN g : g[k] = ANY_VALUE \/ \E v : g[k] = Scalar(v) /\ h[k] = Scalar(v)
  BY <1>3, <1>5
<1>9. compare(Obj(g), Obj(h), TRUE) = {}
  BY <1>5, <1>6, <1>8, FlatAgree
<1> QED  BY <1>1, <1>7, <1>9 DEF e

\* What is declared is expected, unless no body is.
LEMMA SuccessAgrees ==
  ASSUME NEW op \in Operations, KnownOperation(op), NEW body \in SuccessBodies(op)
  PROVE  compare(SuccessExpected(op), body, TRUE) = {} <=> SuccessExpected(op) # Null
<1> DEFINE props == op.success.properties
           req == op.success.required
           kind == op.success.kind
           sent == Echo(op)
           expected == SuccessExpected(op)
           echo == [f \in DOMAIN sent \cap props |-> Scalar(sent[f])]
           Full(names) == Besides(echo, [f \in names |-> Scalar(Text("any", 3))])
           objects == SuccessObjects(op)
           node == ObjectExpected(op)
<1>1. expected \in Given /\ body \in Given
  BY DEF Given
<1>2. Whole(expected) /\ Whole(body) /\ (\A x \in Children(expected) : Whole(x))
      /\ (\A x \in Children(body) : Whole(x)) /\ Null \in Documents
  BY <1>1, GivenWhole DEF Given, Whole
<1>3. kind \in {"object", "array", "none"} /\ (kind = "none" => req = {} /\ props = {})
  BY DEF KnownOperation
<1>4. ASSUME NEW o \in objects
      PROVE  \E a : /\ o = Obj(a) /\ req \cup (DOMAIN sent \cap props) \subseteq DOMAIN a
                    /\ \A f \in DOMAIN sent \cap props : a[f] = Scalar(sent[f])
  <2>1. PICK more \in SUBSET props : o = Obj(Full(req \cup more))
    BY DEF SuccessObjects
  <2> DEFINE a == Full(req \cup more)
  <2>2. /\ req \cup (DOMAIN sent \cap props) \subseteq DOMAIN a
        /\ \A f \in DOMAIN sent \cap props : a[f] = Scalar(sent[f])
    BY DEF Besides
  <2> QED  BY <2>1, <2>2
<1>5. /\ DOMAIN node = req \cup (DOMAIN sent \cap props)
      /\ \A f \in DOMAIN node : \/ node[f] = ANY_VALUE
                                \/ f \in DOMAIN sent \cap props /\ node[f] = Scalar(sent[f])
  BY DEF ObjectExpected
<1>6. /\ kind = "array" => body \in SuccessLists(op)
      /\ kind = "object" => body \in objects
      /\ kind = "none" => body = Scalar(Text("", 0))
  BY DEF SuccessBodies
<1> HIDE DEF node, objects, sent
<1>7. expected = CASE kind = "array" -> ArrayAnyTemplate(op)
                   [] kind # "array" /\ DOMAIN node # {} -> Obj(node)
                   [] kind = "object" /\ DOMAIN node = {} -> ANY_VALUE
                   [] OTHER -> Null
  BY DEF SuccessExpected, node
<1> HIDE DEF expected
<1>8. CASE kind = "array"
  <2> DEFINE asked == [f \in req |-> ANY_VALUE]
             t == IF req = {} THEN ANY_VALUE ELSE Obj(asked)
             le == List(<<t>>)
  <2>1. expected = le
    BY <1>7, <1>8 DEF ArrayAnyTemplate
  <2>2. PICK s : body = List(s) /\ \A n \in DOMAIN s : s[n] \in objects
    <3>2. \/ body = List(<<>>) \/ \E o \in objects : body = List(<<o>>)
          \/ \E o, o2 \in objects : body = List(<<o, o2>>)
      BY <1>6, <1>8 DEF SuccessLists, objects
    <3>3. CASE body = List(<<>>)
      BY <3>3
    <3>4. ASSUME NEW o \in objects, body = List(<<o>>)
          PROVE  \E s : body = List(s) /\ \A n \in DOMAIN s : s[n] \in objects
      <4> WITNESS <<o>>
      <4> QED  BY <3>4
    <3>5. ASSUME NEW o \in objects, NEW o2 \in objects, body = List(<<o, o2>>)
          PROVE  \E s : body = List(s) /\ \A n \in DOMAIN s : s[n] \in objects
      <4> WITNESS <<o, o2>>
      <4> QED  BY <3>5
    <3> QED  BY <3>2, <3>3, <3>4, <3>5
  <2>3. \A n \in DOMAIN s : s[n] \in objects
    BY <2>2
  <2>4. /\ expected # ANY_VALUE /\ IsList(expected) /\ ~IsObj(expected) /\ IsList(body)
        /\ expected.items = <<t>> /\ body.items = s /\ ~IsObj(body)
    BY <2>1, <2>2, Kinds
  <2>5. Len(expected.items) = 1 /\ expected.items[1] = t
    BY <2>4
  <2>6. Whole(t) /\ \A n \in DOMAIN s : Whole(s[n])
    <3>1. t \in Children(expected)
      BY <2>4 DEF Children, Range
    <3>2. \A n \in DOMAIN s : s[n] \in Children(body)
      BY <2>4 DEF Children, Range
    <3> QED  BY <1>2, <3>1, <3>2
  <2>7. ASSUME NEW n \in DOMAIN s PROVE compare(t, s[n], TRUE) = {}
    <3>1. t \in Documents /\ s[n] \in Documents /\ Whole(t) /\ Whole(s[n])
      BY <2>6 DEF Whole
    <3>2. CASE req = {}
      <4>1. t = ANY_VALUE
        BY <3>2
      <4> HIDE DEF t
      <4> QED  BY <3>1, <4>1, LeafAgrees
    <3>3. CASE req # {}
      <4>1. PICK a : s[n] = Obj(a) /\ req \subseteq DOMAIN a
        BY <1>4, <2>3
      <4>2. t = Obj(asked)
        BY <3>3
      <4>3. DOMAIN asked \subseteq DOMAIN a /\ \A k \in DOMAIN asked : asked[k] = ANY_VALUE
        BY <4>1
      <4> HIDE DEF asked, t
      <4>4. Whole(Obj(asked)) /\ Whole(Obj(a))
        BY <3>1, <4>1, <4>2
      <4>5. compare(Obj(asked), Obj(a), TRUE) = {}
        <5>1. PICK e : e = asked
          OBVIOUS
        <5>2. /\ Whole(Obj(e)) /\ Whole(Obj(a)) /\ DOMAIN e \subseteq DOMAIN a
              /\ \A k \in DOMAIN e : e[k] = ANY_VALUE
          BY <4>3, <4>4, <5>1
        <5>3. compare(Obj(e), Obj(a), TRUE) = {}
          BY <5>2, FlatAgree
        <5> QED  BY <5>1, <5>3
      <4> QED  BY <4>1, <4>2, <4>5
    <3> QED  BY <3>2, <3>3
  <2> HIDE DEF t, le
  <2>8. expected \in Documents /\ body \in Documents
    BY <1>2 DEF Whole
  <2>9. \A n \in DOMAIN body.items : compare(expected.items[1], body.items[n], TRUE) = {}
    BY <2>4, <2>5, <2>7
  <2>10. compare(expected, body, TRUE) = {}
    BY <2>4, <2>5, <2>8, <2>9, ListsAgree
  <2>11. expected # Null
    <3>1. IsList(expected) /\ ~IsList(Null)
      BY <2>4, Kinds DEF Null
    <3> QED  BY <3>1
  <2> QED  BY <2>10, <2>11 DEF expected
<1>9. CASE kind = "object"
  <2>1. PICK a : /\ body = Obj(a) /\ req \cup (DOMAIN sent \cap props) \subseteq DOMAIN a
                 /\ \A f \in DOMAIN sent \cap props : a[f] = Scalar(sent[f])
    BY <1>4, <1>6, <1>9
  <2>2. CASE DOMAIN node = {}
    <3>1. expected = ANY_VALUE
      BY <1>7, <1>9, <2>2
    <3>2. expected # Null
      BY <3>1, Kinds DEF Null
    <3> QED  BY <1>2, <3>1, <3>2, LeafAgrees DEF Whole, expected
  <2>3. CASE DOMAIN node # {}
    <3>1. expected = Obj(node)
      BY <1>7, <1>9, <2>3
    <3>2. expected # Null
      <4>1. IsObj(expected) /\ ~IsObj(Null)
        BY <3>1, Kinds DEF Null
      <4> QED  BY <4>1
    <3>3. \A k \in DOMAIN node : node[k] = ANY_VALUE \/ \E v : node[k] = Scalar(v) /\ a[k] = Scalar(v)
      BY <1>5, <2>1
    <3>4. Whole(Obj(node)) /\ Whole(Obj(a)) /\ DOMAIN node \subseteq DOMAIN a
      BY <1>2, <1>5, <2>1, <3>1
    <3>5. compare(expected, body, TRUE) = {}
      BY <2>1, <3>1, <3>3, <3>4, FlatAgree
    <3> QED  BY <3>2, <3>5 DEF expected
  <2> QED  BY <2>2, <2>3
<1>10. CASE kind = "none"
  <2>1. expected = Null
    BY <1>3, <1>5, <1>7, <1>10
  <2>2. body = Scalar(Text("", 0))
    BY <1>6, <1>10
  <2>3. body # Null
    BY <2>2 DEF Null, Scalar, Text
  <2>4. compare(expected, body, TRUE) # {}
    BY <1>2, <2>1, <2>3, LeafAgrees, Kinds DEF Null, Whole
  <2> QED  BY <2>1, <2>4 DEF expected
<1> QED  BY <1>3, <1>8, <1>9, <1>10

\* No body there is agrees with null.
LEMMA NullDisagrees ==
  ASSUME NEW op \in Operations, KnownOperation(op), NEW body \in SuccessBodies(op)
  PROVE  compare(Null, body, TRUE) # {}
<1>1. op.success.kind \in {"object", "array", "none"}
  BY DEF KnownOperation
<1>2. IsObj(body) \/ IsList(body) \/ body = Scalar(Text("", 0))
  <2>1. ASSUME NEW o \in SuccessObjects(op) PROVE IsObj(o)
    BY Kinds DEF SuccessObjects
  <2>2. ASSUME NEW l \in SuccessLists(op) PROVE IsList(l)
    <3>1. \/ l = List(<<>>) \/ \E o \in SuccessObjects(op) : l = List(<<o>>)
          \/ \E o, o2 \in SuccessObjects(op) : l = List(<<o, o2>>)
      BY DEF SuccessLists
    <3>2. \E s : l = List(s)
      BY <3>1, Zenon
    <3> QED  BY <3>2, Kinds
  <2> QED  BY <1>1, <2>1, <2>2 DEF SuccessBodies
<1>3. Scalar(Text("", 0)) # Null
  BY DEF Null, Scalar, Text
<1>4. body # Null /\ ~IsObj(Null) /\ ~IsList(Null) /\ Null # ANY_VALUE
  BY <1>2, <1>3, Kinds DEF Null
<1>5. Null \in Documents /\ body \in Documents
  <2>1. Null \in Given /\ body \in Given
    BY DEF Given
  <2> QED  BY <2>1, GivenWhole DEF Whole
<1> QED  BY <1>4, <1>5, LeafAgrees

-----------------------------------------------------------------------------
(* The inductive invariant *)

\* Every rule of the operations that are done has its case.
Probed ==
  \A j \in DOMAIN spec.ops : j < at =>
    \A rule \in Rules(spec.ops[j]) :
      \E c \in cases : Breaking(c, j, StatusFor(rule), rule)

\* A case of the document expects what is to come, and has one fault, or none.
Fine(c) ==
  c.op \in DOMAIN spec.ops =>
    /\ Wants(c)
    /\ ValidKnown(c.op) /\ AsAsked(c) => OneFault(c)

\* The body of the valid request, if the case is made from one.
Base(c) == IF c.op = 0 THEN Empty ELSE Body(ValidRequest(c.op))

\* The case of a branch sends what the guard asks for, and wants its logger.
OfBranch(c) ==
  c.category = "branch_logic" =>
    /\ app # NoApp
    /\ \E b \in Branches(app, <<c.method, c.resource>>) :
         c.body = [json |-> BranchBody(Base(c), b)] /\ b.logger \in c.logs

GenInv ==
  /\ spec \in Specs /\ app \in Apps \cup {NoApp} /\ at \in 1..(Len(spec.ops) + 1)
  /\ pc \in {"building", "locating", "flows", "written"}
  /\ pc \in {"locating", "flows"} => at = 1 /\ app # NoApp
  /\ pc = "written" => at = Len(spec.ops) + 1 \/ \A c \in cases : c.op = 0
  /\ \A c \in cases : c.op \in {0} \cup DOMAIN spec.ops
  /\ Probed
  /\ \A c \in cases : Fine(c) /\ OfBranch(c)

\* What a case is depends on the document and the application alone.
LEMMA Unmoved ==
  ASSUME UNCHANGED <<spec, app>>, NEW c
  PROVE  (Faults(c) = Faults(c)') /\ (Fine(c) <=> Fine(c)') /\ (OfBranch(c) <=> OfBranch(c)')
<1>1. ASSUME NEW d PROVE Faults(d)' = Faults(d)
  BY DEF Faults
<1>2. ASSUME NEW i PROVE ValidRequest(i)' = ValidRequest(i)
  BY DEF ValidRequest
<1>4. ASSUME NEW d PROVE OneFault(d)' <=> OneFault(d)
  BY <1>1 DEF OneFault
<1>5. ASSUME NEW i PROVE ValidKnown(i)' <=> ValidKnown(i)
  BY <1>1, <1>2 DEF ValidKnown
<1>6. ASSUME NEW i PROVE GuardsAllowed(i)' <=> GuardsAllowed(i)
  BY DEF GuardsAllowed, Key
<1>3. ASSUME NEW d PROVE AsAsked(d)' <=> AsAsked(d)
  BY <1>1, <1>6 DEF AsAsked
<1>7. ASSUME NEW d PROVE Base(d)' = Base(d)
  BY <1>2 DEF Base
<1>8. Fine(c) <=> Fine(c)'
  <2>1. ASSUME NEW i PROVE Response(i)' = Response(i)
    BY DEF Response, Key
  <2>2. ASSUME NEW code PROVE ErrorExpected(code)' = ErrorExpected(code)
    BY DEF ErrorExpected
  <2>3. Wants(c)' <=> Wants(c)
    BY <2>1, <2>2 DEF Wants
  <2> QED  BY <1>3, <1>4, <1>5, <2>3 DEF Fine
<1>9. OfBranch(c) <=> OfBranch(c)'
  BY <1>7 DEF OfBranch
<1> QED  BY <1>1, <1>8, <1>9

\* The documents are known.
LEMMA SpecKnown ==
  ASSUME spec \in Specs
  PROVE  /\ Len(spec.ops) \in Nat /\ DOMAIN spec.ops = 1..Len(spec.ops)
         /\ \A i \in DOMAIN spec.ops : KnownOperation(spec.ops[i])
BY SpecsOK

\* The same case is as fine.
LEMMA SameFine ==
  ASSUME NEW c, NEW o, SameCase(c, o)
  PROVE  (OneFault(o) => OneFault(c)) /\ (AsAsked(c) <=> AsAsked(o))
<1>1. Faults(c) = Faults(o)
  BY FaultsOfRequest DEF SameCase
<1>2. c.op = o.op /\ c.category = o.category /\ c.status = o.status
  BY DEF SameCase, Sends, RequestFields
<1> QED  BY <1>1, <1>2 DEF OneFault, AsAsked

\* A case of an operation, as it is written.
LEMMA OperationCaseFine ==
  ASSUME NEW i, KnownOperation(spec.ops[i]), NEW o \in OperationCases(i), NEW c, SameCase(c, o),
         Wants(c)
  PROVE  c.op = i /\ Fine(c) /\ OfBranch(c)
<1>1. c.op = i /\ c.category # "branch_logic"
  BY OperationMade DEF SameCase, Sends, RequestFields
<1>2. ValidKnown(i) /\ AsAsked(c) => OneFault(c)
  BY OperationOneFault, SameFine
<1> QED  BY <1>1, <1>2 DEF Fine, OfBranch

\* The case of a branch of a flow that implements an operation.
LEMMA BranchCaseFine ==
  ASSUME NEW i, i # 0, KnownOperation(spec.ops[i]), app # NoApp, NEW c \in BranchCases(i)
  PROVE  c.op = i /\ Fine(c) /\ OfBranch(c)
<1> DEFINE r == ValidRequest(i)
           op == spec.ops[i]
<1>1. PICK b \in Branches(app, Key(i)) :
        /\ c.op = i /\ c.method = r.method /\ c.resource = r.resource /\ c.path = r.path
        /\ c.query = r.query /\ c.header = r.header /\ c.content = r.content
        /\ c.auth = r.auth /\ c.body = [json |-> BranchBody(Body(r), b)]
        /\ c.category = "branch_logic" /\ c.status = op.success.status
        /\ b.logger \in c.logs
        /\ c.mode = "json_subset"
        /\ c.expected = IF FlowResponse(app, Key(i)) = Empty THEN Null
                        ELSE AsDoc(FlowResponse(app, Key(i)))
  BY BranchSends
<1>2. OfBranch(c)
  <2>1. <<c.method, c.resource>> = Key(i)
    BY <1>1, ValidFields DEF Key
  <2>2. Base(c) = Body(r)
    BY <1>1 DEF Base
  <2> HIDE DEF r
  <2> QED  BY <1>1, <2>1, <2>2 DEF OfBranch
<1>3. ASSUME ValidKnown(i), GuardsAllowed(i) PROVE OneFault(c)
  <2>1. Faults(r) = {} /\ r.auth = "none" /\ r.op = i
    BY <1>3, ValidFields DEF ValidKnown
  <2>2. c.status < 400
    BY <1>1, StatusKnown
  <2> DEFINE d == BranchBody(Body(r), b)
  <2>3. ASSUME HasBody(op) PROVE BodyFaults(op, c) = {}
    <3>1. r.body = [json |-> Baseline(op)] /\ r.content = "json"
      BY <2>3, ValidFields
    <3>2. Body(r) = Baseline(op)
      BY <3>1 DEF Body
    <3>3. BodyFaults(op, r) = {}
      BY <2>1, <2>3, Fault
    <3> HIDE DEF r
    <3>4. /\ c.content # "text" /\ "raw" \notin DOMAIN c.body /\ c.body.json = d
          /\ r.content # "text" /\ "raw" \notin DOMAIN r.body /\ r.body.json = Body(r)
      BY <1>1, <3>1, <3>2
    <3>5. CASE b.guard # "equals"
      <4>1. c.body = r.body /\ c.content = r.content
        BY <1>1, <3>1, <3>2, <3>5 DEF BranchBody
      <4>2. BodyFaults(op, c) = BodyFaults(op, r)
        BY <4>1 DEF BodyFaults
      <4> QED  BY <3>3, <4>2
    <3>6. CASE b.guard = "equals"
      <4>1. d = Put(Body(r), b.field, b.value)
        BY <3>6 DEF BranchBody
      <4>2. b.field \in DOMAIN op.body.fields /\ Breaks(b.value, op.body.fields[b.field]) = {}
        BY <1>3, <2>3, <3>6 DEF GuardsAllowed
      <4>3. SameBut(d, Body(r), b.field) /\ b.field \in DOMAIN d /\ d[b.field] = b.value
        BY <4>1, PutOne
      <4> QED  BY <3>3, <3>4, <4>2, <4>3, FieldFine
    <3> QED  BY <3>5, <3>6
  <2>4. Faults(c) = {}
    <3>1. ASSUME NEW f \in Faults(c) PROVE FALSE
      <4>1. \/ c.header = Empty /\ f \in HeadersMissing(op)
            \/ HasBody(op) /\ f \in BodyFaults(op, c)
        BY <1>1, <2>1, <3>1, BodyLocal
      <4>2. r.header = Empty => HeadersMissing(op) = {}
        BY DEF ValidRequest, ValidValues, HeadersMissing, Empty
      <4> QED  BY <1>1, <2>3, <4>1, <4>2
    <3> QED  BY <3>1
  <2> QED  BY <2>2, <2>4 DEF OneFault
<1>4. Wants(c)
  BY <1>1 DEF Wants, Response
<1>5. AsAsked(c) => GuardsAllowed(i)
  BY <1>1 DEF AsAsked
<1> QED  BY <1>1, <1>2, <1>3, <1>4, <1>5 DEF Fine

LEMMA GenInvInit == Init => GenInv
<1> SUFFICES ASSUME Init PROVE GenInv
  OBVIOUS
<1>1. Len(spec.ops) \in Nat
  BY SpecKnown DEF Init
<1> QED  BY <1>1 DEF Init, GenInv, Probed

\* A step that adds no case.
LEMMA NothingAdded ==
  ASSUME GenInv, UNCHANGED <<spec, app, at, cases>>
  PROVE  /\ \A c \in cases' : c.op \in {0} \cup DOMAIN spec'.ops
         /\ Probed' /\ \A c \in cases' : Fine(c)' /\ OfBranch(c)'
<1>1. Probed'
  <2>1. \A c : Faults(c)' = Faults(c)
    BY Unmoved
  <2> QED  BY <2>1 DEF GenInv, Probed, Breaking, MadeFor
<1>2. \A c \in cases' : Fine(c)' /\ OfBranch(c)'
  BY Unmoved DEF GenInv
<1> QED  BY <1>1, <1>2 DEF GenInv

\* _build_operation, and _apply_mule after it.
LEMMA BuildKeeps ==
  ASSUME GenInv, BuildOperation
  PROVE  GenInv'
<1>1. /\ pc = "building" /\ at \in DOMAIN spec.ops /\ at' = at + 1 /\ UNCHANGED <<pc, spec, app>>
      /\ cases' = cases \cup IF app = NoApp THEN OperationCases(at)
                             ELSE {Overlaid(c, at) : c \in OperationCases(at)} \cup BranchCases(at)
  BY DEF BuildOperation
<1>2. /\ Len(spec.ops) \in Nat /\ DOMAIN spec.ops = 1..Len(spec.ops) /\ at \in Nat
      /\ KnownOperation(spec.ops[at]) /\ at # 0
  BY <1>1, SpecKnown DEF GenInv
<1>3. ASSUME NEW o \in OperationCases(at) PROVE SameCase(o, o) /\ SameCase(Overlaid(o, at), o)
  BY <1>2, OperationMade, OverlaidSame DEF SameCase, Sends
<1>4. \A o \in OperationCases(at) : \E c \in cases' : SameCase(c, o)
  BY <1>1, <1>3
<1>5. ASSUME NEW c \in cases', c \notin cases
      PROVE  c.op = at /\ Fine(c) /\ OfBranch(c)
  <2>1. CASE \E o \in OperationCases(at) : SameCase(c, o) /\ Wants(c)
    BY <1>2, <2>1, OperationCaseFine
  <2>2. CASE app # NoApp /\ c \in BranchCases(at)
    BY <1>2, <2>2, BranchCaseFine
  <2> QED  BY <1>1, <1>2, <1>3, <1>5, <2>1, <2>2, OperationWants
<1>6. \A c \in cases' : Fine(c)' /\ OfBranch(c)'
  BY <1>1, <1>5, Unmoved DEF GenInv
<1>7. \A c \in cases' : c.op \in {0} \cup DOMAIN spec'.ops
  BY <1>1, <1>5 DEF GenInv
<1>8. Probed'
  <2> SUFFICES ASSUME NEW j \in DOMAIN spec.ops, j < at + 1, NEW rule \in Rules(spec.ops[j])
               PROVE  \E c \in cases' : Breaking(c, j, StatusFor(rule), rule)
    <3>1. \A c : Faults(c)' = Faults(c)
      BY <1>1, Unmoved
    <3> QED  BY <1>1, <3>1 DEF Probed, Breaking, MadeFor
  <2>1. CASE j < at
    BY <1>1, <2>1 DEF GenInv, Probed
  <2>2. CASE j = at
    <3>1. PICK o \in OperationCases(at) : Breaking(o, at, StatusFor(rule), rule)
      BY <1>2, <2>2, RuleProbed
    <3>2. PICK c \in cases' : SameCase(c, o)
      BY <1>4
    <3>3. /\ c.op = o.op /\ c.status = o.status /\ Faults(c) = Faults(o)
          /\ c.category = o.category
      BY <3>2, FaultsOfRequest DEF SameCase, Sends, RequestFields
    <3> QED  BY <2>2, <3>1, <3>3 DEF Breaking, MadeFor
  <2> QED  BY <1>2, <2>1, <2>2
<1> QED
  BY <1>1, <1>2, <1>6, <1>7, <1>8 DEF GenInv

\* The valid request of a get is a plain one, with its URL.
LEMMA ValidGetFields == DOMAIN ValidGet = RequestFields /\ ValidGet.op = 0
<1> DEFINE get == PlainRequest(OfMethod("GET")[1])
           known == {i \in DOMAIN spec.ops : Key(i) = <<get.method, get.resource>>}
           r == ValidRequest(CHOOSE i \in known : TRUE)
<1>1. DOMAIN get = RequestFields /\ get.op = 0
  BY PlainFields
<1>2. ValidGet = IF known = {} THEN get ELSE [get EXCEPT !.path = r.path, !.query = r.query]
  BY DEF ValidGet
<1> HIDE DEF get, known, r
<1> QED  BY <1>1, <1>2 DEF RequestFields

\* _framework_error_cases.
LEMMA FrameworkKeeps ==
  ASSUME GenInv, FrameworkErrorCases
  PROVE  GenInv'
<1>1. /\ pc = "building" /\ at \notin DOMAIN spec.ops /\ app # NoApp /\ pc' = "written"
      /\ cases' = cases \cup RouterFailures(ValidGet) /\ UNCHANGED <<spec, app, at>>
  BY DEF FrameworkErrorCases
<1>2. Len(spec.ops) \in Nat /\ DOMAIN spec.ops = 1..Len(spec.ops) /\ at = Len(spec.ops) + 1
  BY <1>1, SpecKnown DEF GenInv
<1>3. ASSUME NEW c \in cases', c \notin cases
      PROVE  c.op = 0 /\ Fine(c) /\ OfBranch(c)
  <2>1. c.op = 0 /\ c.category # "branch_logic"
    BY <1>1, <1>3, ValidGetFields, RouterMade
  <2> QED  BY <1>2, <2>1 DEF Fine, OfBranch
<1>4. \A c \in cases' : Fine(c)' /\ OfBranch(c)'
  BY <1>1, <1>3, Unmoved DEF GenInv
<1>5. \A c \in cases' : c.op \in {0} \cup DOMAIN spec'.ops
  BY <1>1, <1>3 DEF GenInv
<1>6. Probed'
  <2>1. \A c : Faults(c)' = Faults(c)
    BY <1>1, Unmoved
  <2> QED  BY <1>1, <2>1 DEF GenInv, Probed, Breaking, MadeFor
<1> QED  BY <1>1, <1>2, <1>4, <1>5, <1>6 DEF GenInv

\* A case of an endpoint, without a document.
LEMMA EndpointCaseFine ==
  ASSUME NEW key, key = <<key[1], key[2]>>, app # NoApp, NEW c \in EndpointCases(key)
  PROVE  c.op = 0 /\ OfBranch(c)
<1> DEFINE status == IF key[1] = "POST" THEN 201 ELSE 200
           json == key[1] \in {"POST", "PUT", "PATCH"}
           r == [PlainRequest(key) EXCEPT !.content = IF json THEN "json" ELSE "none"]
           loggers == FlowLoggers(app, key)
           response == FlowResponse(app, key)
           Sent(body) == [r EXCEPT !.body = body]
<1>1. \/ \E b \in Branches(app, key) :
            c = Flow(Sent([json |-> BranchBody(Empty, b)]), "branch_logic", status, response,
                     loggers \cup {b.logger})
      \/ \E body : c = Flow(Sent(body), "positive", status, response, loggers)
  <2> DEFINE last == IF json THEN [json |-> Empty] ELSE r.body
  <2>1. EndpointCases(key) =
          IF Branches(app, key) # {}
          THEN {Flow(Sent([json |-> BranchBody(Empty, b)]), "branch_logic", status, response,
                     loggers \cup {b.logger}) : b \in Branches(app, key)}
          ELSE {Flow(Sent(last), "positive", status, response, loggers)}
    BY DEF EndpointCases
  <2> HIDE DEF Sent, last, status, loggers, response
  <2> QED  BY <2>1
<1>2. DOMAIN r = RequestFields /\ r.op = 0 /\ r.method = key[1] /\ r.resource = key[2]
  BY PlainFields DEF RequestFields
<1> HIDE DEF r, status, loggers, response
<1>3. ASSUME NEW body
      PROVE  /\ DOMAIN Sent(body) = RequestFields /\ Sent(body).op = 0 /\ Sent(body).body = body
             /\ Sent(body).method = key[1] /\ Sent(body).resource = key[2]
  BY <1>2 DEF RequestFields
<1> HIDE DEF Sent
<1>4. ASSUME NEW b \in Branches(app, key),
             c = Flow(Sent([json |-> BranchBody(Empty, b)]), "branch_logic", status, response,
                      loggers \cup {b.logger})
      PROVE  c.op = 0 /\ OfBranch(c)
  <2> DEFINE q == Sent([json |-> BranchBody(Empty, b)])
  <2>1. /\ DOMAIN q = RequestFields /\ q.op = 0 /\ q.body = [json |-> BranchBody(Empty, b)]
        /\ q.method = key[1] /\ q.resource = key[2]
    BY <1>3
  <2> HIDE DEF q
  <2>2. Sends(c, q) /\ c.logs = loggers \cup {b.logger}
    BY <1>4, <2>1, FlowAdded DEF q
  <2>3. /\ c.op = 0 /\ c.body = [json |-> BranchBody(Empty, b)]
        /\ c.method = key[1] /\ c.resource = key[2] /\ b.logger \in c.logs
    BY <2>1, <2>2 DEF Sends, RequestFields
  <2>4. <<c.method, c.resource>> = key /\ Base(c) = Empty
    BY <2>3 DEF Base
  <2> QED  BY <2>3, <2>4 DEF OfBranch
<1>5. ASSUME NEW body, c = Flow(Sent(body), "positive", status, response, loggers)
      PROVE  c.op = 0 /\ OfBranch(c)
  <2> DEFINE q == Sent(body)
  <2>1. DOMAIN q = RequestFields /\ q.op = 0
    BY <1>3
  <2> HIDE DEF q
  <2>2. Sends(c, q) /\ c.category = "positive"
    BY <1>5, <2>1, FlowAdded DEF q
  <2> QED  BY <2>1, <2>2 DEF Sends, RequestFields, OfBranch
<1> QED  BY <1>1, <1>4, <1>5

\* _flow_cases.
LEMMA FlowKeeps ==
  ASSUME GenInv, FlowCases
  PROVE  GenInv'
<1> DEFINE get == PlainRequest(OfMethod("GET")[1])
<1>1. /\ pc = "flows" /\ pc' = "written" /\ UNCHANGED <<spec, app, at>>
      /\ cases' = (UNION {EndpointCases(key) : key \in Keys(app)}) \cup PostFailures
                  \cup RouterFailures(get)
  BY DEF FlowCases
<1>2. at = 1 /\ app # NoApp /\ app \in Apps
  BY <1>1 DEF GenInv
<1>3. ASSUME NEW c \in cases' PROVE c.op = 0 /\ OfBranch(c)
  <2>1. ASSUME NEW key \in Keys(app), c \in EndpointCases(key) PROVE c.op = 0 /\ OfBranch(c)
    <3>1. key = <<key[1], key[2]>>
      BY <1>2, AppsOK DEF Keys
    <3> QED  BY <1>2, <2>1, <3>1, EndpointCaseFine
  <2>2. ASSUME c \in PostFailures PROVE c.op = 0 /\ OfBranch(c)
    <3> DEFINE post == PlainRequest(OfMethod("POST")[1])
               plain == [post EXCEPT !.content = "text", !.body = [raw |-> "plain"]]
               malformed == [post EXCEPT !.content = "json", !.body = [raw |-> "malformed"]]
    <3>1. DOMAIN post = RequestFields /\ post.op = 0
      BY PlainFields
    <3>2. c \in Failure(plain, "media_type", 415) \/ c \in Failure(malformed, "bad_request", 400)
      BY <2>2 DEF PostFailures
    <3> HIDE DEF post
    <3>3. /\ DOMAIN plain = RequestFields /\ plain.op = 0
          /\ DOMAIN malformed = RequestFields /\ malformed.op = 0
      BY <3>1 DEF RequestFields
    <3> HIDE DEF plain, malformed
    <3>4. c.op = 0 /\ c.category # "branch_logic"
      BY <3>2, <3>3, FailureMade
    <3> QED  BY <3>4 DEF OfBranch
  <2>3. ASSUME c \in RouterFailures(get) PROVE c.op = 0 /\ OfBranch(c)
    <3>1. DOMAIN get = RequestFields /\ get.op = 0
      BY PlainFields
    <3> HIDE DEF get
    <3>2. c.op = 0 /\ c.category # "branch_logic"
      BY <2>3, <3>1, RouterMade
    <3> QED  BY <3>2 DEF OfBranch
  <2> QED  BY <1>1, <2>1, <2>2, <2>3
<1>4. Len(spec.ops) \in Nat /\ DOMAIN spec.ops = 1..Len(spec.ops)
  BY SpecKnown DEF GenInv
<1>5. \A c \in cases' : Fine(c)' /\ OfBranch(c)'
  <2>1. \A c \in cases' : Fine(c)
    BY <1>3, <1>4 DEF Fine
  <2> QED  BY <1>1, <1>3, <2>1, Unmoved
<1>6. Probed'
  BY <1>1, <1>2, <1>4 DEF Probed
<1> QED  BY <1>1, <1>2, <1>3, <1>5, <1>6 DEF GenInv

LEMMA GenInvNext == GenInv /\ [Next]_vars => GenInv'
<1> SUFFICES ASSUME GenInv, [Next]_vars PROVE GenInv'
  OBVIOUS
<1>1. CASE LocateOas
  BY <1>1, NothingAdded DEF LocateOas, GenInv
<1>2. CASE BuildOperation
  BY <1>2, BuildKeeps
<1>3. CASE FrameworkErrorCases
  BY <1>3, FrameworkKeeps
<1>4. CASE FlowCases
  BY <1>4, FlowKeeps
<1>5. CASE WriteSheet
  <2>1. DOMAIN spec.ops = 1..Len(spec.ops) /\ Len(spec.ops) \in Nat
    BY SpecKnown DEF GenInv
  <2>2. at = Len(spec.ops) + 1
    BY <1>5, <2>1 DEF WriteSheet, GenInv
  <2> QED  BY <1>5, <2>2, NothingAdded DEF WriteSheet, GenInv
<1>6. CASE UNCHANGED vars
  BY <1>6, NothingAdded DEF vars, GenInv
<1> QED  BY <1>1, <1>2, <1>3, <1>4, <1>5, <1>6 DEF Next

THEOREM GenInvariance == Spec => []GenInv
BY GenInvInit, GenInvNext, PTL DEF Spec

-----------------------------------------------------------------------------
(* What a flow sets *)

\* Of a set of places that is not empty one is the last.
LEMMA LastPlace ==
  ASSUME NEW n \in Nat, NEW S, S \subseteq 1..n, S # {}
  PROVE  Max(S) \in S
<1> DEFINE order == {p \in Nat \X Nat : p[1] < p[2]}
           T == {n - k : k \in S}
<1>1. IsWellFoundedOn(order, Nat)
  <2>1. order = OpToRel(<, Nat)
    BY DEF OpToRel
  <2> QED  BY <2>1, NatLessThanWellFounded
<1>2. T \subseteq Nat /\ T # {}
  <2>1. ASSUME NEW k \in S PROVE n - k \in Nat
    <3>1. k \in 1..n
      OBVIOUS
    <3> QED  BY <3>1
  <2> QED  BY <2>1
<1> HIDE DEF T, order
<1>3. PICK m \in T : \A k \in T : ~ <<k, m>> \in order
  BY <1>1, <1>2, WFMin
<1>4. PICK x \in S : m = n - x
  BY DEF T
<1>5. ASSUME NEW y \in S PROVE x >= y
  <2>1. n - y \in T /\ n - y \in Nat /\ n - x \in Nat
    BY DEF T
  <2>2. ~(n - y < n - x)
    BY <1>3, <1>4, <2>1 DEF order
  <2> QED  BY <2>2
<1> QED  BY <1>5 DEF Max

\* If all that the flows of an endpoint set is one payload, it is the response.
LEMMA FlowSets ==
  ASSUME app \in Apps, NEW i, OnePayload(i), app # NoApp
  PROVE  LET fs == Implementing(app, Key(i))
             response == FlowResponse(app, Key(i))
         IN  /\ response = Empty => \A f \in fs : f.payload = <<>>
             /\ response # Empty =>
                  fs # {} /\ \A f \in fs : f.payload # <<>> /\ f.payload[1] = response
<1> DEFINE key == Key(i)
           fs == Implementing(app, key)
           answering == {n \in DOMAIN app.flows : /\ app.flows[n].key = key
                                                  /\ ImplFlowResponse(app.flows[n]) # Empty}
           response == FlowResponse(app, key)
<1>1. \A f, g \in fs : /\ f.payload = g.payload /\ f.payload # <<Empty>>
                       /\ \A arm \in Range(f.choice) : arm.payload = <<>>
  BY DEF OnePayload
<1>2. /\ Len(app.flows) \in Nat /\ DOMAIN app.flows = 1..Len(app.flows)
      /\ \A f \in Range(app.flows) : f.payload # <<>> => f.payload = <<f.payload[1]>>
  BY AppsOK
<1>3. ASSUME NEW f \in fs
      PROVE  /\ f.payload = <<>> => ImplFlowResponse(f) = Empty
             /\ f.payload # <<>> => ImplFlowResponse(f) = f.payload[1] /\ f.payload[1] # Empty
  <2> DEFINE arms == {n \in DOMAIN f.choice : f.choice[n].payload # <<>>}
  <2>1. arms = {}
    BY <1>1 DEF Range
  <2>2. f.payload # <<>> => f.payload[1] # Empty
    BY <1>1, <1>2 DEF Implementing
  <2>3. ImplFlowResponse(f) = CASE f.payload # <<>> -> f.payload[1]
                                [] f.payload = <<>> /\ arms # {} -> f.choice[Min(arms)].payload[1]
                                [] OTHER -> Empty
    BY DEF ImplFlowResponse
  <2> HIDE DEF arms
  <2>4. f.payload = <<>> => ImplFlowResponse(f) = Empty
    BY <2>1, <2>3, Zenon
  <2>5. f.payload # <<>> => ImplFlowResponse(f) = f.payload[1]
    BY <2>3, Zenon
  <2> QED  BY <2>2, <2>4, <2>5
<1>4. \A n \in DOMAIN app.flows : app.flows[n].key = key => app.flows[n] \in fs
  BY DEF Implementing, Range
<1>5. \A f \in fs : \E n \in DOMAIN app.flows : f = app.flows[n] /\ app.flows[n].key = key
  BY DEF Implementing, Range
<1>6. response = IF answering = {} THEN Empty ELSE ImplFlowResponse(app.flows[Max(answering)])
  BY DEF FlowResponse
<1>7. CASE answering = {}
  <2>1. ASSUME NEW f \in fs PROVE f.payload = <<>>
    BY <1>3, <1>5, <1>7
  <2> QED  BY <1>6, <1>7, <2>1
<1>8. CASE answering # {}
  <2>1. Max(answering) \in answering
    BY <1>2, <1>8, LastPlace
  <2> DEFINE g == app.flows[Max(answering)]
  <2>2. g \in fs /\ ImplFlowResponse(g) # Empty
    BY <1>4, <2>1
  <2>3. response = ImplFlowResponse(g)
    BY <1>6, <1>8
  <2> HIDE DEF g, response, answering, fs
  <2>4. g.payload # <<>> /\ response = g.payload[1] /\ response # Empty
    BY <1>3, <2>2, <2>3
  <2>5. \A f \in fs : f.payload = g.payload
    BY <1>1, <2>2
  <2> QED  BY <2>2, <2>4, <2>5 DEF response, fs
<1> QED  BY <1>7, <1>8

\* So the API that implements the document answers with it, or with what is
\* declared where there is none.
LEMMA FlowAnswers ==
  ASSUME app \in Apps \cup {NoApp}, NEW c, OnePayload(c.op), NEW body \in Success(c)
  PROVE  /\ Response(c.op) = Empty => body \in SuccessBodies(spec.ops[c.op])
         /\ Response(c.op) # Empty => body = AsDoc(Response(c.op)) /\ AsDoc(Response(c.op)) \in Given
<1> DEFINE fs == Implementing(app, Key(c.op))
           op == spec.ops[c.op]
<1>1. CASE app = NoApp
  BY <1>1 DEF Success, Response
<1>2. CASE app # NoApp
  <2>1. Response(c.op) = FlowResponse(app, Key(c.op)) /\ app \in Apps
    BY <1>2 DEF Response
  <2>2. /\ Response(c.op) = Empty => \A f \in fs : f.payload = <<>>
        /\ Response(c.op) # Empty =>
             fs # {} /\ \A f \in fs : f.payload # <<>> /\ f.payload[1] = Response(c.op)
    BY <1>2, <2>1, FlowSets
  <2>3. CASE fs = {}
    BY <2>2, <2>3 DEF Success
  <2>4. CASE fs # {}
    <3>1. PICK f \in fs : body \in FlowBodies(f, c)
      BY <1>2, <2>4 DEF Success
    <3> DEFINE chosen == {arm.payload : arm \in Taken(f.choice, Body(c))} \ {<<>>}
               set == IF chosen = {} THEN {f.payload} \ {<<>>} ELSE chosen
    <3>2. chosen = {}
      <4>1. \A arm \in Taken(f.choice, Body(c)) : arm \in Range(f.choice)
        BY DEF Taken, Range
      <4>2. \A arm \in Range(f.choice) : arm.payload = <<>>
        BY <1>2 DEF OnePayload
      <4> QED  BY <4>1, <4>2
    <3>3. body \in IF set = {} THEN SuccessBodies(op) ELSE {AsDoc(payload[1]) : payload \in set}
      BY <3>1 DEF FlowBodies
    <3> HIDE DEF chosen
    <3>4. set = {f.payload} \ {<<>>}
      BY <3>2
    <3> HIDE DEF set
    <3>5. CASE Response(c.op) = Empty
      <4>1. set = {}
        BY <2>2, <3>4, <3>5
      <4> QED  BY <3>3, <3>5, <4>1
    <3>6. CASE Response(c.op) # Empty
      <4>1. set = {f.payload} /\ f.payload # <<>> /\ f.payload[1] = Response(c.op)
        BY <2>2, <3>4, <3>6
      <4>2. body = AsDoc(f.payload[1])
        BY <3>3, <4>1
      <4>3. f.payload \in Set \ {<<>>}
        BY <2>1, <4>1 DEF Set, Implementing
      <4>4. AsDoc(f.payload[1]) \in Given
        BY <4>3 DEF Given
      <4> QED  BY <3>6, <4>1, <4>2, <4>4
    <3> QED  BY <3>5, <3>6
  <2> QED  BY <2>3, <2>4
<1> QED  BY <1>1, <1>2

\* The positive cases pass.
LEMMA SuccessPasses ==
  ASSUME app \in Apps \cup {NoApp}, NEW c, OnePayload(c.op), KnownOperation(spec.ops[c.op]),
         spec.ops[c.op] \in Operations, NEW body \in Success(c),
         c.expected = IF Response(c.op) # Empty THEN AsDoc(Response(c.op))
                      ELSE IF c.category = "branch_logic" THEN Null
                      ELSE SuccessExpected(spec.ops[c.op])
  PROVE  compare(c.expected, body, TRUE) = {} <=> c.expected # Null
<1> DEFINE op == spec.ops[c.op]
<1>1. /\ Response(c.op) = Empty => body \in SuccessBodies(op)
      /\ Response(c.op) # Empty => body = AsDoc(Response(c.op)) /\ AsDoc(Response(c.op)) \in Given
  BY FlowAnswers
<1>2. CASE Response(c.op) # Empty
  <2>1. c.expected = AsDoc(Response(c.op)) /\ body = c.expected
    BY <1>1, <1>2
  <2>2. PICK f : f = Response(c.op)
    OBVIOUS
  <2>3. compare(AsDoc(f), AsDoc(f), TRUE) = {} /\ AsDoc(f) # Null
    BY <1>1, <1>2, <2>2, SetAgrees
  <2> QED  BY <2>1, <2>2, <2>3
<1>3. CASE Response(c.op) = Empty /\ c.category = "branch_logic"
  <2>1. compare(Null, body, TRUE) # {}
    BY <1>1, <1>3, NullDisagrees
  <2> QED  BY <1>3, <2>1
<1>4. CASE Response(c.op) = Empty /\ c.category # "branch_logic"
  <2>1. compare(SuccessExpected(op), body, TRUE) = {} <=> SuccessExpected(op) # Null
    BY <1>1, <1>4, SuccessAgrees
  <2> QED  BY <1>4, <2>1
<1> QED  BY <1>2, <1>3, <1>4

\* The negative cases do.
LEMMA FailurePasses ==
  ASSUME spec \in Specs, app \in Apps \cup {NoApp}, NEW status \in Failures
  PROVE  LET expected == IF app # NoApp /\ status \in DOMAIN ErrorEnvelope(app)
                         THEN AsDoc(ErrorEnvelope(app)[status]) ELSE ErrorExpected(status)
         IN  compare(expected, Error(status), TRUE) = {} /\ expected # Null
<1>1. CASE app # NoApp /\ status \in DOMAIN ErrorEnvelope(app)
  <2> DEFINE f == ErrorEnvelope(app)[status]
  <2>1. f \in UNION {Range(ErrorEnvelope(a)) : a \in Apps}
    BY <1>1 DEF Range
  <2>2. AsDoc(f) \in Given
    BY <2>1 DEF Given
  <2>3. Error(status) = AsDoc(f)
    BY <1>1 DEF Error
  <2>4. PICK g : g = f
    OBVIOUS
  <2>5. compare(AsDoc(g), AsDoc(g), TRUE) = {} /\ AsDoc(g) # Null
    BY <2>2, <2>4, SetAgrees
  <2> QED  BY <1>1, <2>3, <2>4, <2>5
<1>2. CASE ~(app # NoApp /\ status \in DOMAIN ErrorEnvelope(app))
  <2>1. Error(status) = Filled(ErrorExpected(status))
    BY <1>2 DEF Error
  <2>2. ErrorExpected(status) = ErrorBody(spec.errors, status)
    BY DEF ErrorExpected
  <2>3. LET e == ErrorBody(spec.errors, status) IN compare(e, Filled(e), TRUE) = {} /\ e # Null
    BY FailureAgrees
  <2> QED  BY <1>2, <2>1, <2>2, <2>3
<1> QED  BY <1>1, <1>2

-----------------------------------------------------------------------------
(* What a generated suite is for *)

\* For every rule of an operation of any document, but those hidden by headers
\* that are not sent, there is a case that expects the status for it, breaks it
\* and is wrong in no other place.
THEOREM EveryRule == Spec => []EveryRuleProbed
<1>1. ASSUME GenInv PROVE EveryRuleProbed
  <2> SUFFICES ASSUME Written # {}, NEW i \in DOMAIN spec.ops, ValidKnown(i),
                      NEW rule \in Rules(spec.ops[i]), ~Hidden(spec.ops[i], rule)
               PROVE  \E c \in Written :
                        /\ c.op = i /\ c.status = StatusFor(rule) /\ rule \in Faults(c)
                        /\ \A f \in Faults(c) : f[1] = rule[1] /\ f[2] = rule[2]
    BY DEF EveryRuleProbed
  <2>1. pc = "written" /\ Written = {c \in cases : c.op # 0}
    BY DEF Written
  <2>2. Len(spec.ops) \in Nat /\ DOMAIN spec.ops = 1..Len(spec.ops) /\ at = Len(spec.ops) + 1
    BY <1>1, <2>1, SpecKnown DEF GenInv
  <2>3. PICK c \in cases : Breaking(c, i, StatusFor(rule), rule)
    <3>1. Probed /\ i < at
      BY <1>1, <2>2 DEF GenInv
    <3> QED  BY <3>1 DEF Probed
  <2>4. c.op = i /\ c.status = StatusFor(rule) /\ rule \in Faults(c) /\ MadeFor(c, rule)
    BY <2>3 DEF Breaking
  <2>5. c \in Written
    BY <2>1, <2>2, <2>4
  <2>6. AsAsked(c)
    <3>1. rule[1] \in Places \cup {"body", "content"}
      BY <1>1, SpecKnown, RulePlace DEF GenInv
    <3>2. rule[1] \notin Places => RequiredHeaders(spec.ops[i]) = {}
      BY <3>1 DEF Hidden, Places
    <3> QED  BY <2>4, <3>2 DEF AsAsked, MadeFor
  <2>7. OneFault(c) /\ ~(c.status < 400)
    <3>1. OneFault(c)
      BY <1>1, <2>4, <2>6 DEF GenInv, Fine
    <3>2. StatusFor(rule) \in {400, 401, 404, 415}
      BY DEF StatusFor
    <3> QED  BY <2>4, <3>1, <3>2
  <2>8. PICK place, name : \A f \in Faults(c) : f[1] = place /\ f[2] = name
    BY <2>7 DEF OneFault
  <2> QED  BY <2>4, <2>5, <2>8
<1> QED  BY <1>1, GenInvariance, PTL

\* Of the cases that are as asked, whatever is wrong with a negative is wrong
\* in one place, and nothing is with a positive.
THEOREM OneFaultEach == Spec => []OneFaultPerCase
<1>1. ASSUME GenInv PROVE OneFaultPerCase
  <2> SUFFICES ASSUME NEW c \in Written, ValidKnown(c.op) /\ AsAsked(c)
               PROVE  Cardinality({<<f[1], f[2]>> : f \in Faults(c)})
                        = IF c.status < 400 THEN 0 ELSE 1
    BY DEF OneFaultPerCase
  <2>1. c \in cases /\ c.op # 0
    BY DEF Written
  <2>2. OneFault(c)
    BY <1>1, <2>1 DEF GenInv, Fine
  <2> QED  BY <2>2, Counted
<1> QED  BY <1>1, GenInvariance, PTL

\* The case of a branch takes that branch.
THEOREM BranchReached == Spec => []BranchesReached
<1>1. ASSUME GenInv PROVE BranchesReached
  <2> SUFFICES ASSUME app # NoApp, NEW c \in cases, c.category = "branch_logic",
                      NEW f \in Implementing(app, <<c.method, c.resource>>),
                      Plain(f, <<c.method, c.resource>>),
                      \A arm \in Range(f.choice) : arm.guard = "equals" => ~Fires(arm, Base(c)),
                      NEW arm \in Taken(f.choice, Body(c))
               PROVE  arm.logger \in c.logs
    BY DEF BranchesReached, Base
  <2> DEFINE key == <<c.method, c.resource>>
             asks(k) == [guard |-> f.choice[k].guard, field |-> f.choice[k].field,
                         value |-> f.choice[k].value]
             Own(a) == a.guard = "equals" => ~Fires(a, Base(c))
  <2>1. PICK b \in Branches(app, key) :
               c.body = [json |-> BranchBody(Base(c), b)] /\ b.logger \in c.logs
    BY <1>1 DEF GenInv, OfBranch
  <2>2. f \in Range(app.flows) /\ DOMAIN f.choice \subseteq Nat
    BY <1>1, AppsOK DEF GenInv, Implementing
  <2>3. Implementing(app, key) = {f} /\ b.guard \in {"equals", "otherwise"}
    BY DEF Plain, Branches
  <2>4. PICK n \in DOMAIN f.choice : b = f.choice[n]
    BY <2>3 DEF Branches, Range
  <2>5. \A k, m \in DOMAIN f.choice : k # m => asks(k) # asks(m)
    BY DEF Plain
  <2>6. \A k, m \in DOMAIN f.choice : k < m => f.choice[k].guard # "otherwise"
    BY DEF Plain
  <2>7. \A k \in DOMAIN f.choice : Own(f.choice[k])
    BY DEF Range
  <2> DEFINE sent == BranchBody(Base(c), b)
  <2>8. Body(c) = sent
    BY <2>1 DEF Body
  <2>9. PICK t \in DOMAIN f.choice :
               /\ arm = f.choice[t] /\ Fires(f.choice[t], sent)
               /\ \A m \in DOMAIN f.choice : m < t => ~Fires(f.choice[m], sent)
    BY <2>8 DEF Taken
  <2>10. Fires(b, sent)
    <3>1. CASE b.guard = "otherwise"
      BY <3>1 DEF Fires
    <3>2. CASE b.guard = "equals"
      <4>1. sent = Put(Base(c), b.field, b.value)
        BY <3>2 DEF BranchBody
      <4>2. b.field \in DOMAIN sent /\ sent[b.field] = b.value
        BY <4>1, PutOne
      <4> QED  BY <3>2, <4>2 DEF Fires
    <3> QED  BY <2>3, <3>1, <3>2
  <2>11. ASSUME NEW k \in DOMAIN f.choice, f.choice[k].guard = "equals", k # n
         PROVE  ~Fires(f.choice[k], sent)
    <3> DEFINE a == f.choice[k]
    <3>1. ~Fires(a, Base(c))
      BY <2>7, <2>11
    <3>2. CASE b.guard = "otherwise"
      BY <3>1, <3>2 DEF BranchBody
    <3>3. CASE b.guard = "equals"
      <4>1. sent = Put(Base(c), b.field, b.value)
        BY <3>3 DEF BranchBody
      <4>2. /\ b.field \in DOMAIN sent /\ sent[b.field] = b.value
            /\ SameBut(sent, Base(c), b.field)
        BY <4>1, PutOne
      <4>3. ~(a.field = b.field /\ a.value = b.value)
        <5>1. asks(k) # asks(n)
          BY <2>5, <2>11
        <5> QED  BY <2>4, <2>11, <3>3, <5>1
      <4>4. a.guard = "equals"
        BY <2>11
      <4> HIDE DEF sent
      <4>5. a.field = b.field => ~Fires(a, sent)
        BY <4>2, <4>3, <4>4 DEF Fires
      <4>6. a.field # b.field => ~Fires(a, sent)
        BY <3>1, <4>2, <4>4 DEF Fires, SameBut
      <4> QED  BY <4>5, <4>6
    <3> QED  BY <2>3, <3>2, <3>3
  <2> HIDE DEF sent
  <2>12. t = n
    <3>1. n < t \/ t < n \/ t = n
      BY <2>2
    <3>2. ~(n < t)
      BY <2>4, <2>9, <2>10
    <3>3. ASSUME t < n PROVE FALSE
      <4>1. f.choice[t].guard = "equals"
        BY <2>6, <2>9, <3>3 DEF Fires
      <4>2. t # n
        BY <2>2, <3>3
      <4> QED  BY <2>9, <2>11, <4>1, <4>2
    <3> QED  BY <3>1, <3>2, <3>3
  <2> QED  BY <2>1, <2>4, <2>9, <2>12
<1> QED  BY <1>1, GenInvariance, PTL

\* An API that implements the document and the application passes every case
\* that is as asked and has an expectation.
THEOREM DeclaredPass == Spec => []DeclaredAnswersPass
<1>1. ASSUME GenInv PROVE DeclaredAnswersPass
  <2> SUFFICES ASSUME NEW c \in Written,
                      ValidKnown(c.op), OnePayload(c.op), AsAsked(c), c.expected # Null,
                      NEW answer \in Answers(c)
               PROVE  Passes(c, answer)
    BY DEF DeclaredAnswersPass
  <2> DEFINE op == spec.ops[c.op]
  <2>1. /\ c \in cases /\ c.op # 0 /\ spec \in Specs /\ app \in Apps \cup {NoApp}
        /\ c.op \in DOMAIN spec.ops
    BY <1>1 DEF GenInv, Written
  <2>2. Wants(c) /\ OneFault(c)
    BY <1>1, <2>1 DEF GenInv, Fine
  <2>3. KnownOperation(op) /\ op \in Operations
    BY <2>1, SpecKnown DEF Operations, Range
  <2>5. Passes(c, answer) <=> /\ answer.status = c.status
                              /\ compare(c.expected, answer.body, TRUE) = {}
    BY <2>2 DEF Passes, Wants
  <2>6. CASE /\ c.status \in Failures
             /\ c.expected = IF app # NoApp /\ c.status \in DOMAIN ErrorEnvelope(app)
                             THEN AsDoc(ErrorEnvelope(app)[c.status]) ELSE ErrorExpected(c.status)
    <3>1. ~(c.status < 400)
      BY <2>6 DEF Failures
    <3>2. Faults(c) # {} /\ \A f \in Faults(c) : StatusFor(f) = c.status
      BY <2>2, <3>1 DEF OneFault
    <3>3. answer \in {[status |-> StatusFor(f), body |-> Error(StatusFor(f))] : f \in Faults(c)}
      BY <3>2 DEF Answers
    <3>4. answer.status = c.status /\ answer.body = Error(c.status)
      BY <3>2, <3>3
    <3>5. compare(c.expected, Error(c.status), TRUE) = {} /\ c.expected # Null
      <4>1. PICK status : status = c.status
        OBVIOUS
      <4>2. LET expected == IF app # NoApp /\ status \in DOMAIN ErrorEnvelope(app)
                            THEN AsDoc(ErrorEnvelope(app)[status]) ELSE ErrorExpected(status)
            IN  compare(expected, Error(status), TRUE) = {} /\ expected # Null
        BY <2>1, <2>6, <4>1, FailurePasses
      <4> QED  BY <2>6, <4>1, <4>2
    <3> QED  BY <2>5, <3>4, <3>5
  <2>7. CASE /\ c.status = op.success.status
             /\ c.expected = IF Response(c.op) # Empty THEN AsDoc(Response(c.op))
                             ELSE IF c.category = "branch_logic" THEN Null ELSE SuccessExpected(op)
    <3>1. c.status < 400
      BY <2>3, <2>7, StatusKnown
    <3>2. Faults(c) = {}
      BY <2>2, <3>1 DEF OneFault
    <3>3. answer \in [status : {op.success.status}, body : Success(c)]
      BY <3>2 DEF Answers
    <3>4. answer.status = c.status /\ answer.body \in Success(c)
      BY <2>7, <3>3
    <3>5. compare(c.expected, answer.body, TRUE) = {} <=> c.expected # Null
      BY <2>1, <2>3, <2>7, <3>4, SuccessPasses
    <3> QED  BY <2>5, <3>4, <3>5
  <2> QED  BY <2>2, <2>6, <2>7 DEF Wants
<1> QED  BY <1>1, GenInvariance, PTL

=============================================================================
