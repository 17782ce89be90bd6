---------------------------- MODULE SuiteGenerator ----------------------------
(***************************************************************************)
(* Generation of a test suite (src/api_log_test_mcp/tools/                 *)
(* suite_generator.py): from an OpenAPI document, operation by operation,  *)
(* from a Mule application with such a document, or from the flows of an   *)
(* application alone.  What a generated suite is for is in GeneratedSuite. *)
(*                                                                         *)
(* A document is [ops, errors]: its operations and the fields of its error *)
(* bodies.  A schema is a function from keywords to their arguments; a     *)
(* pattern is the set of the values it accepts.  Cases are a set: their    *)
(* numbers and their wording are left out.                                 *)
(***************************************************************************)
EXTENDS ResponseMatch, MuleApp

CONSTANTS
  Specs,        \* the OpenAPI documents
  Apps,         \* the applications
  NoApp         \* generate_test_suite is called, without an application

VARIABLES
  pc,
  spec, app,
  at,           \* the next operation of the document
  cases

vars == <<pc, spec, app, at, cases>>

-----------------------------------------------------------------------------
(* Values, and the schemas they are made for *)

Text(s, n) == [text |-> s, len |-> n]
Xs(n)      == Text("x", n)
Number(n)  == [number |-> n]
Truth      == [boolean |-> TRUE]
Items(s)   == [elements |-> s]

\* A name set in a record, and what a second record has besides a first.
Put(f, name, value) == [x \in DOMAIN f \cup {name} |-> IF x = name THEN value ELSE f[x]]
Besides(f, g) == [x \in DOMAIN f \cup DOMAIN g |-> IF x \in DOMAIN f THEN f[x] ELSE g[x]]

Null == Scalar([null |-> TRUE])       \* no expectation is None
Sample == Text("sample", 6)

\* _valid_value, for parameters: an example that is a list is sent as one text.
ValidValue(s) ==
  CASE "example" \in DOMAIN s -> IF s.type = "array" THEN Text("printed list", 12) ELSE s.example
    [] "example" \notin DOMAIN s /\ "enum" \in DOMAIN s -> s.enum[1]
    [] OTHER -> CASE s.type = "integer" -> Number(IF "minimum" \in DOMAIN s THEN s.minimum ELSE 1)
                  [] s.type = "boolean" -> Truth
                  [] OTHER -> Sample

\* _sample_string
SampleString(s) ==
  CASE "minLength" \in DOMAIN s /\ s.minLength > Sample.len -> Text("sample", s.minLength)
    [] "maxLength" \in DOMAIN s /\ s.maxLength < Sample.len -> Text("sample", s.maxLength)
    [] OTHER -> Sample

\* _sample_value, for the fields of a body
SampleLeaf(s) ==
  CASE "example" \in DOMAIN s -> s.example
    [] "example" \notin DOMAIN s /\ "enum" \in DOMAIN s -> s.enum[1]
    [] OTHER -> CASE s.type = "integer" -> Number(IF "minimum" \in DOMAIN s THEN s.minimum
                                                  ELSE IF "maximum" \in DOMAIN s THEN s.maximum ELSE 1)
                  [] s.type = "boolean" -> Truth
                  [] OTHER -> SampleString(s)

SampleValue(s) ==
  IF "example" \notin DOMAIN s /\ s.type = "array"
  THEN Items([n \in 1..(IF "minItems" \in DOMAIN s /\ s.minItems > 1 THEN s.minItems ELSE 1) |->
                SampleLeaf(s.items)])
  ELSE SampleLeaf(s)

\* _schema_negatives and _array_negatives: a value that violates each keyword.
Violation(s, k) ==
  CASE k = "enum"        -> Text("__INVALID_ENUM__", 16)
    [] k = "pattern"     -> Text("!bad!", 5)
    [] k = "minLength"   -> Xs(s.minLength - 1)
    [] k = "maxLength"   -> Xs(s.maxLength + 1)
    [] k = "minimum"     -> Number(s.minimum - 1)
    [] k = "maximum"     -> Number(s.maximum + 1)
    [] k = "maxItems"    -> Items([n \in 1..s.maxItems + 1 |-> Text("tag" \o ToString(n), 4)])
    [] k = "uniqueItems" -> Items(<<Text("dup", 3), Text("dup", 3)>>)
    [] k = "items"       -> Items(<<Xs(s.items.maxLength + 1)>>)

\* Fault: only the lower bounds of a value are probed.
ScalarNegativesLower(s) ==
  {k \in DOMAIN s \cap {"enum", "pattern", "minLength", "minimum"} :
     k = "minLength" => s.minLength > 1}

\* The keywords that are violated: those of a scalar, for every parameter,
ScalarNegatives(s) ==
  {k \in DOMAIN s \cap {"enum", "pattern", "minLength", "maxLength", "minimum", "maximum"} :
     k = "minLength" => s.minLength > 1}

\* and those of an array as well for a field of a body.
ArrayNegatives(s) ==
  {k \in DOMAIN s \cap {"maxItems", "uniqueItems", "items"} :
     /\ k = "uniqueItems" => s.uniqueItems
     /\ k = "items" => "maxLength" \in DOMAIN s.items}

FieldNegatives(s) == IF s.type = "array" THEN ArrayNegatives(s) ELSE ScalarNegatives(s)

-----------------------------------------------------------------------------
(* An operation: [method, path, secured, params, body, success].  A param  *)
(* is [in, name, required, schema]; body is NoBody or [required, fields,   *)
(* closed, example]; success is [status, kind, required, properties].      *)

NoBody == [fields |-> Empty]
HasBody(op) == op.body # NoBody

Params(op, place) == {p \in op.params : p.in = place}
Names(params) == {p.name : p \in params}
Named(params, n) == CHOOSE p \in params : p.name = n

\* _valid_query_string, the required headers, _apply_path_params
ValidValues(params) == [n \in Names(params) |-> ValidValue(Named(params, n).schema)]
Required(params) == {p \in params : p.required}

\* Fault: everything is left out.
DropAll(f, n) == Empty

Drop(f, n) == Restrict(f, DOMAIN f \ {n})

\* The example, if one is given, or a value for every required field.
Baseline(op) ==
  IF op.body.example # Empty THEN op.body.example
  ELSE [f \in op.body.required |-> IF f \in DOMAIN op.body.fields
                                   THEN SampleValue(op.body.fields[f]) ELSE Sample]

\* The requests of a case are the valid one, changed in one place.
ValidRequest(i) ==
  LET op == spec.ops[i]
  IN  [op |-> i, method |-> op.method, resource |-> op.path,
       path |-> ValidValues(Params(op, "path")),
       query |-> ValidValues(Required(Params(op, "query"))),
       header |-> ValidValues(Required(Params(op, "header"))),
       content |-> IF HasBody(op) THEN "json" ELSE "none",
       body |-> IF HasBody(op) THEN [json |-> Baseline(op)] ELSE [raw |-> ""],
       accept |-> "any", auth |-> "none"]

\* What the request sends and the response may give back.
Echo(op) == IF HasBody(op) /\ op.method \in {"POST", "PUT", "PATCH"} THEN Baseline(op) ELSE Empty

\* _error_expected, for a document whose error bodies have these fields
ErrorBody(errors, code) ==
  Obj([f \in IF errors = {} THEN {"status", "error"} ELSE errors |->
         CASE f = "status" -> Scalar(Number(code))
           [] f = "error"  -> Scalar([reason |-> code])
           [] OTHER        -> ANY_VALUE])

ErrorExpected(code) == ErrorBody(spec.errors, code)

\* Fault: every declared field of the response is demanded.
ObjectExpectedInFull(op) ==
  [f \in op.success.properties |-> IF f \in DOMAIN Echo(op) THEN Scalar(Echo(op)[f]) ELSE ANY_VALUE]

ObjectExpected(op) ==
  [f \in op.success.required \cup (DOMAIN Echo(op) \cap op.success.properties) |->
     IF f \in DOMAIN Echo(op) \cap op.success.properties THEN Scalar(Echo(op)[f]) ELSE ANY_VALUE]

\* _array_any_template: one node, for every element of the list.
ArrayAnyTemplate(op) ==
  List(<<IF op.success.required = {} THEN ANY_VALUE
         ELSE Obj([f \in op.success.required |-> ANY_VALUE])>>)

\* _success_expected
SuccessExpected(op) ==
  CASE op.success.kind = "array" -> ArrayAnyTemplate(op)
    [] op.success.kind # "array" /\ DOMAIN ObjectExpected(op) # {} -> Obj(ObjectExpected(op))
    [] op.success.kind = "object" /\ DOMAIN ObjectExpected(op) = {} -> ANY_VALUE
    [] OTHER -> Null

\* _expected_log_strings, by what they name
ExpectedLogs(status) == {IF status \in {400, 404, 405, 406, 415} THEN "APIKIT error" ELSE "request line"}

\* _add
Add(request, category, status, expected) ==
  Besides(request, [category |-> category, status |-> status, expected |-> expected,
                    mode |-> "json_subset", logs |-> ExpectedLogs(status)])

Negative(request, category, status) == Add(request, category, status, ErrorExpected(status))

-----------------------------------------------------------------------------
(* The documents and the applications looked at *)

\* A keyword constrains the type it is for, no bound of a length is negative,
\* and the values that are made to be invalid are.
KnownSchema(s) ==
  /\ DOMAIN s \subseteq {"type", "example"} \cup
       IF s.type = "array" THEN {"minItems", "maxItems", "uniqueItems", "items"}
       ELSE {"enum", "pattern", "minLength", "maxLength", "minimum", "maximum"}
  /\ \A k \in DOMAIN s :
       /\ k \in {"minLength", "maxLength", "maxItems"} => s[k] \in Nat
       /\ k \in {"minimum", "maximum"} => s[k] \in Int
       /\ k = "uniqueItems" => s[k] \in BOOLEAN
       /\ k = "items" /\ "maxLength" \in DOMAIN s.items => s.items.maxLength \in Nat
       /\ k = "enum" => Violation(s, k) \notin Range(s.enum)
       /\ k = "pattern" => Violation(s, k) \notin s.pattern

\* Parameters are of the places there are tests for (not cookies), the field
\* no document knows is not declared, a success is one, and a body that has
\* fields is an object or a list of them.
KnownOperation(op) ==
  /\ \A p \in op.params : p.in \in {"query", "header", "path"} /\ KnownSchema(p.schema)
  /\ HasBody(op) =>
       /\ \A f \in DOMAIN op.body.fields : KnownSchema(op.body.fields[f])
       /\ op.body.closed => "unexpectedField" \notin DOMAIN op.body.fields
  /\ op.success.status \in 200..399
  /\ op.success.kind \in {"object", "array", "none"}
  /\ op.success.kind = "none" => op.success.required = {} /\ op.success.properties = {}

ASSUME SpecsOK ==
  \A d \in Specs :
    /\ Len(d.ops) \in Nat /\ DOMAIN d.ops = 1..Len(d.ops)
    /\ \A i \in DOMAIN d.ops : KnownOperation(d.ops[i])

ASSUME AppsOK ==
  \A a \in Apps :
    /\ Len(a.flows) \in Nat /\ DOMAIN a.flows = 1..Len(a.flows)
    /\ \A f \in Range(a.flows) :
         /\ DOMAIN f.choice \subseteq Nat
         /\ f.key # NoKey => f.key = <<f.key[1], f.key[2]>>
         /\ f.payload # <<>> => f.payload = <<f.payload[1]>>

-----------------------------------------------------------------------------
(* _build_operation *)

Positive(i) ==
  {Add(ValidRequest(i), "positive", spec.ops[i].success.status, SuccessExpected(spec.ops[i]))}

Validation ==
  [query |-> "query_validation", header |-> "header_validation", path |-> "path_validation"]

\* Query, header and path parameters: each required one is left out, each
\* keyword violated.
ParamNegatives(i, place) ==
  LET r == ValidRequest(i)
      Changed(given) == Negative([r EXCEPT ![place] = given], Validation[place], 400)
  IN  {Changed(Drop(r[place], p.name)) :
         p \in IF place = "path" THEN {} ELSE Required(Params(spec.ops[i], place))}
      \cup UNION {{Changed(Put(r[place], p.name, Violation(p.schema, k))) :
                     k \in ScalarNegatives(p.schema)} : p \in Params(spec.ops[i], place)}

\* The negatives about the body are sent without the required headers.
BodyNegatives(i) ==
  LET op == spec.ops[i]
      r == [ValidRequest(i) EXCEPT !.header = Empty]
      With(b) == [r EXCEPT !.body = [json |-> b]]
      base == r.body.json
  IN  IF ~HasBody(op) THEN {}
      ELSE {Negative(With(Drop(base, f)), "body_validation", 400) : f \in op.body.required}
           \cup (UNION {{Negative(With(Put(base, f, Violation(op.body.fields[f], k))),
                                  "body_validation", 400) : k \in FieldNegatives(op.body.fields[f])} :
                          f \in DOMAIN op.body.fields})
           \cup (IF op.body.closed
                 THEN {Negative(With(Put(base, "unexpectedField", Xs(1))), "body_validation", 400)}
                 ELSE {})
           \cup {Negative([r EXCEPT !.body = [raw |-> "malformed"]], "bad_request", 400),
                 Negative([r EXCEPT !.content = "text"], "media_type", 415)}

Bogus == Text("Nonexistent-ZZZ-000", 19)

NotFound(i) ==
  LET r == ValidRequest(i)
  IN  IF r.method = "GET" /\ r.path # Empty
      THEN {Negative([r EXCEPT !.path = [n \in DOMAIN @ |-> Bogus]], "not_found", 404)}
      ELSE {}

Auth(i) ==
  IF spec.ops[i].secured THEN {Negative([ValidRequest(i) EXCEPT !.auth = "invalid"], "auth", 401)}
  ELSE {}

OperationCases(i) ==
  Positive(i) \cup (UNION {ParamNegatives(i, place) : place \in {"query", "header", "path"}})
  \cup BodyNegatives(i) \cup NotFound(i) \cup Auth(i)

-----------------------------------------------------------------------------
(* _apply_mule: the facts of an operation's flow *)

AsDoc(f) == Obj([k \in DOMAIN f |-> Scalar(f[k])])

Key(i) == <<spec.ops[i].method, spec.ops[i].path>>

Overlaid(c, i) ==
  LET env == ErrorEnvelope(app)
      loggers == FlowLoggers(app, Key(i))
      response == FlowResponse(app, Key(i))
  IN  CASE c.status < 400 ->
             [c EXCEPT !.logs = IF loggers = {} THEN @ ELSE loggers,
                       !.expected = IF response = Empty THEN @ ELSE AsDoc(response)]
        [] c.status >= 400 /\ c.status \in DOMAIN env -> [c EXCEPT !.expected = AsDoc(env[c.status])]
        [] OTHER -> c

\* Fault: the baseline wins over the value that triggers the branch.
BranchBodyKeepsBaseline(base, b) ==
  IF b.guard = "equals" THEN Besides(base, Put(Empty, b.field, b.value)) ELSE base

BranchBody(base, b) == IF b.guard = "equals" THEN Put(base, b.field, b.value) ELSE base

BranchCases(i) ==
  LET r == ValidRequest(i)
      base == IF HasBody(spec.ops[i]) THEN r.body.json ELSE Empty
      response == FlowResponse(app, Key(i))
  IN  {[Add([r EXCEPT !.body = [json |-> BranchBody(base, b)]], "branch_logic",
            spec.ops[i].success.status, IF response = Empty THEN Null ELSE AsDoc(response))
          EXCEPT !.logs = FlowLoggers(app, Key(i)) \cup {b.logger}] : b \in Branches(app, Key(i))}

-----------------------------------------------------------------------------
(* Cases without a document: _framework_error_cases and _flow_cases *)

PlainRequest(key) ==
  [op |-> 0, method |-> key[1], resource |-> key[2], path |-> Empty, query |-> Empty,
   header |-> Empty, content |-> "none", body |-> [raw |-> ""], accept |-> "any", auth |-> "none"]

Flow(request, category, status, response, logs) ==
  Besides(request, [category |-> category, status |-> status, logs |-> logs,
                    expected |-> IF response = Empty THEN Null ELSE AsDoc(response),
                    mode |-> IF response = Empty THEN "status_only" ELSE "json_subset"])

Failure(request, category, status) ==
  {Flow(request, category, e, ErrorEnvelope(app)[e], {"APIKIT error"}) :
     e \in {status} \cap DOMAIN ErrorEnvelope(app)}

OfMethod(m) == SelectSeq(Endpoints(app), LAMBDA e : e[1] = m)

Unused ==
  LET free == SelectSeq(<<"DELETE", "PUT", "PATCH">>,
                        LAMBDA m : <<m, Endpoints(app)[1][2]>> \notin Range(Endpoints(app)))
  IN  IF free = <<>> THEN "DELETE" ELSE free[1]

\* An unknown resource, a method the first endpoint's path does not have, and
\* an Accept nothing satisfies; get is the request the last is sent with.
RouterFailures(get) ==
  Failure(PlainRequest(<<"GET", "/__nonexistent__">>), "not_found", 404)
  \cup (IF Endpoints(app) = <<>> THEN {}
        ELSE Failure(PlainRequest(<<Unused, Endpoints(app)[1][2]>>), "method_not_allowed", 405))
  \cup (IF OfMethod("GET") = <<>> THEN {}
        ELSE Failure([get EXCEPT !.accept = "xml"], "not_acceptable", 406))

\* _valid_get_url: the parameters of the URL, if the document knows the path.
ValidGet ==
  LET get == PlainRequest(OfMethod("GET")[1])
      known == {i \in DOMAIN spec.ops : Key(i) = <<get.method, get.resource>>}
  IN  IF known = {} THEN get
      ELSE LET r == ValidRequest(CHOOSE i \in known : TRUE)
           IN  [get EXCEPT !.path = r.path, !.query = r.query]

\* One case per branch of an endpoint, or a plain one.
EndpointCases(key) ==
  LET status == IF key[1] = "POST" THEN 201 ELSE 200
      json == key[1] \in {"POST", "PUT", "PATCH"}
      r == [PlainRequest(key) EXCEPT !.content = IF json THEN "json" ELSE "none"]
      loggers == FlowLoggers(app, key)
  IN  IF Branches(app, key) # {}
      THEN {Flow([r EXCEPT !.body = [json |-> BranchBody(Empty, b)]], "branch_logic", status,
                 FlowResponse(app, key), loggers \cup {b.logger}) : b \in Branches(app, key)}
      ELSE {Flow([r EXCEPT !.body = IF json THEN [json |-> Empty] ELSE @], "positive", status,
                 FlowResponse(app, key), loggers)}

PostFailures ==
  IF OfMethod("POST") = <<>> THEN {}
  ELSE LET post == PlainRequest(OfMethod("POST")[1])
       IN  Failure([post EXCEPT !.content = "text", !.body = [raw |-> "plain"]], "media_type", 415)
           \cup Failure([post EXCEPT !.content = "json", !.body = [raw |-> "malformed"]],
                        "bad_request", 400)

-----------------------------------------------------------------------------

Init ==
  /\ spec \in Specs /\ app \in Apps \cup {NoApp}
  /\ pc = IF app = NoApp THEN "building" ELSE "locating"
  /\ at = 1 /\ cases = {}

\* locate_oas: the document may or may not be on disk.
LocateOas ==
  /\ pc = "locating"
  /\ pc' \in {"building", "flows"}
  /\ UNCHANGED <<spec, app, at, cases>>

BuildOperation ==
  /\ pc = "building" /\ at \in DOMAIN spec.ops
  /\ cases' = cases \cup IF app = NoApp THEN OperationCases(at)
                         ELSE {Overlaid(c, at) : c \in OperationCases(at)} \cup BranchCases(at)
  /\ at' = at + 1
  /\ UNCHANGED <<pc, spec, app>>

FrameworkErrorCases ==
  /\ pc = "building" /\ at \notin DOMAIN spec.ops /\ app # NoApp
  /\ cases' = cases \cup RouterFailures(ValidGet)
  /\ pc' = "written"
  /\ UNCHANGED <<spec, app, at>>

FlowCases ==
  /\ pc = "flows"
  /\ cases' = (UNION {EndpointCases(key) : key \in Keys(app)}) \cup PostFailures
              \cup RouterFailures(PlainRequest(OfMethod("GET")[1]))
  /\ pc' = "written"
  /\ UNCHANGED <<spec, app, at>>

WriteSheet ==
  /\ pc = "building" /\ at \notin DOMAIN spec.ops /\ app = NoApp
  /\ pc' = "written"
  /\ UNCHANGED <<spec, app, at, cases>>

Next == LocateOas \/ BuildOperation \/ FrameworkErrorCases \/ FlowCases \/ WriteSheet

Spec == Init /\ [][Next]_vars

=============================================================================
