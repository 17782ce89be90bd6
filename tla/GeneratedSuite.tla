---------------------------- MODULE GeneratedSuite ----------------------------
(***************************************************************************)
(* What a generated suite is for: run against an API that implements the   *)
(* document (and the application), every case passes; against one that     *)
(* forgets a rule, one fails.  The API is external: it is what the         *)
(* document, read by itself, allows it to answer.                          *)
(***************************************************************************)
EXTENDS SuiteGenerator, FiniteSets

CONSTANT compare(_, _, _)   \* the matcher's comparison of an answer

-----------------------------------------------------------------------------
(* What is wrong with a request: faults <<place, name, rule>> *)

KindOf(v) ==
  CASE "text" \in DOMAIN v     -> "string"
    [] "number" \in DOMAIN v   -> "integer"
    [] "boolean" \in DOMAIN v  -> "boolean"
    [] "elements" \in DOMAIN v -> "array"

\* The keywords of a schema a value breaks.
Breaks(v, s) ==
  LET k == KindOf(v)
      BreaksText(rule) == CASE rule = "pattern" -> v \notin s.pattern
                            [] rule = "minLength" -> v.len < s.minLength
                            [] rule = "maxLength" -> v.len > s.maxLength
                            [] OTHER -> FALSE
      BreaksNumber(rule) == CASE rule = "minimum" -> v.number < s.minimum
                              [] rule = "maximum" -> v.number > s.maximum
                              [] OTHER -> FALSE
      BreaksArray(rule) == CASE rule = "maxItems" -> Len(v.elements) > s.maxItems
                             [] rule = "minItems" -> Len(v.elements) < s.minItems
                             [] rule = "uniqueItems" -> s.uniqueItems /\ ~IsInjective(v.elements)
                             [] rule = "items" -> "maxLength" \in DOMAIN s.items /\
                                  \E n \in DOMAIN v.elements : v.elements[n].len > s.items.maxLength
                             [] OTHER -> FALSE
  IN  {rule \in DOMAIN s :
         \/ rule = "type" /\ s.type # k
         \/ rule = "enum" /\ v \notin Range(s.enum)
         \/ k = "string" /\ BreaksText(rule)
         \/ k = "integer" /\ BreaksNumber(rule)
         \/ k = "array" /\ BreaksArray(rule)}

ParamFaults(op, c, place) ==
  UNION {IF p.name \in DOMAIN c[place]
         THEN {<<place, p.name, rule>> : rule \in Breaks(c[place][p.name], p.schema)}
         ELSE {<<place, p.name, "required">> : x \in IF p.required THEN {1} ELSE {}} :
         p \in Params(op, place)}

BodyFaults(op, c) ==
  CASE c.content = "text" -> {<<"content", "", "type">>}
    [] c.content # "text" /\ "raw" \in DOMAIN c.body -> {<<"body", "", "syntax">>}
    [] OTHER ->
         LET b == c.body.json
         IN  {<<"body", f, "required">> : f \in op.body.required \ DOMAIN b}
             \cup (UNION {{<<"body", f, rule>> : rule \in Breaks(b[f], op.body.fields[f])} :
                            f \in DOMAIN b \cap DOMAIN op.body.fields})
             \cup (IF op.body.closed
                   THEN {<<"body", f, "closed">> : f \in DOMAIN b \ DOMAIN op.body.fields} ELSE {})

Faults(c) ==
  LET op == spec.ops[c.op]
  IN  (UNION {ParamFaults(op, c, place) : place \in {"query", "header", "path"}})
      \cup (IF HasBody(op) THEN BodyFaults(op, c) ELSE {})
      \cup {<<"resource", "", "exists">> : n \in {m \in DOMAIN c.path : c.path[m] = Bogus}}
      \cup (IF c.auth = "invalid" THEN {<<"auth", "", "credentials">>} ELSE {})

StatusFor(fault) ==
  CASE fault[1] = "content" -> 415
    [] fault[1] = "resource" -> 404
    [] fault[1] = "auth" -> 401
    [] OTHER -> 400

-----------------------------------------------------------------------------
(* What the API answers *)

\* The arm of a choice a request takes; an arm with another expression may or
\* may not be taken, and is left to the applications at hand.
Fires(arm, body) ==
  \/ arm.guard = "otherwise"
  \/ arm.guard = "equals" /\ arm.field \in DOMAIN body /\ body[arm.field] = arm.value

Taken(choice, body) ==
  {choice[n] : n \in {k \in DOMAIN choice : Fires(choice[k], body) /\
                       \A m \in DOMAIN choice : m < k => ~Fires(choice[m], body)}}

Body(c) == IF "json" \in DOMAIN c.body THEN c.body.json ELSE Empty

\* The bodies of a successful answer: with the declared fields, those of the
\* request as they were sent and the optional ones at will;
SuccessObjects(op) ==
  LET echo == [f \in DOMAIN Echo(op) \cap op.success.properties |-> Scalar(Echo(op)[f])]
      Full(names) == Besides(echo, [f \in names |-> Scalar(Text("any", 3))])
  IN  {Obj(Full(op.success.required \cup more)) : more \in SUBSET op.success.properties}

SuccessLists(op) ==
  {List(<<>>)} \cup {List(<<o>>) : o \in SuccessObjects(op)}
  \cup {List(<<o, o2>>) : o, o2 \in SuccessObjects(op)}

SuccessBodies(op) ==
  CASE op.success.kind = "array"  -> SuccessLists(op)
    [] op.success.kind = "object" -> SuccessObjects(op)
    [] OTHER                      -> {Scalar(Text("", 0))}

\* for an application, what the flow set last, if it set anything.
FlowBodies(f, c) ==
  LET chosen == {arm.payload : arm \in Taken(f.choice, Body(c))} \ {<<>>}
      set == IF chosen = {} THEN {f.payload} \ {<<>>} ELSE chosen
  IN  IF set = {} THEN SuccessBodies(spec.ops[c.op]) ELSE {AsDoc(payload[1]) : payload \in set}

Success(c) ==
  IF app = NoApp \/ Implementing(app, Key(c.op)) = {} THEN SuccessBodies(spec.ops[c.op])
  ELSE UNION {FlowBodies(f, c) : f \in Implementing(app, Key(c.op))}

\* A failure says all that is expected of one, or what the application makes of it.
Filled(e) == Obj([f \in DOMAIN e.fields |-> IF e.fields[f] = ANY_VALUE THEN Scalar(Text("any", 3))
                                            ELSE e.fields[f]])

Error(status) ==
  IF app # NoApp /\ status \in DOMAIN ErrorEnvelope(app) THEN AsDoc(ErrorEnvelope(app)[status])
  ELSE Filled(ErrorExpected(status))

\* An API that implements the document answers any of the faults it finds.
Answers(c) ==
  IF Faults(c) = {}
  THEN [status : {spec.ops[c.op].success.status}, body : Success(c)]
  ELSE {[status |-> StatusFor(f), body |-> Error(StatusFor(f))] : f \in Faults(c)}

Passes(c, answer) ==
  /\ answer.status = c.status
  /\ c.mode = "json_subset" => compare(c.expected, answer.body, TRUE) = {}

\* The documents the matcher is given, and all they are made of: it compares
\* as its body says.
Operations == UNION {Range(d.ops) : d \in Specs}
Failures   == {400, 401, 404, 415}
Set        == UNION {{f.payload : f \in Range(a.flows)} : a \in Apps}

Given ==
  {Null} \cup {SuccessExpected(op) : op \in Operations}
  \cup (UNION {SuccessBodies(op) : op \in Operations})
  \cup {ErrorBody(d.errors, status) : d \in Specs, status \in Failures}
  \cup {Filled(ErrorBody(d.errors, status)) : d \in Specs, status \in Failures}
  \cup {AsDoc(body) : body \in UNION {Range(ErrorEnvelope(a)) : a \in Apps}}
  \cup {AsDoc(payload[1]) : payload \in Set \ {<<>>}}

Documents ==
  LET inner == UNION {Children(d) : d \in Given}
  IN  Given \cup inner \cup (UNION {Children(d) : d \in inner})

ASSUME CompareOK ==
  \A e, a \in Documents : compare(e, a, TRUE) = CompareBody(compare, e, a, TRUE)

-----------------------------------------------------------------------------
(* Properties *)

\* The cases that were made from the document, once all are.
Written == IF pc = "written" THEN {c \in cases : c.op # 0} ELSE {}

\* The generator has no value for a pattern, and for some other combinations
\* of keywords, unless the document gives an example.
ValidKnown(i) == Faults(ValidRequest(i)) = {}

\* The rules a document declares and the generator knows: presence, and every
\* keyword but the type, the fewest items, a minLength of one, of the elements
\* of an array all but their length, and what is declared of an array that is
\* a parameter.
Keywords(s) ==
  {k \in DOMAIN s \ {"type", "example", "minItems"} :
     /\ k = "minLength" => s.minLength > 1
     /\ k = "uniqueItems" => s.uniqueItems
     /\ k = "items" => "maxLength" \in DOMAIN s.items}

Rules(op) ==
  {<<p.in, p.name, "required">> : p \in {q \in Required(op.params) : q.in # "path"}}
  \cup (UNION {{<<p.in, p.name, k>> : k \in Keywords(p.schema)} :
                 p \in {q \in op.params : q.schema.type # "array"}})
  \cup (IF ~HasBody(op) THEN {}
        ELSE {<<"body", f, "required">> : f \in op.body.required}
             \cup (UNION {{<<"body", f, k>> : k \in Keywords(op.body.fields[f])} :
                            f \in DOMAIN op.body.fields})
             \cup (IF op.body.closed THEN {<<"body", "unexpectedField", "closed">>} ELSE {})
             \cup {<<"body", "", "syntax">>, <<"content", "", "type">>})

RequiredHeaders(op) == Required(Params(op, "header"))

\* The negatives about a body are sent without the headers an operation
\* requires, which hides what they are about.
Hidden(op, rule) == rule[1] \in {"body", "content"} /\ RequiredHeaders(op) # {}

\* "a positive case per operation plus one negative per validation rule": for
\* every rule of an operation whose valid request is valid, but those hidden,
\* there is a case that expects the status for it, breaks it, and is wrong in
\* no other parameter or field: an API that forgets the rule is found out,
\* unless the same value breaks another rule of that field.
EveryRuleProbed ==
  Written # {} =>
    \A i \in DOMAIN spec.ops : ValidKnown(i) =>
      \A rule \in Rules(spec.ops[i]) : ~Hidden(spec.ops[i], rule) =>
        \E c \in Written :
          /\ c.op = i /\ c.status = StatusFor(rule) /\ rule \in Faults(c)
          /\ \A f \in Faults(c) : f[1] = rule[1] /\ f[2] = rule[2]

\* The document allows the values the guards of an operation's flow ask for.
GuardsAllowed(i) ==
  HasBody(spec.ops[i]) =>
    \A arm \in Branches(app, Key(i)) : arm.guard = "equals" =>
      LET fields == spec.ops[i].body.fields
      IN  arm.field \in DOMAIN fields /\ Breaks(arm.value, fields[arm.field]) = {}

\* A case sends the valid request but for what it is about: it is not sent
\* without a required header because its body is the point, the resource that
\* does not exist has an id the document allows, and so has a branch its value.
AsAsked(c) ==
  /\ c.category \in {"body_validation", "bad_request", "media_type"} =>
       RequiredHeaders(spec.ops[c.op]) = {}
  /\ c.category = "not_found" => \A f \in Faults(c) : f[1] # "path"
  /\ c.category = "branch_logic" => GuardsAllowed(c.op)

\* "each negative case can drop/override exactly one field": of the cases that
\* are as asked, whatever is wrong with a negative is wrong in one place, and
\* nothing is with a positive, so the status expected of them cannot be due to
\* anything else.
OneFaultPerCase ==
  \A c \in Written : ValidKnown(c.op) /\ AsAsked(c) =>
    Cardinality({<<f[1], f[2]>> : f \in Faults(c)}) = IF c.status < 400 THEN 0 ELSE 1

\* The payload expected is the first one of the last flow of the endpoint that
\* has any, by its strings, also for the other branches.
OnePayload(i) ==
  app # NoApp => \A f, g \in Implementing(app, Key(i)) :
                   /\ f.payload = g.payload /\ f.payload # <<Empty>>
                   /\ \A arm \in Range(f.choice) : arm.payload = <<>>

\* An API that implements the document passes every case that is as asked and
\* has an expectation, whatever it adds to its answers or leaves out, if all
\* that a flow sets is one payload.
DeclaredAnswersPass ==
  \A c \in Written :
    ValidKnown(c.op) /\ OnePayload(c.op) /\ AsAsked(c) /\ c.expected # Null
    => \A answer \in Answers(c) : Passes(c, answer)

\* The same without exception, as the comments of the generator have it:
\* "Required headers are sent on every case" (suite_generator.py:594), and an
\* operation that declares no body has "no expectation at all" (:507).  It is
\* violated by both: the negatives about a body are sent without the headers,
\* so an API may answer for those first, and "no expectation" is compared as
\* null, which no answer is.
ConformingApiPasses ==
  app = NoApp => \A c \in Written : ValidKnown(c.op) =>
                   \A answer \in Answers(c) : Passes(c, answer)

\* Of the flows and arms of an endpoint one is meant: it has one flow, no two
\* arms ask for the same, and the default comes last.
Plain(f, key) ==
  /\ Implementing(app, key) = {f}
  /\ \A m, n \in DOMAIN f.choice :
       LET asks(k) == [guard |-> f.choice[k].guard, field |-> f.choice[k].field,
                       value |-> f.choice[k].value]
       IN  /\ m # n => asks(m) # asks(n)
           /\ m < n => f.choice[m].guard # "otherwise"

\* The case of a branch takes that branch, whatever order the guards are in,
\* if the request it is made from takes none of its own accord.
BranchesReached ==
  pc = "written" /\ app # NoApp =>
    \A c \in cases : c.category = "branch_logic" =>
      LET key == <<c.method, c.resource>>
          base == IF c.op = 0 THEN Empty ELSE Body(ValidRequest(c.op))
      IN  \A f \in Implementing(app, key) :
            /\ Plain(f, key)
            /\ \A arm \in Range(f.choice) : arm.guard = "equals" => ~Fires(arm, base)
            => \A arm \in Taken(f.choice, Body(c)) : arm.logger \in c.logs

=============================================================================
