-------------------------- MODULE MCGeneratedSuite ----------------------------
(* An instance of GeneratedSuite for TLC: documents of two operations. *)
EXTENDS GeneratedSuite, Matcher

Red == Text("red", 3)
Blue == Text("blue", 4)
Code == Text("ITM-1", 5)

Id     == [type |-> "string", pattern |-> {Code}, example |-> Code]
Word   == [type |-> "string", minLength |-> 1, maxLength |-> 8]
Long   == [type |-> "string", minLength |-> 8, maxLength |-> 12]
Color  == [type |-> "string", enum |-> <<Red, Blue>>]
Count  == [type |-> "integer", minimum |-> 0, maximum |-> 9]
Flag   == [type |-> "boolean"]
Tags   == [type |-> "array", maxItems |-> 2, uniqueItems |-> TRUE,
           items |-> [type |-> "string", maxLength |-> 4]]
Marks  == [type |-> "array", uniqueItems |-> FALSE, items |-> [type |-> "string"]]

Param(place, name, required, schema) ==
  [in |-> place, name |-> name, required |-> required, schema |-> schema]

\* Two required parameters of a place, optional ones, a path parameter with
\* rules and one without.  Nothing but the type Long is out of reach: the
\* generator has no value for it in a URL, but one in a body.  A list is never
\* violated in a URL.
SomeParams ==
  {Param("query", "count", TRUE, Count), Param("query", "color", TRUE, Color),
   Param("query", "word", FALSE, Word), Param("header", "code", TRUE, Id),
   Param("header", "flag", FALSE, Flag), Param("query", "long", TRUE, Long)}

PathParams == {{}, {Param("path", "id", TRUE, Id)}, {Param("path", "id", TRUE, Word)}}

Fields == [code |-> Id, color |-> Color, count |-> Count, name |-> Long, tags |-> Tags,
           marks |-> Marks]

ByExample == [required |-> {"color"}, fields |-> Fields, closed |-> TRUE,
              example |-> [color |-> Red, count |-> Number(3)]]

RequestBodies ==
  {NoBody, ByExample,
   [required |-> {"name", "color"}, fields |-> Fields, closed |-> FALSE, example |-> Empty],
   [required |-> {"code", "count", "tags"}, fields |-> Fields, closed |-> TRUE, example |-> Empty]}

Answer(kind, required, properties) ==
  [status |-> 200, kind |-> kind, required |-> required, properties |-> properties]

Bodies ==
  {Answer("object", {"code"}, {"code", "color", "note"}), Answer("object", {}, {"note"}),
   Answer("none", {}, {}),
   Answer("array", {"code"}, {"code", "note"}), Answer("array", {}, {})}

Method(body) == IF body = NoBody THEN "GET" ELSE "POST"

Operation(params, body, success, secured) ==
  [method |-> Method(body), path |-> "/orders", secured |-> secured, params |-> params,
   body |-> body, success |-> success]

Second ==
  [method |-> "PUT", path |-> "/items", secured |-> TRUE,
   params |-> {Param("query", "count", FALSE, Count), Param("query", "tags", FALSE, Tags)},
   body |-> [required |-> {"color"}, fields |-> Fields, closed |-> FALSE, example |-> Empty],
   success |-> [status |-> 201, kind |-> "object", required |-> {"code"},
                properties |-> {"code", "color"}]]

Document(params, body, success, errors) ==
  [ops |-> <<Operation(params, body, success, params = {}), Second>>, errors |-> errors]

Envelope == {"status", "error", "message"}

\* Every mix of parameters, and every body with every answer.
WithBodies ==
  {Document(some \cup path, body, Answer("object", {"code"}, {"code", "color", "note"}), {}) :
     some \in SUBSET SomeParams, path \in PathParams, body \in {NoBody, ByExample}}
  \cup {Document(some, body, success, Envelope) :
     some \in {{}, {Param("header", "code", TRUE, Id)}}, body \in RequestBodies, success \in Bodies}

\* An operation that requires a header and a body and declares no success body.
Declared ==
  {[ops |-> <<Operation({Param("header", "code", TRUE, Id)}, ByExample, Answer("none", {}, {}),
                        FALSE)>>, errors |-> Envelope]}

\* Applications: a choice on a field, in a flow with and without a payload,
\* with an arm that has no logger, one that cannot be read and one that may
\* answer by itself.
Arm(guard, field, value, logger, payload) ==
  [guard |-> guard, field |-> field, value |-> value, logger |-> logger, payload |-> payload]

Order == [code |-> Code, note |-> Text("stored", 6)]

Choice(color, payload) ==
  <<Arm("equals", "color", color, "color flow", payload), Arm("equals", "count", Number(7), "", <<>>),
    Arm("other", "", Red, "big flow", <<>>), Arm("equals", "count", Number(5), "five flow", <<>>),
    Arm("otherwise", "", Red, "other flow", <<>>)>>

AFlow(key, payload, choice) ==
  [key |-> key, loggers |-> {"start", "end"}, payload |-> payload, choice |-> choice]

Handler(status, text) == [status |-> status, body |-> [message |-> Text(text, 3)]]

SomeApps ==
  {[flows |-> <<AFlow(NoKey, <<>>, <<>>), AFlow(<<"GET", "/orders">>, <<>>, <<>>),
                AFlow(<<"POST", "/orders">>, payload, choice)>>,
    handlers |-> handlers] :
     payload \in {<<>>, <<Order>>},
     choice \in {Choice(Blue, <<>>), Choice(Blue, <<Order>>), Choice(Red, <<>>)},
     handlers \in {<<>>, <<Handler(400, "bad"), Handler(404, "gone"), Handler(400, "no"),
                           Handler(405, "never"), Handler(406, "xml"), Handler(415, "text")>>}}
=============================================================================
