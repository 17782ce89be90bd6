---------------------------- MODULE MCSuiteSheet ----------------------------
(* An instance of SuiteSheet for TLC: every sheet of a few small rows. *)
EXTENDS SuiteSheet, TLC

Columns ==
  "test_id" :> "test_id" @@ "expected_status" :> "expected_status" @@
  "match_mode" :> "response_match_mode" @@
  "response_match_mode" :> "response_match_mode"

\* Metadata without and with a value; a header that names one field twice and
\* one with the id in the second column; good, bad, short and blank rows; a
\* results block.  What a row is depends on the header above it.
SmallRows ==
  {<<"basepath", "">>, <<"basepath", "", "/api">>,
   <<"test_id", "match_mode", "response_match_mode">>, <<"expected_status", "test_id">>,
   <<"a", "exact", "b">>, <<"a", "b", "exact">>, <<"b">>, <<"200", "a">>,
   <<"1e999", "a">>, <<"", "">>, <<"results", "b">>}

Base == {"basepath"}
NoLabels == {}
Results == {"results"}

Rejects ==
  ({"response_match_mode"} \X {"a", "b", "200", "1e999", "basepath", "/api", "results",
                               "test_id", "match_mode", "response_match_mode"})
  \cup ({"expected_status"} \X {"a", "b", "exact", "basepath", "/api", "results", "test_id",
                                "expected_status"})
Huge == {"1e999"}
=============================================================================
