----------------------------- MODULE SuiteSheet -----------------------------
(***************************************************************************)
(* Reading a suite workbook (read_test_suite in                            *)
(* src/api_log_test_mcp/tools/suite.py; readTestSuite in                   *)
(* worker/src/suite/parse.ts is its port).  Its sheet has metadata rows, a *)
(* header row wherever the first "test_id" cell is, and a row per case,    *)
(* down to the first row whose id cell begins with "results": what the     *)
(* results writer appends lies below.  Bad rows become errors and do not   *)
(* end the reading.                                                        *)
(*                                                                         *)
(* A row is a sequence of cells, trimmed (and lower-cased where the code   *)
(* compares them so), as long as the reader made it.  What a cell means is *)
(* left to the constants.                                                  *)
(***************************************************************************)
EXTENDS Integers, Sequences, FiniteSets, FiniteSetsExt

CONSTANTS
  Rows,         \* the rows a sheet may consist of
  MaxRows,      \* bound: rows of a sheet
  NoValue,      \* None; also an empty cell
  Canonical,    \* COLUMNS: header cell -> field, aliases included
  BaseLabels,   \* _BASE_PATH_LABELS
  LogLabels,    \* _LOG_URL_LABELS
  Markers,      \* the cells that begin with RESULTS_MARKER
  Wrong,        \* <<field, cell>>: what the field's coercion rejects
  Overflow      \* cells int(float(...)) raises OverflowError on; none in the
                \* Worker, where they are Wrong

Header == DOMAIN Canonical
Field == {Canonical[h] : h \in Header}
Cell == UNION {{r[i] : i \in DOMAIN r} : r \in Rows}

ASSUME SheetShape ==
  /\ MaxRows \in Nat
  /\ \A r \in Rows : Len(r) \in Nat /\ DOMAIN r = 1..Len(r)
  /\ "test_id" \in Header /\ Canonical["test_id"] = "test_id"
  /\ NoValue \notin Header \cup BaseLabels \cup LogLabels \cup Markers
  /\ \A fc \in Wrong : fc[1] \in Field \ {"test_id"} /\ fc[2] # NoValue

VARIABLES
  sheet,        \* what _load_rows returned
  phase,        \* "opening", "reading", "read" or "raised"
  header,       \* the header row's position, 0 while there is none
  columns,      \* header_map: field -> position
  base,         \* suite.base_path
  logs,         \* suite.application_logs_fetch_url
  at,           \* the row being read
  seen,         \* seen_ids
  cases,        \* suite.cases: their ids, with the row the rest comes from
  errors        \* suite.parse_errors: <<row number, column>>

vars == <<sheet, phase, header, columns, base, logs, at, seen, cases, errors>>

-----------------------------------------------------------------------------
(* Header and metadata *)

HeaderRows == {i \in DOMAIN sheet : \E k \in DOMAIN sheet[i] : sheet[i][k] = "test_id"}

\* _find_header_row
HeaderRow == Min(HeaderRows)

\* _map_headers: of several columns for one field, the first counts.
Named(row, field) ==
  {k \in DOMAIN row : row[k] \in Header /\ Canonical[row[k]] = field}
MapHeaders(row) == [f \in {f \in Field : Named(row, f) # {}} |-> Min(Named(row, f))]

\* _extract_meta_value: a label without a value lets a later one supply it.
Values(i) == {k \in DOMAIN sheet[i] : k > 1 /\ sheet[i][k] # NoValue}
Supplying(labels) ==
  {i \in 1..(HeaderRow - 1) :
     Len(sheet[i]) > 0 /\ sheet[i][1] \in labels /\ Values(i) # {}}
MetaValue(labels) ==
  IF Supplying(labels) = {} THEN NoValue
  ELSE LET i == Min(Supplying(labels)) IN sheet[i][Min(Values(i))]

-----------------------------------------------------------------------------
(* The row being read *)

IsBlank(row) == \A k \in DOMAIN row : row[k] = NoValue

\* cell(): NoValue when the sheet has no such column, or the row ends before it.
CellOf(i, field) ==
  IF field \in DOMAIN columns /\ columns[field] \in DOMAIN sheet[i]
  THEN sheet[i][columns[field]] ELSE NoValue

Id(i) == CellOf(i, "test_id")

\* The fields whose cells are rejected, each of which is an error of its own.
Rejected(i) == {f \in Field : <<f, CellOf(i, f)>> \in Wrong}

-----------------------------------------------------------------------------

Init ==
  /\ sheet \in UNION {[1..n -> Rows] : n \in 0..MaxRows}
  /\ phase = "opening" /\ header = 0 /\ columns = <<>>
  /\ base = NoValue /\ logs = NoValue
  /\ at = 0 /\ seen = {} /\ cases = <<>> /\ errors = {}

\* The file is not there, or no reader can read it.
CannotOpen ==
  /\ phase = "opening"
  /\ phase' = "read" /\ errors' = {<<0, "file">>}
  /\ UNCHANGED <<sheet, header, columns, base, logs, at, seen, cases>>

NoHeader ==
  /\ phase = "opening" /\ HeaderRows = {}
  /\ phase' = "read" /\ errors' = {<<0, "header">>}
  /\ UNCHANGED <<sheet, header, columns, base, logs, at, seen, cases>>

FindHeader ==
  /\ phase = "opening" /\ HeaderRows # {}
  /\ phase' = "reading" /\ header' = HeaderRow /\ columns' = MapHeaders(sheet[HeaderRow])
  /\ base' = MetaValue(BaseLabels) /\ logs' = MetaValue(LogLabels)
  /\ at' = HeaderRow + 1
  /\ UNCHANGED <<sheet, seen, cases, errors>>

AtRow == phase = "reading" /\ at <= Len(sheet)

Go == at' = at + 1 /\ UNCHANGED <<sheet, phase, header, columns, base, logs>>

SkipBlank ==
  /\ AtRow /\ IsBlank(sheet[at])
  /\ Go /\ UNCHANGED <<seen, cases, errors>>

\* The results block: nothing below is a case.
StopAtResults ==
  /\ AtRow /\ Id(at) \in Markers
  /\ phase' = "read"
  /\ UNCHANGED <<sheet, header, columns, base, logs, at, seen, cases, errors>>

\* The row is handed to _parse_row.
IsData == AtRow /\ ~IsBlank(sheet[at]) /\ Id(at) \notin Markers

MissingId ==
  /\ IsData /\ Id(at) = NoValue
  /\ errors' = errors \cup {<<at, "test_id">>}
  /\ Go /\ UNCHANGED <<seen, cases>>

\* Fault: a second row with an id is passed over.
DuplicateIdSilently ==
  /\ IsData /\ Id(at) \in seen
  /\ Go /\ UNCHANGED <<seen, cases, errors>>

DuplicateId ==
  /\ IsData /\ Id(at) \in seen
  /\ errors' = errors \cup {<<at, "test_id">>}
  /\ Go /\ UNCHANGED <<seen, cases>>

IsNew == IsData /\ Id(at) # NoValue /\ Id(at) \notin seen

\* Fault: the id of a row with errors counts as seen.
RowErrorsTakeId ==
  /\ IsNew /\ CellOf(at, "expected_status") \notin Overflow /\ Rejected(at) # {}
  /\ errors' = errors \cup {<<at, f>> : f \in Rejected(at)}
  /\ seen' = seen \cup {Id(at)}
  /\ Go /\ UNCHANGED cases

\* A row with errors is left out, and its id stays free for a later row.
RowErrors ==
  /\ IsNew /\ CellOf(at, "expected_status") \notin Overflow /\ Rejected(at) # {}
  /\ errors' = errors \cup {<<at, f>> : f \in Rejected(at)}
  /\ Go /\ UNCHANGED <<seen, cases>>

\* _as_int does not catch OverflowError: the whole reading ends.
RowRaises ==
  /\ IsNew /\ CellOf(at, "expected_status") \in Overflow
  /\ phase' = "raised"
  /\ UNCHANGED <<sheet, header, columns, base, logs, at, seen, cases, errors>>

AddCase ==
  /\ IsNew /\ CellOf(at, "expected_status") \notin Overflow /\ Rejected(at) = {}
  /\ cases' = Append(cases, [test_id |-> Id(at), row |-> at])
  /\ seen' = seen \cup {Id(at)}
  /\ Go /\ UNCHANGED errors

EndOfRows ==
  /\ phase = "reading" /\ at > Len(sheet)
  /\ phase' = "read"
  /\ UNCHANGED <<sheet, header, columns, base, logs, at, seen, cases, errors>>

Next ==
  \/ CannotOpen \/ NoHeader \/ FindHeader
  \/ SkipBlank \/ StopAtResults \/ MissingId \/ DuplicateId
  \/ RowErrors \/ RowRaises \/ AddCase \/ EndOfRows

Spec == Init /\ [][Next]_vars

-----------------------------------------------------------------------------
(* Properties *)

\* Every variable keeps its shape; in particular no two cases share an id, by
\* which reports, evidence tabs and correlation ids tell them apart.
TypeOK ==
  /\ phase \in {"opening", "reading", "read", "raised"}
  /\ header \in 0..Len(sheet) /\ at \in 0..(Len(sheet) + 1)
  /\ \A f \in DOMAIN columns : f \in Field /\ columns[f] \in DOMAIN sheet[header]
  /\ header > 0 => "test_id" \in DOMAIN columns
  /\ {base, logs} \subseteq Cell \cup {NoValue}
  /\ seen = {cases[n].test_id : n \in DOMAIN cases}
  /\ Cardinality(seen) = Len(cases)
  /\ errors \subseteq (0..Len(sheet)) \X (Field \cup {"file", "header"})

\* The rows that can be cases, whatever was read so far: not blank, below the
\* header and above the first marker.
Section ==
  {i \in (header + 1)..Len(sheet) :
     ~IsBlank(sheet[i]) /\ \A k \in (header + 1)..i : Id(k) \notin Markers}

\* A row that can be a case on its own, if no other has its id.
WellFormed(i) == Id(i) # NoValue /\ Rejected(i) = {}

\* The cases of a suite are, in the order of the sheet, the first well-formed
\* row of every id, and nothing of what the results writer appended: a bad row
\* neither takes an id away from a good one nor moves or replaces a case.
CasesAreFirstGoodRows ==
  phase = "read" /\ header > 0 =>
    /\ {cases[n].row : n \in DOMAIN cases} =
         {i \in Section : WellFormed(i) /\
            \A k \in Section : k < i /\ WellFormed(k) => Id(k) # Id(i)}
    /\ \A m, n \in DOMAIN cases : m < n => cases[m].row < cases[n].row
    /\ \A n \in DOMAIN cases : cases[n].test_id = Id(cases[n].row)

\* No row is lost without a word: each row of the section that was read is a
\* case or has an error under its own number, not both, and no other row has
\* an error ("each problem becomes a ParseError and the row is skipped").
EveryRowAnswered ==
  header > 0 =>
    LET asCase  == {cases[n].row : n \in DOMAIN cases}
        asError == {e[1] : e \in errors}
    IN  /\ asCase \cap asError = {}
        /\ asCase \cup asError = {i \in Section : i < at}

=============================================================================
