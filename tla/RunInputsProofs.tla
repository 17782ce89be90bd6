--------------------------- MODULE RunInputsProofs --------------------------
(***************************************************************************)
(* Proofs about what a run reads: its suite workbook (SuiteSheet), for     *)
(* sheets of any length, of any rows, and under any reading of their       *)
(* cells; and the log it downloads (AnypointLogs), for every number of     *)
(* retries, every skew and set of token lifetimes, and however often       *)
(* tokens are revoked and the application is redeployed.  The two machines *)
(* share no name.                                                          *)
(***************************************************************************)
EXTENDS SuiteSheet, AnypointLogs, FiniteSetTheorems, SequenceTheorems,
        WellFoundedInduction, TLAPS

-----------------------------------------------------------------------------
(* The suite: the inductive invariant *)

\* The rows that can be cases if the section were to end before row n.
Above(n) == {i \in (header + 1)..(n - 1) : ~IsBlank(sheet[i])}
Good(n) == {i \in Above(n) : WellFormed(i)}
Firsts(n) == {i \in Good(n) : \A k \in Good(n) : k < i => Id(k) # Id(i)}

AsCase == {cases[n].row : n \in DOMAIN cases}
AsError == {e[1] : e \in errors}

\* The variables, as far as the rest of the invariant needs them.
Shape ==
  /\ sheet \in Seq(Rows) /\ header \in Nat /\ at \in Nat
  /\ cases \in Seq([test_id : Cell, row : Nat])
  /\ phase \in {"opening", "reading", "read", "raised"}
  /\ phase = "opening" => header = 0
  /\ phase = "reading" => header > 0
  /\ header > 0 => header <= Len(sheet) /\ at \in (header + 1)..(Len(sheet) + 1)
  /\ header = 0 => at = 0 /\ cases = <<>> /\ seen = {}
  /\ phase = "opening" => errors = {}

\* What was read, up to the row that is read next.
ReadSoFar ==
  header > 0 =>
    /\ \A k \in (header + 1)..(at - 1) : Id(k) \notin Markers
    /\ phase = "read" => at > Len(sheet) \/ Id(at) \in Markers
    /\ AsCase = Firsts(at)
    /\ seen = {Id(i) : i \in Good(at)}
    /\ AsCase \cap AsError = {} /\ AsCase \cup AsError = Above(at)
    /\ \A m, n \in DOMAIN cases : m < n => cases[m].row < cases[n].row
    /\ \A n \in DOMAIN cases : cases[n].test_id = Id(cases[n].row)

IInv == Shape /\ ReadSoFar

-----------------------------------------------------------------------------
(* Least elements *)

NatOrder == {p \in Nat \X Nat : p[1] < p[2]}

\* Min of a nonempty set of naturals is in the set.
LEMMA MinIsMember ==
  ASSUME NEW S, S \subseteq Nat, S # {}
  PROVE  Min(S) \in S
<1>1. IsWellFoundedOn(NatOrder, Nat)
  <2>1. NatOrder = OpToRel(<, Nat)
    BY DEF NatOrder, OpToRel
  <2> QED BY <2>1, NatLessThanWellFounded
<1>2. PICK m \in S : \A k \in S : ~ <<k, m>> \in NatOrder
  BY <1>1, WFMin
<1>3. ASSUME NEW k \in S PROVE m <= k
  <2>1. k \in Nat /\ m \in Nat /\ ~ k < m
    BY <1>2 DEF NatOrder
  <2> QED BY <2>1
<1> QED BY <1>3 DEF Min

\* A sheet is a sequence of rows.
LEMMA SheetRows ==
  ASSUME sheet \in Seq(Rows)
  PROVE  /\ Len(sheet) \in Nat /\ DOMAIN sheet = 1..Len(sheet)
         /\ \A i \in 1..Len(sheet) : /\ sheet[i] \in Rows
                                     /\ DOMAIN sheet[i] = 1..Len(sheet[i])
                                     /\ Len(sheet[i]) \in Nat
<1>1. Len(sheet) \in Nat /\ DOMAIN sheet = 1..Len(sheet)
      /\ \A i \in 1..Len(sheet) : sheet[i] \in Rows
  BY LenProperties
<1> QED BY <1>1, SheetShape

\* The header row that is found is one of the sheet's.
LEMMA HeaderInSheet ==
  ASSUME sheet \in Seq(Rows), HeaderRows # {}
  PROVE  HeaderRow \in HeaderRows /\ HeaderRow \in 1..Len(sheet)
<1>1. HeaderRows \subseteq 1..Len(sheet) /\ Len(sheet) \in Nat
  BY SheetRows DEF HeaderRows
<1>2. HeaderRows \subseteq Nat
  BY <1>1
<1> QED BY <1>1, <1>2, MinIsMember DEF HeaderRow

\* An id that is there is a cell of the sheet.
LEMMA IdIsCell ==
  ASSUME sheet \in Seq(Rows), NEW i \in 1..Len(sheet), Id(i) # NoValue
  PROVE  Id(i) \in Cell
  BY SheetRows DEF Id, CellOf, Cell

-----------------------------------------------------------------------------
(* One more row *)

\* What a reading step leaves of the rows as they were.
SameSheet == UNCHANGED <<sheet, header, columns>>

\* What rows mean does not change while they are read.
LEMMA SameRows ==
  ASSUME SameSheet
  PROVE  /\ \A i : Id(i)' = Id(i) /\ (WellFormed(i)' <=> WellFormed(i))
         /\ \A n : Above(n)' = Above(n) /\ Good(n)' = Good(n) /\ Firsts(n)' = Firsts(n)
<1>1. \A i, f : CellOf(i, f)' = CellOf(i, f)
  BY DEF SameSheet, CellOf
<1>2. \A i : Id(i)' = Id(i) /\ (WellFormed(i)' <=> WellFormed(i))
  BY <1>1 DEF Id, WellFormed, Rejected
<1>3. \A n : Above(n)' = Above(n)
  BY DEF SameSheet, Above, IsBlank
<1>4. \A n : Good(n)' = Good(n)
  BY <1>2, <1>3 DEF Good
<1>5. \A n : Firsts(n)' = Firsts(n)
  BY <1>2, <1>4 DEF Firsts
<1> QED BY <1>2, <1>3, <1>4, <1>5

\* The rows above the next one.
LEMMA OneMore ==
  ASSUME Shape, AtRow
  PROVE  /\ Above(at + 1) = IF IsBlank(sheet[at]) THEN Above(at) ELSE Above(at) \cup {at}
         /\ Good(at + 1) = IF ~IsBlank(sheet[at]) /\ WellFormed(at)
                           THEN Good(at) \cup {at} ELSE Good(at)
         /\ Firsts(at + 1) =
              IF /\ ~IsBlank(sheet[at]) /\ WellFormed(at)
                 /\ \A k \in Good(at) : Id(k) # Id(at)
              THEN Firsts(at) \cup {at} ELSE Firsts(at)
         /\ at \notin Above(at) /\ Firsts(at) \subseteq Good(at) /\ Good(at) \subseteq Above(at)
         /\ \A i \in Above(at) : i \in Nat /\ i < at
<1>1. header \in Nat /\ at \in Nat /\ header < at /\ header > 0
  BY DEF Shape, AtRow
<1>2. (header + 1)..at = ((header + 1)..(at - 1)) \cup {at} /\ (at + 1) - 1 = at
  BY <1>1
<1>3. Above(at + 1) = IF IsBlank(sheet[at]) THEN Above(at) ELSE Above(at) \cup {at}
  BY <1>2 DEF Above
<1>4. Good(at + 1) = IF ~IsBlank(sheet[at]) /\ WellFormed(at)
                     THEN Good(at) \cup {at} ELSE Good(at)
  BY <1>3 DEF Good
<1>5. at \notin Above(at) /\ \A i \in Above(at) : i \in Nat /\ i < at
  BY <1>1 DEF Above
<1>6. Firsts(at) \subseteq Good(at) /\ Good(at) \subseteq Above(at)
  BY DEF Firsts, Good
<1>7. Firsts(at + 1) =
        IF /\ ~IsBlank(sheet[at]) /\ WellFormed(at)
           /\ \A k \in Good(at) : Id(k) # Id(at)
        THEN Firsts(at) \cup {at} ELSE Firsts(at)
  <2>1. \A i \in Good(at) : i \in Nat /\ i < at /\ ~ at < i
    BY <1>1, <1>5, <1>6
  <2>2. CASE ~ (~IsBlank(sheet[at]) /\ WellFormed(at))
    BY <1>4, <2>2 DEF Firsts
  <2>3. CASE ~IsBlank(sheet[at]) /\ WellFormed(at)
    <3>1. Good(at + 1) = Good(at) \cup {at} /\ ~ at < at
      BY <1>1, <1>4, <2>3
    <3>2. Firsts(at + 1) = Firsts(at) \cup {i \in {at} : \A k \in Good(at) : Id(k) # Id(i)}
      BY <2>1, <3>1 DEF Firsts
    <3> QED BY <2>3, <3>2
  <2> QED BY <2>2, <2>3
<1> QED BY <1>3, <1>4, <1>5, <1>6, <1>7

\* A row that is not a case keeps what was read so far: it is blank and has no
\* error, or it is bad or a duplicate and has one.
LEMMA PassedOver ==
  ASSUME IInv, AtRow, Go, UNCHANGED <<seen, cases>>, Id(at) \notin Markers,
         \/ IsBlank(sheet[at]) /\ errors' = errors
         \/ /\ ~IsBlank(sheet[at])
            /\ ~WellFormed(at) \/ Id(at) \in seen
            /\ AsError' = AsError \cup {at}
  PROVE  IInv'
<1>0. Shape /\ ReadSoFar
  BY DEF IInv
<1>1. /\ SameSheet /\ at' = at + 1 /\ phase' = phase /\ phase = "reading"
      /\ header > 0 /\ at <= Len(sheet)
  BY <1>0 DEF Go, SameSheet, AtRow, Shape
<1>2. Shape'
  <2>1. Len(sheet) \in Nat
    BY <1>0, SheetRows DEF Shape
  <2> QED BY <1>0, <1>1, <2>1 DEF Shape, SameSheet
<1>3. /\ \A i : Id(i)' = Id(i)
      /\ \A n : Above(n)' = Above(n) /\ Good(n)' = Good(n) /\ Firsts(n)' = Firsts(n)
  BY <1>1, SameRows
<1>4. /\ Above(at)' = Above(at + 1) /\ Good(at)' = Good(at + 1) /\ Firsts(at)' = Firsts(at + 1)
  BY <1>1, <1>3 DEF Above, IsBlank, Good, Firsts
<1>5. /\ \A k \in (header + 1)..(at - 1) : Id(k) \notin Markers
      /\ AsCase = Firsts(at) /\ seen = {Id(i) : i \in Good(at)}
      /\ AsCase \cap AsError = {} /\ AsCase \cup AsError = Above(at)
      /\ \A m, n \in DOMAIN cases : m < n => cases[m].row < cases[n].row
      /\ \A n \in DOMAIN cases : cases[n].test_id = Id(cases[n].row)
  BY <1>0, <1>1 DEF ReadSoFar
<1>6. \A k \in (header + 1)..at : Id(k) \notin Markers
  <2>1. \A k \in (header + 1)..at : k \in (header + 1)..(at - 1) \/ k = at
    BY <1>0 DEF Shape
  <2> QED BY <1>5, <2>1
<1>7. Firsts(at + 1) = Firsts(at) /\ seen = {Id(i) : i \in Good(at + 1)}
  <2>1. CASE IsBlank(sheet[at]) \/ ~WellFormed(at)
    BY <1>0, <1>5, <2>1, OneMore
  <2>2. CASE ~IsBlank(sheet[at]) /\ WellFormed(at) /\ Id(at) \in seen
    <3>1. \E k \in Good(at) : Id(k) = Id(at)
      BY <1>5, <2>2
    <3>2. Firsts(at + 1) = Firsts(at) /\ Good(at + 1) = Good(at) \cup {at}
      BY <1>0, <2>2, <3>1, OneMore
    <3> QED BY <1>5, <2>2, <3>2
  <2> QED BY <2>1, <2>2
<1>8. AsCase' = AsCase
  BY DEF AsCase
<1>9. AsCase' \cap AsError' = {} /\ AsCase' \cup AsError' = Above(at + 1)
  <2>1. at \notin AsCase
    BY <1>0, <1>5, OneMore
  <2>2. CASE IsBlank(sheet[at]) /\ errors' = errors
    <3>1. AsError' = AsError
      BY <2>2 DEF AsError
    <3> QED BY <1>0, <1>5, <1>8, <2>2, <3>1, OneMore
  <2>3. CASE ~IsBlank(sheet[at]) /\ AsError' = AsError \cup {at}
    BY <1>0, <1>5, <1>8, <2>1, <2>3, OneMore
  <2> QED BY <2>2, <2>3
<1>10. (\A k \in (header + 1)..(at - 1) : Id(k) \notin Markers)'
  <2>1. \A k : k \in (header + 1)..(at - 1)' => k \in (header + 1)..at
    BY <1>0, <1>1 DEF Shape, SameSheet
  <2> QED BY <1>1, <1>3, <1>6, <2>1 DEF SameSheet, Shape
<1>11. ReadSoFar'
  BY <1>1, <1>3, <1>4, <1>5, <1>7, <1>8, <1>9, <1>10 DEF ReadSoFar
<1> QED BY <1>2, <1>11 DEF IInv

\* A new case is the first good row with its id.
LEMMA CaseAdded == IInv /\ AddCase => IInv'
<1> SUFFICES ASSUME IInv, AddCase PROVE IInv'
  OBVIOUS
<1>0. Shape /\ ReadSoFar
  BY DEF IInv
<1>1. /\ SameSheet /\ at' = at + 1 /\ phase' = phase /\ phase = "reading"
      /\ header > 0 /\ at <= Len(sheet) /\ AtRow /\ errors' = errors
      /\ ~IsBlank(sheet[at]) /\ Id(at) \notin Markers /\ Id(at) # NoValue
      /\ Id(at) \notin seen /\ Rejected(at) = {} /\ seen' = seen \cup {Id(at)}
      /\ cases' = Append(cases, [test_id |-> Id(at), row |-> at])
  BY <1>0 DEF AddCase, IsNew, IsData, Go, SameSheet, AtRow, Shape
<1> DEFINE e == [test_id |-> Id(at), row |-> at]
           n == Len(cases)
<1>2. /\ Len(sheet) \in Nat /\ at \in Nat /\ at \in 1..Len(sheet) /\ header \in Nat
      /\ cases \in Seq([test_id : Cell, row : Nat])
  BY <1>0, <1>1, SheetRows DEF Shape
<1>3. e \in [test_id : Cell, row : Nat] /\ e.test_id = Id(at) /\ e.row = at
  BY <1>0, <1>1, <1>2, IdIsCell DEF Shape
<1> HIDE DEF e
<1>4. cases' = Append(cases, e)
  BY <1>1 DEF e
<1>5. /\ n \in Nat /\ DOMAIN cases = 1..n /\ DOMAIN cases' = 1..(n + 1)
      /\ cases' \in Seq([test_id : Cell, row : Nat])
      /\ cases'[n + 1] = e /\ \A k \in 1..n : cases'[k] = cases[k]
  BY <1>2, <1>3, <1>4, AppendProperties, LenProperties
<1>6. Shape'
  BY <1>0, <1>1, <1>2, <1>5 DEF Shape, SameSheet
<1>7. /\ \A i : Id(i)' = Id(i)
      /\ \A k : Above(k)' = Above(k) /\ Good(k)' = Good(k) /\ Firsts(k)' = Firsts(k)
  BY <1>1, SameRows
<1>8. /\ Above(at)' = Above(at + 1) /\ Good(at)' = Good(at + 1) /\ Firsts(at)' = Firsts(at + 1)
  BY <1>1, <1>7 DEF Above, IsBlank, Good, Firsts
<1>9. /\ \A k \in (header + 1)..(at - 1) : Id(k) \notin Markers
      /\ AsCase = Firsts(at) /\ seen = {Id(i) : i \in Good(at)}
      /\ AsCase \cap AsError = {} /\ AsCase \cup AsError = Above(at)
      /\ \A m, k \in DOMAIN cases : m < k => cases[m].row < cases[k].row
      /\ \A k \in DOMAIN cases : cases[k].test_id = Id(cases[k].row)
  BY <1>0, <1>1 DEF ReadSoFar
<1>10. (\A k \in (header + 1)..(at - 1) : Id(k) \notin Markers)'
  <2>1. \A k : k \in (header + 1)..(at' - 1) => k \in (header + 1)..(at - 1) \/ k = at
    BY <1>1, <1>2
  <2> QED BY <1>1, <1>7, <1>9, <2>1 DEF SameSheet
<1>11. /\ Firsts(at + 1) = Firsts(at) \cup {at} /\ Good(at + 1) = Good(at) \cup {at}
       /\ Above(at + 1) = Above(at) \cup {at}
  <2>1. WellFormed(at) /\ \A k \in Good(at) : Id(k) # Id(at)
    BY <1>1, <1>9 DEF WellFormed
  <2> QED BY <1>0, <1>1, <2>1, OneMore
<1>12. AsCase' = AsCase \cup {at} /\ AsError' = AsError
  <2>1. 1..(n + 1) = 1..n \cup {n + 1}
    BY <1>5
  <2>2. {cases'[k].row : k \in 1..(n + 1)}
          = {cases[k].row : k \in 1..n} \cup {cases'[n + 1].row}
    BY <1>5, <2>1
  <2>3. AsCase = {cases[k].row : k \in 1..n} /\ AsCase' = {cases'[k].row : k \in 1..(n + 1)}
    BY <1>5 DEF AsCase
  <2>4. AsError' = AsError
    BY <1>1 DEF AsError
  <2> QED BY <1>3, <1>5, <2>2, <2>3, <2>4
<1>13. at \notin Above(at) /\ \A i \in Above(at) : i < at
  BY <1>0, <1>1, OneMore
<1>14. \A m, k \in 1..(n + 1) : m < k => cases'[m].row < cases'[k].row
  <2>1. \A k \in 1..n : cases[k].row < at
    BY <1>5, <1>9, <1>13 DEF AsCase
  <2>2. ASSUME NEW m \in 1..(n + 1), NEW k \in 1..(n + 1), m < k
        PROVE  cases'[m].row < cases'[k].row
    <3>1. m \in 1..n /\ (k \in 1..n \/ k = n + 1)
      BY <1>5, <2>2
    <3> QED BY <1>3, <1>5, <1>9, <2>1, <2>2, <3>1
  <2> QED BY <2>2
<1>15. \A k \in 1..(n + 1) : cases'[k].test_id = Id(cases'[k].row)
  <2>1. \A k \in 1..(n + 1) : k \in 1..n \/ k = n + 1
    BY <1>5
  <2> QED BY <1>3, <1>5, <1>9, <2>1
<1>16. seen' = {Id(i) : i \in Good(at + 1)}
  BY <1>1, <1>9, <1>11
<1>17. AsCase' \cap AsError' = {} /\ AsCase' \cup AsError' = Above(at + 1)
  BY <1>9, <1>11, <1>12, <1>13
<1> HIDE DEF n
<1>18. ReadSoFar'
  <2>1. (\A m, k \in DOMAIN cases : m < k => cases[m].row < cases[k].row)'
    BY <1>5, <1>14
  <2>2. (\A k \in DOMAIN cases : cases[k].test_id = Id(cases[k].row))'
    BY <1>5, <1>7, <1>15
  <2>3. (AsCase = Firsts(at) /\ seen = {Id(i) : i \in Good(at)})'
    BY <1>7, <1>8, <1>9, <1>11, <1>12, <1>16
  <2>4. (AsCase \cap AsError = {} /\ AsCase \cup AsError = Above(at))'
    BY <1>8, <1>17
  <2>5. phase' = "reading"
    BY <1>1
  <2> QED BY <1>10, <2>1, <2>2, <2>3, <2>4, <2>5 DEF ReadSoFar
<1> QED BY <1>6, <1>18 DEF IInv

\* Before the first row below the header nothing was read.
LEMMA HeaderFound == IInv /\ FindHeader => IInv'
<1> SUFFICES ASSUME IInv, FindHeader PROVE IInv'
  OBVIOUS
<1>1. /\ Shape /\ phase = "opening" /\ HeaderRows # {} /\ header' = HeaderRow
      /\ phase' = "reading" /\ at' = HeaderRow + 1
      /\ UNCHANGED <<sheet, seen, cases, errors>>
  BY DEF IInv, FindHeader
<1>2. HeaderRow \in 1..Len(sheet) /\ Len(sheet) \in Nat
  BY <1>1, HeaderInSheet, SheetRows DEF Shape
<1>3. cases = <<>> /\ seen = {} /\ errors = {}
  BY <1>1 DEF Shape
<1>4. Shape'
  BY <1>1, <1>2, <1>3 DEF Shape
<1>6. (Above(at) = {})'
  BY <1>1, <1>2 DEF Above
<1>7. (Good(at) = {} /\ Firsts(at) = {})'
  BY <1>6 DEF Good, Firsts
<1>8. (AsCase = {} /\ AsError = {} /\ DOMAIN cases = {})'
  BY <1>1, <1>3, EmptySeq DEF AsCase, AsError
<1>9. ReadSoFar'
  BY <1>1, <1>2, <1>3, <1>6, <1>7, <1>8 DEF ReadSoFar
<1> QED BY <1>4, <1>9 DEF IInv

\* A reading that ends, at the results, below the last row or before it began,
\* leaves what was read.
LEMMA ReadingEnds ==
  ASSUME IInv, UNCHANGED <<sheet, header, columns, at, seen, cases>>,
         phase' \in {phase, "read", "raised"},
         header > 0 \/ phase' = "opening" => errors' = errors,
         phase' = "read" /\ phase # "read" /\ header > 0 =>
           at > Len(sheet) \/ Id(at) \in Markers
  PROVE  IInv'
<1>0. Shape /\ ReadSoFar
  BY DEF IInv
<1>1. Shape'
  BY <1>0 DEF Shape
<1>2. /\ \A i : Id(i)' = Id(i)
      /\ \A n : Above(n)' = Above(n) /\ Good(n)' = Good(n) /\ Firsts(n)' = Firsts(n)
  BY SameRows DEF SameSheet
<1>3. Above(at)' = Above(at) /\ Good(at)' = Good(at) /\ Firsts(at)' = Firsts(at)
  BY DEF Above, IsBlank, Good, Firsts, WellFormed, Rejected, Id, CellOf
<1>4. AsCase' = AsCase /\ (header > 0 => AsError' = AsError)
  BY DEF AsCase, AsError
<1>5. ReadSoFar'
  BY <1>0, <1>2, <1>3, <1>4 DEF ReadSoFar
<1> QED BY <1>1, <1>5 DEF IInv

\* The rows of the section above the next row are those that were read.
LEMMA SectionSoFar ==
  ASSUME IInv, header > 0
  PROVE  {i \in Section : i < at} = Above(at)
<1>1. /\ header \in Nat /\ at \in (header + 1)..(Len(sheet) + 1) /\ Len(sheet) \in Nat
      /\ \A k \in (header + 1)..(at - 1) : Id(k) \notin Markers
  BY SheetRows DEF IInv, Shape, ReadSoFar
<1>2. \A i \in (header + 1)..(at - 1) :
        /\ i \in (header + 1)..Len(sheet) /\ i < at
        /\ (header + 1)..i \subseteq (header + 1)..(at - 1)
  BY <1>1
<1>3. Above(at) \subseteq {i \in Section : i < at}
  BY <1>1, <1>2 DEF Above, Section
<1>4. \A i \in (header + 1)..Len(sheet) : i < at => i \in (header + 1)..(at - 1)
  BY <1>1
<1>5. {i \in Section : i < at} \subseteq Above(at)
  BY <1>4 DEF Above, Section
<1> QED BY <1>3, <1>5

\* Once a suite was read they are all of the section.
LEMMA SectionRead ==
  ASSUME IInv, phase = "read", header > 0
  PROVE  Section = Above(at)
<1>1. /\ header \in Nat /\ at \in (header + 1)..(Len(sheet) + 1) /\ Len(sheet) \in Nat
      /\ at > Len(sheet) \/ Id(at) \in Markers
  BY SheetRows DEF IInv, Shape, ReadSoFar
<1>2. ASSUME NEW i \in Section PROVE i < at
  <2>1. i \in (header + 1)..Len(sheet) /\ \A k \in (header + 1)..i : Id(k) \notin Markers
    BY DEF Section
  <2>2. i >= at => at \in (header + 1)..i
    BY <1>1, <2>1
  <2> QED BY <1>1, <2>1, <2>2
<1>3. Section = {i \in Section : i < at}
  BY <1>2
<1> QED BY <1>3, SectionSoFar

\* The invariant holds of every state of a reading.
LEMMA Invariance == Spec => []IInv
<1>1. Init => IInv
  <2> SUFFICES ASSUME Init PROVE IInv
    OBVIOUS
  <2>1. sheet \in Seq(Rows)
    <3>1. PICK n \in 0..MaxRows : sheet \in [1..n -> Rows]
      BY DEF Init
    <3>2. n \in Nat
      BY <3>1, SheetShape
    <3> QED BY <3>1, <3>2, SeqDef
  <2>2. cases \in Seq([test_id : Cell, row : Nat])
    BY EmptySeq DEF Init
  <2> QED BY <2>1, <2>2 DEF Init, IInv, Shape, ReadSoFar
<1>2. IInv /\ [Next]_vars => IInv'
  <2> SUFFICES ASSUME IInv, [Next]_vars PROVE IInv'
    OBVIOUS
  <2>0. Shape
    BY DEF IInv
  <2>1. CASE CannotOpen \/ NoHeader
    BY <2>0, <2>1, ReadingEnds DEF CannotOpen, NoHeader, Shape
  <2>2. CASE FindHeader
    BY <2>2, HeaderFound
  <2>3. CASE SkipBlank
    <3>1. CASE Id(at) \notin Markers
      BY <2>3, <3>1, PassedOver DEF SkipBlank
    <3>2. CASE Id(at) \in Markers
      <4>1. at \in 1..Len(sheet) /\ DOMAIN sheet[at] = 1..Len(sheet[at])
        BY <2>0, <2>3, SheetRows DEF SkipBlank, AtRow, Shape
      <4>2. Id(at) = NoValue
        BY <2>3, <4>1 DEF SkipBlank, IsBlank, Id, CellOf
      <4> QED BY <3>2, <4>2, SheetShape
    <3> QED BY <3>1, <3>2
  <2>4. CASE StopAtResults
    BY <2>0, <2>4, ReadingEnds DEF StopAtResults, AtRow, Shape
  <2>5. CASE EndOfRows
    BY <2>0, <2>5, ReadingEnds DEF EndOfRows, Shape
  <2>6. CASE RowRaises
    BY <2>0, <2>6, ReadingEnds DEF RowRaises, IsNew, IsData, AtRow
  <2>7. ASSUME NEW fields, fields # {},
               errors' = errors \cup {<<at, f>> : f \in fields}
        PROVE  AsError' = AsError \cup {at}
    <3>1. \A f : <<at, f>>[1] = at
      OBVIOUS
    <3> QED BY <2>7, <3>1 DEF AsError
  <2>8. CASE MissingId \/ DuplicateId
    <3>1. /\ AtRow /\ Go /\ UNCHANGED <<seen, cases>> /\ Id(at) \notin Markers
          /\ ~IsBlank(sheet[at]) /\ errors' = errors \cup {<<at, f>> : f \in {"test_id"}}
          /\ ~WellFormed(at) \/ Id(at) \in seen
      BY <2>8 DEF MissingId, DuplicateId, IsData, WellFormed
    <3>2. AsError' = AsError \cup {at}
      BY <2>7, <3>1
    <3> QED BY <3>1, <3>2, PassedOver
  <2>9. CASE RowErrors
    <3>1. /\ AtRow /\ Go /\ UNCHANGED <<seen, cases>> /\ Id(at) \notin Markers
          /\ ~IsBlank(sheet[at]) /\ errors' = errors \cup {<<at, f>> : f \in Rejected(at)}
          /\ Rejected(at) # {} /\ ~WellFormed(at)
      BY <2>9 DEF RowErrors, IsNew, IsData, WellFormed
    <3>2. AsError' = AsError \cup {at}
      BY <2>7, <3>1
    <3> QED BY <3>1, <3>2, PassedOver
  <2>10. CASE AddCase
    BY <2>10, CaseAdded
  <2>11. CASE UNCHANGED vars
    BY <2>11, ReadingEnds DEF vars
  <2> QED
    BY <2>1, <2>2, <2>3, <2>4, <2>5, <2>6, <2>8, <2>9, <2>10, <2>11 DEF Next
<1> QED BY <1>1, <1>2, PTL DEF Spec

-----------------------------------------------------------------------------
(* What a reading promises *)

\* The cases of a suite that was read are, in the order of the sheet, the first
\* well-formed row of every id above the results (read_test_suite, _parse_row):
\* no bad row takes an id away, and nothing the results writer appended counts.
THEOREM FirstGoodRows == Spec => []CasesAreFirstGoodRows
<1>1. ASSUME IInv, phase = "read", header > 0
      PROVE  /\ AsCase = {i \in Section : WellFormed(i) /\
                            \A k \in Section : k < i /\ WellFormed(k) => Id(k) # Id(i)}
             /\ \A m, n \in DOMAIN cases : m < n => cases[m].row < cases[n].row
             /\ \A n \in DOMAIN cases : cases[n].test_id = Id(cases[n].row)
  <2>1. Section = Above(at)
    BY <1>1, SectionRead
  <2>2. AsCase = Firsts(at)
    BY <1>1 DEF IInv, ReadSoFar
  <2>3. Good(at) = {i \in Section : WellFormed(i)}
    BY <2>1 DEF Good
  <2>4. Firsts(at) = {i \in Section : WellFormed(i) /\
                        \A k \in Section : k < i /\ WellFormed(k) => Id(k) # Id(i)}
    BY <2>3 DEF Firsts
  <2> QED BY <1>1, <2>2, <2>4 DEF IInv, ReadSoFar
<1>2. IInv => CasesAreFirstGoodRows
  BY <1>1 DEF CasesAreFirstGoodRows, AsCase
<1> QED BY <1>2, Invariance, PTL

\* "Each problem becomes a ParseError and the row is skipped" (suite.py): every
\* row of the section that was read is a case or has an error under its own
\* number, never both, and no other row has one.
THEOREM RowsAnswered == Spec => []EveryRowAnswered
<1>1. ASSUME IInv, header > 0
      PROVE  AsCase \cap AsError = {} /\ AsCase \cup AsError = {i \in Section : i < at}
  <2>1. {i \in Section : i < at} = Above(at)
    BY <1>1, SectionSoFar
  <2> QED BY <1>1, <2>1 DEF IInv, ReadSoFar
<1>2. IInv => EveryRowAnswered
  BY <1>1 DEF EveryRowAnswered, AsCase, AsError
<1> QED BY <1>2, Invariance, PTL

-----------------------------------------------------------------------------
(* Types *)

\* The columns found are the header row's, and the id's is among them.
LEMMA ColumnsMapped ==
  ASSUME sheet \in Seq(Rows), HeaderRows # {}
  PROVE  LET found == MapHeaders(sheet[HeaderRow])
         IN  /\ "test_id" \in DOMAIN found
             /\ \A f \in DOMAIN found : f \in Field /\ found[f] \in DOMAIN sheet[HeaderRow]
<1> DEFINE r == sheet[HeaderRow]
<1>1. HeaderRow \in HeaderRows /\ DOMAIN r \subseteq Nat
  BY HeaderInSheet, SheetRows
<1>2. "test_id" \in Field /\ \E k \in DOMAIN r : r[k] = "test_id"
  BY <1>1, SheetShape DEF HeaderRows, Field
<1> HIDE DEF r
<1>3. Named(r, "test_id") # {}
  BY <1>2, SheetShape DEF Named
<1>4. ASSUME NEW f \in Field, Named(r, f) # {} PROVE Min(Named(r, f)) \in DOMAIN r
  <2>1. Named(r, f) \subseteq DOMAIN r
    BY DEF Named
  <2>2. Min(Named(r, f)) \in Named(r, f)
    BY <1>1, <1>4, <2>1, MinIsMember
  <2> QED BY <2>1, <2>2
<1>5. /\ DOMAIN MapHeaders(r) = {f \in Field : Named(r, f) # {}}
      /\ \A f \in DOMAIN MapHeaders(r) : MapHeaders(r)[f] = Min(Named(r, f))
  BY DEF MapHeaders
<1> QED BY <1>2, <1>3, <1>4, <1>5 DEF r

\* A metadata value is a cell of the sheet.
LEMMA MetaIsCell ==
  ASSUME sheet \in Seq(Rows), HeaderRows # {}, NEW labels
  PROVE  MetaValue(labels) \in Cell \cup {NoValue}
<1>1. HeaderRow \in 1..Len(sheet) /\ Len(sheet) \in Nat
  BY HeaderInSheet, SheetRows
<1>2. CASE Supplying(labels) # {}
  <2> DEFINE i == Min(Supplying(labels))
  <2>1. Supplying(labels) \subseteq 1..Len(sheet) /\ Supplying(labels) \subseteq Nat
    BY <1>1 DEF Supplying
  <2>2. i \in Supplying(labels)
    BY <1>2, <2>1, MinIsMember
  <2> HIDE DEF i
  <2>3. i \in 1..Len(sheet) /\ Values(i) # {}
    BY <2>1, <2>2 DEF Supplying
  <2>4. sheet[i] \in Rows /\ Values(i) \subseteq DOMAIN sheet[i] /\ Values(i) \subseteq Nat
    BY <2>3, SheetRows DEF Values
  <2>5. Min(Values(i)) \in DOMAIN sheet[i]
    BY <2>3, <2>4, MinIsMember
  <2>6. sheet[i][Min(Values(i))] \in Cell
    BY <2>4, <2>5 DEF Cell
  <2> QED BY <1>2, <2>6 DEF MetaValue, i
<1> QED BY <1>2 DEF MetaValue

\* A new case has a new id, so cases and ids stay as many.
LEMMA IdsCounted ==
  ASSUME Shape, TypeOK, IsFiniteSet(seen), AddCase
  PROVE  /\ seen' = {cases'[n].test_id : n \in DOMAIN cases'}
         /\ IsFiniteSet(seen') /\ Cardinality(seen') = Len(cases')
<1> DEFINE e == [test_id |-> Id(at), row |-> at]
           n == Len(cases)
<1>1. /\ cases \in Seq([test_id : Cell, row : Nat]) /\ e.test_id = Id(at)
      /\ seen' = seen \cup {Id(at)} /\ Id(at) \notin seen
      /\ cases' = Append(cases, e) /\ Id(at) # NoValue
      /\ at \in 1..Len(sheet) /\ at \in Nat /\ sheet \in Seq(Rows)
  BY DEF AddCase, IsNew, IsData, AtRow, Shape
<1>2. e \in [test_id : Cell, row : Nat]
  BY <1>1, IdIsCell
<1> HIDE DEF e
<1>3. /\ n \in Nat /\ DOMAIN cases = 1..n /\ DOMAIN cases' = 1..(n + 1) /\ Len(cases') = n + 1
      /\ cases'[n + 1] = e /\ \A k \in 1..n : cases'[k] = cases[k]
  BY <1>1, <1>2, AppendProperties, LenProperties
<1>4. 1..(n + 1) = 1..n \cup {n + 1}
  BY <1>3
<1>5. {cases'[k].test_id : k \in 1..(n + 1)} = {cases[k].test_id : k \in 1..n} \cup {Id(at)}
  BY <1>1, <1>3, <1>4
<1>6. seen = {cases[k].test_id : k \in 1..n} /\ Cardinality(seen) = n
  BY <1>3 DEF TypeOK
<1>7. IsFiniteSet(seen \cup {Id(at)}) /\ Cardinality(seen \cup {Id(at)}) = n + 1
  BY <1>1, <1>6, FS_AddElement
<1> QED BY <1>1, <1>3, <1>5, <1>6, <1>7

\* Every step keeps the variables in shape.
LEMMA TypeKept ==
  ASSUME Shape, TypeOK, IsFiniteSet(seen), [Next]_vars
  PROVE  TypeOK' /\ IsFiniteSet(seen)'
<1>0. Len(sheet) \in Nat
  BY SheetRows DEF Shape
<1>1. CASE CannotOpen \/ NoHeader
  BY <1>0, <1>1 DEF CannotOpen, NoHeader, Shape, TypeOK
<1>2. CASE FindHeader
  <2>1. HeaderRow \in 1..Len(sheet)
    BY <1>2, HeaderInSheet DEF FindHeader, Shape
  <2>2. /\ "test_id" \in DOMAIN columns'
        /\ \A f \in DOMAIN columns' : f \in Field /\ columns'[f] \in DOMAIN sheet'[header']
    BY <1>2, ColumnsMapped DEF FindHeader, Shape
  <2>3. {base', logs'} \subseteq Cell \cup {NoValue}
    BY <1>2, MetaIsCell DEF FindHeader, Shape
  <2>4. /\ header' \in 0..Len(sheet) /\ at' \in 0..(Len(sheet) + 1) /\ phase' = "reading"
        /\ UNCHANGED <<sheet, seen, cases, errors>>
    BY <1>0, <1>2, <2>1 DEF FindHeader
  <2> QED BY <2>2, <2>3, <2>4 DEF TypeOK
<1>3. ASSUME AtRow, Go, UNCHANGED <<seen, cases>>,
             errors' \subseteq errors \cup ({at} \X Field)
      PROVE  TypeOK' /\ IsFiniteSet(seen)'
  <2>1. at \in 1..Len(sheet) /\ at' \in 0..(Len(sheet) + 1)
    BY <1>0, <1>3 DEF AtRow, Go, Shape
  <2>2. errors' \subseteq (0..Len(sheet)) \X (Field \cup {"file", "header"})
    BY <1>0, <1>3, <2>1 DEF TypeOK
  <2> QED BY <1>3, <2>1, <2>2 DEF Go, TypeOK
<1>4. CASE SkipBlank \/ MissingId \/ DuplicateId \/ RowErrors
  <2>1. "test_id" \in Field
    BY SheetShape DEF Field
  <2>2. AtRow /\ Go /\ UNCHANGED <<seen, cases>>
    BY <1>4 DEF SkipBlank, MissingId, DuplicateId, RowErrors, IsNew, IsData
  <2>3. CASE SkipBlank
    BY <1>3, <2>2, <2>3 DEF SkipBlank
  <2>4. CASE MissingId \/ DuplicateId
    <3>1. errors' = errors \cup {<<at, "test_id">>}
      BY <2>4 DEF MissingId, DuplicateId
    <3>2. errors' \subseteq errors \cup ({at} \X Field)
      BY <2>1, <3>1
    <3> QED BY <1>3, <2>2, <3>2
  <2>5. CASE RowErrors
    <3>1. errors' = errors \cup {<<at, f>> : f \in Rejected(at)}
      BY <2>5 DEF RowErrors
    <3>2. Rejected(at) \subseteq Field
      BY DEF Rejected
    <3>3. errors' \subseteq errors \cup ({at} \X Field)
      BY <3>1, <3>2
    <3> QED BY <1>3, <2>2, <3>3
  <2> QED BY <1>4, <2>3, <2>4, <2>5
<1>5. CASE AddCase
  <2>1. /\ UNCHANGED <<sheet, phase, header, columns, base, logs, errors>>
        /\ at' \in 0..(Len(sheet) + 1)
    BY <1>0, <1>5 DEF AddCase, IsNew, IsData, AtRow, Go, Shape
  <2> QED BY <1>5, <2>1, IdsCounted DEF TypeOK
<1>6. CASE StopAtResults \/ RowRaises \/ EndOfRows \/ UNCHANGED vars
  BY <1>6 DEF StopAtResults, RowRaises, EndOfRows, vars, TypeOK
<1> QED BY <1>1, <1>2, <1>4, <1>5, <1>6 DEF Next

\* The variables keep their shapes: the columns are those of the header row, the
\* id's among them, and no two cases share an id.
THEOREM TypeCorrect == Spec => []TypeOK
<1> DEFINE Typed == TypeOK /\ IsFiniteSet(seen)
<1>1. Init => Typed
  <2> SUFFICES ASSUME Init PROVE Typed
    OBVIOUS
  <2>1. sheet \in Seq(Rows)
    <3>1. PICK n \in 0..MaxRows : sheet \in [1..n -> Rows]
      BY DEF Init
    <3>2. n \in Nat
      BY <3>1, SheetShape
    <3> QED BY <3>1, <3>2, SeqDef
  <2>2. Len(sheet) \in Nat
    BY <2>1, SheetRows
  <2>3. IsFiniteSet({}) /\ Cardinality({}) = 0 /\ Len(<<>>) = 0 /\ DOMAIN <<>> = {}
    BY FS_EmptySet, EmptySeq
  <2> QED BY <2>2, <2>3 DEF Init, TypeOK
<1>2. IInv /\ Typed /\ [Next]_vars => Typed'
  BY TypeKept DEF IInv
<1>3. Typed => TypeOK
  OBVIOUS
<1> HIDE DEF Typed
<1> QED BY <1>1, <1>2, <1>3, Invariance, PTL DEF Spec

-----------------------------------------------------------------------------
(* The download: the inductive invariant *)

\* What each place of the control tells of the counters and tokens.
Control ==
  /\ pc \in {"idle", "token", "posting", "issued", "sending", "sleeping"} =>
       attempt < MaxRetries /\ asked = attempt
  /\ pc = "idle" => wanted = "version"
  /\ pc \in {"sleeping", "done"} => wanted = "log"
  /\ pc = "issued" => granted # NoToken
  /\ pc = "sending" => token # NoToken
  /\ pc = "raised" => fatal \/ asked = MaxRetries

\* How long a token can be used after it was received.
UsableFor(t) == IF t.ttl > Skew THEN t.ttl - Skew ELSE 0

\* A token was received at most Delay after it was issued, and the request
\* under way left while it was usable, or as soon as it was received.
Life ==
  /\ UnderWay => now <= sent + Delay
  /\ pc = "issued" => sent <= granted.dies - granted.ttl
  /\ token # NoToken =>
       /\ expires - UsableFor(token) <= now
       /\ expires - UsableFor(token) <= token.dies - token.ttl + Delay
  /\ pc = "sending" => sent < expires \/ sent <= token.dies - token.ttl + Delay

\* Tokens are numbered in the order they are issued; of the rejected ones at
\* most the cached one could still be sent, and then it is to be refreshed.
Numbers ==
  /\ token # NoToken => granted # NoToken /\ token.n <= granted.n
  /\ pc = "issued" /\ token # NoToken => token.n < granted.n
  /\ \A r \in rejected : token # NoToken /\ r <= token.n
  /\ token # NoToken /\ token.n \in rejected => ForceRefresh /\ pc # "sending"

\* The log is asked for by a version that is not older than the download.
Versions == wanted = "log" => version >= first

-----------------------------------------------------------------------------

\* Every step keeps the variables in shape.
LEMMA DownloadTypeKept ==
  DownloadTypeOK /\ Control /\ [DownloadNext]_download_vars => DownloadTypeOK'
<1> USE SourceShape
<1> SUFFICES ASSUME DownloadTypeOK, Control, [DownloadNext]_download_vars PROVE DownloadTypeOK'
  OBVIOUS
<1> USE DEF DownloadTypeOK, Control
<1>1. CASE Begin
  BY <1>1 DEF Begin, provider, platform
<1>2. CASE UseCachedToken
  BY <1>2 DEF UseCachedToken, provider, platform, history
<1>3. CASE PostCredentials
  BY <1>3 DEF PostCredentials, provider, platform, history
<1>4. CASE TokenIssued
  <2>1. granted' \in Token
    BY <1>4 DEF TokenIssued, Token
  <2> QED BY <1>4, <2>1 DEF TokenIssued, provider, history
<1>5. CASE TokenReceived
  <2>1. granted \in Token /\ granted.ttl \in Nat
    BY <1>5 DEF TokenReceived, Token
  <2>2. ExpiresAt(granted) \in Nat
    BY <2>1 DEF ExpiresAt
  <2> QED BY <1>5, <2>1, <2>2 DEF TokenReceived, platform, history
<1>6. CASE Raise
  BY <1>6 DEF Raise, provider, platform
<1>7. CASE VersionFound
  BY <1>7 DEF VersionFound, CurrentVersion, provider, platform, history
<1>8. CASE LogDownloaded
  BY <1>8 DEF LogDownloaded, provider, platform
<1>9. CASE LogNotYet
  <2>1. token.n \in Nat
    BY <1>9 DEF LogNotYet, Token
  <2>2. last_status' \in Status /\ rejected' \subseteq Nat
    BY <1>9, <2>1 DEF LogNotYet, Transient, Status
  <2> QED BY <1>9, <2>2 DEF LogNotYet, provider, platform
<1>10. CASE WakeUp
  BY <1>10 DEF WakeUp, provider, platform, history
<1>11. CASE Tick
  BY <1>11 DEF Tick, provider, snapshot, history
<1>12. CASE Revoke
  BY <1>12 DEF Revoke, Token, provider, snapshot, history
<1>13. CASE Redeploy
  BY <1>13 DEF Redeploy, provider, snapshot, history
<1>14. CASE RedeployDone
  BY <1>14 DEF RedeployDone, provider, snapshot, history
<1>15. CASE UNCHANGED download_vars
  BY <1>15 DEF download_vars, provider, snapshot, platform, history
<1> QED
  BY <1>1, <1>2, <1>3, <1>4, <1>5, <1>6, <1>7, <1>8, <1>9, <1>10, <1>11, <1>12, <1>13,
     <1>14, <1>15
  DEF DownloadNext, SourceStep, TokenDenied, VersionNotFound, LogRefused

\* Every step keeps what the source relies on where it stands.
LEMMA ControlKept == DownloadTypeOK /\ Control /\ [DownloadNext]_download_vars => Control'
<1> USE SourceShape
<1> SUFFICES ASSUME DownloadTypeOK, Control, [DownloadNext]_download_vars PROVE Control'
  OBVIOUS
<1> USE DEF DownloadTypeOK, Control
<1>1. CASE Begin
  BY <1>1 DEF Begin, provider, platform
<1>2. CASE UseCachedToken
  BY <1>2 DEF UseCachedToken, Usable, provider, platform, history
<1>3. CASE PostCredentials
  BY <1>3 DEF PostCredentials, provider, platform, history
<1>4. CASE TokenIssued
  <2>1. granted' \in Token
    BY <1>4 DEF TokenIssued, Token
  <2>2. granted' # NoToken
    BY <2>1 DEF Token
  <2> QED BY <1>4, <2>2 DEF TokenIssued, provider, history
<1>5. CASE TokenReceived
  BY <1>5 DEF TokenReceived, platform, history
<1>6. CASE Raise
  BY <1>6 DEF Raise, provider, platform
<1>7. CASE VersionFound
  BY <1>7 DEF VersionFound, provider, platform, history
<1>8. CASE LogDownloaded
  BY <1>8 DEF LogDownloaded, provider, platform
<1>9. CASE LogNotYet
  BY <1>9 DEF LogNotYet, provider, platform
<1>10. CASE WakeUp
  BY <1>10 DEF WakeUp, provider, platform, history
<1>11. CASE Tick
  BY <1>11 DEF Tick, provider, snapshot, history
<1>12. CASE Revoke
  BY <1>12 DEF Revoke, provider, snapshot, history
<1>13. CASE Redeploy
  BY <1>13 DEF Redeploy, provider, snapshot, history
<1>14. CASE RedeployDone
  BY <1>14 DEF RedeployDone, provider, snapshot, history
<1>15. CASE UNCHANGED download_vars
  BY <1>15 DEF download_vars, provider, snapshot, platform, history
<1> QED
  BY <1>1, <1>2, <1>3, <1>4, <1>5, <1>6, <1>7, <1>8, <1>9, <1>10, <1>11, <1>12, <1>13,
     <1>14, <1>15
  DEF DownloadNext, SourceStep, TokenDenied, VersionNotFound, LogRefused

\* The tokens in play, with their numbers.
LEMMA TokensTyped ==
  ASSUME DownloadTypeOK
  PROVE  /\ token # NoToken => token.n \in Nat /\ token.dies \in Nat /\ token.ttl \in Nat
         /\ granted # NoToken =>
              granted.n \in Nat /\ granted.dies \in Nat /\ granted.ttl \in Nat
  BY SourceShape DEF DownloadTypeOK, Token

\* Every step keeps the bounds on how old a token may be.
LEMMA LifeKept == DownloadTypeOK /\ Control /\ Life /\ [DownloadNext]_download_vars => Life'
<1> USE SourceShape
<1> SUFFICES ASSUME DownloadTypeOK, Control, Life, [DownloadNext]_download_vars PROVE Life'
  OBVIOUS
<1>0. /\ now \in Nat /\ sent \in Nat /\ expires \in Nat /\ sent <= now
      /\ token # NoToken => token.dies \in Nat /\ token.ttl \in Nat /\ UsableFor(token) \in Nat
      /\ granted # NoToken => granted.dies \in Nat /\ granted.ttl \in Nat
  BY TokensTyped DEF DownloadTypeOK, UsableFor
<1> USE <1>0 DEF Life, UnderWay
<1>1. CASE Begin
  BY <1>1 DEF Begin, provider, platform
<1>2. CASE UseCachedToken
  BY <1>2 DEF UseCachedToken, Usable, provider, platform, history
<1>3. CASE PostCredentials
  BY <1>3 DEF PostCredentials, provider, platform, history
<1>4. CASE TokenIssued
  <2>1. PICK ttl \in Lifetimes : granted'.dies = now + ttl /\ granted'.ttl = ttl
    BY <1>4 DEF TokenIssued
  <2>2. sent <= granted'.dies - granted'.ttl
    BY <2>1
  <2> QED BY <1>4, <2>2 DEF TokenIssued, provider, history
<1>5. CASE TokenReceived
  <2> HIDE DEF Life
  <2>1. /\ granted # NoToken /\ now <= sent + Delay /\ sent <= granted.dies - granted.ttl
    BY <1>5 DEF TokenReceived, Control, Life
  <2>2. expires' = now + UsableFor(granted) /\ UsableFor(granted) \in Nat
    BY <1>5, <2>1 DEF TokenReceived, ExpiresAt, UsableFor
  <2>3. /\ token' = granted /\ now' = now /\ granted' = granted
        /\ sent' = now /\ pc' = "sending"
    BY <1>5 DEF TokenReceived, platform
  <2> QED BY <2>1, <2>2, <2>3 DEF Life, UsableFor
<1>6. CASE Raise
  BY <1>6 DEF Raise, provider, platform
<1>7. CASE VersionFound
  BY <1>7 DEF VersionFound, provider, platform, history
<1>8. CASE LogDownloaded
  BY <1>8 DEF LogDownloaded, provider, platform
<1>9. CASE LogNotYet
  BY <1>9 DEF LogNotYet, provider, platform
<1>10. CASE WakeUp
  BY <1>10 DEF WakeUp, provider, platform, history
<1>11. CASE Tick
  BY <1>11 DEF Tick, provider, snapshot, history
<1>12. CASE Revoke
  BY <1>12 DEF Revoke, provider, snapshot, history
<1>13. CASE Redeploy
  BY <1>13 DEF Redeploy, provider, snapshot, history
<1>14. CASE RedeployDone
  BY <1>14 DEF RedeployDone, provider, snapshot, history
<1>15. CASE UNCHANGED download_vars
  BY <1>15 DEF download_vars, provider, snapshot, platform, history
<1> QED
  BY <1>1, <1>2, <1>3, <1>4, <1>5, <1>6, <1>7, <1>8, <1>9, <1>10, <1>11, <1>12, <1>13,
     <1>14, <1>15
  DEF DownloadNext, SourceStep, TokenDenied, VersionNotFound, LogRefused

\* Every step keeps the tokens' numbers apart.
LEMMA NumbersKept ==
  DownloadTypeOK /\ Control /\ Numbers /\ [DownloadNext]_download_vars => Numbers'
<1> USE SourceShape
<1> SUFFICES ASSUME DownloadTypeOK, Control, Numbers, [DownloadNext]_download_vars
             PROVE  Numbers'
  OBVIOUS
<1>0. /\ token # NoToken => token.n \in Nat
      /\ granted # NoToken => granted.n \in Nat
      /\ rejected \subseteq Nat /\ attempt \in Nat
  BY TokensTyped DEF DownloadTypeOK
<1> USE <1>0 DEF Numbers, ForceRefresh
<1>1. CASE Begin
  BY <1>1 DEF Begin, provider, platform
<1>2. CASE UseCachedToken
  BY <1>2 DEF UseCachedToken, provider, platform, history
<1>3. CASE PostCredentials
  BY <1>3 DEF PostCredentials, provider, platform, history
<1>4. CASE TokenIssued
  <2>1. granted' \in Token /\ granted'.n = IF granted = NoToken THEN 1 ELSE granted.n + 1
    BY <1>4 DEF TokenIssued, Token, DownloadTypeOK
  <2>2. granted' # NoToken
    BY <2>1 DEF Token
  <2>3. token # NoToken => token.n < granted'.n
    BY <2>1
  <2> QED BY <1>4, <2>2, <2>3 DEF TokenIssued, provider, history
<1>5. CASE TokenReceived
  <2>1. granted # NoToken /\ token' = granted /\ granted' = granted
    BY <1>5 DEF TokenReceived, Control, platform
  <2>2. rejected' = rejected /\ \A r \in rejected : r < granted.n
    BY <1>5, <2>1 DEF TokenReceived, history
  <2>3. granted.n \notin rejected /\ \A r \in rejected : r <= granted.n
    BY <2>1, <2>2
  <2>4. pc' = "sending"
    BY <1>5 DEF TokenReceived
  <2> QED BY <2>1, <2>2, <2>3, <2>4
<1>6. CASE Raise
  BY <1>6 DEF Raise, provider, platform
<1>7. CASE VersionFound
  BY <1>7 DEF VersionFound, provider, platform, history
<1>8. CASE LogDownloaded
  BY <1>8 DEF LogDownloaded, provider, platform
<1>9. CASE LogNotYet
  <2>1. /\ token # NoToken /\ token' = token /\ granted' = granted
        /\ wanted' = "log" /\ attempt' > 0 /\ pc' \in {"sleeping", "raised"}
    BY <1>9 DEF LogNotYet, Control, provider, platform
  <2>2. \/ rejected' = rejected
        \/ last_status' = "401" /\ rejected' = rejected \cup {token.n}
    BY <1>9 DEF LogNotYet
  <2>3. token.n \notin rejected /\ token.n \in Nat /\ \A r \in rejected : r <= token.n
    BY <1>9, <2>1 DEF LogNotYet
  <2>4. ASSUME NEW r \in rejected' PROVE r <= token.n
    <3> HIDE DEF Numbers, ForceRefresh
    <3>1. CASE r \in rejected
      BY <2>3, <3>1
    <3>2. CASE r = token.n
      BY <2>3, <3>2
    <3> QED BY <2>2, <3>1, <3>2
  <2>5. token.n \in rejected' => last_status' = "401"
    BY <2>2, <2>3
  <2> QED BY <2>1, <2>4, <2>5
<1>10. CASE WakeUp
  BY <1>10 DEF WakeUp, provider, platform, history
<1>11. CASE Tick
  BY <1>11 DEF Tick, provider, snapshot, history
<1>12. CASE Revoke
  BY <1>12 DEF Revoke, provider, snapshot, history
<1>13. CASE Redeploy
  BY <1>13 DEF Redeploy, provider, snapshot, history
<1>14. CASE RedeployDone
  BY <1>14 DEF RedeployDone, provider, snapshot, history
<1>15. CASE UNCHANGED download_vars
  BY <1>15 DEF download_vars, provider, snapshot, platform, history
<1> QED
  BY <1>1, <1>2, <1>3, <1>4, <1>5, <1>6, <1>7, <1>8, <1>9, <1>10, <1>11, <1>12, <1>13,
     <1>14, <1>15
  DEF DownloadNext, SourceStep, TokenDenied, VersionNotFound, LogRefused

\* Every step keeps the version asked for a current one.
LEMMA VersionsKept ==
  DownloadTypeOK /\ Control /\ Versions /\ [DownloadNext]_download_vars => Versions'
<1> SUFFICES ASSUME DownloadTypeOK, Control, Versions, [DownloadNext]_download_vars
             PROVE  Versions'
  OBVIOUS
<1> USE DEF DownloadTypeOK, Control, Versions
<1>1. CASE Begin
  BY <1>1 DEF Begin
<1>2. CASE VersionFound
  BY <1>2 DEF VersionFound, CurrentVersion, history
<1>3. CASE UNCHANGED <<wanted, version, first>>
  BY <1>3
<1> QED
  BY <1>1, <1>2, <1>3
  DEF DownloadNext, SourceStep, TokenDenied, VersionNotFound, LogRefused, Raise, UseCachedToken,
     PostCredentials, TokenIssued, TokenReceived, LogDownloaded, LogNotYet, WakeUp, Tick,
     Revoke, Redeploy, RedeployDone, snapshot, history, download_vars

-----------------------------------------------------------------------------
(* The download: the results *)

DownloadInv == DownloadTypeOK /\ Control /\ Life /\ Numbers /\ Versions

\* The invariant holds of every state a download reaches.
LEMMA DownloadInvariance == DownloadSpec => []DownloadInv
<1>1. DownloadInit => DownloadInv
  <2> SUFFICES ASSUME DownloadInit PROVE DownloadInv
    OBVIOUS
  <2> USE SourceShape DEF DownloadInit
  <2>1. DownloadTypeOK
    <3>1. attempt \in 0..MaxRetries /\ asked \in 0..MaxRetries /\ now \in 0..MaxNow
      OBVIOUS
    <3>2. desired \in 1..(MaxDeploys + 1) /\ running \in 1..desired /\ first \in 1..desired
      OBVIOUS
    <3>3. version \in 0..desired /\ sent \in 0..now /\ expires \in Nat
      OBVIOUS
    <3>4. /\ token \in Token \cup {NoToken} /\ granted \in Token \cup {NoToken}
          /\ revoked \subseteq Nat /\ rejected \subseteq Nat
      OBVIOUS
    <3>5. pc = "idle" /\ wanted = "version" /\ last_status = "none" /\ fatal = FALSE
      OBVIOUS
    <3> HIDE DEF DownloadInit
    <3> QED BY <3>1, <3>2, <3>3, <3>4, <3>5 DEF DownloadTypeOK, Status
  <2>2. Control /\ Versions
    BY DEF Control, Versions
  <2>3. Life /\ Numbers
    BY DEF Life, Numbers, UnderWay
  <2> QED BY <2>1, <2>2, <2>3 DEF DownloadInv
<1>2. DownloadInv /\ [DownloadNext]_download_vars => DownloadInv'
  BY DownloadTypeKept, ControlKept, LifeKept, NumbersKept, VersionsKept DEF DownloadInv
<1> QED BY <1>1, <1>2, PTL DEF DownloadSpec

\* Every variable keeps its shape; the log file is requested at most
\* _MAX_RETRIES times, for every number of retries.
THEOREM DownloadTyped == DownloadSpec => []DownloadTypeOK
  BY DownloadInvariance, PTL DEF DownloadInv

\* No request for a log carries a token that is known to be dead: none whose
\* life outlasts the two trips has expired when the request arrives, provided
\* the skew covers them, and none that was answered with a 401 is sent again.
THEOREM TokensAlive == DownloadSpec => []DeadNeverPresented
<1>1. DownloadInv => DeadNeverPresented
  <2> SUFFICES ASSUME DownloadInv, pc = "sending"
               PROVE  /\ 2 * Delay <= Skew /\ 2 * Delay < token.ttl => now < token.dies
                      /\ token.n \notin rejected
    BY DEF DeadNeverPresented
  <2>1. token # NoToken /\ token.n \notin rejected
    BY DEF DownloadInv, Control, Numbers
  <2>2. /\ now \in Nat /\ sent \in Nat /\ expires \in Nat
        /\ token.dies \in Nat /\ token.ttl \in Nat /\ Delay \in Nat /\ Skew \in Nat
    BY <2>1, TokensTyped, SourceShape DEF DownloadInv, DownloadTypeOK
  <2>3. /\ now <= sent + Delay
        /\ expires - UsableFor(token) <= now
        /\ expires - UsableFor(token) <= token.dies - token.ttl + Delay
        /\ sent < expires \/ sent <= token.dies - token.ttl + Delay
    BY <2>1 DEF DownloadInv, Life, UnderWay
  <2>4. ASSUME 2 * Delay <= Skew, 2 * Delay < token.ttl PROVE now < token.dies
    <3>1. CASE sent <= token.dies - token.ttl + Delay
      BY <2>2, <2>3, <2>4, <3>1
    <3>2. CASE sent < expires /\ token.ttl > Skew
      BY <2>2, <2>3, <2>4, <3>2 DEF UsableFor
    <3>3. CASE sent < expires /\ token.ttl <= Skew
      BY <2>2, <2>3, <2>4, <3>3 DEF UsableFor
    <3> QED BY <2>2, <2>3, <3>1, <3>2, <3>3
  <2> QED BY <2>1, <2>4
<1> QED BY <1>1, DownloadInvariance, PTL

\* The log that is returned is never of a spec older than the one the
\* deployment was told to run when the snapshot began.
THEOREM VersionFresh == DownloadSpec => []FreshVersion
<1>1. DownloadInv => FreshVersion
  BY DEF DownloadInv, Control, Versions, FreshVersion
<1> QED BY <1>1, DownloadInvariance, PTL

\* Throttling and rejected tokens alone make a snapshot fail only after
\* _MAX_RETRIES requests for the log.
THEOREM AttemptsUsed == DownloadSpec => []GivesUpLast
<1>1. DownloadInv => GivesUpLast
  BY DEF DownloadInv, Control, GivesUpLast
<1> QED BY <1>1, DownloadInvariance, PTL

=============================================================================
