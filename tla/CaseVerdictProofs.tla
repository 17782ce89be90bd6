------------------------- MODULE CaseVerdictProofs --------------------------
(***************************************************************************)
(* Proofs about CaseVerdict, for documents nested in any way, any paths to *)
(* ignore, and logs of any instances and any length.                       *)
(***************************************************************************)
EXTENDS CaseVerdict, WellFoundedInduction, TLAPS

-----------------------------------------------------------------------------
(* The inductive invariant *)

\* The id a line is under: the last id shown up to it, with no fresh event since.
LastShown(instance, n, id) ==
  \E h \in 1..n : /\ instance[h].id = id
                  /\ \A m \in (h + 1)..n : instance[m].id = NoId /\ ~instance[m].stamped

Scanned == {l \in all_lines : l[1] < at[1] \/ (l[1] = at[1] /\ l[2] < at[2])}

Under(lines, id) == {l \in lines : LastShown(log[l[1]], l[2], id)}

Place ==
  /\ log \in Seq(Seq(LogLine))
  /\ \A i \in DOMAIN log : WellWritten(log[i])
  /\ at \in Nat \X Nat /\ at[1] > 0 /\ at[2] > 0
  /\ IF at[1] \in DOMAIN log THEN at[2] <= Len(log[at[1]]) + 1
     ELSE at = <<Len(log) + 1, 1>>

Indexes ==
  /\ DOMAIN index \subseteq Ids
  /\ \A id \in DOMAIN index : index[id] \in Seq(Nat \X Nat)

\* The id carried along is the one the line before is under.
Carried ==
  /\ current \in Ids \cup {NoId}
  /\ \A id \in Ids : current = id <=> LastShown(log[at[1]], at[2] - 1, id)

\* What is indexed under an id is what has been scanned and is under it.
IndexedSoFar == \A id \in Ids : lines_for(id) = Under(Scanned, id)

BeforeLogs ==
  pc \in {"answered", "asserted", "waiting"} =>
    at = <<1, 1>> /\ current = NoId /\ DOMAIN index = {}

ScannedAll == pc = "judged" => at[1] = Len(log) + 1

ScanInv ==
  /\ Place /\ Indexes /\ Carried /\ IndexedSoFar
  /\ BeforeLogs /\ ScannedAll /\ LogVerdictIsEarned

\* Until it waits for its logs a case is there, and the diffs are of its bodies.
CaseInv ==
  /\ pc \in {"answered", "asserted"} =>
       case \in [expected : ExpectedDocs, actual : ActualDocs, ignore : IgnorePaths,
                mode : Mode]
  /\ Compared => response.diffs = compare(PrunedExpected(case), PrunedActual(case),
                                          case.mode = "json_subset")

Inv == ScanInv /\ CaseInv

-----------------------------------------------------------------------------
(* Numbers and sequences *)

NatOrder == {p \in Nat \X Nat : p[1] < p[2]}

\* Every set of numbers that is not empty has a least one.
LEMMA LeastElement ==
  ASSUME NEW S, S \subseteq Nat, S # {}
  PROVE  \E m \in S : \A k \in S : m <= k
<1>1. IsWellFoundedOn(NatOrder, Nat)
  <2>1. NatOrder = OpToRel(<, Nat)
    BY DEF NatOrder, OpToRel
  <2> QED BY <2>1, NatLessThanWellFounded
<1>2. PICK m \in S : \A k \in S : ~ <<k, m>> \in NatOrder
  BY <1>1, WFMin
<1>3. ASSUME NEW k \in S PROVE m <= k
  <2>1. k \in Nat /\ m \in Nat
    OBVIOUS
  <2>2. <<k, m>> \in Nat \X Nat /\ ~ <<k, m>> \in NatOrder
    BY <1>2, <2>1
  <2> QED BY <2>1, <2>2 DEF NatOrder
<1> QED BY <1>3

\* A sequence that is not empty has a first element.
LEMMA FirstPlace ==
  ASSUME NEW S, NEW s \in Seq(S)
  PROVE  s = <<>> \/ 1 \in DOMAIN s
<1>1. DOMAIN s = 1..Len(s) /\ Len(s) \in Nat
  OBVIOUS
<1>2. CASE Len(s) = 0
  BY <1>2
<1>3. CASE Len(s) # 0
  BY <1>1, <1>3
<1> QED BY <1>2, <1>3

-----------------------------------------------------------------------------
(* The matcher *)

\* What a document can be.
LEMMA Kinds ==
  ASSUME NEW d \in Docs
  PROVE  /\ DocDepth(d) \in Nat
         /\ "at" \notin DOMAIN d
         /\ IsObj(d) => /\ ~IsList(d) /\ d # ANY_VALUE
                        /\ \A k \in DOMAIN d.fields : d.fields[k] \in Docs
                                                     /\ DocDepth(d.fields[k]) < DocDepth(d)
         /\ IsList(d) => /\ ~IsObj(d) /\ d # ANY_VALUE /\ d.items \in Seq(Docs)
                         /\ d = List(d.items)
                         /\ \A n \in DOMAIN d.items : d.items[n] \in Docs
                                                     /\ DocDepth(d.items[n]) < DocDepth(d)
         /\ ~IsObj(d) /\ ~IsList(d) => d = ANY_VALUE \/ \E v : d = Scalar(v)
<1>1. CASE d = ANY_VALUE
  <2>1. DOMAIN d = {"any"}
    BY <1>1 DEF ANY_VALUE
  <2> QED BY <1>1, <2>1, DocsOK DEF IsObj, IsList
<1>2. CASE \E v \in {"value"} \cap DOMAIN d : d = Scalar(d[v])
  <2>1. PICK w : d = Scalar(w)
    BY <1>2
  <2>2. DOMAIN d = {"value"}
    BY <2>1 DEF Scalar
  <2> QED BY <2>1, <2>2, DocsOK DEF IsObj, IsList
<1>3. CASE IsObj(d) /\ d = Obj([k \in DOMAIN d.fields |-> d.fields[k]])
           /\ \A k \in DOMAIN d.fields : d.fields[k] \in Docs
                                         /\ DocDepth(d.fields[k]) < DocDepth(d)
  <2>1. DOMAIN d = {"fields"}
    BY <1>3 DEF Obj
  <2>2. d # ANY_VALUE
    BY <2>1 DEF ANY_VALUE
  <2> QED BY <1>3, <2>1, <2>2, DocsOK DEF IsList
<1>4. CASE IsList(d) /\ d = List(d.items) /\ d.items \in Seq(Docs)
           /\ \A n \in DOMAIN d.items : d.items[n] \in Docs
                                        /\ DocDepth(d.items[n]) < DocDepth(d)
  <2>1. DOMAIN d = {"items"}
    BY <1>4 DEF List
  <2>2. d # ANY_VALUE
    BY <2>1 DEF ANY_VALUE
  <2> QED BY <1>4, <2>1, <2>2, DocsOK DEF IsObj
<1> QED BY <1>1, <1>2, <1>3, <1>4, DocsOK

-----------------------------------------------------------------------------
(* When the comparison finds nothing *)

\* Two objects.
LEMMA ObjectsCompared ==
  ASSUME NEW e \in Docs, NEW a \in Docs, NEW subset \in BOOLEAN, IsObj(e), IsObj(a)
  PROVE  compare(e, a, subset) = {} <=>
           /\ subset \/ DOMAIN a.fields \subseteq DOMAIN e.fields
           /\ \A k \in DOMAIN e.fields :
                k \in DOMAIN a.fields /\ compare(e.fields[k], a.fields[k], subset) = {}
<1> DEFINE Same(k) == compare(e.fields[k], a.fields[k], subset)
           Extra == {"unexpected key" :
                       k \in IF subset THEN {} ELSE DOMAIN a.fields \ DOMAIN e.fields}
           Missing == {"missing key" : k \in DOMAIN e.fields \ DOMAIN a.fields}
<1>1. e # ANY_VALUE /\ ~IsList(e) /\ ~IsList(a)
  BY Kinds
<1>2. compare(e, a, subset) =
        Extra \cup Missing \cup UNION {Same(k) : k \in DOMAIN e.fields \cap DOMAIN a.fields}
  <2>1. compare(e, a, subset) = CompareBody(compare, e, a, subset)
    BY CompareOK
  <2> QED BY <1>1, <2>1 DEF CompareBody
<1>3. Extra = {} <=> subset \/ DOMAIN a.fields \subseteq DOMAIN e.fields
  OBVIOUS
<1>4. Missing = {} <=> DOMAIN e.fields \subseteq DOMAIN a.fields
  OBVIOUS
<1> HIDE DEF Extra, Missing, Same
<1>5. UNION {Same(k) : k \in DOMAIN e.fields \cap DOMAIN a.fields} = {}
        <=> \A k \in DOMAIN e.fields \cap DOMAIN a.fields : Same(k) = {}
  OBVIOUS
<1>6. compare(e, a, subset) = {} <=>
        /\ subset \/ DOMAIN a.fields \subseteq DOMAIN e.fields
        /\ \A k \in DOMAIN e.fields : k \in DOMAIN a.fields /\ Same(k) = {}
  BY <1>2, <1>3, <1>4, <1>5
<1> QED BY <1>6 DEF Same

\* Two lists.
LEMMA ListsCompared ==
  ASSUME NEW e \in Docs, NEW a \in Docs, NEW subset \in BOOLEAN, IsList(e), IsList(a)
  PROVE  compare(e, a, subset) = {} <=>
           IF IsTemplate(e.items, subset)
           THEN \A n \in DOMAIN a.items : compare(e.items[1], a.items[n], subset) = {}
           ELSE /\ subset \/ Len(e.items) = Len(a.items)
                /\ \A n \in DOMAIN e.items :
                     n \in DOMAIN a.items /\ compare(e.items[n], a.items[n], subset) = {}
<1> DEFINE Same(m, n) == compare(e.items[m], a.items[n], subset)
           Length == IF ~subset /\ Len(e.items) # Len(a.items)
                     THEN {"list length mismatch"} ELSE {}
           Missing == {"missing list item" : n \in DOMAIN e.items \ DOMAIN a.items}
<1>1. e # ANY_VALUE /\ ~IsObj(e) /\ ~IsObj(a)
  BY Kinds
<1>2. compare(e, a, subset) = CompareBody(compare, e, a, subset)
  BY CompareOK
<1>3. CASE IsTemplate(e.items, subset)
  <2>1. compare(e, a, subset) = UNION {Same(1, n) : n \in DOMAIN a.items}
    BY <1>1, <1>2, <1>3 DEF CompareBody
  <2> HIDE DEF Same
  <2>2. compare(e, a, subset) = {} <=> \A n \in DOMAIN a.items : Same(1, n) = {}
    BY <2>1
  <2> QED BY <2>2, <1>3 DEF Same
<1>4. CASE ~IsTemplate(e.items, subset)
  <2>1. compare(e, a, subset) =
          Length \cup Missing \cup UNION {Same(n, n) : n \in DOMAIN e.items \cap DOMAIN a.items}
    BY <1>1, <1>2, <1>4 DEF CompareBody
  <2>2. Length = {} <=> subset \/ Len(e.items) = Len(a.items)
    OBVIOUS
  <2>3. Missing = {} <=> DOMAIN e.items \subseteq DOMAIN a.items
    OBVIOUS
  <2> HIDE DEF Length, Missing, Same
  <2>4. UNION {Same(n, n) : n \in DOMAIN e.items \cap DOMAIN a.items} = {}
          <=> \A n \in DOMAIN e.items \cap DOMAIN a.items : Same(n, n) = {}
    OBVIOUS
  <2>5. compare(e, a, subset) = {} <=>
          /\ subset \/ Len(e.items) = Len(a.items)
          /\ \A n \in DOMAIN e.items : n \in DOMAIN a.items /\ Same(n, n) = {}
    BY <2>1, <2>2, <2>3, <2>4
  <2> QED BY <2>5, <1>4 DEF Same
<1> QED BY <1>3, <1>4

\* Anything but an object or a list is expected, or something else is there.
LEMMA OthersCompared ==
  ASSUME NEW e \in Docs, NEW a \in Docs, NEW subset \in BOOLEAN,
         ~(IsObj(e) /\ IsObj(a)), ~(IsList(e) /\ IsList(a))
  PROVE  compare(e, a, subset) = {} <=> e = ANY_VALUE \/ e = a
<1>1. compare(e, a, subset) = CompareBody(compare, e, a, subset)
  BY CompareOK
<1>2. CASE e = ANY_VALUE
  BY <1>1, <1>2 DEF CompareBody
<1>3. CASE e # ANY_VALUE
  BY <1>1, <1>3 DEF CompareBody
<1> QED BY <1>2, <1>3

-----------------------------------------------------------------------------
(* The comparison finds nothing exactly when every demand is met *)

\* What satisfies each demand that is not on a part.
LEMMA Satisfied ==
  ASSUME NEW a \in Docs
  PROVE  /\ Satisfies(a, [be |-> "present"])
         /\ Satisfies(a, [be |-> "object"]) <=> IsObj(a)
         /\ Satisfies(a, [be |-> "list"]) <=> IsList(a)
         /\ \A K : Satisfies(a, [keys |-> K]) <=> IsObj(a) /\ K = DOMAIN a.fields
         /\ \A n : Satisfies(a, [length |-> n]) <=> IsList(a) /\ n = Len(a.items)
         /\ \A e \in Docs : Satisfies(a, e) <=> a = e
<1>1. \A d \in Docs : DOMAIN d \in {{"any"}, {"value"}, {"fields"}, {"items"}}
  <2> SUFFICES ASSUME NEW d \in Docs
               PROVE  DOMAIN d \in {{"any"}, {"value"}, {"fields"}, {"items"}}
    OBVIOUS
  <2>1. \/ d = ANY_VALUE \/ \E v : d = Scalar(v)
        \/ \E f : d = Obj(f) \/ \E s : d = List(s)
    BY DocsOK
  <2> QED BY <2>1 DEF ANY_VALUE, Scalar, Obj, List
<1>2. /\ \A x : DOMAIN [be |-> x] = {"be"}
      /\ \A x : DOMAIN [keys |-> x] = {"keys"}
      /\ \A x : DOMAIN [length |-> x] = {"length"}
  OBVIOUS
<1>3. \A d \in Docs : \A x : d # [be |-> x] /\ d # [keys |-> x] /\ d # [length |-> x]
  BY <1>1, <1>2
<1>4. \A x, y : /\ [be |-> x] # [keys |-> y] /\ [be |-> x] # [length |-> y]
                /\ [keys |-> x] # [length |-> y]
  BY <1>2
<1>5. \A x, y : /\ [be |-> x] = [be |-> y] <=> x = y
                /\ [keys |-> x] = [keys |-> y] <=> x = y
                /\ [length |-> x] = [length |-> y] <=> x = y
  <2>1. \A x : [be |-> x].be = x /\ [keys |-> x].keys = x /\ [length |-> x].length = x
    OBVIOUS
  <2> QED BY <2>1
<1> QED BY <1>3, <1>4, <1>5 DEF Satisfies

\* The comparison finds nothing exactly when every demand is met.
Agrees(e) ==
  \A a \in Docs, subset \in BOOLEAN : compare(e, a, subset) = {} <=> Fits(e, a, subset)

PartsAgree(e) == \A p \in Docs : DocDepth(p) < DocDepth(e) => Agrees(p)

\* A demand on a part.
LEMMA PartMet ==
  ASSUME NEW e \in Docs, NEW a \in Docs, NEW subset \in BOOLEAN, NEW where, NEW q,
         [at |-> where, then |-> q] \in demands(e, subset)
  PROVE  meets(a, [at |-> where, then |-> q]) <=>
           \/ IsObj(a) /\ \E k \in DOMAIN a.fields : where = AtKey(k) /\ meets(a.fields[k], q)
           \/ IsList(a) /\ \E n \in DOMAIN a.items : where = AtPlace(n) /\ meets(a.items[n], q)
           \/ IsList(a) /\ where = AtEach /\ \A n \in DOMAIN a.items : meets(a.items[n], q)
<1> DEFINE d == [at |-> where, then |-> q]
<1>1. "at" \in DOMAIN d /\ d.at = where /\ d.then = q
  OBVIOUS
<1>2. meets(a, d) = MeetsBody(meets, a, d)
  BY DemandsOK
<1> HIDE DEF d
<1>3. meets(a, d) <=>
        \/ IsObj(a) /\ \E k \in DOMAIN a.fields : where = AtKey(k) /\ meets(a.fields[k], q)
        \/ IsList(a) /\ \E n \in DOMAIN a.items : where = AtPlace(n) /\ meets(a.items[n], q)
        \/ IsList(a) /\ where = AtEach /\ \A n \in DOMAIN a.items : meets(a.items[n], q)
  BY <1>1, <1>2 DEF MeetsBody
<1> QED BY <1>3 DEF d

\* A demand that is not on a part.
LEMMA RootMet ==
  ASSUME NEW e \in Docs, NEW a \in Docs, NEW subset \in BOOLEAN,
         NEW q \in demands(e, subset), "at" \notin DOMAIN q
  PROVE  meets(a, q) <=> Satisfies(a, q)
BY DemandsOK DEF MeetsBody

\* Something is demanded of whatever is expected.
LEMMA SomethingDemanded ==
  ASSUME NEW e \in Docs, NEW subset \in BOOLEAN
  PROVE  demands(e, subset) # {}
<1>1. demands(e, subset) = DemandsBody(demands, e, subset)
  BY DemandsOK
<1>2. CASE e = ANY_VALUE
  BY <1>1, <1>2 DEF DemandsBody
<1>3. CASE e # ANY_VALUE /\ IsObj(e)
  <2>1. (IF subset THEN [be |-> "object"] ELSE [keys |-> DOMAIN e.fields])
          \in demands(e, subset)
    BY <1>1, <1>3, Kinds DEF DemandsBody
  <2> QED BY <2>1
<1>4. CASE e # ANY_VALUE /\ IsList(e)
  <2>1. (IF subset THEN [be |-> "list"] ELSE [length |-> Len(e.items)]) \in demands(e, subset)
    BY <1>1, <1>4, Kinds DEF DemandsBody
  <2> QED BY <2>1
<1>5. CASE e # ANY_VALUE /\ ~IsObj(e) /\ ~IsList(e)
  BY <1>1, <1>5 DEF DemandsBody
<1> QED BY <1>2, <1>3, <1>4, <1>5

\* An object is expected.
LEMMA ObjectAgrees ==
  ASSUME NEW e \in Docs, IsObj(e), PartsAgree(e)
  PROVE  Agrees(e)
<1> SUFFICES ASSUME NEW a \in Docs, NEW subset \in BOOLEAN
             PROVE  compare(e, a, subset) = {} <=> Fits(e, a, subset)
  BY DEF Agrees
<1> DEFINE root == IF subset THEN [be |-> "object"] ELSE [keys |-> DOMAIN e.fields]
<1>1. /\ e # ANY_VALUE /\ ~IsList(e)
      /\ \A k \in DOMAIN e.fields : e.fields[k] \in Docs /\ DocDepth(e.fields[k]) < DocDepth(e)
  BY Kinds
<1>2. demands(e, subset) =
        {root} \cup UNION {OnPart(AtKey(k), demands(e.fields[k], subset)) :
                             k \in DOMAIN e.fields}
  BY <1>1, DemandsOK DEF DemandsBody
<1>3. root \in demands(e, subset) /\ "at" \notin DOMAIN root
  BY <1>2
<1>4. \A k \in DOMAIN e.fields : \A q \in demands(e.fields[k], subset) :
        [at |-> AtKey(k), then |-> q] \in demands(e, subset)
  <2> SUFFICES ASSUME NEW k \in DOMAIN e.fields, NEW q \in demands(e.fields[k], subset)
               PROVE  [at |-> AtKey(k), then |-> q] \in demands(e, subset)
    OBVIOUS
  <2>1. [at |-> AtKey(k), then |-> q] \in OnPart(AtKey(k), demands(e.fields[k], subset))
    BY DEF OnPart
  <2> QED BY <2>1, <1>2
<1>5. meets(a, root) <=> IsObj(a) /\ (subset \/ DOMAIN e.fields = DOMAIN a.fields)
  <2>1. meets(a, root) <=> Satisfies(a, root)
    BY <1>3, RootMet
  <2> QED BY <2>1, Satisfied
<1>6. CASE ~IsObj(a)
  <2>1. compare(e, a, subset) # {}
    BY <1>1, <1>6, OthersCompared
  <2> QED BY <2>1, <1>3, <1>5, <1>6 DEF Fits
<1>7. CASE IsObj(a)
  <2>1. ~IsList(a) /\ \A k \in DOMAIN a.fields : a.fields[k] \in Docs
    BY <1>7, Kinds
  <2> DEFINE Same(k) == compare(e.fields[k], a.fields[k], subset)
  <2>5. compare(e, a, subset) = {} <=>
          /\ subset \/ DOMAIN a.fields \subseteq DOMAIN e.fields
          /\ \A k \in DOMAIN e.fields : k \in DOMAIN a.fields /\ Same(k) = {}
    BY <1>7, ObjectsCompared
  <2>6. ASSUME NEW k \in DOMAIN e.fields
        PROVE  (k \in DOMAIN a.fields /\ Same(k) = {})
                 <=> \A q \in demands(e.fields[k], subset) :
                       meets(a, [at |-> AtKey(k), then |-> q])
    <3>1. ASSUME NEW q \in demands(e.fields[k], subset)
          PROVE  meets(a, [at |-> AtKey(k), then |-> q])
                   <=> k \in DOMAIN a.fields /\ meets(a.fields[k], q)
      <4>1. \A j : AtKey(k) = AtKey(j) <=> k = j
        BY AtKey(k).key = k DEF AtKey
      <4> QED BY <4>1, <1>4, <1>7, <2>1, PartMet
    <3>2. demands(e.fields[k], subset) # {}
      BY <1>1, SomethingDemanded
    <3>3. k \in DOMAIN a.fields => (Same(k) = {} <=> Fits(e.fields[k], a.fields[k], subset))
      BY <1>1, <2>1 DEF PartsAgree, Agrees
    <3> QED BY <3>1, <3>2, <3>3 DEF Fits
  <2>7. Fits(e, a, subset) <=>
          /\ meets(a, root)
          /\ \A k \in DOMAIN e.fields : \A q \in demands(e.fields[k], subset) :
               meets(a, [at |-> AtKey(k), then |-> q])
    <3>1. ASSUME Fits(e, a, subset), NEW k \in DOMAIN e.fields,
                 NEW q \in demands(e.fields[k], subset)
          PROVE  meets(a, [at |-> AtKey(k), then |-> q])
      BY <3>1, <1>4 DEF Fits
    <3>2. ASSUME meets(a, root),
                 \A k \in DOMAIN e.fields : \A q \in demands(e.fields[k], subset) :
                   meets(a, [at |-> AtKey(k), then |-> q]),
                 NEW d \in demands(e, subset)
          PROVE  meets(a, d)
      BY <3>2, <1>2 DEF OnPart
    <3> QED BY <3>1, <3>2, <1>3 DEF Fits
  <2> HIDE DEF Same, root
  <2> QED BY <2>5, <2>6, <2>7, <1>5, <1>7
<1> QED BY <1>6, <1>7

\* A list is expected: a template for each element, or one element per place.
LEMMA ListAgrees ==
  ASSUME NEW e \in Docs, IsList(e), PartsAgree(e)
  PROVE  Agrees(e)
<1> SUFFICES ASSUME NEW a \in Docs, NEW subset \in BOOLEAN
             PROVE  compare(e, a, subset) = {} <=> Fits(e, a, subset)
  BY DEF Agrees
<1> DEFINE root == IF subset THEN [be |-> "list"] ELSE [length |-> Len(e.items)]
           where(n) == IF subset /\ Len(e.items) = 1 THEN AtEach ELSE AtPlace(n)
           Same(m, n) == compare(e.items[m], a.items[n], subset)
           Wants(m) == demands(e.items[m], subset)
<1>1. /\ e # ANY_VALUE /\ ~IsObj(e) /\ e.items \in Seq(Docs)
      /\ DOMAIN e.items = 1..Len(e.items) /\ Len(e.items) \in Nat
      /\ \A n \in DOMAIN e.items : e.items[n] \in Docs /\ DocDepth(e.items[n]) < DocDepth(e)
  <2>1. e.items \in Seq(Docs)
    BY Kinds
  <2>2. DOMAIN e.items = 1..Len(e.items) /\ Len(e.items) \in Nat
    BY <2>1
  <2> QED BY <2>1, <2>2, Kinds
<1>2. demands(e, subset) =
        {root} \cup UNION {OnPart(where(n), Wants(n)) : n \in DOMAIN e.items}
  BY <1>1, DemandsOK DEF DemandsBody
<1>3. root \in demands(e, subset) /\ "at" \notin DOMAIN root
  BY <1>2
<1>4. ASSUME NEW n \in DOMAIN e.items, NEW q \in Wants(n)
      PROVE  [at |-> where(n), then |-> q] \in demands(e, subset)
  <2>1. [at |-> where(n), then |-> q] \in OnPart(where(n), Wants(n))
    BY DEF OnPart
  <2> HIDE DEF where, Wants
  <2> QED BY <2>1, <1>2
<1>5. meets(a, root) <=> IsList(a) /\ (subset \/ Len(e.items) = Len(a.items))
  <2>1. meets(a, root) <=> Satisfies(a, root)
    BY <1>3, RootMet
  <2> QED BY <2>1, Satisfied
<1>6. CASE ~IsList(a)
  <2>1. compare(e, a, subset) # {}
    BY <1>1, <1>6, OthersCompared
  <2> QED BY <2>1, <1>3, <1>5, <1>6 DEF Fits
<1>7. CASE IsList(a)
  <2>1. /\ ~IsObj(a) /\ a.items \in Seq(Docs) /\ DOMAIN a.items = 1..Len(a.items)
        /\ Len(a.items) \in Nat /\ \A n \in DOMAIN a.items : a.items[n] \in Docs
    <3>1. a.items \in Seq(Docs) /\ ~IsObj(a)
      BY <1>7, Kinds
    <3> QED BY <3>1
  <2>3. Fits(e, a, subset) <=>
          /\ meets(a, root)
          /\ \A n \in DOMAIN e.items : \A q \in Wants(n) :
               meets(a, [at |-> where(n), then |-> q])
    <3> HIDE DEF where, Wants, root
    <3>1. ASSUME Fits(e, a, subset), NEW n \in DOMAIN e.items, NEW q \in Wants(n)
          PROVE  meets(a, [at |-> where(n), then |-> q])
      BY <3>1, <1>4 DEF Fits
    <3>2. ASSUME meets(a, root),
                 \A n \in DOMAIN e.items : \A q \in Wants(n) :
                   meets(a, [at |-> where(n), then |-> q]),
                 NEW d \in demands(e, subset)
          PROVE  meets(a, d)
      BY <3>2, <1>2 DEF OnPart
    <3> QED BY <3>1, <3>2, <1>3 DEF Fits
  <2>4. ASSUME NEW m \in DOMAIN e.items, NEW n \in DOMAIN a.items
        PROVE  Same(m, n) = {} <=> \A q \in Wants(m) : meets(a.items[n], q)
    BY <1>1, <2>1 DEF PartsAgree, Agrees, Fits
  <2>5. \A n \in DOMAIN e.items : Wants(n) # {}
    BY <1>1, SomethingDemanded
  <2>6. CASE IsTemplate(e.items, subset)
    <3>1. subset /\ Len(e.items) = 1 /\ DOMAIN e.items = {1}
      BY <2>6, <1>1 DEF IsTemplate
    <3>3. compare(e, a, subset) = {} <=> \A n \in DOMAIN a.items : Same(1, n) = {}
      BY <1>7, <2>6, ListsCompared
    <3>4. ASSUME NEW q \in Wants(1)
          PROVE  meets(a, [at |-> where(1), then |-> q])
                   <=> \A n \in DOMAIN a.items : meets(a.items[n], q)
      <4>1. \A n : AtEach # AtPlace(n)
        <5>1. DOMAIN AtEach = {"each"} /\ \A n : DOMAIN AtPlace(n) = {"place"}
          BY DEF AtEach, AtPlace
        <5> QED BY <5>1
      <4>2. where(1) = AtEach
        BY <3>1
      <4> QED BY <3>1, <4>1, <4>2, <1>4, <1>7, <2>1, PartMet
    <3> HIDE DEF root, where, Same, Wants
    <3> QED BY <3>1, <3>3, <3>4, <2>3, <2>4, <1>5, <1>7
  <2>7. CASE ~IsTemplate(e.items, subset)
    <3>4. compare(e, a, subset) = {} <=>
            /\ subset \/ Len(e.items) = Len(a.items)
            /\ \A n \in DOMAIN e.items : n \in DOMAIN a.items /\ Same(n, n) = {}
      BY <1>7, <2>7, ListsCompared
    <3>5. ASSUME NEW n \in DOMAIN e.items, NEW q \in Wants(n)
          PROVE  meets(a, [at |-> where(n), then |-> q])
                   <=> n \in DOMAIN a.items /\ meets(a.items[n], q)
      <4>1. where(n) = AtPlace(n)
        BY <2>7 DEF IsTemplate
      <4>2. /\ AtPlace(n) # AtEach
            /\ \A j : AtPlace(n) = AtPlace(j) <=> n = j
        <5>1. /\ DOMAIN AtEach = {"each"}
              /\ \A j : DOMAIN AtPlace(j) = {"place"} /\ AtPlace(j).place = j
          BY DEF AtEach, AtPlace
        <5> QED BY <5>1
      <4>3. [at |-> AtPlace(n), then |-> q] \in demands(e, subset)
        BY <4>1, <1>4
      <4> QED BY <4>1, <4>2, <4>3, <1>7, <2>1, PartMet
    <3> HIDE DEF root, where, Same, Wants
    <3>6. ASSUME NEW n \in DOMAIN e.items
          PROVE  (n \in DOMAIN a.items /\ Same(n, n) = {})
                   <=> \A q \in Wants(n) : meets(a, [at |-> where(n), then |-> q])
      BY <3>5, <2>4, <2>5
    <3> QED BY <3>4, <3>6, <2>3, <1>5, <1>7
  <2> QED BY <2>6, <2>7
<1> QED BY <1>6, <1>7

\* Anything but an object or a list is expected.
LEMMA ScalarAgrees ==
  ASSUME NEW e \in Docs, ~IsObj(e), ~IsList(e)
  PROVE  Agrees(e)
<1> SUFFICES ASSUME NEW a \in Docs, NEW subset \in BOOLEAN
             PROVE  compare(e, a, subset) = {} <=> Fits(e, a, subset)
  BY DEF Agrees
<1>1. compare(e, a, subset) = {} <=> e = ANY_VALUE \/ e = a
  BY OthersCompared
<1>2. demands(e, subset) = DemandsBody(demands, e, subset)
  BY DemandsOK
<1>3. CASE e = ANY_VALUE
  <2>1. demands(e, subset) = {[be |-> "present"]}
    BY <1>2, <1>3 DEF DemandsBody
  <2>2. meets(a, [be |-> "present"])
    BY <2>1, RootMet, Satisfied
  <2> QED BY <2>1, <2>2, <1>1, <1>3 DEF Fits
<1>4. CASE e # ANY_VALUE
  <2>1. demands(e, subset) = {e}
    BY <1>2, <1>4 DEF DemandsBody
  <2>2. meets(a, e) <=> a = e
    <3>1. meets(a, e) <=> Satisfies(a, e)
      BY <2>1, RootMet, Kinds
    <3> QED BY <3>1, Satisfied
  <2> QED BY <2>1, <2>2, <1>1, <1>4 DEF Fits
<1> QED BY <1>3, <1>4

\* By induction on the depth: a document that does not agree has a least deep one
\* among those that do not.
LEMMA AllAgree ==
  ASSUME NEW e \in Docs
  PROVE  Agrees(e)
<1> DEFINE Bad == {d \in Docs : ~Agrees(d)}
           Depths == {DocDepth(d) : d \in Bad}
<1>1. Bad = {}
  <2> SUFFICES ASSUME Bad # {} PROVE FALSE
    OBVIOUS
  <2>1. Depths # {} /\ Depths \subseteq Nat
    BY Kinds
  <2>2. PICK m \in Depths : \A k \in Depths : m <= k
    BY <2>1, LeastElement
  <2>3. PICK d \in Bad : DocDepth(d) = m
    BY <2>2
  <2>4. PartsAgree(d)
    <3> SUFFICES ASSUME NEW p \in Docs, DocDepth(p) < DocDepth(d), ~Agrees(p) PROVE FALSE
      BY DEF PartsAgree
    <3>1. DocDepth(p) \in Depths /\ DocDepth(p) \in Nat /\ m \in Nat
      BY <2>1
    <3> QED BY <3>1, <2>2, <2>3
  <2> QED BY <2>3, <2>4, ObjectAgrees, ListAgrees, ScalarAgrees
<1> QED BY <1>1

-----------------------------------------------------------------------------
(* Ignoring a path *)

Hit(path, k) == Head(path) = "*" \/ k = Head(path)

\* What a path takes from an object.
LEMMA PrunedObject ==
  ASSUME NEW d \in Docs, NEW path \in PathSegments, IsObj(d)
  PROVE  LET p == prune_one(d, path)
         IN  /\ p \in Docs /\ IsObj(p)
             /\ Tail(path) = <<>> =>
                  /\ DOMAIN p.fields = {k \in DOMAIN d.fields : ~Hit(path, k)}
                  /\ \A k \in DOMAIN p.fields : p.fields[k] = d.fields[k]
             /\ Tail(path) # <<>> =>
                  /\ DOMAIN p.fields = DOMAIN d.fields
                  /\ \A k \in DOMAIN d.fields :
                       p.fields[k] = IF Hit(path, k) THEN prune_one(d.fields[k], Tail(path))
                                     ELSE d.fields[k]
<1> DEFINE p == prune_one(d, path)
           keys == Targets(Head(path), DOMAIN d.fields)
<1>1. p \in Docs /\ p = PruneOneBody(prune_one, d, path) /\ ~IsList(d)
  BY PruneOK, Kinds
<1>2. \A k \in DOMAIN d.fields : k \in keys <=> Hit(path, k)
  BY DEF Targets, Hit
<1>3. \A f : IsObj(Obj(f)) /\ Obj(f).fields = f
  BY DEF IsObj, Obj
<1>4. CASE Tail(path) = <<>>
  <2>1. p = Obj(Restrict(d.fields, DOMAIN d.fields \ keys))
    BY <1>1, <1>4 DEF PruneOneBody
  <2>2. DOMAIN d.fields \ keys = {k \in DOMAIN d.fields : ~Hit(path, k)}
    BY <1>2
  <2>3. IsObj(p) /\ p.fields = Restrict(d.fields, DOMAIN d.fields \ keys)
    BY <2>1, <1>3
  <2> HIDE DEF p, keys
  <2>4. /\ DOMAIN p.fields = DOMAIN d.fields \ keys
        /\ \A k \in DOMAIN p.fields : p.fields[k] = d.fields[k]
    BY <2>3 DEF Restrict
  <2>5. p \in Docs /\ IsObj(p) /\ DOMAIN p.fields = {k \in DOMAIN d.fields : ~Hit(path, k)}
        /\ \A k \in DOMAIN p.fields : p.fields[k] = d.fields[k]
    BY <1>1, <2>2, <2>3, <2>4
  <2> QED BY <2>5, <1>4 DEF p
<1>5. CASE Tail(path) # <<>>
  <2>1. p = Obj([k \in DOMAIN d.fields |->
                   IF k \in keys THEN prune_one(d.fields[k], Tail(path)) ELSE d.fields[k]])
    BY <1>1, <1>5 DEF PruneOneBody
  <2>2. IsObj(p) /\ p.fields = [k \in DOMAIN d.fields |->
                   IF k \in keys THEN prune_one(d.fields[k], Tail(path)) ELSE d.fields[k]]
    BY <2>1, <1>3
  <2> HIDE DEF p, keys
  <2>3. /\ DOMAIN p.fields = DOMAIN d.fields
        /\ \A k \in DOMAIN d.fields :
             p.fields[k] = IF Hit(path, k) THEN prune_one(d.fields[k], Tail(path))
                           ELSE d.fields[k]
    BY <1>2, <2>2
  <2>4. p \in Docs /\ IsObj(p)
    BY <1>1, <2>2
  <2> QED BY <2>3, <2>4, <1>5 DEF p
<1> QED BY <1>4, <1>5

\* What a path that names no place takes from a list.
LEMMA PrunedList ==
  ASSUME NEW d \in Docs, NEW path \in PathSegments, IsList(d), ~NamesPosition(path)
  PROVE  LET p == prune_one(d, path)
         IN  /\ p \in Docs /\ IsList(p)
             /\ Head(path) # "*" => p = d
             /\ Head(path) = "*" /\ Tail(path) = <<>> => p.items = <<>>
             /\ Head(path) = "*" /\ Tail(path) # <<>> =>
                  /\ DOMAIN p.items = DOMAIN d.items /\ Len(p.items) = Len(d.items)
                  /\ \A n \in DOMAIN d.items : p.items[n] = prune_one(d.items[n], Tail(path))
<1> DEFINE p == prune_one(d, path)
           places == Indices(Head(path), DOMAIN d.items)
<1>1. p \in Docs /\ p = PruneOneBody(prune_one, d, path)
  BY PruneOK
<1>2. /\ ~IsObj(d) /\ d.items \in Seq(Docs) /\ d = List(d.items)
      /\ DOMAIN d.items = 1..Len(d.items) /\ Len(d.items) \in Nat
  <2>1. ~IsObj(d) /\ d.items \in Seq(Docs) /\ d = List(d.items)
    BY Kinds
  <2> QED BY <2>1
<1>3. \A s : IsList(List(s)) /\ List(s).items = s
  BY DEF IsList, List
<1>4. p = List(IF Tail(path) = <<>> THEN Popped(d.items, places)
               ELSE [k \in DOMAIN d.items |->
                       IF k \in places THEN prune_one(d.items[k], Tail(path)) ELSE d.items[k]])
  BY <1>1, <1>2 DEF PruneOneBody
<1>5. CASE Head(path) # "*"
  <2>1. Head(path) \notin DOMAIN IndexOf
    <3>1. path \in Seq(STRING) /\ path # <<>>
      BY PathsOK
    <3>2. 1 \in DOMAIN path /\ Head(path) = path[1]
      BY <3>1
    <3> QED BY <3>2 DEF NamesPosition
  <2>2. places = {}
    BY <1>5, <2>1 DEF Indices
  <2>3. Popped(d.items, places) = d.items
    <3>1. d.items = <<>> \/ DOMAIN d.items # {}
      BY <1>2, FirstPlace
    <3> QED BY <2>2, <3>1 DEF Popped
  <2>4. [k \in DOMAIN d.items |->
           IF k \in places THEN prune_one(d.items[k], Tail(path)) ELSE d.items[k]] = d.items
    <3>1. d.items = [k \in DOMAIN d.items |-> d.items[k]]
      BY <1>2
    <3> QED BY <2>2, <3>1
  <2>5. p = d
    BY <1>2, <1>4, <2>3, <2>4
  <2> QED BY <2>5, <1>5
<1>6. CASE Head(path) = "*" /\ Tail(path) = <<>>
  <2>1. places = DOMAIN d.items
    BY <1>6 DEF Indices
  <2>2. Popped(d.items, places) = <<>>
    <3>1. d.items = <<>> \/ DOMAIN d.items # {}
      BY <1>2, FirstPlace
    <3> QED BY <2>1, <3>1 DEF Popped
  <2>3. p = List(<<>>)
    BY <1>4, <1>6, <2>2
  <2> QED BY <1>1, <1>3, <1>6, <2>3
<1>7. CASE Head(path) = "*" /\ Tail(path) # <<>>
  <2>1. places = DOMAIN d.items
    BY <1>7 DEF Indices
  <2>2. p = List([k \in DOMAIN d.items |-> prune_one(d.items[k], Tail(path))])
    BY <1>4, <1>7, <2>1
  <2>3. IsList(p) /\ p.items = [k \in DOMAIN d.items |-> prune_one(d.items[k], Tail(path))]
    BY <2>2, <1>3
  <2>4. p.items \in Seq(Docs)
    BY <1>1, <2>3, Kinds
  <2> HIDE DEF p
  <2>5. DOMAIN p.items = DOMAIN d.items
        /\ \A n \in DOMAIN d.items : p.items[n] = prune_one(d.items[n], Tail(path))
    BY <2>3
  <2>6. Len(p.items) = Len(d.items)
    <3>1. DOMAIN p.items = 1..Len(p.items) /\ Len(p.items) \in Nat
      BY <2>4
    <3> QED BY <3>1, <2>5, <1>2
  <2> QED BY <1>1, <1>7, <2>3, <2>5, <2>6 DEF p
<1> QED BY <1>5, <1>6, <1>7

\* A path takes nothing from anything else.
LEMMA PrunedScalar ==
  ASSUME NEW d \in Docs, NEW path \in PathSegments, ~IsObj(d), ~IsList(d)
  PROVE  prune_one(d, path) = d
BY PruneOK DEF PruneOneBody

\* What is equal without a path ignored is equal with it.
Relaxes(e) ==
  \A a \in Docs, subset \in BOOLEAN, path \in PathSegments :
    ~NamesPosition(path) /\ compare(e, a, subset) = {} =>
      compare(prune_one(e, path), prune_one(a, path), subset) = {}

PartsRelax(e) == \A p \in Docs : DocDepth(p) < DocDepth(e) => Relaxes(p)

\* What is below the head of a path names no place either.
LEMMA TailNamesNone ==
  ASSUME NEW path \in PathSegments, ~NamesPosition(path), Tail(path) # <<>>
  PROVE  Tail(path) \in PathSegments /\ ~NamesPosition(Tail(path))
<1>1. Tail(path) \in PathSegments /\ path \in Seq(STRING) /\ path # <<>>
  BY PathsOK
<1>2. \A n \in DOMAIN Tail(path) : n + 1 \in DOMAIN path /\ Tail(path)[n] = path[n + 1]
  BY <1>1
<1> QED BY <1>1, <1>2 DEF NamesPosition

\* An object is expected.
LEMMA ObjectRelaxes ==
  ASSUME NEW e \in Docs, IsObj(e), PartsRelax(e)
  PROVE  Relaxes(e)
<1> SUFFICES ASSUME NEW a \in Docs, NEW subset \in BOOLEAN, NEW path \in PathSegments,
                    ~NamesPosition(path), compare(e, a, subset) = {}
             PROVE  compare(prune_one(e, path), prune_one(a, path), subset) = {}
  BY DEF Relaxes
<1> DEFINE pe == prune_one(e, path)
           pa == prune_one(a, path)
<1>1. e # ANY_VALUE /\ ~IsList(e) /\ IsObj(a)
  BY OthersCompared, Kinds
<1>2. /\ subset \/ DOMAIN a.fields \subseteq DOMAIN e.fields
      /\ \A k \in DOMAIN e.fields :
           k \in DOMAIN a.fields /\ compare(e.fields[k], a.fields[k], subset) = {}
  BY <1>1, ObjectsCompared
<1>3. /\ \A k \in DOMAIN e.fields : e.fields[k] \in Docs /\ DocDepth(e.fields[k]) < DocDepth(e)
      /\ \A k \in DOMAIN a.fields : a.fields[k] \in Docs
  BY <1>1, Kinds
<1>4. pe \in Docs /\ pa \in Docs /\ IsObj(pe) /\ IsObj(pa)
  BY <1>1, PrunedObject
<1>5. CASE Tail(path) = <<>>
  <2>1. /\ DOMAIN pe.fields = {k \in DOMAIN e.fields : ~Hit(path, k)}
        /\ \A k \in DOMAIN pe.fields : pe.fields[k] = e.fields[k]
        /\ DOMAIN pa.fields = {k \in DOMAIN a.fields : ~Hit(path, k)}
        /\ \A k \in DOMAIN pa.fields : pa.fields[k] = a.fields[k]
    BY <1>1, <1>5, PrunedObject
  <2> HIDE DEF pe, pa
  <2>2. subset \/ DOMAIN pa.fields \subseteq DOMAIN pe.fields
    BY <2>1, <1>2
  <2>3. ASSUME NEW k \in DOMAIN pe.fields
        PROVE  k \in DOMAIN pa.fields /\ compare(pe.fields[k], pa.fields[k], subset) = {}
    BY <2>1, <1>2
  <2>4. compare(pe, pa, subset) = {}
    BY <2>2, <2>3, <1>4, ObjectsCompared
  <2> QED BY <2>4 DEF pe, pa
<1>6. CASE Tail(path) # <<>>
  <2> DEFINE Below(d) == prune_one(d, Tail(path))
  <2>1. /\ DOMAIN pe.fields = DOMAIN e.fields
        /\ \A k \in DOMAIN e.fields :
             pe.fields[k] = IF Hit(path, k) THEN Below(e.fields[k]) ELSE e.fields[k]
        /\ DOMAIN pa.fields = DOMAIN a.fields
        /\ \A k \in DOMAIN a.fields :
             pa.fields[k] = IF Hit(path, k) THEN Below(a.fields[k]) ELSE a.fields[k]
    BY <1>1, <1>6, PrunedObject
  <2>2. \A k \in DOMAIN e.fields : compare(Below(e.fields[k]), Below(a.fields[k]), subset) = {}
    BY <1>2, <1>3, <1>6, TailNamesNone DEF PartsRelax, Relaxes
  <2> HIDE DEF pe, pa, Below
  <2>3. ASSUME NEW k \in DOMAIN pe.fields
        PROVE  k \in DOMAIN pa.fields /\ compare(pe.fields[k], pa.fields[k], subset) = {}
    BY <2>1, <2>2, <1>2
  <2>4. subset \/ DOMAIN pa.fields \subseteq DOMAIN pe.fields
    BY <2>1, <1>2
  <2>5. compare(pe, pa, subset) = {}
    BY <2>3, <2>4, <1>4, ObjectsCompared
  <2> QED BY <2>5 DEF pe, pa
<1> QED BY <1>5, <1>6

\* A list is expected: a template stays one, since no element is removed.
LEMMA ListRelaxes ==
  ASSUME NEW e \in Docs, IsList(e), PartsRelax(e)
  PROVE  Relaxes(e)
<1> SUFFICES ASSUME NEW a \in Docs, NEW subset \in BOOLEAN, NEW path \in PathSegments,
                    ~NamesPosition(path), compare(e, a, subset) = {}
             PROVE  compare(prune_one(e, path), prune_one(a, path), subset) = {}
  BY DEF Relaxes
<1> DEFINE pe == prune_one(e, path)
           pa == prune_one(a, path)
<1>1. e # ANY_VALUE /\ ~IsObj(e) /\ IsList(a)
  BY OthersCompared, Kinds
<1>2. /\ pe \in Docs /\ pa \in Docs /\ IsList(pe) /\ IsList(pa)
      /\ Head(path) # "*" => pe = e /\ pa = a
  BY <1>1, PrunedList
<1>3. CASE Head(path) # "*"
  BY <1>2, <1>3
<1>4. CASE Head(path) = "*" /\ Tail(path) = <<>>
  <2>1. pe.items = <<>> /\ pa.items = <<>>
    BY <1>1, <1>4, PrunedList
  <2> HIDE DEF pe, pa
  <2>2. DOMAIN pe.items = {} /\ Len(pe.items) = 0 /\ Len(pa.items) = 0
    BY <2>1
  <2>3. ~IsTemplate(pe.items, subset)
    BY <2>2 DEF IsTemplate
  <2>4. compare(pe, pa, subset) = {}
    BY <2>2, <2>3, <1>2, ListsCompared
  <2> QED BY <2>4 DEF pe, pa
<1>5. CASE Head(path) = "*" /\ Tail(path) # <<>>
  <2> DEFINE Below(d) == prune_one(d, Tail(path))
  <2>1. /\ DOMAIN pe.items = DOMAIN e.items /\ Len(pe.items) = Len(e.items)
        /\ \A n \in DOMAIN e.items : pe.items[n] = Below(e.items[n])
        /\ DOMAIN pa.items = DOMAIN a.items /\ Len(pa.items) = Len(a.items)
        /\ \A n \in DOMAIN a.items : pa.items[n] = Below(a.items[n])
    BY <1>1, <1>5, PrunedList
  <2>2. /\ \A n \in DOMAIN e.items : e.items[n] \in Docs /\ DocDepth(e.items[n]) < DocDepth(e)
        /\ \A n \in DOMAIN a.items : a.items[n] \in Docs
    BY <1>1, Kinds
  <2>3. ASSUME NEW m \in DOMAIN e.items, NEW n \in DOMAIN a.items,
               compare(e.items[m], a.items[n], subset) = {}
        PROVE  compare(Below(e.items[m]), Below(a.items[n]), subset) = {}
    BY <2>2, <2>3, <1>5, TailNamesNone DEF PartsRelax, Relaxes
  <2> HIDE DEF pe, pa, Below
  <2>4. IsTemplate(pe.items, subset) <=> IsTemplate(e.items, subset)
    BY <2>1 DEF IsTemplate
  <2>5. CASE IsTemplate(e.items, subset)
    <3>1. \A n \in DOMAIN a.items : compare(e.items[1], a.items[n], subset) = {}
      BY <2>5, <1>1, ListsCompared
    <3>2. 1 \in DOMAIN e.items
      <4>1. e.items \in Seq(Docs) /\ Len(e.items) = 1
        BY <2>5, Kinds DEF IsTemplate
      <4> QED BY <4>1
    <3>3. \A n \in DOMAIN pa.items : compare(pe.items[1], pa.items[n], subset) = {}
      BY <2>1, <2>3, <3>1, <3>2
    <3>4. compare(pe, pa, subset) = {}
      BY <2>4, <2>5, <3>3, <1>2, ListsCompared
    <3> QED BY <3>4 DEF pe, pa
  <2>6. CASE ~IsTemplate(e.items, subset)
    <3>1. /\ subset \/ Len(e.items) = Len(a.items)
          /\ \A n \in DOMAIN e.items :
               n \in DOMAIN a.items /\ compare(e.items[n], a.items[n], subset) = {}
      BY <2>6, <1>1, ListsCompared
    <3>2. \A n \in DOMAIN pe.items :
            n \in DOMAIN pa.items /\ compare(pe.items[n], pa.items[n], subset) = {}
      BY <2>1, <2>3, <3>1
    <3>3. subset \/ Len(pe.items) = Len(pa.items)
      BY <2>1, <3>1
    <3>4. compare(pe, pa, subset) = {}
      BY <2>4, <2>6, <3>2, <3>3, <1>2, ListsCompared
    <3> QED BY <3>4 DEF pe, pa
  <2> QED BY <2>5, <2>6
<1> QED BY <1>3, <1>4, <1>5

\* Anything but an object or a list is expected.
LEMMA ScalarRelaxes ==
  ASSUME NEW e \in Docs, ~IsObj(e), ~IsList(e)
  PROVE  Relaxes(e)
<1> SUFFICES ASSUME NEW a \in Docs, NEW subset \in BOOLEAN, NEW path \in PathSegments,
                    compare(e, a, subset) = {}
             PROVE  compare(prune_one(e, path), prune_one(a, path), subset) = {}
  BY DEF Relaxes
<1>1. e = ANY_VALUE \/ e = a
  BY OthersCompared
<1>2. prune_one(e, path) = e /\ prune_one(a, path) \in Docs
  BY PrunedScalar, PruneOK
<1>3. e = ANY_VALUE \/ e = prune_one(a, path)
  BY <1>1, <1>2
<1> QED BY <1>2, <1>3, OthersCompared

\* By induction on the depth, as AllAgree.
LEMMA AllRelax ==
  ASSUME NEW e \in Docs
  PROVE  Relaxes(e)
<1> DEFINE Bad == {d \in Docs : ~Relaxes(d)}
           Depths == {DocDepth(d) : d \in Bad}
<1>1. Bad = {}
  <2> SUFFICES ASSUME Bad # {} PROVE FALSE
    OBVIOUS
  <2>1. Depths # {} /\ Depths \subseteq Nat
    BY Kinds
  <2>2. PICK m \in Depths : \A k \in Depths : m <= k
    BY <2>1, LeastElement
  <2>3. PICK d \in Bad : DocDepth(d) = m
    BY <2>2
  <2>4. PartsRelax(d)
    <3> SUFFICES ASSUME NEW p \in Docs, DocDepth(p) < DocDepth(d), ~Relaxes(p) PROVE FALSE
      BY DEF PartsRelax
    <3>1. DocDepth(p) \in Depths /\ DocDepth(p) \in Nat /\ m \in Nat
      BY <2>1
    <3> QED BY <3>1, <2>2, <2>3
  <2> QED BY <2>3, <2>4, ObjectRelaxes, ListRelaxes, ScalarRelaxes
<1> QED BY <1>1

-----------------------------------------------------------------------------
(* Ignoring one path after the other *)

\* Pruning leaves documents, and relaxes what paths without places are pruned from.
PrunesAndRelaxes(paths) ==
  \A e, a \in Docs, subset \in BOOLEAN :
    /\ prune(e, paths) \in Docs
    /\ (\A n \in DOMAIN paths : ~NamesPosition(paths[n])) /\ compare(e, a, subset) = {} =>
         compare(prune(e, paths), prune(a, paths), subset) = {}

\* One path more.
LEMMA PathMore ==
  ASSUME NEW paths \in IgnorePaths, paths # <<>>, PrunesAndRelaxes(Tail(paths))
  PROVE  PrunesAndRelaxes(paths)
<1> SUFFICES ASSUME NEW e \in Docs, NEW a \in Docs, NEW subset \in BOOLEAN
             PROVE  /\ prune(e, paths) \in Docs
                    /\ (\A n \in DOMAIN paths : ~NamesPosition(paths[n]))
                         /\ compare(e, a, subset) = {} =>
                         compare(prune(e, paths), prune(a, paths), subset) = {}
  BY DEF PrunesAndRelaxes
<1>1. paths \in Seq(PathSegments) /\ Tail(paths) \in Seq(PathSegments)
  BY PathsOK
<1>2. /\ Head(paths) \in PathSegments /\ 1 \in DOMAIN paths /\ Head(paths) = paths[1]
      /\ \A n \in DOMAIN Tail(paths) : n + 1 \in DOMAIN paths /\ Tail(paths)[n] = paths[n + 1]
  BY <1>1
<1>3. \A d \in Docs : prune_one(d, Head(paths)) \in Docs
                      /\ prune(d, paths) = prune(prune_one(d, Head(paths)), Tail(paths))
  BY <1>2, PruneOK DEF PruneBody
<1>4. prune(e, paths) \in Docs
  BY <1>3 DEF PrunesAndRelaxes
<1>5. ASSUME \A n \in DOMAIN paths : ~NamesPosition(paths[n]), compare(e, a, subset) = {}
      PROVE  compare(prune(e, paths), prune(a, paths), subset) = {}
  <2>1. /\ ~NamesPosition(Head(paths))
        /\ \A n \in DOMAIN Tail(paths) : ~NamesPosition(Tail(paths)[n])
    BY <1>2, <1>5
  <2>2. compare(prune_one(e, Head(paths)), prune_one(a, Head(paths)), subset) = {}
    BY <1>2, <1>5, <2>1, AllRelax DEF Relaxes
  <2> QED BY <2>1, <2>2, <1>3 DEF PrunesAndRelaxes
<1> QED BY <1>4, <1>5

\* By induction on the number of paths.
LEMMA AllPrune ==
  ASSUME NEW paths \in IgnorePaths
  PROVE  PrunesAndRelaxes(paths)
<1> DEFINE Bad == {p \in IgnorePaths : ~PrunesAndRelaxes(p)}
           Lengths == {Len(p) : p \in Bad}
<1>1. Bad = {}
  <2> SUFFICES ASSUME Bad # {} PROVE FALSE
    OBVIOUS
  <2>1. \A p \in IgnorePaths : p \in Seq(PathSegments) /\ Len(p) \in Nat
    BY PathsOK
  <2>2. Lengths # {} /\ Lengths \subseteq Nat
    BY <2>1
  <2>3. PICK m \in Lengths : \A k \in Lengths : m <= k
    BY <2>2, LeastElement
  <2>4. PICK p \in Bad : Len(p) = m
    BY <2>3
  <2>5. p # <<>>
    <3>1. ASSUME p = <<>> PROVE \A d \in Docs : prune(d, p) = d
      BY <3>1, <2>4, PruneOK DEF PruneBody
    <3>2. ASSUME p = <<>> PROVE PrunesAndRelaxes(p)
      BY <3>1, <3>2 DEF PrunesAndRelaxes
    <3> QED BY <3>2, <2>4
  <2>6. Tail(p) \in IgnorePaths /\ Len(Tail(p)) < m /\ Len(Tail(p)) \in Nat /\ m \in Nat
    BY <2>1, <2>4, <2>5, PathsOK
  <2>7. PrunesAndRelaxes(Tail(p))
    <3>1. Tail(p) \in Bad => Len(Tail(p)) \in Lengths
      OBVIOUS
    <3>2. Tail(p) \notin Bad
      <4> HIDE DEF Bad, Lengths
      <4> QED BY <3>1, <2>3, <2>6
    <3> QED BY <3>2, <2>6
  <2> QED BY <2>4, <2>5, <2>7, PathMore
<1> QED BY <1>1

-----------------------------------------------------------------------------
(* What the assumption on the logs gives *)

\* A line is under the id of the request that wrote it, if under any.
LEMMA UnderItsWriter ==
  ASSUME NEW instance \in Seq(LogLine), WellWritten(instance),
         NEW n \in DOMAIN instance, NEW id \in Ids, LastShown(instance, n, id)
  PROVE  instance[n].writer = id
<1>1. PICK h \in 1..n : /\ instance[h].id = id
                        /\ \A m \in (h + 1)..n : instance[m].id = NoId /\ ~instance[m].stamped
  BY DEF LastShown
<1>2. /\ n \in Nat /\ n <= Len(instance) /\ Len(instance) \in Nat
      /\ DOMAIN instance = 1..Len(instance)
  OBVIOUS
<1> DEFINE Others == {m \in h..n : instance[m].writer # id}
<1>3. Others = {}
  <2>1. SUFFICES ASSUME Others # {} PROVE FALSE
    OBVIOUS
  <2>2. Others \subseteq Nat
    BY <1>2
  <2>3. PICK b \in Others : \A k \in Others : b <= k
    BY <2>1, <2>2, LeastElement
  <2>4. b \in h..n /\ instance[b].writer # id
    BY <2>3
  <2>5. instance[h].writer = id
    BY <1>1, <1>2, IdsOK DEF WellWritten
  <2>6. b \in (h + 1)..n /\ b - 1 \in h..n /\ b - 1 \in Nat /\ b \in DOMAIN instance /\ b > 1
    BY <2>4, <2>5, <1>2
  <2>7. instance[b].writer = instance[b - 1].writer
    BY <2>6, <1>1 DEF WellWritten
  <2>8. b - 1 \in Others
    BY <2>6, <2>7, <2>4
  <2> QED BY <2>8, <2>3, <2>6
<1>4. n \in h..n
  BY <1>1, <1>2
<1> QED BY <1>3, <1>4

\* A line whose event has the id in its first line is under its writer's id.
LEMMA HeadedIsUnder ==
  ASSUME NEW instance \in Seq(LogLine), WellWritten(instance),
         NEW n \in DOMAIN instance, HeadedLine(instance, n)
  PROVE  LastShown(instance, n, instance[n].writer)
<1>1. PICK h \in 1..n : /\ instance[h].stamped /\ instance[h].id # NoId
                        /\ \A m \in (h + 1)..n : ~instance[m].stamped
  BY DEF HeadedLine
<1>2. /\ n \in Nat /\ n <= Len(instance) /\ Len(instance) \in Nat
      /\ DOMAIN instance = 1..Len(instance)
  OBVIOUS
<1> DEFINE Gaps == {n - m : m \in {k \in h..n : instance[k].id # NoId}}
<1>3. PICK g \in h..n : instance[g].id # NoId /\ \A k \in h..n : instance[k].id # NoId => k <= g
  <2>1. Gaps \subseteq Nat
    BY <1>1, <1>2
  <2>2. n - h \in Gaps
    BY <1>1, <1>2
  <2>3. PICK d \in Gaps : \A k \in Gaps : d <= k
    BY <2>1, <2>2, LeastElement
  <2>4. PICK g \in h..n : instance[g].id # NoId /\ d = n - g
    BY <2>3
  <2>5. ASSUME NEW k \in h..n, instance[k].id # NoId PROVE k <= g
    <3>1. n - k \in Gaps
      BY <2>5
    <3>2. n - g <= n - k
      BY <3>1, <2>3, <2>4
    <3> QED BY <3>2, <1>1, <1>2
  <2> QED BY <2>4, <2>5
<1>4. ASSUME NEW m \in (g + 1)..n PROVE instance[m].id = NoId /\ ~instance[m].stamped
  <2>1. m \in h..n /\ m \in (h + 1)..n /\ ~(m <= g)
    BY <1>1, <1>2, <1>3
  <2> QED BY <2>1, <1>1, <1>3
<1>5. g \in 1..n /\ g \in DOMAIN instance
  BY <1>1, <1>2, <1>3
<1>6. instance[g].id \in Ids
  <2>1. instance[g] \in LogLine
    BY <1>5
  <2> QED BY <2>1, <1>3 DEF LogLine
<1>7. LastShown(instance, n, instance[g].id)
  BY <1>4, <1>5 DEF LastShown
<1>8. instance[n].writer = instance[g].id
  BY <1>6, <1>7, UnderItsWriter
<1> QED BY <1>7, <1>8

\* How the id a line is under follows from the line before it.
LEMMA LastShownStep ==
  ASSUME NEW instance, NEW n \in Nat \ {0}, NEW id \in Ids
  PROVE  LastShown(instance, n, id)
           <=> IF instance[n].id # NoId THEN instance[n].id = id
               ELSE ~instance[n].stamped /\ LastShown(instance, n - 1, id)
<1>1. ASSUME LastShown(instance, n, id)
      PROVE  IF instance[n].id # NoId THEN instance[n].id = id
             ELSE ~instance[n].stamped /\ LastShown(instance, n - 1, id)
  <2>1. PICK h \in 1..n : /\ instance[h].id = id
                          /\ \A m \in (h + 1)..n : instance[m].id = NoId /\ ~instance[m].stamped
    BY <1>1 DEF LastShown
  <2>2. CASE h = n
    BY <2>1, <2>2, IdsOK
  <2>3. CASE h # n
    <3>1. n \in (h + 1)..n /\ h \in 1..(n - 1)
      BY <2>3
    <3>2. \A m \in (h + 1)..(n - 1) : m \in (h + 1)..n
      OBVIOUS
    <3>3. LastShown(instance, n - 1, id)
      BY <2>1, <3>1, <3>2 DEF LastShown
    <3> QED BY <2>1, <3>1, <3>3
  <2> QED BY <2>2, <2>3
<1>2. ASSUME instance[n].id # NoId, instance[n].id = id
      PROVE  LastShown(instance, n, id)
  <2>1. n \in 1..n /\ (n + 1)..n = {}
    OBVIOUS
  <2> QED BY <1>2, <2>1 DEF LastShown
<1>3. ASSUME instance[n].id = NoId, ~instance[n].stamped, LastShown(instance, n - 1, id)
      PROVE  LastShown(instance, n, id)
  <2>1. PICK h \in 1..(n - 1) :
          /\ instance[h].id = id
          /\ \A m \in (h + 1)..(n - 1) : instance[m].id = NoId /\ ~instance[m].stamped
    BY <1>3 DEF LastShown
  <2>2. h \in 1..n /\ \A m \in (h + 1)..n : m = n \/ m \in (h + 1)..(n - 1)
    OBVIOUS
  <2> QED BY <2>1, <2>2, <1>3 DEF LastShown
<1> QED BY <1>1, <1>2, <1>3

\* Appending to a sequence adds the element to its range.
LEMMA RangeOfAppend ==
  ASSUME NEW S, NEW s \in Seq(S), NEW e \in S
  PROVE  Range(Append(s, e)) = Range(s) \cup {e}
<1>1. DOMAIN Append(s, e) = DOMAIN s \cup {Len(s) + 1}
  OBVIOUS
<1>2. \A n \in DOMAIN s : Append(s, e)[n] = s[n]
  OBVIOUS
<1>3. Append(s, e)[Len(s) + 1] = e
  OBVIOUS
<1> QED BY <1>1, <1>2, <1>3 DEF Range

-----------------------------------------------------------------------------
(* The steps of the scan *)

\* Before the download nothing is scanned and nothing is indexed.
LEMMA InitScan == Init => ScanInv
<1> SUFFICES ASSUME Init PROVE ScanInv
  OBVIOUS
<1>1. Place
  <2>1. /\ log = <<>> /\ log \in Seq(Seq(LogLine)) /\ DOMAIN log = {} /\ Len(log) = 0
        /\ at = <<1, 1>>
    BY DEF Init
  <2> QED BY <2>1 DEF Place
<1>2. Indexes /\ DOMAIN index = {}
  BY DEF Init, Indexes
<1>3. Carried
  <2>1. \A id \in Ids : ~LastShown(log[at[1]], at[2] - 1, id)
    BY DEF Init, LastShown
  <2> QED BY <2>1, IdsOK DEF Init, Carried
<1>4. IndexedSoFar
  <2>1. Scanned = {}
    BY DEF Init, Scanned, all_lines
  <2>2. \A id \in Ids : lines_for(id) = {}
    BY <1>2 DEF lines_for, indexed, Range
  <2> QED BY <2>1, <2>2 DEF IndexedSoFar, Under
<1>5. BeforeLogs /\ ScannedAll /\ LogVerdictIsEarned
  BY <1>2 DEF Init, BeforeLogs, ScannedAll, LogVerdictIsEarned
<1> QED BY <1>1, <1>2, <1>3, <1>4, <1>5 DEF ScanInv

\* Steps that leave the log and the scan alone, before the verdict.
LEMMA ScanUnchanged ==
  ASSUME ScanInv, UNCHANGED <<log, at, current, index>>, pc' # "judged",
         pc' \in {"answered", "asserted", "waiting"} =>
           pc \in {"answered", "asserted", "waiting"}
  PROVE  ScanInv'
<1>1. Place' /\ Indexes' /\ Carried' /\ IndexedSoFar'
  BY DEF ScanInv, Place, Indexes, Carried, IndexedSoFar, lines_for, indexed, Under, Scanned,
     all_lines
<1>2. BeforeLogs' /\ ScannedAll' /\ LogVerdictIsEarned'
  BY DEF ScanInv, BeforeLogs, ScannedAll, LogVerdictIsEarned
<1> QED BY <1>1, <1>2 DEF ScanInv

\* The scan begins at the first line of the first instance.
LEMMA DownloadInv ==
  ASSUME ScanInv, Download
  PROVE  ScanInv'
<1>1. log' \in Logs /\ UNCHANGED <<at, current, index>> /\ pc = "waiting" /\ pc' = "indexing"
  BY DEF Download
<1>2. at = <<1, 1>> /\ current = NoId /\ DOMAIN index = {}
  BY <1>1 DEF ScanInv, BeforeLogs
<1>3. log' \in Seq(Seq(LogLine)) /\ \A i \in DOMAIN log' : WellWritten(log'[i])
  BY <1>1, LogsOK
<1>4. Place'
  <2>1. CASE 1 \in DOMAIN log'
    <3>1. log'[1] \in Seq(LogLine)
      BY <2>1, <1>3
    <3> QED BY <3>1, <2>1, <1>1, <1>2, <1>3 DEF Place
  <2>2. CASE 1 \notin DOMAIN log'
    <3>1. Len(log') = 0
      BY <2>2, <1>3
    <3> QED BY <3>1, <2>2, <1>1, <1>2, <1>3 DEF Place
  <2> QED BY <2>1, <2>2
<1>5. Indexes'
  BY <1>1 DEF ScanInv, Indexes
<1>6. Carried'
  <2>1. \A id \in Ids : ~LastShown(log'[at'[1]], at'[2] - 1, id)
    BY <1>1, <1>2 DEF LastShown
  <2> QED BY <2>1, <1>1, <1>2, IdsOK DEF Carried
<1>7. IndexedSoFar'
  <2>1. ASSUME NEW l \in Scanned' PROVE FALSE
    <3>1. PICK i \in DOMAIN log' : l \in {i} \X DOMAIN log'[i]
      BY DEF Scanned, all_lines
    <3>2. log'[i] \in Seq(LogLine) /\ i \in Nat /\ i >= 1
      BY <3>1, <1>3
    <3>3. l[1] = i /\ l[2] \in Nat /\ l[2] >= 1
      BY <3>1, <3>2
    <3> QED BY <3>2, <3>3, <1>1, <1>2 DEF Scanned
  <2>2. Scanned' = {}
    BY <2>1
  <2>3. \A id \in Ids : lines_for(id)' = {}
    BY <1>1, <1>2 DEF lines_for, indexed, Range
  <2> QED BY <2>2, <2>3 DEF IndexedSoFar, Under
<1>8. BeforeLogs' /\ ScannedAll' /\ LogVerdictIsEarned'
  BY <1>1 DEF BeforeLogs, ScannedAll, LogVerdictIsEarned
<1> QED BY <1>4, <1>5, <1>6, <1>7, <1>8 DEF ScanInv

\* A line of the log, as a place.
LEMMA Places ==
  ASSUME Place
  PROVE  \A l : l \in all_lines <=>
           /\ l \in Nat \X Nat /\ l[1] \in DOMAIN log /\ l[2] \in DOMAIN log[l[1]]
           /\ l = <<l[1], l[2]>>
<1>1. \A i \in DOMAIN log : log[i] \in Seq(LogLine) /\ i \in Nat /\ DOMAIN log[i] \subseteq Nat
  BY DEF Place
<1> QED BY <1>1 DEF all_lines

\* One line indexed under the id it is under keeps the index exact.
LEMMA IndexUnderInv ==
  ASSUME ScanInv, InInstance, NEW id \in Ids \cup {NoId}, IndexUnder(id),
         \A k \in Ids : id = k <=> LastShown(log[at[1]], at[2], k)
  PROVE  ScanInv'
<1>1. /\ UNCHANGED <<pc, log>> /\ pc = "indexing" /\ current' = id
      /\ at' = <<at[1], at[2] + 1>>
      /\ at[1] \in DOMAIN log /\ at[2] \in DOMAIN log[at[1]]
  BY DEF IndexUnder, InInstance
<1>2. /\ Place /\ log \in Seq(Seq(LogLine)) /\ log[at[1]] \in Seq(LogLine)
      /\ at \in Nat \X Nat /\ at[1] \in Nat /\ at[2] \in Nat /\ at = <<at[1], at[2]>>
  BY <1>1 DEF ScanInv, Place
<1>3. Place'
  BY <1>1, <1>2 DEF Place
<1>4. Indexes' /\ \A k \in Ids : lines_for(k)' = IF k = id THEN lines_for(k) \cup {at}
                                               ELSE lines_for(k)
  <2>1. CASE id = NoId
    BY <2>1, IdsOK DEF IndexUnder, ScanInv, Indexes, lines_for, indexed
  <2>2. CASE id # NoId
    <3>1. index' = [k \in DOMAIN index \cup {id} |->
                      IF k = id THEN Append(indexed(id), at) ELSE index[k]]
      BY <2>2 DEF IndexUnder
    <3>2. indexed(id) \in Seq(Nat \X Nat)
      BY DEF indexed, ScanInv, Indexes
    <3>3. Range(Append(indexed(id), at)) = Range(indexed(id)) \cup {at}
          /\ Append(indexed(id), at) \in Seq(Nat \X Nat)
      <4>1. at \in Nat \X Nat
        BY <1>2
      <4>2. Range(Append(indexed(id), at)) = Range(indexed(id)) \cup {at}
        BY <4>1, <3>2, RangeOfAppend
      <4> QED BY <4>1, <4>2, <3>2
    <3>4. Indexes'
      BY <3>1, <3>3, <2>2 DEF Indexes, ScanInv
    <3>5. \A k \in Ids : indexed(k)' = IF k = id THEN Append(indexed(id), at) ELSE indexed(k)
      BY <3>1, <2>2 DEF indexed
    <3> QED BY <3>3, <3>4, <3>5 DEF lines_for
  <2> QED BY <2>1, <2>2
<1>5. Carried'
  <2>1. at'[1] = at[1] /\ at'[2] - 1 = at[2]
    BY <1>1, <1>2
  <2> QED BY <2>1, <1>1 DEF Carried
<1>6. Scanned' = Scanned \cup {at}
  <2>1. all_lines' = all_lines
    BY <1>1 DEF all_lines
  <2>2. at \in all_lines
    BY <1>1, <1>2, Places
  <2>3. \A l \in all_lines : l[1] = at[1] /\ l[2] < at[2] + 1 <=>
                             (l[1] = at[1] /\ l[2] < at[2]) \/ l = at
    <3> SUFFICES ASSUME NEW l \in all_lines, l[1] = at[1]
                 PROVE  l[2] < at[2] + 1 <=> l[2] < at[2] \/ l = at
      BY <1>2
    <3>1. l = <<l[1], l[2]>> /\ l[2] \in Nat
      BY <1>2, Places
    <3>2. l[2] < at[2] + 1 <=> l[2] < at[2] \/ l[2] = at[2]
      BY <3>1, <1>2
    <3> QED BY <3>1, <3>2, <1>2
  <2>4. at'[1] = at[1] /\ at'[2] = at[2] + 1
    BY <1>1
  <2> QED BY <2>1, <2>2, <2>3, <2>4, <1>2 DEF Scanned
<1>7. IndexedSoFar'
  <2> SUFFICES ASSUME NEW k \in Ids PROVE lines_for(k)' = Under(Scanned, k)'
    BY DEF IndexedSoFar
  <2>1. lines_for(k) = Under(Scanned, k)
    BY DEF ScanInv, IndexedSoFar
  <2>2. Under(Scanned, k)' = {l \in Scanned \cup {at} : LastShown(log[l[1]], l[2], k)}
    BY <1>1, <1>6 DEF Under
  <2> QED BY <2>1, <2>2, <1>4 DEF Under
<1>8. BeforeLogs' /\ ScannedAll' /\ LogVerdictIsEarned'
  BY <1>1 DEF BeforeLogs, ScannedAll, LogVerdictIsEarned
<1> QED BY <1>3, <1>4, <1>5, <1>7, <1>8 DEF ScanInv

\* The three kinds of line: the id the scan indexes it under is the one it is under.
LEMMA LineInv ==
  ASSUME ScanInv, CarriesId \/ NewEvent \/ Continues
  PROVE  ScanInv'
<1>1. /\ InInstance /\ log[at[1]] \in Seq(LogLine) /\ Line \in LogLine
      /\ at[2] \in Nat \ {0}
  BY DEF ScanInv, Place, CarriesId, NewEvent, Continues, InInstance, Line
<1>2. \A k \in Ids : current = k <=> LastShown(log[at[1]], at[2] - 1, k)
  BY DEF ScanInv, Carried
<1>3. \A k \in Ids : LastShown(log[at[1]], at[2], k)
                     <=> IF Line.id # NoId THEN Line.id = k
                         ELSE ~Line.stamped /\ LastShown(log[at[1]], at[2] - 1, k)
  BY <1>1, LastShownStep DEF Line
<1>4. CASE CarriesId
  <2>1. Line.id \in Ids \cup {NoId} /\ Line.id # NoId /\ IndexUnder(Line.id)
    BY <1>1, <1>4 DEF CarriesId, LogLine
  <2>2. \A k \in Ids : Line.id = k <=> LastShown(log[at[1]], at[2], k)
    BY <2>1, <1>3
  <2> QED BY <2>1, <2>2, <1>1, IndexUnderInv
<1>5. CASE NewEvent
  <2>1. Line.id = NoId /\ Line.stamped /\ IndexUnder(NoId)
    BY <1>5 DEF NewEvent
  <2>2. \A k \in Ids : NoId = k <=> LastShown(log[at[1]], at[2], k)
    BY <2>1, <1>3, IdsOK
  <2> QED BY <2>1, <2>2, <1>1, IndexUnderInv
<1>6. CASE Continues
  <2>1. Line.id = NoId /\ ~Line.stamped /\ IndexUnder(current) /\ current \in Ids \cup {NoId}
    BY <1>6 DEF Continues, ScanInv, Carried
  <2>2. \A k \in Ids : current = k <=> LastShown(log[at[1]], at[2], k)
    BY <2>1, <1>2, <1>3
  <2> QED BY <2>1, <2>2, <1>1, IndexUnderInv
<1> QED BY <1>4, <1>5, <1>6

\* The end of an instance: everything in it is scanned, and no id is carried on.
LEMMA NextInstanceInv ==
  ASSUME ScanInv, NextInstance
  PROVE  ScanInv'
<1>1. /\ UNCHANGED <<pc, log, index>> /\ pc = "indexing" /\ current' = NoId
      /\ at' = <<at[1] + 1, 1>>
      /\ at[1] \in DOMAIN log /\ at[2] \notin DOMAIN log[at[1]]
  BY DEF NextInstance
<1>2. /\ Place /\ log \in Seq(Seq(LogLine)) /\ log[at[1]] \in Seq(LogLine)
      /\ at[1] \in Nat /\ at[2] \in Nat /\ at[2] > Len(log[at[1]])
      /\ at'[1] = at[1] + 1 /\ at'[2] = 1
  BY <1>1 DEF ScanInv, Place
<1>3. Place'
  <2>1. CASE at[1] + 1 \in DOMAIN log
    <3>1. log[at[1] + 1] \in Seq(LogLine)
      BY <2>1, <1>2
    <3> QED BY <3>1, <2>1, <1>1, <1>2 DEF Place
  <2>2. CASE at[1] + 1 \notin DOMAIN log
    <3>1. at[1] = Len(log)
      BY <2>2, <1>1, <1>2
    <3> QED BY <3>1, <2>2, <1>1, <1>2 DEF Place
  <2> QED BY <2>1, <2>2
<1>4. Indexes'
  BY <1>1 DEF ScanInv, Indexes
<1>5. Carried'
  <2>1. \A id \in Ids : ~LastShown(log'[at'[1]], at'[2] - 1, id)
    BY <1>2 DEF LastShown
  <2> QED BY <2>1, <1>1, IdsOK DEF Carried
<1>6. Scanned' = Scanned
  <2>1. all_lines' = all_lines
    BY <1>1 DEF all_lines
  <2>2. ASSUME NEW l \in all_lines
        PROVE  l[1] < at[1] + 1 \/ (l[1] = at[1] + 1 /\ l[2] < 1)
                 <=> l[1] < at[1] \/ (l[1] = at[1] /\ l[2] < at[2])
    <3>1. l[1] \in Nat /\ l[2] \in Nat /\ l[1] \in DOMAIN log /\ l[2] \in DOMAIN log[l[1]]
      BY <1>2, Places
    <3>2. log[l[1]] \in Seq(LogLine)
      BY <3>1, <1>2
    <3>3. l[2] >= 1 /\ l[2] <= Len(log[l[1]])
      <4>1. DOMAIN log[l[1]] = 1..Len(log[l[1]]) /\ Len(log[l[1]]) \in Nat
        BY <3>2
      <4> QED BY <4>1, <3>1
    <3>4. l[1] = at[1] => l[2] < at[2]
      <4> SUFFICES ASSUME l[1] = at[1] PROVE l[2] < at[2]
        OBVIOUS
      <4>1. l[2] <= Len(log[at[1]]) /\ Len(log[at[1]]) \in Nat
        BY <3>3, <1>2
      <4> QED BY <4>1, <3>1, <1>2
    <3>5. ~(l[2] < 1)
      BY <3>1, <3>3
    <3>6. l[1] < at[1] + 1 <=> l[1] < at[1] \/ l[1] = at[1]
      BY <3>1, <1>2
    <3> QED BY <3>4, <3>5, <3>6
  <2> QED BY <2>1, <2>2, <1>2 DEF Scanned
<1>7. IndexedSoFar'
  BY <1>1, <1>6 DEF ScanInv, IndexedSoFar, Under, lines_for, indexed
<1>8. BeforeLogs' /\ ScannedAll' /\ LogVerdictIsEarned'
  BY <1>1 DEF BeforeLogs, ScannedAll, LogVerdictIsEarned
<1> QED BY <1>3, <1>4, <1>5, <1>6, <1>7, <1>8 DEF ScanInv

\* After the scan, the lines under the case's id are its own, and those of its
\* events that are headed are among them.
LEMMA MyLines ==
  ASSUME ScanInv, at[1] = Len(log) + 1
  PROVE  lines_for(Mine) \subseteq Own /\ Headed \subseteq lines_for(Mine)
<1>1. Place /\ log \in Seq(Seq(LogLine)) /\ \A i \in DOMAIN log : WellWritten(log[i])
  BY DEF ScanInv, Place
<1>2. lines_for(Mine) = Under(all_lines, Mine)
  <2>1. \A l \in all_lines : l[1] < at[1]
    BY <1>1, Places
  <2>2. Scanned = all_lines
    BY <2>1 DEF Scanned
  <2> QED BY <2>2, IdsOK DEF ScanInv, IndexedSoFar
<1>3. ASSUME NEW l \in Under(all_lines, Mine) PROVE l \in Own
  <2>1. l \in all_lines /\ LastShown(log[l[1]], l[2], Mine)
    BY DEF Under
  <2>2. l[1] \in DOMAIN log /\ l[2] \in DOMAIN log[l[1]]
    BY <2>1, <1>1, Places
  <2>3. log[l[1]] \in Seq(LogLine) /\ WellWritten(log[l[1]])
    BY <2>2, <1>1
  <2>4. log[l[1]][l[2]].writer = Mine
    BY <2>1, <2>2, <2>3, IdsOK, UnderItsWriter
  <2> QED BY <2>1, <2>4 DEF Own
<1>4. ASSUME NEW l \in Headed PROVE l \in Under(all_lines, Mine)
  <2>1. l \in all_lines /\ log[l[1]][l[2]].writer = Mine /\ HeadedLine(log[l[1]], l[2])
    BY DEF Headed, Own
  <2>2. l[1] \in DOMAIN log /\ l[2] \in DOMAIN log[l[1]]
    BY <2>1, <1>1, Places
  <2>3. log[l[1]] \in Seq(LogLine) /\ WellWritten(log[l[1]])
    BY <2>2, <1>1
  <2>4. LastShown(log[l[1]], l[2], log[l[1]][l[2]].writer)
    BY <2>1, <2>2, <2>3, HeadedIsUnder
  <2> QED BY <2>1, <2>4 DEF Under
<1> QED BY <1>2, <1>3, <1>4

\* The verdict, over a log that is scanned to its end.
LEMMA ValidateInv ==
  ASSUME ScanInv, Validate
  PROVE  ScanInv'
<1>1. /\ UNCHANGED <<log, at, current, index>> /\ pc' = "judged"
      /\ at[1] \notin DOMAIN log
  BY DEF Validate
<1>2. Place' /\ Indexes' /\ Carried' /\ IndexedSoFar' /\ BeforeLogs'
  BY <1>1 DEF ScanInv, Place, Indexes, Carried, IndexedSoFar, BeforeLogs, lines_for, indexed,
     Under, Scanned, all_lines
<1>3. at[1] = Len(log) + 1
  BY <1>1 DEF ScanInv, Place
<1>4. PICK expected \in SUBSET Needles, mode \in LogMode, fallback \in BOOLEAN :
        LET lines == Considered(fallback)
            evidence == [w \in expected |-> {l \in lines : w \in Says(l)}]
            matched == {w \in expected : evidence[w] # {}}
            passed == IF mode = "any_of" THEN matched # {} ELSE matched = expected
        IN  result' = [expected |-> expected, mode |-> mode, fallback |-> fallback,
                       evidence |-> evidence, log_passed |-> passed,
                       passed |-> response.passed /\ passed]
  BY DEF Validate
<1> DEFINE lines == Considered(fallback)
           fell_back == fallback /\ lines_for(Mine) = {}
           matched == {w \in expected : \E l \in lines : w \in Says(l)}
<1>5. /\ result'.expected = expected /\ result'.mode = mode /\ result'.fallback = fallback
      /\ result'.evidence = [w \in expected |-> {l \in lines : w \in Says(l)}]
      /\ result'.log_passed = IF mode = "any_of" THEN matched # {} ELSE matched = expected
  <2>1. {w \in expected : [v \in expected |-> {l \in lines : v \in Says(l)}][w] # {}} = matched
    OBVIOUS
  <2> QED BY <1>4, <2>1
<1>6. /\ lines = IF fell_back THEN all_lines ELSE lines_for(Mine)
      /\ lines_for(Mine) \subseteq Own /\ Headed \subseteq lines_for(Mine)
      /\ Own \subseteq all_lines
  BY <1>3, MyLines DEF Considered, Own
<1>7. \A place : Says(place)' = Says(place)
  BY <1>1 DEF Says
<1>8. /\ Own' = Own /\ Headed' = Headed /\ all_lines' = all_lines
      /\ lines_for(Mine)' = lines_for(Mine)
  BY <1>1 DEF Own, Headed, all_lines, lines_for, indexed
<1> DEFINE Meant(S) == IF mode = "any_of" THEN \E w \in expected : \E l \in S : w \in Says(l)
                       ELSE \A w \in expected : \E l \in S : w \in Says(l)
<1>9. /\ lines \subseteq (IF fell_back THEN all_lines ELSE Own)
      /\ Headed \subseteq lines
  BY <1>6 DEF Headed
<1> HIDE DEF lines
<1>10. ~fell_back => \A w \in expected : {l \in lines : w \in Says(l)} \subseteq Own
  BY <1>6
<1>11. ASSUME NEW S, lines \subseteq S, result'.log_passed PROVE Meant(S)
  BY <1>5, <1>11
<1>12. ASSUME NEW S, S \subseteq lines, Meant(S) PROVE result'.log_passed
  BY <1>5, <1>12
<1>13. LogVerdictIsEarned'
  <2>1. /\ Wanted(Headed)' <=> Meant(Headed)
        /\ Wanted(IF fell_back THEN all_lines ELSE Own)'
             <=> Meant(IF fell_back THEN all_lines ELSE Own)
    BY <1>5, <1>7, <1>8 DEF Wanted
  <2>2. (result.fallback /\ lines_for(Mine) = {})' <=> fell_back
    BY <1>5, <1>8
  <2>3. result'.log_passed => Meant(IF fell_back THEN all_lines ELSE Own)
    BY <1>9, <1>11
  <2>4. Meant(Headed) => result'.log_passed
    BY <1>9, <1>12
  <2>5. ~fell_back => \A w \in result'.expected : result'.evidence[w] \subseteq Own'
    BY <1>5, <1>8, <1>10
  <2>6. LogVerdictIsEarned' =
          ((pc = "judged")' =>
             /\ ~(result.fallback /\ lines_for(Mine) = {})' =>
                  \A w \in result'.expected : result'.evidence[w] \subseteq Own'
             /\ result'.log_passed =>
                  Wanted(IF (result.fallback /\ lines_for(Mine) = {}) THEN all_lines ELSE Own)'
             /\ Wanted(Headed)' => result'.log_passed)
    BY DEF LogVerdictIsEarned
  <2>7. Wanted(IF (result.fallback /\ lines_for(Mine) = {}) THEN all_lines ELSE Own)'
          <=> Wanted(IF fell_back THEN all_lines ELSE Own)'
    BY <2>2, <1>5, <1>7, <1>8 DEF Wanted
  <2> HIDE DEF fell_back, Meant
  <2> QED BY <2>1, <2>2, <2>3, <2>4, <2>5, <2>6, <2>7
<1> QED BY <1>1, <1>2, <1>3, <1>13 DEF ScanInv, ScannedAll


\* Every step keeps the invariant.
LEMMA StepScan == ScanInv /\ [Next]_vars => ScanInv'
<1> SUFFICES ASSUME ScanInv, [Next]_vars PROVE ScanInv'
  OBVIOUS
<1>1. CASE AssertResponse
  BY <1>1, ScanUnchanged DEF AssertResponse
<1>2. CASE WaitForLogs
  BY <1>2, ScanUnchanged DEF WaitForLogs
<1>3. CASE Download
  BY <1>3, DownloadInv
<1>4. CASE CarriesId \/ NewEvent \/ Continues
  BY <1>4, LineInv
<1>5. CASE NextInstance
  BY <1>5, NextInstanceInv
<1>6. CASE Validate
  BY <1>6, ValidateInv
<1>7. CASE UNCHANGED vars
  <2>1. Place' /\ Indexes' /\ Carried' /\ IndexedSoFar' /\ BeforeLogs' /\ ScannedAll'
    BY <1>7 DEF vars, ScanInv, Place, Indexes, Carried, IndexedSoFar, BeforeLogs, ScannedAll,
       lines_for, indexed, Under, Scanned, all_lines
  <2>2. LogVerdictIsEarned'
    BY <1>7 DEF vars, ScanInv, LogVerdictIsEarned, Wanted, Own, Headed, all_lines, lines_for,
       indexed, Says
  <2> QED BY <2>1, <2>2 DEF ScanInv
<1> QED BY <1>1, <1>2, <1>3, <1>4, <1>5, <1>6, <1>7 DEF Next

-----------------------------------------------------------------------------
(* The theorems *)

\* The case is what it was until it waits, and the diffs are those of its bodies.
LEMMA StepCase == CaseInv /\ [Next]_vars => CaseInv'
<1> SUFFICES ASSUME CaseInv, [Next]_vars PROVE CaseInv'
  OBVIOUS
<1>1. CASE AssertResponse
  <2>1. case' = case /\ pc = "answered" /\ pc' = "asserted"
    BY <1>1 DEF AssertResponse
  <2>2. case.mode \in {"exact", "json_subset"} =>
          response'.diffs = compare(PrunedExpected(case), PrunedActual(case),
                                    case.mode = "json_subset")
    BY <1>1 DEF AssertResponse
  <2> QED BY <2>1, <2>2 DEF CaseInv, Compared, PrunedExpected, PrunedActual
<1>2. CASE UNCHANGED <<pc, case, response>>
  BY <1>2 DEF CaseInv, Compared, PrunedExpected, PrunedActual
<1>3. CASE pc' \notin {"answered", "asserted"}
  BY <1>3 DEF CaseInv, Compared
<1>4. \/ AssertResponse \/ UNCHANGED <<pc, case, response>>
      \/ pc' \notin {"answered", "asserted"}
  BY DEF Next, vars, WaitForLogs, Download, CarriesId, NewEvent, Continues, IndexUnder,
     NextInstance, Validate
<1> QED BY <1>1, <1>2, <1>3, <1>4

\* The inductive invariant holds in every state.
THEOREM Invariance == Spec => []Inv
<1>1. Init => CaseInv
  BY DEF Init, CaseInv, Compared
<1>2. Init => Inv
  BY <1>1, InitScan DEF Inv
<1>3. Inv /\ [Next]_vars => Inv'
  BY StepScan, StepCase DEF Inv
<1> QED BY <1>2, <1>3, PTL DEF Spec

\* The documents of a case that is being judged.
LEMMA CaseDocs ==
  ASSUME CaseInv, Compared
  PROVE  /\ case.expected \in Docs /\ case.actual \in Docs /\ case.ignore \in IgnorePaths
         /\ PrunedExpected(case) \in Docs /\ PrunedActual(case) \in Docs
         /\ (case.mode = "json_subset") \in BOOLEAN
<1>1. case.expected \in Docs /\ case.actual \in Docs /\ case.ignore \in IgnorePaths
  BY DocsOK DEF CaseInv, Compared
<1> QED BY <1>1, AllPrune DEF PrunesAndRelaxes, PrunedExpected, PrunedActual

\* assert_response finds no difference exactly when the answer, without the ignored
\* paths, meets every demand of the expectation: for documents of any depth, in
\* both modes, through objects, templates and positional lists.
THEOREM VerdictByDemands == Spec => []VerdictMeansDemands
<1>1. Inv => VerdictMeansDemands
  <2> SUFFICES ASSUME CaseInv, Compared
               PROVE  response.diffs = {} <=> Fits(PrunedExpected(case), PrunedActual(case),
                                                   case.mode = "json_subset")
    BY DEF Inv, VerdictMeansDemands
  <2>1. response.diffs = compare(PrunedExpected(case), PrunedActual(case),
                                 case.mode = "json_subset")
    BY DEF CaseInv
  <2> QED BY <2>1, CaseDocs, AllAgree DEF Agrees
<1> QED BY <1>1, Invariance, PTL

\* What passes without ignored paths passes with any of them that name no place in
\* a list (_prune, one path after the other, on both documents).
THEOREM IgnoringRelaxes == Spec => []IgnoringOnlyRelaxes
<1>1. Inv => IgnoringOnlyRelaxes
  <2> SUFFICES ASSUME CaseInv, Compared,
                      \A n \in DOMAIN case.ignore : ~NamesPosition(case.ignore[n]),
                      compare(case.expected, case.actual, case.mode = "json_subset") = {}
               PROVE  response.diffs = {}
    BY DEF Inv, IgnoringOnlyRelaxes
  <2>1. response.diffs = compare(PrunedExpected(case), PrunedActual(case),
                                 case.mode = "json_subset")
    BY DEF CaseInv
  <2> QED BY <2>1, CaseDocs, AllPrune DEF PrunesAndRelaxes, PrunedExpected, PrunedActual
<1> QED BY <1>1, Invariance, PTL

\* A log check passes only on lines the case's own request wrote, and passes when
\* its headed events hold what is wanted (validate_logs over _build_index).
THEOREM VerdictEarned == Spec => []LogVerdictIsEarned
<1>1. Inv => LogVerdictIsEarned
  BY DEF Inv, ScanInv
<1> QED BY <1>1, Invariance, PTL

\* Once the scan is over, the lines found under an id are exactly those the id was
\* the last shown up to, with no fresh event since: the index is complete and mixes
\* no two ids, in every instance.
IndexIsExact == pc = "judged" => \A id \in Ids : lines_for(id) = Under(all_lines, id)

\* The index of a scanned log is exact (_build_index).
THEOREM IndexExact == Spec => []IndexIsExact
<1>1. Inv => IndexIsExact
  <2> SUFFICES ASSUME Inv, pc = "judged"
               PROVE  \A id \in Ids : lines_for(id) = Under(all_lines, id)
    BY DEF IndexIsExact
  <2>1. Place /\ at[1] = Len(log) + 1 /\ log \in Seq(Seq(LogLine))
    BY DEF Inv, ScanInv, ScannedAll, Place
  <2>2. \A l \in all_lines : l[1] < at[1]
    BY <2>1, Places
  <2>3. Scanned = all_lines
    BY <2>2 DEF Scanned
  <2> QED BY <2>3 DEF Inv, ScanInv, IndexedSoFar
<1> QED BY <1>1, Invariance, PTL

=============================================================================
