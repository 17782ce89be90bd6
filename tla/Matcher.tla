------------------------------ MODULE Matcher -------------------------------
(***************************************************************************)
(* The recursive functions of ResponseMatch, each the fixpoint of its      *)
(* body.                                                                   *)
(***************************************************************************)
EXTENDS ResponseMatch, FiniteSetsExt

RECURSIVE PruneOne(_, _)
PruneOne(d, segments) == PruneOneBody(PruneOne, d, segments)

RECURSIVE Prune(_, _)
Prune(d, paths) == PruneBody(Prune, PruneOne, d, paths)

RECURSIVE Compare(_, _, _)
Compare(e, a, subset) == CompareBody(Compare, e, a, subset)

RECURSIVE Demands(_, _)
Demands(e, subset) == DemandsBody(Demands, e, subset)

RECURSIVE Meets(_, _)
Meets(d, q) == MeetsBody(Meets, d, q)

\* The parts of a document, itself included, and how deep it is nested.
RECURSIVE Parts(_)
Parts(d) == {d} \cup UNION {Parts(c) : c \in Children(d)}

RECURSIVE Depth(_)
Depth(d) == 1 + Max({0} \cup {Depth(c) : c \in Children(d)})

=============================================================================
