----------------------------- MODULE Namespace -----------------------------
(***************************************************************************)
(* The CRDT namespace: which objects exist, which paths they claim, and    *)
(* the deterministic view of the directory derived from the claims.        *)
(*                                                                         *)
(* A namespace is three grow-only sets.  An object id is <<creator, n>> and*)
(* a claim id is <<daemon, n>>: the program draws them at random and       *)
(* compares them as bytes; here the order of ids is the order of creation, *)
(* one of the possible outcomes.  A path is a sequence of integers; a      *)
(* conflict path is the claimed path with a suffix.                        *)
(***************************************************************************)
EXTENDS Integers, Sequences, FiniteSets, SequencesExt

\* f with the value v at x.
Put(f, x, v) == [y \in DOMAIN f \cup {x} |-> IF y = x THEN v ELSE f[y]]

EmptyNamespace == [objects |-> {}, claims |-> {}, removed |-> {}]

Claim(id, object, path) == [id |-> id, object |-> object, path |-> path]

\* The update a local transaction publishes when it removes claims.
RemoveClaims(ids) == [objects |-> {}, claims |-> {}, removed |-> ids]

\* apply_update: the maps only ever gain entries.
Merge(ns, update) ==
    [objects |-> ns.objects \cup update.objects,
     claims  |-> ns.claims \cup update.claims,
     removed |-> ns.removed \cup update.removed]

\* active_claims: a removal wins, whichever of the two arrives first.
ActiveClaims(ns) == {c \in ns.claims : c.id \notin ns.removed}
-----------------------------------------------------------------------------
(* Order.  Sequences of integers are compared like the program's paths and *)
(* ids: element by element, a prefix first.                                *)

Less(p, q) ==
    \E i \in 1 .. Len(q) :
        /\ \A j \in 1 .. i - 1 : j <= Len(p) /\ p[j] = q[j]
        /\ i > Len(p) \/ p[i] < q[i]

Creator(object) == object[1]

\* The order of the claims of one path: creator, object, claim.
Precedes(c, d) ==
    \/ Creator(c.object) < Creator(d.object)
    \/ Creator(c.object) = Creator(d.object) /\ Less(c.object, d.object)
    \/ c.object = d.object /\ Less(c.id, d.id)

ClaimLess(c, d) == Less(c.path, d.path) \/ (c.path = d.path /\ Precedes(c, d))

\* The elements of a finite set in the strict total order given: at place i is
\* the one that i - 1 others precede.  (Were the order not total, any sequence.)
Sorted(S, precedes(_, _)) ==
    LET rank(x) == Cardinality({y \in S : precedes(y, x)})
        ranked  == [i \in 1 .. Cardinality(S) |-> CHOOSE x \in S : rank(x) = i - 1]
    IN  IF Range(ranked) = S THEN ranked
        ELSE CHOOSE q \in [1 .. Cardinality(S) -> S] : Range(q) = S

SortedPaths(paths) == Sorted(paths, Less)
SortedClaims(claims) == Sorted(claims, ClaimLess)
-----------------------------------------------------------------------------
(* Materialization.                                                        *)

\* format_conflict_name for each suffix in turn: 6 characters of the creator,
\* 6 and 8 of the object, the object, the object with 6 of the claim.
ConflictPaths(c) ==
    <<c.path \o <<1, Creator(c.object)>>, c.path \o (<<2>> \o c.object),
      c.path \o (<<3>> \o c.object), c.path \o (<<4>> \o c.object),
      c.path \o (<<5>> \o c.object \o c.id)>>

Place(c) == [claim |-> c.id, object |-> c.object, claimed |-> c.path]

Winners(claims) ==
    {c \in claims : \A d \in claims \ {c} : d.path = c.path => Precedes(c, d)}

FreeConflictPaths(tree, c) ==
    SelectSeq(ConflictPaths(c), LAMBDA p : p \notin DOMAIN tree)

\* next_available_conflict_path; a claim without a free candidate stays out of
\* the tree, and Materializes is false: the program then fails.
PlaceLoser(tree, c) ==
    LET free == FreeConflictPaths(tree, c)
    IN  IF free = <<>> THEN tree ELSE Put(tree, Head(free), Place(c))

PlaceLosers(tree, claims) == FoldLeft(PlaceLoser, tree, claims)

\* materialize_namespace: the function from visible paths to placements.
Materialize(ns) ==
    LET active  == ActiveClaims(ns)
        winners == Winners(active)
        placed  == [p \in {c.path : c \in winners} |->
                       Place(CHOOSE c \in winners : c.path = p)]
    IN  PlaceLosers(placed, SortedClaims(active \ winners))

\* A claim is published with or after the metadata of its object, and every
\* active claim gets a path.
Materializes(ns) ==
    /\ \A c \in ActiveClaims(ns) : c.object \in ns.objects
    /\ Cardinality(DOMAIN Materialize(ns)) = Cardinality(ActiveClaims(ns))
=============================================================================
