-------------------------- MODULE ObjectCollection --------------------------
(***************************************************************************)
(* phri::ObjectCollection, the named registry (a std::map) in which the    *)
(* controller keeps its constraints and generators, the separation         *)
(* distance constraint its objects and the potential field its obstacles.  *)
(*                                                                         *)
(* A collection is a function from the names in use to the items.  Each    *)
(* operation is an operator on that function together with the result the  *)
(* caller sees: "true", "false", or "domain_error" for the exception.      *)
(***************************************************************************)
EXTENDS Functions

EmptyCollection == [n \in {} |-> {}]

Has(items, name) == name \in DOMAIN items

\* add: an existing name is kept unless `force` is set.
Accepts(items, name, force) == force \/ ~Has(items, name)

Add(items, name, item, force) ==
    IF Accepts(items, name, force)
    THEN [n \in DOMAIN items \union {name} |->
             IF n = name THEN item ELSE items[n]]
    ELSE items

AddResult(items, name, force) ==
    IF Accepts(items, name, force) THEN "true" ELSE "false"

\* remove: an absent name throws and changes nothing.
Remove(items, name) == Restrict(items, DOMAIN items \ {name})

RemoveResult(items, name) ==
    IF Has(items, name) THEN "true" ELSE "domain_error"

(***************************************************************************)
(* removeAll erases from the map, inside a range-for over that map, the    *)
(* node the loop stands on, then increments the dead iterator: undefined   *)
(* behaviour for every non-empty collection.  With the freed node still    *)
(* intact the loop reaches the end; with its links overwritten by the      *)
(* allocator it faults, some nodes erased and others not.                  *)
(***************************************************************************)
RemoveAllOutcomes(items) ==
    { [items |-> EmptyCollection, result |-> "true"] } \union
    { [items |-> Restrict(items, kept), result |-> "crash"] :
        kept \in (SUBSET DOMAIN items) \ {DOMAIN items} }
=============================================================================
