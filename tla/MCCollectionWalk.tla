-------------------------- MODULE MCCollectionWalk --------------------------
(* Four elements, tables of two places, and a guard of three nodes.        *)
EXTENDS CollectionWalk

MCElement == 1..4
MCKind == {"array", "linked", "hash", "tree", "generic", "raw"}

\* The order in which elements came matters to no step of a tree, nor to a property.
MCView ==
    <<kind, arrays, table, size, next, left, item, shift,
      IF kind = "tree" THEN Members(content) ELSE content,
      walk, result, initial, Members(ever), changes>>
=============================================================================
