----------------------------- MODULE MCJavaHeap -----------------------------
EXTENDS JavaHeap

CONSTANTS d, n

\* The walk of the first list stops before d, which is in the second list again.
MCList == <<n, d>>
MCSmr == <<d>>

\* 9 bytes take two words; a string of one wide character.
MCRequest == {[kind |-> "object", count |-> 9, unit |-> 1],
              [kind |-> "array", count |-> -1, unit |-> 4],
              [kind |-> "string", count |-> 1, unit |-> 2]}

\* What follows a mishap is undefined and no property is about it.
Defined == mishap = {}
=============================================================================
