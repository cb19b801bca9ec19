---------------------------- MODULE MCMethodCall ----------------------------
EXTENDS MethodCall, TLC

CONSTANTS t1, t2, p1

\* Foo extends Object, which has the last method.
MCMethod == [aInt    |-> [name |-> "a", params |-> <<"I">>, ret |-> "I", static |-> FALSE, klass |-> "Foo"],
             aString |-> [name |-> "a", params |-> <<"String">>, ret |-> "String", static |-> FALSE, klass |-> "Foo"],
             aLong   |-> [name |-> "a", params |-> <<"J">>, ret |-> "Foo", static |-> TRUE, klass |-> "Foo"],
             make    |-> [name |-> "<init>", params |-> <<"String">>, ret |-> "V", static |-> FALSE, klass |-> "Foo"],
             aObject |-> [name |-> "a", params |-> <<"I", "Object">>, ret |-> "V", static |-> FALSE, klass |-> "Object"]]

MCWalk == [Foo |-> <<"aInt", "aString", "aLong", "make", "aObject">>, Object |-> <<"aObject">>]

MCLookup == {[klass |-> "Foo", static |-> FALSE, name |-> "a", sig |-> AnySig],
             [klass |-> "Foo", static |-> TRUE, name |-> "a", sig |-> <<<<"J">>, "Foo">>]}

MCArgument == {<<"string">>, <<"int64">>}

Threads == Permutations({t1, t2})
=============================================================================
