--------------------------- MODULE MethodCallProofs --------------------------
(***************************************************************************)
(* Theorems about MethodCall, for any number of threads, proxies and calls *)
(* in progress, and any classes and overloads: the thread state, who owns  *)
(* a local reference, which overload is called, and how its result is      *)
(* decoded.                                                                *)
(***************************************************************************)
EXTENDS MethodCall, FiniteSetTheorems, SequenceTheorems, TLAPS

-----------------------------------------------------------------------------
(* Types.                                                                  *)

Id == DOMAIN Method \cup {NoMethod}

HandleType == [thread : Thread \cup {"none"}, slot : Nat, block : Nat]

ReturnChar == Primitive \cup {"L", ""}

ProxyType ==
    [method : Id, klass : DOMAIN Walk \cup {"none"}, static : BOOLEAN, pinned : BOOLEAN,
     id : Id, class : HandleType, ret : ReturnChar, effective : Id]

Slot == 1..MaxRefs

FrameType ==
    [pc : {"lookup", "pack", "callee", "hook", "check", "toString", "decode"},
     path : {"jni", "stub", "new"}, p : Proxy \cup Made, args : Argument, sel : Id,
     byref : BOOLEAN, ret : ReturnChar, id : Id, class : HandleType, strings : SUBSET Slot,
     result : Nat, thrown : SUBSET Slot, saved : {"native", "java"},
     resume : {"callee", "toString"}]

Reserved == [kind : {"free", "class", "string", "result", "thrown"}, block : Nat]

TypeOK ==
    /\ stub \in BOOLEAN
    /\ proxy \in [Proxy -> ProxyType]
    /\ \A p \in Proxy : proxy[p].method # NoMethod => proxy[p].klass \in DOMAIN Walk
    /\ stack \in [Thread -> Seq(FrameType)]
    /\ \A t \in Thread : \A i \in DOMAIN stack[t] :
          stack[t][i].path # "new" => stack[t][i].p \in Proxy /\ proxy[stack[t][i].p].method # NoMethod
    /\ refs \in [Thread -> [Slot -> Reserved]]
    /\ pending \in [Thread -> {"none", "class", "callee", "stub", "constructor"}]
    /\ state \in [Thread -> {"native", "java"}]
    /\ used \in [Proxy -> SUBSET DOMAIN Method]

-----------------------------------------------------------------------------
(* The thread state.                                                       *)

\* Only the innermost call of a thread runs; the others wait in a hook.  The thread is in
\* native code outside of Java: outside of every call, in its outermost call between two
\* steps of JNI, and before a call stub that is its outermost call.
Calm(stk, st, pend) ==
    /\ \A i \in DOMAIN stk : i < Len(stk) => stk[i].pc = "hook"
    /\ stk = <<>> => st = "native"
    /\ stk # <<>> =>
          /\ stk[1].path = "stub" => stk[1].saved = "native"
          /\ Len(stk) = 1 /\ stk[Len(stk)].pc \in {"lookup", "pack", "check", "decode"} => st = "native"
          /\ stk[Len(stk)].pc \in {"callee", "toString"} => st = "java"
    /\ pend = "callee" => stk # <<>> /\ stk[Len(stk)].path = "jni" /\ stk[Len(stk)].pc = "check"

SettledInv == TypeOK /\ \A t \in Thread : Calm(stack[t], state[t], pending[t])

-----------------------------------------------------------------------------
(* Local references.                                                       *)

\* The block of the references that call i of a stack holds: the JNI calls below it.
Below(stk, i) == 1 + Cardinality({j \in 1..(i - 1) : stk[j].path # "stub"})

\* What a call may hold at each of its steps.
Stage(f) ==
    /\ f.strings \cap f.thrown = {}
    /\ f.result \notin f.strings \cup f.thrown
    /\ f.result \in Slot \cup {0}
    /\ f.path = "jni" /\ f.pc \in {"lookup", "pack"} => f.strings = {}
    /\ f.pc \in {"lookup", "pack", "callee"} \/ (f.pc = "hook" /\ f.resume = "callee")
           => f.thrown = {} /\ f.result = 0
    /\ f.pc = "check" => f.thrown = {}
    /\ f.path = "stub" => f.strings = {}
    /\ f.path # "jni" => f.pc \in {"callee", "hook"} /\ f.resume = "callee"

Kept(r) == r.kind \notin {"free", "class"}

\* The calls of a thread own its references: each kept one belongs to one call, in its block.
Owns(stk, R) ==
    /\ \A i \in DOMAIN stk : \A s \in Held(stk[i]) : Kept(R[s]) /\ R[s].block = Below(stk, i)
    /\ \A i, j \in DOMAIN stk : i # j => Held(stk[i]) \cap Held(stk[j]) = {}
    /\ \A s \in Slot : Kept(R[s]) => \E i \in DOMAIN stk : s \in Held(stk[i])

\* A jclass h of thread t is live and in none but the first b blocks.
Live(h, t, R, b) ==
    h.thread = t /\ h.block > 0 =>
        h.slot \in Slot /\ R[h.slot] = [kind |-> "class", block |-> h.block] /\ h.block <= b

Tidy(t, stk, R) ==
    /\ \A i \in DOMAIN stk : Stage(stk[i])
    /\ Owns(stk, R)
    /\ \A i \in DOMAIN stk : Live(stk[i].class, t, R, Below(stk, i))

OwnedInv ==
    \A t \in Thread :
        /\ Tidy(t, stack[t], refs[t])
        /\ \A p \in Proxy : Live(proxy[p].class, t, refs[t], Block(t))

-----------------------------------------------------------------------------
(* The caches of a proxy.                                                  *)

\* The jmethodID for the descriptor of m.
IdFor(px, m) ==
    FirstOf(SearchKlass(px), {x \in Named(Method[px.method].name) :
        Signature(x) = Signature(m) /\ Method[x].static = px.static})

\* The caches of a proxy that selected m and nothing else, or nothing yet.
CacheOf(px, m) ==
    /\ px.ret = RetChar(m)
    /\ px.id \in {NoMethod, IdFor(px, m)}
    /\ m # px.method => px.effective = m

Remembers(px, U) ==
    /\ IsFiniteSet(U)
    /\ U = {} => px.ret = "" /\ px.id = NoMethod
    /\ \A m \in U : U = {m} => CacheOf(px, m)

\* A call over JNI has the overload for its arguments, and the proxy remembers it; so has a
\* call through the stub.
JniCall(f, px, U) ==
    /\ f.sel = ResolveCompatible(px, f.args)
    /\ f.sel \in U
    /\ f.byref = (f.sel # px.method)
    /\ U = {f.sel} =>
          /\ f.ret = RetChar(f.sel)
          /\ f.pc = "pack" => px.id # NoMethod
          /\ f.pc \in {"callee", "hook", "check", "toString", "decode"} =>
                f.id # NoMethod /\ f.id = IdFor(px, f.sel)

CallOf(f, px, U) ==
    /\ f.path = "jni" => JniCall(f, px, U)
    /\ f.path = "stub" => f.sel = ResolveCompatible(px, f.args) /\ f.id = f.sel

Caches == \A p \in Proxy : Remembers(proxy[p], used[p])

Calls ==
    \A t \in Thread : \A i \in DOMAIN stack[t] : stack[t][i].path # "new" =>
        CallOf(stack[t][i], proxy[stack[t][i].p], used[stack[t][i].p])

CacheInv == TypeOK /\ Caches /\ Calls /\ ResultRight

-----------------------------------------------------------------------------
(* Lemmas about the operators of the model.                                *)

\* A non-empty set of natural numbers has a least element.
LEMMA LeastNat ==
    ASSUME NEW S, S \subseteq Nat, S # {}
    PROVE  \E x \in S : \A y \in S : ~(y < x)
<1>1. PICK x \in S : \A y \in S : ~(<<y, x>> \in OpToRel(<, Nat))
  BY NatLessThanWellFounded, WFMin
<1> QED BY <1>1 DEF OpToRel

\* A walk over a class finds nothing, or a method of the wanted kind.
LEMMA FirstOfIn ==
    ASSUME NEW k \in DOMAIN Walk, NEW S
    PROVE  FirstOf(k, S) = NoMethod \/ (FirstOf(k, S) \in S /\ FirstOf(k, S) \in DOMAIN Method)
<1> DEFINE hits == {i \in DOMAIN Walk[k] : Walk[k][i] \in S}
<1>1. Walk[k] \in Seq(DOMAIN Method)
  BY MethodCallAssumption
<1>2. DOMAIN Walk[k] \subseteq Nat /\ \A i \in DOMAIN Walk[k] : Walk[k][i] \in DOMAIN Method
  BY <1>1, LenProperties, ElementOfSeq
<1>3. CASE hits = {}
  BY <1>3 DEF FirstOf
<1>4. CASE hits # {}
  <2>1. \E x \in hits : \A y \in hits : x <= y
    <3>1. PICK x \in hits : \A y \in hits : ~(y < x)
      BY <1>2, <1>4, LeastNat
    <3>2. \A y \in hits : y \in Nat /\ x \in Nat
      BY <1>2
    <3> QED BY <3>1, <3>2
  <2> DEFINE c == CHOOSE i \in hits : \A j \in hits : i <= j
  <2>2. c \in hits
    BY <2>1
  <2>3. FirstOf(k, S) = Walk[k][c]
    BY <1>4 DEF FirstOf
  <2> QED BY <1>2, <2>2, <2>3
<1> QED BY <1>3, <1>4

\* What is known of a proxy that a call uses.
Bound(px) == px.method \in DOMAIN Method /\ px.klass \in DOMAIN Walk /\ px.static \in BOOLEAN

LEMMA SearchKlassIn == ASSUME NEW px, Bound(px) PROVE SearchKlass(px) \in DOMAIN Walk
<1>1. Method[px.method] \in MethodType
  BY MethodCallAssumption DEF Bound
<1> QED BY <1>1 DEF Bound, SearchKlass, MethodType

LEMMA ProxyBound ==
    ASSUME TypeOK, NEW p \in Proxy, proxy[p].method # NoMethod
    PROVE  Bound(proxy[p])
BY DEF TypeOK, ProxyType, Bound, Id

\* Overload resolution ends with a method, one that takes the arguments if there is one.
LEMMA Resolved ==
    ASSUME NEW px, Bound(px), NEW args
    PROVE  LET m == ResolveCompatible(px, args)
               hit == FirstOf(SearchKlass(px), Compatible(Method[px.method].name, args)) IN
           /\ m \in DOMAIN Method
           /\ ~px.pinned /\ hit # NoMethod => SignatureMatches(Method[m].params, args)
<1> DEFINE hit == FirstOf(SearchKlass(px), Compatible(Method[px.method].name, args))
<1>1. hit = NoMethod \/ (hit \in Compatible(Method[px.method].name, args) /\ hit \in DOMAIN Method)
  BY SearchKlassIn, FirstOfIn
<1>2. hit # NoMethod => SignatureMatches(Method[hit].params, args)
  BY <1>1 DEF Compatible
<1> HIDE DEF hit
<1>3. ResolveCompatible(px, args)
        = IF px.pinned \/ SignatureMatches(Method[px.method].params, args) \/ hit = NoMethod
          THEN px.method ELSE hit
  BY DEF ResolveCompatible, hit
<1>4. /\ ResolveCompatible(px, args) \in DOMAIN Method
      /\ ~px.pinned /\ hit # NoMethod => SignatureMatches(Method[ResolveCompatible(px, args)].params, args)
  BY <1>1, <1>2, <1>3 DEF Bound
<1> QED BY <1>4 DEF hit

LEMMA RetCharType == ASSUME NEW m \in DOMAIN Method PROVE RetChar(m) \in ReturnChar \ {""}
<1>1. Method[m].ret \in Reference \cup Primitive
  BY MethodCallAssumption DEF MethodType
<1> QED BY <1>1 DEF RetChar, ReturnChar, Primitive, Reference

LEMMA IdForIn ==
    ASSUME NEW px, Bound(px), NEW m
    PROVE  IdFor(px, m) = NoMethod \/ (IdFor(px, m) \in DOMAIN Method /\ Signature(IdFor(px, m)) = Signature(m))
<1> DEFINE S == {x \in Named(Method[px.method].name) :
                    Signature(x) = Signature(m) /\ Method[x].static = px.static}
<1>1. FirstOf(SearchKlass(px), S) = NoMethod \/ (FirstOf(SearchKlass(px), S) \in S /\ FirstOf(SearchKlass(px), S) \in DOMAIN Method)
  BY SearchKlassIn, FirstOfIn
<1>2. IdFor(px, m) = FirstOf(SearchKlass(px), S)
  BY DEF IdFor
<1> QED BY <1>1, <1>2

\* Blocks and numbers of strings are natural numbers.
LEMMA StringsNat == ASSUME NEW args \in Argument PROVE Strings(args) \in Nat
<1>1. IsFiniteSet(1..Len(args)) /\ DOMAIN args = 1..Len(args)
  BY MethodCallAssumption, LenProperties, FS_Interval
<1>2. {i \in DOMAIN args : args[i] = "string"} \in SUBSET (1..Len(args))
  BY <1>1
<1> QED BY <1>1, <1>2, FS_Subset, FS_CardinalityType DEF Strings

LEMMA BlockNat == ASSUME TypeOK, NEW t \in Thread PROVE Block(t) \in Nat \ {0}
<1> DEFINE S == {i \in DOMAIN stack[t] : stack[t][i].path # "stub"
                                             /\ stack[t][i].pc \in {"callee", "toString", "hook"}}
<1>0. stack[t] \in Seq(FrameType)
  BY DEF TypeOK
<1>1. DOMAIN stack[t] = 1..Len(stack[t]) /\ Len(stack[t]) \in Nat
  BY <1>0, LenProperties
<1>2. IsFiniteSet(1..Len(stack[t])) /\ S \in SUBSET (1..Len(stack[t]))
  BY <1>1, FS_Interval
<1>3. Cardinality(S) \in Nat
  BY <1>2, FS_Subset, FS_CardinalityType
<1>4. Block(t) = 1 + Cardinality(S)
  BY DEF Block
<1> QED BY <1>3, <1>4

-----------------------------------------------------------------------------
(* The stack of calls.                                                     *)

Stacks == stack \in [Thread -> Seq(FrameType)]

LEMMA StackType ==
    ASSUME Stacks, NEW t \in Thread
    PROVE  /\ stack[t] \in Seq(FrameType) /\ Len(stack[t]) \in Nat
           /\ DOMAIN stack[t] = 1..Len(stack[t])
           /\ \A i \in DOMAIN stack[t] : stack[t][i] \in FrameType
           /\ stack[t] # <<>> => Len(stack[t]) \in DOMAIN stack[t] /\ Top(t) = stack[t][Len(stack[t])]
                                 /\ Top(t) \in FrameType
           /\ stack[t] = <<>> => Len(stack[t]) = 0
<1>1. stack[t] \in Seq(FrameType)
  BY DEF Stacks
<1>2. Len(stack[t]) \in Nat /\ DOMAIN stack[t] = 1..Len(stack[t])
  BY <1>1, LenProperties
<1>3. \A i \in DOMAIN stack[t] : stack[t][i] \in FrameType
  BY <1>1, <1>2, ElementOfSeq
<1>4. stack[t] # <<>> => Len(stack[t]) \in DOMAIN stack[t]
  BY <1>1, <1>2, EmptySeq
<1>5. stack[t] = <<>> => Len(stack[t]) = 0
  BY <1>1, <1>2, EmptySeq
<1> QED BY <1>1, <1>2, <1>3, <1>4, <1>5 DEF Top

\* A call begins.
LEMMA Pushed ==
    ASSUME Stacks, NEW t \in Thread, NEW f \in FrameType, Push(t, f)
    PROVE  /\ Stacks'
           /\ Len(stack'[t]) = Len(stack[t]) + 1 /\ stack'[t] # <<>>
           /\ DOMAIN stack'[t] = 1..(Len(stack[t]) + 1)
           /\ stack'[t][Len(stack[t]) + 1] = f
           /\ \A i \in DOMAIN stack[t] : stack'[t][i] = stack[t][i]
           /\ \A u \in Thread \ {t} : stack'[u] = stack[u]
<1>1. stack[t] \in Seq(FrameType) /\ Len(stack[t]) \in Nat /\ DOMAIN stack[t] = 1..Len(stack[t])
  BY StackType
<1>2. stack'[t] = Append(stack[t], f) /\ \A u \in Thread \ {t} : stack'[u] = stack[u]
  BY DEF Push, Stacks
<1>3. Append(stack[t], f) \in Seq(FrameType)
  BY <1>1, AppendProperties
<1>4. Stacks'
  BY <1>3 DEF Push, Stacks
<1> QED BY <1>1, <1>2, <1>3, <1>4, AppendProperties, LenProperties

\* The innermost call goes on.
LEMMA TopSet ==
    ASSUME Stacks, NEW t \in Thread, stack[t] # <<>>, NEW f \in FrameType, SetTop(t, f)
    PROVE  /\ Stacks'
           /\ Len(stack'[t]) = Len(stack[t]) /\ stack'[t] # <<>>
           /\ DOMAIN stack'[t] = DOMAIN stack[t]
           /\ stack'[t][Len(stack[t])] = f
           /\ \A i \in DOMAIN stack[t] : i # Len(stack[t]) => stack'[t][i] = stack[t][i]
           /\ \A u \in Thread \ {t} : stack'[u] = stack[u]
<1> DEFINE n == Len(stack[t])
<1>1. stack[t] \in Seq(FrameType) /\ n \in Nat /\ DOMAIN stack[t] = 1..n /\ n \in 1..n
  BY StackType
<1>2. stack'[t] = [stack[t] EXCEPT ![n] = f] /\ \A u \in Thread \ {t} : stack'[u] = stack[u]
  BY DEF SetTop, Stacks
<1>3. [stack[t] EXCEPT ![n] = f] \in Seq(FrameType) /\ Len([stack[t] EXCEPT ![n] = f]) = n
  BY <1>1, ExceptSeq
<1>4. Stacks'
  BY <1>3 DEF SetTop, Stacks
<1>5. DOMAIN stack'[t] = DOMAIN stack[t]
  BY <1>2
<1>6. stack'[t][n] = f /\ \A i \in DOMAIN stack[t] : i # n => stack'[t][i] = stack[t][i]
  BY <1>1, <1>2
<1>7. stack'[t] # <<>>
  BY <1>1, <1>2, <1>3, EmptySeq
<1> QED BY <1>2, <1>3, <1>4, <1>5, <1>6, <1>7

\* The innermost call ends.
LEMMA Popped ==
    ASSUME Stacks, NEW t \in Thread, stack[t] # <<>>, Pop(t)
    PROVE  /\ Stacks'
           /\ Len(stack'[t]) = Len(stack[t]) - 1
           /\ DOMAIN stack'[t] = 1..(Len(stack[t]) - 1)
           /\ \A i \in DOMAIN stack'[t] : i \in DOMAIN stack[t] /\ stack'[t][i] = stack[t][i]
           /\ \A u \in Thread \ {t} : stack'[u] = stack[u]
<1> DEFINE n == Len(stack[t])
<1>1. stack[t] \in Seq(FrameType) /\ n \in Nat /\ DOMAIN stack[t] = 1..n /\ n \in 1..n
  BY StackType
<1>2. stack'[t] = SubSeq(stack[t], 1, n - 1) /\ \A u \in Thread \ {t} : stack'[u] = stack[u]
  BY DEF Pop, Stacks
<1>3. /\ SubSeq(stack[t], 1, n - 1) \in Seq(FrameType)
      /\ Len(SubSeq(stack[t], 1, n - 1)) = n - 1
      /\ \A i \in 1..(n - 1) : SubSeq(stack[t], 1, n - 1)[i] = stack[t][i]
  BY <1>1, SubSeqProperties
<1>4. Stacks'
  BY <1>3 DEF Pop, Stacks
<1>5. DOMAIN stack'[t] = 1..(n - 1)
  BY <1>2, <1>3, LenProperties
<1> QED BY <1>1, <1>2, <1>3, <1>4, <1>5

\* The calls of all threads after a step: those before, and f.
LEMMA OldFrames ==
    ASSUME Stacks, NEW t \in Thread, NEW f \in FrameType,
           Push(t, f) \/ (stack[t] # <<>> /\ SetTop(t, f)) \/ (stack[t] # <<>> /\ Pop(t)) \/ UNCHANGED stack
    PROVE  /\ Stacks'
           /\ \A u \in Thread : \A i \in DOMAIN stack'[u] :
                 \/ i \in DOMAIN stack[u] /\ stack'[u][i] = stack[u][i]
                 \/ u = t /\ i = Len(stack'[t]) /\ stack'[u][i] = f /\ (Push(t, f) \/ SetTop(t, f))
<1>1. Len(stack[t]) \in Nat /\ DOMAIN stack[t] = 1..Len(stack[t])
  BY StackType
<1>2. CASE Push(t, f)
  BY <1>1, <1>2, Pushed
<1>3. CASE stack[t] # <<>> /\ SetTop(t, f)
  BY <1>1, <1>3, TopSet
<1>4. CASE stack[t] # <<>> /\ Pop(t)
  BY <1>1, <1>4, Popped
<1>5. CASE UNCHANGED stack
  BY <1>5 DEF Stacks
<1> QED BY <1>2, <1>3, <1>4, <1>5

-----------------------------------------------------------------------------
(* Types are kept.                                                         *)

\* Two proxies that differ in their caches only.
SameTarget(px, qx) ==
    /\ px.method = qx.method /\ px.klass = qx.klass
    /\ px.static = qx.static /\ px.pinned = qx.pinned

\* References taken and given back.
LEMMA TakeDelete ==
    ASSUME NEW R \in [Slot -> Reserved], NEW S
    PROVE  /\ Delete(R, S) \in [Slot -> Reserved]
           /\ \A kind \in {"class", "string", "result", "thrown"}, b \in Nat :
                 Take(R, S, kind, b) \in [Slot -> Reserved]
           /\ \A n : NextSlots(R, n) \in SUBSET Slot /\ \A s \in NextSlots(R, n) : R[s] = Free
BY DEF Delete, Take, Reserved, Free, NextSlots, FreeSlots

LEMMA ClosedType ==
    ASSUME TypeOK, NEW t \in Thread
    PROVE  Closed(t) \in [Slot -> Reserved] /\ refs[t] \in [Slot -> Reserved]
BY TakeDelete DEF Closed, TypeOK

LEMMA DanglingType ==
    ASSUME TypeOK, NEW t, NEW b
    PROVE  /\ Dangling(t, b) \in [Proxy -> ProxyType]
           /\ \A p \in Proxy :
                 /\ SameTarget(Dangling(t, b)[p], proxy[p])
                 /\ Dangling(t, b)[p].id = proxy[p].id /\ Dangling(t, b)[p].ret = proxy[p].ret
                 /\ Dangling(t, b)[p].effective = proxy[p].effective
                 /\ Dangling(t, b)[p].class.thread = proxy[p].class.thread
                 /\ Dangling(t, b)[p].class.slot = proxy[p].class.slot
                 /\ Dangling(t, b)[p].class.block =
                       IF proxy[p].class.thread = t /\ proxy[p].class.block = b THEN 0
                       ELSE proxy[p].class.block
<1> DEFINE gone(p) == proxy[p].class.thread = t /\ proxy[p].class.block = b
<1>1. \A p \in Proxy : Dangling(t, b)[p] = IF gone(p) THEN [proxy[p] EXCEPT !.class.block = 0] ELSE proxy[p]
  BY DEF Dangling
<1>2. \A px \in ProxyType : /\ [px EXCEPT !.class.block = 0] \in ProxyType
                            /\ SameTarget([px EXCEPT !.class.block = 0], px)
  BY DEF ProxyType, HandleType, SameTarget
<1>3. \A px \in ProxyType : LET qx == [px EXCEPT !.class.block = 0] IN
        qx.id = px.id /\ qx.ret = px.ret /\ qx.effective = px.effective
  BY DEF ProxyType
<1>4. \A px \in ProxyType : LET qx == [px EXCEPT !.class.block = 0] IN
        qx.class.thread = px.class.thread /\ qx.class.slot = px.class.slot /\ qx.class.block = 0
  BY DEF ProxyType, HandleType
<1>5. \A p \in Proxy : proxy[p] \in ProxyType /\ SameTarget(proxy[p], proxy[p])
  BY DEF TypeOK, SameTarget
<1>6. \A p \in Proxy : Dangling(t, b)[p] \in ProxyType /\ SameTarget(Dangling(t, b)[p], proxy[p])
  BY <1>1, <1>2, <1>5
<1>7. Dangling(t, b) \in [Proxy -> ProxyType]
  BY <1>6 DEF Dangling
<1>8. \A p \in Proxy : /\ Dangling(t, b)[p].id = proxy[p].id /\ Dangling(t, b)[p].ret = proxy[p].ret
                       /\ Dangling(t, b)[p].effective = proxy[p].effective
  <2> HIDE DEF gone
  <2> QED BY <1>1, <1>3, <1>5
<1>9. \A p \in Proxy : /\ Dangling(t, b)[p].class.thread = proxy[p].class.thread
                       /\ Dangling(t, b)[p].class.slot = proxy[p].class.slot
                       /\ Dangling(t, b)[p].class.block = IF gone(p) THEN 0 ELSE proxy[p].class.block
  <2> HIDE DEF gone
  <2> QED BY <1>1, <1>4, <1>5
<1> QED BY <1>6, <1>7, <1>8, <1>9

\* A step of one thread.
LEMMA TypeStep ==
    ASSUME TypeOK, NEW t \in Thread, NEW f \in FrameType,
           Push(t, f) \/ (stack[t] # <<>> /\ SetTop(t, f)) \/ (stack[t] # <<>> /\ Pop(t)) \/ UNCHANGED stack,
           f.path # "new" => f.p \in Proxy /\ proxy[f.p].method # NoMethod,
           stub' = stub,
           proxy' \in [Proxy -> ProxyType], \A p \in Proxy : SameTarget(proxy'[p], proxy[p]),
           refs' \in [Thread -> [Slot -> Reserved]],
           pending' \in [Thread -> {"none", "class", "callee", "stub", "constructor"}],
           state' \in [Thread -> {"native", "java"}],
           used' \in [Proxy -> SUBSET DOMAIN Method]
    PROVE  TypeOK'
<1>1. Stacks
  BY DEF TypeOK, Stacks
<1>2. /\ Stacks'
      /\ \A u \in Thread : \A i \in DOMAIN stack'[u] :
            (i \in DOMAIN stack[u] /\ stack'[u][i] = stack[u][i]) \/ stack'[u][i] = f
  BY <1>1, OldFrames
<1>3. \A u \in Thread : \A i \in DOMAIN stack'[u] : stack'[u][i].path # "new" =>
          stack'[u][i].p \in Proxy /\ proxy[stack'[u][i].p].method # NoMethod
  <2> SUFFICES ASSUME NEW u \in Thread, NEW i \in DOMAIN stack'[u], stack'[u][i].path # "new"
               PROVE  stack'[u][i].p \in Proxy /\ proxy[stack'[u][i].p].method # NoMethod
    OBVIOUS
  <2>1. PICK g : g = stack'[u][i]
    OBVIOUS
  <2>2. CASE i \in DOMAIN stack[u] /\ g = stack[u][i]
    <3>1. stack[u][i].path # "new"
      BY <2>1, <2>2
    <3>2. stack[u][i].p \in Proxy /\ proxy[stack[u][i].p].method # NoMethod
      BY <2>2, <3>1 DEF TypeOK
    <3> QED BY <2>1, <2>2, <3>2
  <2>3. CASE g = f
    BY <2>1, <2>3
  <2> QED BY <1>2, <2>1, <2>2, <2>3
<1>4. \A u \in Thread : \A i \in DOMAIN stack'[u] : stack'[u][i].path # "new" =>
          stack'[u][i].p \in Proxy /\ proxy'[stack'[u][i].p].method # NoMethod
  <2> SUFFICES ASSUME NEW u \in Thread, NEW i \in DOMAIN stack'[u], stack'[u][i].path # "new"
               PROVE  stack'[u][i].p \in Proxy /\ proxy'[stack'[u][i].p].method # NoMethod
    OBVIOUS
  <2>1. PICK q : q = stack'[u][i].p
    OBVIOUS
  <2>2. q \in Proxy /\ proxy[q].method # NoMethod
    BY <1>3, <2>1
  <2>3. proxy'[q].method = proxy[q].method
    BY <2>2 DEF SameTarget
  <2> QED BY <2>1, <2>2, <2>3
<1>5. \A p \in Proxy : proxy'[p].method # NoMethod => proxy'[p].klass \in DOMAIN Walk
  BY DEF TypeOK, SameTarget
<1>6. stub' \in BOOLEAN
  BY DEF TypeOK
<1> QED BY <1>2, <1>4, <1>5, <1>6 DEF TypeOK, Stacks

LEMMA InitType == Init => TypeOK
<1> SUFFICES ASSUME Init PROVE TypeOK
  OBVIOUS
<1>1. NoHandle \in HandleType
  BY DEF NoHandle, Handle, HandleType
<1>2. NoProxy \in ProxyType /\ NoProxy.method = NoMethod
  BY <1>1 DEF NoProxy, NewProxy, ProxyType, Id, ReturnChar
<1>3. Free \in Reserved
  BY DEF Free, Reserved
<1>4. <<>> \in Seq(FrameType) /\ DOMAIN <<>> = {}
  OBVIOUS
<1>5. stack \in [Thread -> Seq(FrameType)] /\ \A t \in Thread : stack[t] = <<>>
  BY <1>4 DEF Init
<1>6. \A t \in Thread : DOMAIN stack[t] = {}
  BY <1>4, <1>5
<1>7. refs \in [Thread -> [Slot -> Reserved]]
  BY <1>3 DEF Init, Slot
<1>8. proxy \in [Proxy -> ProxyType] /\ \A p \in Proxy : proxy[p].method = NoMethod
  BY <1>2 DEF Init
<1> QED BY <1>5, <1>6, <1>7, <1>8 DEF Init, TypeOK

LEMMA FrameTyped ==
    ASSUME NEW path \in {"jni", "stub", "new"}, NEW p \in Proxy \cup Made, NEW args \in Argument
    PROVE  Frame(path, p, args) \in FrameType
<1>1. NoHandle \in HandleType
  BY DEF NoHandle, Handle, HandleType
<1> QED BY <1>1 DEF Frame, FrameType, Id, ReturnChar

\* The frame at which a thread is.
LEMMA AtTop ==
    ASSUME TypeOK, NEW t \in Thread, NEW path, NEW pc, At(t, path, pc)
    PROVE  /\ stack[t] # <<>> /\ Top(t) \in FrameType /\ Top(t).path = path /\ Top(t).pc = pc
           /\ path # "new" => Top(t).p \in Proxy /\ Bound(proxy[Top(t).p])
                              /\ proxy[Top(t).p].method # NoMethod
<1>1. Stacks
  BY DEF TypeOK, Stacks
<1>2. stack[t] # <<>> /\ Top(t).path = path /\ Top(t).pc = pc
  BY DEF At
<1>3. Top(t) \in FrameType /\ Len(stack[t]) \in DOMAIN stack[t] /\ Top(t) = stack[t][Len(stack[t])]
  BY <1>1, <1>2, StackType
<1>4. path # "new" => Top(t).p \in Proxy /\ proxy[Top(t).p].method # NoMethod
  BY <1>2, <1>3 DEF TypeOK
<1> QED BY <1>2, <1>3, <1>4, ProxyBound

LEMMA GetMethodType ==
    ASSUME TypeOK, NEW p \in Proxy, NEW q \in Lookup, GetMethod(p, q)
    PROVE  TypeOK'
<1> DEFINE m == FirstOf(q.klass, Wanted(q))
           px == NewProxy(m, q.klass, q.static, q.sig # AnySig)
<1>1. q.klass \in DOMAIN Walk /\ q.static \in BOOLEAN
  BY MethodCallAssumption
<1>2. m \in DOMAIN Method
  BY <1>1, FirstOfIn DEF GetMethod
<1> HIDE DEF m
<1>3. NoHandle \in HandleType
  BY DEF NoHandle, Handle, HandleType
<1>4. px \in ProxyType /\ px.klass \in DOMAIN Walk /\ px.method = m
  BY <1>1, <1>2, <1>3 DEF NewProxy, ProxyType, Id, ReturnChar
<1>5. proxy' = [proxy EXCEPT ![p] = px]
  BY DEF GetMethod, m
<1> HIDE DEF px
<1>6. m # NoMethod
  BY <1>2, MethodCallAssumption
<1>7. /\ proxy' \in [Proxy -> ProxyType]
      /\ \A r \in Proxy : proxy'[r].method # NoMethod => proxy'[r].klass \in DOMAIN Walk
      /\ \A r \in Proxy : proxy[r].method # NoMethod => proxy'[r].method # NoMethod
  BY <1>4, <1>5, <1>6 DEF TypeOK
<1>8. UNCHANGED <<stub, stack, refs, pending, state>> /\ used' \in [Proxy -> SUBSET DOMAIN Method]
  BY DEF GetMethod, TypeOK
<1> QED BY <1>7, <1>8 DEF TypeOK

\* The frame that a call over JNI pushes.
JniFrame(p, args) ==
    LET px == proxy[p]
        sel == ResolveCompatible(px, args) IN
    [Frame("jni", p, args) EXCEPT !.sel = sel, !.byref = sel # px.method,
                                  !.ret = IF px.ret = "" THEN RetChar(sel) ELSE px.ret,
                                  !.pc = IF px.id = NoMethod THEN "lookup" ELSE "pack"]

\* The caches that a call over JNI leaves.
JniProxy(p, args) ==
    LET px == proxy[p]
        sel == ResolveCompatible(px, args) IN
    [px EXCEPT !.effective = IF sel # px.method THEN sel ELSE px.effective,
               !.ret = IF px.ret = "" THEN RetChar(sel) ELSE px.ret]

\* A call over JNI begins: sel is selected, f pushed, and qx the proxy with its caches.
JniStep(t, p, args, sel, f, qx) ==
    /\ sel = ResolveCompatible(proxy[p], args)
    /\ proxy[p].method # NoMethod /\ Bound(proxy[p])
    /\ Push(t, f) /\ f.p = p /\ f.path = "jni" /\ f.sel = sel
    /\ f.args = args /\ f.byref = (sel # proxy[p].method) /\ f.ret = qx.ret
    /\ f.pc = (IF proxy[p].id = NoMethod THEN "lookup" ELSE "pack")
    /\ f.strings = {} /\ f.thrown = {} /\ f.result = 0 /\ f.class = NoHandle
    /\ SameTarget(qx, proxy[p]) /\ qx.id = proxy[p].id /\ qx.class = proxy[p].class
    /\ qx.ret = (IF proxy[p].ret = "" THEN RetChar(sel) ELSE proxy[p].ret)
    /\ qx.effective = (IF sel # proxy[p].method THEN sel ELSE proxy[p].effective)
    /\ proxy' = [proxy EXCEPT ![p] = qx]
    /\ used' = [used EXCEPT ![p] = used[p] \cup {sel}]
    /\ UNCHANGED <<stub, refs, pending, state, out>>
    /\ Ready(t)

LEMMA CallJniShape ==
    ASSUME TypeOK, NEW t \in Thread, NEW p \in Proxy, NEW args \in Argument, CallJni(t, p, args)
    PROVE  \E sel \in DOMAIN Method, f \in FrameType, qx \in ProxyType : JniStep(t, p, args, sel, f, qx)
<1> DEFINE sel == ResolveCompatible(proxy[p], args)
           ret == IF proxy[p].ret = "" THEN RetChar(sel) ELSE proxy[p].ret
           eff == IF sel # proxy[p].method THEN sel ELSE proxy[p].effective
           pc == IF proxy[p].id = NoMethod THEN "lookup" ELSE "pack"
           byref == sel # proxy[p].method
<1>1. proxy[p].method # NoMethod /\ Bound(proxy[p])
  BY ProxyBound DEF CallJni, MayCall
<1>2. sel \in DOMAIN Method
  BY <1>1, Resolved
<1>3. proxy[p] \in ProxyType
  BY DEF TypeOK
<1>4. /\ JniFrame(p, args) = [Frame("jni", p, args) EXCEPT !.sel = sel, !.byref = byref, !.ret = ret, !.pc = pc]
      /\ JniProxy(p, args) = [proxy[p] EXCEPT !.effective = eff, !.ret = ret]
  BY DEF JniFrame, JniProxy
<1>5. /\ Push(t, JniFrame(p, args))
      /\ used' = [used EXCEPT ![p] = used[p] \cup {sel}]
      /\ UNCHANGED <<stub, refs, pending, state, out>>
      /\ Ready(t)
  BY DEF CallJni, JniFrame, MayCall
<1>6. proxy' = [proxy EXCEPT ![p] = [proxy[p] EXCEPT !.effective = eff, !.ret = ret]]
  <2>1. proxy' = [proxy EXCEPT ![p].effective = eff, ![p].ret = ret]
    BY DEF CallJni
  <2> HIDE DEF sel, ret, eff, pc, byref
  <2>2. proxy \in [Proxy -> ProxyType]
    BY DEF TypeOK
  <2>3. \A q \in Proxy : q # p => proxy'[q] = proxy[q]
    BY <2>1, <2>2
  <2>4. proxy'[p] = [proxy[p] EXCEPT !.effective = eff, !.ret = ret]
    BY <1>3, <2>1, <2>2 DEF ProxyType
  <2>5. proxy' = [q \in Proxy |-> proxy'[q]]
    BY <2>1, <2>2
  <2> QED BY <2>2, <2>3, <2>4, <2>5
<1>7. ret \in ReturnChar /\ eff \in Id /\ pc \in {"lookup", "pack"} /\ byref \in BOOLEAN /\ sel \in Id
  BY <1>2, <1>3, RetCharType DEF ProxyType, Id
<1>8. Frame("jni", p, args) \in FrameType
  BY FrameTyped
<1> HIDE DEF sel, ret, eff, pc, byref
<1>9. JniFrame(p, args) \in FrameType
  BY <1>4, <1>7, <1>8 DEF FrameType
<1>10. LET f == JniFrame(p, args) IN
       /\ f.p = p /\ f.path = "jni" /\ f.sel = sel /\ f.args = args /\ f.byref = byref /\ f.ret = ret
       /\ f.pc = pc /\ f.strings = {} /\ f.thrown = {} /\ f.result = 0 /\ f.class = NoHandle
  BY <1>4 DEF Frame
<1>11. LET qx == JniProxy(p, args) IN
       /\ qx \in ProxyType /\ SameTarget(qx, proxy[p]) /\ qx.id = proxy[p].id
       /\ qx.class = proxy[p].class /\ qx.ret = ret /\ qx.effective = eff
  BY <1>3, <1>4, <1>7 DEF ProxyType, SameTarget
<1>12. proxy' = [proxy EXCEPT ![p] = JniProxy(p, args)]
  BY <1>4, <1>6
<1>13. /\ sel = ResolveCompatible(proxy[p], args) /\ byref = (sel # proxy[p].method)
       /\ ret = (IF proxy[p].ret = "" THEN RetChar(sel) ELSE proxy[p].ret)
       /\ eff = (IF sel # proxy[p].method THEN sel ELSE proxy[p].effective)
       /\ pc = (IF proxy[p].id = NoMethod THEN "lookup" ELSE "pack")
  BY DEF sel, ret, eff, pc, byref
<1>14. JniStep(t, p, args, sel, JniFrame(p, args), JniProxy(p, args))
  BY <1>1, <1>5, <1>10, <1>11, <1>12, <1>13 DEF JniStep
<1>15. JniProxy(p, args) \in ProxyType
  BY <1>11
<1> QED BY <1>2, <1>9, <1>14, <1>15

LEMMA CallJniType ==
    ASSUME TypeOK, NEW t \in Thread, NEW p \in Proxy, NEW args \in Argument, CallJni(t, p, args)
    PROVE  TypeOK'
<1>1. PICK sel \in DOMAIN Method, f \in FrameType, qx \in ProxyType : JniStep(t, p, args, sel, f, qx)
  BY CallJniShape
<1>2. proxy' \in [Proxy -> ProxyType] /\ \A r \in Proxy : SameTarget(proxy'[r], proxy[r])
  BY <1>1 DEF JniStep, TypeOK, SameTarget
<1>3. used' \in [Proxy -> SUBSET DOMAIN Method]
  BY <1>1 DEF JniStep, TypeOK
<1>4. /\ refs' \in [Thread -> [Slot -> Reserved]]
      /\ pending' \in [Thread -> {"none", "class", "callee", "stub", "constructor"}]
      /\ state' \in [Thread -> {"native", "java"}] /\ stub' = stub
  BY <1>1 DEF JniStep, TypeOK
<1>5. Push(t, f) /\ f.p = p /\ proxy[p].method # NoMethod
  BY <1>1 DEF JniStep
<1> QED BY <1>2, <1>3, <1>4, <1>5, TypeStep

\* What a call keeps from its beginning to its end, and what it keeps in most steps.
SameCall(f, g) ==
    /\ f.path = g.path /\ f.p = g.p /\ f.args = g.args /\ f.sel = g.sel
    /\ f.byref = g.byref /\ f.ret = g.ret /\ f.saved = g.saved
SameHeld(f, g) == f.strings = g.strings /\ f.thrown = g.thrown /\ f.result = g.result
SameUse(f, g) == f.id = g.id /\ f.class = g.class

\* The innermost call of t goes on as f.
Goes(t, f) == stack[t] # <<>> /\ SetTop(t, f) /\ SameCall(f, Top(t))

EnterStep(t, f) ==
    /\ Goes(t, f) /\ SameHeld(f, Top(t)) /\ SameUse(f, Top(t))
    /\ Top(t).pc \in {"callee", "toString"} /\ f.pc = "hook" /\ f.resume = Top(t).pc
    /\ UNCHANGED <<stub, proxy, refs, pending, state, used, out>>

LeaveStep(t, f) ==
    /\ Goes(t, f) /\ SameHeld(f, Top(t)) /\ SameUse(f, Top(t))
    /\ Top(t).pc = "hook" /\ f.pc = Top(t).resume /\ f.resume = Top(t).resume
    /\ state' = [state EXCEPT ![t] = "java"]
    /\ UNCHANGED <<stub, proxy, refs, pending, used, out>>

FoundStep(t, f) ==
    /\ Goes(t, f) /\ SameHeld(f, Top(t)) /\ SameUse(f, Top(t))
    /\ f.pc = "pack" /\ f.resume = Top(t).resume

DispatchStep(t, f) ==
    /\ Goes(t, f) /\ At(t, "jni", "pack") /\ f.pc = "callee" /\ f.resume = Top(t).resume
    /\ f.strings \in SUBSET Slot /\ f.thrown = Top(t).thrown /\ f.result = Top(t).result
    /\ f.id = proxy[Top(t).p].id /\ f.class = proxy[Top(t).p].class
    /\ \A s \in f.strings : refs[t][s] = Free
    /\ refs' = [refs EXCEPT ![t] = Take(refs[t], f.strings, "string", Block(t))]
    /\ state' = [state EXCEPT ![t] = "java"]
    /\ UNCHANGED <<stub, proxy, pending, used, out>>

ThrowStep(t, f) ==
    /\ Goes(t, f) /\ At(t, "jni", "callee") /\ f.pc = "check" /\ f.resume = Top(t).resume
    /\ SameHeld(f, Top(t)) /\ SameUse(f, Top(t))
    /\ refs' = [refs EXCEPT ![t] = Closed(t)]
    /\ pending' = [pending EXCEPT ![t] = "callee"]
    /\ JavaEnds(t) /\ UNCHANGED <<stub, used, out>>

CheckStep(t, f) ==
    /\ Goes(t, f) /\ At(t, "jni", "check") /\ f.pc = "toString" /\ f.resume = Top(t).resume
    /\ f.thrown \in SUBSET Slot /\ f.strings = Top(t).strings /\ f.result = Top(t).result
    /\ SameUse(f, Top(t))
    /\ \A s \in f.thrown : refs[t][s] = Free
    /\ refs' = [refs EXCEPT ![t] = Take(refs[t], f.thrown, "thrown", Block(t))]
    /\ pending' = [pending EXCEPT ![t] = "none"]
    /\ state' = [state EXCEPT ![t] = "java"]
    /\ UNCHANGED <<stub, proxy, used, out>>

DescribeStep(t, f) ==
    /\ Goes(t, f) /\ At(t, "jni", "toString") /\ f.pc = "decode" /\ f.resume = Top(t).resume
    /\ f.thrown = {} /\ f.strings = Top(t).strings /\ f.result = Top(t).result
    /\ SameUse(f, Top(t))
    /\ refs' = [refs EXCEPT ![t] = Delete(Closed(t), Top(t).thrown)]
    /\ JavaEnds(t) /\ UNCHANGED <<stub, pending, used, out>>

LEMMA HookShapes ==
    ASSUME TypeOK, NEW t \in Thread
    PROVE  /\ EnterHook(t) => \E f \in FrameType : EnterStep(t, f)
           /\ LeaveHook(t) => \E f \in FrameType : LeaveStep(t, f)
<1>1. Stacks
  BY DEF TypeOK, Stacks
<1>2. stack[t] # <<>> => Top(t) \in FrameType
  BY <1>1, StackType
<1>3. ASSUME EnterHook(t) PROVE \E f \in FrameType : EnterStep(t, f)
  <2> DEFINE f == [Top(t) EXCEPT !.pc = "hook", !.resume = Top(t).pc]
  <2>1. Top(t) \in FrameType /\ Top(t).pc \in {"callee", "toString"}
    BY <1>2, <1>3 DEF EnterHook
  <2>2. f \in FrameType /\ SameCall(f, Top(t)) /\ SameHeld(f, Top(t)) /\ SameUse(f, Top(t))
        /\ f.pc = "hook" /\ f.resume = Top(t).pc
    BY <2>1 DEF FrameType, SameCall, SameHeld, SameUse
  <2>3. SetTop(t, f) /\ stack[t] # <<>> /\ UNCHANGED <<stub, proxy, refs, pending, state, used, out>>
    BY <1>3 DEF EnterHook
  <2> HIDE DEF f
  <2> QED BY <2>1, <2>2, <2>3 DEF EnterStep, Goes
<1>4. ASSUME LeaveHook(t) PROVE \E f \in FrameType : LeaveStep(t, f)
  <2> DEFINE f == [Top(t) EXCEPT !.pc = Top(t).resume]
  <2>1. Top(t) \in FrameType /\ Top(t).pc = "hook"
    BY <1>2, <1>4 DEF LeaveHook
  <2>2. f \in FrameType /\ SameCall(f, Top(t)) /\ SameHeld(f, Top(t)) /\ SameUse(f, Top(t))
        /\ f.pc = Top(t).resume /\ f.resume = Top(t).resume
    BY <2>1 DEF FrameType, SameCall, SameHeld, SameUse
  <2>3. /\ SetTop(t, f) /\ stack[t] # <<>> /\ state' = [state EXCEPT ![t] = "java"]
        /\ UNCHANGED <<stub, proxy, refs, pending, used, out>>
    BY <1>4 DEF LeaveHook
  <2> HIDE DEF f
  <2> QED BY <2>1, <2>2, <2>3 DEF LeaveStep, Goes
<1> QED BY <1>3, <1>4

LEMMA DispatchShape ==
    ASSUME TypeOK, NEW t \in Thread, Dispatch(t)
    PROVE  \E f \in FrameType : DispatchStep(t, f)
<1> DEFINE slots == NextSlots(refs[t], Strings(Top(t).args))
           px == proxy[Top(t).p]
           f == [Top(t) EXCEPT !.pc = "callee", !.strings = slots, !.id = px.id, !.class = px.class]
<1>1. At(t, "jni", "pack")
  BY DEF Dispatch
<1>2. stack[t] # <<>> /\ Top(t) \in FrameType /\ Top(t).p \in Proxy
  BY <1>1, AtTop
<1>3. slots \in SUBSET Slot /\ \A s \in slots : refs[t][s] = Free
  BY TakeDelete DEF TypeOK
<1>4. /\ refs' = [refs EXCEPT ![t] = Take(refs[t], slots, "string", Block(t))]
      /\ SetTop(t, f) /\ state' = [state EXCEPT ![t] = "java"]
      /\ UNCHANGED <<stub, proxy, pending, used, out>>
  BY DEF Dispatch
<1>5. px \in ProxyType
  BY <1>2 DEF TypeOK
<1> HIDE DEF slots, px
<1>6. /\ f \in FrameType /\ SameCall(f, Top(t)) /\ f.pc = "callee" /\ f.resume = Top(t).resume
      /\ f.strings = slots /\ f.thrown = Top(t).thrown /\ f.result = Top(t).result
      /\ f.id = px.id /\ f.class = px.class
  BY <1>2, <1>3, <1>5 DEF FrameType, SameCall, ProxyType
<1> HIDE DEF f
<1> QED BY <1>1, <1>2, <1>3, <1>4, <1>6 DEF DispatchStep, Goes, px

LEMMA ExceptionShapes ==
    ASSUME TypeOK, NEW t \in Thread
    PROVE  /\ Throw(t) => \E f \in FrameType : ThrowStep(t, f)
           /\ Check(t) => \E f \in FrameType : CheckStep(t, f)
           /\ DescribeThrowable(t) => \E f \in FrameType : DescribeStep(t, f)
<1>1. ASSUME Throw(t) PROVE \E f \in FrameType : ThrowStep(t, f)
  <2> DEFINE f == [Top(t) EXCEPT !.pc = "check"]
  <2>1. At(t, "jni", "callee")
    BY <1>1 DEF Throw
  <2>2. stack[t] # <<>> /\ Top(t) \in FrameType
    BY <2>1, AtTop
  <2>3. /\ f \in FrameType /\ SameCall(f, Top(t)) /\ f.pc = "check" /\ f.resume = Top(t).resume
        /\ SameHeld(f, Top(t)) /\ SameUse(f, Top(t))
    BY <2>2 DEF FrameType, SameCall, SameHeld, SameUse
  <2>4. /\ SetTop(t, f) /\ refs' = [refs EXCEPT ![t] = Closed(t)]
        /\ pending' = [pending EXCEPT ![t] = "callee"]
        /\ JavaEnds(t) /\ UNCHANGED <<stub, used, out>>
    BY <1>1 DEF Throw
  <2> HIDE DEF f
  <2> QED BY <2>1, <2>2, <2>3, <2>4 DEF ThrowStep, Goes
<1>2. ASSUME Check(t) PROVE \E f \in FrameType : CheckStep(t, f)
  <2> DEFINE slots == NextSlots(refs[t], 2)
             f == [Top(t) EXCEPT !.pc = "toString", !.thrown = slots]
  <2>1. At(t, "jni", "check")
    BY <1>2 DEF Check
  <2>2. stack[t] # <<>> /\ Top(t) \in FrameType
    BY <2>1, AtTop
  <2>3. slots \in SUBSET Slot /\ \A s \in slots : refs[t][s] = Free
    BY TakeDelete DEF TypeOK
  <2>4. /\ SetTop(t, f) /\ refs' = [refs EXCEPT ![t] = Take(refs[t], slots, "thrown", Block(t))]
        /\ pending' = [pending EXCEPT ![t] = "none"] /\ state' = [state EXCEPT ![t] = "java"]
        /\ UNCHANGED <<stub, proxy, used, out>>
    BY <1>2 DEF Check
  <2> HIDE DEF slots
  <2>5. /\ f \in FrameType /\ SameCall(f, Top(t)) /\ f.pc = "toString" /\ f.resume = Top(t).resume
        /\ f.thrown = slots /\ f.strings = Top(t).strings /\ f.result = Top(t).result
        /\ SameUse(f, Top(t))
    BY <2>2, <2>3 DEF FrameType, SameCall, SameUse
  <2> HIDE DEF f
  <2> QED BY <2>1, <2>2, <2>3, <2>4, <2>5 DEF CheckStep, Goes
<1>3. ASSUME DescribeThrowable(t) PROVE \E f \in FrameType : DescribeStep(t, f)
  <2> DEFINE f == [Top(t) EXCEPT !.pc = "decode", !.thrown = {}]
  <2>1. At(t, "jni", "toString")
    BY <1>3 DEF DescribeThrowable
  <2>2. stack[t] # <<>> /\ Top(t) \in FrameType
    BY <2>1, AtTop
  <2>3. /\ SetTop(t, f) /\ refs' = [refs EXCEPT ![t] = Delete(Closed(t), Top(t).thrown)]
        /\ JavaEnds(t) /\ UNCHANGED <<stub, pending, used, out>>
    BY <1>3 DEF DescribeThrowable
  <2>4. /\ f \in FrameType /\ SameCall(f, Top(t)) /\ f.pc = "decode" /\ f.resume = Top(t).resume
        /\ f.thrown = {} /\ f.strings = Top(t).strings /\ f.result = Top(t).result
        /\ SameUse(f, Top(t))
    BY <2>2 DEF FrameType, SameCall, SameUse
  <2> HIDE DEF f
  <2> QED BY <2>1, <2>2, <2>3, <2>4 DEF DescribeStep, Goes
<1> QED BY <1>1, <1>2, <1>3

\* One reference takes one slot.
LEMMA OneSlot ==
    ASSUME NEW R \in [Slot -> Reserved], NEW s \in NextSlots(R, 1), NEW u \in NextSlots(R, 1)
    PROVE  s = u
<1>1. ASSUME NEW x \in NextSlots(R, 1), NEW y \in NextSlots(R, 1), x < y PROVE FALSE
  <2> DEFINE S == {z \in FreeSlots(R) : z < y}
  <2>1. x \in FreeSlots(R) /\ y \in FreeSlots(R) /\ Cardinality(S) < 1
    BY <1>1 DEF NextSlots
  <2>2. IsFiniteSet(Slot) /\ S \in SUBSET Slot
    BY MethodCallAssumption, FS_Interval DEF Slot, FreeSlots
  <2>3. IsFiniteSet(S)
    BY <2>2, FS_Subset
  <2>4. S = {}
    <3> HIDE DEF S
    <3>1. Cardinality(S) \in Nat
      BY <2>3, FS_CardinalityType
    <3>2. Cardinality(S) = 0
      BY <2>1, <3>1
    <3> QED BY <2>3, <3>2, FS_EmptySet
  <2> QED BY <1>1, <2>1, <2>4
<1>2. s \in Nat /\ u \in Nat
  BY MethodCallAssumption DEF NextSlots, FreeSlots, Slot
<1> QED BY <1>1, <1>2

ReturnStep(t, f) ==
    /\ Goes(t, f) /\ At(t, "jni", "callee") /\ f.resume = Top(t).resume
    /\ f.pc = (IF pending[t] = "none" THEN "decode" ELSE "check")
    /\ f.strings = Top(t).strings /\ f.thrown = Top(t).thrown
    /\ SameUse(f, Top(t))
    /\ \/ f.result = 0 /\ refs' = [refs EXCEPT ![t] = Closed(t)]
       \/ /\ f.result \in Slot /\ Closed(t)[f.result] = Free
          /\ refs' = [refs EXCEPT ![t] = Take(Closed(t), {f.result}, "result", Block(t) - 1)]
    /\ JavaEnds(t) /\ UNCHANGED <<stub, pending, used, out>>

LEMMA ReturnShape ==
    ASSUME TypeOK, NEW t \in Thread, Return(t)
    PROVE  \E f \in FrameType : ReturnStep(t, f)
<1>1. At(t, "jni", "callee")
  BY DEF Return
<1>2. stack[t] # <<>> /\ Top(t) \in FrameType
  BY <1>1, AtTop
<1>3. JavaEnds(t) /\ UNCHANGED <<stub, pending, used, out>>
  BY DEF Return
<1> DEFINE pc == IF pending[t] = "none" THEN "decode" ELSE "check"
<1>4. PICK slots \in {{}, NextSlots(Closed(t), 1)} :
        /\ refs' = [refs EXCEPT ![t] = Take(Closed(t), slots, "result", Block(t) - 1)]
        /\ SetTop(t, [Top(t) EXCEPT !.pc = pc, !.result = IF slots = {} THEN 0 ELSE CHOOSE s \in slots : TRUE])
  <2>1. PICK slots \in {{}} \cup (IF Top(t).ret = "L" THEN {NextSlots(Closed(t), 1)} ELSE {}) :
        /\ refs' = [refs EXCEPT ![t] = Take(Closed(t), slots, "result", Block(t) - 1)]
        /\ SetTop(t, [Top(t) EXCEPT !.pc = pc, !.result = IF slots = {} THEN 0 ELSE CHOOSE s \in slots : TRUE])
    BY DEF Return
  <2>2. slots \in {{}, NextSlots(Closed(t), 1)}
    OBVIOUS
  <2> QED BY <2>1, <2>2
<1> DEFINE r == IF slots = {} THEN 0 ELSE CHOOSE s \in slots : TRUE
           f == [Top(t) EXCEPT !.pc = pc, !.result = r]
<1>5. Closed(t) \in [Slot -> Reserved]
  BY ClosedType
<1>6. slots = {} \/ (slots = {r} /\ r \in Slot /\ Closed(t)[r] = Free)
  <2>1. slots # {} => r \in slots
    OBVIOUS
  <2>2. slots # {} => slots = NextSlots(Closed(t), 1)
    BY <1>4
  <2> HIDE DEF r
  <2>3. slots # {} => slots = {r}
    BY <1>5, <2>1, <2>2, OneSlot
  <2> QED BY <1>5, <2>1, <2>2, <2>3, TakeDelete
<1>7. slots = {} => r = 0
  OBVIOUS
<1>8. r \in Nat /\ pc \in {"decode", "check"} /\ 0 \notin Slot
  BY <1>6, <1>7, MethodCallAssumption DEF Slot
<1>9. SetTop(t, f)
  BY <1>4
<1> HIDE DEF r
<1>10. Take(Closed(t), {}, "result", Block(t) - 1) = Closed(t)
  BY <1>5 DEF Take
<1>11. pc = (IF pending[t] = "none" THEN "decode" ELSE "check")
  OBVIOUS
<1> HIDE DEF pc
<1>12. /\ f \in FrameType /\ SameCall(f, Top(t)) /\ f.pc = pc /\ f.resume = Top(t).resume
       /\ f.strings = Top(t).strings /\ f.thrown = Top(t).thrown /\ f.result = r
       /\ SameUse(f, Top(t))
  BY <1>2, <1>8 DEF FrameType, SameCall, SameUse
<1> HIDE DEF f
<1>13. \/ r = 0 /\ refs' = [refs EXCEPT ![t] = Closed(t)]
       \/ /\ r \in Slot /\ Closed(t)[r] = Free
          /\ refs' = [refs EXCEPT ![t] = Take(Closed(t), {r}, "result", Block(t) - 1)]
  BY <1>4, <1>6, <1>7, <1>10
<1> QED BY <1>1, <1>2, <1>3, <1>9, <1>11, <1>12, <1>13 DEF ReturnStep, Goes

\* The class is found: s is its reference, qx the proxy with its caches.
LookupStep(t, s, qx) ==
    LET px == proxy[Top(t).p] IN
    /\ At(t, "jni", "lookup")
    /\ refs[t][s] = Free
    /\ refs' = [refs EXCEPT ![t] = Take(refs[t], {s}, "class", Block(t))]
    /\ proxy' = [proxy EXCEPT ![Top(t).p] = qx]
    /\ SameTarget(qx, px) /\ qx.ret = px.ret /\ qx.effective = px.effective
    /\ qx.id = MethodId(Top(t)) /\ qx.class = Handle(t, s, Block(t))
    /\ \/ pending' = [pending EXCEPT ![t] = "none"]
       \/ pending' = pending
    /\ \/ qx.id = NoMethod /\ Pop(t) /\ out' = NoResult
       \/ qx.id # NoMethod /\ out' = out /\ \E f \in FrameType : FoundStep(t, f)
    /\ UNCHANGED <<stub, state, used>>

LEMMA MethodIdIsIdFor ==
    ASSUME NEW f
    PROVE  MethodId(f) = IdFor(proxy[f.p], Effective(f))
BY DEF MethodId, IdFor

LEMMA LookupShape ==
    ASSUME TypeOK, NEW t \in Thread, LookupClass(t)
    PROVE  \E s \in Slot, qx \in ProxyType : LookupStep(t, s, qx)
<1> DEFINE id == MethodId(Top(t))
           p == Top(t).p
<1>1. At(t, "jni", "lookup")
  BY DEF LookupClass
<1>2. stack[t] # <<>> /\ Top(t) \in FrameType /\ p \in Proxy /\ Bound(proxy[p]) /\ proxy[p] \in ProxyType
  BY <1>1, AtTop DEF TypeOK
<1>3. PICK s \in NextSlots(refs[t], 1) :
        /\ refs' = [refs EXCEPT ![t] = Take(refs[t], {s}, "class", Block(t))]
        /\ proxy' = [proxy EXCEPT ![p].id = id, ![p].class = Handle(t, s, Block(t))]
  BY DEF LookupClass
<1> DEFINE h == Handle(t, s, Block(t))
           qx == [proxy[p] EXCEPT !.id = id, !.class = h]
<1>4. s \in Slot /\ refs[t][s] = Free
  BY <1>3, TakeDelete DEF TypeOK
<1>5. h \in HandleType
  BY <1>4, BlockNat, MethodCallAssumption DEF Handle, HandleType, Slot
<1>6. id \in Id
  BY <1>2, MethodIdIsIdFor, IdForIn DEF Id
<1>7. \/ id = NoMethod /\ Pop(t) /\ out' = NoResult
      \/ id # NoMethod /\ out' = out /\ SetTop(t, [Top(t) EXCEPT !.pc = "pack"])
  BY DEF LookupClass, Abort
<1>8. pending' = [pending EXCEPT ![t] = "none"] \/ pending' = pending
  <2>1. pending' = [pending EXCEPT ![t] = IF id = NoMethod \/ ~ proxy[p].static THEN "none" ELSE pending[t]]
    BY DEF LookupClass
  <2>2. pending \in [Thread -> {"none", "class", "callee", "stub", "constructor"}]
    BY DEF TypeOK
  <2> HIDE DEF id, p
  <2> QED BY <2>1, <2>2
<1>9. UNCHANGED <<stub, state, used>>
  BY DEF LookupClass
<1>10. proxy' = [proxy EXCEPT ![p] = qx]
  <2> HIDE DEF id, h
  <2>1. proxy' = [proxy EXCEPT ![p].id = id, ![p].class = h]
    BY <1>3 DEF h
  <2> QED BY <1>2, <2>1 DEF TypeOK, ProxyType
<1> HIDE DEF id, h
<1>11. /\ qx \in ProxyType /\ SameTarget(qx, proxy[p]) /\ qx.ret = proxy[p].ret
       /\ qx.effective = proxy[p].effective /\ qx.id = id /\ qx.class = h
  BY <1>2, <1>5, <1>6 DEF ProxyType, SameTarget
<1>12. ASSUME SetTop(t, [Top(t) EXCEPT !.pc = "pack"]) PROVE \E f \in FrameType : FoundStep(t, f)
  <2> DEFINE f == [Top(t) EXCEPT !.pc = "pack"]
  <2>1. /\ f \in FrameType /\ SameCall(f, Top(t)) /\ SameHeld(f, Top(t)) /\ SameUse(f, Top(t))
        /\ f.pc = "pack" /\ f.resume = Top(t).resume
    BY <1>2 DEF FrameType, SameCall, SameHeld, SameUse
  <2>2. SetTop(t, f)
    BY <1>12
  <2> HIDE DEF f
  <2> QED BY <1>2, <2>1, <2>2 DEF FoundStep, Goes
<1> HIDE DEF qx
<1>13. LookupStep(t, s, qx)
  BY <1>1, <1>3, <1>4, <1>7, <1>8, <1>9, <1>10, <1>11, <1>12 DEF LookupStep, id, h
<1> QED BY <1>4, <1>11, <1>13

\* A call begins that holds no reference but the strings S.
Begins(f, path, p, args, S) ==
    /\ f.path = path /\ f.p = p /\ f.args = args /\ f.pc = "callee" /\ f.resume = "callee"
    /\ f.strings = S /\ f.thrown = {} /\ f.result = 0 /\ f.class = NoHandle

StubStep(t, p, args, f) ==
    /\ Begins(f, "stub", p, args, {}) /\ f.saved = state[t]
    /\ f.sel = ResolveCompatible(proxy[p], args) /\ f.id = f.sel
    /\ proxy[p].method # NoMethod /\ Ready(t) /\ Push(t, f)
    /\ state' = [state EXCEPT ![t] = "java"]
    /\ UNCHANGED <<stub, proxy, refs, pending, used, out>>

LEMMA StubShape ==
    ASSUME TypeOK, NEW t \in Thread, NEW p \in Proxy, NEW args \in Argument, CallStub(t, p, args)
    PROVE  \E f \in FrameType : StubStep(t, p, args, f)
<1> DEFINE sel == ResolveCompatible(proxy[p], args)
           ret == RetChar(sel)
           f == [Frame("stub", p, args) EXCEPT !.sel = sel, !.id = sel, !.ret = ret, !.saved = state[t]]
<1>1. proxy[p].method # NoMethod /\ Bound(proxy[p])
  BY ProxyBound DEF CallStub, MayCall
<1>2. sel \in DOMAIN Method
  BY <1>1, Resolved
<1>3. ret \in ReturnChar
  BY <1>2, RetCharType
<1>4. Push(t, f) /\ Ready(t) /\ state' = [state EXCEPT ![t] = "java"]
      /\ UNCHANGED <<stub, proxy, refs, pending, used, out>>
  BY DEF CallStub, MayCall
<1>5. Frame("stub", p, args) \in FrameType /\ state[t] \in {"native", "java"}
  BY FrameTyped DEF TypeOK
<1> HIDE DEF sel, ret
<1>6. f \in FrameType
  BY <1>2, <1>3, <1>5 DEF FrameType, Id
<1>7. Begins(f, "stub", p, args, {}) /\ f.saved = state[t] /\ f.sel = sel /\ f.id = sel
  BY DEF Frame, Begins
<1> HIDE DEF f
<1> QED BY <1>1, <1>4, <1>6, <1>7 DEF StubStep, sel

NewStep(t, klass, args, f) ==
    /\ Begins(f, "new", klass, args, f.strings) /\ f.saved = "native" /\ Ready(t) /\ Push(t, f)
    /\ f.strings \in SUBSET Slot /\ \A s \in f.strings : refs[t][s] = Free
    /\ refs' = [refs EXCEPT ![t] = Take(refs[t], f.strings, "string", Block(t))]
    /\ pending' = [pending EXCEPT ![t] = "none"]
    /\ state' = [state EXCEPT ![t] = "java"]
    /\ UNCHANGED <<stub, proxy, used, out>>

LEMMA NewShape ==
    ASSUME TypeOK, NEW t \in Thread, NEW klass \in Made, NEW args \in Argument, MakeUnique(t, klass, args)
    PROVE  \/ \E f \in FrameType : NewStep(t, klass, args, f)
           \/ /\ pending' = [pending EXCEPT ![t] = "none"] /\ out' = NoResult
              /\ UNCHANGED <<stack, refs, state, stub, proxy, used>>
<1> DEFINE slots == NextSlots(refs[t], Strings(args))
           id == Constructor(klass, args)
           f == [Frame("new", klass, args) EXCEPT !.id = id, !.sel = id, !.strings = slots]
<1>1. CASE id = NoMethod
  BY <1>1 DEF MakeUnique
<1>2. CASE id # NoMethod
  <2>1. /\ Push(t, f) /\ Ready(t) /\ pending' = [pending EXCEPT ![t] = "none"]
        /\ refs' = [refs EXCEPT ![t] = Take(refs[t], slots, "string", Block(t))]
        /\ state' = [state EXCEPT ![t] = "java"] /\ UNCHANGED <<stub, proxy, used, out>>
    BY <1>2 DEF MakeUnique
  <2>2. id \in Id
    BY FirstOfIn, MethodCallAssumption DEF Constructor, Id
  <2>3. slots \in SUBSET Slot /\ \A s \in slots : refs[t][s] = Free
    BY TakeDelete DEF TypeOK
  <2>4. Frame("new", klass, args) \in FrameType
    BY FrameTyped
  <2> HIDE DEF slots, id
  <2>5. f \in FrameType
    BY <2>2, <2>3, <2>4 DEF FrameType
  <2>6. Begins(f, "new", klass, args, slots) /\ f.saved = "native" /\ f.strings = slots
    BY DEF Frame, Begins
  <2> HIDE DEF f
  <2> QED BY <2>1, <2>3, <2>5, <2>6 DEF NewStep
<1> QED BY <1>1, <1>2

\* A call ends, in native code or out of Java.
DecodeStep(t) ==
    /\ At(t, "jni", "decode") /\ Pop(t)
    /\ refs' = [refs EXCEPT ![t] = Delete(refs[t], Held(Top(t)))]
    /\ UNCHANGED <<stub, proxy, pending, state, used>>

NewEndStep(t) ==
    /\ At(t, "new", "callee") /\ Pop(t) /\ JavaEnds(t)
    /\ refs' = [refs EXCEPT ![t] = Delete(Closed(t), Held(Top(t)))]
    /\ pending' \in {pending, [pending EXCEPT ![t] = "constructor"]}
    /\ out' = NoResult /\ UNCHANGED <<stub, used>>

StubEndStep(t) ==
    /\ At(t, "stub", "callee") /\ Pop(t)
    /\ state' = [state EXCEPT ![t] = Top(t).saved]
    /\ pending' \in {pending, [pending EXCEPT ![t] = "stub"]}
    /\ UNCHANGED <<stub, proxy, refs, used>>

LEMMA EndShapes ==
    ASSUME TypeOK, NEW t \in Thread
    PROVE  /\ Decode(t) => DecodeStep(t)
           /\ (\E thrown \in BOOLEAN : NewObject(t, thrown)) => NewEndStep(t)
           /\ StubReturn(t) \/ StubThrow(t) => StubEndStep(t)
<1>1. Decode(t) => DecodeStep(t)
  BY DEF Decode, DecodeStep
<1>2. (\E thrown \in BOOLEAN : NewObject(t, thrown)) => NewEndStep(t)
  BY DEF NewObject, NewEndStep
<1>3. StubReturn(t) => StubEndStep(t)
  BY DEF StubReturn, LeaveStub, StubEndStep
<1>4. StubThrow(t) => StubEndStep(t)
  BY DEF StubThrow, LeaveStub, StubEndStep
<1> QED BY <1>1, <1>2, <1>3, <1>4

\* References and proxies of the other threads' calls, after Java code ends.
LEMMA JavaEndsType ==
    ASSUME TypeOK, NEW t \in Thread, JavaEnds(t)
    PROVE  /\ proxy' \in [Proxy -> ProxyType] /\ \A p \in Proxy : SameTarget(proxy'[p], proxy[p])
           /\ state' \in [Thread -> {"native", "java"}]
<1>1. proxy' = Dangling(t, Block(t)) /\ state' = [state EXCEPT ![t] = "native"]
  BY DEF JavaEnds
<1>2. proxy' \in [Proxy -> ProxyType] /\ \A p \in Proxy : SameTarget(proxy'[p], proxy[p])
  BY <1>1, DanglingType
<1> QED BY <1>1, <1>2 DEF TypeOK

LEMMA NextType ==
    ASSUME TypeOK, [Next]_vars
    PROVE  TypeOK'
<1>0. /\ refs \in [Thread -> [Slot -> Reserved]] /\ state \in [Thread -> {"native", "java"}]
      /\ pending \in [Thread -> {"none", "class", "callee", "stub", "constructor"}]
      /\ used \in [Proxy -> SUBSET DOMAIN Method]
      /\ proxy \in [Proxy -> ProxyType] /\ \A p \in Proxy : SameTarget(proxy[p], proxy[p])
  BY DEF TypeOK, SameTarget
<1>1. ASSUME NEW p \in Proxy, NEW q \in Lookup, GetMethod(p, q) PROVE TypeOK'
  BY <1>1, GetMethodType
<1>2. ASSUME NEW t \in Thread, NEW p \in Proxy, NEW args \in Argument, CallJni(t, p, args) PROVE TypeOK'
  BY <1>2, CallJniType
<1>3. ASSUME NEW t \in Thread, NEW p \in Proxy, NEW args \in Argument, CallStub(t, p, args) PROVE TypeOK'
  <2>1. PICK f \in FrameType : StubStep(t, p, args, f)
    BY <1>3, StubShape
  <2> QED BY <1>0, <2>1, TypeStep DEF StubStep, Begins
<1>4. ASSUME NEW t \in Thread, NEW klass \in Made, NEW args \in Argument, MakeUnique(t, klass, args)
      PROVE  TypeOK'
  <2>1. CASE \E f \in FrameType : NewStep(t, klass, args, f)
    <3>1. PICK f \in FrameType : NewStep(t, klass, args, f)
      BY <2>1
    <3>2. refs' \in [Thread -> [Slot -> Reserved]]
      BY <1>0, <3>1, TakeDelete, BlockNat DEF NewStep
    <3> QED BY <1>0, <3>1, <3>2, TypeStep DEF NewStep, Begins
  <2>2. CASE pending' = [pending EXCEPT ![t] = "none"] /\ UNCHANGED <<stack, refs, state, stub, proxy, used>>
    BY <2>2 DEF TypeOK
  <2> QED BY <1>4, <2>1, <2>2, NewShape
<1>5. ASSUME NEW t \in Thread, NEW f \in FrameType, Goes(t, f), stub' = stub, used' = used,
             proxy' \in [Proxy -> ProxyType], \A p \in Proxy : SameTarget(proxy'[p], proxy[p]),
             refs' \in [Thread -> [Slot -> Reserved]],
             pending' \in [Thread -> {"none", "class", "callee", "stub", "constructor"}],
             state' \in [Thread -> {"native", "java"}]
      PROVE  TypeOK'
  <2>1. Stacks
    BY DEF TypeOK, Stacks
  <2>2. stack[t] # <<>> /\ SetTop(t, f) /\ SameCall(f, Top(t))
    BY <1>5 DEF Goes
  <2>3. Top(t) \in FrameType /\ Len(stack[t]) \in DOMAIN stack[t] /\ Top(t) = stack[t][Len(stack[t])]
    BY <2>1, <2>2, StackType
  <2>4. f.path # "new" => f.p \in Proxy /\ proxy[f.p].method # NoMethod
    BY <2>2, <2>3 DEF TypeOK, SameCall
  <2> QED BY <1>0, <1>5, <2>2, <2>4, TypeStep
<1>6. ASSUME NEW t \in Thread, EnterHook(t) PROVE TypeOK'
  <2>1. PICK f \in FrameType : EnterStep(t, f)
    BY <1>6, HookShapes
  <2> QED BY <1>0, <1>5, <2>1 DEF EnterStep
<1>7. ASSUME NEW t \in Thread, LeaveHook(t) PROVE TypeOK'
  <2>1. PICK f \in FrameType : LeaveStep(t, f)
    BY <1>7, HookShapes
  <2> QED BY <1>0, <1>5, <2>1 DEF LeaveStep
<1>8. ASSUME NEW t \in Thread, FrameEnd(t) PROVE TypeOK'
  <2>1. proxy' \in [Proxy -> ProxyType] /\ \A p \in Proxy : SameTarget(proxy'[p], proxy[p])
    BY <1>8, DanglingType DEF FrameEnd
  <2>2. Free \in Reserved
    BY DEF Free, Reserved
  <2>3. refs' \in [Thread -> [Slot -> Reserved]]
    BY <1>0, <1>8, <2>2 DEF FrameEnd, Slot
  <2>4. pending' \in [Thread -> {"none", "class", "callee", "stub", "constructor"}]
    BY <1>0, <1>8 DEF FrameEnd
  <2>5. UNCHANGED <<stub, stack, state, used>>
    BY <1>8 DEF FrameEnd
  <2>6. \A p \in Proxy : proxy'[p].method = proxy[p].method /\ proxy'[p].klass = proxy[p].klass
    BY <2>1 DEF SameTarget
  <2>7. /\ \A p \in Proxy : proxy'[p].method # NoMethod => proxy'[p].klass \in DOMAIN Walk
        /\ \A u \in Thread : \A i \in DOMAIN stack[u] : stack[u][i].path # "new" =>
              stack[u][i].p \in Proxy /\ proxy'[stack[u][i].p].method # NoMethod
    <3>1. \A p \in Proxy : proxy[p].method # NoMethod => proxy[p].klass \in DOMAIN Walk
      BY DEF TypeOK
    <3>2. \A u \in Thread : \A i \in DOMAIN stack[u] : stack[u][i].path # "new" =>
              stack[u][i].p \in Proxy /\ proxy[stack[u][i].p].method # NoMethod
      BY DEF TypeOK
    <3> QED BY <2>6, <3>1, <3>2
  <2>8. /\ Stacks' /\ stub' \in BOOLEAN /\ state' \in [Thread -> {"native", "java"}]
        /\ used' \in [Proxy -> SUBSET DOMAIN Method]
    BY <2>5 DEF TypeOK, Stacks
  <2> QED BY <2>1, <2>3, <2>4, <2>5, <2>7, <2>8 DEF TypeOK, Stacks
<1>9. ASSUME NEW t \in Thread, stack[t] # <<>>, Pop(t), stub' = stub, used' = used,
             proxy' \in [Proxy -> ProxyType], \A p \in Proxy : SameTarget(proxy'[p], proxy[p]),
             refs' \in [Thread -> [Slot -> Reserved]],
             pending' \in [Thread -> {"none", "class", "callee", "stub", "constructor"}],
             state' \in [Thread -> {"native", "java"}]
      PROVE  TypeOK'
  <2>1. Stacks
    BY DEF TypeOK, Stacks
  <2>2. Top(t) \in FrameType /\ Len(stack[t]) \in DOMAIN stack[t] /\ Top(t) = stack[t][Len(stack[t])]
    BY <1>9, <2>1, StackType
  <2>3. Top(t).path # "new" => Top(t).p \in Proxy /\ proxy[Top(t).p].method # NoMethod
    BY <2>2 DEF TypeOK
  <2> QED BY <1>0, <1>9, <2>2, <2>3, TypeStep
<1>10. ASSUME NEW t \in Thread, LookupNoClass(t) PROVE TypeOK'
  <2>1. At(t, "jni", "lookup") /\ Pop(t) /\ pending' = [pending EXCEPT ![t] = "class"]
        /\ UNCHANGED <<stub, proxy, refs, state, used>>
    BY <1>10 DEF LookupNoClass, Abort
  <2> QED BY <1>0, <1>9, <2>1, AtTop
<1>11. ASSUME NEW t \in Thread, LookupClass(t) PROVE TypeOK'
  <2>1. PICK s \in Slot, qx \in ProxyType : LookupStep(t, s, qx)
    BY <1>11, LookupShape
  <2>2. At(t, "jni", "lookup") /\ Top(t).p \in Proxy /\ stack[t] # <<>>
    BY <2>1, AtTop DEF LookupStep
  <2>3. proxy' \in [Proxy -> ProxyType] /\ \A p \in Proxy : SameTarget(proxy'[p], proxy[p])
    BY <1>0, <2>1, <2>2 DEF LookupStep
  <2>4. refs' \in [Thread -> [Slot -> Reserved]]
    BY <1>0, <2>1, TakeDelete, BlockNat DEF LookupStep
  <2>5. stub' = stub /\ used' = used /\ state' = state
        /\ pending' \in [Thread -> {"none", "class", "callee", "stub", "constructor"}]
    BY <1>0, <2>1 DEF LookupStep
  <2>6. Pop(t) \/ \E f \in FrameType : Goes(t, f)
    BY <2>1 DEF LookupStep, FoundStep
  <2> QED BY <1>0, <1>5, <1>9, <2>2, <2>3, <2>4, <2>5, <2>6
<1>12. ASSUME NEW t \in Thread, Dispatch(t) PROVE TypeOK'
  <2>1. PICK f \in FrameType : DispatchStep(t, f)
    BY <1>12, DispatchShape
  <2>2. refs' \in [Thread -> [Slot -> Reserved]]
    BY <1>0, <2>1, TakeDelete, BlockNat DEF DispatchStep
  <2> QED BY <1>0, <1>5, <2>1, <2>2 DEF DispatchStep
<1>13. ASSUME NEW t \in Thread, Return(t) PROVE TypeOK'
  <2>1. PICK f \in FrameType : ReturnStep(t, f)
    BY <1>13, ReturnShape
  <2>2. Block(t) - 1 \in Nat /\ Closed(t) \in [Slot -> Reserved]
    BY BlockNat, ClosedType
  <2>3. refs' \in [Thread -> [Slot -> Reserved]]
    <3>1. Take(Closed(t), {f.result}, "result", Block(t) - 1) \in [Slot -> Reserved]
      BY <2>2, TakeDelete
    <3> QED BY <1>0, <2>1, <2>2, <3>1 DEF ReturnStep
  <2>4. JavaEnds(t) /\ Goes(t, f) /\ UNCHANGED <<stub, pending, used, out>>
    BY <2>1 DEF ReturnStep
  <2> QED BY <1>0, <1>5, <2>3, <2>4, JavaEndsType
<1>14. ASSUME NEW t \in Thread, Throw(t) PROVE TypeOK'
  <2>1. PICK f \in FrameType : ThrowStep(t, f)
    BY <1>14, ExceptionShapes
  <2>2. refs' \in [Thread -> [Slot -> Reserved]]
    BY <1>0, <2>1, ClosedType DEF ThrowStep
  <2>3. pending' \in [Thread -> {"none", "class", "callee", "stub", "constructor"}]
    BY <1>0, <2>1 DEF ThrowStep
  <2>4. JavaEnds(t) /\ Goes(t, f) /\ UNCHANGED <<stub, used, out>>
    BY <2>1 DEF ThrowStep
  <2> QED BY <1>0, <1>5, <2>2, <2>3, <2>4, JavaEndsType
<1>15. ASSUME NEW t \in Thread, Check(t) PROVE TypeOK'
  <2>1. PICK f \in FrameType : CheckStep(t, f)
    BY <1>15, ExceptionShapes
  <2>2. refs' \in [Thread -> [Slot -> Reserved]]
    BY <1>0, <2>1, TakeDelete, BlockNat DEF CheckStep
  <2> QED BY <1>0, <1>5, <2>1, <2>2 DEF CheckStep
<1>16. ASSUME NEW t \in Thread, DescribeThrowable(t) PROVE TypeOK'
  <2>1. PICK f \in FrameType : DescribeStep(t, f)
    BY <1>16, ExceptionShapes
  <2>2. refs' \in [Thread -> [Slot -> Reserved]]
    BY <1>0, <2>1, ClosedType, TakeDelete DEF DescribeStep
  <2>3. JavaEnds(t) /\ Goes(t, f) /\ UNCHANGED <<stub, pending, used, out>>
    BY <2>1 DEF DescribeStep
  <2> QED BY <1>0, <1>5, <2>2, <2>3, JavaEndsType
<1>17. ASSUME NEW t \in Thread, Decode(t) PROVE TypeOK'
  <2>1. DecodeStep(t)
    BY <1>17, EndShapes
  <2>2. refs' \in [Thread -> [Slot -> Reserved]]
    BY <1>0, <2>1, TakeDelete DEF DecodeStep
  <2> QED BY <1>0, <1>9, <2>1, <2>2, AtTop DEF DecodeStep
<1>18. ASSUME NEW t \in Thread, StubReturn(t) \/ StubThrow(t) PROVE TypeOK'
  <2>1. StubEndStep(t)
    BY <1>18, EndShapes
  <2>2. stack[t] # <<>> /\ Top(t).saved \in {"native", "java"}
    BY <2>1, AtTop DEF StubEndStep, FrameType
  <2>3. state' \in [Thread -> {"native", "java"}]
        /\ pending' \in [Thread -> {"none", "class", "callee", "stub", "constructor"}]
    BY <1>0, <2>1, <2>2 DEF StubEndStep
  <2> QED BY <1>0, <1>9, <2>1, <2>2, <2>3 DEF StubEndStep
<1>19. ASSUME NEW t \in Thread, NEW thrown \in BOOLEAN, NewObject(t, thrown) PROVE TypeOK'
  <2>1. NewEndStep(t)
    BY <1>19, EndShapes
  <2>2. refs' \in [Thread -> [Slot -> Reserved]]
    BY <1>0, <2>1, ClosedType, TakeDelete DEF NewEndStep
  <2>3. stack[t] # <<>> /\ Pop(t) /\ JavaEnds(t) /\ stub' = stub /\ used' = used
    BY <2>1, AtTop DEF NewEndStep
  <2>4. pending' \in [Thread -> {"none", "class", "callee", "stub", "constructor"}]
    BY <1>0, <2>1 DEF NewEndStep
  <2> QED BY <1>0, <1>9, <2>2, <2>3, <2>4, JavaEndsType
<1>20. CASE UNCHANGED vars
  BY <1>20 DEF vars, TypeOK
<1> QED BY <1>1, <1>2, <1>3, <1>4, <1>6, <1>7, <1>8, <1>10, <1>11, <1>12, <1>13, <1>14, <1>15,
           <1>16, <1>17, <1>18, <1>19, <1>20 DEF Next

\* Calls, proxies, references and thread states keep their types: a call never holds a
\* slot outside of the thread's reference table, and a call through a proxy always has a
\* method.
THEOREM TypeCorrect == Spec => []TypeOK
BY InitType, NextType, PTL DEF Spec

-----------------------------------------------------------------------------
(* ThreadSettled.                                                          *)

LEMMA SettlePush ==
    ASSUME SettledInv, TypeOK', NEW t \in Thread, NEW f \in FrameType, Push(t, f), Ready(t),
           \A u \in Thread \ {t} : state'[u] = state[u] /\ pending'[u] = pending[u],
           f.pc \in {"callee", "toString"} => state'[t] = "java",
           f.pc \in {"lookup", "pack", "check", "decode"} => state'[t] = state[t],
           f.path = "stub" => f.saved = state[t],
           pending'[t] \in {pending[t], "none"}
    PROVE  SettledInv'
<1> DEFINE n == Len(stack[t])
<1>1. Stacks
  BY DEF SettledInv, TypeOK, Stacks
<1>2. /\ Len(stack'[t]) = n + 1 /\ stack'[t] # <<>> /\ DOMAIN stack'[t] = 1..(n + 1)
      /\ stack'[t][n + 1] = f /\ \A i \in DOMAIN stack[t] : stack'[t][i] = stack[t][i]
      /\ \A u \in Thread \ {t} : stack'[u] = stack[u]
  BY <1>1, Pushed
<1>3. /\ n \in Nat /\ DOMAIN stack[t] = 1..n
      /\ stack[t] # <<>> => n \in 1..n /\ Top(t) = stack[t][n]
      /\ stack[t] = <<>> => n = 0
  BY <1>1, StackType
<1>4. Calm(stack[t], state[t], pending[t])
  BY DEF SettledInv
<1>5. stack[t] # <<>> => stack[t][n].pc = "hook"
  BY <1>3 DEF Ready
<1>6. \A i \in DOMAIN stack'[t] : i < Len(stack'[t]) => stack'[t][i].pc = "hook"
  <2> SUFFICES ASSUME NEW i \in 1..n PROVE stack[t][i].pc = "hook"
    BY <1>2, <1>3
  <2>1. i < n => stack[t][i].pc = "hook"
    BY <1>3, <1>4 DEF Calm
  <2> QED BY <1>3, <1>5, <2>1
<1>7. stack'[t][1].path = "stub" => stack'[t][1].saved = "native"
  <2>1. CASE stack[t] = <<>>
    BY <1>2, <1>3, <1>4, <2>1 DEF Calm
  <2>2. CASE stack[t] # <<>>
    BY <1>2, <1>3, <1>4, <2>2 DEF Calm
  <2> QED BY <2>1, <2>2
<1>8. Len(stack'[t]) = 1 /\ f.pc \in {"lookup", "pack", "check", "decode"} => state'[t] = "native"
  BY <1>2, <1>3, <1>4 DEF Calm
<1>9. pending'[t] # "callee"
  BY <1>4, <1>5 DEF Calm
<1>10. Calm(stack'[t], state'[t], pending'[t])
  BY <1>2, <1>6, <1>7, <1>8, <1>9 DEF Calm
<1>11. \A u \in Thread : Calm(stack'[u], state'[u], pending'[u])
  BY <1>2, <1>10 DEF SettledInv
<1> QED BY <1>11 DEF SettledInv

LEMMA SettleGo ==
    ASSUME SettledInv, TypeOK', NEW t \in Thread, NEW f \in FrameType, Goes(t, f),
           \A u \in Thread \ {t} : state'[u] = state[u] /\ pending'[u] = pending[u],
           f.pc \in {"callee", "toString"} => state'[t] = "java",
           f.pc \in {"lookup", "pack", "check", "decode"} =>
              \/ state'[t] = "native"
              \/ Top(t).pc \in {"lookup", "pack", "check", "decode"} /\ state'[t] = state[t],
           pending'[t] = "callee" => f.path = "jni" /\ f.pc = "check"
    PROVE  SettledInv'
<1> DEFINE n == Len(stack[t])
<1>0. stack[t] # <<>> /\ SetTop(t, f) /\ f.path = Top(t).path /\ f.saved = Top(t).saved
  BY DEF Goes, SameCall
<1>1. Stacks
  BY DEF SettledInv, TypeOK, Stacks
<1>2. /\ Len(stack'[t]) = n /\ stack'[t] # <<>> /\ DOMAIN stack'[t] = DOMAIN stack[t]
      /\ stack'[t][n] = f /\ \A i \in DOMAIN stack[t] : i # n => stack'[t][i] = stack[t][i]
      /\ \A u \in Thread \ {t} : stack'[u] = stack[u]
  BY <1>0, <1>1, TopSet
<1>3. n \in Nat /\ DOMAIN stack[t] = 1..n /\ n \in 1..n /\ Top(t) = stack[t][n]
  BY <1>0, <1>1, StackType
<1>4. Calm(stack[t], state[t], pending[t])
  BY DEF SettledInv
<1>5. \A i \in DOMAIN stack'[t] : i < Len(stack'[t]) => stack'[t][i].pc = "hook"
  BY <1>2, <1>3, <1>4 DEF Calm
<1>6. stack'[t][1].path = "stub" => stack'[t][1].saved = "native"
  <2>1. stack'[t][1].path = stack[t][1].path /\ stack'[t][1].saved = stack[t][1].saved
    BY <1>0, <1>2, <1>3
  <2> QED BY <1>0, <1>4, <2>1 DEF Calm
<1>7. Len(stack'[t]) = 1 /\ f.pc \in {"lookup", "pack", "check", "decode"} => state'[t] = "native"
  BY <1>0, <1>2, <1>3, <1>4 DEF Calm
<1>8. Calm(stack'[t], state'[t], pending'[t])
  BY <1>2, <1>5, <1>6, <1>7 DEF Calm
<1>9. \A u \in Thread : Calm(stack'[u], state'[u], pending'[u])
  BY <1>2, <1>8 DEF SettledInv
<1> QED BY <1>9 DEF SettledInv

LEMMA SettlePop ==
    ASSUME SettledInv, TypeOK', NEW t \in Thread, stack[t] # <<>>, Pop(t),
           \A u \in Thread \ {t} : state'[u] = state[u] /\ pending'[u] = pending[u],
           Len(stack[t]) = 1 => state'[t] = "native",
           pending'[t] # "callee"
    PROVE  SettledInv'
<1> DEFINE n == Len(stack[t])
<1>1. Stacks
  BY DEF SettledInv, TypeOK, Stacks
<1>2. /\ Len(stack'[t]) = n - 1 /\ DOMAIN stack'[t] = 1..(n - 1)
      /\ \A i \in DOMAIN stack'[t] : i \in DOMAIN stack[t] /\ stack'[t][i] = stack[t][i]
      /\ \A u \in Thread \ {t} : stack'[u] = stack[u]
  BY <1>1, Popped
<1>3. n \in Nat /\ DOMAIN stack[t] = 1..n /\ n \in 1..n /\ Top(t) = stack[t][n]
  BY <1>1, StackType
<1>4. Calm(stack[t], state[t], pending[t])
  BY DEF SettledInv
<1>5. \A i \in DOMAIN stack'[t] : stack'[t][i].pc = "hook"
  BY <1>2, <1>3, <1>4 DEF Calm
<1>6. stack'[t] \in Seq(FrameType)
  BY <1>1, Popped DEF Stacks
<1>7. CASE stack'[t] = <<>>
  <2>1. n = 1
    BY <1>2, <1>3, <1>7
  <2>2. state'[t] = "native"
    BY <2>1
  <2>3. Calm(stack'[t], state'[t], pending'[t])
    BY <1>5, <1>7, <2>2 DEF Calm
  <2>4. \A u \in Thread : Calm(stack'[u], state'[u], pending'[u])
    BY <1>2, <2>3 DEF SettledInv
  <2> QED BY <2>4 DEF SettledInv
<1>8. CASE stack'[t] # <<>>
  <2>1. n - 1 \in DOMAIN stack'[t] /\ 1 \in DOMAIN stack'[t]
    BY <1>2, <1>3, <1>6, <1>8, EmptySeq
  <2>2. stack'[t][Len(stack'[t])].pc = "hook" /\ stack'[t][1] = stack[t][1]
    BY <1>2, <1>5, <2>1
  <2>3. Calm(stack'[t], state'[t], pending'[t])
    BY <1>4, <1>5, <1>8, <2>2 DEF Calm
  <2>4. \A u \in Thread : Calm(stack'[u], state'[u], pending'[u])
    BY <1>2, <2>3 DEF SettledInv
  <2> QED BY <2>4 DEF SettledInv
<1> QED BY <1>7, <1>8

LEMMA NextSettled ==
    ASSUME SettledInv, [Next]_vars
    PROVE  SettledInv'
<1>0. TypeOK /\ TypeOK'
  BY NextType DEF SettledInv
<1>1. /\ state \in [Thread -> {"native", "java"}]
      /\ pending \in [Thread -> {"none", "class", "callee", "stub", "constructor"}]
  BY <1>0 DEF TypeOK
<1>2. \A t \in Thread : Calm(stack[t], state[t], pending[t])
  BY DEF SettledInv
<1>3. ASSUME NEW t \in Thread, NEW path, NEW pc, At(t, path, pc)
      PROVE  /\ stack[t] # <<>> /\ Top(t).pc = pc /\ Top(t).path = path
             /\ pending[t] = "callee" => pc = "check"
             /\ Len(stack[t]) = 1 /\ pc \in {"lookup", "pack", "check", "decode"} => state[t] = "native"
             /\ Len(stack[t]) = 1 /\ path = "stub" => Top(t).saved = "native"
  <2>1. stack[t] # <<>> /\ Top(t).pc = pc /\ Top(t).path = path /\ Top(t) = stack[t][Len(stack[t])]
    BY <1>3 DEF At, Top
  <2> QED BY <1>2, <2>1 DEF Calm
<1>4. ASSUME NEW t \in Thread, JavaEnds(t)
      PROVE  state'[t] = "native" /\ \A u \in Thread \ {t} : state'[u] = state[u]
  BY <1>1, <1>4 DEF JavaEnds
<1>5. ASSUME NEW p \in Proxy, NEW q \in Lookup, GetMethod(p, q) PROVE SettledInv'
  BY <1>0, <1>2, <1>5 DEF GetMethod, SettledInv
<1>6. ASSUME NEW t \in Thread, NEW p \in Proxy, NEW args \in Argument, CallJni(t, p, args) PROVE SettledInv'
  <2>1. PICK sel \in DOMAIN Method, f \in FrameType, qx \in ProxyType : JniStep(t, p, args, sel, f, qx)
    BY <1>0, <1>6, CallJniShape
  <2>2. /\ Push(t, f) /\ Ready(t) /\ state' = state /\ pending' = pending /\ f.path = "jni"
        /\ f.pc \in {"lookup", "pack"}
    BY <2>1 DEF JniStep
  <2> QED BY <1>0, <2>2, SettlePush
<1>7. ASSUME NEW t \in Thread, NEW p \in Proxy, NEW args \in Argument, CallStub(t, p, args) PROVE SettledInv'
  <2>1. PICK f \in FrameType : StubStep(t, p, args, f)
    BY <1>0, <1>7, StubShape
  <2>2. /\ Push(t, f) /\ Ready(t) /\ pending' = pending /\ f.pc = "callee" /\ f.saved = state[t]
        /\ state'[t] = "java" /\ \A u \in Thread \ {t} : state'[u] = state[u]
    BY <1>1, <2>1 DEF StubStep, Begins
  <2> QED BY <1>0, <2>2, SettlePush
<1>8. ASSUME NEW t \in Thread, NEW klass \in Made, NEW args \in Argument, MakeUnique(t, klass, args)
      PROVE  SettledInv'
  <2>1. CASE \E f \in FrameType : NewStep(t, klass, args, f)
    <3>1. PICK f \in FrameType : NewStep(t, klass, args, f)
      BY <2>1
    <3>2. /\ Push(t, f) /\ Ready(t) /\ f.pc = "callee" /\ f.path = "new"
          /\ state'[t] = "java" /\ \A u \in Thread \ {t} : state'[u] = state[u]
          /\ pending'[t] = "none" /\ \A u \in Thread \ {t} : pending'[u] = pending[u]
      BY <1>1, <3>1 DEF NewStep, Begins
    <3> QED BY <1>0, <3>2, SettlePush
  <2>2. CASE pending' = [pending EXCEPT ![t] = "none"] /\ UNCHANGED <<stack, refs, state, stub, proxy, used>>
    <3>1. \A u \in Thread : pending'[u] \in {pending[u], "none"} /\ stack'[u] = stack[u] /\ state'[u] = state[u]
      BY <1>1, <2>2
    <3>2. \A u \in Thread : Calm(stack'[u], state'[u], pending'[u])
      BY <1>2, <3>1 DEF Calm
    <3> QED BY <1>0, <3>2 DEF SettledInv
  <2> QED BY <1>0, <1>8, <2>1, <2>2, NewShape
<1>9. ASSUME NEW t \in Thread, EnterHook(t) PROVE SettledInv'
  <2>1. PICK f \in FrameType : EnterStep(t, f)
    BY <1>0, <1>9, HookShapes
  <2>2. /\ Goes(t, f) /\ f.pc = "hook" /\ state' = state /\ pending' = pending
        /\ Top(t).pc # "check" /\ stack[t] # <<>>
    BY <2>1 DEF EnterStep, Goes
  <2>3. pending[t] # "callee"
    BY <1>2, <2>2 DEF Calm, Top
  <2> QED BY <1>0, <2>2, <2>3, SettleGo
<1>10. ASSUME NEW t \in Thread, LeaveHook(t) PROVE SettledInv'
  <2>1. PICK f \in FrameType : LeaveStep(t, f)
    BY <1>0, <1>10, HookShapes
  <2>2. /\ Goes(t, f) /\ pending' = pending /\ Top(t).pc = "hook" /\ stack[t] # <<>>
        /\ f.pc = f.resume
        /\ state'[t] = "java" /\ \A u \in Thread \ {t} : state'[u] = state[u]
    BY <1>1, <2>1 DEF LeaveStep, Goes
  <2>3. pending[t] # "callee"
    BY <1>2, <2>2 DEF Calm, Top
  <2>4. f.pc \in {"callee", "toString"}
    BY <2>2 DEF FrameType
  <2> QED BY <1>0, <2>2, <2>3, <2>4, SettleGo
<1>11. ASSUME NEW t \in Thread, FrameEnd(t) PROVE SettledInv'
  <2>1. \A u \in Thread : pending'[u] \in {pending[u], "none"} /\ stack'[u] = stack[u] /\ state'[u] = state[u]
    BY <1>1, <1>11 DEF FrameEnd
  <2>2. \A u \in Thread : Calm(stack'[u], state'[u], pending'[u])
    BY <1>2, <2>1 DEF Calm
  <2> QED BY <1>0, <2>2 DEF SettledInv
<1>12. ASSUME NEW t \in Thread, LookupNoClass(t) PROVE SettledInv'
  <2>1. /\ At(t, "jni", "lookup") /\ Pop(t) /\ state' = state
        /\ pending'[t] = "class" /\ \A u \in Thread \ {t} : pending'[u] = pending[u]
    BY <1>1, <1>12 DEF LookupNoClass, Abort
  <2>2. stack[t] # <<>> /\ (Len(stack[t]) = 1 => state[t] = "native")
    BY <1>3, <2>1
  <2> QED BY <1>0, <2>1, <2>2, SettlePop
<1>13. ASSUME NEW t \in Thread, LookupClass(t) PROVE SettledInv'
  <2>1. PICK s \in Slot, qx \in ProxyType : LookupStep(t, s, qx)
    BY <1>0, <1>13, LookupShape
  <2>2. /\ At(t, "jni", "lookup") /\ state' = state
        /\ pending'[t] \in {pending[t], "none"} /\ \A u \in Thread \ {t} : pending'[u] = pending[u]
    BY <1>1, <2>1 DEF LookupStep
  <2>3. stack[t] # <<>> /\ (Len(stack[t]) = 1 => state[t] = "native") /\ pending[t] # "callee"
        /\ Top(t).pc = "lookup"
    BY <1>3, <2>2
  <2>4. CASE Pop(t)
    BY <1>0, <2>2, <2>3, <2>4, SettlePop
  <2>5. CASE \E f \in FrameType : FoundStep(t, f)
    <3>1. PICK f \in FrameType : FoundStep(t, f)
      BY <2>5
    <3>2. Goes(t, f) /\ f.pc = "pack"
      BY <3>1 DEF FoundStep
    <3> QED BY <1>0, <2>2, <2>3, <3>2, SettleGo
  <2> QED BY <2>1, <2>4, <2>5 DEF LookupStep
<1>14. ASSUME NEW t \in Thread, Dispatch(t) PROVE SettledInv'
  <2>1. PICK f \in FrameType : DispatchStep(t, f)
    BY <1>0, <1>14, DispatchShape
  <2>2. /\ Goes(t, f) /\ f.pc = "callee" /\ pending' = pending /\ At(t, "jni", "pack")
        /\ state'[t] = "java" /\ \A u \in Thread \ {t} : state'[u] = state[u]
    BY <1>1, <2>1 DEF DispatchStep
  <2>3. pending[t] # "callee"
    BY <1>3, <2>2
  <2> QED BY <1>0, <2>2, <2>3, SettleGo
<1>15. ASSUME NEW t \in Thread, Return(t) PROVE SettledInv'
  <2>1. PICK f \in FrameType : ReturnStep(t, f)
    BY <1>0, <1>15, ReturnShape
  <2>2. /\ Goes(t, f) /\ f.pc \in {"decode", "check"} /\ pending' = pending /\ At(t, "jni", "callee")
        /\ JavaEnds(t)
    BY <2>1 DEF ReturnStep
  <2>3. pending[t] # "callee"
    BY <1>3, <2>2
  <2> QED BY <1>0, <1>4, <2>2, <2>3, SettleGo
<1>16. ASSUME NEW t \in Thread, Throw(t) PROVE SettledInv'
  <2>1. PICK f \in FrameType : ThrowStep(t, f)
    BY <1>0, <1>16, ExceptionShapes
  <2>2. /\ Goes(t, f) /\ f.pc = "check" /\ At(t, "jni", "callee") /\ JavaEnds(t)
        /\ \A u \in Thread \ {t} : pending'[u] = pending[u]
    BY <1>1, <2>1 DEF ThrowStep
  <2>3. f.path = "jni"
    BY <1>3, <2>2 DEF Goes, SameCall
  <2> QED BY <1>0, <1>4, <2>2, <2>3, SettleGo
<1>17. ASSUME NEW t \in Thread, Check(t) PROVE SettledInv'
  <2>1. PICK f \in FrameType : CheckStep(t, f)
    BY <1>0, <1>17, ExceptionShapes
  <2>2. /\ Goes(t, f) /\ f.pc = "toString"
        /\ state'[t] = "java" /\ \A u \in Thread \ {t} : state'[u] = state[u]
        /\ pending'[t] = "none" /\ \A u \in Thread \ {t} : pending'[u] = pending[u]
    BY <1>1, <2>1 DEF CheckStep
  <2> QED BY <1>0, <2>2, SettleGo
<1>18. ASSUME NEW t \in Thread, DescribeThrowable(t) PROVE SettledInv'
  <2>1. PICK f \in FrameType : DescribeStep(t, f)
    BY <1>0, <1>18, ExceptionShapes
  <2>2. /\ Goes(t, f) /\ f.pc = "decode" /\ At(t, "jni", "toString") /\ JavaEnds(t) /\ pending' = pending
    BY <2>1 DEF DescribeStep
  <2>3. pending[t] # "callee"
    BY <1>3, <2>2
  <2> QED BY <1>0, <1>4, <2>2, <2>3, SettleGo
<1>19. ASSUME NEW t \in Thread, Decode(t) PROVE SettledInv'
  <2>1. At(t, "jni", "decode") /\ Pop(t) /\ state' = state /\ pending' = pending
    BY <1>0, <1>19, EndShapes DEF DecodeStep
  <2>2. stack[t] # <<>> /\ (Len(stack[t]) = 1 => state[t] = "native") /\ pending[t] # "callee"
    BY <1>3, <2>1
  <2> QED BY <1>0, <2>1, <2>2, SettlePop
<1>20. ASSUME NEW t \in Thread, StubReturn(t) \/ StubThrow(t) PROVE SettledInv'
  <2>1. StubEndStep(t)
    BY <1>0, <1>20, EndShapes
  <2>2. /\ At(t, "stub", "callee") /\ Pop(t)
        /\ state'[t] = Top(t).saved /\ \A u \in Thread \ {t} : state'[u] = state[u]
        /\ pending'[t] \in {pending[t], "stub"} /\ \A u \in Thread \ {t} : pending'[u] = pending[u]
    BY <1>1, <2>1 DEF StubEndStep
  <2>3. stack[t] # <<>> /\ (Len(stack[t]) = 1 => Top(t).saved = "native") /\ pending[t] # "callee"
    BY <1>3, <2>2
  <2> QED BY <1>0, <2>2, <2>3, SettlePop
<1>21. ASSUME NEW t \in Thread, NEW thrown \in BOOLEAN, NewObject(t, thrown) PROVE SettledInv'
  <2>1. NewEndStep(t)
    BY <1>0, <1>21, EndShapes
  <2>2. /\ At(t, "new", "callee") /\ Pop(t) /\ JavaEnds(t)
        /\ pending'[t] \in {pending[t], "constructor"} /\ \A u \in Thread \ {t} : pending'[u] = pending[u]
    BY <1>1, <2>1 DEF NewEndStep
  <2>3. stack[t] # <<>> /\ pending[t] # "callee"
    BY <1>3, <2>2
  <2> QED BY <1>0, <1>4, <2>2, <2>3, SettlePop
<1>22. CASE UNCHANGED vars
  BY <1>0, <1>2, <1>22 DEF vars, SettledInv
<1> QED BY <1>5, <1>6, <1>7, <1>8, <1>9, <1>10, <1>11, <1>12, <1>13, <1>14, <1>15, <1>16, <1>17,
           <1>18, <1>19, <1>20, <1>21, <1>22 DEF Next

LEMMA InitSettled == Init => SettledInv
<1> SUFFICES ASSUME Init PROVE \A t \in Thread : Calm(stack[t], state[t], pending[t])
  BY InitType DEF SettledInv
<1>1. \A t \in Thread : stack[t] = <<>> /\ state[t] = "native" /\ pending[t] = "none"
  BY DEF Init
<1>2. DOMAIN <<>> = {}
  OBVIOUS
<1> QED BY <1>1, <1>2 DEF Calm

\* _thread_state of method_proxy::call(), common_detour() and JNI, through any nesting of
\* calls and hooks: in Java whenever Java code runs below a call, in native code outside
\* of all calls; and check_callee_exception() clears what a callee of call_jni() throws
\* before other code of the client runs on the thread.  What callees of the stub and
\* constructors throw stays pending.
THEOREM StateSettled == Spec => []ThreadSettled
<1>1. SettledInv => ThreadSettled
  BY DEF SettledInv, Calm, ThreadSettled, Top, At
<1> QED BY <1>1, InitSettled, NextSettled, PTL DEF Spec

-----------------------------------------------------------------------------
(* Blocks of local references.                                             *)

LEMMA BelowFacts ==
    ASSUME NEW stk, NEW n \in Nat \ {0}
    PROVE  /\ Below(stk, n) \in Nat \ {0}
           /\ \A i \in 1..n : Below(stk, i) <= Below(stk, n) /\ Below(stk, i) \in Nat
           /\ Below(stk, n + 1) = Below(stk, n) + (IF stk[n].path = "stub" THEN 0 ELSE 1)
<1> DEFINE S(i) == {j \in 1..(i - 1) : stk[j].path # "stub"}
<1>1. \A i \in Nat : IsFiniteSet(S(i)) /\ Cardinality(S(i)) \in Nat
  <2> TAKE i \in Nat
  <2>1. IsFiniteSet(1..(i - 1)) /\ S(i) \in SUBSET (1..(i - 1))
    BY FS_Interval
  <2> QED BY <2>1, FS_Subset, FS_CardinalityType
<1>2. \A i : Below(stk, i) = 1 + Cardinality(S(i))
  BY DEF Below
<1>3. \A i \in 1..n : S(i) \in SUBSET S(n)
  OBVIOUS
<1>4. \A i \in 1..n : Cardinality(S(i)) <= Cardinality(S(n))
  <2> TAKE i \in 1..n
  <2>1. IsFiniteSet(S(n)) /\ S(i) \in SUBSET S(n)
    BY <1>1, <1>3
  <2> HIDE DEF S
  <2> QED BY <2>1, FS_Subset
<1>5. Cardinality(S(n + 1)) = Cardinality(S(n)) + (IF stk[n].path = "stub" THEN 0 ELSE 1)
  <2>1. CASE stk[n].path = "stub"
    <3>1. S(n + 1) = S(n)
      BY <2>1
    <3> HIDE DEF S
    <3>2. Cardinality(S(n)) \in Nat
      BY <1>1
    <3> QED BY <2>1, <3>1, <3>2
  <2>2. CASE stk[n].path # "stub"
    <3>1. S(n + 1) = S(n) \cup {n} /\ n \notin S(n)
      BY <2>2
    <3> HIDE DEF S
    <3>2. Cardinality(S(n) \cup {n}) = Cardinality(S(n)) + 1
      BY <1>1, <3>1, FS_AddElement
    <3> QED BY <2>2, <3>1, <3>2
  <2> QED BY <2>1, <2>2
<1> HIDE DEF S
<1>6. Below(stk, n) \in Nat \ {0} /\ \A i \in 1..n : Below(stk, i) <= Below(stk, n) /\ Below(stk, i) \in Nat
  BY <1>1, <1>2, <1>4
<1> QED BY <1>1, <1>2, <1>5, <1>6

LEMMA BelowOne == ASSUME NEW stk PROVE Below(stk, 1) = 1
<1>1. {j \in 1..(1 - 1) : stk[j].path # "stub"} = {}
  OBVIOUS
<1> QED BY <1>1, FS_EmptySet DEF Below

LEMMA BelowSame ==
    ASSUME NEW stk, NEW stk2, NEW i \in Nat, \A j \in 1..(i - 1) : stk2[j].path = stk[j].path
    PROVE  Below(stk2, i) = Below(stk, i)
<1>1. {j \in 1..(i - 1) : stk2[j].path # "stub"} = {j \in 1..(i - 1) : stk[j].path # "stub"}
  OBVIOUS
<1> QED BY <1>1 DEF Below

\* The number of blocks that are open.
Depth(stk) ==
    1 + Cardinality({i \in DOMAIN stk : stk[i].path # "stub" /\ stk[i].pc \in {"callee", "toString", "hook"}})

LEMMA DepthBelow ==
    ASSUME NEW stk \in Seq(FrameType), \A i \in DOMAIN stk : i < Len(stk) => stk[i].pc = "hook"
    PROVE  Depth(stk) = IF Len(stk) = 0 THEN 1
                        ELSE IF stk[Len(stk)].path # "stub"
                                /\ stk[Len(stk)].pc \in {"callee", "toString", "hook"}
                             THEN Below(stk, Len(stk)) + 1 ELSE Below(stk, Len(stk))
<1> DEFINE n == Len(stk)
           S == {i \in DOMAIN stk : stk[i].path # "stub" /\ stk[i].pc \in {"callee", "toString", "hook"}}
           T == {j \in 1..(n - 1) : stk[j].path # "stub"}
           java == stk[n].path # "stub" /\ stk[n].pc \in {"callee", "toString", "hook"}
<1>1. n \in Nat /\ DOMAIN stk = 1..n
  BY LenProperties
<1>2. Depth(stk) = 1 + Cardinality(S) /\ Below(stk, n) = 1 + Cardinality(T)
  BY DEF Depth, Below
<1>3. CASE n = 0
  <2>1. S = {}
    BY <1>1, <1>3
  <2> HIDE DEF S, T, java
  <2> QED BY <1>2, <1>3, <2>1, FS_EmptySet
<1>4. CASE n # 0
  <2>1. \A i \in 1..(n - 1) : stk[i].pc = "hook"
    BY <1>1
  <2>2. ~java => S = T
    BY <1>1, <1>4, <2>1
  <2>3. java => S = T \cup {n}
    BY <1>1, <1>4, <2>1
  <2>4. IsFiniteSet(1..(n - 1)) /\ T \in SUBSET (1..(n - 1)) /\ n \notin T
    BY <1>1, FS_Interval
  <2> HIDE DEF S, T, java
  <2>5. IsFiniteSet(T) /\ Cardinality(T) \in Nat
    BY <2>4, FS_Subset, FS_CardinalityType
  <2>6. Cardinality(T \cup {n}) = Cardinality(T) + 1
    BY <2>4, <2>5, FS_AddElement
  <2>7. CASE java
    <3>0. Cardinality(S) = Cardinality(T) + 1
      BY <2>3, <2>6, <2>7
    <3>1. Depth(stk) = Below(stk, n) + 1
      BY <1>2, <2>5, <3>0
    <3> QED BY <1>4, <2>7, <3>1 DEF java
  <2>8. CASE ~java
    <3>1. Depth(stk) = Below(stk, n)
      BY <1>2, <2>2, <2>8
    <3> QED BY <1>4, <2>8, <3>1 DEF java
  <2> QED BY <2>7, <2>8
<1> QED BY <1>3, <1>4

\* What a call holds are slots.
LEMMA HeldSlots ==
    ASSUME NEW f \in FrameType, Stage(f)
    PROVE  Held(f) \in SUBSET Slot
BY DEF Held, FrameType, Stage

-----------------------------------------------------------------------------
(* The calls of a thread and its references, when a call begins, goes on   *)
(* and ends.                                                               *)

LEMMA TidyPush ==
    ASSUME NEW t, NEW stk \in Seq(FrameType), NEW stk2, NEW f \in FrameType,
           NEW R \in [Slot -> Reserved], NEW R2 \in [Slot -> Reserved],
           Tidy(t, stk, R), Stage(f), f.class.block = 0,
           DOMAIN stk2 = 1..(Len(stk) + 1), stk2[Len(stk) + 1] = f,
           \A i \in DOMAIN stk : stk2[i] = stk[i],
           \A s \in Slot : R[s] # Free => R2[s] = R[s],
           \A s \in Held(f) : R[s] = Free /\ Kept(R2[s]) /\ R2[s].block = Below(stk, Len(stk) + 1),
           \A s \in Slot : Kept(R2[s]) => s \in Held(f) \/ Kept(R[s])
    PROVE  Tidy(t, stk2, R2)
<1> DEFINE n == Len(stk)
<1>1. n \in Nat /\ DOMAIN stk = 1..n /\ \A i \in DOMAIN stk : stk[i] \in FrameType
  BY LenProperties, ElementOfSeq
<1>2. \A i \in 1..(n + 1) : Below(stk2, i) = Below(stk, i)
  <2> TAKE i \in 1..(n + 1)
  <2>1. \A j \in 1..(i - 1) : stk2[j].path = stk[j].path
    BY <1>1
  <2> QED BY <1>1, <2>1, BelowSame
<1>3. ~Kept(Free)
  BY DEF Kept, Free
<1>4. \A i \in DOMAIN stk : Held(stk[i]) \in SUBSET Slot
  BY <1>1, HeldSlots DEF Tidy
<1>5. \A i \in DOMAIN stk : \A s \in Held(stk[i]) :
        s \in Slot /\ Kept(R[s]) /\ R[s] # Free /\ R2[s] = R[s] /\ R[s].block = Below(stk, i)
  BY <1>3, <1>4 DEF Tidy, Owns
<1>6. \A i \in DOMAIN stk2 : i \in DOMAIN stk \/ i = n + 1
  BY <1>1
<1>7. \A i \in DOMAIN stk2 : Stage(stk2[i])
  BY <1>6 DEF Tidy
<1>8. \A i \in DOMAIN stk2 : \A s \in Held(stk2[i]) : Kept(R2[s]) /\ R2[s].block = Below(stk2, i)
  <2> TAKE i \in DOMAIN stk2
  <2>1. CASE i \in DOMAIN stk
    BY <1>2, <1>5, <2>1
  <2>2. CASE i = n + 1
    BY <1>2, <2>2
  <2> QED BY <1>6, <2>1, <2>2
<1>9. \A i, j \in DOMAIN stk2 : i # j => Held(stk2[i]) \cap Held(stk2[j]) = {}
  <2>1. \A i \in DOMAIN stk : Held(stk[i]) \cap Held(f) = {}
    BY <1>5
  <2>2. \A i, j \in DOMAIN stk : i # j => Held(stk[i]) \cap Held(stk[j]) = {}
    BY DEF Tidy, Owns
  <2> QED BY <1>6, <2>1, <2>2
<1>10. \A s \in Slot : Kept(R2[s]) => \E i \in DOMAIN stk2 : s \in Held(stk2[i])
  <2> SUFFICES ASSUME NEW s \in Slot, Kept(R2[s]) PROVE \E i \in DOMAIN stk2 : s \in Held(stk2[i])
    OBVIOUS
  <2>1. CASE s \in Held(f)
    BY <1>1, <2>1
  <2>2. CASE Kept(R[s])
    <3>1. PICK i \in DOMAIN stk : s \in Held(stk[i])
      BY <2>2 DEF Tidy, Owns
    <3> QED BY <1>1, <3>1
  <2> QED BY <2>1, <2>2
<1>11. \A i \in DOMAIN stk2 : Live(stk2[i].class, t, R2, Below(stk2, i))
  <2> TAKE i \in DOMAIN stk2
  <2>1. CASE i \in DOMAIN stk
    <3>1. Live(stk[i].class, t, R, Below(stk, i)) /\ stk2[i] = stk[i] /\ Below(stk2, i) = Below(stk, i)
      BY <1>1, <1>2, <2>1 DEF Tidy
    <3> QED BY <3>1 DEF Live, Free
  <2>2. CASE i = n + 1
    BY <2>2 DEF Live
  <2> QED BY <1>6, <2>1, <2>2
<1> QED BY <1>7, <1>8, <1>9, <1>10, <1>11 DEF Tidy, Owns

LEMMA TidyGo ==
    ASSUME NEW t, NEW stk \in Seq(FrameType), NEW stk2, NEW f \in FrameType, Len(stk) # 0,
           NEW R \in [Slot -> Reserved], NEW R2 \in [Slot -> Reserved],
           Tidy(t, stk, R), Stage(f), f.path = stk[Len(stk)].path,
           DOMAIN stk2 = DOMAIN stk, stk2[Len(stk)] = f,
           \A i \in DOMAIN stk : i # Len(stk) => stk2[i] = stk[i],
           \A s \in Slot : R[s] # Free /\ R[s].block <= Below(stk, Len(stk)) /\ s \notin Held(stk[Len(stk)])
                              => R2[s] = R[s],
           \A s \in Held(f) : /\ s \in Held(stk[Len(stk)]) \/ ~Kept(R[s])
                              /\ Kept(R2[s]) /\ R2[s].block = Below(stk, Len(stk)),
           \A s \in Slot : Kept(R2[s]) => s \in Held(f) \/ (Kept(R[s]) /\ s \notin Held(stk[Len(stk)])),
           Live(f.class, t, R, Below(stk, Len(stk)))
    PROVE  Tidy(t, stk2, R2)
<1> DEFINE n == Len(stk)
<1>1. n \in Nat \ {0} /\ DOMAIN stk = 1..n /\ \A i \in DOMAIN stk : stk[i] \in FrameType
  BY LenProperties, ElementOfSeq
<1>2. \A i \in 1..n : Below(stk2, i) = Below(stk, i)
  <2> TAKE i \in 1..n
  <2>1. \A j \in 1..(i - 1) : stk2[j].path = stk[j].path
    BY <1>1
  <2> QED BY <1>1, <2>1, BelowSame
<1>3. \A i \in 1..n : Below(stk, i) <= Below(stk, n) /\ Below(stk, i) \in Nat
  BY <1>1, BelowFacts
<1>4. \A i \in DOMAIN stk : Held(stk[i]) \in SUBSET Slot
  BY <1>1, HeldSlots DEF Tidy
<1>5. \A i \in DOMAIN stk : i # n => \A s \in Held(stk[i]) :
        s \in Slot /\ Kept(R[s]) /\ R2[s] = R[s] /\ R[s].block = Below(stk, i) /\ s \notin Held(stk[n])
  <2> SUFFICES ASSUME NEW i \in DOMAIN stk, i # n, NEW s \in Held(stk[i])
               PROVE  s \in Slot /\ Kept(R[s]) /\ R2[s] = R[s] /\ R[s].block = Below(stk, i) /\ s \notin Held(stk[n])
    OBVIOUS
  <2>1. s \in Slot /\ Kept(R[s]) /\ R[s].block = Below(stk, i)
    BY <1>4 DEF Tidy, Owns
  <2>2. Held(stk[i]) \cap Held(stk[n]) = {}
    BY <1>1 DEF Tidy, Owns
  <2>3. R[s] # Free /\ R[s].block <= Below(stk, n)
    BY <1>1, <1>3, <2>1 DEF Kept, Free
  <2> QED BY <2>1, <2>2, <2>3
<1>6. \A i \in DOMAIN stk2 : Stage(stk2[i])
  BY DEF Tidy
<1>7. \A i \in DOMAIN stk2 : \A s \in Held(stk2[i]) : Kept(R2[s]) /\ R2[s].block = Below(stk2, i)
  <2> TAKE i \in DOMAIN stk2
  <2>1. CASE i # n
    BY <1>1, <1>2, <1>5, <2>1
  <2>2. CASE i = n
    BY <1>1, <1>2, <2>2
  <2> QED BY <2>1, <2>2
<1>8. \A i, j \in DOMAIN stk2 : i # j => Held(stk2[i]) \cap Held(stk2[j]) = {}
  <2>1. \A i \in DOMAIN stk : i # n => Held(stk[i]) \cap Held(f) = {}
    BY <1>5
  <2>2. \A i, j \in DOMAIN stk : i # j => Held(stk[i]) \cap Held(stk[j]) = {}
    BY DEF Tidy, Owns
  <2> QED BY <2>1, <2>2
<1>9. \A s \in Slot : Kept(R2[s]) => \E i \in DOMAIN stk2 : s \in Held(stk2[i])
  <2> SUFFICES ASSUME NEW s \in Slot, Kept(R2[s]) PROVE \E i \in DOMAIN stk2 : s \in Held(stk2[i])
    OBVIOUS
  <2>1. CASE s \in Held(f)
    BY <1>1, <2>1
  <2>2. CASE Kept(R[s]) /\ s \notin Held(stk[n])
    <3>1. PICK i \in DOMAIN stk : s \in Held(stk[i])
      BY <2>2 DEF Tidy, Owns
    <3> QED BY <2>2, <3>1
  <2> QED BY <2>1, <2>2
<1>10. \A s \in Held(stk[n]) : R[s].kind # "class"
  BY <1>1 DEF Tidy, Owns, Kept
<1>11. ASSUME NEW h \in HandleType, NEW b \in Nat, b <= Below(stk, n), Live(h, t, R, b)
       PROVE  Live(h, t, R2, b)
  <2> SUFFICES ASSUME h.thread = t, h.block > 0
               PROVE  h.slot \in Slot /\ R2[h.slot] = [kind |-> "class", block |-> h.block] /\ h.block <= b
    BY DEF Live
  <2>1. h.slot \in Slot /\ R[h.slot] = [kind |-> "class", block |-> h.block] /\ h.block <= b
    BY <1>11 DEF Live
  <2>2. R[h.slot].kind = "class" /\ R[h.slot].block = h.block /\ R[h.slot] # Free
    BY <2>1 DEF Free
  <2>3. h.block <= Below(stk, n)
    BY <1>1, <1>3, <1>11, <2>1 DEF HandleType
  <2>4. h.slot \notin Held(stk[n])
    BY <1>10, <2>2
  <2> QED BY <2>1, <2>2, <2>3, <2>4
<1>12. \A i \in DOMAIN stk2 : Live(stk2[i].class, t, R2, Below(stk2, i))
  <2> TAKE i \in DOMAIN stk2
  <2>1. CASE i # n
    <3>1. Live(stk[i].class, t, R, Below(stk, i)) /\ stk[i].class \in HandleType
      BY <1>1 DEF Tidy, FrameType
    <3> QED BY <1>1, <1>2, <1>3, <1>11, <2>1, <3>1
  <2>2. CASE i = n
    <3>1. f.class \in HandleType
      BY DEF FrameType
    <3> QED BY <1>1, <1>2, <1>3, <1>11, <2>2, <3>1
  <2> QED BY <2>1, <2>2
<1> QED BY <1>6, <1>7, <1>8, <1>9, <1>12 DEF Tidy, Owns

LEMMA TidyPop ==
    ASSUME NEW t, NEW stk \in Seq(FrameType), NEW stk2, Len(stk) # 0,
           NEW R \in [Slot -> Reserved], NEW R2 \in [Slot -> Reserved], Tidy(t, stk, R),
           DOMAIN stk2 = 1..(Len(stk) - 1), \A i \in DOMAIN stk2 : stk2[i] = stk[i],
           \A s \in Slot : R[s] # Free /\ R[s].block <= Below(stk, Len(stk)) /\ s \notin Held(stk[Len(stk)])
                              => R2[s] = R[s],
           \A s \in Slot : Kept(R2[s]) => Kept(R[s]) /\ s \notin Held(stk[Len(stk)])
    PROVE  Tidy(t, stk2, R2)
<1> DEFINE n == Len(stk)
<1>1. n \in Nat \ {0} /\ DOMAIN stk = 1..n /\ \A i \in DOMAIN stk : stk[i] \in FrameType
  BY LenProperties, ElementOfSeq
<1>2. \A i \in 1..(n - 1) : Below(stk2, i) = Below(stk, i)
  <2> TAKE i \in 1..(n - 1)
  <2>1. \A j \in 1..(i - 1) : stk2[j].path = stk[j].path
    BY <1>1
  <2> QED BY <1>1, <2>1, BelowSame
<1>3. \A i \in 1..n : Below(stk, i) <= Below(stk, n) /\ Below(stk, i) \in Nat
  BY <1>1, BelowFacts
<1>4. \A i \in DOMAIN stk : Held(stk[i]) \in SUBSET Slot
  BY <1>1, HeldSlots DEF Tidy
<1>5. \A i \in DOMAIN stk2 : \A s \in Held(stk[i]) :
        s \in Slot /\ Kept(R[s]) /\ R2[s] = R[s] /\ R[s].block = Below(stk, i)
  <2> SUFFICES ASSUME NEW i \in DOMAIN stk2, NEW s \in Held(stk[i])
               PROVE  s \in Slot /\ Kept(R[s]) /\ R2[s] = R[s] /\ R[s].block = Below(stk, i)
    OBVIOUS
  <2>0. i \in DOMAIN stk /\ i # n
    BY <1>1
  <2>1. s \in Slot /\ Kept(R[s]) /\ R[s].block = Below(stk, i)
    BY <1>4, <2>0 DEF Tidy, Owns
  <2>2. Held(stk[i]) \cap Held(stk[n]) = {}
    BY <1>1, <2>0 DEF Tidy, Owns
  <2>3. R[s] # Free /\ R[s].block <= Below(stk, n)
    BY <1>1, <1>3, <2>0, <2>1 DEF Kept, Free
  <2> QED BY <2>1, <2>2, <2>3
<1>6. \A i \in DOMAIN stk2 : i \in DOMAIN stk /\ stk2[i] = stk[i] /\ Below(stk2, i) = Below(stk, i)
  BY <1>1, <1>2
<1>7. \A i \in DOMAIN stk2 : Stage(stk2[i])
  BY <1>6 DEF Tidy
<1>8. \A i \in DOMAIN stk2 : \A s \in Held(stk2[i]) : Kept(R2[s]) /\ R2[s].block = Below(stk2, i)
  BY <1>5, <1>6
<1>9. \A i, j \in DOMAIN stk2 : i # j => Held(stk2[i]) \cap Held(stk2[j]) = {}
  BY <1>6 DEF Tidy, Owns
<1>10. \A s \in Slot : Kept(R2[s]) => \E i \in DOMAIN stk2 : s \in Held(stk2[i])
  <2> SUFFICES ASSUME NEW s \in Slot, Kept(R2[s]) PROVE \E i \in DOMAIN stk2 : s \in Held(stk2[i])
    OBVIOUS
  <2>1. Kept(R[s]) /\ s \notin Held(stk[n])
    OBVIOUS
  <2>2. PICK i \in DOMAIN stk : s \in Held(stk[i])
    BY <2>1 DEF Tidy, Owns
  <2>3. i \in DOMAIN stk2
    BY <1>1, <2>1, <2>2
  <2> QED BY <1>6, <2>2, <2>3
<1>11. \A s \in Held(stk[n]) : R[s].kind # "class"
  BY <1>1 DEF Tidy, Owns, Kept
<1>12. \A i \in DOMAIN stk2 : Live(stk2[i].class, t, R2, Below(stk2, i))
  <2> TAKE i \in DOMAIN stk2
  <2> DEFINE h == stk[i].class
  <2>1. Live(h, t, R, Below(stk, i)) /\ h \in HandleType
    BY <1>1, <1>6 DEF Tidy, FrameType
  <2> HIDE DEF h
  <2>2. Live(h, t, R2, Below(stk, i))
    <3> SUFFICES ASSUME h.thread = t, h.block > 0
                 PROVE  h.slot \in Slot /\ R2[h.slot] = [kind |-> "class", block |-> h.block] /\ h.block <= Below(stk, i)
      BY DEF Live
    <3>1. h.slot \in Slot /\ R[h.slot] = [kind |-> "class", block |-> h.block] /\ h.block <= Below(stk, i)
      BY <2>1 DEF Live
    <3>2. R[h.slot].kind = "class" /\ R[h.slot].block = h.block /\ R[h.slot] # Free
      BY <3>1 DEF Free
    <3>3. h.block <= Below(stk, n)
      BY <1>1, <1>3, <1>6, <2>1, <3>1 DEF HandleType
    <3>4. h.slot \notin Held(stk[n])
      BY <1>11, <3>2
    <3> QED BY <3>1, <3>2, <3>3, <3>4
  <2> QED BY <1>6, <2>2 DEF h
<1> QED BY <1>7, <1>8, <1>9, <1>10, <1>12 DEF Tidy, Owns

-----------------------------------------------------------------------------
(* RefsOwned.                                                              *)

LEMMA TopBlock ==
    ASSUME SettledInv, NEW t \in Thread
    PROVE  /\ Block(t) \in Nat \ {0} /\ Below(stack[t], Len(stack[t]) + 1) \in Nat
           /\ Ready(t) => Block(t) = Below(stack[t], Len(stack[t]) + 1)
           /\ stack[t] # <<>> =>
                 /\ Below(stack[t], Len(stack[t])) \in Nat \ {0}
                 /\ Block(t) = IF Top(t).path # "stub" /\ Top(t).pc \in {"callee", "toString", "hook"}
                               THEN Below(stack[t], Len(stack[t])) + 1 ELSE Below(stack[t], Len(stack[t]))
<1> DEFINE n == Len(stack[t])
<1>1. Stacks
  BY DEF SettledInv, TypeOK, Stacks
<1>2. /\ stack[t] \in Seq(FrameType) /\ n \in Nat
      /\ stack[t] # <<>> => n # 0 /\ Top(t) = stack[t][n]
      /\ stack[t] = <<>> => n = 0
  BY <1>1, StackType
<1>3. \A i \in DOMAIN stack[t] : i < n => stack[t][i].pc = "hook"
  BY DEF SettledInv, Calm
<1>4. Block(t) = Depth(stack[t])
  BY DEF Block, Depth
<1>5. Block(t) = IF n = 0 THEN 1
                 ELSE IF stack[t][n].path # "stub" /\ stack[t][n].pc \in {"callee", "toString", "hook"}
                      THEN Below(stack[t], n) + 1 ELSE Below(stack[t], n)
  BY <1>2, <1>3, <1>4, DepthBelow
<1>6. Block(t) \in Nat \ {0}
  BY BlockNat DEF SettledInv
<1>7. CASE stack[t] = <<>>
  BY <1>2, <1>5, <1>6, <1>7, BelowOne
<1>8. CASE stack[t] # <<>>
  <2>1. n \in Nat \ {0} /\ Top(t) = stack[t][n]
    BY <1>2, <1>8
  <2>2. /\ Below(stack[t], n) \in Nat \ {0}
        /\ Below(stack[t], n + 1) = Below(stack[t], n) + (IF stack[t][n].path = "stub" THEN 0 ELSE 1)
    BY <2>1, BelowFacts
  <2>3. Below(stack[t], n + 1) \in Nat
    BY <2>2
  <2>4. Block(t) = IF Top(t).path # "stub" /\ Top(t).pc \in {"callee", "toString", "hook"}
                   THEN Below(stack[t], n) + 1 ELSE Below(stack[t], n)
    BY <1>5, <2>1
  <2>5. Ready(t) => Block(t) = Below(stack[t], n + 1)
    BY <1>8, <2>2, <2>4, <2>1 DEF Ready
  <2> QED BY <1>6, <1>8, <2>2, <2>3, <2>4, <2>5
<1> QED BY <1>7, <1>8

\* The references that calls hold are in blocks below the innermost call.
LEMMA KeptLow ==
    ASSUME NEW t, NEW stk \in Seq(FrameType), Len(stk) # 0, NEW R, Tidy(t, stk, R), NEW s \in Slot, Kept(R[s])
    PROVE  R[s].block <= Below(stk, Len(stk)) /\ R[s].block \in Nat
<1>1. PICK i \in DOMAIN stk : s \in Held(stk[i])
  BY DEF Tidy, Owns
<1>2. R[s].block = Below(stk, i)
  BY <1>1 DEF Tidy, Owns
<1>3. Len(stk) \in Nat \ {0} /\ i \in 1..Len(stk)
  BY <1>1, LenProperties
<1> QED BY <1>2, <1>3, BelowFacts

\* The jclasses that proxies have cached, when no block is freed.
LEMMA ProxyKept ==
    ASSUME SettledInv, SettledInv', OwnedInv, NEW t \in Thread,
           \A p \in Proxy : proxy'[p].class = proxy[p].class,
           \A u \in Thread \ {t} : refs'[u] = refs[u] /\ stack'[u] = stack[u],
           \A s \in Slot : refs[t][s].kind = "class" => refs'[t][s] = refs[t][s],
           Depth(stack[t]) <= Depth(stack'[t])
    PROVE  \A u \in Thread : \A p \in Proxy : Live(proxy'[p].class, u, refs'[u], Depth(stack'[u]))
<1> SUFFICES ASSUME NEW u \in Thread, NEW p \in Proxy
             PROVE  Live(proxy'[p].class, u, refs'[u], Depth(stack'[u]))
  OBVIOUS
<1> DEFINE h == proxy[p].class
<1>1. \A v \in Thread : Block(v) = Depth(stack[v]) /\ Block(v) \in Nat
  BY TopBlock DEF Block, Depth
<1>2. Live(h, u, refs[u], Depth(stack[u]))
  BY <1>1 DEF OwnedInv
<1>3. h \in HandleType /\ proxy'[p].class = h
  BY DEF SettledInv, TypeOK, ProxyType
<1>4. Depth(stack'[t]) \in Nat
  <2>1. stack'[t] \in Seq(FrameType) /\ \A i \in DOMAIN stack'[t] : i < Len(stack'[t]) => stack'[t][i].pc = "hook"
    BY DEF SettledInv, TypeOK, Calm
  <2>2. Len(stack'[t]) \in Nat
    BY <2>1, LenProperties
  <2>3. Len(stack'[t]) # 0 => Below(stack'[t], Len(stack'[t])) \in Nat
    BY <2>2, BelowFacts
  <2> QED BY <2>1, <2>3, DepthBelow
<1> HIDE DEF h
<1>5. CASE u # t
  BY <1>2, <1>3, <1>5
<1>6. CASE u = t
  <2> SUFFICES ASSUME h.thread = t, h.block > 0
               PROVE  h.slot \in Slot /\ refs'[t][h.slot] = [kind |-> "class", block |-> h.block]
                      /\ h.block <= Depth(stack'[t])
    BY <1>3, <1>6 DEF Live
  <2>1. h.slot \in Slot /\ refs[t][h.slot] = [kind |-> "class", block |-> h.block] /\ h.block <= Depth(stack[t])
    BY <1>2, <1>6 DEF Live
  <2>2. refs[t][h.slot].kind = "class"
    BY <2>1
  <2>3. h.block <= Depth(stack'[t])
    BY <1>1, <1>3, <1>4, <2>1 DEF HandleType
  <2> QED BY <2>1, <2>2, <2>3
<1> QED BY <1>5, <1>6

\* The jclasses that proxies have cached, when the block of a JNI call is freed.
LEMMA ProxyEnds ==
    ASSUME SettledInv, OwnedInv, NEW t \in Thread, proxy' = Dangling(t, Block(t)),
           \A u \in Thread \ {t} : refs'[u] = refs[u] /\ stack'[u] = stack[u],
           \A s \in Slot : refs[t][s].kind = "class" /\ refs[t][s].block # Block(t) => refs'[t][s] = refs[t][s],
           Depth(stack'[t]) \in Nat, Block(t) - 1 <= Depth(stack'[t])
    PROVE  \A u \in Thread : \A p \in Proxy : Live(proxy'[p].class, u, refs'[u], Depth(stack'[u]))
<1> SUFFICES ASSUME NEW u \in Thread, NEW p \in Proxy
             PROVE  Live(proxy'[p].class, u, refs'[u], Depth(stack'[u]))
  OBVIOUS
<1> DEFINE h == proxy[p].class
           g == proxy'[p].class
<1>1. \A v \in Thread : Block(v) = Depth(stack[v]) /\ Block(v) \in Nat
  BY TopBlock DEF Block, Depth
<1>2. Live(h, u, refs[u], Depth(stack[u]))
  BY <1>1 DEF OwnedInv
<1>3. h \in HandleType
  BY DEF SettledInv, TypeOK, ProxyType
<1>4. /\ g.thread = h.thread /\ g.slot = h.slot
      /\ g.block = IF h.thread = t /\ h.block = Block(t) THEN 0 ELSE h.block
  BY DanglingType DEF SettledInv
<1> HIDE DEF g, h
<1> SUFFICES ASSUME g.thread = u, g.block > 0
             PROVE  g.slot \in Slot /\ refs'[u][g.slot] = [kind |-> "class", block |-> g.block]
                    /\ g.block <= Depth(stack'[u])
  BY DEF Live, g
<1>5. g.block = h.block /\ ~(h.thread = t /\ h.block = Block(t))
  BY <1>3, <1>4 DEF HandleType
<1>6. g.slot \in Slot /\ refs[u][g.slot] = [kind |-> "class", block |-> g.block] /\ h.block <= Depth(stack[u])
  BY <1>2, <1>4, <1>5 DEF Live
<1>7. CASE u # t
  BY <1>5, <1>6, <1>7
<1>8. CASE u = t
  <2>0. h.thread = t /\ h.block # Block(t)
    BY <1>4, <1>5, <1>8
  <2>1. refs[t][g.slot].kind = "class" /\ refs[t][g.slot].block # Block(t)
    <3>1. refs[t][g.slot] = [kind |-> "class", block |-> g.block]
      BY <1>6, <1>8
    <3>2. refs[t][g.slot].kind = "class" /\ refs[t][g.slot].block = g.block
      BY <3>1
    <3> QED BY <1>5, <2>0, <3>2
  <2>2. h.block \in Nat /\ Block(t) \in Nat /\ h.block <= Block(t) /\ h.block # Block(t)
    <3>1. h.block \in Nat
      BY <1>3 DEF HandleType
    <3>2. h.block <= Depth(stack[t])
      BY <1>6, <1>8
    <3> QED BY <1>1, <2>0, <3>1, <3>2
  <2>3. g.block <= Depth(stack'[t])
    BY <1>5, <2>2
  <2> QED BY <1>6, <1>8, <2>1, <2>3
<1> QED BY <1>7, <1>8

\* From the parts to the invariant.
LEMMA OwnedBy ==
    ASSUME \A u \in Thread : Tidy(u, stack'[u], refs'[u]),
           \A u \in Thread : \A p \in Proxy : Live(proxy'[p].class, u, refs'[u], Depth(stack'[u]))
    PROVE  OwnedInv'
<1>1. \A u \in Thread : Block(u)' = Depth(stack'[u])
  BY DEF Block, Depth
<1> QED BY <1>1 DEF OwnedInv

\* The open blocks after a step.
LEMMA DepthPush ==
    ASSUME SettledInv, SettledInv', NEW t \in Thread, NEW f \in FrameType, Push(t, f), Ready(t)
    PROVE  Depth(stack'[t]) \in Nat /\ Block(t) <= Depth(stack'[t])
<1> DEFINE n == Len(stack[t])
           stk2 == stack'[t]
<1>1. Stacks
  BY DEF SettledInv, TypeOK, Stacks
<1>2. n \in Nat /\ DOMAIN stack[t] = 1..n
  BY <1>1, StackType
<1>3. Len(stk2) = n + 1 /\ \A i \in DOMAIN stack[t] : stk2[i] = stack[t][i]
  BY <1>1, Pushed
<1>4. stk2 \in Seq(FrameType) /\ \A i \in DOMAIN stk2 : i < Len(stk2) => stk2[i].pc = "hook"
  BY DEF SettledInv, TypeOK, Calm
<1>5. Block(t) \in Nat /\ Block(t) = Below(stack[t], n + 1)
  BY TopBlock
<1> HIDE DEF stk2
<1>6. Below(stk2, n + 1) = Below(stack[t], n + 1)
  BY <1>2, <1>3, BelowSame
<1>7. Depth(stk2) = Below(stk2, n + 1) + 1 \/ Depth(stk2) = Below(stk2, n + 1)
  BY <1>2, <1>3, <1>4, DepthBelow
<1>8. Depth(stk2) \in Nat /\ Block(t) <= Depth(stk2)
  BY <1>5, <1>6, <1>7
<1> QED BY <1>8 DEF stk2

LEMMA DepthGo ==
    ASSUME SettledInv, SettledInv', NEW t \in Thread, NEW f \in FrameType, Goes(t, f)
    PROVE  /\ Depth(stack'[t]) \in Nat
           /\ Depth(stack'[t]) = IF f.path # "stub" /\ f.pc \in {"callee", "toString", "hook"}
                                 THEN Below(stack[t], Len(stack[t])) + 1 ELSE Below(stack[t], Len(stack[t]))
<1> DEFINE n == Len(stack[t])
           stk2 == stack'[t]
<1>0. stack[t] # <<>> /\ SetTop(t, f)
  BY DEF Goes
<1>1. Stacks
  BY DEF SettledInv, TypeOK, Stacks
<1>2. n \in Nat /\ DOMAIN stack[t] = 1..n /\ n \in 1..n
  BY <1>0, <1>1, StackType
<1>3. Len(stk2) = n /\ stk2[n] = f /\ \A i \in DOMAIN stack[t] : i # n => stk2[i] = stack[t][i]
  BY <1>0, <1>1, TopSet
<1>4. stk2 \in Seq(FrameType) /\ \A i \in DOMAIN stk2 : i < Len(stk2) => stk2[i].pc = "hook"
  BY DEF SettledInv, TypeOK, Calm
<1>5. Below(stack[t], n) \in Nat
  BY <1>2, BelowFacts
<1> HIDE DEF stk2
<1>6. \A j \in 1..(n - 1) : stk2[j].path = stack[t][j].path
  BY <1>2, <1>3
<1>7. Below(stk2, n) = Below(stack[t], n)
  BY <1>2, <1>6, BelowSame
<1>8. Depth(stk2) = IF f.path # "stub" /\ f.pc \in {"callee", "toString", "hook"}
                    THEN Below(stk2, n) + 1 ELSE Below(stk2, n)
  BY <1>2, <1>3, <1>4, DepthBelow
<1>9. Depth(stk2) \in Nat
  BY <1>5, <1>7, <1>8
<1> QED BY <1>7, <1>8, <1>9 DEF stk2

LEMMA DepthPop ==
    ASSUME SettledInv, SettledInv', NEW t \in Thread, stack[t] # <<>>, Pop(t)
    PROVE  Depth(stack'[t]) = Below(stack[t], Len(stack[t])) /\ Depth(stack'[t]) \in Nat
<1> DEFINE n == Len(stack[t])
           stk2 == stack'[t]
<1>1. Stacks
  BY DEF SettledInv, TypeOK, Stacks
<1>2. n \in Nat /\ DOMAIN stack[t] = 1..n /\ n \in 1..n
  BY <1>1, StackType
<1>3. Len(stk2) = n - 1 /\ DOMAIN stk2 = 1..(n - 1) /\ \A i \in DOMAIN stk2 : stk2[i] = stack[t][i]
  BY <1>1, Popped
<1>4. /\ stk2 \in Seq(FrameType) /\ \A i \in DOMAIN stk2 : i < Len(stk2) => stk2[i].pc = "hook"
      /\ \A i \in DOMAIN stack[t] : i < n => stack[t][i].pc = "hook"
  BY DEF SettledInv, TypeOK, Calm
<1>5. Below(stack[t], n) \in Nat
  BY <1>2, BelowFacts
<1> HIDE DEF stk2
<1>6. CASE n = 1
  <2>0. Len(stk2) = 0
    BY <1>3, <1>6
  <2>1. Depth(stk2) = 1
    BY <1>4, <2>0, DepthBelow
  <2>2. Below(stack[t], n) = 1
    BY <1>6, BelowOne
  <2> QED BY <2>1, <2>2 DEF stk2
<1>7. CASE n # 1
  <2>1. n - 1 \in Nat \ {0} /\ n - 1 \in DOMAIN stk2 /\ n - 1 \in DOMAIN stack[t]
    <3> HIDE DEF n
    <3>0. n \in Nat /\ n >= 1 /\ n # 1
      BY <1>2, <1>7
    <3>1. n - 1 \in Nat \ {0} /\ n - 1 \in 1..(n - 1) /\ n - 1 \in 1..n
      BY <3>0
    <3> QED BY <1>2, <1>3, <3>1
  <2>2. stk2[n - 1].pc = "hook" /\ stk2[n - 1] = stack[t][n - 1]
    BY <1>2, <1>3, <1>4, <2>1
  <2>3. Depth(stk2) = IF stk2[n - 1].path # "stub" THEN Below(stk2, n - 1) + 1 ELSE Below(stk2, n - 1)
    BY <1>3, <1>4, <2>1, <2>2, DepthBelow
  <2>4. \A j \in 1..((n - 1) - 1) : stk2[j].path = stack[t][j].path
    BY <1>2, <1>3
  <2>5. Below(stk2, n - 1) = Below(stack[t], n - 1)
    BY <2>1, <2>4, BelowSame
  <2>6. /\ Below(stack[t], n - 1) \in Nat
        /\ Below(stack[t], (n - 1) + 1) = Below(stack[t], n - 1) + (IF stack[t][n - 1].path = "stub" THEN 0 ELSE 1)
    BY <2>1, BelowFacts
  <2>7. (n - 1) + 1 = n
    BY <1>2
  <2>8. Depth(stk2) = Below(stack[t], n)
    BY <2>2, <2>3, <2>5, <2>6, <2>7
  <2> QED BY <1>5, <2>8 DEF stk2
<1> QED BY <1>6, <1>7

LEMMA OwnedPush ==
    ASSUME SettledInv, SettledInv', OwnedInv, NEW t \in Thread, NEW f \in FrameType,
           Push(t, f), Ready(t), Stage(f), f.class = NoHandle,
           \A p \in Proxy : proxy'[p].class = proxy[p].class,
           \A u \in Thread \ {t} : refs'[u] = refs[u],
           \A s \in Slot : refs'[t][s] = IF s \in Held(f) THEN [kind |-> "string", block |-> Block(t)]
                                         ELSE refs[t][s],
           \A s \in Held(f) : refs[t][s] = Free
    PROVE  OwnedInv'
<1>1. Stacks
  BY DEF SettledInv, TypeOK, Stacks
<1>2. /\ DOMAIN stack'[t] = 1..(Len(stack[t]) + 1) /\ stack'[t][Len(stack[t]) + 1] = f
      /\ \A i \in DOMAIN stack[t] : stack'[t][i] = stack[t][i]
      /\ \A u \in Thread \ {t} : stack'[u] = stack[u]
  BY <1>1, Pushed
<1>3. /\ refs[t] \in [Slot -> Reserved] /\ refs'[t] \in [Slot -> Reserved] /\ stack[t] \in Seq(FrameType)
  BY DEF SettledInv, TypeOK
<1>4. \A u \in Thread : Tidy(u, stack[u], refs[u])
  BY DEF OwnedInv
<1>5. Block(t) = Below(stack[t], Len(stack[t]) + 1) /\ Block(t) \in Nat
  BY TopBlock
<1>6. Held(f) \in SUBSET Slot
  BY HeldSlots
<1>7. f.class.block = 0
  BY DEF NoHandle, Handle
<1>8. \A s \in Slot : refs[t][s] # Free => refs'[t][s] = refs[t][s]
  BY <1>6
<1>9. \A s \in Held(f) : /\ refs[t][s] = Free /\ Kept(refs'[t][s])
                         /\ refs'[t][s].block = Below(stack[t], Len(stack[t]) + 1)
  <2> TAKE s \in Held(f)
  <2>1. refs'[t][s] = [kind |-> "string", block |-> Block(t)]
    BY <1>6
  <2> QED BY <1>5, <2>1 DEF Kept
<1>10. \A s \in Slot : Kept(refs'[t][s]) => s \in Held(f) \/ Kept(refs[t][s])
  OBVIOUS
<1>11. Tidy(t, stack'[t], refs'[t])
  BY <1>2, <1>3, <1>4, <1>7, <1>8, <1>9, <1>10, TidyPush
<1>12. \A u \in Thread : Tidy(u, stack'[u], refs'[u])
  BY <1>2, <1>4, <1>11
<1>13. Depth(stack[t]) <= Depth(stack'[t])
  <2>1. Depth(stack[t]) = Block(t)
    BY DEF Depth, Block
  <2> QED BY <2>1, DepthPush
<1>14. \A s \in Slot : refs[t][s].kind = "class" => refs'[t][s] = refs[t][s]
  BY <1>8 DEF Free
<1>15. \A u \in Thread : \A p \in Proxy : Live(proxy'[p].class, u, refs'[u], Depth(stack'[u]))
  BY <1>2, <1>13, <1>14, ProxyKept
<1> QED BY <1>12, <1>15, OwnedBy

LEMMA OwnedGo ==
    ASSUME SettledInv, SettledInv', OwnedInv, NEW t \in Thread, NEW f \in FrameType,
           Goes(t, f), Stage(f), \A u \in Thread \ {t} : refs'[u] = refs[u],
           \A s \in Slot : refs[t][s] # Free /\ refs[t][s].block <= Below(stack[t], Len(stack[t]))
                              /\ s \notin Held(Top(t)) => refs'[t][s] = refs[t][s],
           \A s \in Held(f) : /\ s \in Held(Top(t)) \/ ~Kept(refs[t][s])
                              /\ Kept(refs'[t][s]) /\ refs'[t][s].block = Below(stack[t], Len(stack[t])),
           \A s \in Slot : Kept(refs'[t][s]) => s \in Held(f) \/ (Kept(refs[t][s]) /\ s \notin Held(Top(t))),
           Live(f.class, t, refs[t], Below(stack[t], Len(stack[t]))),
           \A u \in Thread : \A p \in Proxy : Live(proxy'[p].class, u, refs'[u], Depth(stack'[u]))
    PROVE  OwnedInv'
<1>0. stack[t] # <<>> /\ SetTop(t, f) /\ f.path = Top(t).path
  BY DEF Goes, SameCall
<1>1. Stacks
  BY DEF SettledInv, TypeOK, Stacks
<1>2. /\ DOMAIN stack'[t] = DOMAIN stack[t] /\ stack'[t][Len(stack[t])] = f
      /\ \A i \in DOMAIN stack[t] : i # Len(stack[t]) => stack'[t][i] = stack[t][i]
      /\ \A u \in Thread \ {t} : stack'[u] = stack[u]
  BY <1>0, <1>1, TopSet
<1>3. Len(stack[t]) # 0 /\ Top(t) = stack[t][Len(stack[t])]
  BY <1>0, <1>1, StackType
<1>4. /\ refs[t] \in [Slot -> Reserved] /\ refs'[t] \in [Slot -> Reserved] /\ stack[t] \in Seq(FrameType)
  BY DEF SettledInv, TypeOK
<1>5. \A u \in Thread : Tidy(u, stack[u], refs[u])
  BY DEF OwnedInv
<1>6. Tidy(t, stack'[t], refs'[t])
  BY <1>0, <1>2, <1>3, <1>4, <1>5, TidyGo
<1>7. \A u \in Thread : Tidy(u, stack'[u], refs'[u])
  BY <1>2, <1>5, <1>6
<1> QED BY <1>7, OwnedBy

LEMMA OwnedPop ==
    ASSUME SettledInv, SettledInv', OwnedInv, NEW t \in Thread, stack[t] # <<>>, Pop(t),
           \A u \in Thread \ {t} : refs'[u] = refs[u],
           \A s \in Slot : refs[t][s] # Free /\ refs[t][s].block <= Below(stack[t], Len(stack[t]))
                              /\ s \notin Held(Top(t)) => refs'[t][s] = refs[t][s],
           \A s \in Slot : Kept(refs'[t][s]) => Kept(refs[t][s]) /\ s \notin Held(Top(t)),
           \A u \in Thread : \A p \in Proxy : Live(proxy'[p].class, u, refs'[u], Depth(stack'[u]))
    PROVE  OwnedInv'
<1>1. Stacks
  BY DEF SettledInv, TypeOK, Stacks
<1>2. /\ DOMAIN stack'[t] = 1..(Len(stack[t]) - 1)
      /\ \A i \in DOMAIN stack'[t] : stack'[t][i] = stack[t][i]
      /\ \A u \in Thread \ {t} : stack'[u] = stack[u]
  BY <1>1, Popped
<1>3. Len(stack[t]) # 0 /\ Top(t) = stack[t][Len(stack[t])]
  BY <1>1, StackType
<1>4. /\ refs[t] \in [Slot -> Reserved] /\ refs'[t] \in [Slot -> Reserved] /\ stack[t] \in Seq(FrameType)
  BY DEF SettledInv, TypeOK
<1>5. \A u \in Thread : Tidy(u, stack[u], refs[u])
  BY DEF OwnedInv
<1>6. Tidy(t, stack'[t], refs'[t])
  BY <1>2, <1>3, <1>4, <1>5, TidyPop
<1>7. \A u \in Thread : Tidy(u, stack'[u], refs'[u])
  BY <1>2, <1>5, <1>6
<1> QED BY <1>7, OwnedBy

\* The innermost call and what it holds.
LEMMA TopTidy ==
    ASSUME SettledInv, OwnedInv, NEW t \in Thread, stack[t] # <<>>
    PROVE  /\ Top(t) \in FrameType /\ Stage(Top(t))
           /\ Live(Top(t).class, t, refs[t], Below(stack[t], Len(stack[t])))
           /\ \A s \in Held(Top(t)) : s \in Slot /\ Kept(refs[t][s])
                                      /\ refs[t][s].block = Below(stack[t], Len(stack[t]))
           /\ \A s \in Slot : Kept(refs[t][s]) => refs[t][s].block <= Below(stack[t], Len(stack[t]))
           /\ \A s \in Slot : refs[t][s] \in Reserved
<1>1. Stacks
  BY DEF SettledInv, TypeOK, Stacks
<1>2. /\ Len(stack[t]) \in DOMAIN stack[t] /\ Top(t) = stack[t][Len(stack[t])] /\ Top(t) \in FrameType
      /\ Len(stack[t]) # 0 /\ stack[t] \in Seq(FrameType)
  BY <1>1, StackType
<1>3. Tidy(t, stack[t], refs[t])
  BY DEF OwnedInv
<1>4. /\ Stage(Top(t)) /\ Live(Top(t).class, t, refs[t], Below(stack[t], Len(stack[t])))
      /\ \A s \in Held(Top(t)) : Kept(refs[t][s]) /\ refs[t][s].block = Below(stack[t], Len(stack[t]))
  BY <1>2, <1>3 DEF Tidy, Owns
<1>5. Held(Top(t)) \in SUBSET Slot
  BY <1>2, <1>4, HeldSlots
<1>6. \A s \in Slot : refs[t][s] \in Reserved
  BY DEF SettledInv, TypeOK
<1> QED BY <1>2, <1>3, <1>4, <1>5, <1>6, KeptLow

\* A step in which no block is freed.
LEMMA OwnedQuiet ==
    ASSUME SettledInv, SettledInv', OwnedInv, NEW t \in Thread, NEW f \in FrameType,
           Goes(t, f), Stage(f), \A u \in Thread \ {t} : refs'[u] = refs[u],
           Held(Top(t)) \subseteq Held(f),
           \A s \in Slot : refs[t][s] # Free => refs'[t][s] = refs[t][s],
           \A s \in Held(f) : s \in Held(Top(t)) \/ (/\ refs[t][s] = Free /\ Kept(refs'[t][s])
                                                     /\ refs'[t][s].block = Below(stack[t], Len(stack[t]))),
           \A s \in Slot : Kept(refs'[t][s]) => s \in Held(f) \/ Kept(refs[t][s]),
           Live(f.class, t, refs[t], Below(stack[t], Len(stack[t]))),
           \A u \in Thread : \A p \in Proxy : Live(proxy'[p].class, u, refs'[u], Depth(stack'[u]))
    PROVE  OwnedInv'
<1>1. stack[t] # <<>>
  BY DEF Goes
<1>2. \A s \in Held(Top(t)) : s \in Slot /\ Kept(refs[t][s]) /\ refs[t][s].block = Below(stack[t], Len(stack[t]))
  BY <1>1, TopTidy
<1>3. ~Kept(Free)
  BY DEF Kept, Free
<1>4. \A s \in Held(f) : /\ s \in Held(Top(t)) \/ ~Kept(refs[t][s])
                         /\ Kept(refs'[t][s]) /\ refs'[t][s].block = Below(stack[t], Len(stack[t]))
  BY <1>2, <1>3
<1>5. \A s \in Slot : Kept(refs'[t][s]) => s \in Held(f) \/ (Kept(refs[t][s]) /\ s \notin Held(Top(t)))
  OBVIOUS
<1> QED BY <1>4, <1>5, OwnedGo

\* A step in which the Java code of a JNI call ends: its block is freed, the references D
\* are given back and the references N made.
LEMMA OwnedEnd ==
    ASSUME SettledInv, SettledInv', OwnedInv, NEW t \in Thread, NEW f \in FrameType, NEW N, NEW D,
           Goes(t, f), Stage(f), JavaEnds(t), \A u \in Thread \ {t} : refs'[u] = refs[u],
           Top(t).path # "stub", Top(t).pc \in {"callee", "toString"},
           f.pc \notin {"callee", "toString", "hook"}, f.class = Top(t).class,
           D \subseteq Held(Top(t)), N \subseteq Slot, \A s \in N : Closed(t)[s] = Free,
           Held(f) = (Held(Top(t)) \ D) \cup N,
           \A s \in Slot : refs'[t][s] = IF s \in N THEN [kind |-> "result", block |-> Block(t) - 1]
                                         ELSE IF s \in D THEN Free ELSE Closed(t)[s]
    PROVE  OwnedInv'
<1> DEFINE b == Below(stack[t], Len(stack[t]))
<1>1. stack[t] # <<>> /\ SetTop(t, f)
  BY DEF Goes
<1>2. b \in Nat /\ Block(t) = b + 1
  BY <1>1, TopBlock
<1>3. \A s \in Slot : Closed(t)[s] = IF refs[t][s].block = Block(t) THEN Free ELSE refs[t][s]
  <2>1. DOMAIN refs[t] = Slot
    BY DEF SettledInv, TypeOK
  <2> QED BY <2>1 DEF Closed, Delete, Slot
<1>4. /\ Top(t) \in FrameType /\ Stage(Top(t)) /\ Live(Top(t).class, t, refs[t], b)
      /\ \A s \in Held(Top(t)) : s \in Slot /\ Kept(refs[t][s]) /\ refs[t][s].block = b
      /\ \A s \in Slot : Kept(refs[t][s]) => refs[t][s].block <= b
      /\ \A s \in Slot : refs[t][s] \in Reserved
  BY <1>1, TopTidy
<1>5. ~Kept(Free) /\ Free.kind # "class"
  BY DEF Kept, Free
<1> HIDE DEF b
<1>6. \A s \in Slot : refs[t][s].block <= b /\ refs[t][s].block \in Nat => Closed(t)[s] = refs[t][s]
  BY <1>2, <1>3
<1>7. \A s \in Slot : refs[t][s].block \in Nat
  BY <1>4 DEF Reserved
<1>8. \A s \in N : s \notin Held(Top(t)) /\ ~Kept(refs[t][s])
  <2> TAKE s \in N
  <2>1. s \in Slot /\ Closed(t)[s] = Free
    OBVIOUS
  <2>2. ~Kept(refs[t][s])
    BY <1>4, <1>5, <1>6, <1>7, <2>1
  <2> QED BY <1>4, <2>2
<1>9. \A s \in Slot : refs[t][s] # Free /\ refs[t][s].block <= b /\ s \notin Held(Top(t))
                         => refs'[t][s] = refs[t][s]
  <2> SUFFICES ASSUME NEW s \in Slot, refs[t][s] # Free, refs[t][s].block <= b, s \notin Held(Top(t))
               PROVE  refs'[t][s] = refs[t][s]
    OBVIOUS
  <2>1. Closed(t)[s] = refs[t][s] /\ s \notin D
    BY <1>6, <1>7
  <2> QED BY <2>1
<1>10. \A s \in Held(f) : /\ s \in Held(Top(t)) \/ ~Kept(refs[t][s])
                          /\ Kept(refs'[t][s]) /\ refs'[t][s].block = b
  <2> TAKE s \in Held(f)
  <2>1. CASE s \in N
    <3>1. s \in Slot
      BY <2>1
    <3>2. refs'[t][s] = [kind |-> "result", block |-> Block(t) - 1]
      BY <2>1, <3>1
    <3>3. Kept(refs'[t][s]) /\ refs'[t][s].block = b
      BY <1>2, <3>2 DEF Kept
    <3> QED BY <1>8, <2>1, <3>3
  <2>2. CASE s \notin N
    <3>1. s \in Held(Top(t)) /\ s \notin D /\ s \in Slot
      BY <1>4, <2>2
    <3>2. refs'[t][s] = refs[t][s]
      BY <1>2, <1>4, <1>6, <1>7, <2>2, <3>1
    <3> QED BY <1>4, <3>1, <3>2
  <2> QED BY <2>1, <2>2
<1>11. \A s \in Slot : Kept(refs'[t][s]) => s \in Held(f) \/ (Kept(refs[t][s]) /\ s \notin Held(Top(t)))
  <2> SUFFICES ASSUME NEW s \in Slot, Kept(refs'[t][s]), s \notin Held(f)
               PROVE  Kept(refs[t][s]) /\ s \notin Held(Top(t))
    OBVIOUS
  <2>1. s \notin N
    OBVIOUS
  <2>2. s \notin D /\ refs'[t][s] = Closed(t)[s]
    BY <1>5, <2>1
  <2>3. Closed(t)[s] = refs[t][s]
    BY <1>3, <1>5, <2>2
  <2> QED BY <2>1, <2>2, <2>3
<1>12. \A u \in Thread \ {t} : stack'[u] = stack[u]
  <2>1. Stacks
    BY DEF SettledInv, TypeOK, Stacks
  <2> QED BY <1>1, <2>1, TopSet
<1>13. Depth(stack'[t]) \in Nat /\ Block(t) - 1 <= Depth(stack'[t])
  <2>1. Depth(stack'[t]) \in Nat /\ Depth(stack'[t]) = b
    BY DepthGo DEF b
  <2> QED BY <1>2, <2>1
<1>14. \A s \in Slot : refs[t][s].kind = "class" /\ refs[t][s].block # Block(t) => refs'[t][s] = refs[t][s]
  <2> SUFFICES ASSUME NEW s \in Slot, refs[t][s].kind = "class", refs[t][s].block # Block(t)
               PROVE  refs'[t][s] = refs[t][s]
    OBVIOUS
  <2>1. Closed(t)[s] = refs[t][s]
    BY <1>3
  <2>2. s \notin N
    BY <1>5, <2>1
  <2>3. s \notin D
    BY <1>4 DEF Kept
  <2> QED BY <2>1, <2>2, <2>3
<1>15. proxy' = Dangling(t, Block(t))
  BY DEF JavaEnds
<1>16. \A u \in Thread : \A p \in Proxy : Live(proxy'[p].class, u, refs'[u], Depth(stack'[u]))
  BY <1>12, <1>13, <1>14, <1>15, ProxyEnds
<1>17. Live(f.class, t, refs[t], b)
  BY <1>4
<1> QED BY <1>9, <1>10, <1>11, <1>16, <1>17, OwnedGo DEF b

\* The jclasses that proxies have cached, when the innermost call goes on.
LEMMA ProxyGo ==
    ASSUME SettledInv, SettledInv', OwnedInv, NEW t \in Thread, NEW f \in FrameType, Goes(t, f),
           Top(t).pc \in {"callee", "toString", "hook"} => f.pc \in {"callee", "toString", "hook"},
           \A p \in Proxy : proxy'[p].class = proxy[p].class,
           \A u \in Thread \ {t} : refs'[u] = refs[u],
           \A s \in Slot : refs[t][s] # Free => refs'[t][s] = refs[t][s]
    PROVE  \A u \in Thread : \A p \in Proxy : Live(proxy'[p].class, u, refs'[u], Depth(stack'[u]))
<1>1. stack[t] # <<>> /\ SetTop(t, f) /\ f.path = Top(t).path
  BY DEF Goes, SameCall
<1>2. Stacks
  BY DEF SettledInv, TypeOK, Stacks
<1>3. \A u \in Thread \ {t} : stack'[u] = stack[u]
  BY <1>1, <1>2, TopSet
<1> DEFINE b == Below(stack[t], Len(stack[t]))
<1>4. Depth(stack[t]) = Block(t)
  BY DEF Depth, Block
<1>5. /\ b \in Nat
      /\ Block(t) = IF Top(t).path # "stub" /\ Top(t).pc \in {"callee", "toString", "hook"} THEN b + 1 ELSE b
  BY <1>1, TopBlock
<1>6. Depth(stack'[t]) = IF f.path # "stub" /\ f.pc \in {"callee", "toString", "hook"} THEN b + 1 ELSE b
  BY DepthGo
<1> HIDE DEF b
<1>7. Depth(stack[t]) <= Depth(stack'[t])
  BY <1>1, <1>4, <1>5, <1>6
<1>8. \A s \in Slot : refs[t][s].kind = "class" => refs'[t][s] = refs[t][s]
  BY DEF Free
<1> QED BY <1>3, <1>7, <1>8, ProxyKept

\* A hook is entered or left: the call keeps what it holds.
LEMMA OwnedHook ==
    ASSUME SettledInv, SettledInv', OwnedInv, NEW t \in Thread, NEW f \in FrameType,
           EnterStep(t, f) \/ LeaveStep(t, f)
    PROVE  OwnedInv'
<1>1. /\ Goes(t, f) /\ SameHeld(f, Top(t)) /\ SameUse(f, Top(t)) /\ proxy' = proxy /\ refs' = refs
      /\ \/ Top(t).pc \in {"callee", "toString"} /\ f.pc = "hook" /\ f.resume = Top(t).pc
         \/ Top(t).pc = "hook" /\ f.pc = Top(t).resume /\ f.resume = Top(t).resume
  BY DEF EnterStep, LeaveStep
<1>2. stack[t] # <<>> /\ SameCall(f, Top(t))
  BY <1>1 DEF Goes
<1>3. /\ Top(t) \in FrameType /\ Stage(Top(t))
      /\ Live(Top(t).class, t, refs[t], Below(stack[t], Len(stack[t])))
  BY <1>2, TopTidy
<1>4. Held(f) = Held(Top(t)) /\ f.class = Top(t).class
  BY <1>1 DEF SameHeld, SameUse, Held
<1>5. f.pc \in {"callee", "toString", "hook"}
  BY <1>1, <1>3 DEF FrameType
<1>6. Stage(f)
  BY <1>1, <1>2, <1>3 DEF Stage, SameHeld, SameCall, FrameType
<1>7. \A u \in Thread : \A p \in Proxy : Live(proxy'[p].class, u, refs'[u], Depth(stack'[u]))
  BY <1>1, <1>5, ProxyGo
<1> QED BY <1>1, <1>3, <1>4, <1>6, <1>7, OwnedQuiet

\* The strings are packed and Java is called with the jclass of the proxy.
LEMMA OwnedDispatch ==
    ASSUME SettledInv, SettledInv', OwnedInv, NEW t \in Thread, NEW f \in FrameType, DispatchStep(t, f)
    PROVE  OwnedInv'
<1> DEFINE b == Below(stack[t], Len(stack[t]))
<1>1. /\ Goes(t, f) /\ At(t, "jni", "pack") /\ f.pc = "callee" /\ f.resume = Top(t).resume
      /\ f.strings \in SUBSET Slot /\ f.thrown = Top(t).thrown /\ f.result = Top(t).result
      /\ f.class = proxy[Top(t).p].class /\ \A s \in f.strings : refs[t][s] = Free
      /\ refs' = [refs EXCEPT ![t] = Take(refs[t], f.strings, "string", Block(t))] /\ proxy' = proxy
  BY DEF DispatchStep
<1>2. stack[t] # <<>> /\ Top(t).path = "jni" /\ Top(t).pc = "pack" /\ Top(t).p \in Proxy /\ f.path = "jni"
  BY <1>1, AtTop DEF SettledInv, Goes, SameCall
<1>3. Top(t) \in FrameType /\ Stage(Top(t))
  BY <1>2, TopTidy
<1>4. b \in Nat /\ Block(t) = b
  BY <1>2, TopBlock
<1>5. f.thrown = {} /\ f.result = 0 /\ Held(Top(t)) = {}
  BY <1>1, <1>2, <1>3 DEF Stage, Held
<1>6. Held(f) = f.strings
  BY <1>5 DEF Held
<1>7. 0 \notin Slot
  BY MethodCallAssumption DEF Slot
<1>8. Stage(f)
  BY <1>1, <1>2, <1>5, <1>7 DEF Stage
<1>9. refs \in [Thread -> [Slot -> Reserved]]
  BY DEF SettledInv, TypeOK
<1>10. /\ \A u \in Thread \ {t} : refs'[u] = refs[u]
       /\ \A s \in Slot : refs'[t][s] = IF s \in f.strings THEN [kind |-> "string", block |-> b] ELSE refs[t][s]
  <2>1. /\ refs'[t] = Take(refs[t], f.strings, "string", b)
        /\ \A u \in Thread \ {t} : refs'[u] = refs[u]
    BY <1>1, <1>4, <1>9
  <2> QED BY <1>9, <2>1 DEF Take
<1>11. Live(f.class, t, refs[t], b)
  BY <1>1, <1>2, <1>4 DEF OwnedInv
<1> HIDE DEF b
<1>12. \A s \in Slot : refs[t][s] # Free => refs'[t][s] = refs[t][s]
  BY <1>1, <1>10
<1>13. \A s \in f.strings : refs[t][s] = Free /\ Kept(refs'[t][s]) /\ refs'[t][s].block = b
  <2> TAKE s \in f.strings
  <2>1. refs'[t][s] = [kind |-> "string", block |-> b]
    BY <1>1, <1>10
  <2> QED BY <1>1, <2>1 DEF Kept
<1>14. \A u \in Thread : \A p \in Proxy : Live(proxy'[p].class, u, refs'[u], Depth(stack'[u]))
  BY <1>1, <1>2, <1>10, <1>12, ProxyGo
<1>15. \A s \in Slot : Kept(refs'[t][s]) => s \in Held(f) \/ Kept(refs[t][s])
  BY <1>6, <1>10
<1> QED BY <1>1, <1>5, <1>6, <1>8, <1>10, <1>11, <1>12, <1>13, <1>14, <1>15, OwnedQuiet DEF b

\* check_callee_exception() takes the throwable and its class.
LEMMA OwnedCheck ==
    ASSUME SettledInv, SettledInv', OwnedInv, NEW t \in Thread, NEW f \in FrameType, CheckStep(t, f)
    PROVE  OwnedInv'
<1> DEFINE b == Below(stack[t], Len(stack[t]))
<1>1. /\ Goes(t, f) /\ At(t, "jni", "check") /\ f.pc = "toString" /\ f.resume = Top(t).resume
      /\ f.thrown \in SUBSET Slot /\ f.strings = Top(t).strings /\ f.result = Top(t).result
      /\ f.class = Top(t).class /\ \A s \in f.thrown : refs[t][s] = Free
      /\ refs' = [refs EXCEPT ![t] = Take(refs[t], f.thrown, "thrown", Block(t))] /\ proxy' = proxy
  BY DEF CheckStep, SameUse
<1>2. stack[t] # <<>> /\ Top(t).path = "jni" /\ Top(t).pc = "check" /\ f.path = "jni"
  BY <1>1, AtTop DEF SettledInv, Goes, SameCall
<1>3. /\ Top(t) \in FrameType /\ Stage(Top(t)) /\ Live(Top(t).class, t, refs[t], b)
      /\ \A s \in Held(Top(t)) : Kept(refs[t][s])
  BY <1>2, TopTidy
<1>4. b \in Nat /\ Block(t) = b
  BY <1>2, TopBlock
<1>5. Held(f) = Held(Top(t)) \cup f.thrown
  BY <1>1, <1>2, <1>3 DEF Stage, Held
<1>6. \A s \in f.thrown : s \notin Held(Top(t))
  BY <1>1, <1>3 DEF Kept, Free
<1>7. f.result \notin f.thrown /\ f.strings \cap f.thrown = {}
  <2>1. f.strings \subseteq Held(Top(t))
    BY <1>1 DEF Held
  <2>2. f.result \in Held(Top(t)) \/ f.result = 0
    BY <1>1 DEF Held
  <2>3. 0 \notin Slot
    BY MethodCallAssumption DEF Slot
  <2> QED BY <1>1, <1>6, <2>1, <2>2, <2>3
<1>8. Stage(f)
  BY <1>1, <1>2, <1>3, <1>7 DEF Stage
<1>9. refs \in [Thread -> [Slot -> Reserved]]
  BY DEF SettledInv, TypeOK
<1>10. /\ \A u \in Thread \ {t} : refs'[u] = refs[u]
       /\ \A s \in Slot : refs'[t][s] = IF s \in f.thrown THEN [kind |-> "thrown", block |-> b] ELSE refs[t][s]
  <2>1. /\ refs'[t] = Take(refs[t], f.thrown, "thrown", b)
        /\ \A u \in Thread \ {t} : refs'[u] = refs[u]
    BY <1>1, <1>4, <1>9
  <2> QED BY <1>9, <2>1 DEF Take
<1> HIDE DEF b
<1>11. \A s \in Slot : refs[t][s] # Free => refs'[t][s] = refs[t][s]
  BY <1>1, <1>10
<1>12. \A s \in f.thrown : refs[t][s] = Free /\ Kept(refs'[t][s]) /\ refs'[t][s].block = b
  <2> TAKE s \in f.thrown
  <2>1. refs'[t][s] = [kind |-> "thrown", block |-> b]
    BY <1>1, <1>10
  <2> QED BY <1>1, <2>1 DEF Kept
<1>13. \A u \in Thread : \A p \in Proxy : Live(proxy'[p].class, u, refs'[u], Depth(stack'[u]))
  BY <1>1, <1>2, <1>10, <1>11, ProxyGo
<1>14. \A s \in Slot : Kept(refs'[t][s]) => s \in Held(f) \/ Kept(refs[t][s])
  BY <1>5, <1>10
<1> QED BY <1>1, <1>3, <1>5, <1>8, <1>10, <1>11, <1>12, <1>13, <1>14, OwnedQuiet DEF b

\* The callee of a JNI call returns, with or without a reference, or throws.
LEMMA OwnedReturn ==
    ASSUME SettledInv, SettledInv', OwnedInv, NEW t \in Thread, NEW f \in FrameType,
           ReturnStep(t, f) \/ ThrowStep(t, f)
    PROVE  OwnedInv'
<1> DEFINE N == IF f.result = 0 THEN {} ELSE {f.result}
           D == {}
<1>1. /\ Goes(t, f) /\ At(t, "jni", "callee") /\ JavaEnds(t) /\ f.resume = Top(t).resume
      /\ f.pc \in {"decode", "check"} /\ f.strings = Top(t).strings /\ f.thrown = Top(t).thrown
      /\ f.class = Top(t).class
  BY DEF ReturnStep, ThrowStep, SameHeld, SameUse
<1>2. stack[t] # <<>> /\ Top(t).path = "jni" /\ Top(t).pc = "callee" /\ f.path = "jni"
  BY <1>1, AtTop DEF SettledInv, Goes, SameCall
<1>3. /\ Top(t) \in FrameType /\ Stage(Top(t))
      /\ \A s \in Held(Top(t)) : s \in Slot /\ Kept(refs[t][s]) /\ refs[t][s].block = Below(stack[t], Len(stack[t]))
  BY <1>2, TopTidy
<1>4. Top(t).thrown = {} /\ Top(t).result = 0
  BY <1>2, <1>3 DEF Stage
<1>5. \/ f.result = 0 /\ refs' = [refs EXCEPT ![t] = Closed(t)]
      \/ /\ f.result \in Slot /\ Closed(t)[f.result] = Free
         /\ refs' = [refs EXCEPT ![t] = Take(Closed(t), {f.result}, "result", Block(t) - 1)]
  BY <1>4 DEF ReturnStep, ThrowStep, SameHeld
<1>6. refs \in [Thread -> [Slot -> Reserved]] /\ Closed(t) \in [Slot -> Reserved] /\ 0 \notin Slot
  BY ClosedType, MethodCallAssumption DEF SettledInv, TypeOK, Slot
<1>7. N \subseteq Slot /\ \A s \in N : Closed(t)[s] = Free
  BY <1>5
<1>8. /\ \A u \in Thread \ {t} : refs'[u] = refs[u]
      /\ \A s \in Slot : refs'[t][s] = IF s \in N THEN [kind |-> "result", block |-> Block(t) - 1]
                                       ELSE IF s \in D THEN Free ELSE Closed(t)[s]
  <2>1. CASE f.result = 0 /\ refs' = [refs EXCEPT ![t] = Closed(t)]
    BY <1>6, <2>1
  <2>2. CASE f.result \in Slot /\ refs' = [refs EXCEPT ![t] = Take(Closed(t), {f.result}, "result", Block(t) - 1)]
    <3>1. /\ refs'[t] = Take(Closed(t), {f.result}, "result", Block(t) - 1) /\ N = {f.result}
          /\ \A u \in Thread \ {t} : refs'[u] = refs[u]
      BY <1>6, <2>2
    <3> QED BY <1>6, <3>1 DEF Take
  <2> QED BY <1>5, <2>1, <2>2
<1>9. Held(f) = (Held(Top(t)) \ D) \cup N
  BY <1>1, <1>4 DEF Held
<1>10. \A s \in N : s \notin f.strings
  <2>1. ASSUME NEW s \in N, s \in f.strings PROVE FALSE
    <3>1. s \in Held(Top(t)) /\ s \in Slot /\ Closed(t)[s] = Free
      BY <1>1, <1>7, <2>1 DEF Held
    <3>2. Kept(refs[t][s]) /\ refs[t][s].block = Below(stack[t], Len(stack[t]))
      BY <1>3, <3>1
    <3>3. Below(stack[t], Len(stack[t])) \in Nat /\ Block(t) = Below(stack[t], Len(stack[t])) + 1
      BY <1>2, TopBlock
    <3>4. refs[t][s].block # Block(t)
      BY <3>2, <3>3
    <3>5. Closed(t)[s] = refs[t][s]
      BY <1>6, <3>1, <3>4 DEF Closed, Delete, Slot
    <3> QED BY <3>1, <3>2, <3>5 DEF Kept, Free
  <2> QED BY <2>1
<1>11. f.strings \cap f.thrown = {} /\ f.result \in Slot \cup {0} /\ f.result \notin f.strings \cup f.thrown /\ f.thrown = {}
  <2>1. f.strings \in SUBSET Slot
    BY DEF FrameType
  <2> QED BY <1>1, <1>4, <1>5, <1>6, <1>10, <2>1
<1>12. Stage(f)
  BY <1>1, <1>2, <1>11 DEF Stage
<1>13. D \subseteq Held(Top(t)) /\ f.pc \notin {"callee", "toString", "hook"}
  BY <1>1
<1> HIDE DEF N, D
<1>14. /\ Goes(t, f) /\ Stage(f) /\ JavaEnds(t) /\ f.class = Top(t).class
       /\ Top(t).path # "stub" /\ Top(t).pc \in {"callee", "toString"}
  BY <1>1, <1>2, <1>12
<1> QED BY <1>7, <1>8, <1>9, <1>13, <1>14, OwnedEnd

\* toString() ends: the throwable and its class are given back.
LEMMA OwnedDescribe ==
    ASSUME SettledInv, SettledInv', OwnedInv, NEW t \in Thread, NEW f \in FrameType, DescribeStep(t, f)
    PROVE  OwnedInv'
<1>0. PICK D : D = Top(t).thrown
  OBVIOUS
<1> DEFINE N == {}
<1>1. /\ Goes(t, f) /\ At(t, "jni", "toString") /\ JavaEnds(t) /\ f.pc = "decode" /\ f.resume = Top(t).resume
      /\ f.thrown = {} /\ f.strings = Top(t).strings /\ f.result = Top(t).result /\ f.class = Top(t).class
      /\ refs' = [refs EXCEPT ![t] = Delete(Closed(t), D)]
  BY <1>0 DEF DescribeStep, SameUse
<1>2. stack[t] # <<>> /\ Top(t).path = "jni" /\ Top(t).pc = "toString" /\ f.path = "jni"
  BY <1>1, AtTop DEF SettledInv, Goes, SameCall
<1>3. Top(t) \in FrameType /\ Stage(Top(t))
  BY <1>2, TopTidy
<1>4. refs \in [Thread -> [Slot -> Reserved]] /\ Closed(t) \in [Slot -> Reserved]
  BY ClosedType DEF SettledInv, TypeOK
<1>5. D \subseteq Held(Top(t))
  BY <1>0 DEF Held
<1>6. Held(f) = (Held(Top(t)) \ D) \cup N
  BY <1>0, <1>1, <1>3 DEF Held, Stage
<1>7. Stage(f)
  BY <1>1, <1>2, <1>3 DEF Stage
<1>8. /\ \A u \in Thread \ {t} : refs'[u] = refs[u]
      /\ \A s \in Slot : refs'[t][s] = IF s \in N THEN [kind |-> "result", block |-> Block(t) - 1]
                                       ELSE IF s \in D THEN Free ELSE Closed(t)[s]
  <2>1. refs'[t] = Delete(Closed(t), D) /\ \A u \in Thread \ {t} : refs'[u] = refs[u]
    BY <1>1, <1>4
  <2> QED BY <1>4, <2>1 DEF Delete
<1>9. N \subseteq Slot /\ (\A s \in N : Closed(t)[s] = Free)
  OBVIOUS
<1>10. /\ Top(t).path # "stub" /\ Top(t).pc \in {"callee", "toString"}
       /\ f.pc \notin {"callee", "toString", "hook"} /\ f.class = Top(t).class
       /\ Goes(t, f) /\ JavaEnds(t)
  BY <1>1, <1>2
<1> HIDE DEF N
<1> QED BY <1>5, <1>6, <1>7, <1>8, <1>9, <1>10, OwnedEnd

\* A call ends in native code, or by the call stub: the references D, all that it holds,
\* are given back.
LEMMA OwnedGone ==
    ASSUME SettledInv, SettledInv', OwnedInv, NEW t \in Thread, stack[t] # <<>>, Pop(t), proxy' = proxy,
           Top(t).path = "stub" \/ Top(t).pc \notin {"callee", "toString", "hook"},
           \A u \in Thread \ {t} : refs'[u] = refs[u],
           \A s \in Slot : refs'[t][s] = IF s \in Held(Top(t)) THEN Free ELSE refs[t][s]
    PROVE  OwnedInv'
<1>1. Stacks
  BY DEF SettledInv, TypeOK, Stacks
<1>2. \A u \in Thread \ {t} : stack'[u] = stack[u]
  BY <1>1, Popped
<1>3. Block(t) = Below(stack[t], Len(stack[t])) /\ Block(t) \in Nat
  BY TopBlock
<1>4. Depth(stack'[t]) = Below(stack[t], Len(stack[t]))
  BY DepthPop
<1>5. Depth(stack[t]) <= Depth(stack'[t])
  BY <1>3, <1>4 DEF Depth, Block
<1>6. \A s \in Held(Top(t)) : Kept(refs[t][s])
  BY TopTidy
<1>7. \A s \in Slot : refs[t][s].kind = "class" => refs'[t][s] = refs[t][s]
  BY <1>6 DEF Kept
<1>8. \A u \in Thread : \A p \in Proxy : Live(proxy'[p].class, u, refs'[u], Depth(stack'[u]))
  BY <1>2, <1>5, <1>7, ProxyKept
<1>9. ~Kept(Free)
  BY DEF Kept, Free
<1>10. \A s \in Slot : Kept(refs'[t][s]) => Kept(refs[t][s]) /\ s \notin Held(Top(t))
  BY <1>9
<1> QED BY <1>8, <1>10, OwnedPop

\* NewObjectA() ends: its block is freed and the strings are given back.
LEMMA OwnedNewEnd ==
    ASSUME SettledInv, SettledInv', OwnedInv, NEW t \in Thread, NewEndStep(t)
    PROVE  OwnedInv'
<1> DEFINE b == Below(stack[t], Len(stack[t]))
           D == Held(Top(t))
<1>1. /\ At(t, "new", "callee") /\ Pop(t) /\ proxy' = Dangling(t, Block(t))
      /\ refs' = [refs EXCEPT ![t] = Delete(Closed(t), D)]
  BY DEF NewEndStep, JavaEnds
<1>2. stack[t] # <<>> /\ Top(t).path = "new" /\ Top(t).pc = "callee"
  BY <1>1, AtTop DEF SettledInv
<1>3. b \in Nat /\ Block(t) = b + 1
  BY <1>2, TopBlock
<1>4. /\ \A s \in D : s \in Slot /\ Kept(refs[t][s])
      /\ \A s \in Slot : refs[t][s] \in Reserved
  BY <1>2, TopTidy
<1>5. refs \in [Thread -> [Slot -> Reserved]] /\ Closed(t) \in [Slot -> Reserved]
  BY ClosedType DEF SettledInv, TypeOK
<1>6. \A s \in Slot : Closed(t)[s] = IF refs[t][s].block = Block(t) THEN Free ELSE refs[t][s]
  BY <1>5 DEF Closed, Delete, Slot
<1>7. \A u \in Thread \ {t} : refs'[u] = refs[u] /\ stack'[u] = stack[u]
  <2>1. Stacks
    BY DEF SettledInv, TypeOK, Stacks
  <2> QED BY <1>1, <1>2, <1>5, <2>1, Popped
<1>8. Depth(stack'[t]) = b /\ Depth(stack'[t]) \in Nat
  BY <1>1, <1>2, DepthPop
<1> HIDE DEF b, D
<1>9. \A s \in Slot : refs'[t][s] = IF s \in D \/ refs[t][s].block = Block(t) THEN Free ELSE refs[t][s]
  <2>1. refs'[t] = Delete(Closed(t), D)
    BY <1>1, <1>5
  <2> QED BY <1>5, <1>6, <2>1 DEF Delete
<1>10. \A s \in Slot : refs[t][s].block <= b => refs[t][s].block # Block(t)
  BY <1>3, <1>4 DEF Reserved
<1>11. ~Kept(Free)
  BY DEF Kept, Free
<1>12. \A s \in Slot : refs[t][s].kind = "class" /\ refs[t][s].block # Block(t) => refs'[t][s] = refs[t][s]
  BY <1>4, <1>9 DEF Kept
<1>13. Block(t) - 1 <= Depth(stack'[t])
  BY <1>3, <1>8
<1>14. \A u \in Thread : \A p \in Proxy : Live(proxy'[p].class, u, refs'[u], Depth(stack'[u]))
  BY <1>1, <1>7, <1>8, <1>12, <1>13, ProxyEnds
<1>15. \A s \in Slot : refs[t][s] # Free /\ refs[t][s].block <= b /\ s \notin D => refs'[t][s] = refs[t][s]
  BY <1>9, <1>10
<1>16. \A s \in Slot : Kept(refs'[t][s]) => Kept(refs[t][s]) /\ s \notin D
  BY <1>9, <1>11
<1> QED BY <1>1, <1>2, <1>7, <1>14, <1>15, <1>16, OwnedPop DEF b, D

\* The class of a proxy is looked up: the proxy has its jclass, in the thread's block.
LEMMA OwnedLookup ==
    ASSUME SettledInv, SettledInv', OwnedInv, NEW t \in Thread, NEW s \in Slot, NEW qx \in ProxyType,
           LookupStep(t, s, qx)
    PROVE  OwnedInv'
<1>0. PICK b : b = Below(stack[t], Len(stack[t]))
  OBVIOUS
<1>1. At(t, "jni", "lookup") /\ refs[t][s] = Free
  BY DEF LookupStep
<1>2. stack[t] # <<>> /\ Top(t).path = "jni" /\ Top(t).pc = "lookup" /\ Top(t).p \in Proxy
  BY <1>1, AtTop DEF SettledInv
<1>3. b \in Nat \ {0} /\ Block(t) = b
  BY <1>0, <1>2, TopBlock
<1>4. /\ refs' = [refs EXCEPT ![t] = Take(refs[t], {s}, "class", b)]
      /\ proxy' = [proxy EXCEPT ![Top(t).p] = qx] /\ qx.class = Handle(t, s, b)
      /\ (Pop(t) \/ \E f \in FrameType : FoundStep(t, f))
  BY <1>3 DEF LookupStep
<1>5. refs \in [Thread -> [Slot -> Reserved]] /\ proxy \in [Proxy -> ProxyType] /\ Stacks
  BY DEF SettledInv, TypeOK, Stacks
<1>6. /\ \A u \in Thread \ {t} : refs'[u] = refs[u]
      /\ \A r \in Slot : refs'[t][r] = IF r = s THEN [kind |-> "class", block |-> b] ELSE refs[t][r]
  <2>1. refs'[t] = Take(refs[t], {s}, "class", b) /\ \A u \in Thread \ {t} : refs'[u] = refs[u]
    BY <1>4, <1>5
  <2> QED BY <1>5, <2>1 DEF Take
<1>7. \A r \in Slot : refs[t][r] # Free => refs'[t][r] = refs[t][r]
  BY <1>1, <1>6
<1>8. Depth(stack'[t]) = b /\ \A u \in Thread \ {t} : stack'[u] = stack[u]
  <2>1. CASE Pop(t)
    BY <1>0, <1>2, <1>5, <2>1, DepthPop, Popped
  <2>2. CASE \E f \in FrameType : FoundStep(t, f)
    <3>1. PICK f \in FrameType : FoundStep(t, f)
      BY <2>2
    <3>2. Goes(t, f) /\ SetTop(t, f) /\ f.pc = "pack"
      BY <3>1 DEF FoundStep, Goes
    <3> QED BY <1>0, <1>2, <1>5, <3>2, DepthGo, TopSet
  <2> QED BY <1>4, <2>1, <2>2
<1>9. Depth(stack[t]) = Block(t) /\ \A u \in Thread : Block(u) = Depth(stack[u])
  BY DEF Depth, Block
<1>10. \A u \in Thread : \A p \in Proxy : Live(proxy'[p].class, u, refs'[u], Depth(stack'[u]))
  <2> SUFFICES ASSUME NEW u \in Thread, NEW p \in Proxy
               PROVE  Live(proxy'[p].class, u, refs'[u], Depth(stack'[u]))
    OBVIOUS
  <2>1. CASE p = Top(t).p
    <3>1. proxy'[p].class = Handle(t, s, b)
      BY <1>4, <1>5, <2>1
    <3>2. refs'[t][s] = [kind |-> "class", block |-> b]
      BY <1>6
    <3>3. Handle(t, s, b).thread = t /\ Handle(t, s, b).slot = s /\ Handle(t, s, b).block = b
      BY DEF Handle
    <3>4. b <= b
      BY <1>3
    <3> QED BY <1>8, <3>1, <3>2, <3>3, <3>4 DEF Live
  <2>2. CASE p # Top(t).p
    <3>1. proxy'[p].class = proxy[p].class
      BY <1>4, <1>5, <2>2
    <3>2. Live(proxy[p].class, u, refs[u], Depth(stack[u]))
      BY <1>9 DEF OwnedInv
    <3>3. Depth(stack'[u]) = Depth(stack[u])
      BY <1>3, <1>8, <1>9
    <3>4. \A r \in Slot : refs[u][r].kind = "class" => refs'[u][r] = refs[u][r]
      BY <1>6, <1>7 DEF Free
    <3> QED BY <3>1, <3>2, <3>3, <3>4 DEF Live
  <2> QED BY <2>1, <2>2
<1>11. ~Kept(refs'[t][s]) /\ ~Kept(refs[t][s])
  <2>1. refs'[t][s] = [kind |-> "class", block |-> b]
    BY <1>6
  <2> QED BY <1>1, <2>1 DEF Kept, Free
<1>12. \A r \in Slot : Kept(refs'[t][r]) => Kept(refs[t][r])
  BY <1>6, <1>11
<1>13. /\ Top(t) \in FrameType /\ Stage(Top(t))
       /\ Live(Top(t).class, t, refs[t], Below(stack[t], Len(stack[t])))
  BY <1>2, TopTidy
<1>14. CASE Pop(t)
  <2>1. Held(Top(t)) = {}
    BY <1>2, <1>13 DEF Stage, Held
  <2> QED BY <1>2, <1>6, <1>7, <1>10, <1>12, <1>14, <2>1, OwnedPop
<1>15. CASE \E f \in FrameType : FoundStep(t, f)
  <2>1. PICK f \in FrameType : FoundStep(t, f)
    BY <1>15
  <2>2. /\ Goes(t, f) /\ SameCall(f, Top(t)) /\ SameHeld(f, Top(t)) /\ SameUse(f, Top(t)) /\ f.pc = "pack"
    BY <2>1 DEF FoundStep, Goes
  <2>3. Held(f) = Held(Top(t)) /\ f.class = Top(t).class
    BY <2>2 DEF SameHeld, SameUse, Held
  <2>4. Stage(f)
    BY <1>2, <1>13, <2>2 DEF Stage, SameHeld, SameCall
  <2> QED BY <1>6, <1>7, <1>10, <1>12, <1>13, <2>2, <2>3, <2>4, OwnedQuiet
<1> QED BY <1>4, <1>14, <1>15

\* The native code around a thread returns: the thread has no references left.
LEMMA OwnedFrameEnd ==
    ASSUME SettledInv, SettledInv', OwnedInv, NEW t \in Thread, FrameEnd(t)
    PROVE  OwnedInv'
<1>1. stack[t] = <<>> /\ stack' = stack /\ proxy' = Dangling(t, 1)
  BY DEF FrameEnd
<1>2. refs \in [Thread -> [Slot -> Reserved]] /\ Stacks
  BY DEF SettledInv, TypeOK, Stacks
<1>3. /\ \A u \in Thread \ {t} : refs'[u] = refs[u]
      /\ \A s \in Slot : refs'[t][s] = Free
  BY <1>2 DEF FrameEnd, Slot
<1>4. Len(stack[t]) = 0 /\ DOMAIN stack[t] = {}
  BY <1>1, <1>2, StackType
<1>5. Block(t) = 1 /\ Block(t) = Depth(stack[t])
  <2>1. Ready(t)
    BY <1>1 DEF Ready
  <2>2. Block(t) = Below(stack[t], 1)
    BY <1>4, <2>1, TopBlock
  <2> QED BY <2>2, BelowOne DEF Depth, Block
<1>6. \A u \in Thread : Tidy(u, stack'[u], refs'[u])
  <2>1. Tidy(t, stack'[t], refs'[t])
    BY <1>1, <1>3, <1>4 DEF Tidy, Owns, Kept, Free
  <2>2. \A u \in Thread : Tidy(u, stack[u], refs[u])
    BY DEF OwnedInv
  <2> QED BY <1>1, <1>3, <2>1, <2>2
<1>7. \A u \in Thread : \A p \in Proxy : Live(proxy'[p].class, u, refs'[u], Depth(stack'[u]))
  <2> SUFFICES ASSUME NEW u \in Thread, NEW p \in Proxy
               PROVE  Live(proxy'[p].class, u, refs'[u], Depth(stack'[u]))
    OBVIOUS
  <2> DEFINE h == proxy[p].class
             g == proxy'[p].class
  <2>1. Live(h, u, refs[u], Depth(stack[u])) /\ h \in HandleType
    BY DEF OwnedInv, Block, Depth, SettledInv, TypeOK, ProxyType
  <2>2. /\ g.thread = h.thread /\ g.slot = h.slot
        /\ g.block = IF h.thread = t /\ h.block = 1 THEN 0 ELSE h.block
    BY <1>1, DanglingType DEF SettledInv
  <2> HIDE DEF g, h
  <2>3. CASE u = t
    <3>1. ~(g.thread = t /\ g.block > 0)
      <4> SUFFICES ASSUME g.thread = t, g.block > 0 PROVE FALSE
        OBVIOUS
      <4>1. h.thread = t /\ h.block # 1 /\ h.block > 0 /\ h.block \in Nat
        <5>1. h.thread = t /\ h.block \in Nat
          BY <2>1, <2>2 DEF HandleType
        <5>2. h.block # 1
          BY <2>2, <5>1
        <5>3. g.block = h.block
          BY <2>2, <5>2
        <5> QED BY <5>1, <5>2, <5>3
      <4>2. h.block <= Depth(stack[t])
        BY <2>1, <2>3, <4>1 DEF Live
      <4> QED BY <1>5, <4>1, <4>2
    <3> QED BY <2>3, <3>1 DEF Live, g
  <2>4. CASE u # t
    <3>1. refs'[u] = refs[u] /\ stack'[u] = stack[u]
      BY <1>1, <1>3, <2>4
    <3>2. g.thread = u => g.block = h.block
      BY <2>2, <2>4
    <3> QED BY <2>1, <2>2, <3>1, <3>2 DEF Live, g
  <2> QED BY <2>3, <2>4
<1> QED BY <1>6, <1>7, OwnedBy

\* get_method() gives the proxy a method, and its caches are empty.
GetStep(p, qx) ==
    /\ ~InUse(p)
    /\ proxy' = [proxy EXCEPT ![p] = qx]
    /\ qx.class = NoHandle /\ qx.id = NoMethod /\ qx.ret = ""
    /\ used' = [used EXCEPT ![p] = {}]
    /\ UNCHANGED <<stub, stack, refs, pending, state, out>>

LEMMA GetShape ==
    ASSUME NEW p \in Proxy, NEW q \in Lookup, GetMethod(p, q)
    PROVE  \E qx : GetStep(p, qx)
<1> DEFINE m == FirstOf(q.klass, Wanted(q))
           qx == NewProxy(m, q.klass, q.static, q.sig # AnySig)
<1>1. qx.class = NoHandle /\ qx.id = NoMethod /\ qx.ret = ""
  BY DEF NewProxy
<1>2. /\ ~InUse(p) /\ proxy' = [proxy EXCEPT ![p] = qx] /\ used' = [used EXCEPT ![p] = {}]
      /\ UNCHANGED <<stub, stack, refs, pending, state, out>>
  BY DEF GetMethod
<1> HIDE DEF qx
<1> QED BY <1>1, <1>2 DEF GetStep

LEMMA NextOwned ==
    ASSUME SettledInv, OwnedInv, [Next]_vars
    PROVE  OwnedInv'
<1>0. SettledInv' /\ TypeOK /\ Stacks
  BY NextSettled DEF SettledInv, TypeOK, Stacks
<1>1. ASSUME NEW p \in Proxy, NEW q \in Lookup, GetMethod(p, q) PROVE OwnedInv'
  <2>1. PICK qx : GetStep(p, qx)
    BY <1>1, GetShape
  <2>2. stack' = stack /\ refs' = refs /\ proxy \in [Proxy -> ProxyType]
    BY <1>0, <1>1 DEF GetMethod, TypeOK
  <2>3. \A u \in Thread : Tidy(u, stack'[u], refs'[u])
    BY <2>2 DEF OwnedInv
  <2>4. NoHandle.block = 0
    BY DEF NoHandle, Handle
  <2>5. \A u \in Thread : \A r \in Proxy : Live(proxy[r].class, u, refs[u], Depth(stack[u]))
    BY DEF OwnedInv, Block, Depth
  <2>6. \A r \in Proxy : proxy'[r].class = IF r = p THEN NoHandle ELSE proxy[r].class
    BY <2>1, <2>2 DEF GetStep
  <2>7. \A u \in Thread : \A r \in Proxy : Live(proxy'[r].class, u, refs'[u], Depth(stack'[u]))
    BY <2>2, <2>4, <2>5, <2>6 DEF Live
  <2> QED BY <2>3, <2>7, OwnedBy
<1>2. ASSUME NEW t \in Thread, NEW p \in Proxy, NEW args \in Argument, CallJni(t, p, args) PROVE OwnedInv'
  <2>1. PICK sel \in DOMAIN Method, f \in FrameType, qx \in ProxyType : JniStep(t, p, args, sel, f, qx)
    BY <1>0, <1>2, CallJniShape
  <2>2. /\ Push(t, f) /\ Ready(t) /\ f.path = "jni" /\ f.pc \in {"lookup", "pack"} /\ f.class = NoHandle
        /\ f.strings = {} /\ f.thrown = {} /\ f.result = 0 /\ refs' = refs
        /\ proxy' = [proxy EXCEPT ![p] = qx] /\ qx.class = proxy[p].class
    BY <2>1 DEF JniStep
  <2>3. Stage(f) /\ Held(f) = {}
    BY <2>2 DEF Stage, Held
  <2>4. \A r \in Proxy : proxy'[r].class = proxy[r].class
    BY <1>0, <2>2 DEF TypeOK
  <2> QED BY <1>0, <2>2, <2>3, <2>4, OwnedPush
<1>3. ASSUME NEW t \in Thread, NEW p \in Proxy, NEW args \in Argument, CallStub(t, p, args) PROVE OwnedInv'
  <2>1. PICK f \in FrameType : StubStep(t, p, args, f)
    BY <1>0, <1>3, StubShape
  <2>2. /\ Push(t, f) /\ Ready(t) /\ f.path = "stub" /\ f.pc = "callee" /\ f.resume = "callee"
        /\ f.class = NoHandle /\ f.strings = {} /\ f.thrown = {} /\ f.result = 0
        /\ refs' = refs /\ proxy' = proxy
    BY <2>1 DEF StubStep, Begins
  <2>3. Stage(f) /\ Held(f) = {}
    BY <2>2 DEF Stage, Held
  <2> QED BY <1>0, <2>2, <2>3, OwnedPush
<1>4. ASSUME NEW t \in Thread, NEW klass \in Made, NEW args \in Argument, MakeUnique(t, klass, args)
      PROVE  OwnedInv'
  <2>1. CASE \E f \in FrameType : NewStep(t, klass, args, f)
    <3>1. PICK f \in FrameType : NewStep(t, klass, args, f)
      BY <2>1
    <3>2. /\ Push(t, f) /\ Ready(t) /\ f.path = "new" /\ f.pc = "callee" /\ f.resume = "callee"
          /\ f.class = NoHandle /\ f.thrown = {} /\ f.result = 0 /\ f.strings \in SUBSET Slot
          /\ (\A s \in f.strings : refs[t][s] = Free)
          /\ refs' = [refs EXCEPT ![t] = Take(refs[t], f.strings, "string", Block(t))] /\ proxy' = proxy
      BY <3>1 DEF NewStep, Begins
    <3>3. 0 \notin Slot
      BY MethodCallAssumption DEF Slot
    <3>4. Stage(f) /\ Held(f) = f.strings
      BY <3>2, <3>3 DEF Stage, Held
    <3>5. refs \in [Thread -> [Slot -> Reserved]]
      BY <1>0 DEF TypeOK
    <3>6. refs'[t] = Take(refs[t], f.strings, "string", Block(t)) /\ \A u \in Thread \ {t} : refs'[u] = refs[u]
      BY <3>2, <3>5
    <3>7. \A s \in Slot : refs'[t][s] = IF s \in Held(f) THEN [kind |-> "string", block |-> Block(t)]
                                         ELSE refs[t][s]
      BY <3>4, <3>5, <3>6 DEF Take
    <3> QED BY <1>0, <3>2, <3>4, <3>6, <3>7, OwnedPush
  <2>2. CASE UNCHANGED <<stack, refs, state, stub, proxy, used>>
    BY <2>2 DEF OwnedInv, Block
  <2> QED BY <1>0, <1>4, <2>1, <2>2, NewShape
<1>5. ASSUME NEW t \in Thread, EnterHook(t) \/ LeaveHook(t) PROVE OwnedInv'
  <2>1. PICK f \in FrameType : EnterStep(t, f) \/ LeaveStep(t, f)
    BY <1>0, <1>5, HookShapes
  <2> QED BY <1>0, <2>1, OwnedHook
<1>6. ASSUME NEW t \in Thread, FrameEnd(t) PROVE OwnedInv'
  BY <1>0, <1>6, OwnedFrameEnd
<1>7. ASSUME NEW t \in Thread, LookupNoClass(t) PROVE OwnedInv'
  <2>1. At(t, "jni", "lookup") /\ Pop(t) /\ proxy' = proxy /\ refs' = refs
    BY <1>7 DEF LookupNoClass, Abort
  <2>2. stack[t] # <<>> /\ Top(t).path = "jni" /\ Top(t).pc = "lookup"
    BY <1>0, <2>1, AtTop
  <2>3. Held(Top(t)) = {}
    BY <2>2, TopTidy DEF Stage, Held
  <2> QED BY <1>0, <2>1, <2>2, <2>3, OwnedGone
<1>8. ASSUME NEW t \in Thread, LookupClass(t) PROVE OwnedInv'
  <2>1. PICK s \in Slot, qx \in ProxyType : LookupStep(t, s, qx)
    BY <1>0, <1>8, LookupShape
  <2> QED BY <1>0, <2>1, OwnedLookup
<1>9. ASSUME NEW t \in Thread, Dispatch(t) PROVE OwnedInv'
  <2>1. PICK f \in FrameType : DispatchStep(t, f)
    BY <1>0, <1>9, DispatchShape
  <2> QED BY <1>0, <2>1, OwnedDispatch
<1>10. ASSUME NEW t \in Thread, Return(t) \/ Throw(t) PROVE OwnedInv'
  <2>1. PICK f \in FrameType : ReturnStep(t, f) \/ ThrowStep(t, f)
    BY <1>0, <1>10, ReturnShape, ExceptionShapes
  <2> QED BY <1>0, <2>1, OwnedReturn
<1>11. ASSUME NEW t \in Thread, Check(t) PROVE OwnedInv'
  <2>1. PICK f \in FrameType : CheckStep(t, f)
    BY <1>0, <1>11, ExceptionShapes
  <2> QED BY <1>0, <2>1, OwnedCheck
<1>12. ASSUME NEW t \in Thread, DescribeThrowable(t) PROVE OwnedInv'
  <2>1. PICK f \in FrameType : DescribeStep(t, f)
    BY <1>0, <1>12, ExceptionShapes
  <2> QED BY <1>0, <2>1, OwnedDescribe
<1>13. ASSUME NEW t \in Thread, Decode(t) PROVE OwnedInv'
  <2>1. /\ At(t, "jni", "decode") /\ Pop(t) /\ proxy' = proxy
        /\ refs' = [refs EXCEPT ![t] = Delete(refs[t], Held(Top(t)))]
    BY <1>0, <1>13, EndShapes DEF DecodeStep
  <2>2. stack[t] # <<>> /\ Top(t).pc = "decode"
    BY <1>0, <2>1, AtTop
  <2>3. refs \in [Thread -> [Slot -> Reserved]]
    BY <1>0 DEF TypeOK
  <2>4. refs'[t] = Delete(refs[t], Held(Top(t))) /\ \A u \in Thread \ {t} : refs'[u] = refs[u]
    BY <2>1, <2>3
  <2>5. \A s \in Slot : refs'[t][s] = IF s \in Held(Top(t)) THEN Free ELSE refs[t][s]
    BY <2>3, <2>4 DEF Delete
  <2> QED BY <1>0, <2>1, <2>2, <2>4, <2>5, OwnedGone
<1>14. ASSUME NEW t \in Thread, StubReturn(t) \/ StubThrow(t) PROVE OwnedInv'
  <2>1. At(t, "stub", "callee") /\ Pop(t) /\ proxy' = proxy /\ refs' = refs
    BY <1>0, <1>14, EndShapes DEF StubEndStep
  <2>2. stack[t] # <<>> /\ Top(t).path = "stub" /\ Top(t).pc = "callee"
    BY <1>0, <2>1, AtTop
  <2>3. Held(Top(t)) = {}
    BY <2>2, TopTidy DEF Stage, Held
  <2> QED BY <1>0, <2>1, <2>2, <2>3, OwnedGone
<1>15. ASSUME NEW t \in Thread, NEW thrown \in BOOLEAN, NewObject(t, thrown) PROVE OwnedInv'
  <2>1. NewEndStep(t)
    BY <1>0, <1>15, EndShapes
  <2> QED BY <1>0, <2>1, OwnedNewEnd
<1>16. CASE UNCHANGED vars
  BY <1>16 DEF vars, OwnedInv, Block
<1> QED BY <1>1, <1>2, <1>3, <1>4, <1>5, <1>6, <1>7, <1>8, <1>9, <1>10, <1>11, <1>12, <1>13, <1>14,
           <1>15, <1>16 DEF Next

LEMMA InitOwned == Init => OwnedInv
<1> SUFFICES ASSUME Init PROVE OwnedInv
  OBVIOUS
<1>1. \A t \in Thread : stack[t] = <<>> /\ DOMAIN stack[t] = {}
  BY DEF Init
<1>2. \A t \in Thread : \A s \in Slot : refs[t][s] = Free
  BY DEF Init, Slot
<1>3. \A t \in Thread : Tidy(t, stack[t], refs[t])
  BY <1>1, <1>2 DEF Tidy, Owns, Kept, Free
<1>4. \A p \in Proxy : proxy[p].class.block = 0
  BY DEF Init, NoProxy, NewProxy, NoHandle, Handle
<1>5. \A t \in Thread : \A p \in Proxy : Live(proxy[p].class, t, refs[t], Block(t))
  BY <1>4 DEF Live
<1> QED BY <1>3, <1>5 DEF OwnedInv

LEMMA OwnedImplies == SettledInv /\ OwnedInv => RefsOwned
<1> SUFFICES ASSUME SettledInv, OwnedInv, NEW t \in Thread
             PROVE  /\ \A s \in 1..MaxRefs :
                          Cardinality({i \in DOMAIN stack[t] : s \in Held(stack[t][i])})
                              = (IF refs[t][s].kind \in {"free", "class"} THEN 0 ELSE 1)
                    /\ \A i \in DOMAIN stack[t] :
                          LET h == stack[t][i].class IN
                          h.thread = t /\ h.block > 0 => refs[t][h.slot] = [kind |-> "class", block |-> h.block]
  BY DEF RefsOwned
<1>1. Tidy(t, stack[t], refs[t])
  BY DEF OwnedInv
<1>2. \A i \in DOMAIN stack[t] : LET h == stack[t][i].class IN
          h.thread = t /\ h.block > 0 => refs[t][h.slot] = [kind |-> "class", block |-> h.block]
  BY <1>1 DEF Tidy, Live
<1>3. ASSUME NEW s \in Slot
      PROVE  Cardinality({i \in DOMAIN stack[t] : s \in Held(stack[t][i])})
                 = (IF refs[t][s].kind \in {"free", "class"} THEN 0 ELSE 1)
  <2> DEFINE S == {i \in DOMAIN stack[t] : s \in Held(stack[t][i])}
  <2>1. CASE Kept(refs[t][s])
    <3>1. PICK i \in DOMAIN stack[t] : s \in Held(stack[t][i])
      BY <1>1, <2>1 DEF Tidy, Owns
    <3>2. S = {i}
      BY <1>1, <3>1 DEF Tidy, Owns
    <3>3. Cardinality(S) = 1
      BY <3>2, FS_Singleton
    <3> QED BY <2>1, <3>3 DEF Kept
  <2>2. CASE ~Kept(refs[t][s])
    <3>1. S = {}
      BY <1>1, <2>2 DEF Tidy, Owns
    <3>2. Cardinality(S) = 0
      BY <3>1, FS_EmptySet
    <3> QED BY <2>2, <3>2 DEF Kept
  <2> QED BY <2>1, <2>2
<1> QED BY <1>2, <1>3 DEF Slot

\* NewStringUTF(), the result of CallObjectMethodA() and the references that
\* check_callee_exception() makes: through any nesting of calls, hooks, callees that throw
\* and blocks that the JVM frees, each belongs to exactly one call in progress, so call_jni()
\* and jni_make_unique() neither leak one nor give one back twice; and a jclass that a proxy
\* cached is live when it is given to JNI, unless it is another thread's or its block is gone.
THEOREM ReferencesOwned == Spec => []RefsOwned
<1>1. Init => SettledInv /\ OwnedInv
  BY InitSettled, InitOwned
<1>2. SettledInv /\ OwnedInv /\ [Next]_vars => (SettledInv /\ OwnedInv)'
  BY NextSettled, NextOwned
<1> QED BY <1>1, <1>2, OwnedImplies, PTL DEF Spec

-----------------------------------------------------------------------------
(* RightMethod and ResultRight.                                            *)

LEMMA TargetFacts ==
    ASSUME NEW px, NEW qx, SameTarget(qx, px)
    PROVE  /\ qx.method = px.method
           /\ \A m : IdFor(qx, m) = IdFor(px, m)
           /\ \A args : ResolveCompatible(qx, args) = ResolveCompatible(px, args)
<1>1. SearchKlass(qx) = SearchKlass(px) /\ qx.method = px.method
  BY DEF SameTarget, SearchKlass
<1>2. \A m : IdFor(qx, m) = IdFor(px, m)
  BY <1>1 DEF SameTarget, IdFor
<1>3. \A args : ResolveCompatible(qx, args) = ResolveCompatible(px, args)
  BY <1>1 DEF SameTarget, ResolveCompatible
<1> QED BY <1>1, <1>2, <1>3

\* A call, when other calls use its proxy.
LEMMA CallKept ==
    ASSUME NEW f, NEW px, NEW qx, NEW U, NEW V, CallOf(f, px, U), SameTarget(qx, px), U \subseteq V,
           U = {f.sel} /\ V = {f.sel} /\ px.id # NoMethod => qx.id # NoMethod
    PROVE  CallOf(f, qx, V)
<1>1. /\ qx.method = px.method
      /\ IdFor(qx, f.sel) = IdFor(px, f.sel)
      /\ ResolveCompatible(qx, f.args) = ResolveCompatible(px, f.args)
  BY TargetFacts
<1>2. CASE f.path = "jni"
  <2>1. JniCall(f, px, U)
    BY <1>2 DEF CallOf
  <2>2. V = {f.sel} => U = {f.sel}
    BY <2>1 DEF JniCall
  <2>3. JniCall(f, qx, V)
    BY <1>1, <2>1, <2>2 DEF JniCall
  <2> QED BY <1>2, <2>3 DEF CallOf
<1>3. CASE f.path # "jni"
  BY <1>1, <1>3 DEF CallOf
<1> QED BY <1>2, <1>3

\* A call that goes on.
LEMMA CallGoes ==
    ASSUME NEW f, NEW g, NEW px, NEW U, CallOf(g, px, U), SameCall(f, g), f.id = g.id,
           f.pc # "pack",
           f.pc \in {"callee", "hook", "check", "toString", "decode"} =>
               g.pc \in {"callee", "hook", "check", "toString", "decode"}
    PROVE  CallOf(f, px, U)
<1>1. CASE f.path = "jni"
  <2>1. JniCall(g, px, U)
    BY <1>1 DEF CallOf, SameCall
  <2>2. JniCall(f, px, U)
    BY <2>1 DEF JniCall, SameCall
  <2> QED BY <1>1, <2>2 DEF CallOf
<1>2. CASE f.path # "jni"
  BY <1>2 DEF CallOf, SameCall
<1> QED BY <1>1, <1>2

\* The descriptor that a call over JNI asks for, if its proxy has selected one overload.
LEMMA EffectiveIs ==
    ASSUME NEW f, JniCall(f, proxy[f.p], used[f.p]), Remembers(proxy[f.p], used[f.p]),
           used[f.p] = {f.sel}
    PROVE  Effective(f) = f.sel
<1>1. CacheOf(proxy[f.p], f.sel) /\ f.byref = (f.sel # proxy[f.p].method)
  BY DEF JniCall, Remembers
<1> QED BY <1>1 DEF CacheOf, Effective

\* A step that selects nothing, in which the proxies keep their caches: the calls of all
\* threads are those before, and f.
LEMMA CacheStep ==
    ASSUME CacheInv, TypeOK', NEW t \in Thread, NEW f \in FrameType,
           Push(t, f) \/ (stack[t] # <<>> /\ SetTop(t, f)) \/ (stack[t] # <<>> /\ Pop(t)) \/ UNCHANGED stack,
           Push(t, f) \/ SetTop(t, f) => (f.path # "new" => CallOf(f, proxy[f.p], used[f.p])),
           \A p \in Proxy : SameTarget(proxy'[p], proxy[p]) /\ proxy'[p].id = proxy[p].id
                             /\ proxy'[p].ret = proxy[p].ret /\ proxy'[p].effective = proxy[p].effective,
           used' = used, ResultRight'
    PROVE  CacheInv'
<1>1. Stacks
  BY DEF CacheInv, TypeOK, Stacks
<1>2. \A u \in Thread : \A i \in DOMAIN stack'[u] :
         \/ i \in DOMAIN stack[u] /\ stack'[u][i] = stack[u][i]
         \/ stack'[u][i] = f /\ (Push(t, f) \/ SetTop(t, f))
  BY <1>1, OldFrames
<1>3. \A u \in Thread : \A i \in DOMAIN stack'[u] : stack'[u][i].path # "new" =>
         CallOf(stack'[u][i], proxy[stack'[u][i].p], used[stack'[u][i].p])
  BY <1>2 DEF CacheInv, Calls
<1>4. \A u \in Thread : \A i \in DOMAIN stack'[u] : stack'[u][i].path # "new" => stack'[u][i].p \in Proxy
  BY DEF TypeOK
<1>5. Calls'
  <2> SUFFICES ASSUME NEW u \in Thread, NEW i \in DOMAIN stack'[u], stack'[u][i].path # "new"
               PROVE  CallOf(stack'[u][i], proxy'[stack'[u][i].p], used'[stack'[u][i].p])
    BY DEF Calls
  <2>1. PICK g, p : g = stack'[u][i] /\ p = g.p
    OBVIOUS
  <2>2. CallOf(g, proxy[p], used[p]) /\ p \in Proxy
    BY <1>3, <1>4, <2>1
  <2>3. SameTarget(proxy'[p], proxy[p]) /\ proxy'[p].id = proxy[p].id /\ used'[p] = used[p]
    BY <2>2
  <2>4. CallOf(g, proxy'[p], used'[p])
    BY <2>2, <2>3, CallKept
  <2> QED BY <2>1, <2>4
<1>6. Caches'
  <2> SUFFICES ASSUME NEW p \in Proxy PROVE Remembers(proxy'[p], used'[p])
    BY DEF Caches
  <2>1. Remembers(proxy[p], used[p])
    BY DEF CacheInv, Caches
  <2>2. /\ proxy'[p].id = proxy[p].id /\ proxy'[p].ret = proxy[p].ret
        /\ proxy'[p].effective = proxy[p].effective /\ SameTarget(proxy'[p], proxy[p])
    OBVIOUS
  <2>3. proxy'[p].method = proxy[p].method /\ \A m : IdFor(proxy'[p], m) = IdFor(proxy[p], m)
    BY <2>2, TargetFacts
  <2> QED BY <2>1, <2>2, <2>3 DEF Remembers, CacheOf
<1> QED BY <1>5, <1>6 DEF CacheInv

\* A proxy p is used with qx as its caches: its other calls are not disturbed.
LEMMA CachesUsed ==
    ASSUME CacheInv, TypeOK', NEW t \in Thread, NEW f \in FrameType, NEW p \in Proxy, NEW qx, NEW V,
           Push(t, f) \/ (stack[t] # <<>> /\ SetTop(t, f)) \/ (stack[t] # <<>> /\ Pop(t)),
           proxy' = [proxy EXCEPT ![p] = qx], used' = [used EXCEPT ![p] = V],
           Push(t, f) \/ SetTop(t, f) => f.p = p /\ CallOf(f, qx, V),
           SameTarget(qx, proxy[p]), used[p] \subseteq V, Remembers(qx, V),
           \A m : used[p] = {m} /\ V = {m} /\ proxy[p].id # NoMethod => qx.id # NoMethod,
           ResultRight'
    PROVE  CacheInv'
<1>1. Stacks /\ proxy \in [Proxy -> ProxyType] /\ used \in [Proxy -> SUBSET DOMAIN Method]
  BY DEF CacheInv, TypeOK, Stacks
<1>2. \A u \in Thread : \A i \in DOMAIN stack'[u] :
         \/ i \in DOMAIN stack[u] /\ stack'[u][i] = stack[u][i]
         \/ stack'[u][i] = f /\ (Push(t, f) \/ SetTop(t, f))
  BY <1>1, OldFrames
<1>3. /\ proxy'[p] = qx /\ used'[p] = V
      /\ \A r \in Proxy \ {p} : proxy'[r] = proxy[r] /\ used'[r] = used[r]
  BY <1>1
<1>4. Caches'
  BY <1>3 DEF CacheInv, Caches
<1>5. Calls'
  <2> SUFFICES ASSUME NEW u \in Thread, NEW i \in DOMAIN stack'[u], stack'[u][i].path # "new"
               PROVE  CallOf(stack'[u][i], proxy'[stack'[u][i].p], used'[stack'[u][i].p])
    BY DEF Calls
  <2>1. PICK g : g = stack'[u][i]
    OBVIOUS
  <2>2. g.p \in Proxy /\ g.path # "new"
    BY <2>1 DEF TypeOK
  <2>3. CASE g = f /\ (Push(t, f) \/ SetTop(t, f))
    BY <1>3, <2>1, <2>3
  <2>4. CASE i \in DOMAIN stack[u] /\ g = stack[u][i]
    <3>1. CallOf(g, proxy[g.p], used[g.p])
      BY <2>2, <2>4 DEF CacheInv, Calls
    <3>2. CASE g.p = p
      <4>1. CallOf(g, proxy[p], used[p])
        BY <3>1, <3>2
      <4>2. PICK px, U : px = proxy[p] /\ U = used[p]
        OBVIOUS
      <4>3. CallOf(g, qx, V)
        BY <4>1, <4>2, CallKept
      <4> QED BY <1>3, <2>1, <3>2, <4>3
    <3>3. CASE g.p # p
      BY <1>3, <2>1, <2>2, <3>1, <3>3
    <3> QED BY <3>2, <3>3
  <2> QED BY <1>2, <2>1, <2>3, <2>4
<1> QED BY <1>4, <1>5 DEF CacheInv

\* A call over JNI begins.
LEMMA CacheCall ==
    ASSUME CacheInv, TypeOK', NEW t \in Thread, NEW p \in Proxy, NEW args \in Argument,
           NEW sel \in DOMAIN Method, NEW f \in FrameType, NEW qx \in ProxyType,
           JniStep(t, p, args, sel, f, qx)
    PROVE  CacheInv'
<1>0. PICK px, U : px = proxy[p] /\ U = used[p]
  OBVIOUS
<1> DEFINE V == U \cup {sel}
<1>1. /\ sel = ResolveCompatible(px, args)
      /\ Push(t, f) /\ f.p = p /\ f.path = "jni" /\ f.sel = sel
      /\ f.args = args /\ f.byref = (sel # px.method) /\ f.ret = qx.ret
      /\ f.pc = (IF px.id = NoMethod THEN "lookup" ELSE "pack")
      /\ SameTarget(qx, px) /\ qx.id = px.id
      /\ qx.ret = (IF px.ret = "" THEN RetChar(sel) ELSE px.ret)
      /\ qx.effective = (IF sel # px.method THEN sel ELSE px.effective)
      /\ proxy' = [proxy EXCEPT ![p] = qx]
      /\ used' = [used EXCEPT ![p] = V] /\ out' = out
  BY <1>0 DEF JniStep
<1>2. Remembers(px, U)
  BY <1>0 DEF CacheInv, Caches
<1>3. /\ qx.method = px.method /\ IdFor(qx, sel) = IdFor(px, sel)
      /\ ResolveCompatible(qx, args) = ResolveCompatible(px, args)
  <2>1. SameTarget(qx, px)
    BY <1>1
  <2> QED BY <2>1, TargetFacts
<1>4. V = {sel} => qx.ret = RetChar(sel) /\ px.id \in {NoMethod, IdFor(px, sel)}
  <2> SUFFICES ASSUME V = {sel} PROVE qx.ret = RetChar(sel) /\ px.id \in {NoMethod, IdFor(px, sel)}
    OBVIOUS
  <2>1. CASE U = {}
    BY <1>1, <1>2, <2>1 DEF Remembers
  <2>2. CASE U = {sel}
    <3>1. CacheOf(px, sel)
      BY <1>2, <2>2 DEF Remembers
    <3>2. RetChar(sel) # ""
      BY RetCharType
    <3> QED BY <1>1, <3>1, <3>2 DEF CacheOf
  <2> QED BY <2>1, <2>2
<1>5. IsFiniteSet(V)
  BY <1>2, FS_AddElement DEF Remembers
<1> HIDE DEF V
<1>6. sel \in V /\ U \subseteq V
  BY DEF V
<1>7. Remembers(qx, V)
  BY <1>1, <1>3, <1>4, <1>5, <1>6 DEF Remembers, CacheOf
<1>8. JniCall(f, qx, V)
  BY <1>1, <1>3, <1>4, <1>6 DEF JniCall
<1>9. CallOf(f, qx, V)
  BY <1>1, <1>8 DEF CallOf
<1>10. ResultRight'
  BY <1>1 DEF CacheInv, ResultRight
<1> QED BY <1>0, <1>1, <1>6, <1>7, <1>9, <1>10, CachesUsed

\* The class is found, and the jmethodID goes to the cache.
LEMMA CacheLookup ==
    ASSUME CacheInv, TypeOK', NEW t \in Thread, NEW s \in Slot, NEW qx \in ProxyType, LookupStep(t, s, qx)
    PROVE  CacheInv'
<1>0. PICK g, p, px, U : g = Top(t) /\ p = g.p /\ px = proxy[p] /\ U = used[p]
  OBVIOUS
<1>1. /\ At(t, "jni", "lookup") /\ proxy' = [proxy EXCEPT ![p] = qx] /\ used' = used
      /\ SameTarget(qx, px) /\ qx.ret = px.ret /\ qx.effective = px.effective /\ qx.id = MethodId(Top(t))
      /\ \/ qx.id = NoMethod /\ Pop(t) /\ out' = NoResult
         \/ qx.id # NoMethod /\ out' = out /\ \E f \in FrameType : FoundStep(t, f)
  BY <1>0 DEF LookupStep
<1>2. TypeOK /\ Stacks
  BY DEF CacheInv, TypeOK, Stacks
<1>3. g \in FrameType /\ p \in Proxy /\ g.path = "jni" /\ stack[t] # <<>>
  BY <1>0, <1>1, <1>2, AtTop
<1>4. Len(stack[t]) \in DOMAIN stack[t] /\ g = stack[t][Len(stack[t])]
  BY <1>0, <1>2, <1>3, StackType
<1>5. JniCall(g, px, U) /\ Remembers(px, U)
  BY <1>0, <1>3, <1>4 DEF CacheInv, Calls, CallOf, Caches
<1>6. U = {g.sel} => qx.id = IdFor(px, g.sel)
  <2>1. qx.id = IdFor(px, Effective(g))
    BY <1>0, <1>1, MethodIdIsIdFor
  <2>2. U = {g.sel} => Effective(g) = g.sel
    BY <1>0, <1>5, EffectiveIs
  <2> QED BY <2>1, <2>2
<1>7. qx.method = px.method /\ IdFor(qx, g.sel) = IdFor(px, g.sel)
      /\ ResolveCompatible(qx, g.args) = ResolveCompatible(px, g.args)
  BY <1>1, TargetFacts
<1>8. g.sel \in U
  BY <1>5 DEF JniCall
<1>9. Remembers(qx, U)
  <2>1. IsFiniteSet(U) /\ U # {}
    BY <1>5, <1>8 DEF Remembers
  <2>2. ASSUME NEW m \in U, U = {m} PROVE CacheOf(qx, m)
    <3>1. m = g.sel /\ CacheOf(px, m)
      BY <1>5, <1>8, <2>2 DEF Remembers
    <3> QED BY <1>1, <1>6, <1>7, <2>2, <3>1 DEF CacheOf
  <2> QED BY <2>1, <2>2 DEF Remembers
<1>10. \A m : U = {m} /\ px.id # NoMethod => qx.id # NoMethod
  <2> SUFFICES ASSUME NEW m, U = {m}, px.id # NoMethod PROVE qx.id # NoMethod
    OBVIOUS
  <2>1. m = g.sel /\ CacheOf(px, m)
    BY <1>5, <1>8 DEF Remembers
  <2> QED BY <1>6, <2>1 DEF CacheOf
<1>11. used' = [used EXCEPT ![p] = U]
  BY <1>0, <1>1, <1>2, <1>3 DEF TypeOK
<1>12. ResultRight'
  BY <1>1 DEF CacheInv, ResultRight, NoResult
<1>13. CASE Pop(t) /\ ~(\E f \in FrameType : FoundStep(t, f))
  <2>1. Len(stack'[t]) = Len(stack[t]) - 1 /\ Len(stack[t]) \in Nat
    BY <1>2, <1>3, <1>13, Popped, StackType
  <2>2. ~Push(t, g)
    <3>1. Push(t, g) => Len(stack'[t]) = Len(stack[t]) + 1
      BY <1>2, <1>3, Pushed
    <3> QED BY <2>1, <3>1
  <2>3. ~SetTop(t, g)
    <3>1. SetTop(t, g) => Len(stack'[t]) = Len(stack[t])
      BY <1>2, <1>3, TopSet
    <3> QED BY <2>1, <3>1
  <2> QED BY <1>0, <1>1, <1>3, <1>9, <1>10, <1>11, <1>12, <1>13, <2>2, <2>3, CachesUsed
<1>14. CASE \E f \in FrameType : FoundStep(t, f)
  <2>1. PICK f \in FrameType : FoundStep(t, f)
    BY <1>14
  <2>2. /\ stack[t] # <<>> /\ SetTop(t, f) /\ SameCall(f, g) /\ f.pc = "pack"
    BY <1>0, <2>1 DEF FoundStep, Goes
  <2>3. qx.id # NoMethod
    <3>1. SetTop(t, f) => Len(stack'[t]) = Len(stack[t])
      BY <1>2, <1>3, TopSet
    <3>2. Pop(t) => Len(stack'[t]) = Len(stack[t]) - 1 /\ Len(stack[t]) \in Nat
      BY <1>2, <1>3, Popped, StackType
    <3> QED BY <1>1, <2>2, <3>1, <3>2
  <2>4. JniCall(f, qx, U) /\ f.p = p /\ f.path = "jni"
    BY <1>0, <1>3, <1>5, <1>7, <2>2, <2>3 DEF JniCall, SameCall
  <2>5. CallOf(f, qx, U)
    BY <2>4 DEF CallOf
  <2> QED BY <1>0, <1>1, <1>3, <1>9, <1>10, <1>11, <1>12, <2>2, <2>4, <2>5, CachesUsed
<1> QED BY <1>1, <1>13, <1>14

\* What a method returns, and the character that call_jni() decodes it by.
LEMMA RetCharIs ==
    ASSUME NEW m \in DOMAIN Method
    PROVE  IF Method[m].ret \in Reference THEN RetChar(m) = "L" ELSE RetChar(m) = Method[m].ret /\ RetChar(m) # "L"
<1>1. Method[m].ret \in Reference \cup Primitive
  BY MethodCallAssumption DEF MethodType
<1> QED BY <1>1 DEF RetChar, Primitive

\* The value of a call over JNI is one that the method called returns.
LEMMA ValueRight ==
    ASSUME NEW f, f.sel \in DOMAIN Method, f.id \in DOMAIN Method, Signature(f.id) = Signature(f.sel),
           f.ret = RetChar(f.sel), Effective(f) = f.sel
    PROVE  Value(f) \in (IF Method[f.id].ret \notin Reference THEN {Method[f.id].ret}
                         ELSE IF Method[f.id].ret = "String" THEN {"string", "V"} ELSE {"oop", "V"})
<1>1. Method[f.id].ret = Method[f.sel].ret
  BY DEF Signature
<1>2. IF Method[f.sel].ret \in Reference THEN f.ret = "L" ELSE f.ret = Method[f.sel].ret /\ f.ret # "L"
  BY RetCharIs
<1> QED BY <1>1, <1>2 DEF Value

\* The call at which a thread is.
LEMMA TopCall ==
    ASSUME CacheInv, NEW t \in Thread, NEW path, NEW pc, At(t, path, pc), path # "new"
    PROVE  /\ Top(t).p \in Proxy /\ Bound(proxy[Top(t).p])
           /\ CallOf(Top(t), proxy[Top(t).p], used[Top(t).p])
           /\ Remembers(proxy[Top(t).p], used[Top(t).p])
<1>1. TypeOK /\ Stacks
  BY DEF CacheInv, TypeOK, Stacks
<1>2. stack[t] # <<>> /\ Top(t).path = path /\ Top(t).p \in Proxy /\ Bound(proxy[Top(t).p])
  BY <1>1, AtTop
<1>3. Len(stack[t]) \in DOMAIN stack[t] /\ Top(t) = stack[t][Len(stack[t])]
  BY <1>1, <1>2, StackType
<1> QED BY <1>2, <1>3 DEF CacheInv, Calls, Caches

\* The result of a call over JNI.
LEMMA CacheDecode ==
    ASSUME CacheInv, NEW t \in Thread, Decode(t)
    PROVE  ResultRight'
<1>0. PICK f : f = Top(t)
  OBVIOUS
<1>1. /\ At(t, "jni", "decode")
      /\ out' = IF Cardinality(used[f.p]) = 1 THEN [value |-> Value(f), of |-> f.id] ELSE NoResult
  BY <1>0 DEF Decode
<1>2. /\ f.p \in Proxy /\ Bound(proxy[f.p]) /\ CallOf(f, proxy[f.p], used[f.p])
      /\ Remembers(proxy[f.p], used[f.p])
  BY <1>0, <1>1, TopCall
<1>3. f.path = "jni" /\ f.pc = "decode"
  BY <1>0, <1>1 DEF At
<1>4. JniCall(f, proxy[f.p], used[f.p])
  BY <1>2, <1>3 DEF CallOf
<1>5. CASE Cardinality(used[f.p]) # 1
  BY <1>1, <1>5 DEF ResultRight, NoResult
<1>6. CASE Cardinality(used[f.p]) = 1
  <2>1. used[f.p] = {f.sel}
    <3>1. IsFiniteSet(used[f.p]) /\ f.sel \in used[f.p]
      BY <1>2, <1>4 DEF Remembers, JniCall
    <3>2. PICK x : used[f.p] = {x}
      BY <1>6, <3>1, FS_Singleton
    <3> QED BY <3>1, <3>2
  <2>2. f.ret = RetChar(f.sel) /\ f.id # NoMethod /\ f.id = IdFor(proxy[f.p], f.sel)
        /\ f.sel = ResolveCompatible(proxy[f.p], f.args)
    BY <1>3, <1>4, <2>1 DEF JniCall
  <2>3. f.sel \in DOMAIN Method
    BY <1>2, <2>2, Resolved
  <2>4. f.id \in DOMAIN Method /\ Signature(f.id) = Signature(f.sel)
    BY <1>2, <2>2, IdForIn
  <2>5. Effective(f) = f.sel
    BY <1>2, <1>4, <2>1, EffectiveIs
  <2>6. PICK v : v = Value(f)
    OBVIOUS
  <2>7. v \in (IF Method[f.id].ret \notin Reference THEN {Method[f.id].ret}
               ELSE IF Method[f.id].ret = "String" THEN {"string", "V"} ELSE {"oop", "V"})
    BY <2>2, <2>3, <2>4, <2>5, <2>6, ValueRight
  <2>8. out'.value = v /\ out'.of = f.id
    BY <1>1, <1>6, <2>6
  <2> QED BY <2>7, <2>8 DEF ResultRight
<1> QED BY <1>5, <1>6

\* The result of a call through the stub.
LEMMA CacheStub ==
    ASSUME CacheInv, NEW t \in Thread, NEW null \in BOOLEAN, LeaveStub(t, null)
    PROVE  ResultRight'
<1>0. PICK f : f = Top(t)
  OBVIOUS
<1>1. /\ At(t, "stub", "callee")
      /\ out' = [value |-> IF Method[f.sel].ret \notin Reference THEN Method[f.sel].ret
                           ELSE IF null THEN "V"
                           ELSE IF Method[f.sel].ret = "String" THEN "string" ELSE "oop",
                 of |-> f.id]
  BY <1>0 DEF LeaveStub
<1>2. CallOf(f, proxy[f.p], used[f.p]) /\ f.path = "stub"
  BY <1>0, <1>1, TopCall DEF At
<1>3. f.id = f.sel
  BY <1>2 DEF CallOf
<1> QED BY <1>1, <1>3 DEF ResultRight

LEMMA NextCache ==
    ASSUME CacheInv, [Next]_vars
    PROVE  CacheInv'
<1>0. TypeOK /\ TypeOK' /\ Stacks
  BY NextType DEF CacheInv, TypeOK, Stacks
<1>1. ResultRight
  BY DEF CacheInv
<1>2. (out' = out => ResultRight') /\ (out' = NoResult => ResultRight')
  BY <1>1 DEF ResultRight, NoResult
<1>3. proxy' = proxy => \A p \in Proxy :
          /\ SameTarget(proxy'[p], proxy[p]) /\ proxy'[p].id = proxy[p].id
          /\ proxy'[p].ret = proxy[p].ret /\ proxy'[p].effective = proxy[p].effective
  BY DEF SameTarget
<1>4. ASSUME NEW t \in Thread, JavaEnds(t)
      PROVE  \A p \in Proxy : /\ SameTarget(proxy'[p], proxy[p]) /\ proxy'[p].id = proxy[p].id
                              /\ proxy'[p].ret = proxy[p].ret /\ proxy'[p].effective = proxy[p].effective
  BY <1>0, <1>4, DanglingType DEF JavaEnds
<1>5. ASSUME NEW t \in Thread, stack[t] # <<>>
      PROVE  /\ Top(t) \in FrameType
             /\ Top(t).path # "new" => CallOf(Top(t), proxy[Top(t).p], used[Top(t).p])
  <2>1. Top(t) \in FrameType /\ Len(stack[t]) \in DOMAIN stack[t] /\ Top(t) = stack[t][Len(stack[t])]
    BY <1>0, <1>5, StackType
  <2> QED BY <2>1 DEF CacheInv, Calls
<1>6. ASSUME NEW t \in Thread, stack[t] # <<>>, Pop(t), used' = used, ResultRight',
             proxy' = proxy \/ JavaEnds(t)
      PROVE  CacheInv'
  <2>1. Top(t) \in FrameType /\ (Top(t).path # "new" => CallOf(Top(t), proxy[Top(t).p], used[Top(t).p]))
    BY <1>5, <1>6
  <2>2. PICK f : f = Top(t)
    OBVIOUS
  <2>3. f \in FrameType /\ (f.path # "new" => CallOf(f, proxy[f.p], used[f.p]))
    BY <2>1, <2>2
  <2>4. \A p \in Proxy : /\ SameTarget(proxy'[p], proxy[p]) /\ proxy'[p].id = proxy[p].id
                         /\ proxy'[p].ret = proxy[p].ret /\ proxy'[p].effective = proxy[p].effective
    BY <1>3, <1>4, <1>6
  <2> QED BY <1>0, <1>6, <2>3, <2>4, CacheStep
<1>7. ASSUME NEW t \in Thread, NEW f \in FrameType, Goes(t, f), f.id = Top(t).id, f.pc # "pack",
             Top(t).pc \in {"callee", "hook", "check", "toString", "decode"},
             used' = used, out' = out, proxy' = proxy \/ JavaEnds(t)
      PROVE  CacheInv'
  <2>1. stack[t] # <<>> /\ SetTop(t, f) /\ SameCall(f, Top(t))
    BY <1>7 DEF Goes
  <2>2. PICK g : g = Top(t)
    OBVIOUS
  <2>3. g \in FrameType /\ (g.path # "new" => CallOf(g, proxy[g.p], used[g.p]))
    BY <1>5, <2>1, <2>2
  <2>4. f.path # "new" => CallOf(f, proxy[f.p], used[f.p])
    <3>1. f.p = g.p /\ f.path = g.path
      BY <2>1, <2>2 DEF SameCall
    <3>2. PICK px, U : px = proxy[g.p] /\ U = used[g.p]
      OBVIOUS
    <3>3. f.path # "new" => CallOf(f, px, U)
      BY <1>7, <2>1, <2>2, <2>3, <3>1, <3>2, CallGoes
    <3> QED BY <3>1, <3>2, <3>3
  <2>5. \A p \in Proxy : /\ SameTarget(proxy'[p], proxy[p]) /\ proxy'[p].id = proxy[p].id
                         /\ proxy'[p].ret = proxy[p].ret /\ proxy'[p].effective = proxy[p].effective
    BY <1>3, <1>4, <1>7
  <2> QED BY <1>0, <1>2, <1>7, <2>1, <2>4, <2>5, CacheStep
<1>8. ASSUME NEW p \in Proxy, NEW q \in Lookup, GetMethod(p, q) PROVE CacheInv'
  <2>1. PICK qx : GetStep(p, qx)
    BY <1>8, GetShape
  <2>2. /\ proxy \in [Proxy -> ProxyType] /\ used \in [Proxy -> SUBSET DOMAIN Method]
        /\ proxy' = [proxy EXCEPT ![p] = qx] /\ qx.id = NoMethod /\ qx.ret = ""
        /\ used' = [used EXCEPT ![p] = {}] /\ stack' = stack /\ out' = out
    BY <1>0, <2>1 DEF TypeOK, GetStep
  <2>3. /\ proxy'[p] = qx /\ used'[p] = {}
        /\ \A r \in Proxy \ {p} : proxy'[r] = proxy[r] /\ used'[r] = used[r]
    BY <2>2
  <2>4. Remembers(qx, {})
    BY <2>2, FS_EmptySet DEF Remembers
  <2>5. Caches'
    BY <2>3, <2>4 DEF CacheInv, Caches
  <2>6. \A t \in Thread : \A i \in DOMAIN stack[t] : stack[t][i].path # "new" =>
            stack[t][i].p # p /\ stack[t][i].p \in Proxy
    BY <1>0, <2>1 DEF GetStep, InUse, TypeOK
  <2>7. Calls'
    BY <2>2, <2>3, <2>6 DEF CacheInv, Calls
  <2> QED BY <1>0, <1>2, <2>2, <2>5, <2>7 DEF CacheInv
<1>9. ASSUME NEW t \in Thread, NEW p \in Proxy, NEW args \in Argument, CallJni(t, p, args) PROVE CacheInv'
  <2>1. PICK sel \in DOMAIN Method, f \in FrameType, qx \in ProxyType : JniStep(t, p, args, sel, f, qx)
    BY <1>0, <1>9, CallJniShape
  <2> QED BY <1>0, <2>1, CacheCall
<1>10. ASSUME NEW t \in Thread, NEW p \in Proxy, NEW args \in Argument, CallStub(t, p, args) PROVE CacheInv'
  <2>1. PICK f \in FrameType : StubStep(t, p, args, f)
    BY <1>0, <1>10, StubShape
  <2>2. /\ Push(t, f) /\ f.path = "stub" /\ f.p = p /\ f.args = args /\ f.id = f.sel
        /\ f.sel = ResolveCompatible(proxy[p], args) /\ proxy' = proxy /\ used' = used /\ out' = out
    BY <2>1 DEF StubStep, Begins
  <2>3. CallOf(f, proxy[f.p], used[f.p])
    BY <2>2 DEF CallOf
  <2> QED BY <1>0, <1>2, <1>3, <2>2, <2>3, CacheStep
<1>11. ASSUME NEW t \in Thread, NEW klass \in Made, NEW args \in Argument, MakeUnique(t, klass, args)
       PROVE  CacheInv'
  <2>1. CASE \E f \in FrameType : NewStep(t, klass, args, f)
    <3>1. PICK f \in FrameType : NewStep(t, klass, args, f)
      BY <2>1
    <3>2. Push(t, f) /\ f.path = "new" /\ proxy' = proxy /\ used' = used /\ out' = out
      BY <3>1 DEF NewStep, Begins
    <3> QED BY <1>0, <1>2, <1>3, <3>2, CacheStep
  <2>2. CASE out' = NoResult /\ UNCHANGED <<stack, refs, state, stub, proxy, used>>
    BY <1>0, <1>2, <2>2 DEF CacheInv, Calls, Caches
  <2> QED BY <1>0, <1>11, <2>1, <2>2, NewShape
<1>12. ASSUME NEW t \in Thread, EnterHook(t) \/ LeaveHook(t) PROVE CacheInv'
  <2>1. PICK f \in FrameType : EnterStep(t, f) \/ LeaveStep(t, f)
    BY <1>0, <1>12, HookShapes
  <2>2. /\ Goes(t, f) /\ f.id = Top(t).id /\ Top(t).pc \in {"callee", "toString", "hook"}
        /\ f.pc = "hook" \/ f.pc = f.resume
        /\ proxy' = proxy /\ used' = used /\ out' = out
    BY <2>1 DEF EnterStep, LeaveStep, SameUse
  <2>3. f.pc # "pack"
    BY <2>2 DEF FrameType
  <2> QED BY <1>7, <2>2, <2>3
<1>13. ASSUME NEW t \in Thread, FrameEnd(t) PROVE CacheInv'
  <2>1. stack' = stack /\ used' = used /\ out' = out /\ proxy' = Dangling(t, 1)
    BY <1>13 DEF FrameEnd
  <2>2. \A p \in Proxy : /\ SameTarget(proxy'[p], proxy[p]) /\ proxy'[p].id = proxy[p].id
                         /\ proxy'[p].ret = proxy[p].ret /\ proxy'[p].effective = proxy[p].effective
    BY <1>0, <2>1, DanglingType
  <2>3. Caches'
    <3> SUFFICES ASSUME NEW p \in Proxy PROVE Remembers(proxy'[p], used'[p])
      BY DEF Caches
    <3>1. Remembers(proxy[p], used[p]) /\ used'[p] = used[p]
      BY <2>1 DEF CacheInv, Caches
    <3>2. proxy'[p].method = proxy[p].method /\ \A m : IdFor(proxy'[p], m) = IdFor(proxy[p], m)
      BY <2>2, TargetFacts
    <3> QED BY <2>2, <3>1, <3>2 DEF Remembers, CacheOf
  <2>4. Calls'
    <3> SUFFICES ASSUME NEW u \in Thread, NEW i \in DOMAIN stack[u], stack[u][i].path # "new"
                 PROVE  CallOf(stack[u][i], proxy'[stack[u][i].p], used[stack[u][i].p])
      BY <2>1 DEF Calls
    <3>1. PICK g, p : g = stack[u][i] /\ p = g.p
      OBVIOUS
    <3>2. p \in Proxy /\ CallOf(g, proxy[p], used[p])
      BY <1>0, <3>1 DEF CacheInv, Calls, TypeOK
    <3>3. CallOf(g, proxy'[p], used[p])
      BY <2>2, <3>2, CallKept
    <3> QED BY <3>1, <3>3
  <2> QED BY <1>0, <1>2, <2>1, <2>3, <2>4 DEF CacheInv
<1>14. ASSUME NEW t \in Thread, LookupNoClass(t) PROVE CacheInv'
  <2>1. At(t, "jni", "lookup") /\ Pop(t) /\ proxy' = proxy /\ used' = used /\ out' = NoResult
    BY <1>14 DEF LookupNoClass, Abort
  <2> QED BY <1>2, <1>6, <2>1 DEF At
<1>15. ASSUME NEW t \in Thread, LookupClass(t) PROVE CacheInv'
  <2>1. PICK s \in Slot, qx \in ProxyType : LookupStep(t, s, qx)
    BY <1>0, <1>15, LookupShape
  <2> QED BY <1>0, <2>1, CacheLookup
<1>16. ASSUME NEW t \in Thread, Dispatch(t) PROVE CacheInv'
  <2>1. PICK f \in FrameType : DispatchStep(t, f)
    BY <1>0, <1>16, DispatchShape
  <2>2. PICK g, p, px, U : g = Top(t) /\ p = g.p /\ px = proxy[p] /\ U = used[p]
    OBVIOUS
  <2>3. /\ stack[t] # <<>> /\ SetTop(t, f) /\ SameCall(f, g) /\ At(t, "jni", "pack") /\ f.pc = "callee"
        /\ f.id = px.id /\ proxy' = proxy /\ used' = used /\ out' = out
    BY <2>1, <2>2 DEF DispatchStep, Goes
  <2>4. CallOf(g, px, U) /\ Remembers(px, U) /\ g.path = "jni" /\ g.pc = "pack"
    BY <2>2, <2>3, TopCall DEF At
  <2>5. JniCall(g, px, U)
    BY <2>4 DEF CallOf
  <2>6. U = {g.sel} => px.id # NoMethod /\ px.id = IdFor(px, g.sel)
    BY <2>4, <2>5 DEF JniCall, Remembers, CacheOf
  <2>7. JniCall(f, px, U)
    BY <2>3, <2>5, <2>6 DEF JniCall, SameCall
  <2>8. CallOf(f, proxy[f.p], used[f.p])
    BY <2>2, <2>3, <2>4, <2>7 DEF CallOf, SameCall
  <2> QED BY <1>0, <1>2, <1>3, <2>3, <2>8, CacheStep
<1>17. ASSUME NEW t \in Thread, Return(t) \/ Throw(t) PROVE CacheInv'
  <2>1. PICK f \in FrameType : ReturnStep(t, f) \/ ThrowStep(t, f)
    BY <1>0, <1>17, ReturnShape, ExceptionShapes
  <2>2. /\ Goes(t, f) /\ f.id = Top(t).id /\ Top(t).pc = "callee" /\ f.pc \in {"decode", "check"}
        /\ JavaEnds(t) /\ used' = used /\ out' = out
    BY <2>1 DEF ReturnStep, ThrowStep, SameUse, At
  <2> QED BY <1>7, <2>2
<1>18. ASSUME NEW t \in Thread, Check(t) PROVE CacheInv'
  <2>1. PICK f \in FrameType : CheckStep(t, f)
    BY <1>0, <1>18, ExceptionShapes
  <2>2. /\ Goes(t, f) /\ f.id = Top(t).id /\ Top(t).pc = "check" /\ f.pc = "toString"
        /\ proxy' = proxy /\ used' = used /\ out' = out
    BY <2>1 DEF CheckStep, SameUse, At
  <2> QED BY <1>7, <2>2
<1>19. ASSUME NEW t \in Thread, DescribeThrowable(t) PROVE CacheInv'
  <2>1. PICK f \in FrameType : DescribeStep(t, f)
    BY <1>0, <1>19, ExceptionShapes
  <2>2. /\ Goes(t, f) /\ f.id = Top(t).id /\ Top(t).pc = "toString" /\ f.pc = "decode"
        /\ JavaEnds(t) /\ used' = used /\ out' = out
    BY <2>1 DEF DescribeStep, SameUse, At
  <2> QED BY <1>7, <2>2
<1>20. ASSUME NEW t \in Thread, Decode(t) PROVE CacheInv'
  <2>1. At(t, "jni", "decode") /\ Pop(t) /\ proxy' = proxy /\ used' = used
    BY <1>0, <1>20, EndShapes DEF DecodeStep
  <2> QED BY <1>6, <1>20, <2>1, CacheDecode DEF At
<1>21. ASSUME NEW t \in Thread, StubReturn(t) \/ StubThrow(t) PROVE CacheInv'
  <2>1. At(t, "stub", "callee") /\ Pop(t) /\ proxy' = proxy /\ used' = used
    BY <1>0, <1>21, EndShapes DEF StubEndStep
  <2>2. PICK null \in BOOLEAN : LeaveStub(t, null)
    BY <1>21 DEF StubReturn, StubThrow
  <2> QED BY <1>6, <2>1, <2>2, CacheStub DEF At
<1>22. ASSUME NEW t \in Thread, NEW thrown \in BOOLEAN, NewObject(t, thrown) PROVE CacheInv'
  <2>1. NewEndStep(t)
    BY <1>0, <1>22, EndShapes
  <2>2. At(t, "new", "callee") /\ Pop(t) /\ JavaEnds(t) /\ used' = used /\ out' = NoResult
    BY <2>1 DEF NewEndStep
  <2> QED BY <1>2, <1>6, <2>2 DEF At
<1>23. CASE UNCHANGED vars
  BY <1>0, <1>2, <1>23 DEF vars, CacheInv, Calls, Caches
<1> QED BY <1>8, <1>9, <1>10, <1>11, <1>12, <1>13, <1>14, <1>15, <1>16, <1>17, <1>18, <1>19, <1>20,
           <1>21, <1>22, <1>23 DEF Next

LEMMA InitCache == Init => CacheInv
<1> SUFFICES ASSUME Init PROVE CacheInv
  OBVIOUS
<1>1. \A p \in Proxy : used[p] = {} /\ proxy[p].ret = "" /\ proxy[p].id = NoMethod
  BY DEF Init, NoProxy, NewProxy
<1>2. Caches
  BY <1>1, FS_EmptySet DEF Caches, Remembers
<1>3. \A t \in Thread : DOMAIN stack[t] = {}
  BY DEF Init
<1>4. Calls
  BY <1>3 DEF Calls
<1>5. ResultRight
  BY DEF Init, ResultRight, NoResult
<1> QED BY <1>2, <1>4, <1>5, InitType DEF CacheInv

LEMMA CacheImplies == CacheInv => RightMethod
<1> SUFFICES ASSUME CacheInv, NEW t \in Thread, NEW i \in DOMAIN stack[t], NEW f, f = stack[t][i],
                    Running(f), f.path = "jni" => Cardinality(used[f.p]) = 1
             PROVE  Selected(f)
  BY DEF RightMethod
<1>1. TypeOK /\ Stacks
  BY DEF CacheInv, TypeOK, Stacks
<1>2. f \in FrameType /\ f.path # "new" /\ f.pc \in {"callee", "hook", "check", "toString", "decode"}
  BY <1>1, StackType DEF Running
<1>3. f.p \in Proxy /\ proxy[f.p].method # NoMethod
  BY <1>1, <1>2 DEF TypeOK
<1>4. PICK px, U : px = proxy[f.p] /\ U = used[f.p]
  OBVIOUS
<1>5. Bound(px)
  BY <1>1, <1>3, <1>4, ProxyBound
<1>6. CallOf(f, px, U) /\ Remembers(px, U)
  BY <1>2, <1>3, <1>4 DEF CacheInv, Calls, Caches
<1>7. f.sel = ResolveCompatible(px, f.args)
  BY <1>2, <1>6 DEF CallOf, JniCall, FrameType
<1>8. /\ f.sel \in DOMAIN Method
      /\ HasOverload(f) => SignatureMatches(Method[f.sel].params, f.args)
  BY <1>4, <1>5, <1>7, Resolved DEF HasOverload
<1>9. f.id \in DOMAIN Method /\ Signature(f.id) = Signature(f.sel)
  <2>1. CASE f.path = "stub"
    BY <1>6, <1>8, <2>1 DEF CallOf
  <2>2. CASE f.path = "jni"
    <3>1. JniCall(f, px, U)
      BY <1>6, <2>2 DEF CallOf
    <3>2. IsFiniteSet(U) /\ f.sel \in U /\ Cardinality(U) = 1
      BY <1>4, <1>6, <2>2, <3>1 DEF Remembers, JniCall
    <3>3. U = {f.sel}
      BY <3>2, FS_Singleton
    <3>4. f.id # NoMethod /\ f.id = IdFor(px, f.sel)
      BY <1>2, <3>1, <3>3 DEF JniCall
    <3> QED BY <1>5, <3>4, IdForIn
  <2> QED BY <1>2, <2>1, <2>2 DEF FrameType
<1>10. Method[f.id].params = Method[f.sel].params /\ f.id # NoMethod
  BY <1>9, MethodCallAssumption DEF Signature
<1> QED BY <1>8, <1>9, <1>10 DEF Selected

\* The caches of a method_proxy that threads and nested calls share: as long as its uses
\* select one overload, every call through it runs that overload, and one that takes the
\* arguments if the class has one; a call through the stub always does.
THEOREM RightOverload == Spec => []RightMethod
<1> QED BY InitCache, NextCache, CacheImplies, PTL DEF Spec

\* What value_t holds after call() is what the called method returns, decoded by its own
\* return type and not by one that another call left in the caches of the proxy.
THEOREM RightResult == Spec => []ResultRight
<1>1. CacheInv => ResultRight
  BY DEF CacheInv
<1> QED BY <1>1, InitCache, NextCache, PTL DEF Spec
=============================================================================
