----------------------------- MODULE MethodCall -----------------------------
(***************************************************************************)
(* Calls from native code into Java: get_method() makes a method_proxy,    *)
(* method_proxy::call() goes through HotSpot's call stub where the JVM     *)
(* exports it and through JNI (call_jni) elsewhere, and jni_make_unique()  *)
(* runs a constructor.                                                     *)
(*                                                                         *)
(* The callee is Java code (external): it returns or throws, and a hook in *)
(* it may call through the same proxies again on the same thread.  Proxies *)
(* may be shared by threads; their caches are plain mutable members.       *)
(*                                                                         *)
(* A method is named by its record's index in Method; a type is a          *)
(* descriptor such as "I" or "Foo" for LFoo;.  JNI local references are    *)
(* slots of the thread that a later reference uses again.                  *)
(***************************************************************************)
EXTENDS Integers, Sequences, FiniteSets

CONSTANTS
    Thread,      \* attached threads
    Proxy,       \* variables of the client that hold a method_proxy
    Method,      \* the methods: name, params, ret, static, klass (the holder)
    Walk,        \* for each class its methods and those of its superclasses, in order
    Lookup,      \* what get_method() is asked for: klass, static, name, sig
    Made,        \* the classes that jni_make_unique() is asked for
    Argument,    \* sequences of C++ argument types that the client passes
    NoMethod,    \* null
    MaxCalls,    \* bound: calls in progress, nested ones included
    MaxRefs      \* bound: local references of a thread

\* The descriptor that each C++ argument type stands for.
Descriptor == [bool |-> "Z", char16 |-> "C", int8 |-> "B", int16 |-> "S", int32 |-> "I",
               int64 |-> "J", float |-> "F", double |-> "D", string |-> "String",
               wrapper |-> "Foo"]

ArgType == DOMAIN Descriptor \cup {"stranger"}

\* Descriptors of objects, and the others that a method may return.
Reference == {"String", "Foo", "Object"}
Primitive == {"Z", "C", "B", "S", "I", "J", "F", "D", "V"}

\* get_method() by name alone.
AnySig == <<"any">>

MethodType == [name : STRING, params : Seq(STRING), ret : Reference \cup Primitive,
               static : BOOLEAN, klass : DOMAIN Walk]

ASSUME MethodCallAssumption ==
    /\ \A m \in DOMAIN Method : Method[m] \in MethodType
    /\ NoMethod \notin DOMAIN Method
    /\ \A k \in DOMAIN Walk : Walk[k] \in Seq(DOMAIN Method)
    /\ \A q \in Lookup : q.klass \in DOMAIN Walk /\ q.static \in BOOLEAN
    /\ Made \subseteq DOMAIN Walk
    /\ \A a \in Argument : a \in Seq(ArgType)
    /\ MaxCalls \in Nat /\ MaxRefs \in Nat

VARIABLES
    stub,      \* StubRoutines::_call_stub_entry is exported by this JVM
    proxy,     \* the proxies with their caches
    stack,     \* the calls each thread is in, the innermost one last
    refs,      \* the local references of each thread: kind, and block they die with
    pending,   \* where the pending exception of the thread comes from
    state,     \* _thread_state: in Java or in native code
    used,      \* the methods that call_jni() selected for each proxy (history)
    out        \* the last result, if its proxy has selected one method only (history)

vars == <<stub, proxy, stack, refs, pending, state, used, out>>

\* A jclass: a local reference of a thread.  A JNI call into Java opens a block of local
\* references and frees it on return; block 0 marks a reference whose block is gone.
Handle(t, slot, block) == [thread |-> t, slot |-> slot, block |-> block]
NoHandle == Handle("none", 0, 0)

Free == [kind |-> "free", block |-> 0]

\* A fresh proxy, its four caches empty.
NewProxy(m, klass, static, pinned) ==
    [method |-> m, klass |-> klass, static |-> static, pinned |-> pinned,
     id |-> NoMethod, class |-> NoHandle, ret |-> "", effective |-> NoMethod]

NoProxy == NewProxy(NoMethod, "none", FALSE, FALSE)

\* A call: how it goes (path), its proxy and arguments; then the selected method,
\* whether effective_signature refers to the proxy's cache, the return type, the
\* method and the jclass given to JNI, the references it holds, and what Java code
\* it runs when a hook interrupts it.
Frame(path, p, args) ==
    [pc |-> "callee", path |-> path, p |-> p, args |-> args, sel |-> NoMethod, byref |-> FALSE,
     ret |-> "", id |-> NoMethod, class |-> NoHandle, strings |-> {}, result |-> 0,
     thrown |-> {}, saved |-> "native", resume |-> "callee"]

NoResult == [value |-> "none", of |-> NoMethod]

Init ==
    /\ stub \in BOOLEAN
    /\ proxy = [p \in Proxy |-> NoProxy]
    /\ stack = [t \in Thread |-> <<>>]
    /\ refs = [t \in Thread |-> [s \in 1..MaxRefs |-> Free]]
    /\ pending = [t \in Thread |-> "none"]
    /\ state = [t \in Thread |-> "native"]
    /\ used = [p \in Proxy |-> {}]
    /\ out = NoResult

-----------------------------------------------------------------------------
(* Overloads.                                                              *)

\* argument_matches_descriptor(): a wrapper whose class is not registered matches
\* every object type.
ArgumentMatches(a, d) == IF a = "stranger" THEN d \in Reference ELSE d = Descriptor[a]

\* signature_matches_arguments(): one descriptor for each argument and none left.
SignatureMatches(params, args) ==
    /\ Len(params) = Len(args)
    /\ \A i \in DOMAIN args : ArgumentMatches(args[i], params[i])

\* The first method of the walk that is in S.
FirstOf(k, S) ==
    LET hits == {i \in DOMAIN Walk[k] : Walk[k][i] \in S} IN
    IF hits = {} THEN NoMethod
    ELSE Walk[k][CHOOSE i \in hits : \A j \in hits : i <= j]

\* A descriptor: the parameters and the return type.
Signature(m) == <<Method[m].params, Method[m].ret>>

Named(name) == {m \in DOMAIN Method : Method[m].name = name}

Compatible(name, args) == {m \in Named(name) : SignatureMatches(Method[m].params, args)}

\* Where resolve_compatible_method() looks: the class of the receiver, or the holder.
SearchKlass(px) == IF px.static THEN Method[px.method].klass ELSE px.klass

\* resolve_compatible_method().
ResolveCompatible(px, args) ==
    LET own == Method[px.method]
        hit == FirstOf(SearchKlass(px), Compatible(own.name, args)) IN
    IF px.pinned \/ SignatureMatches(own.params, args) \/ hit = NoMethod THEN px.method ELSE hit

-----------------------------------------------------------------------------
(* get_method().                                                           *)

\* By name the first one of the walk; by name and signature exactly that one.
Wanted(q) == {m \in Named(q.name) : q.sig \in {AnySig, Signature(m)}}

InUse(p) == \E t \in Thread : \E i \in DOMAIN stack[t] :
               stack[t][i].path # "new" /\ stack[t][i].p = p

GetMethod(p, q) ==
    LET m == FirstOf(q.klass, Wanted(q)) IN
    /\ ~ InUse(p)
    /\ m # NoMethod
    /\ proxy' = [proxy EXCEPT ![p] = NewProxy(m, q.klass, q.static, q.sig # AnySig)]
    /\ used' = [used EXCEPT ![p] = {}]
    /\ UNCHANGED <<stub, stack, refs, pending, state, out>>

-----------------------------------------------------------------------------
(* Local references.                                                       *)

Top(t) == stack[t][Len(stack[t])]
At(t, path, pc) == stack[t] # <<>> /\ Top(t).path = path /\ Top(t).pc = pc
SetTop(t, f) == stack' = [stack EXCEPT ![t][Len(stack[t])] = f]
Pop(t) == stack' = [stack EXCEPT ![t] = SubSeq(@, 1, Len(@) - 1)]

\* The block in which thread t makes references: JNI calls that are in Java, and its own.
Block(t) ==
    1 + Cardinality({i \in DOMAIN stack[t] : stack[t][i].path # "stub"
                                             /\ stack[t][i].pc \in {"callee", "toString", "hook"}})

\* The n lowest free slots of R: the ones that the next references take.
FreeSlots(R) == {s \in DOMAIN R : R[s] = Free}
NextSlots(R, n) == {s \in FreeSlots(R) : Cardinality({u \in FreeSlots(R) : u < s}) < n}

\* The references R with the slots S taken in block b, and given back by DeleteLocalRef().
Take(R, S, kind, b) == [s \in DOMAIN R |-> IF s \in S THEN [kind |-> kind, block |-> b] ELSE R[s]]
Delete(R, S) == [s \in DOMAIN R |-> IF s \in S THEN Free ELSE R[s]]

\* The references of t once the block that its JNI call opened is freed.
Closed(t) == Delete(refs[t], {s \in 1..MaxRefs : refs[t][s].block = Block(t)})

\* What a call holds when it ends.
Held(f) == f.strings \cup f.thrown \cup (IF f.result = 0 THEN {} ELSE {f.result})

\* A jclass of thread t in block b dies with it; the proxy that caches it is not told.
Dangling(t, b) ==
    [p \in Proxy |-> IF proxy[p].class.thread = t /\ proxy[p].class.block = b
                     THEN [proxy[p] EXCEPT !.class.block = 0] ELSE proxy[p]]

\* NewStringUTF() makes one reference for each string argument.
Strings(args) == Cardinality({i \in DOMAIN args : args[i] = "string"})

-----------------------------------------------------------------------------
(* A call begins.                                                          *)

\* Native code of the client runs on t: outside of Java, or in a hook.
Ready(t) == stack[t] # <<>> => Top(t).pc = "hook"

MoreCalls == Cardinality(UNION {{t} \X DOMAIN stack[t] : t \in Thread}) < MaxCalls

\* Bound: a call takes at most one class, its strings, a result and a throwable with its class.
Bounded(t, args) ==
    /\ MoreCalls
    /\ Cardinality(FreeSlots(refs[t])) >= 4 + Strings(args)

\* method_proxy::call() with the call stub, or the JNI fallback.
MayCall(t, p, args) ==
    /\ Ready(t) /\ Bounded(t, args)
    /\ proxy[p].method # NoMethod

Push(t, f) == stack' = [stack EXCEPT ![t] = Append(@, f)]

\* A hooked method is entered from the Java code that t runs.
EnterHook(t) ==
    /\ stack[t] # <<>> /\ Top(t).pc \in {"callee", "toString"}
    /\ MoreCalls
    /\ SetTop(t, [Top(t) EXCEPT !.pc = "hook", !.resume = Top(t).pc])
    /\ UNCHANGED <<stub, proxy, refs, pending, state, used, out>>

LeaveHook_StateLeft(t) ==
    /\ stack[t] # <<>> /\ Top(t).pc = "hook"
    /\ SetTop(t, [Top(t) EXCEPT !.pc = Top(t).resume])
    /\ UNCHANGED <<stub, proxy, refs, pending, state, used, out>>

\* The detour returns: common_detour() puts the thread back in Java.
LeaveHook(t) ==
    /\ stack[t] # <<>> /\ Top(t).pc = "hook"
    /\ SetTop(t, [Top(t) EXCEPT !.pc = Top(t).resume])
    /\ state' = [state EXCEPT ![t] = "java"]
    /\ UNCHANGED <<stub, proxy, refs, pending, used, out>>

\* The native code around t returns to the JVM, which frees its references and throws.
FrameEnd(t) ==
    /\ stack[t] = <<>>
    /\ refs' = [refs EXCEPT ![t] = [s \in 1..MaxRefs |-> Free]]
    /\ proxy' = Dangling(t, 1)
    /\ pending' = [pending EXCEPT ![t] = "none"]
    /\ UNCHANGED <<stub, stack, state, used, out>>

-----------------------------------------------------------------------------
(* call_jni().                                                             *)

RetChar(m) == IF Method[m].ret \in Reference THEN "L" ELSE Method[m].ret

\* The method whose descriptor effective_signature holds, now.
Effective(f) == IF f.byref THEN proxy[f.p].effective ELSE proxy[f.p].method

CallJni_OwnSignature(t, p, args) ==
    LET px == proxy[p]
        sel == ResolveCompatible(px, args)
        ret == IF px.ret = "" THEN RetChar(px.method) ELSE px.ret IN
    /\ ~ stub /\ MayCall(t, p, args)
    /\ proxy' = [proxy EXCEPT ![p].ret = ret]
    /\ Push(t, [Frame("jni", p, args) EXCEPT !.sel = sel, !.ret = ret,
                    !.pc = IF px.id = NoMethod THEN "lookup" ELSE "pack"])
    /\ used' = [used EXCEPT ![p] = @ \cup {sel}]
    /\ UNCHANGED <<stub, refs, pending, state, out>>

CallJni_OwnReturn(t, p, args) ==
    LET px == proxy[p]
        sel == ResolveCompatible(px, args)
        byref == sel # px.method
        ret == IF px.ret = "" THEN RetChar(px.method) ELSE px.ret IN
    /\ ~ stub /\ MayCall(t, p, args)
    /\ proxy' = [proxy EXCEPT ![p].effective = IF byref THEN sel ELSE @, ![p].ret = ret]
    /\ Push(t, [Frame("jni", p, args) EXCEPT !.sel = sel, !.byref = byref, !.ret = ret,
                    !.pc = IF px.id = NoMethod THEN "lookup" ELSE "pack"])
    /\ used' = [used EXCEPT ![p] = @ \cup {sel}]
    /\ UNCHANGED <<stub, refs, pending, state, out>>

\* The overload for the arguments, its descriptor and the return type; a cached
\* jmethodID saves the lookup.
CallJni(t, p, args) ==
    LET px == proxy[p]
        sel == ResolveCompatible(px, args)
        byref == sel # px.method
        ret == IF px.ret = "" THEN RetChar(sel) ELSE px.ret IN
    /\ ~ stub /\ MayCall(t, p, args)
    /\ proxy' = [proxy EXCEPT ![p].effective = IF byref THEN sel ELSE @, ![p].ret = ret]
    /\ Push(t, [Frame("jni", p, args) EXCEPT !.sel = sel, !.byref = byref, !.ret = ret,
                    !.pc = IF px.id = NoMethod THEN "lookup" ELSE "pack"])
    /\ used' = [used EXCEPT ![p] = @ \cup {sel}]
    /\ UNCHANGED <<stub, refs, pending, state, out>>

\* The call returns no value.
Abort(t) ==
    /\ Pop(t)
    /\ out' = NoResult

\* FindClass() does not see the holder from here; its exception stays.
LookupNoClass(t) ==
    /\ At(t, "jni", "lookup") /\ proxy[Top(t).p].static
    /\ pending' = [pending EXCEPT ![t] = "class"]
    /\ Abort(t)
    /\ UNCHANGED <<stub, proxy, refs, state, used>>

\* What GetMethodID() or GetStaticMethodID() finds.
MethodId(f) ==
    LET px == proxy[f.p] IN
    FirstOf(SearchKlass(px), {m \in Named(Method[px.method].name) :
        Signature(m) = Signature(Effective(f)) /\ Method[m].static = px.static})

\* The jclass and the jmethodID go to the caches; GetMethodID() clears what was pending,
\* a failure clears what it throws.
LookupClass(t) ==
    LET f == Top(t)
        id == MethodId(f) IN
    /\ At(t, "jni", "lookup")
    /\ \E s \in NextSlots(refs[t], 1) :
          /\ refs' = [refs EXCEPT ![t] = Take(@, {s}, "class", Block(t))]
          /\ proxy' = [proxy EXCEPT ![f.p].id = id, ![f.p].class = Handle(t, s, Block(t))]
    /\ pending' = [pending EXCEPT ![t] =
                        IF id = NoMethod \/ ~ proxy[f.p].static THEN "none" ELSE @]
    /\ \/ id = NoMethod /\ Abort(t)
       \/ id # NoMethod /\ SetTop(t, [f EXCEPT !.pc = "pack"]) /\ UNCHANGED out
    /\ UNCHANGED <<stub, state, used>>

\* Arguments are packed, the caches are read and Java is called.
Dispatch(t) ==
    LET f == Top(t)
        slots == NextSlots(refs[t], Strings(f.args)) IN
    /\ At(t, "jni", "pack")
    /\ refs' = [refs EXCEPT ![t] = Take(@, slots, "string", Block(t))]
    /\ SetTop(t, [f EXCEPT !.pc = "callee", !.strings = slots,
                           !.id = proxy[f.p].id, !.class = proxy[f.p].class])
    /\ state' = [state EXCEPT ![t] = "java"]
    /\ UNCHANGED <<stub, proxy, pending, used, out>>

\* The Java code that t called over JNI ends: its block is freed, the thread is in native code.
JavaEnds(t) ==
    /\ proxy' = Dangling(t, Block(t))
    /\ state' = [state EXCEPT ![t] = "native"]

\* The callee returns null, a primitive or, to CallObjectMethodA(), an object.  An older
\* exception of the thread is then taken for one of the callee.
Return(t) ==
    LET f == Top(t)
        open == Closed(t) IN
    /\ At(t, "jni", "callee")
    /\ JavaEnds(t)
    /\ \E slots \in {{}} \cup (IF f.ret = "L" THEN {NextSlots(open, 1)} ELSE {}) :
          /\ refs' = [refs EXCEPT ![t] = Take(open, slots, "result", Block(t) - 1)]
          /\ SetTop(t, [f EXCEPT !.pc = IF pending[t] = "none" THEN "decode" ELSE "check",
                                 !.result = IF slots = {} THEN 0 ELSE CHOOSE s \in slots : TRUE])
    /\ UNCHANGED <<stub, pending, used, out>>

Throw(t) ==
    /\ At(t, "jni", "callee")
    /\ JavaEnds(t)
    /\ refs' = [refs EXCEPT ![t] = Closed(t)]
    /\ pending' = [pending EXCEPT ![t] = "callee"]
    /\ SetTop(t, [Top(t) EXCEPT !.pc = "check"])
    /\ UNCHANGED <<stub, used, out>>

\* check_callee_exception(): ExceptionOccurred(), ExceptionDescribe() which clears, the
\* throwable's class, and a call of its toString().
Check(t) ==
    LET slots == NextSlots(refs[t], 2) IN
    /\ At(t, "jni", "check")
    /\ refs' = [refs EXCEPT ![t] = Take(@, slots, "thrown", Block(t))]
    /\ pending' = [pending EXCEPT ![t] = "none"]
    /\ SetTop(t, [Top(t) EXCEPT !.pc = "toString", !.thrown = slots])
    /\ state' = [state EXCEPT ![t] = "java"]
    /\ UNCHANGED <<stub, proxy, used, out>>

DescribeThrowable_Kept(t) ==
    /\ At(t, "jni", "toString")
    /\ JavaEnds(t)
    /\ refs' = [refs EXCEPT ![t] = Closed(t)]
    /\ SetTop(t, [Top(t) EXCEPT !.pc = "decode", !.thrown = {}])
    /\ UNCHANGED <<stub, pending, used, out>>

\* toString() returns or throws, which is cleared; the references are given back.
DescribeThrowable(t) ==
    LET f == Top(t) IN
    /\ At(t, "jni", "toString")
    /\ JavaEnds(t)
    /\ refs' = [refs EXCEPT ![t] = Delete(Closed(t), f.thrown)]
    /\ SetTop(t, [f EXCEPT !.pc = "decode", !.thrown = {}])
    /\ UNCHANGED <<stub, pending, used, out>>

\* What value_t holds: a Java String is copied, another object is a compressed oop.
Value(f) ==
    IF f.ret # "L" THEN f.ret
    ELSE IF Method[Effective(f)].ret = "String" THEN "string"
    ELSE IF f.result = 0 THEN "V" ELSE "oop"

\* The result is decoded and every reference of the call given back.
Decode(t) ==
    LET f == Top(t) IN
    /\ At(t, "jni", "decode")
    /\ refs' = [refs EXCEPT ![t] = Delete(@, Held(f))]
    /\ out' = IF Cardinality(used[f.p]) = 1 THEN [value |-> Value(f), of |-> f.id] ELSE NoResult
    /\ Pop(t)
    /\ UNCHANGED <<stub, proxy, pending, state, used>>

-----------------------------------------------------------------------------
(* The call stub.                                                          *)

\* The thread is marked as in Java and the stub enters the selected method.
CallStub(t, p, args) ==
    LET sel == ResolveCompatible(proxy[p], args) IN
    /\ stub /\ MayCall(t, p, args)
    /\ Push(t, [Frame("stub", p, args) EXCEPT !.sel = sel, !.id = sel,
                    !.ret = RetChar(sel), !.saved = state[t]])
    /\ state' = [state EXCEPT ![t] = "java"]
    /\ UNCHANGED <<stub, proxy, refs, pending, used, out>>

\* The stub returns; a null result has no value.
LeaveStub(t, null) ==
    LET f == Top(t)
        ret == Method[f.sel].ret IN
    /\ At(t, "stub", "callee")
    /\ state' = [state EXCEPT ![t] = f.saved]
    /\ out' = [value |-> IF ret \notin Reference THEN ret
                         ELSE IF null THEN "V"
                         ELSE IF ret = "String" THEN "string" ELSE "oop",
               of |-> f.id]
    /\ Pop(t)
    /\ UNCHANGED <<stub, proxy, refs, used>>

StubReturn(t) ==
    /\ \E null \in BOOLEAN : LeaveStub(t, null)
    /\ UNCHANGED pending

\* Nothing looks for an exception of the callee.
StubThrow(t) ==
    /\ LeaveStub(t, TRUE)
    /\ pending' = [pending EXCEPT ![t] = "stub"]

-----------------------------------------------------------------------------
(* jni_make_unique().                                                      *)

\* jni_signature_for_arg(): a wrapper whose class is not registered counts as an Object.
SignatureForArg(a) == IF a = "stranger" THEN "Object" ELSE Descriptor[a]

\* The constructor whose descriptor is built from the arguments.
Constructor(klass, args) ==
    FirstOf(klass, {m \in Named("<init>") :
        /\ Method[m].klass = klass
        /\ Signature(m) = <<[i \in DOMAIN args |-> SignatureForArg(args[i])], "V">>})

\* Strings are packed, GetMethodID() clears what was pending; without a constructor the
\* strings are given back.
MakeUnique(t, klass, args) ==
    LET slots == NextSlots(refs[t], Strings(args))
        id == Constructor(klass, args) IN
    /\ Ready(t) /\ Bounded(t, args)
    /\ pending' = [pending EXCEPT ![t] = "none"]
    /\ \/ /\ id = NoMethod
          /\ out' = NoResult
          /\ UNCHANGED <<stack, refs, state>>
       \/ /\ id # NoMethod
          /\ refs' = [refs EXCEPT ![t] = Take(@, slots, "string", Block(t))]
          /\ Push(t, [Frame("new", klass, args) EXCEPT !.id = id, !.sel = id,
                                                       !.strings = slots])
          /\ state' = [state EXCEPT ![t] = "java"]
          /\ UNCHANGED out
    /\ UNCHANGED <<stub, proxy, used>>

\* NewObjectA() returns: the object's reference is decoded and given back with the strings.
\* A constructor that throws leaves its exception.
NewObject(t, thrown) ==
    LET f == Top(t) IN
    /\ At(t, "new", "callee")
    /\ JavaEnds(t)
    /\ refs' = [refs EXCEPT ![t] = Delete(Closed(t), Held(f))]
    /\ pending' = IF thrown THEN [pending EXCEPT ![t] = "constructor"] ELSE pending
    /\ out' = NoResult
    /\ Pop(t)
    /\ UNCHANGED <<stub, used>>

-----------------------------------------------------------------------------
Next ==
    \/ \E p \in Proxy, q \in Lookup : GetMethod(p, q)
    \/ \E t \in Thread :
        \/ \E p \in Proxy, args \in Argument : CallJni(t, p, args) \/ CallStub(t, p, args)
        \/ \E klass \in Made, args \in Argument : MakeUnique(t, klass, args)
        \/ EnterHook(t) \/ LeaveHook(t) \/ FrameEnd(t)
        \/ LookupNoClass(t) \/ LookupClass(t) \/ Dispatch(t)
        \/ Return(t) \/ Throw(t) \/ Check(t) \/ DescribeThrowable(t) \/ Decode(t)
        \/ StubReturn(t) \/ StubThrow(t)
        \/ \E thrown \in BOOLEAN : NewObject(t, thrown)

Spec == Init /\ [][Next]_vars

-----------------------------------------------------------------------------
(* Properties.                                                             *)

\* The references made for string arguments, results and exceptions belong each to exactly
\* one call in progress, nested calls and throwing callees included; so a thread outside
\* of every call holds none but jclasses.  The jclass that a call passes as receiver is
\* live, unless the proxy got it on another thread or in a block that is gone.
RefsOwned ==
    \A t \in Thread :
        /\ \A s \in 1..MaxRefs :
              Cardinality({i \in DOMAIN stack[t] : s \in Held(stack[t][i])})
                  = (IF refs[t][s].kind \in {"free", "class"} THEN 0 ELSE 1)
        /\ \A i \in DOMAIN stack[t] :
              LET h == stack[t][i].class IN
              h.thread = t /\ h.block > 0 => refs[t][h.slot] = [kind |-> "class", block |-> h.block]

\* _thread_state is in Java whenever Java code runs below a call, also after a hook that
\* itself called into Java, and in native code once the thread has left every call; an
\* exception thrown by a callee of call_jni() is gone before any further code of the
\* client runs on the thread, the hooks that toString() reaches included.
ThreadSettled ==
    \A t \in Thread :
        /\ stack[t] = <<>> => state[t] = "native"
        /\ stack[t] # <<>> /\ Top(t).pc \in {"callee", "toString"} => state[t] = "java"
        /\ pending[t] = "callee" => At(t, "jni", "check")

\* The call that is running, or one below it, has an overload for its arguments.
HasOverload(f) ==
    ~ proxy[f.p].pinned
    /\ FirstOf(SearchKlass(proxy[f.p]), Compatible(Method[proxy[f.p].method].name, f.args)) # NoMethod

Running(f) == f.path # "new" /\ f.pc \in {"callee", "hook", "check", "toString", "decode"}

\* The method that runs is the selected overload, and takes the arguments that were passed
\* whenever the class has such an overload.
Selected(f) ==
    /\ f.id # NoMethod
    /\ Signature(f.id) = Signature(f.sel)
    /\ HasOverload(f) => SignatureMatches(Method[f.id].params, f.args)

\* As long as a proxy is used with arguments that select one overload, every call through
\* it runs that overload, whatever other calls share its caches.
RightMethod ==
    \A t \in Thread : \A i \in DOMAIN stack[t] :
        LET f == stack[t][i] IN
        Running(f) /\ (f.path = "jni" => Cardinality(used[f.p]) = 1) => Selected(f)

\* What the caller gets is what the called method returns: a primitive of its type, a copied
\* String, or the oop of another object, or nothing for null.
ResultRight ==
    LET ret == Method[out.of].ret IN
    out.of # NoMethod =>
        out.value \in (IF ret \notin Reference THEN {ret}
                       ELSE IF ret = "String" THEN {"string", "V"} ELSE {"oop", "V"})
=============================================================================
