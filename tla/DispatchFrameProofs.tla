------------------------ MODULE DispatchFrameProofs ------------------------
(***************************************************************************)
(* Theorems about DispatchFrame, for every set of methods, values, frame   *)
(* bases and limits: the detour sees the arguments that were passed, what  *)
(* it asks for happens, and a stack trace holds the callers.               *)
(***************************************************************************)
EXTENDS DispatchFrame, FiniteSetTheorems, SequenceTheorems, WellFoundedInduction, TLAPS

-----------------------------------------------------------------------------
(* Loops.                                                                  *)

\* A non-empty set of natural numbers has a least element.
LEMMA LeastNat ==
    ASSUME NEW S, S \subseteq Nat, S # {}
    PROVE  \E x \in S : \A y \in S : ~(y < x)
<1>1. PICK x \in S : \A y \in S : ~(<<y, x>> \in OpToRel(<, Nat))
  BY NatLessThanWellFounded, WFMin
<1> QED BY <1>1 DEF OpToRel

\* A loop of n rounds has a run: F[k] takes the state before round k to the one after it.
LEMMA LoopRuns ==
    ASSUME NEW S, NEW s0 \in S, NEW n \in Nat, NEW F \in [1..n -> [S -> S]]
    PROVE  \E f \in [0..n -> S] : f[0] = s0 /\ \A k \in 1..n : f[k] = F[k][f[k - 1]]
<1> DEFINE Runs(m) == \E f \in [0..m -> S] : f[0] = s0 /\ \A k \in 1..m : f[k] = F[k][f[k - 1]]
           Bad == {m \in 0..n : ~Runs(m)}
<1>1. SUFFICES ASSUME Bad # {} PROVE FALSE
  <2>1. n \in 0..n
    OBVIOUS
  <2>2. Bad = {} => Runs(n)
    BY <2>1
  <2> QED BY <2>2
<1>2. PICK x \in Bad : \A y \in Bad : ~(y < x)
  <2>1. Bad \subseteq Nat
    OBVIOUS
  <2> HIDE DEF Bad
  <2> QED BY <1>1, <2>1, LeastNat
<1>3. x # 0
  <2>1. SUFFICES ASSUME x = 0 PROVE Runs(0)
    BY <1>2
  <2> DEFINE f == [k \in 0..0 |-> s0]
  <2>2. f \in [0..0 -> S] /\ f[0] = s0 /\ \A k \in 1..0 : f[k] = F[k][f[k - 1]]
    OBVIOUS
  <2> QED BY <2>2
<1>4. x \in 1..n /\ x - 1 \in 0..n /\ x - 1 < x
  BY <1>2, <1>3
<1>5. Runs(x - 1)
  BY <1>2, <1>4
<1>6. PICK f \in [0..(x - 1) -> S] : f[0] = s0 /\ \A k \in 1..(x - 1) : f[k] = F[k][f[k - 1]]
  BY <1>5
<1>7. Runs(x)
  <2> DEFINE g == [k \in 0..x |-> IF k < x THEN f[k] ELSE F[x][f[x - 1]]]
  <2>1. f[x - 1] \in S
    BY <1>4, <1>6
  <2>2. F[x][f[x - 1]] \in S
    BY <1>4, <2>1
  <2>3. \A k \in 0..x : k < x => k \in 0..(x - 1)
    BY <1>4
  <2>4. g \in [0..x -> S]
    BY <1>6, <2>2, <2>3
  <2>5. g[0] = s0
    BY <1>4, <1>6
  <2>6. ASSUME NEW k \in 1..x PROVE g[k] = F[k][g[k - 1]]
    <3>1. k \in 0..x /\ k - 1 \in 0..x /\ k - 1 < x
      BY <1>4
    <3>2. g[k - 1] = f[k - 1]
      BY <3>1
    <3>3. CASE k < x
      <4>1. g[k] = f[k] /\ k \in 1..(x - 1)
        BY <1>4, <3>1, <3>3
      <4> QED BY <1>6, <3>2, <4>1
    <3>4. CASE ~(k < x)
      <4>1. k = x
        BY <1>4, <3>4
      <4>2. g[x] = F[x][f[x - 1]]
        BY <3>1, <4>1
      <4> QED BY <3>2, <4>1, <4>2
    <3> QED BY <3>3, <3>4
  <2> HIDE DEF g
  <2> QED BY <2>4, <2>5, <2>6
<1> QED BY <1>2, <1>7

-----------------------------------------------------------------------------
(* Slots.                                                                  *)

\* The long and double arguments before argument i.
Wide(types, i) == {j \in 1..(i - 1) : types[j] = "J"}
WidthOf(type) == IF type = "J" THEN 2 ELSE 1

LEMMA WideFinite ==
    ASSUME NEW types, NEW i \in Nat \ {0}
    PROVE  /\ IsFiniteSet(Wide(types, i)) /\ Cardinality(Wide(types, i)) \in Nat
           /\ SlotOf(types, i) = (i - 1) + Cardinality(Wide(types, i))
           /\ SlotOf(types, i) \in Nat
<1>1. IsFiniteSet(1..(i - 1))
  BY FS_Interval
<1>2. Wide(types, i) \subseteq 1..(i - 1)
  BY DEF Wide
<1>3. IsFiniteSet(Wide(types, i))
  BY <1>1, <1>2, FS_Subset
<1>4. Cardinality(Wide(types, i)) \in Nat
  BY <1>3, FS_CardinalityType
<1>5. SlotOf(types, i) = (i - 1) + Cardinality(Wide(types, i))
  BY DEF SlotOf, Wide
<1> QED BY <1>3, <1>4, <1>5

\* The next argument lies behind this one.
LEMMA NextSlot ==
    ASSUME NEW types, NEW i \in Nat \ {0}
    PROVE  SlotOf(types, i + 1) = SlotOf(types, i) + WidthOf(types[i])
<1>1. /\ IsFiniteSet(Wide(types, i)) /\ Cardinality(Wide(types, i)) \in Nat
      /\ SlotOf(types, i) = (i - 1) + Cardinality(Wide(types, i))
  BY WideFinite
<1>2. i + 1 \in Nat \ {0} /\ (i + 1) - 1 = i
  OBVIOUS
<1>3. SlotOf(types, i + 1) = i + Cardinality(Wide(types, i + 1))
  BY <1>2, WideFinite
<1>4. i \notin Wide(types, i)
  BY DEF Wide
<1>5. CASE types[i] = "J"
  <2>1. Wide(types, i + 1) = Wide(types, i) \cup {i}
    BY <1>2, <1>5 DEF Wide
  <2>2. Cardinality(Wide(types, i) \cup {i}) = Cardinality(Wide(types, i)) + 1
    BY <1>1, <1>4, FS_AddElement
  <2> QED BY <1>1, <1>3, <1>5, <2>1, <2>2 DEF WidthOf
<1>6. CASE types[i] # "J"
  <2>1. Wide(types, i + 1) = Wide(types, i)
    BY <1>2, <1>6 DEF Wide
  <2> QED BY <1>1, <1>3, <1>6, <2>1 DEF WidthOf
<1> QED BY <1>5, <1>6

LEMMA LaterSlot ==
    ASSUME NEW types, NEW i \in Nat \ {0}, NEW j \in Nat, i < j
    PROVE  SlotOf(types, i) + WidthOf(types[i]) <= SlotOf(types, j)
<1>1. i + 1 \in Nat \ {0} /\ j \in Nat \ {0} /\ i + 1 <= j
  OBVIOUS
<1>2. Wide(types, i + 1) \subseteq Wide(types, j)
  BY <1>1 DEF Wide
<1>3. Cardinality(Wide(types, i + 1)) <= Cardinality(Wide(types, j))
  BY <1>1, <1>2, WideFinite, FS_Subset
<1>4. SlotOf(types, i + 1) = ((i + 1) - 1) + Cardinality(Wide(types, i + 1)) /\ Cardinality(Wide(types, i + 1)) \in Nat
  BY <1>1, WideFinite
<1>5. SlotOf(types, j) = (j - 1) + Cardinality(Wide(types, j)) /\ Cardinality(Wide(types, j)) \in Nat
  BY <1>1, WideFinite
<1>6. SlotOf(types, i + 1) <= SlotOf(types, j)
  BY <1>1, <1>3, <1>4, <1>5
<1> QED BY <1>6, NextSlot

\* java_slot_offsets computes the slots in which the interpreter puts the arguments.
LEMMA OffsetIsSlot ==
    ASSUME NEW types, NEW i \in Nat \ {0}
    PROVE  JavaSlotOffset(types, i) = SlotOf(types, i)
<1> DEFINE F == [k \in 1..i |-> SlotOf(types, k)]
           w == CHOOSE f : f = [k \in 1..i |-> IF k = 1 THEN 0 ELSE f[k - 1] + (IF types[k - 1] = "J" THEN 2 ELSE 1)]
<1>1. ASSUME NEW k \in 1..i
      PROVE  SlotOf(types, k) = IF k = 1 THEN 0 ELSE SlotOf(types, k - 1) + (IF types[k - 1] = "J" THEN 2 ELSE 1)
  <2>1. CASE k = 1
    <3>1. Wide(types, 1) = {}
      BY DEF Wide
    <3>2. SlotOf(types, 1) = (1 - 1) + Cardinality(Wide(types, 1))
      BY WideFinite
    <3>3. Cardinality({}) = 0
      BY FS_EmptySet
    <3> QED BY <2>1, <3>1, <3>2, <3>3
  <2>2. CASE k # 1
    <3>1. k - 1 \in Nat \ {0} /\ (k - 1) + 1 = k
      BY <2>2
    <3>2. SlotOf(types, (k - 1) + 1) = SlotOf(types, k - 1) + WidthOf(types[k - 1])
      BY <3>1, NextSlot
    <3> QED BY <2>2, <3>1, <3>2 DEF WidthOf
  <2> QED BY <2>1, <2>2
<1>2. F = [k \in 1..i |-> IF k = 1 THEN 0 ELSE F[k - 1] + (IF types[k - 1] = "J" THEN 2 ELSE 1)]
  <2>1. ASSUME NEW k \in 1..i, k # 1 PROVE F[k - 1] = SlotOf(types, k - 1)
    BY <2>1
  <2> QED BY <1>1, <2>1
<1>3. w = [k \in 1..i |-> IF k = 1 THEN 0 ELSE w[k - 1] + (IF types[k - 1] = "J" THEN 2 ELSE 1)]
  <2> HIDE DEF F
  <2>1. \E f : f = [k \in 1..i |-> IF k = 1 THEN 0 ELSE f[k - 1] + (IF types[k - 1] = "J" THEN 2 ELSE 1)]
    BY <1>2
  <2> QED BY <2>1
<1>4. JavaSlotOffset(types, i) = w[i]
  BY DEF JavaSlotOffset
<1> HIDE DEF w
<1>5. \A k \in 1..i : w[k] = SlotOf(types, k)
  <2> DEFINE S == {k \in 1..i : w[k] # SlotOf(types, k)}
  <2>1. SUFFICES ASSUME S # {} PROVE FALSE
    OBVIOUS
  <2>2. S \subseteq Nat
    OBVIOUS
  <2>3. PICK x \in S : \A y \in S : ~(y < x)
    <3> HIDE DEF S
    <3> QED BY <2>1, <2>2, LeastNat
  <2>4. x # 1
    BY <1>1, <1>3, <2>3
  <2>5. x \in 1..i /\ x - 1 \in 1..i /\ x - 1 < x
    BY <2>3, <2>4
  <2>6. w[x - 1] = SlotOf(types, x - 1)
    BY <2>3, <2>5
  <2>7. w[x] = w[x - 1] + (IF types[x - 1] = "J" THEN 2 ELSE 1)
    BY <1>3, <2>4, <2>5
  <2>8. w[x] = SlotOf(types, x)
    BY <1>1, <2>4, <2>5, <2>6, <2>7
  <2> QED BY <2>3, <2>8
<1> QED BY <1>4, <1>5

\* Every argument has its own slot among those of the method.
LEMMA ValueSlots ==
    ASSUME NEW types, types \in Seq({"I", "J", "L"})
    PROVE  /\ DOMAIN types = 1..Len(types) /\ Len(types) \in Nat /\ Slots(types) \in Nat
           /\ \A i \in DOMAIN types :
                 /\ SlotOf(types, i) \in Nat /\ SlotOf(types, i) < Slots(types)
                 /\ ValueSlot(types, i) \in 0..(Slots(types) - 1)
           /\ \A i, j \in DOMAIN types : ValueSlot(types, i) = ValueSlot(types, j) => i = j
<1>1. DOMAIN types = 1..Len(types) /\ Len(types) \in Nat
  BY LenProperties
<1>2. Slots(types) \in Nat /\ Slots(types) = SlotOf(types, Len(types) + 1)
  BY <1>1, WideFinite DEF Slots
<1>3. ASSUME NEW i \in DOMAIN types
      PROVE  /\ SlotOf(types, i) \in Nat
             /\ ValueSlot(types, i) \in Nat
             /\ SlotOf(types, i) <= ValueSlot(types, i)
             /\ ValueSlot(types, i) < SlotOf(types, i) + WidthOf(types[i])
  <2>1. SlotOf(types, i) \in Nat
    BY <1>1, WideFinite
  <2> QED BY <2>1 DEF ValueSlot, WidthOf
<1>4. ASSUME NEW i \in DOMAIN types
      PROVE  ValueSlot(types, i) \in 0..(Slots(types) - 1) /\ SlotOf(types, i) < Slots(types)
  <2>1. SlotOf(types, i) + WidthOf(types[i]) <= SlotOf(types, Len(types) + 1)
    BY <1>1, LaterSlot
  <2>2. WidthOf(types[i]) \in Nat
    BY DEF WidthOf
  <2> QED BY <1>2, <1>3, <2>1, <2>2
<1>5. ASSUME NEW i \in DOMAIN types, NEW j \in DOMAIN types, i < j
      PROVE  ValueSlot(types, i) # ValueSlot(types, j)
  <2>1. SlotOf(types, i) + WidthOf(types[i]) <= SlotOf(types, j)
    BY <1>1, <1>5, LaterSlot
  <2>2. WidthOf(types[i]) \in Nat
    BY DEF WidthOf
  <2>3. /\ SlotOf(types, i) \in Nat /\ SlotOf(types, j) \in Nat
        /\ ValueSlot(types, i) \in Nat /\ ValueSlot(types, j) \in Nat
        /\ ValueSlot(types, i) < SlotOf(types, i) + WidthOf(types[i])
        /\ SlotOf(types, j) <= ValueSlot(types, j)
    BY <1>3
  <2> QED BY <2>1, <2>2, <2>3
<1>6. ASSUME NEW i \in DOMAIN types, NEW j \in DOMAIN types, ValueSlot(types, i) = ValueSlot(types, j)
      PROVE  i = j
  <2>1. i \in Nat /\ j \in Nat
    BY <1>1
  <2> QED BY <1>5, <1>6, <2>1
<1> QED BY <1>1, <1>2, <1>3, <1>4, <1>6

\* The interpreter's layout: the value of argument i is in its slot.
LEMMA LaidOut ==
    ASSUME NEW types, types \in Seq({"I", "J", "L"}), NEW values
    PROVE  /\ DOMAIN LayOut(types, values) = 0..(Slots(types) - 1)
           /\ \A i \in DOMAIN types : LayOut(types, values)[ValueSlot(types, i)] = Cell(types[i], values[i])
<1>1. DOMAIN LayOut(types, values) = 0..(Slots(types) - 1)
  BY DEF LayOut
<1>2. ASSUME NEW i \in DOMAIN types
      PROVE  LayOut(types, values)[ValueSlot(types, i)] = Cell(types[i], values[i])
  <2>1. PICK s : s = ValueSlot(types, i)
    OBVIOUS
  <2>2. s \in 0..(Slots(types) - 1)
    BY <2>1, ValueSlots
  <2>3. \E j \in DOMAIN types : ValueSlot(types, j) = s
    BY <2>1
  <2>4. (CHOOSE j \in DOMAIN types : ValueSlot(types, j) = s) \in DOMAIN types
        /\ ValueSlot(types, (CHOOSE j \in DOMAIN types : ValueSlot(types, j) = s)) = s
    BY <2>3
  <2>5. (CHOOSE j \in DOMAIN types : ValueSlot(types, j) = s) = i
    BY <2>1, <2>4, ValueSlots
  <2>6. LayOut(types, values)[s] =
           LET j == CHOOSE j \in DOMAIN types : ValueSlot(types, j) = s IN Cell(types[j], values[j])
    BY <2>2, <2>3 DEF LayOut
  <2> QED BY <2>1, <2>5, <2>6
<1> QED BY <1>1, <1>2

\* "this" and the parameters, each of one of three types.
LEMMA KindType ==
    ASSUME NEW m \in Method, NEW i \in DOMAIN m.params
    PROVE  /\ Kind(m.params[i]) \in {"I", "J", "L"}
           /\ m.params[i] \in Seq({"I", "J", "L", "["}) /\ Len(m.params[i]) \in Nat \ {0}
           /\ DOMAIN m.params[i] = 1..Len(m.params[i])
           /\ m.params[i][1] \in {"I", "J", "L", "["} /\ Head(m.params[i]) = m.params[i][1]
           /\ \A k \in 1..Len(m.params[i]) : m.params[i][k] = "[" <=> k < Len(m.params[i])
<1> DEFINE d == m.params[i]
<1>1. m.params \in Seq(Seq({"I", "J", "L", "["})) /\ d # <<>>
      /\ \A k \in DOMAIN d : d[k] = "[" <=> k < Len(d)
  BY MethodAssumption
<1>2. d \in Seq({"I", "J", "L", "["})
  <2>1. i \in 1..Len(m.params)
    BY <1>1, LenProperties
  <2> QED BY <1>1, <2>1, ElementOfSeq
<1> HIDE DEF d
<1>3. Len(d) \in Nat \ {0} /\ DOMAIN d = 1..Len(d)
  BY <1>1, <1>2, EmptySeq, LenProperties
<1>4. d[1] \in {"I", "J", "L", "["} /\ Head(d) = d[1]
  <2>1. 1 \in 1..Len(d)
    BY <1>3
  <2> QED BY <1>2, <2>1, ElementOfSeq
<1>5. Kind(d) \in {"I", "J", "L"}
  BY <1>4 DEF Kind
<1> QED BY <1>1, <1>2, <1>3, <1>4, <1>5 DEF d

LEMMA TypesType ==
    ASSUME NEW m \in Method
    PROVE  /\ Types(m) \in Seq({"I", "J", "L"})
           /\ m.static => /\ DOMAIN Types(m) = DOMAIN m.params
                          /\ \A i \in DOMAIN m.params : Types(m)[i] = Kind(m.params[i])
<1> DEFINE K == {"I", "J", "L"}
           p == [i \in DOMAIN m.params |-> Kind(m.params[i])]
           h == IF m.static THEN <<>> ELSE <<"L">>
<1>1. DOMAIN m.params = 1..Len(m.params) /\ Len(m.params) \in Nat
  BY MethodAssumption, LenProperties
<1>2. p \in Seq(K)
  <2>1. \A i \in 1..Len(m.params) : Kind(m.params[i]) \in K
    BY <1>1, KindType
  <2>2. p = [i \in 1..Len(m.params) |-> Kind(m.params[i])]
    BY <1>1
  <2>3. p \in [1..Len(m.params) -> K]
    BY <2>1, <2>2
  <2> QED BY <1>1, <2>3, SeqDef
<1>3. h \in Seq(K)
  <2>1. <<>> \in Seq(K)
    BY EmptySeq
  <2>2. <<"L">> \in Seq(K)
    OBVIOUS
  <2> QED BY <2>1, <2>2
<1>4. Types(m) = h \o p
  BY DEF Types
<1>5. m.static => h = <<>>
  OBVIOUS
<1>6. /\ DOMAIN p = DOMAIN m.params
      /\ \A i \in DOMAIN m.params : p[i] = Kind(m.params[i])
  OBVIOUS
<1> HIDE DEF p, h, K
<1>7. Types(m) \in Seq(K)
  BY <1>2, <1>3, <1>4, ConcatProperties
<1>8. m.static => Types(m) = p
  BY <1>2, <1>4, <1>5, ConcatEmptySeq
<1> QED BY <1>6, <1>7, <1>8 DEF K

-----------------------------------------------------------------------------
(* What the detour asks for happens.                                       *)

\* The slots hold the arguments that the detour wants, those passed at first.
ArgsKept ==
    /\ method \in Method
    /\ passed \in Arguments(Types(method)) /\ wanted \in Arguments(Types(method))
    /\ DOMAIN locals = 0..(Slots(Types(method)) - 1)
    /\ "pointer" \notin mishap =>
          \A i \in DOMAIN Types(method) :
             ReadAs(Types(method)[i], locals[ValueSlot(Types(method), i)]) = Delivered[i]
    /\ \A i \in narrow : Types(method)[i] = "I"
    /\ pc = "call" => wanted = passed /\ narrow = {} /\ mishap = {}

\* The return slot says what the detour wants, and it is asked only at the end.
AnswerKept ==
    /\ slot.cancel \in BOOLEAN
    /\ ~slot.cancel => answer = Body /\ slot.retval = 0
    /\ slot.cancel => answer # Body /\ answer = Signed(slot.retval, IntBits)
    /\ bodySees # <<>> => pc = "returned"

CallInv == ArgsKept /\ AnswerKept /\ CallAnswered

LEMMA ArgumentsType ==
    ASSUME NEW types, types \in Seq({"I", "J", "L"}), NEW v \in Arguments(types)
    PROVE  /\ DOMAIN v = DOMAIN types
           /\ v = [i \in DOMAIN types |-> v[i]]
           /\ \A i \in DOMAIN types : v[i] \in Values(types[i])
<1>1. v \in [DOMAIN types -> Value]
  BY DEF Arguments
<1>2. \A i \in DOMAIN types : v[i] \in Values(types[i])
  BY DEF Arguments
<1> QED BY <1>1, <1>2

\* The widths in numbers.
LEMMA Widths ==
    /\ CellBits = 8 /\ IntBits = 3 /\ ByteBits = 2
    /\ \A w : Signed(w, IntBits) = IF w % 8 >= 4 THEN (w % 8) - 8 ELSE w % 8
    /\ \A w : Signed(w, CellBits) = IF w % 256 >= 128 THEN (w % 256) - 256 ELSE w % 256
    /\ Holds("int8") = -2..1 /\ Holds("uint8") = 0..3 /\ Holds("int") = -4..3 /\ Holds("long") = -128..127
<1>1. 2 ^ 8 = 256 /\ 2 ^ 7 = 128 /\ 2 ^ 3 = 8 /\ 2 ^ 2 = 4 /\ 2 ^ 1 = 2
  OBVIOUS
<1>2. CellBits = 8 /\ IntBits = 3 /\ ByteBits = 2
  BY DEF CellBits, IntBits, ByteBits
<1>3. CellBits - 1 = 7 /\ IntBits - 1 = 2 /\ ByteBits - 1 = 1
  BY <1>2
<1>4. \A w : Signed(w, IntBits) = IF w % 8 >= 4 THEN (w % 8) - 8 ELSE w % 8
  BY <1>1, <1>2, <1>3 DEF Signed
<1>5. \A w : Signed(w, CellBits) = IF w % 256 >= 128 THEN (w % 256) - 256 ELSE w % 256
  BY <1>1, <1>2, <1>3 DEF Signed
<1>6. Holds("int8") = -2..1
  BY <1>1, <1>2, <1>3 DEF Holds, Width
<1>7. Holds("uint8") = 0..3
  BY <1>1, <1>2, <1>3 DEF Holds, Width
<1>8. Holds("int") = -4..3
  BY <1>1, <1>2, <1>3 DEF Holds, Width
<1>9. Holds("long") = -128..127
  BY <1>1, <1>2, <1>3 DEF Holds, Width
<1> QED BY <1>2, <1>4, <1>5, <1>6, <1>7, <1>8, <1>9

\* return_value::set() and the caller's ireturn: the value arrives with its sign.
LEMMA ReturnExact ==
    /\ Signed(0, IntBits) = 0
    /\ \A type \in {"int8", "uint8", "int"} : \A v \in Holds(type) :
          Signed(Extended(type, v), IntBits) = v /\ v # Body
<1>1. 2 ^ 8 = 256 /\ 2 ^ 2 = 4
  OBVIOUS
<1>2. Signed(0, IntBits) = 0
  BY Widths
<1>3. ASSUME NEW v \in Holds("int8") PROVE Signed(Extended("int8", v), IntBits) = v /\ v # Body
  <2>1. v \in -2..1 /\ Extended("int8", v) = v % 256
    BY <1>1, Widths DEF Extended
  <2> QED BY <2>1, Widths DEF Body
<1>4. ASSUME NEW v \in Holds("uint8") PROVE Signed(Extended("uint8", v), IntBits) = v /\ v # Body
  <2>1. v \in 0..3 /\ Extended("uint8", v) = v % 4
    BY <1>1, Widths DEF Extended
  <2> QED BY <2>1, Widths DEF Body
<1>5. ASSUME NEW v \in Holds("int") PROVE Signed(Extended("int", v), IntBits) = v /\ v # Body
  <2>1. v \in -4..3 /\ Extended("int", v) = v % 256
    BY <1>1, Widths DEF Extended
  <2> QED BY <2>1, Widths DEF Body
<1> QED BY <1>2, <1>3, <1>4, <1>5

\* What the interpreter passes is read back.
LEMMA PassedExact ==
    ASSUME NEW type \in {"I", "J", "L"}, NEW v \in Values(type)
    PROVE  ReadAs(type, Cell(type, v)) = v
<1>1. 2 ^ 8 = 256
  OBVIOUS
<1>2. CASE type = "L"
  BY <1>2 DEF ReadAs, Cell
<1>3. CASE type = "J"
  <2>1. v \in -128..127
    BY <1>3, Widths, DispatchFrameAssumption DEF Values
  <2>2. Cell(type, v) = v % 256 /\ ReadAs(type, Cell(type, v)) = Signed(Cell(type, v), CellBits)
    BY <1>1, <1>3, Widths DEF Cell, ReadAs
  <2> QED BY <2>1, <2>2, Widths
<1>4. CASE type = "I"
  <2>1. v \in -4..3
    BY <1>4, Widths, DispatchFrameAssumption DEF Values
  <2>2. Cell(type, v) = v % 256 /\ ReadAs(type, Cell(type, v)) = Signed(Cell(type, v), IntBits)
    BY <1>1, <1>4, Widths DEF Cell, ReadAs
  <2> QED BY <2>1, <2>2, Widths
<1> QED BY <1>2, <1>3, <1>4

\* What set_arg() copies is read back, but for the sign of a negative value of a narrow type.
LEMMA CopiedExact ==
    ASSUME NEW how \in {"int8", "uint8", "int", "long", "object", "pointer"},
           NEW v \in Values(Parameter(how)), Parameter(how) # "L" => v \in Holds(how)
    PROVE  ReadAs(Parameter(how), Copied(how, v)) = IF how = "int8" /\ v < 0 THEN v + 2 ^ ByteBits ELSE v
<1>1. 2 ^ 8 = 256 /\ 2 ^ 3 = 8 /\ 2 ^ 2 = 4 /\ 2 ^ ByteBits = 4
  BY Widths
<1>2. CASE how \in {"object", "pointer"}
  BY <1>2 DEF ReadAs, Copied, Parameter
<1>3. CASE how = "long"
  <2>1. v \in -128..127 /\ Parameter(how) = "J"
    BY <1>3, Widths DEF Parameter
  <2>2. Copied(how, v) = v % 256 /\ ReadAs("J", Copied(how, v)) = Signed(Copied(how, v), CellBits)
    BY <1>1, <1>3, <2>1, Widths DEF Copied, Width, ReadAs
  <2> QED BY <1>3, <2>1, <2>2, Widths
<1>4. CASE how = "int"
  <2>1. v \in -4..3 /\ Parameter(how) = "I"
    BY <1>4, Widths DEF Parameter
  <2>2. Copied(how, v) = v % 8 /\ ReadAs("I", Copied(how, v)) = Signed(Copied(how, v), IntBits)
    BY <1>1, <1>4, <2>1, Widths DEF Copied, Width, ReadAs
  <2> QED BY <1>4, <2>1, <2>2, Widths
<1>5. CASE how = "uint8"
  <2>1. v \in 0..3 /\ Parameter(how) = "I"
    BY <1>5, Widths DEF Parameter
  <2>2. Copied(how, v) = v % 4 /\ ReadAs("I", Copied(how, v)) = Signed(Copied(how, v), IntBits)
    BY <1>1, <1>5, <2>1, Widths DEF Copied, Width, ReadAs
  <2> QED BY <1>5, <2>1, <2>2, Widths
<1>6. CASE how = "int8"
  <2>1. v \in -2..1 /\ Parameter(how) = "I"
    BY <1>6, Widths DEF Parameter
  <2>2. Copied(how, v) = v % 4 /\ ReadAs("I", Copied(how, v)) = Signed(Copied(how, v), IntBits)
    BY <1>1, <1>6, <2>1, Widths DEF Copied, Width, ReadAs
  <2> QED BY <1>1, <1>6, <2>1, <2>2, Widths
<1> QED BY <1>2, <1>3, <1>4, <1>5, <1>6

LEMMA InitCall == Init => CallInv
<1> SUFFICES ASSUME Init PROVE CallInv
  OBVIOUS
<1>1. PICK types : types = Types(method)
  OBVIOUS
<1>2. method \in Method /\ types \in Seq({"I", "J", "L"})
  BY <1>1, TypesType DEF Init
<1>3. PICK values : values = passed
  OBVIOUS
<1>4. locals = LayOut(types, values) /\ values \in Arguments(types) /\ wanted = values /\ pc = "call"
      /\ narrow = {} /\ mishap = {}
  BY <1>1, <1>3 DEF Init
<1>5. /\ DOMAIN LayOut(types, values) = 0..(Slots(types) - 1)
      /\ \A i \in DOMAIN types : LayOut(types, values)[ValueSlot(types, i)] = Cell(types[i], values[i])
  BY <1>2, LaidOut
<1>a. ASSUME NEW i \in DOMAIN types
      PROVE  ReadAs(types[i], locals[ValueSlot(types, i)]) = Delivered[i]
  <2>1. types[i] \in {"I", "J", "L"}
    BY <1>2, ElementOfSeq, LenProperties
  <2>2. i \in DOMAIN values /\ values[i] \in Values(types[i])
    BY <1>2, <1>4, ArgumentsType
  <2>3. Delivered[i] = values[i]
    BY <1>4, <2>2 DEF Delivered
  <2>4. ReadAs(types[i], Cell(types[i], values[i])) = values[i]
    BY <2>1, <2>2, PassedExact
  <2> QED BY <1>4, <1>5, <2>3, <2>4
<1>6. ArgsKept
  BY <1>1, <1>2, <1>3, <1>4, <1>5, <1>a DEF ArgsKept
<1>7. AnswerKept /\ CallAnswered
  BY DEF Init, AnswerKept, CallAnswered
<1> QED BY <1>6, <1>7 DEF CallInv

\* set_arg() changes the argument it is asked to change and no other.
LEMMA SetArgKeeps ==
    ASSUME ArgsKept, NEW i \in DOMAIN passed, NEW v,
           NEW how \in {"int8", "uint8", "int", "long", "object", "pointer"}, SetArg(i, how, v)
    PROVE  ArgsKept'
<1>1. PICK types : types = Types(method)
  OBVIOUS
<1>2. types \in Seq({"I", "J", "L"}) /\ passed \in Arguments(types) /\ wanted \in Arguments(types)
  BY <1>1, TypesType DEF ArgsKept
<1>3. i \in DOMAIN types /\ DOMAIN wanted = DOMAIN types
  BY <1>2, ArgumentsType
<1>4. /\ pc = "detour" /\ pc' = pc /\ method' = method /\ passed' = passed
      /\ types[i] = Parameter(how) /\ v \in Values(types[i])
      /\ Parameter(how) # "L" => v \in Holds(how)
  BY <1>1 DEF SetArg, Calls, call
<1> DEFINE target == WrittenSlot(how, SlotOf(types, i))
<1>5. CASE UNCHANGED <<locals, wanted, narrow, mishap>>
  BY <1>4, <1>5 DEF ArgsKept, Delivered
<1>6. CASE /\ locals' = IF target \in DOMAIN locals THEN [locals EXCEPT ![target] = Copied(how, v)] ELSE locals
           /\ wanted' = [wanted EXCEPT ![i] = v]
           /\ narrow' = (narrow \ {i}) \cup (IF how = "int8" /\ v < 0 THEN {i} ELSE {})
           /\ mishap' = mishap \cup (IF how = "pointer" THEN {"pointer"} ELSE {})
  <2>1. wanted' \in Arguments(types)
    <3>1. wanted \in [DOMAIN types -> Value]
      BY <1>2 DEF Arguments
    <3>2. v \in Value
      BY <1>4 DEF Values, Value
    <3>3. wanted' \in [DOMAIN types -> Value]
      BY <1>6, <3>1, <3>2
    <3>4. \A j \in DOMAIN types : wanted'[j] \in Values(types[j])
      BY <1>2, <1>4, <1>6, <3>1 DEF Arguments
    <3> QED BY <3>3, <3>4 DEF Arguments
  <2>2. DOMAIN locals' = 0..(Slots(types) - 1)
    BY <1>1, <1>6 DEF ArgsKept
  <2>3. ASSUME "pointer" \notin mishap', NEW j \in DOMAIN types
        PROVE  ReadAs(types[j], locals'[ValueSlot(types, j)]) = Delivered'[j]
    <3>1. "pointer" \notin mishap /\ how # "pointer"
      BY <1>6, <2>3
    <3>3. target = ValueSlot(types, i)
      <4>1. SlotOf(types, i) \in Nat
        BY <1>2, <1>3, ValueSlots
      <4>2. types[i] = "J" <=> how = "long"
        BY <1>4 DEF Parameter
      <4> QED BY <3>1, <4>1, <4>2 DEF WrittenSlot, ValueSlot
    <3>a. DOMAIN locals = 0..(Slots(types) - 1)
      BY <1>1 DEF ArgsKept
    <3>4. /\ ValueSlot(types, i) \in DOMAIN locals /\ ValueSlot(types, j) \in DOMAIN locals
          /\ ValueSlot(types, i) = ValueSlot(types, j) => i = j
      BY <1>2, <1>3, <2>3, <3>a, ValueSlots
    <3>5. locals' = [locals EXCEPT ![target] = Copied(how, v)]
      BY <1>6, <3>3, <3>4
    <3>6. ReadAs(types[j], locals[ValueSlot(types, j)]) = Delivered[j]
      BY <1>1, <2>3, <3>1 DEF ArgsKept
    <3>b. j \in DOMAIN wanted /\ i \in DOMAIN wanted
      BY <1>3, <2>3
    <3>c. DOMAIN wanted' = DOMAIN wanted
      BY <1>6
    <3>d. Delivered'[j] = IF j \in narrow' THEN wanted'[j] + 2 ^ ByteBits ELSE wanted'[j]
      BY <3>b, <3>c DEF Delivered
    <3>e. Delivered[j] = IF j \in narrow THEN wanted[j] + 2 ^ ByteBits ELSE wanted[j]
      BY <3>b DEF Delivered
    <3> HIDE DEF target
    <3>7. CASE j = i
      <4>1. wanted'[j] = v /\ (j \in narrow' <=> how = "int8" /\ v < 0)
        BY <1>6, <3>7, <3>b
      <4>2. locals'[target] = Copied(how, v)
        BY <3>3, <3>4, <3>5
      <4>3. ReadAs(Parameter(how), Copied(how, v)) = IF how = "int8" /\ v < 0 THEN v + 2 ^ ByteBits ELSE v
        BY <1>4, CopiedExact
      <4> QED BY <1>4, <3>3, <3>7, <3>d, <4>1, <4>2, <4>3
    <3>8. CASE j # i
      <4>1. wanted'[j] = wanted[j] /\ (j \in narrow' <=> j \in narrow)
        BY <1>6, <3>8, <3>b
      <4>2. locals'[ValueSlot(types, j)] = locals[ValueSlot(types, j)]
        BY <3>3, <3>4, <3>5, <3>8
      <4> QED BY <3>6, <3>d, <3>e, <4>1, <4>2
    <3> QED BY <3>7, <3>8
  <2>4. Types(method') = types
    BY <1>1, <1>4
  <2>5. \A j \in narrow' : types[j] = "I"
    <3>1. how = "int8" => types[i] = "I"
      BY <1>4 DEF Parameter
    <3> QED BY <1>1, <1>6, <3>1 DEF ArgsKept
  <2> QED BY <1>1, <1>2, <1>4, <2>1, <2>2, <2>3, <2>4, <2>5 DEF ArgsKept
<1> QED BY <1>1, <1>5, <1>6 DEF SetArg

\* Every step keeps the arguments, the answer and the promise.
LEMMA StepCall == CallInv /\ [Next]_vars => CallInv'
<1> SUFFICES ASSUME CallInv, [Next]_vars PROVE CallInv'
  OBVIOUS
<1>0. ArgsKept /\ AnswerKept /\ CallAnswered
  BY DEF CallInv
<1>1. ASSUME UNCHANGED <<call, locals, wanted, narrow, mishap>>, pc' = pc \/ pc' # "call"
      PROVE  ArgsKept'
  BY <1>0, <1>1 DEF ArgsKept, Delivered, call
<1>2. ASSUME UNCHANGED <<slot, answer, bodySees>>, pc' = pc \/ bodySees = <<>>
      PROVE  AnswerKept'
  BY <1>0, <1>2 DEF AnswerKept
<1>3. ASSUME UNCHANGED <<bodySees, returned>>, pc' # "returned", AnswerKept'
      PROVE  CallAnswered'
  BY <1>3 DEF CallAnswered, AnswerKept
<1>4. bodySees # <<>> => pc = "returned"
  BY <1>0 DEF AnswerKept
<1>5. CASE EnterDetour
  <2>1. UNCHANGED <<call, locals, wanted, narrow, mishap, slot, answer, bodySees, returned>> /\ pc = "call" /\ pc' = "detour"
    BY <1>5 DEF EnterDetour
  <2> QED BY <1>1, <1>2, <1>3, <1>4, <2>1 DEF CallInv
<1>6. CASE LeaveDetour \/ DetourThrows
  <2>1. UNCHANGED <<call, locals, wanted, narrow, mishap, slot, answer, bodySees, returned>> /\ pc = "detour"
        /\ pc' \in {"back", "thrown"}
    BY <1>6 DEF LeaveDetour, DetourThrows, Leaves
  <2> QED BY <1>1, <1>2, <1>3, <1>4, <2>1 DEF CallInv
<1>7. CASE GetArguments \/ (\E max \in MaxDepth : Trace(max))
  <2>1. UNCHANGED <<call, locals, wanted, narrow, mishap, slot, answer, bodySees, returned, pc>> /\ pc = "detour"
    BY <1>7 DEF GetArguments, Trace, Calls
  <2> QED BY <1>1, <1>2, <1>3, <2>1 DEF CallInv
<1>8. ASSUME NEW i \in DOMAIN passed, NEW how \in {"int8", "uint8", "int", "long", "object", "pointer"},
             NEW v, SetArg(i, how, v)
      PROVE  CallInv'
  <2>1. UNCHANGED <<slot, answer, bodySees, returned, pc>> /\ pc = "detour"
    BY <1>8 DEF SetArg, Calls
  <2> QED BY <1>0, <1>2, <1>3, <1>8, <2>1, SetArgKeeps DEF CallInv
<1>9. ASSUME NEW index, SetArgBeyond(index) PROVE CallInv'
  <2>1. UNCHANGED <<call, locals, wanted, narrow, slot, answer, bodySees, returned, pc>> /\ pc = "detour"
        /\ mishap \subseteq mishap'
    BY <1>9 DEF SetArgBeyond, Calls
  <2>2. ArgsKept'
    BY <1>0, <2>1 DEF ArgsKept, Delivered, call
  <2> QED BY <1>2, <1>3, <2>1, <2>2 DEF CallInv
<1>10. ASSUME NEW type \in {"int8", "uint8", "int"}, NEW v \in Holds(type), SetReturn(type, v)
       PROVE  CallInv'
  <2>1. /\ UNCHANGED <<call, locals, wanted, narrow, mishap, bodySees, returned, pc>> /\ pc = "detour"
        /\ slot' = [cancel |-> TRUE, retval |-> Extended(type, v)] /\ answer' = v
    BY <1>10 DEF SetReturn, Calls
  <2>2. Signed(Extended(type, v), IntBits) = v /\ v # Body
    BY ReturnExact
  <2>3. slot'.cancel = TRUE /\ slot'.retval = Extended(type, v)
    BY <2>1
  <2>4. AnswerKept'
    BY <1>4, <2>1, <2>2, <2>3 DEF AnswerKept
  <2> QED BY <1>1, <1>3, <2>1, <2>4 DEF CallInv
<1>11. CASE Cancel
  <2>1. /\ UNCHANGED <<call, locals, wanted, narrow, mishap, bodySees, returned, pc>> /\ pc = "detour"
        /\ slot' = [slot EXCEPT !.cancel = TRUE] /\ answer' = IF answer = Body THEN 0 ELSE answer
    BY <1>11 DEF Cancel, Calls
  <2>2. slot'.retval = slot.retval
    BY <2>1
  <2>3. slot'.cancel = TRUE
    BY <1>11 DEF Cancel
  <2>4. answer' # Body /\ answer' = Signed(slot.retval, IntBits)
    <3>1. CASE slot.cancel
      BY <1>0, <2>1, <3>1 DEF AnswerKept
    <3>2. CASE ~slot.cancel
      BY <1>0, <2>1, <3>2, ReturnExact DEF AnswerKept, Body
    <3> QED BY <3>1, <3>2
  <2>5. AnswerKept'
    BY <1>4, <2>1, <2>2, <2>3, <2>4 DEF AnswerKept
  <2> QED BY <1>1, <1>3, <2>1, <2>5 DEF CallInv
<1>12. CASE Resume
  <2>1. /\ UNCHANGED <<call, locals, wanted, narrow, mishap, slot, answer>> /\ pc \in {"back", "thrown"} /\ pc' = "returned"
        /\ bodySees' = BodyReads /\ returned' = Body /\ ~slot.cancel
    BY <1>12 DEF Resume
  <2>2. AnswerKept'
    BY <1>0, <2>1 DEF AnswerKept
  <2>3. returned' = answer'
    BY <1>0, <2>1 DEF AnswerKept
  <2>4. "pointer" \notin mishap => BodyReads = Delivered
    <3>1. PICK types : types = Types(method)
      OBVIOUS
    <3>2. types \in Seq({"I", "J", "L"}) /\ passed \in Arguments(types) /\ wanted \in Arguments(types)
      BY <1>0, <3>1, TypesType DEF ArgsKept
    <3>3. PICK args : args = passed
      OBVIOUS
    <3>5. DOMAIN args = DOMAIN types /\ DOMAIN wanted = DOMAIN types
      BY <3>2, <3>3, ArgumentsType
    <3>6. BodyReads = [i \in DOMAIN types |-> ReadAs(types[i], locals[ValueSlot(types, i)])]
      BY <3>1, <3>3, <3>5 DEF BodyReads
    <3>7. "pointer" \notin mishap =>
             \A i \in DOMAIN types : ReadAs(types[i], locals[ValueSlot(types, i)]) = Delivered[i]
      BY <1>0, <3>1 DEF ArgsKept
    <3>8. Delivered = [i \in DOMAIN types |-> Delivered[i]]
      BY <3>5 DEF Delivered
    <3> QED BY <3>6, <3>7, <3>8
  <2>5. CallAnswered'
    BY <2>1, <2>3, <2>4 DEF CallAnswered, Delivered
  <2> QED BY <1>1, <2>1, <2>2, <2>5 DEF CallInv
<1>13. CASE ReturnCancelled
  <2>1. /\ UNCHANGED <<call, locals, wanted, narrow, mishap, slot, answer, bodySees>> /\ pc \in {"back", "thrown"} /\ pc' = "returned"
        /\ returned' = Signed(slot.retval, IntBits) /\ slot.cancel
    BY <1>13 DEF ReturnCancelled
  <2>2. bodySees = <<>>
    BY <1>4, <2>1
  <2>3. CallAnswered'
    BY <1>0, <2>1, <2>2 DEF CallAnswered, AnswerKept
  <2> QED BY <1>1, <1>2, <2>1, <2>2, <2>3 DEF CallInv
<1>14. CASE UNCHANGED vars
  <2>1. UNCHANGED <<call, locals, wanted, narrow, mishap, slot, answer, bodySees, returned, pc>>
    BY <1>14 DEF vars
  <2>2. CallAnswered'
    BY <1>0, <2>1 DEF CallAnswered, Delivered
  <2> QED BY <1>1, <1>2, <2>1, <2>2 DEF CallInv
<1> QED BY <1>5, <1>6, <1>7, <1>8, <1>9, <1>10, <1>11, <1>12, <1>13, <1>14 DEF Next

\* The body runs with the arguments that set_arg() was given and the others as they were passed, however
\* many longs and doubles precede an argument, but a negative value of a type narrower than the parameter
\* loses its sign on the way and a raw oop is left out; the caller gets what return_value::set() was given
\* last, with its sign, 0 after a mere cancel(), and the body's own value otherwise, also where the detour
\* throws after it asked.
THEOREM AnsweredAsAsked == Spec => []CallAnswered
<1>1. CallInv => CallAnswered
  BY DEF CallInv
<1> QED BY <1>1, InitCall, StepCall, PTL DEF Spec

-----------------------------------------------------------------------------
(* The detour sees the arguments.                                          *)

\* A reference that does not look like another one is decoded to itself.
LEMMA DecodeExact ==
    ASSUME NEW word \in Object \cup {Null}, shift = 0 \/ word \notin 1..NarrowMax
    PROVE  DecodeOop(word) = word
<1>1. word \in Nat /\ NarrowMax \in Nat
  BY DispatchFrameAssumption DEF Null
<1>2. CASE shift = 0
  <2>1. 2 ^ 0 = 1
    OBVIOUS
  <2>2. word * 2 ^ shift = word
    BY <1>1, <1>2, <2>1
  <2> QED BY <2>2 DEF DecodeOop
<1>3. CASE word \notin 1..NarrowMax
  <2>1. word = Null \/ word > NarrowMax
    BY <1>1, <1>3 DEF Null
  <2> QED BY <2>1 DEF DecodeOop
<1> QED BY <1>2, <1>3

\* The two halves of ArgsDecoded.
SeenRight ==
    pc # "call" /\ Unambiguous(passed) => seen = IF LocalsFound THEN passed ELSE [i \in DOMAIN passed |-> Null]

ReferencesRight ==
    /\ references.got # <<>> /\ method.static /\ "pointer" \notin mishap
    /\ Unambiguous(references.due)
    /\ \A i \in DOMAIN method.params : ~Nested(method.params[i])
    => \A i \in Objects :
          references.got[Cardinality({j \in Objects : j <= i})] = references.due[i]

\* The wrapper of hook() gives the detour the arguments of the call.
LEMMA EnterSees ==
    ASSUME ArgsKept, EnterDetour, Unambiguous(passed)
    PROVE  seen' = IF LocalsFound THEN passed ELSE [i \in DOMAIN passed |-> Null]
<1>1. PICK types : types = Types(method)
  OBVIOUS
<1>2. PICK args : args = passed
  OBVIOUS
<1>3. /\ method \in Method /\ types \in Seq({"I", "J", "L"}) /\ args \in Arguments(types) /\ wanted = args
      /\ \A i \in DOMAIN types : ReadAs(types[i], locals[ValueSlot(types, i)]) = Delivered[i]
      /\ narrow = {}
  BY <1>1, <1>2, TypesType DEF ArgsKept, EnterDetour
<1>4. DOMAIN args = DOMAIN types /\ args = [i \in DOMAIN types |-> args[i]]
  BY <1>3, ArgumentsType
<1>5. seen' = [i \in DOMAIN types |-> ExtractFrameArg(types[i], JavaSlotOffset(types, i))]
  BY <1>1 DEF EnterDetour
<1>6. CASE ~LocalsFound
  <2>1. \A i \in DOMAIN types : ExtractFrameArg(types[i], JavaSlotOffset(types, i)) = Null
    BY <1>6 DEF ExtractFrameArg
  <2> QED BY <1>2, <1>4, <1>5, <1>6, <2>1
<1>7. CASE LocalsFound
  <2>1. ASSUME NEW i \in DOMAIN types
        PROVE  ExtractFrameArg(types[i], JavaSlotOffset(types, i)) = args[i]
    <3>1. PICK index : index = SlotOf(types, i)
      OBVIOUS
    <3>2. i \in Nat \ {0} /\ index \in Nat /\ index < Slots(types) /\ Slots(types) \in Nat
      BY <1>3, <3>1, ValueSlots
    <3>3. JavaSlotOffset(types, i) = index
      BY <3>1, <3>2, OffsetIsSlot
    <3>4. MaxLocals \in Nat /\ Slots(types) <= MaxLocals
      BY <1>1, <1>3, MethodAssumption, DispatchFrameAssumption
    <3>5. InRange(index)
      BY <3>2, <3>4 DEF InRange
    <3>6. ReadAs(types[i], locals[ValueSlot(types, i)]) = args[i]
      <4>1. i \in DOMAIN wanted
        BY <1>3, <1>4
      <4>2. Delivered[i] = args[i]
        BY <1>3, <4>1 DEF Delivered
      <4> QED BY <1>3, <4>2
    <3>7. types[i] \in {"I", "J", "L"}
      BY <1>3, ElementOfSeq, LenProperties
    <3>8. CASE types[i] = "L"
      <4>1. ValueSlot(types, i) = index
        BY <3>1, <3>2, <3>8 DEF ValueSlot
      <4>2. args[i] \in Object \cup {Null}
        BY <1>3, <3>8, ArgumentsType DEF Values
      <4>3. shift = 0 \/ args[i] \notin 1..NarrowMax
        BY <1>1, <1>2, <1>4, <3>8 DEF Unambiguous
      <4>4. DecodeOop(args[i]) = args[i]
        BY <4>2, <4>3, DecodeExact
      <4>5. ExtractFrameArg("L", index) = DecodeOop(locals[index])
        BY <1>7, <3>5 DEF ExtractFrameArg
      <4>6. locals[index] = args[i]
        BY <3>6, <3>8, <4>1 DEF ReadAs
      <4> QED BY <3>3, <3>8, <4>4, <4>5, <4>6
    <3>9. CASE types[i] = "J"
      <4>1. ValueSlot(types, i) = index + 1
        BY <3>1, <3>9 DEF ValueSlot
      <4>2. ExtractFrameArg("J", index) = ReadAs("J", locals[index + 1])
        BY <1>7, <3>5 DEF ExtractFrameArg
      <4> QED BY <3>3, <3>6, <3>9, <4>1, <4>2
    <3>10. CASE types[i] = "I"
      <4>1. ValueSlot(types, i) = index
        BY <3>1, <3>2, <3>10 DEF ValueSlot
      <4>2. ExtractFrameArg("I", index) = ReadAs("I", locals[index])
        BY <1>7, <3>5 DEF ExtractFrameArg
      <4> QED BY <3>3, <3>6, <3>10, <4>1, <4>2
    <3> QED BY <3>7, <3>8, <3>9, <3>10
  <2> QED BY <1>2, <1>4, <1>5, <1>7, <2>1
<1> QED BY <1>6, <1>7

\* The descriptor that get_arguments() parses is its parameters one behind the other:
\* text[k] is the text of the first k of them.
Texts(params, n, text) ==
    /\ text \in [0..n -> Seq({"I", "J", "L", "["})]
    /\ text[0] = <<>>
    /\ \A k \in 1..n : text[k] = text[k - 1] \o params[k]

Joinable(C, n, params) == \A k \in 1..n : \A s \in C : s \o params[k] \in C
Joined(C, e, n, params, text) ==
    text \in [0..n -> C] /\ text[0] = e /\ \A k \in 1..n : text[k] = text[k - 1] \o params[k]

LEMMA TextRuns ==
    ASSUME NEW C, NEW e \in C, NEW n \in Nat, NEW params, Joinable(C, n, params)
    PROVE  \E text : Joined(C, e, n, params, text)
<1> USE DEF Joinable, Joined
<1> DEFINE step == [k \in 1..n |-> [s \in C |-> s \o params[k]]]
<1>1. step \in [1..n -> [C -> C]]
  OBVIOUS
<1>2. PICK text \in [0..n -> C] : text[0] = e /\ \A k \in 1..n : text[k] = step[k][text[k - 1]]
  <2> HIDE DEF step, Joinable, Joined
  <2> QED BY <1>1, LoopRuns
<1>3. ASSUME NEW k \in 1..n PROVE text[k] = text[k - 1] \o params[k]
  <2>1. k - 1 \in 0..n
    OBVIOUS
  <2>2. text[k - 1] \in C
    BY <1>2, <2>1
  <2> QED BY <1>2, <2>2
<1> QED BY <1>2, <1>3

LEMMA FlatParams ==
    ASSUME NEW params \in Seq(Seq({"I", "J", "L", "["})), params # <<>>
    PROVE  \E text : Texts(params, Len(params), text) /\ FlattenSeq(params) = text[Len(params)]
<1>0. PICK n \in Nat : n = Len(params) /\ n # 0
  BY EmptySeq, LenProperties
<1> DEFINE C == Seq({"I", "J", "L", "["})
<1>1. \A k \in 1..n : params[k] \in C
  BY <1>0, ElementOfSeq, LenProperties
<1>2. \A k \in 1..n : \A s \in C : s \o params[k] \in C
  BY <1>1, ConcatProperties
<1>3. PICK e \in C : e = <<>>
  BY EmptySeq
<1> HIDE DEF C
<1>a. PICK text : Joined(C, e, n, params, text)
  <2>1. Joinable(C, n, params)
    BY <1>2 DEF Joinable
  <2> QED BY <2>1, TextRuns
<1>4. text \in [0..n -> C] /\ text[0] = e
  BY <1>a DEF Joined
<1>5. text[0] = <<>>
  BY <1>3, <1>4
<1>6. \A k \in 1..n : text[k] = text[k - 1] \o params[k]
  BY <1>a DEF Joined
<1> DEFINE F == [k \in 1..n |-> text[k]]
           w == CHOOSE f : f = [k \in 1..n |-> IF k = 1 THEN params[k] ELSE f[k - 1] \o params[k]]
<1>7. text[1] = params[1]
  <2>1. text[1] = <<>> \o params[1] /\ params[1] \in Seq({"I", "J", "L", "["})
    <3>1. 1 \in 1..n /\ 1 - 1 = 0
      BY <1>0
    <3>2. text[1] = text[1 - 1] \o params[1]
      BY <1>6, <3>1
    <3> QED BY <1>1, <1>5, <3>1, <3>2 DEF C
  <2> QED BY <2>1, ConcatEmptySeq
<1>8. F = [k \in 1..n |-> IF k = 1 THEN params[k] ELSE F[k - 1] \o params[k]]
  <2>1. ASSUME NEW k \in 1..n, k # 1 PROVE F[k - 1] = text[k - 1]
    BY <2>1
  <2> QED BY <1>6, <1>7, <2>1
<1>9. w = [k \in 1..n |-> IF k = 1 THEN params[k] ELSE w[k - 1] \o params[k]]
  <2> HIDE DEF F
  <2>1. \E f : f = [k \in 1..n |-> IF k = 1 THEN params[k] ELSE f[k - 1] \o params[k]]
    BY <1>8
  <2> QED BY <2>1
<1>10. FlattenSeq(params) = w[n]
  BY <1>0 DEF FlattenSeq
<1> HIDE DEF w
<1>11. \A k \in 1..n : w[k] = text[k]
  <2> DEFINE S == {k \in 1..n : w[k] # text[k]}
  <2>1. SUFFICES ASSUME S # {} PROVE FALSE
    OBVIOUS
  <2>2. S \subseteq Nat
    OBVIOUS
  <2>3. PICK x \in S : \A y \in S : ~(y < x)
    <3> HIDE DEF S
    <3> QED BY <2>1, <2>2, LeastNat
  <2>4. x # 1
    BY <1>7, <1>9, <2>3
  <2>5. x \in 1..n /\ x - 1 \in 1..n /\ x - 1 < x
    BY <2>3, <2>4
  <2>6. w[x - 1] = text[x - 1]
    BY <2>3, <2>5
  <2>7. w[x] = w[x - 1] \o params[x]
    BY <1>9, <2>4, <2>5
  <2> QED BY <1>6, <2>3, <2>5, <2>6, <2>7
<1>12. Texts(params, n, text)
  BY <1>4, <1>5, <1>6 DEF Texts, C
<1> QED BY <1>0, <1>10, <1>11, <1>12

\* The text of fewer parameters is a prefix of the text of more.
LEMMA TextPrefix ==
    ASSUME NEW params \in Seq(Seq({"I", "J", "L", "["})), NEW n \in Nat, n = Len(params),
           NEW text, Texts(params, n, text), NEW i \in 0..n
    PROVE  \A j \in i..n : /\ Len(text[i]) <= Len(text[j])
                           /\ \A p \in 1..Len(text[i]) : text[j][p] = text[i][p]
<1> DEFINE Prefix(j) == /\ Len(text[i]) <= Len(text[j])
                        /\ \A p \in 1..Len(text[i]) : text[j][p] = text[i][p]
           S == {j \in i..n : ~Prefix(j)}
<1>1. \A k \in 0..n : text[k] \in Seq({"I", "J", "L", "["}) /\ Len(text[k]) \in Nat
  BY LenProperties DEF Texts
<1>2. \A k \in 1..n : params[k] \in Seq({"I", "J", "L", "["}) /\ Len(params[k]) \in Nat
  BY ElementOfSeq, LenProperties
<1>3. SUFFICES ASSUME S # {} PROVE FALSE
  OBVIOUS
<1>4. S \subseteq Nat
  OBVIOUS
<1>5. PICK x \in S : \A y \in S : ~(y < x)
  <2> HIDE DEF S
  <2> QED BY <1>3, <1>4, LeastNat
<1>6. x # i
  BY <1>1, <1>5
<1>7. x \in 1..n /\ x - 1 \in i..n /\ x - 1 \in 0..n /\ x - 1 < x
  BY <1>5, <1>6
<1>8. Prefix(x - 1)
  BY <1>5, <1>7
<1>9. text[x] = text[x - 1] \o params[x]
  BY <1>7 DEF Texts
<1>10. /\ Len(text[x]) = Len(text[x - 1]) + Len(params[x])
       /\ \A p \in 1..Len(text[x - 1]) : text[x][p] = text[x - 1][p]
  <2>1. PICK s : s = text[x - 1]
    OBVIOUS
  <2>2. PICK d : d = params[x]
    OBVIOUS
  <2>3. s \in Seq({"I", "J", "L", "["}) /\ d \in Seq({"I", "J", "L", "["}) /\ Len(s) \in Nat /\ Len(d) \in Nat
    BY <1>1, <1>2, <1>7, <2>1, <2>2
  <2>4. /\ Len(s \o d) = Len(s) + Len(d)
        /\ \A p \in 1..(Len(s) + Len(d)) : (s \o d)[p] = IF p <= Len(s) THEN s[p] ELSE d[p - Len(s)]
    BY <2>3, ConcatProperties
  <2>5. \A p \in 1..Len(s) : (s \o d)[p] = s[p]
    BY <2>3, <2>4
  <2> QED BY <1>9, <2>1, <2>2, <2>4, <2>5
<1>11. Prefix(x)
  <2>1. /\ Len(text[i]) \in Nat /\ Len(text[x]) \in Nat /\ Len(text[x - 1]) \in Nat /\ Len(params[x]) \in Nat
        /\ Len(text[i]) <= Len(text[x - 1])
    BY <1>1, <1>2, <1>7, <1>8
  <2>2. Len(text[i]) <= Len(text[x])
    <3>1. PICK a, b, c, d : a = Len(text[i]) /\ b = Len(text[x]) /\ c = Len(text[x - 1]) /\ d = Len(params[x])
      OBVIOUS
    <3>2. a \in Nat /\ b \in Nat /\ c \in Nat /\ d \in Nat /\ a <= c
      BY <2>1, <3>1
    <3>3. b = c + d
      BY <1>10, <3>1
    <3>4. a <= b
      BY <3>2, <3>3
    <3> QED BY <3>1, <3>4
  <2>3. ASSUME NEW p \in 1..Len(text[i]) PROVE text[x][p] = text[i][p]
    <3>1. p \in 1..Len(text[x - 1])
      BY <2>1
    <3>2. text[x - 1][p] = text[i][p]
      BY <1>8
    <3> QED BY <1>10, <3>1, <3>2
  <2> QED BY <2>2, <2>3
<1> QED BY <1>5, <1>11

\* A run of the parser over a text.
ParseState == [skip : BOOLEAN, slot : Nat, slots : Seq(Nat)]
Start == [skip |-> FALSE, slot |-> 0, slots |-> <<>>]
Parses(text, n, st) == st[0] = Start /\ \A k \in 1..n : st[k] = ParseStep(st[k - 1], text[k])

LEMMA ParseType ==
    ASSUME NEW s \in ParseState, NEW ch
    PROVE  ParseStep(s, ch) \in ParseState
<1>1. s.skip \in BOOLEAN /\ s.slot \in Nat /\ s.slots \in Seq(Nat)
  BY DEF ParseState
<1>2. CASE s.skip
  <2>1. ParseStep(s, ch) = [s EXCEPT !.skip = FALSE]
    BY <1>2 DEF ParseStep
  <2> QED BY <2>1 DEF ParseState
<1>3. CASE ~s.skip
  <2> DEFINE slots == IF ch = "L" THEN Append(s.slots, s.slot) ELSE s.slots
             slot2 == s.slot + (IF ch = "J" THEN 2 ELSE 1)
  <2>1. ParseStep(s, ch) = [skip |-> ch = "[", slot |-> slot2, slots |-> slots]
    BY <1>3 DEF ParseStep
  <2>2. slot2 \in Nat
    BY <1>1
  <2>3. slots \in Seq(Nat)
    BY <1>1, AppendProperties
  <2>4. (ch = "[") \in BOOLEAN
    OBVIOUS
  <2> HIDE DEF slots, slot2
  <2> QED BY <2>1, <2>2, <2>3, <2>4 DEF ParseState
<1> QED BY <1>1, <1>2, <1>3

LEMMA ParseRuns ==
    ASSUME NEW text, NEW n \in Nat
    PROVE  \E st : st \in [0..n -> ParseState] /\ Parses(text, n, st)
<1> DEFINE step == [k \in 1..n |-> [s \in ParseState |-> ParseStep(s, text[k])]]
<1>1. step \in [1..n -> [ParseState -> ParseState]]
  BY ParseType
<1>2. Start \in ParseState
  BY EmptySeq DEF Start, ParseState
<1>3. PICK st \in [0..n -> ParseState] : st[0] = Start /\ \A k \in 1..n : st[k] = step[k][st[k - 1]]
  <2>1. PICK e \in ParseState : e = Start
    BY <1>2
  <2> HIDE DEF step
  <2>2. \E st \in [0..n -> ParseState] : st[0] = e /\ \A k \in 1..n : st[k] = step[k][st[k - 1]]
    BY <1>1, LoopRuns
  <2> QED BY <2>1, <2>2
<1>4. ASSUME NEW k \in 1..n PROVE st[k] = ParseStep(st[k - 1], text[k])
  <2>1. k - 1 \in 0..n
    OBVIOUS
  <2>2. st[k - 1] \in ParseState
    BY <1>3, <2>1
  <2> QED BY <1>3, <2>2
<1> QED BY <1>3, <1>4 DEF Parses

LEMMA ParseResult ==
    ASSUME NEW params, NEW text, text = FlattenSeq(params), NEW n \in Nat, n = Len(text)
    PROVE  \E st : Parses(text, n, st) /\ ReferenceSlots(params) = st[n].slots
<1>1. PICK st : st \in [0..n -> ParseState] /\ Parses(text, n, st)
  BY ParseRuns
<1>2. st = [k \in 0..n |-> IF k = 0 THEN Start ELSE ParseStep(st[k - 1], text[k])]
  <2>1. ASSUME NEW k \in 0..n PROVE st[k] = IF k = 0 THEN Start ELSE ParseStep(st[k - 1], text[k])
    BY <1>1 DEF Parses
  <2> QED BY <1>1, <2>1
<1> DEFINE w == CHOOSE f : f = [k \in 0..n |-> IF k = 0 THEN Start ELSE ParseStep(f[k - 1], text[k])]
<1>3. w = [k \in 0..n |-> IF k = 0 THEN Start ELSE ParseStep(w[k - 1], text[k])]
  <2>1. \E f : f = [k \in 0..n |-> IF k = 0 THEN Start ELSE ParseStep(f[k - 1], text[k])]
    BY <1>2
  <2> QED BY <2>1
<1>4. ReferenceSlots(params) = w[n].slots
  BY DEF ReferenceSlots, Start
<1> HIDE DEF w
<1>5. Parses(text, n, w)
  <2>1. w[0] = Start
    BY <1>3
  <2>2. ASSUME NEW k \in 1..n PROVE w[k] = ParseStep(w[k - 1], text[k])
    <3>1. k \in 0..n /\ k # 0
      OBVIOUS
    <3> QED BY <1>3, <3>1
  <2> QED BY <2>1, <2>2 DEF Parses
<1> QED BY <1>4, <1>5

\* The parameters up to number i that are objects.
ObjectsTo(params, i) == {j \in 1..i : params[j] = <<"L">>}

\* The state of the parser behind parameter i, if it has understood everything so far.
Understood(params, types, i, s) ==
    /\ s.skip = FALSE /\ s.slot = SlotOf(types, i + 1)
    /\ s.slots \in Seq(Nat) /\ Len(s.slots) = Cardinality(ObjectsTo(params, i))
    /\ \A j \in ObjectsTo(params, i) : s.slots[Cardinality(ObjectsTo(params, j))] = SlotOf(types, j)

LEMMA ObjectsCount ==
    ASSUME NEW params, NEW i \in Nat
    PROVE  /\ IsFiniteSet(ObjectsTo(params, i)) /\ Cardinality(ObjectsTo(params, i)) \in Nat
           /\ params[i + 1] = <<"L">> => Cardinality(ObjectsTo(params, i + 1)) = Cardinality(ObjectsTo(params, i)) + 1
           /\ params[i + 1] = <<"L">> => ObjectsTo(params, i + 1) = ObjectsTo(params, i) \cup {i + 1}
           /\ params[i + 1] # <<"L">> => ObjectsTo(params, i + 1) = ObjectsTo(params, i)
           /\ \A j \in ObjectsTo(params, i) :
                 Cardinality(ObjectsTo(params, j)) \in 1..Cardinality(ObjectsTo(params, i))
<1>1. ASSUME NEW k \in Nat
      PROVE  IsFiniteSet(ObjectsTo(params, k)) /\ Cardinality(ObjectsTo(params, k)) \in Nat
  <2>1. IsFiniteSet(1..k)
    BY FS_Interval
  <2>2. ObjectsTo(params, k) \subseteq 1..k
    BY DEF ObjectsTo
  <2> QED BY <2>1, <2>2, FS_Subset, FS_CardinalityType
<1>2. params[i + 1] = <<"L">> => ObjectsTo(params, i + 1) = ObjectsTo(params, i) \cup {i + 1}
  BY DEF ObjectsTo
<1>3. params[i + 1] # <<"L">> => ObjectsTo(params, i + 1) = ObjectsTo(params, i)
  BY DEF ObjectsTo
<1>4. i + 1 \notin ObjectsTo(params, i)
  BY DEF ObjectsTo
<1>5. Cardinality(ObjectsTo(params, i) \cup {i + 1}) = Cardinality(ObjectsTo(params, i)) + 1
  BY <1>1, <1>4, FS_AddElement
<1>6. ASSUME NEW j \in ObjectsTo(params, i)
      PROVE  Cardinality(ObjectsTo(params, j)) \in 1..Cardinality(ObjectsTo(params, i))
  <2>1. j \in Nat /\ j \in 1..i /\ params[j] = <<"L">>
    BY DEF ObjectsTo
  <2>2. j \in ObjectsTo(params, j) /\ ObjectsTo(params, j) \subseteq ObjectsTo(params, i)
    BY <2>1 DEF ObjectsTo
  <2>3. Cardinality(ObjectsTo(params, j)) \in Nat /\ Cardinality(ObjectsTo(params, i)) \in Nat
    BY <1>1, <2>1
  <2>4. Cardinality(ObjectsTo(params, j)) <= Cardinality(ObjectsTo(params, i))
    BY <1>1, <2>2, FS_Subset
  <2>5. Cardinality(ObjectsTo(params, j)) # 0
    BY <1>1, <2>1, <2>2, FS_EmptySet
  <2> QED BY <2>3, <2>4, <2>5
<1> QED BY <1>1, <1>2, <1>3, <1>5, <1>6

LEMMA FirstSlot == ASSUME NEW types PROVE SlotOf(types, 1) = 0
<1>1. Wide(types, 1) = {}
  BY DEF Wide
<1>2. SlotOf(types, 1) = (1 - 1) + Cardinality(Wide(types, 1))
  BY WideFinite
<1>3. Cardinality({}) = 0
  BY FS_EmptySet
<1> QED BY <1>1, <1>2, <1>3

\* The parser understands a parameter that is no array.
LEMMA UnderstandPlain ==
    ASSUME NEW params, NEW types, NEW i \in Nat, NEW s, Understood(params, types, i, s),
           NEW ch \in {"I", "J", "L"}, params[i + 1] = <<ch>>, types[i + 1] = ch, NEW r, r = ParseStep(s, ch)
    PROVE  Understood(params, types, i + 1, r)
<1>1. /\ s.skip = FALSE /\ s.slot = SlotOf(types, i + 1)
      /\ s.slots \in Seq(Nat) /\ Len(s.slots) = Cardinality(ObjectsTo(params, i))
      /\ \A j \in ObjectsTo(params, i) : s.slots[Cardinality(ObjectsTo(params, j))] = SlotOf(types, j)
  BY DEF Understood
<1>2. i + 1 \in Nat \ {0}
  OBVIOUS
<1>3. SlotOf(types, (i + 1) + 1) = SlotOf(types, i + 1) + WidthOf(types[i + 1]) /\ SlotOf(types, i + 1) \in Nat
  BY <1>2, NextSlot, WideFinite
<1>4. /\ r.skip = FALSE /\ r.slot = s.slot + (IF ch = "J" THEN 2 ELSE 1)
      /\ r.slots = IF ch = "L" THEN Append(s.slots, s.slot) ELSE s.slots
  BY <1>1 DEF ParseStep
<1>5. r.slot = SlotOf(types, (i + 1) + 1)
  BY <1>1, <1>3, <1>4 DEF WidthOf
<1>6. CASE ch # "L"
  <2>1. params[i + 1] # <<"L">>
    BY <1>6
  <2>2. ObjectsTo(params, i + 1) = ObjectsTo(params, i)
    BY <2>1, ObjectsCount
  <2>3. r.slots = s.slots
    BY <1>4, <1>6
  <2> QED BY <1>1, <1>4, <1>5, <2>2, <2>3 DEF Understood
<1>7. CASE ch = "L"
  <2>1. /\ ObjectsTo(params, i + 1) = ObjectsTo(params, i) \cup {i + 1}
        /\ Cardinality(ObjectsTo(params, i + 1)) = Cardinality(ObjectsTo(params, i)) + 1
        /\ \A j \in ObjectsTo(params, i) : Cardinality(ObjectsTo(params, j)) \in 1..Cardinality(ObjectsTo(params, i))
    BY <1>7, ObjectsCount
  <2>2. PICK q, x : q = s.slots /\ x = s.slot
    OBVIOUS
  <2>3. q \in Seq(Nat) /\ x \in Nat /\ r.slots = Append(q, x) /\ Len(q) \in Nat
    BY <1>1, <1>3, <1>4, <1>7, <2>2, LenProperties
  <2>4. /\ Append(q, x) \in Seq(Nat) /\ Len(Append(q, x)) = Len(q) + 1
        /\ \A p \in 1..Len(q) : Append(q, x)[p] = q[p]
        /\ Append(q, x)[Len(q) + 1] = x
    BY <2>3, AppendProperties
  <2>5. Len(r.slots) = Cardinality(ObjectsTo(params, i + 1)) /\ r.slots \in Seq(Nat)
    BY <1>1, <2>1, <2>2, <2>3, <2>4
  <2>6. ASSUME NEW j \in ObjectsTo(params, i + 1)
        PROVE  r.slots[Cardinality(ObjectsTo(params, j))] = SlotOf(types, j)
    <3>1. CASE j \in ObjectsTo(params, i)
      <4>1. Cardinality(ObjectsTo(params, j)) \in 1..Len(q)
        BY <1>1, <2>1, <2>2, <3>1
      <4>2. r.slots[Cardinality(ObjectsTo(params, j))] = q[Cardinality(ObjectsTo(params, j))]
        BY <2>3, <2>4, <4>1
      <4> QED BY <1>1, <2>2, <3>1, <4>2
    <3>2. CASE j = i + 1
      <4>1. Cardinality(ObjectsTo(params, j)) = Len(q) + 1
        BY <1>1, <2>1, <2>2, <3>2
      <4>2. r.slots[Len(q) + 1] = x
        BY <2>3, <2>4
      <4> QED BY <1>1, <2>2, <3>2, <4>1, <4>2
    <3> QED BY <2>1, <3>1, <3>2
  <2> QED BY <1>4, <1>5, <2>5, <2>6 DEF Understood
<1> QED BY <1>6, <1>7

\* And an array, if its elements are no arrays.
LEMMA UnderstandArray ==
    ASSUME NEW params, NEW types, NEW i \in Nat, NEW s, Understood(params, types, i, s),
           params[i + 1] # <<"L">>, types[i + 1] = "L", NEW ch, NEW q, q = ParseStep(s, "["),
           NEW r, r = ParseStep(q, ch)
    PROVE  Understood(params, types, i + 1, r)
<1>1. /\ s.skip = FALSE /\ s.slot = SlotOf(types, i + 1)
      /\ s.slots \in Seq(Nat) /\ Len(s.slots) = Cardinality(ObjectsTo(params, i))
      /\ \A j \in ObjectsTo(params, i) : s.slots[Cardinality(ObjectsTo(params, j))] = SlotOf(types, j)
  BY DEF Understood
<1>2. i + 1 \in Nat \ {0}
  OBVIOUS
<1>3. SlotOf(types, (i + 1) + 1) = SlotOf(types, i + 1) + WidthOf(types[i + 1])
  BY <1>2, NextSlot
<1>4. q = [skip |-> TRUE, slot |-> s.slot + 1, slots |-> s.slots]
  BY <1>1 DEF ParseStep
<1>5. r.skip = FALSE /\ r.slot = s.slot + 1 /\ r.slots = s.slots
  BY <1>4 DEF ParseStep
<1>6. r.slot = SlotOf(types, (i + 1) + 1)
  BY <1>1, <1>3, <1>5 DEF WidthOf
<1>7. ObjectsTo(params, i + 1) = ObjectsTo(params, i)
  BY ObjectsCount
<1> QED BY <1>1, <1>5, <1>6, <1>7 DEF Understood

\* get_arguments() finds the slot of every object parameter of a static method that has no array of
\* arrays.
LEMMA ReferencesFound ==
    ASSUME NEW m \in Method, m.static, \A i \in DOMAIN m.params : ~Nested(m.params[i]),
           NEW i \in DOMAIN m.params, m.params[i] = <<"L">>
    PROVE  /\ ReferenceSlots(m.params) \in Seq(Nat)
           /\ Cardinality(ObjectsTo(m.params, i)) \in DOMAIN ReferenceSlots(m.params)
           /\ ReferenceSlots(m.params)[Cardinality(ObjectsTo(m.params, i))] = SlotOf(Types(m), i)
<1> DEFINE C == {"I", "J", "L", "["}
<1>1. PICK params : params = m.params
  OBVIOUS
<1>2. PICK types : types = Types(m)
  OBVIOUS
<1>3. params \in Seq(Seq(C)) /\ params # <<>> /\ DOMAIN params = 1..Len(params) /\ Len(params) \in Nat
  <2>1. params \in Seq(Seq(C))
    BY <1>1, MethodAssumption
  <2> QED BY <1>1, <2>1, LenProperties
<1>4. PICK n \in Nat : n = Len(params)
  BY <1>3
<1>5. PICK text : Texts(params, n, text) /\ FlattenSeq(params) = text[n]
  BY <1>3, <1>4, FlatParams
<1>6. \A k \in 0..n : text[k] \in Seq(C) /\ Len(text[k]) \in Nat
  BY <1>5, LenProperties DEF Texts
<1>7. PICK L \in Nat : L = Len(text[n])
  BY <1>4, <1>6
<1>8. PICK st : Parses(text[n], L, st) /\ ReferenceSlots(params) = st[L].slots
  <2>1. PICK t : t = text[n]
    OBVIOUS
  <2> QED BY <1>5, <1>7, <2>1, ParseResult
<1>9. \A k \in 0..n : Len(text[k]) <= L /\ \A p \in 1..Len(text[k]) : text[n][p] = text[k][p]
  <2>1. ASSUME NEW k \in 0..n PROVE Len(text[k]) <= Len(text[n]) /\ \A p \in 1..Len(text[k]) : text[n][p] = text[k][p]
    <3>1. n \in k..n
      OBVIOUS
    <3> QED BY <1>3, <1>4, <1>5, <3>1, TextPrefix
  <2> QED BY <1>7, <2>1
<1>10. ASSUME NEW k \in 1..n
       PROVE  LET d == params[k] IN
              /\ d \in Seq(C) /\ DOMAIN d = 1..Len(d) /\ types[k] = Kind(d)
              /\ \/ /\ d = <<d[1]>> /\ Len(d) = 1 /\ d[1] \in {"I", "J", "L"} /\ Kind(d) = d[1]
                 \/ /\ Len(d) = 2 /\ d[1] = "[" /\ Kind(d) = "L" /\ d # <<"L">>
  <2>1. k \in DOMAIN m.params
    BY <1>1, <1>3, <1>4
  <2>2. PICK d : d = m.params[k]
    OBVIOUS
  <2>3. /\ d \in Seq(C) /\ Len(d) \in Nat \ {0} /\ DOMAIN d = 1..Len(d)
        /\ d[1] \in C /\ Head(d) = d[1]
        /\ \A p \in 1..Len(d) : d[p] = "[" <=> p < Len(d)
    BY <2>1, <2>2, KindType
  <2>4. ~Nested(d) /\ types[k] = Kind(d)
    BY <1>2, <2>1, <2>2, TypesType
  <2>5. CASE Len(d) = 1
    <3>1. d[1] # "["
      BY <2>3, <2>5
    <3>2. d = <<d[1]>>
      BY <2>3, <2>5
    <3>3. Kind(d) = d[1]
      BY <2>3, <3>1 DEF Kind
    <3> QED BY <1>1, <2>2, <2>3, <2>4, <2>5, <3>1, <3>2, <3>3
  <2>6. CASE Len(d) # 1
    <3>1. 1 \in 1..Len(d) /\ 1 < Len(d) /\ 2 \in 1..Len(d)
      BY <2>3, <2>6
    <3>2. d[1] = "["
      BY <2>3, <3>1
    <3>3. d[2] # "["
      BY <2>4, <3>1 DEF Nested
    <3>4. Len(d) = 2
      BY <2>3, <3>1, <3>3
    <3>5. Kind(d) = "L"
      BY <2>3, <3>2 DEF Kind
    <3>6. d # <<"L">>
      BY <3>4
    <3> QED BY <1>1, <2>2, <2>3, <2>4, <3>2, <3>4, <3>5, <3>6
  <2> QED BY <2>5, <2>6
<1>11. \A k \in 0..n : Understood(params, types, k, st[Len(text[k])])
  <2> DEFINE S == {k \in 0..n : ~Understood(params, types, k, st[Len(text[k])])}
  <2>1. SUFFICES ASSUME S # {} PROVE FALSE
    OBVIOUS
  <2>2. S \subseteq Nat
    OBVIOUS
  <2>3. PICK x \in S : \A y \in S : ~(y < x)
    <3> HIDE DEF S
    <3> QED BY <2>1, <2>2, LeastNat
  <2>4. x # 0
    <3>1. Understood(params, types, 0, Start)
      <4>1. Start.skip = FALSE /\ Start.slot = 0 /\ Start.slots = <<>>
        BY DEF Start
      <4>2. ObjectsTo(params, 0) = {}
        BY DEF ObjectsTo
      <4>3. Cardinality({}) = 0
        BY FS_EmptySet
      <4>4. SlotOf(types, 0 + 1) = 0
        BY FirstSlot
      <4>5. <<>> \in Seq(Nat) /\ Len(<<>>) = 0
        BY EmptySeq
      <4> QED BY <4>1, <4>2, <4>3, <4>4, <4>5 DEF Understood
    <3>2. text[0] = <<>> /\ Len(<<>>) = 0 /\ st[0] = Start
      BY <1>5, <1>8, EmptySeq DEF Texts, Parses
    <3> QED BY <2>3, <3>1, <3>2
  <2>5. x \in 1..n /\ x - 1 \in 0..n /\ x - 1 < x /\ (x - 1) + 1 = x /\ x - 1 \in Nat /\ x \in 0..n
    BY <2>3, <2>4
  <2>6. PICK i0 \in Nat : i0 = x - 1
    BY <2>5
  <2>7. PICK a \in Nat : a = Len(text[i0])
    BY <1>6, <2>5, <2>6
  <2>8. PICK s : s = st[a]
    OBVIOUS
  <2>9. Understood(params, types, i0, s)
    BY <2>3, <2>5, <2>6, <2>7, <2>8
  <2>10. PICK d : d = params[x]
    OBVIOUS
  <2>11. /\ d \in Seq(C) /\ types[x] = Kind(d)
         /\ \/ /\ d = <<d[1]>> /\ Len(d) = 1 /\ d[1] \in {"I", "J", "L"} /\ Kind(d) = d[1]
            \/ /\ Len(d) = 2 /\ d[1] = "[" /\ Kind(d) = "L" /\ d # <<"L">>
    BY <1>10, <2>5, <2>10
  <2>12. /\ Len(text[x]) = a + Len(d)
         /\ \A p \in 1..Len(d) : text[x][a + p] = d[p]
    <3>1. PICK t : t = text[i0]
      OBVIOUS
    <3>2. t \in Seq(C) /\ a = Len(t) /\ Len(d) \in Nat
      BY <1>6, <2>5, <2>6, <2>7, <2>11, <3>1
    <3>3. text[x] = t \o d
      BY <1>5, <2>5, <2>6, <2>10, <3>1 DEF Texts
    <3>4. /\ Len(t \o d) = Len(t) + Len(d)
          /\ \A p \in 1..(Len(t) + Len(d)) : (t \o d)[p] = IF p <= Len(t) THEN t[p] ELSE d[p - Len(t)]
      BY <2>11, <3>2, ConcatProperties
    <3>5. ASSUME NEW p \in 1..Len(d) PROVE (t \o d)[a + p] = d[p]
      <4>1. a + p \in 1..(Len(t) + Len(d)) /\ ~(a + p <= Len(t)) /\ (a + p) - Len(t) = p
        BY <3>2
      <4> QED BY <3>4, <4>1
    <3> QED BY <3>2, <3>3, <3>4, <3>5
  <2>13. a + Len(d) <= L /\ Len(d) \in Nat /\ \A p \in 1..Len(d) : text[n][a + p] = d[p]
    <3>1. Len(d) \in Nat
      BY <2>11
    <3>2. a + Len(d) <= L /\ \A p \in 1..(a + Len(d)) : text[n][p] = text[x][p]
      BY <1>9, <2>5, <2>12
    <3>3. ASSUME NEW p \in 1..Len(d) PROVE text[n][a + p] = d[p]
      <4>1. a + p \in 1..(a + Len(d))
        BY <3>1
      <4> QED BY <2>12, <3>2, <4>1
    <3> QED BY <3>1, <3>2, <3>3
  <2>14. CASE d = <<d[1]>> /\ Len(d) = 1 /\ d[1] \in {"I", "J", "L"} /\ Kind(d) = d[1]
    <3>1. PICK ch \in {"I", "J", "L"} : ch = d[1]
      BY <2>14
    <3>2. text[n][a + 1] = ch /\ a + 1 \in 1..L /\ (a + 1) - 1 = a
      BY <2>13, <2>14, <3>1
    <3>3. st[a + 1] = ParseStep(s, ch)
      BY <1>8, <2>8, <3>2 DEF Parses
    <3>4. PICK r : r = st[a + 1]
      OBVIOUS
    <3>5. params[i0 + 1] = <<ch>> /\ types[i0 + 1] = ch
      BY <2>5, <2>6, <2>10, <2>11, <2>14, <3>1
    <3>6. Understood(params, types, i0 + 1, r)
      BY <2>9, <3>3, <3>4, <3>5, UnderstandPlain
    <3>7. Len(text[x]) = a + 1 /\ i0 + 1 = x
      BY <2>5, <2>6, <2>12, <2>14
    <3> QED BY <2>3, <3>4, <3>6, <3>7
  <2>15. CASE Len(d) = 2 /\ d[1] = "[" /\ Kind(d) = "L" /\ d # <<"L">>
    <3>1. PICK ch : ch = d[2]
      OBVIOUS
    <3>2. /\ text[n][a + 1] = "[" /\ a + 1 \in 1..L /\ (a + 1) - 1 = a
          /\ text[n][a + 2] = ch /\ a + 2 \in 1..L /\ (a + 2) - 1 = a + 1
      BY <2>13, <2>15, <3>1
    <3>3. st[a + 1] = ParseStep(s, "[")
      BY <1>8, <2>8, <3>2 DEF Parses
    <3>4. PICK q : q = st[a + 1]
      OBVIOUS
    <3>5. st[a + 2] = ParseStep(q, ch)
      BY <1>8, <3>2, <3>4 DEF Parses
    <3>6. PICK r : r = st[a + 2]
      OBVIOUS
    <3>7. params[i0 + 1] # <<"L">> /\ types[i0 + 1] = "L"
      BY <2>5, <2>6, <2>10, <2>11, <2>15
    <3>8. Understood(params, types, i0 + 1, r)
      BY <2>9, <3>3, <3>4, <3>5, <3>6, <3>7, UnderstandArray
    <3>9. Len(text[x]) = a + 2 /\ i0 + 1 = x
      BY <2>5, <2>6, <2>12, <2>15
    <3> QED BY <2>3, <3>6, <3>8, <3>9
  <2> QED BY <2>11, <2>14, <2>15
<1>12. Understood(params, types, n, st[L])
  BY <1>4, <1>7, <1>11
<1>13. i \in 1..n /\ i \in ObjectsTo(params, n)
  BY <1>1, <1>3, <1>4 DEF ObjectsTo
<1>14. /\ ReferenceSlots(params) \in Seq(Nat) /\ Len(ReferenceSlots(params)) = Cardinality(ObjectsTo(params, n))
       /\ ReferenceSlots(params)[Cardinality(ObjectsTo(params, i))] = SlotOf(types, i)
  BY <1>8, <1>12, <1>13 DEF Understood
<1>15. Cardinality(ObjectsTo(params, i)) \in 1..Cardinality(ObjectsTo(params, n))
  BY <1>13, ObjectsCount
<1>16. DOMAIN ReferenceSlots(params) = 1..Len(ReferenceSlots(params))
  BY <1>14, LenProperties
<1> QED BY <1>1, <1>2, <1>14, <1>15, <1>16

\* get_arguments() delivers them.
LEMMA GetArgumentsRight ==
    ASSUME ArgsKept, GetArguments
    PROVE  ReferencesRight'
<1>1. PICK m : m = method
  OBVIOUS
<1>2. m \in Method /\ method' = m /\ mishap' = mishap /\ shift' = shift
  BY <1>1 DEF ArgsKept, GetArguments, Calls, call
<1>3. PICK slots : slots = ReferenceSlots(m.params)
  OBVIOUS
<1>4. PICK want : want = wanted
  OBVIOUS
<1>5. PICK types : types = Types(m)
  OBVIOUS
<1>6. /\ references'.due = want
      /\ references'.got = IF LocalsFound THEN [k \in DOMAIN slots |-> DecodeOop(LocalAt(slots[k]))] ELSE <<>>
  BY <1>1, <1>3, <1>4 DEF GetArguments
<1>7. SUFFICES ASSUME references'.got # <<>>, m.static, "pointer" \notin mishap,
                      shift = 0 \/ \A k \in DOMAIN want : types[k] = "L" => want[k] \notin 1..NarrowMax,
                      \A k \in DOMAIN m.params : ~Nested(m.params[k]),
                      NEW i \in DOMAIN m.params, m.params[i] = <<"L">>
               PROVE  references'.got[Cardinality({j \in {k \in DOMAIN m.params : m.params[k] = <<"L">>} : j <= i})] = want[i]
  BY <1>2, <1>5, <1>6 DEF ReferencesRight, Unambiguous, Objects
<1>8. references'.got = [k \in DOMAIN slots |-> DecodeOop(LocalAt(slots[k]))]
  BY <1>6, <1>7
<1>9. DOMAIN m.params = 1..Len(m.params) /\ Len(m.params) \in Nat
  BY <1>2, MethodAssumption, LenProperties
<1>10. {j \in {k \in DOMAIN m.params : m.params[k] = <<"L">>} : j <= i} = ObjectsTo(m.params, i)
  BY <1>9 DEF ObjectsTo
<1>11. PICK c : c = Cardinality(ObjectsTo(m.params, i))
  OBVIOUS
<1>12. c \in DOMAIN slots /\ slots[c] = SlotOf(types, i)
  BY <1>2, <1>3, <1>5, <1>7, <1>11, ReferencesFound
<1>13. types \in Seq({"I", "J", "L"}) /\ i \in DOMAIN types /\ types[i] = Kind(m.params[i])
  BY <1>2, <1>5, <1>7, TypesType
<1>14. types[i] = "L"
  BY <1>7, <1>13 DEF Kind
<1>15. ValueSlot(types, i) = SlotOf(types, i) /\ SlotOf(types, i) \in DOMAIN locals
  <2>1. SlotOf(types, i) \in Nat /\ ValueSlot(types, i) \in 0..(Slots(types) - 1)
    BY <1>13, ValueSlots
  <2>2. ValueSlot(types, i) = SlotOf(types, i)
    BY <1>14, <2>1 DEF ValueSlot
  <2>3. DOMAIN locals = 0..(Slots(types) - 1)
    BY <1>1, <1>5 DEF ArgsKept
  <2> QED BY <2>1, <2>2, <2>3
<1>a. want \in Arguments(types) /\ i \notin narrow
  BY <1>1, <1>4, <1>5, <1>14 DEF ArgsKept
<1>b. i \in DOMAIN want
  BY <1>13, <1>a, ArgumentsType
<1>16. locals[ValueSlot(types, i)] = want[i]
  <2>1. ReadAs(types[i], locals[ValueSlot(types, i)]) = Delivered[i]
    BY <1>1, <1>5, <1>7, <1>13 DEF ArgsKept
  <2>2. Delivered[i] = want[i]
    BY <1>4, <1>a, <1>b DEF Delivered
  <2> QED BY <1>14, <2>1, <2>2 DEF ReadAs
<1>17. LocalAt(slots[c]) = want[i]
  BY <1>12, <1>15, <1>16 DEF LocalAt
<1>18. want[i] \in Object \cup {Null} /\ i \in DOMAIN want
  <2>1. want[i] \in Values(types[i])
    BY <1>13, <1>a, ArgumentsType
  <2> QED BY <1>14, <1>b, <2>1 DEF Values
<1>19. DecodeOop(want[i]) = want[i]
  BY <1>7, <1>14, <1>18, DecodeExact
<1> QED BY <1>8, <1>10, <1>11, <1>12, <1>17, <1>19

DecodeInv == CallInv /\ SeenRight /\ ReferencesRight

LEMMA InitDecode == Init => SeenRight /\ ReferencesRight
BY DEF Init, SeenRight, ReferencesRight

\* Only EnterDetour and GetArguments read the arguments; what they read is kept.
LEMMA StepDecode == ArgsKept /\ SeenRight /\ ReferencesRight /\ [Next]_vars => SeenRight' /\ ReferencesRight'
<1> SUFFICES ASSUME ArgsKept, SeenRight, ReferencesRight, [Next]_vars PROVE SeenRight' /\ ReferencesRight'
  OBVIOUS
<1>1. UNCHANGED call
  BY DEF vars, Next, EnterDetour, GetArguments, Cancel, LeaveDetour, DetourThrows, Leaves, Resume, ReturnCancelled, SetArg,
         SetArgBeyond, SetReturn, Trace, Calls
<1>2. method' = method /\ passed' = passed /\ localsWord' = localsWord /\ shift' = shift
  BY <1>1 DEF call
<1>3. EnterDetour \/ (seen' = seen /\ (pc # "call" \/ pc' = pc))
  BY DEF vars, Next, EnterDetour, GetArguments, Cancel, LeaveDetour, DetourThrows, Leaves, Resume, ReturnCancelled, SetArg,
         SetArgBeyond, SetReturn, Trace, Calls
<1>4. GetArguments \/ references' = references
  BY DEF vars, Next, EnterDetour, Cancel, LeaveDetour, DetourThrows, Leaves, Resume, ReturnCancelled, SetArg,
         SetArgBeyond, SetReturn, Trace, Calls
<1>5. mishap \subseteq mishap'
  BY DEF vars, Next, EnterDetour, GetArguments, Cancel, LeaveDetour, DetourThrows, Leaves, Resume, ReturnCancelled, SetArg,
         SetArgBeyond, SetReturn, Trace, Calls
<1>6. SeenRight'
  <2>1. Unambiguous(passed)' = Unambiguous(passed) /\ LocalsFound' = LocalsFound
    BY <1>2 DEF Unambiguous, LocalsFound
  <2>2. CASE EnterDetour
    BY <1>2, <2>1, <2>2, EnterSees DEF SeenRight
  <2>3. CASE seen' = seen /\ (pc # "call" \/ pc' = pc)
    BY <1>2, <2>1, <2>3 DEF SeenRight
  <2> QED BY <1>3, <2>2, <2>3
<1>7. ReferencesRight'
  <2>1. CASE GetArguments
    BY <2>1, GetArgumentsRight
  <2>2. CASE references' = references
    BY <1>2, <1>5, <2>2 DEF ReferencesRight, Unambiguous, Objects
  <2> QED BY <1>4, <2>1, <2>2
<1> QED BY <1>6, <1>7

\* The typed arguments of a detour are those that were passed, or all defaults where get_locals() finds
\* no locals, whatever longs and doubles there are; get_arguments() without types finds the objects
\* among the arguments of a static method without arrays of arrays, also after set_arg().
THEOREM ArgumentsArrive == Spec => []ArgsDecoded
<1>1. Init => DecodeInv
  BY InitCall, InitDecode DEF DecodeInv
<1>2. DecodeInv /\ [Next]_vars => DecodeInv'
  BY StepCall, StepDecode DEF DecodeInv, CallInv
<1>3. DecodeInv => ArgsDecoded
  BY DEF DecodeInv, SeenRight, ReferencesRight, ArgsDecoded
<1> QED BY <1>1, <1>2, <1>3, PTL DEF Spec

-----------------------------------------------------------------------------
(* Stack traces.                                                           *)

\* The chain of saved rbps that stack_trace() follows.
Follows(kinds, saved, max, path) ==
    /\ path[0] = Bases[1]
    /\ \A d \in 1..max : path[d] = IF path[d - 1] = Null THEN Null ELSE NextFrame(kinds, saved, path[d - 1])

LEMMA BasesFacts ==
    /\ Len(Bases) \in Nat \ {0} /\ DOMAIN Bases = 1..Len(Bases) /\ 1 \in DOMAIN Bases
    /\ \A i \in DOMAIN Bases : Bases[i] \in Nat /\ Bases[i] # Null
    /\ Dead \in Nat /\ Dead < Bases[1]
    /\ \A i, j \in DOMAIN Bases : (i < j => Bases[i] < Bases[j]) /\ (Bases[i] = Bases[j] => i = j)
<1>1. Bases \in Seq(Nat \ {Null}) /\ Bases # <<>>
  BY DispatchFrameAssumption
<1>2. Len(Bases) \in Nat \ {0} /\ DOMAIN Bases = 1..Len(Bases)
  BY <1>1, EmptySeq, LenProperties
<1>3. 1 \in DOMAIN Bases
  BY <1>2
<1>4. \A i \in DOMAIN Bases : Bases[i] \in Nat /\ Bases[i] # Null
  BY <1>1, <1>2, ElementOfSeq
<1>5. Dead \in Nat /\ Dead < Bases[1]
  BY <1>3, <1>4 DEF Dead, Null
<1>6. \A i, j \in DOMAIN Bases : i < j => Bases[i] < Bases[j]
  BY DispatchFrameAssumption
<1>7. ASSUME NEW i \in DOMAIN Bases, NEW j \in DOMAIN Bases, Bases[i] = Bases[j] PROVE i = j
  <2>1. i \in Nat /\ j \in Nat /\ Bases[i] \in Nat /\ Bases[j] \in Nat
    BY <1>2, <1>4
  <2>2. ~(i < j) /\ ~(j < i)
    BY <1>6, <1>7, <2>1
  <2> QED BY <2>1, <2>2
<1> QED BY <1>2, <1>3, <1>4, <1>5, <1>6, <1>7

\* The saved word of a frame.
LEMMA SavedFacts ==
    ASSUME NEW kinds, NEW saved \in Chains(kinds)
    PROVE  /\ \A base : SavedAt(saved, base) \in Nat
           /\ \A i \in 1..(Len(Bases) - 1) : /\ SavedAt(saved, Bases[i]) = saved[i]
                                             /\ kinds[i] /\ kinds[i + 1] => saved[i] = Bases[i + 1]
<1>1. /\ saved \in [1..(Len(Bases) - 1) -> Words]
      /\ \A i \in DOMAIN saved : IF ~kinds[i] THEN saved[i] = Null ELSE kinds[i + 1] => saved[i] = Bases[i + 1]
  BY DEF Chains
<1>2. DOMAIN saved = 1..(Len(Bases) - 1)
  BY <1>1
<1>3. Words \subseteq Nat
  BY BasesFacts DEF Words, Null
<1>4. ASSUME NEW base PROVE SavedAt(saved, base) \in Nat
  <2>1. CASE \E i \in DOMAIN saved : Bases[i] = base
    <3>1. PICK c : c = CHOOSE i \in DOMAIN saved : Bases[i] = base
      OBVIOUS
    <3>2. c \in DOMAIN saved
      BY <2>1, <3>1
    <3>3. SavedAt(saved, base) = saved[c]
      BY <2>1, <3>1 DEF SavedAt
    <3> QED BY <1>1, <1>3, <3>2, <3>3
  <2>2. CASE ~\E i \in DOMAIN saved : Bases[i] = base
    BY <2>2 DEF SavedAt, Null
  <2> QED BY <2>1, <2>2
<1>5. ASSUME NEW i \in 1..(Len(Bases) - 1) PROVE SavedAt(saved, Bases[i]) = saved[i]
  <2>1. PICK base : base = Bases[i]
    OBVIOUS
  <2>2. PICK c : c = CHOOSE j \in DOMAIN saved : Bases[j] = base
    OBVIOUS
  <2>3. c \in DOMAIN saved /\ Bases[c] = base
    BY <1>2, <2>1, <2>2
  <2>4. i \in DOMAIN Bases /\ c \in DOMAIN Bases
    BY <1>2, <2>3, BasesFacts
  <2>5. c = i
    BY <2>1, <2>3, <2>4, BasesFacts
  <2>6. SavedAt(saved, base) = saved[c]
    BY <1>2, <2>1, <2>2 DEF SavedAt
  <2> QED BY <2>1, <2>5, <2>6
<1> QED BY <1>1, <1>2, <1>4, <1>5

LEMMA NextFrameFacts ==
    ASSUME NEW kinds, NEW saved \in Chains(kinds), NEW base
    PROVE  /\ NextFrame(kinds, saved, base) \in Nat
           /\ NextFrame(kinds, saved, base) # Null =>
                 /\ NextFrame(kinds, saved, base) > base
                 /\ NextFrame(kinds, saved, base) \in Live(kinds) \cup {Dead}
<1>1. PICK up \in Nat : up = SavedAt(saved, base)
  BY SavedFacts
<1>2. NextFrame(kinds, saved, base) =
          IF up > base /\ up - base <= MaxGap /\ MethodAt(kinds, up) THEN up ELSE Null
  BY <1>1 DEF NextFrame
<1>3. Null \in Nat
  BY DEF Null
<1> QED BY <1>1, <1>2, <1>3 DEF MethodAt

\* Following a chain of words from a base for max steps.
Climbable(S, up, base) == base \in S /\ up \in [S -> S]
Climbs(S, up, base, max, path) ==
    path \in [0..max -> S] /\ path[0] = base /\ \A k \in 1..max : path[k] = up[path[k - 1]]

LEMMA ClimbRuns ==
    ASSUME NEW S, NEW base \in S, NEW up, Climbable(S, up, base), NEW max \in Nat
    PROVE  \E path : Climbs(S, up, base, max, path)
<1> USE DEF Climbable, Climbs
<1> DEFINE step == [k \in 1..max |-> up]
<1>1. step \in [1..max -> [S -> S]]
  OBVIOUS
<1>2. PICK path \in [0..max -> S] : path[0] = base /\ \A k \in 1..max : path[k] = step[k][path[k - 1]]
  <2> HIDE DEF step, Climbable, Climbs
  <2> QED BY <1>1, LoopRuns
<1> QED BY <1>2

\* The trace is the part of the chain before the first word that is not accepted.
LEMMA TraceFollows ==
    ASSUME NEW kinds, NEW saved \in Chains(kinds), NEW max \in Nat
    PROVE  \E path : /\ Follows(kinds, saved, max, path)
                     /\ StackTrace(kinds, saved, max) =
                           [d \in 1..Cardinality({d \in 1..max : path[d] # Null}) |-> path[d]]
<1> DEFINE up(s) == IF s = Null THEN Null ELSE NextFrame(kinds, saved, s)
<1>1. \A s \in Nat : up(s) \in Nat
  BY NextFrameFacts DEF Null
<1> HIDE DEF up
<1>2. PICK F \in [Nat -> Nat] : F = [s \in Nat |-> up(s)]
  BY <1>1
<1>3. PICK base \in Nat : base = Bases[1]
  BY BasesFacts
<1>4. PICK p : Climbs(Nat, F, base, max, p)
  <2>1. Climbable(Nat, F, base)
    BY DEF Climbable
  <2> QED BY <2>1, ClimbRuns
<1>5. ASSUME NEW k \in 1..max PROVE p[k] = up(p[k - 1])
  <2>1. k - 1 \in 0..max
    OBVIOUS
  <2>2. p[k - 1] \in Nat
    BY <1>4, <2>1 DEF Climbs
  <2> QED BY <1>2, <1>4, <2>2 DEF Climbs
<1>6. p = [d \in 0..max |-> IF d = 0 THEN base ELSE up(p[d - 1])]
  <2>1. ASSUME NEW d \in 0..max PROVE p[d] = IF d = 0 THEN base ELSE up(p[d - 1])
    BY <1>4, <1>5 DEF Climbs
  <2> QED BY <1>4, <2>1 DEF Climbs
<1> DEFINE w == CHOOSE f : f = [d \in 0..max |-> IF d = 0 THEN base ELSE up(f[d - 1])]
<1>7. w = [d \in 0..max |-> IF d = 0 THEN base ELSE up(w[d - 1])]
  <2>1. \E f : f = [d \in 0..max |-> IF d = 0 THEN base ELSE up(f[d - 1])]
    BY <1>6
  <2> QED BY <2>1
<1>8. StackTrace(kinds, saved, max) = [d \in 1..Cardinality({d \in 1..max : w[d] # Null}) |-> w[d]]
  BY <1>3 DEF StackTrace, up
<1> HIDE DEF w
<1>9. Follows(kinds, saved, max, w)
  <2>1. w[0] = Bases[1]
    BY <1>3, <1>7
  <2>2. ASSUME NEW d \in 1..max PROVE w[d] = up(w[d - 1])
    <3>1. d \in 0..max /\ d # 0
      OBVIOUS
    <3> QED BY <1>7, <3>1
  <2> QED BY <2>1, <2>2 DEF Follows, up
<1> QED BY <1>8, <1>9

\* Every frame on the chain is live, and above the one before it.
LEMMA FollowsClimbs ==
    ASSUME NEW kinds, NEW saved \in Chains(kinds), NEW max \in Nat, NEW path, Follows(kinds, saved, max, path)
    PROVE  /\ \A d \in 0..max : path[d] \in Nat
           /\ \A d \in 1..max : path[d] # Null => /\ path[d - 1] # Null /\ path[d - 1] < path[d]
                                                  /\ path[d] \in Live(kinds)
<1>1. ASSUME NEW d \in 1..max
      PROVE  /\ path[d] \in Nat
             /\ path[d] # Null => path[d - 1] # Null /\ path[d] > path[d - 1] /\ path[d] \in Live(kinds) \cup {Dead}
  <2>1. path[d] = IF path[d - 1] = Null THEN Null ELSE NextFrame(kinds, saved, path[d - 1])
    BY DEF Follows
  <2>2. PICK b : b = path[d - 1]
    OBVIOUS
  <2>3. /\ NextFrame(kinds, saved, b) \in Nat
        /\ NextFrame(kinds, saved, b) # Null =>
              /\ NextFrame(kinds, saved, b) > b /\ NextFrame(kinds, saved, b) \in Live(kinds) \cup {Dead}
    BY NextFrameFacts
  <2> QED BY <2>1, <2>2, <2>3 DEF Null
<1>2. path[0] = Bases[1] /\ Bases[1] \in Nat
  BY BasesFacts DEF Follows
<1>3. ASSUME NEW d \in 0..max PROVE path[d] \in Nat
  BY <1>1, <1>2
<1> DEFINE bad == {d \in 0..max : path[d] # Null /\ path[d] < Bases[1]}
<1>4. bad = {}
  <2>1. SUFFICES ASSUME bad # {} PROVE FALSE
    OBVIOUS
  <2>2. bad \subseteq Nat
    OBVIOUS
  <2>3. PICK x \in bad : \A y \in bad : ~(y < x)
    <3> HIDE DEF bad
    <3> QED BY <2>1, <2>2, LeastNat
  <2>4. x \in 1..max
    BY <1>2
  <2>5. x - 1 \in 0..max /\ x - 1 < x
    BY <2>4
  <2>6. path[x - 1] # Null /\ path[x - 1] < path[x]
    BY <1>1, <1>3, <2>4, <2>5
  <2>7. path[x - 1] \in Nat /\ path[x] \in Nat
    BY <1>3, <2>5
  <2>8. x - 1 \in bad
    BY <1>2, <2>5, <2>6, <2>7
  <2> QED BY <2>3, <2>5, <2>8
<1>5. ASSUME NEW d \in 1..max, path[d] # Null
      PROVE  path[d - 1] # Null /\ path[d - 1] < path[d] /\ path[d] \in Live(kinds)
  <2>1. path[d - 1] # Null /\ path[d] > path[d - 1] /\ path[d] \in Live(kinds) \cup {Dead}
    BY <1>1, <1>5
  <2>2. path[d] \in Nat /\ path[d - 1] \in Nat
    BY <1>3
  <2>3. ~(path[d] < Bases[1])
    BY <1>4, <1>5
  <2>4. path[d] # Dead
    BY <1>2, <2>2, <2>3, BasesFacts
  <2> QED BY <2>1, <2>2, <2>4
<1> QED BY <1>3, <1>5

\* The frames found are the first ones of the chain.
LEMMA FollowsPrefix ==
    ASSUME NEW kinds, NEW saved \in Chains(kinds), NEW max \in Nat, NEW path, Follows(kinds, saved, max, path)
    PROVE  \E c \in 0..max : /\ Cardinality({d \in 1..max : path[d] # Null}) = c
                             /\ \A d \in 1..max : path[d] # Null <=> d <= c
<1> DEFINE ends == {d \in 1..(max + 1) : d = max + 1 \/ path[d] = Null}
<1>1. ends \subseteq Nat /\ max + 1 \in ends
  OBVIOUS
<1>2. PICK x \in ends : \A y \in ends : ~(y < x)
  <2> HIDE DEF ends
  <2> QED BY <1>1, LeastNat
<1>3. x \in 1..(max + 1) /\ (x = max + 1 \/ path[x] = Null)
  OBVIOUS
<1>4. ASSUME NEW d \in 1..max, d < x PROVE path[d] # Null
  BY <1>2, <1>4
<1> DEFINE back == {d \in x..max : path[d] # Null}
<1>5. back = {}
  <2>1. SUFFICES ASSUME back # {} PROVE FALSE
    OBVIOUS
  <2>2. back \subseteq Nat
    BY <1>3
  <2>3. PICK z \in back : \A y \in back : ~(y < z)
    <3> HIDE DEF back
    <3> QED BY <2>1, <2>2, LeastNat
  <2>4. z \in 1..max /\ z > x
    BY <1>3
  <2>5. path[z - 1] # Null
    BY <2>4, FollowsClimbs
  <2>6. z - 1 \in x..max /\ z - 1 < z
    BY <1>3, <2>4
  <2> QED BY <2>3, <2>5, <2>6
<1>6. ASSUME NEW d \in 1..max PROVE path[d] # Null <=> d <= x - 1
  <2>1. CASE d < x
    BY <1>3, <1>4, <2>1
  <2>2. CASE ~(d < x)
    <3>1. d \in x..max
      BY <1>3, <2>2
    <3> QED BY <1>3, <1>5, <2>2, <3>1
  <2> QED BY <2>1, <2>2
<1>7. {d \in 1..max : path[d] # Null} = 1..(x - 1)
  <2>1. x - 1 <= max /\ x - 1 \in 0..max
    BY <1>3
  <2>2. \A d : d \in 1..(x - 1) <=> d \in 1..max /\ d <= x - 1
    BY <2>1
  <2> QED BY <1>6, <2>2
<1>8. Cardinality(1..(x - 1)) = x - 1
  <2>1. x - 1 \in Nat
    BY <1>3
  <2>2. Cardinality(1..(x - 1)) = IF 1 > x - 1 THEN 0 ELSE (x - 1) - 1 + 1
    BY <2>1, FS_Interval
  <2> QED BY <2>1, <2>2
<1>9. PICK c \in 0..max : c = x - 1
  BY <1>3
<1>10. Cardinality({d \in 1..max : path[d] # Null}) = c /\ \A d \in 1..max : path[d] # Null <=> d <= c
  BY <1>6, <1>7, <1>8, <1>9
<1> QED BY <1>10

\* The frames before the first compiled one, and not too far from each other.
Near(kinds, max, i) ==
    /\ i \in 2..Len(Bases) /\ i <= max + 1
    /\ \A j \in 2..i : kinds[j] /\ Bases[j] - Bases[j - 1] <= MaxGap

\* The chain goes through every frame up to the first compiled one.
LEMMA FollowsNear ==
    ASSUME NEW kinds \in [DOMAIN Bases -> BOOLEAN], kinds[1], NEW saved \in Chains(kinds), NEW max \in Nat,
           NEW path, Follows(kinds, saved, max, path), NEW i, Near(kinds, max, i)
    PROVE  \A j \in 1..i : path[j - 1] = Bases[j]
<1>1. i \in 2..Len(Bases) /\ i <= max + 1 /\ \A j \in 2..i : kinds[j] /\ Bases[j] - Bases[j - 1] <= MaxGap
  BY DEF Near
<1>2. PICK n \in Nat : n = Len(Bases) /\ DOMAIN Bases = 1..n
  BY BasesFacts
<1> DEFINE bad == {j \in 1..i : path[j - 1] # Bases[j]}
<1>3. SUFFICES ASSUME bad # {} PROVE FALSE
  OBVIOUS
<1>4. bad \subseteq Nat
  BY <1>1, <1>2
<1>5. PICK x \in bad : \A y \in bad : ~(y < x)
  <2> HIDE DEF bad
  <2> QED BY <1>3, <1>4, LeastNat
<1>6. x \in 2..i
  <2>1. x # 1
    BY <1>5 DEF Follows
  <2> QED BY <1>1, <1>2, <2>1
<1>7. PICK k : k = x - 1
  OBVIOUS
<1>8. /\ k \in 1..max /\ k \in 1..(n - 1) /\ k \in 1..i /\ k < x /\ x = k + 1
      /\ k \in DOMAIN Bases /\ x \in DOMAIN Bases /\ k \notin bad
  <2>1. k \in 1..max /\ k \in 1..(n - 1) /\ k \in 1..i /\ k < x /\ x = k + 1
    BY <1>1, <1>2, <1>6, <1>7
  <2>2. k \in DOMAIN Bases /\ x \in DOMAIN Bases
    BY <1>1, <1>2, <1>6, <2>1
  <2> QED BY <1>5, <2>1, <2>2
<1>9. path[k - 1] = Bases[k]
  BY <1>8
<1>10. kinds[k] /\ kinds[x]
  <2>1. kinds[x]
    BY <1>1, <1>6
  <2>2. k = 1 \/ k \in 2..i
    BY <1>1, <1>2, <1>8
  <2> QED BY <1>1, <2>1, <2>2
<1>11. SavedAt(saved, Bases[k]) = Bases[x]
  <2>1. SavedAt(saved, Bases[k]) = saved[k] /\ (kinds[k] /\ kinds[k + 1] => saved[k] = Bases[k + 1])
    BY <1>2, <1>8, SavedFacts
  <2> QED BY <1>8, <1>10, <2>1
<1>12. Bases[x] - Bases[k] <= MaxGap
  BY <1>1, <1>6, <1>7
<1>13. Bases[x] > Bases[k] /\ Bases[k] # Null
  BY <1>8, BasesFacts
<1>14. MethodAt(kinds, Bases[x])
  BY <1>8, <1>10 DEF MethodAt, Live
<1>15. NextFrame(kinds, saved, Bases[k]) = Bases[x]
  BY <1>11, <1>12, <1>13, <1>14 DEF NextFrame
<1>16. path[k] = Bases[x]
  BY <1>8, <1>9, <1>13, <1>15 DEF Follows
<1> QED BY <1>5, <1>7, <1>16

\* What TraceSound says of one trace.
Sound(kinds, max, frames, caller) ==
    /\ \A i \in DOMAIN frames :
          /\ frames[i] \in Live(kinds)
          /\ (IF i = 1 THEN Bases[1] ELSE frames[i - 1]) < frames[i]
    /\ Len(frames) <= max
    /\ \A i : Near(kinds, max, i) => Len(frames) >= i - 1 /\ frames[i - 1] = Bases[i]
    /\ Near(kinds, max, 2) => caller = frames[1]

LEMMA TraceIsSound ==
    ASSUME NEW kinds \in [DOMAIN Bases -> BOOLEAN], kinds[1], NEW saved \in Chains(kinds), NEW max \in Nat
    PROVE  Sound(kinds, max, StackTrace(kinds, saved, max), CallerOf(kinds, saved))
<1>1. PICK path : /\ Follows(kinds, saved, max, path)
                  /\ StackTrace(kinds, saved, max) =
                        [d \in 1..Cardinality({d \in 1..max : path[d] # Null}) |-> path[d]]
  BY TraceFollows
<1>2. PICK c \in 0..max : /\ Cardinality({d \in 1..max : path[d] # Null}) = c
                          /\ \A d \in 1..max : path[d] # Null <=> d <= c
  BY <1>1, FollowsPrefix
<1>3. PICK frames : frames = StackTrace(kinds, saved, max)
  OBVIOUS
<1>4. frames = [d \in 1..c |-> path[d]]
  BY <1>1, <1>2, <1>3
<1>5. DOMAIN frames = 1..c /\ Len(frames) = c /\ \A d \in 1..c : frames[d] = path[d]
  BY <1>4
<1>6. ASSUME NEW i \in DOMAIN frames
      PROVE  frames[i] \in Live(kinds) /\ (IF i = 1 THEN Bases[1] ELSE frames[i - 1]) < frames[i]
  <2>1. i \in 1..max /\ i <= c /\ i \in 1..c /\ (i = 1 \/ i - 1 \in 1..c)
    BY <1>2, <1>5
  <2>2. path[i - 1] < path[i] /\ path[i] \in Live(kinds)
    BY <1>1, <1>2, <2>1, FollowsClimbs
  <2>3. path[0] = Bases[1]
    BY <1>1 DEF Follows
  <2>4. CASE i = 1
    BY <1>5, <2>1, <2>2, <2>3, <2>4
  <2>5. CASE i # 1
    BY <1>5, <2>1, <2>2, <2>5
  <2> QED BY <2>4, <2>5
<1>7. ASSUME NEW i, Near(kinds, max, i)
      PROVE  Len(frames) >= i - 1 /\ frames[i - 1] = Bases[i]
  <2>1. i \in 2..Len(Bases) /\ i <= max + 1
    BY <1>7 DEF Near
  <2>2. i \in 1..i /\ i - 1 \in 1..max /\ i \in DOMAIN Bases
    BY <2>1, BasesFacts
  <2>3. path[i - 1] = Bases[i]
    BY <1>1, <1>7, <2>2, FollowsNear
  <2>4. path[i - 1] # Null
    BY <2>2, <2>3, BasesFacts
  <2>5. i - 1 <= c /\ i - 1 \in 1..c
    BY <1>2, <2>2, <2>4
  <2> QED BY <1>5, <2>3, <2>5
<1>8. ASSUME Near(kinds, max, 2) PROVE CallerOf(kinds, saved) = frames[1]
  <2>1. 2 \in 2..Len(Bases) /\ kinds[2]
    BY <1>8 DEF Near
  <2>2. frames[1] = Bases[2]
    <3>1. frames[2 - 1] = Bases[2]
      BY <1>7, <1>8
    <3> QED BY <3>1
  <2>3. 1 \in 1..(Len(Bases) - 1) /\ 2 \in DOMAIN Bases
    BY <2>1, BasesFacts
  <2>4. saved[1] = Bases[2]
    <3>1. kinds[1] /\ kinds[1 + 1] => saved[1] = Bases[1 + 1]
      BY <2>3, SavedFacts
    <3> QED BY <2>1, <3>1
  <2>5. MethodAt(kinds, saved[1])
    BY <2>1, <2>3, <2>4 DEF MethodAt, Live
  <2> QED BY <2>2, <2>4, <2>5 DEF CallerOf
<1>9. Len(frames) <= max
  BY <1>5
<1>10. Sound(kinds, max, frames, CallerOf(kinds, saved))
  BY <1>6, <1>7, <1>8, <1>9 DEF Sound
<1> QED BY <1>3, <1>10

\* Nothing was traced yet, or a trace of frames that all the bases belong to.
TraceInv ==
    \/ trace = [asked |-> 0, kinds |-> <<>>, frames |-> <<>>, caller |-> Null]
    \/ /\ trace.kinds \in [DOMAIN Bases -> BOOLEAN]
       /\ Sound(trace.kinds, trace.asked, trace.frames, trace.caller)

LEMMA StepTrace == TraceInv /\ [Next]_vars => TraceInv'
<1> SUFFICES ASSUME TraceInv, [Next]_vars PROVE TraceInv'
  OBVIOUS
<1>1. CASE UNCHANGED trace
  BY <1>1 DEF TraceInv
<1>2. ASSUME NEW max \in MaxDepth, Trace(max) PROVE TraceInv'
  <2>1. PICK kinds \in [DOMAIN Bases -> BOOLEAN] : \E saved \in Chains(kinds) :
           /\ kinds[1]
           /\ trace' = [asked |-> max, kinds |-> kinds, frames |-> StackTrace(kinds, saved, max),
                        caller |-> CallerOf(kinds, saved)]
    BY <1>2 DEF Trace
  <2>2. PICK saved \in Chains(kinds) :
           /\ kinds[1]
           /\ trace' = [asked |-> max, kinds |-> kinds, frames |-> StackTrace(kinds, saved, max),
                        caller |-> CallerOf(kinds, saved)]
    BY <2>1
  <2>3. max \in Nat
    BY DispatchFrameAssumption
  <2>4. Sound(kinds, max, StackTrace(kinds, saved, max), CallerOf(kinds, saved))
    BY <2>2, <2>3, TraceIsSound
  <2>5. /\ trace'.kinds = kinds /\ trace'.asked = max
        /\ trace'.frames = StackTrace(kinds, saved, max) /\ trace'.caller = CallerOf(kinds, saved)
    BY <2>2
  <2> QED BY <2>4, <2>5 DEF TraceInv
<1>3. \/ UNCHANGED trace
      \/ \E max \in MaxDepth : Trace(max)
  BY DEF Next, vars, EnterDetour, GetArguments, Cancel, LeaveDetour, DetourThrows, Leaves, Resume, ReturnCancelled,
         SetArg, SetArgBeyond, SetReturn
<1> QED BY <1>1, <1>2, <1>3

LEMMA TraceInvSound == TraceInv => TraceSound
<1>1. ASSUME trace = [asked |-> 0, kinds |-> <<>>, frames |-> <<>>, caller |-> Null] PROVE TraceSound
  BY <1>1 DEF TraceSound
<1>2. ASSUME trace.kinds \in [DOMAIN Bases -> BOOLEAN],
             Sound(trace.kinds, trace.asked, trace.frames, trace.caller)
      PROVE  TraceSound
  <2>1. Len(trace.kinds) = Len(Bases)
    BY <1>2, BasesFacts
  <2> DEFINE near == {i \in 2..Len(trace.kinds) :
                         /\ i <= trace.asked + 1
                         /\ \A j \in 2..i : trace.kinds[j] /\ Bases[j] - Bases[j - 1] <= MaxGap}
  <2>2. \A i : i \in near <=> Near(trace.kinds, trace.asked, i)
    BY <2>1 DEF Near
  <2> HIDE DEF near
  <2>3. /\ \A i \in DOMAIN trace.frames :
              /\ trace.frames[i] \in Live(trace.kinds)
              /\ (IF i = 1 THEN Bases[1] ELSE trace.frames[i - 1]) < trace.frames[i]
        /\ Len(trace.frames) <= trace.asked
        /\ \A i \in near : Len(trace.frames) >= i - 1 /\ trace.frames[i - 1] = Bases[i]
        /\ 2 \in near => trace.caller = trace.frames[1]
    BY <1>2, <2>2 DEF Sound
  <2> QED BY <2>3 DEF TraceSound, near
<1> QED BY <1>1, <1>2 DEF TraceInv

\* A stack trace lists live callers from the nearest outwards, none twice and at most as many as asked
\* for, and all of them before the first compiled or too distant one; if the nearest caller is neither,
\* caller() is the first entry.  Of caller() above a compiled frame it says nothing.
THEOREM TracesSound == Spec => []TraceSound
<1>1. Init => TraceInv
  BY DEF Init, TraceInv
<1> QED BY <1>1, StepTrace, TraceInvSound, PTL DEF Spec

=============================================================================
