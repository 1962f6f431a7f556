--------------------------- MODULE MembarProofs ----------------------------
(***************************************************************************)
(* The barriers that the four analyses insert suffice, for any programs    *)
(* whose known parts of buffers agree: when an analysis is done, no path   *)
(* of a function has two accesses that need a barrier (a fence, a cluster  *)
(* barrier) between them and have none.                                    *)
(*                                                                         *)
(* The transfer function of a block is not monotone, and later visits add  *)
(* barriers.  So the invariant speaks of each block as it was visited last *)
(* (a certificate: what is pending between any two of its operations), and *)
(* more barriers never hurt a certificate.                                 *)
(***************************************************************************)
EXTENDS Membar, WellFoundedInduction, FiniteSetTheorems, TLAPS

\* A set of naturals that is not empty has a least element.
LEMMA LeastNatural ==
    ASSUME NEW S \in SUBSET Nat, S # {}
    PROVE  \E x \in S : \A y \in S : x =< y
  <1>1. PICK x \in S : \A y \in S : ~ (<<y, x>> \in OpToRel(<, Nat))
    BY WFMin, NatLessThanWellFounded
  <1>2. \A y \in S : ~ (y < x)
    BY <1>1 DEF OpToRel
  <1> QED
    BY <1>2

\* Induction over a set of naturals.
LEMMA SetInduction ==
    ASSUME NEW S \in SUBSET Nat, 0 \in S, \A n \in Nat : n \in S => n + 1 \in S
    PROVE  S = Nat
  <1> SUFFICES ASSUME Nat \ S # {} PROVE FALSE
    OBVIOUS
  <1>1. PICK x \in Nat \ S : \A y \in Nat \ S : x =< y
    BY LeastNatural
  <1>2. x # 0 /\ x - 1 \in Nat /\ ~ (x =< x - 1)
    BY <1>1
  <1>3. x - 1 \in S
    BY <1>1, <1>2
  <1>4. (x - 1) + 1 = x
    BY <1>1
  <1> QED
    BY <1>1, <1>2, <1>3, <1>4

-----------------------------------------------------------------------------
(* The recursive functions of the module                                   *)

\* A block is run through from its first operation to its last.
LEMMA BlockUpdateFrom ==
    ASSUME NEW b, Len(Code(func, b)) \in Nat
    PROVE  \E g : /\ g[0] = [info |-> inputs[b], inserted |-> inserted]
                  /\ \A i \in 1 .. Len(Code(func, b)) : g[i] = BlockStep(b, i, g[i - 1])
                  /\ BlockUpdate(b) = g[Len(Code(func, b))]
  <1> DEFINE base == [info |-> inputs[b], inserted |-> inserted]
             Is(g, k) == g = [i \in 0 .. k |-> IF i = 0 THEN base ELSE BlockStep(b, i, g[i - 1])]
             Good == {k \in Nat : \E g : Is(g, k)}
  <1> HIDE DEF base
  <1>1. 0 \in Good
    <2> DEFINE g == [i \in 0 .. 0 |-> base]
    <2>1. Is(g, 0)
      OBVIOUS
    <2> QED
      BY <2>1
  <1>2. ASSUME NEW k \in Nat, k \in Good PROVE k + 1 \in Good
    <2>1. PICK g : Is(g, k)
      BY <1>2
    <2> DEFINE h == [i \in 0 .. (k + 1) |-> IF i = k + 1 THEN BlockStep(b, i, g[k]) ELSE g[i]]
               r == [i \in 0 .. (k + 1) |-> IF i = 0 THEN base ELSE BlockStep(b, i, h[i - 1])]
    <2>2. ASSUME NEW i \in 0 .. (k + 1) PROVE h[i] = r[i]
      <3>1. CASE i = 0
        BY <2>1, <3>1
      <3>2. CASE i \in 1 .. k
        <4>1. i - 1 \in 0 .. (k + 1) /\ i - 1 # k + 1 /\ i # k + 1 /\ i # 0 /\ i \in 0 .. k
          BY <3>2
        <4>2. h[i - 1] = g[i - 1] /\ h[i] = g[i] /\ r[i] = BlockStep(b, i, h[i - 1])
          BY <4>1
        <4>3. g[i] = BlockStep(b, i, g[i - 1])
          BY <2>1, <4>1
        <4> QED
          BY <4>2, <4>3
      <3>3. CASE i = k + 1
        <4>1. i - 1 = k /\ k \in 0 .. (k + 1) /\ k # k + 1 /\ i # 0
          BY <3>3
        <4>2. h[k] = g[k] /\ r[i] = BlockStep(b, i, h[i - 1])
          BY <4>1, <3>3
        <4>3. h[i] = BlockStep(b, i, g[k])
          BY <3>3
        <4> QED
          BY <4>1, <4>2, <4>3
      <3> QED
        BY <3>1, <3>2, <3>3
    <2>3. h = r
      BY <2>2
    <2> HIDE DEF h
    <2>4. Is(h, k + 1)
      BY <2>3
    <2> HIDE DEF Is
    <2> QED
      BY <2>4
  <1> HIDE DEF Is
  <1>3. Good = Nat
    <2> HIDE DEF Good
    <2>1. Good \in SUBSET Nat
      BY DEF Good
    <2> QED
      BY <1>1, <1>2, <2>1, SetInduction
  <1>4. \E g : Is(g, Len(Code(func, b)))
    BY <1>3
  <1>5. \E h : Is(h, Len(Code(func, b))) /\ BlockUpdate(b) = h[Len(Code(func, b))]
    BY <1>4 DEF Is, BlockUpdate, base
  <1>6. PICK h : Is(h, Len(Code(func, b))) /\ BlockUpdate(b) = h[Len(Code(func, b))]
    BY <1>5
  <1>7. h[0] = base
    BY <1>6 DEF Is
  <1>8. ASSUME NEW i \in 1 .. Len(Code(func, b)) PROVE h[i] = BlockStep(b, i, h[i - 1])
    <2>1. i \in 0 .. Len(Code(func, b)) /\ i # 0
      OBVIOUS
    <2> QED
      BY <1>6, <2>1 DEF Is
  <1> QED
    BY <1>6, <1>7, <1>8 DEF base

\* So it is in the reference.
LEMMA ThroughFrom ==
    ASSUME NEW f, NEW b, NEW pending, NEW calls, Len(Code(f, b)) \in Nat
    PROVE  \E g : /\ g[0] = [pending |-> pending, races |-> {}]
                  /\ \A i \in 1 .. Len(Code(f, b)) : g[i] = ThroughStep(f, b, i, calls, g[i - 1])
                  /\ Through(f, b, pending, calls) = g[Len(Code(f, b))]
  <1> DEFINE base == [pending |-> pending, races |-> {}]
             Is(g, k) == g = [i \in 0 .. k |-> IF i = 0 THEN base ELSE ThroughStep(f, b, i, calls, g[i - 1])]
             Good == {k \in Nat : \E g : Is(g, k)}
  <1> HIDE DEF base
  <1>1. 0 \in Good
    <2> DEFINE g == [i \in 0 .. 0 |-> base]
    <2>1. Is(g, 0)
      OBVIOUS
    <2> QED
      BY <2>1
  <1>2. ASSUME NEW k \in Nat, k \in Good PROVE k + 1 \in Good
    <2>1. PICK g : Is(g, k)
      BY <1>2
    <2> DEFINE h == [i \in 0 .. (k + 1) |-> IF i = k + 1 THEN ThroughStep(f, b, i, calls, g[k]) ELSE g[i]]
               r == [i \in 0 .. (k + 1) |-> IF i = 0 THEN base ELSE ThroughStep(f, b, i, calls, h[i - 1])]
    <2>2. ASSUME NEW i \in 0 .. (k + 1) PROVE h[i] = r[i]
      <3>1. CASE i = 0
        BY <2>1, <3>1
      <3>2. CASE i \in 1 .. k
        <4>1. i - 1 \in 0 .. (k + 1) /\ i - 1 # k + 1 /\ i # k + 1 /\ i # 0 /\ i \in 0 .. k
          BY <3>2
        <4>2. h[i - 1] = g[i - 1] /\ h[i] = g[i] /\ r[i] = ThroughStep(f, b, i, calls, h[i - 1])
          BY <4>1
        <4>3. g[i] = ThroughStep(f, b, i, calls, g[i - 1])
          BY <2>1, <4>1
        <4> QED
          BY <4>2, <4>3
      <3>3. CASE i = k + 1
        <4>1. i - 1 = k /\ k \in 0 .. (k + 1) /\ k # k + 1 /\ i # 0
          BY <3>3
        <4>2. h[k] = g[k] /\ r[i] = ThroughStep(f, b, i, calls, h[i - 1])
          BY <4>1, <3>3
        <4>3. h[i] = ThroughStep(f, b, i, calls, g[k])
          BY <3>3
        <4> QED
          BY <4>1, <4>2, <4>3
      <3> QED
        BY <3>1, <3>2, <3>3
    <2>3. h = r
      BY <2>2
    <2> HIDE DEF h
    <2>4. Is(h, k + 1)
      BY <2>3
    <2> HIDE DEF Is
    <2> QED
      BY <2>4
  <1> HIDE DEF Is
  <1>3. Good = Nat
    <2> HIDE DEF Good
    <2>1. Good \in SUBSET Nat
      BY DEF Good
    <2> QED
      BY <1>1, <1>2, <2>1, SetInduction
  <1>4. \E g : Is(g, Len(Code(f, b)))
    BY <1>3
  <1>5. \E h : Is(h, Len(Code(f, b))) /\ Through(f, b, pending, calls) = h[Len(Code(f, b))]
    BY <1>4 DEF Is, Through, base
  <1>6. PICK h : Is(h, Len(Code(f, b))) /\ Through(f, b, pending, calls) = h[Len(Code(f, b))]
    BY <1>5
  <1>7. h[0] = base
    BY <1>6 DEF Is
  <1>8. ASSUME NEW i \in 1 .. Len(Code(f, b)) PROVE h[i] = ThroughStep(f, b, i, calls, h[i - 1])
    <2>1. i \in 0 .. Len(Code(f, b)) /\ i # 0
      OBVIOUS
    <2> QED
      BY <1>6, <2>1 DEF Is
  <1> QED
    BY <1>6, <1>7, <1>8 DEF base

\* What is pending goes on from block to block.
LEMMA PendingFrom ==
    ASSUME NEW f, NEW calls, NEW blocks \in Nat
    PROVE  \E g : /\ g[0] = [b \in Blocks(f) |-> {}]
                  /\ \A i \in 1 .. blocks : g[i] = Onward(f, calls, g[i - 1])
                  /\ PendingAfter(f, calls, blocks) = g[blocks]
  <1> DEFINE base == [b \in Blocks(f) |-> {}]
             Is(g, k) == g = [i \in 0 .. k |-> IF i = 0 THEN base ELSE Onward(f, calls, g[i - 1])]
             Good == {k \in Nat : \E g : Is(g, k)}
  <1> HIDE DEF base
  <1>1. 0 \in Good
    <2> DEFINE g == [i \in 0 .. 0 |-> base]
    <2>1. Is(g, 0)
      OBVIOUS
    <2> QED
      BY <2>1
  <1>2. ASSUME NEW k \in Nat, k \in Good PROVE k + 1 \in Good
    <2>1. PICK g : Is(g, k)
      BY <1>2
    <2> DEFINE h == [i \in 0 .. (k + 1) |-> IF i = k + 1 THEN Onward(f, calls, g[k]) ELSE g[i]]
               r == [i \in 0 .. (k + 1) |-> IF i = 0 THEN base ELSE Onward(f, calls, h[i - 1])]
    <2>2. ASSUME NEW i \in 0 .. (k + 1) PROVE h[i] = r[i]
      <3>1. CASE i = 0
        BY <2>1, <3>1
      <3>2. CASE i \in 1 .. k
        <4>1. i - 1 \in 0 .. (k + 1) /\ i - 1 # k + 1 /\ i # k + 1 /\ i # 0 /\ i \in 0 .. k
          BY <3>2
        <4>2. h[i - 1] = g[i - 1] /\ h[i] = g[i] /\ r[i] = Onward(f, calls, h[i - 1])
          BY <4>1
        <4>3. g[i] = Onward(f, calls, g[i - 1])
          BY <2>1, <4>1
        <4> QED
          BY <4>2, <4>3
      <3>3. CASE i = k + 1
        <4>1. i - 1 = k /\ k \in 0 .. (k + 1) /\ k # k + 1 /\ i # 0
          BY <3>3
        <4>2. h[k] = g[k] /\ r[i] = Onward(f, calls, h[i - 1])
          BY <4>1, <3>3
        <4>3. h[i] = Onward(f, calls, g[k])
          BY <3>3
        <4> QED
          BY <4>1, <4>2, <4>3
      <3> QED
        BY <3>1, <3>2, <3>3
    <2>3. h = r
      BY <2>2
    <2> HIDE DEF h
    <2>4. Is(h, k + 1)
      BY <2>3
    <2> HIDE DEF Is
    <2> QED
      BY <2>4
  <1> HIDE DEF Is
  <1>3. Good = Nat
    <2> HIDE DEF Good
    <2>1. Good \in SUBSET Nat
      BY DEF Good
    <2> QED
      BY <1>1, <1>2, <2>1, SetInduction
  <1>4. \E g : Is(g, blocks)
    BY <1>3
  <1>5. \E h : Is(h, blocks) /\ PendingAfter(f, calls, blocks) = h[blocks]
    BY <1>4 DEF Is, PendingAfter, base
  <1>6. PICK h : Is(h, blocks) /\ PendingAfter(f, calls, blocks) = h[blocks]
    BY <1>5
  <1>7. h[0] = base
    BY <1>6 DEF Is
  <1>8. ASSUME NEW i \in 1 .. blocks PROVE h[i] = Onward(f, calls, h[i - 1])
    <2>1. i \in 0 .. blocks /\ i # 0
      OBVIOUS
    <2> QED
      BY <1>6, <2>1 DEF Is
  <1> QED
    BY <1>6, <1>7, <1>8 DEF base

\* And a call leaves what is pending where its callee returns.
LEMMA LeavesFrom ==
    ASSUME NEW depth \in Nat
    PROVE  \E g : /\ g[0] = AsPending([f \in Functions |-> {}])
                  /\ \A i \in 1 .. depth : g[i] = Deeper(g[i - 1])
                  /\ LeavesTo(depth) = g[depth]
  <1> DEFINE base == AsPending([f \in Functions |-> {}])
             Is(g, k) == g = [i \in 0 .. k |-> IF i = 0 THEN base ELSE Deeper(g[i - 1])]
             Good == {k \in Nat : \E g : Is(g, k)}
  <1> HIDE DEF base
  <1>1. 0 \in Good
    <2> DEFINE g == [i \in 0 .. 0 |-> base]
    <2>1. Is(g, 0)
      OBVIOUS
    <2> QED
      BY <2>1
  <1>2. ASSUME NEW k \in Nat, k \in Good PROVE k + 1 \in Good
    <2>1. PICK g : Is(g, k)
      BY <1>2
    <2> DEFINE h == [i \in 0 .. (k + 1) |-> IF i = k + 1 THEN Deeper(g[k]) ELSE g[i]]
               r == [i \in 0 .. (k + 1) |-> IF i = 0 THEN base ELSE Deeper(h[i - 1])]
    <2>2. ASSUME NEW i \in 0 .. (k + 1) PROVE h[i] = r[i]
      <3>1. CASE i = 0
        BY <2>1, <3>1
      <3>2. CASE i \in 1 .. k
        <4>1. i - 1 \in 0 .. (k + 1) /\ i - 1 # k + 1 /\ i # k + 1 /\ i # 0 /\ i \in 0 .. k
          BY <3>2
        <4>2. h[i - 1] = g[i - 1] /\ h[i] = g[i] /\ r[i] = Deeper(h[i - 1])
          BY <4>1
        <4>3. g[i] = Deeper(g[i - 1])
          BY <2>1, <4>1
        <4> QED
          BY <4>2, <4>3
      <3>3. CASE i = k + 1
        <4>1. i - 1 = k /\ k \in 0 .. (k + 1) /\ k # k + 1 /\ i # 0
          BY <3>3
        <4>2. h[k] = g[k] /\ r[i] = Deeper(h[i - 1])
          BY <4>1, <3>3
        <4>3. h[i] = Deeper(g[k])
          BY <3>3
        <4> QED
          BY <4>1, <4>2, <4>3
      <3> QED
        BY <3>1, <3>2, <3>3
    <2>3. h = r
      BY <2>2
    <2> HIDE DEF h
    <2>4. Is(h, k + 1)
      BY <2>3
    <2> HIDE DEF Is
    <2> QED
      BY <2>4
  <1> HIDE DEF Is
  <1>3. Good = Nat
    <2> HIDE DEF Good
    <2>1. Good \in SUBSET Nat
      BY DEF Good
    <2> QED
      BY <1>1, <1>2, <2>1, SetInduction
  <1>4. \E g : Is(g, depth)
    BY <1>3
  <1>5. \E h : Is(h, depth) /\ LeavesTo(depth) = h[depth]
    BY <1>4 DEF Is, LeavesTo, base
  <1>6. PICK h : Is(h, depth) /\ LeavesTo(depth) = h[depth]
    BY <1>5
  <1>7. h[0] = base
    BY <1>6 DEF Is
  <1>8. ASSUME NEW i \in 1 .. depth PROVE h[i] = Deeper(h[i - 1])
    <2>1. i \in 0 .. depth /\ i # 0
      OBVIOUS
    <2> QED
      BY <1>6, <2>1 DEF Is
  <1> QED
    BY <1>6, <1>7, <1>8 DEF base

-----------------------------------------------------------------------------
(* Slices and accesses                                                     *)

SlicesOf(op) == op.reads \cup op.writes \cup op.scratch

\* The slices that occur in the program, here or moved by a call.
Agrees(s) == s.view # Whole => \E t \in KnownViews(program) : s.lo = t.lo /\ s.hi = t.hi /\ s.view = t.view
Slices == {s \in SliceType : Agrees(s)}
OfTensorMemory(a) ==
    TMemAccessKind(a.op) # "None" /\ (TMemAccessKind(a.op) = "Load" => a.rw = "R")
Accesses ==
    {a \in [rw : {"R", "W"}, slice : Slices, op : STRING] : program.analysis = "TMem" => OfTensorMemory(a)}

\* What is assumed of the program that is analysed.
ProgramFits == program \in Programs /\ WellFormed(program) /\ ViewsAgree(program)

LEMMA ProgramFacts ==
    ASSUME ProgramFits, NEW f \in Functions
    PROVE  /\ Len(program.funcs) \in Nat \ {0} /\ Functions = 1 .. Len(program.funcs)
           /\ program.funcs[f].code \in Seq(Seq(OperationType))
           /\ Blocks(f) = 1 .. Len(program.funcs[f].code)
           /\ program.funcs[f].entry \in Blocks(f)
           /\ program.funcs[f].succ \in [Blocks(f) -> Seq(Blocks(f))]
           /\ \A b \in Blocks(f) : Code(f, b) \in Seq(OperationType)
           /\ \A b \in Blocks(f) : DOMAIN Code(f, b) = 1 .. Len(Code(f, b)) /\ Len(Code(f, b)) \in Nat
  <1>1. WellFormed(program)
    BY DEF ProgramFits
  <1>2. FunctionFits(program.analysis, f, program.funcs[f])
    BY <1>1 DEF WellFormed, Functions
  <1> DEFINE code == program.funcs[f].code
  <1>3. code \in Seq(Seq(OperationType))
    BY <1>2 DEF FunctionFits
  <1>4. DOMAIN code = 1 .. Len(code) /\ Len(code) \in Nat /\ \A b \in 1 .. Len(code) : code[b] \in Seq(OperationType)
    <2> HIDE DEF code
    <2> QED
      BY <1>3
  <1>5. \A b \in 1 .. Len(code) : DOMAIN code[b] = 1 .. Len(code[b]) /\ Len(code[b]) \in Nat
    <2> HIDE DEF code
    <2> QED
      BY <1>4
  <1> QED
    BY <1>1, <1>2, <1>3, <1>4, <1>5 DEF WellFormed, FunctionFits, Functions, Blocks, Code

LEMMA OperationFacts ==
    ASSUME ProgramFits, NEW f \in Functions, NEW b \in Blocks(f), NEW i \in 1 .. Len(Code(f, b))
    PROVE  /\ Code(f, b)[i] \in OperationType
           /\ OperationFits(program.analysis, f, Code(f, b)[i])
           /\ \A s \in SlicesOf(Code(f, b)[i]) : s \in Slices
           /\ Code(f, b)[i] \in Operations(program)
  <1> DEFINE op == Code(f, b)[i]
  <1>1. /\ Code(f, b) \in Seq(OperationType) /\ i \in DOMAIN Code(f, b)
        /\ b \in Nat
    BY ProgramFacts
  <1>2. op \in OperationType
    <2> DEFINE c == Code(f, b)
    <2>1. c \in Seq(OperationType) /\ i \in 1 .. Len(c)
      BY <1>1
    <2> HIDE DEF c
    <2>2. c[i] \in OperationType
      BY <2>1
    <2> QED
      BY <2>2 DEF c
  <1>3. OperationFits(program.analysis, f, op)
    BY <1>1 DEF ProgramFits, WellFormed, FunctionFits, Blocks, Code, Functions
  <1>4. op \in Operations(program)
    <2>1. i \in DOMAIN program.funcs[f].code[b] /\ b \in DOMAIN program.funcs[f].code /\ f \in DOMAIN program.funcs
      BY <1>1 DEF Code, Blocks, Functions
    <2>2. op \in ToSet(program.funcs[f].code[b])
      BY <2>1 DEF Code, ToSet
    <2> QED
      BY <2>1, <2>2 DEF Operations
  <1>5. \A s \in SlicesOf(op) : s \in SliceType
    BY <1>2 DEF OperationType, SlicesOf
  <1>6. \A s \in SlicesOf(op) : s.view # Whole => s \in KnownViews(program)
    BY <1>4 DEF KnownViews, SlicesOf
  <1> QED
    BY <1>2, <1>3, <1>4, <1>5, <1>6 DEF Slices, Agrees

LEMMA AccessTypes ==
    ASSUME NEW op \in OperationType, NEW f, OperationFits(program.analysis, f, op),
           \A s \in SlicesOf(op) : s \in Slices
    PROVE  /\ Effects(op) \in SUBSET Accesses
           /\ Scratch(op, "R") \in SUBSET Accesses /\ Scratch(op, "W") \in SUBSET Accesses
  <1>1. op.name \in STRING /\ op.reads \subseteq Slices /\ op.writes \subseteq Slices /\ op.scratch \subseteq Slices
    BY DEF OperationType, SlicesOf
  <1> DEFINE plain == [rw : {"R", "W"}, slice : Slices, op : STRING]
  <1>2. \A s \in Slices : Access("R", s, op) \in plain /\ Access("W", s, op) \in plain
    BY <1>1 DEF Access
  <1>3. ASSUME program.analysis = "TMem"
        PROVE  /\ \A s \in op.reads : OfTensorMemory(Access("R", s, op))
               /\ \A s \in op.writes : OfTensorMemory(Access("W", s, op))
               /\ op.scratch = {}
    <2>1. CASE Silent(op)
      BY <2>1 DEF Silent
    <2>2. CASE ~Silent(op)
      <3>1. /\ op.scratch = {} /\ TMemAccessKind(op.name) # "None"
            /\ TMemAccessKind(op.name) = "Load" => op.writes = {}
        BY <1>3, <2>2 DEF OperationFits
      <3> QED
        BY <3>1 DEF OfTensorMemory, Access
    <2> QED
      BY <2>1, <2>2
  <1> HIDE DEF plain
  <1>4. /\ \A s \in op.reads : Access("R", s, op) \in Accesses
        /\ \A s \in op.writes : Access("W", s, op) \in Accesses
        /\ \A s \in op.scratch : Access("R", s, op) \in Accesses /\ Access("W", s, op) \in Accesses
    BY <1>1, <1>2, <1>3 DEF Accesses, plain
  <1> QED
    BY <1>4 DEF Effects, Scratch

\* Slices with a byte in common intersect.
LEMMA CommonBytes ==
    ASSUME ProgramFits, NEW s \in Slices, NEW t \in Slices, Bytes(s) \cap Bytes(t) # {}
    PROVE  Intersects(s, t)
  <1>1. PICK x : x \in Bytes(s) /\ x \in Bytes(t)
    OBVIOUS
  <1>2. /\ s.lo \in Int /\ s.hi \in Int /\ s.view.off \in Nat /\ s.view.len \in Nat
        /\ s.view = Whole \/ s.lo + s.view.off + s.view.len <= s.hi
    BY DEF Slices, SliceType, View
  <1>3. /\ t.lo \in Int /\ t.hi \in Int /\ t.view.off \in Nat /\ t.view.len \in Nat
        /\ t.view = Whole \/ t.lo + t.view.off + t.view.len <= t.hi
    BY DEF Slices, SliceType, View
  <1>4. x \in Int /\ s.lo <= x /\ x < s.hi
    BY <1>1, <1>2 DEF Bytes
  <1>5. t.lo <= x /\ x < t.hi
    BY <1>1, <1>3 DEF Bytes
  <1>6. s.lo < t.hi /\ t.lo < s.hi
    BY <1>2, <1>3, <1>4, <1>5
  <1>7. ASSUME s.view # Whole, t.view # Whole, s.view.enc = t.view.enc PROVE ~ Apart(s.view, t.view)
    <2>1. s.lo = t.lo /\ s.hi = t.hi
      BY <1>7 DEF Slices, Agrees, ProgramFits, ViewsAgree
    <2>2. CASE s.view.enc = "linear"
      <3>1. /\ s.lo + s.view.off <= x /\ x <= s.lo + s.view.off + s.view.len - 1
            /\ t.lo + t.view.off <= x /\ x <= t.lo + t.view.off + t.view.len - 1
        BY <1>1, <1>2, <1>3, <1>7, <2>2 DEF Bytes
      <3> QED
        BY <3>1, <2>1, <1>2, <1>3, <1>4 DEF Apart
    <2>3. CASE s.view.enc # "linear"
      <3>1. /\ s.hi - s.view.off - s.view.len <= x /\ x <= s.hi - 1 - s.view.off
            /\ t.hi - t.view.off - t.view.len <= x /\ x <= t.hi - 1 - t.view.off
        BY <1>1, <1>2, <1>3, <1>7, <2>3 DEF Bytes
      <3> QED
        BY <3>1, <2>1, <1>2, <1>3, <1>4 DEF Apart
    <2> QED
      BY <2>2, <2>3
  <1> QED
    BY <1>6, <1>7 DEF Intersects

LEMMA MovedAccesses ==
    ASSUME ProgramFits, NEW op \in Operations(program), op \in OperationType, op.name = "call",
           NEW A \in SUBSET Accesses
    PROVE  Moved(op, A) \in SUBSET Accesses
  <1> SUFFICES ASSUME NEW a \in A, program.analysis # "TMem"
               PROVE  [a EXCEPT !.slice = Translated(@, op.offset)] \in Accesses
    BY DEF Moved
  <1> DEFINE s == a.slice
             t == Translated(s, op.offset)
  <1>1. a \in Accesses /\ s \in Slices /\ op.offset \in Int
    BY DEF Accesses, OperationType
  <1>0. s \in [lo : Int, hi : Int, buf : STRING \union {NoBuffer}, view : View]
    BY <1>1 DEF Slices, SliceType
  <1>3. t.view = s.view /\ t.lo = s.lo + op.offset /\ t.hi = s.hi + op.offset
    BY <1>0, <1>1 DEF Translated, Slice
  <1>2. t \in SliceType
    <2>1. t \in [lo : Int, hi : Int, buf : STRING \union {NoBuffer}, view : View]
      BY <1>0, <1>1 DEF Translated, Slice
    <2>2. s.view = Whole \/ s.lo + s.view.off + s.view.len <= s.hi
      BY <1>1 DEF Slices, SliceType
    <2>3. s.lo \in Int /\ s.hi \in Int /\ s.view.off \in Nat /\ s.view.len \in Nat
      BY <1>0 DEF View
    <2>4. t.view = Whole \/ t.lo + t.view.off + t.view.len <= t.hi
      BY <1>1, <1>3, <2>2, <2>3
    <2> HIDE DEF t
    <2> QED
      BY <2>1, <2>4 DEF SliceType
  <1>4. Agrees(t)
    <2> SUFFICES ASSUME t.view # Whole PROVE \E k \in KnownViews(program) : t.lo = k.lo /\ t.hi = k.hi /\ t.view = k.view
      BY DEF Agrees
    <2>1. PICK k \in KnownViews(program) : s.lo = k.lo /\ s.hi = k.hi /\ s.view = k.view
      BY <1>1, <1>3 DEF Slices, Agrees
    <2>2. op.offset = 0
      BY <2>1 DEF ProgramFits, ViewsAgree
    <2>3. s.lo \in Int /\ s.hi \in Int
      BY <1>1 DEF Slices, SliceType
    <2>4. t.lo = s.lo /\ t.hi = s.hi
      BY <1>3, <2>2, <2>3
    <2> QED
      BY <1>3, <2>1, <2>4
  <1>5. t \in Slices
    BY <1>2, <1>4 DEF Slices
  <1> HIDE DEF t
  <1>6. [a EXCEPT !.slice = t] \in Accesses
    BY <1>1, <1>5 DEF Accesses, OfTensorMemory
  <1> QED
    BY <1>6 DEF t

-----------------------------------------------------------------------------
(* One operation: whatever the analysis makes of it, the accesses that it  *)
(* reports as pending cover those that are                                 *)

\* Accesses that no later one has to wait for.
Harmless(a) == program.analysis = "ProxyFence" /\ a.op \in IgnoredForProxyFence
Covers(info, accesses) == \A a \in accesses : a \in info \/ Harmless(a)

\* A call as the analysis sees it.
Summaries == [g \in Functions |-> Does(summary[g], FALSE, summary[g])]

\* What an operation makes of an info, given whether a barrier stands before it.
Passes(op, barred, before, after) ==
    LET does == Behaviour(op, Summaries)
        pending == IF barred THEN {} ELSE before
    IN  /\ Covers(after, does.last)
        /\ ~does.barrier => pending \subseteq after
        /\ \A l \in pending, r \in does.first : ~Hazard(l, r)

\* Pairs that need something between them.
LEMMA Intersected ==
    ASSUME ProgramFits, NEW A \in SUBSET Accesses, NEW B \in SUBSET Accesses,
           NEW l \in A, NEW r \in B, Hazard(l, r), ~Filtered(l, r)
    PROVE  IsIntersected(A, B)
  <1>1. l.slice \in Slices /\ r.slice \in Slices
    BY DEF Accesses
  <1>2. Intersects(l.slice, r.slice)
    BY <1>1, CommonBytes DEF Hazard
  <1>3. ~SliceFiltered(l, r)
    BY DEF Hazard, SliceFiltered, ProgramFits, WellFormed
  <1> QED
    BY <1>2, <1>3 DEF IsIntersected, Hazard

\* What an operation does is a set of accesses that occur.
LEMMA BehaviourTypes ==
    ASSUME ProgramFits, NEW f \in Functions, NEW b \in Blocks(f), NEW i \in 1 .. Len(Code(f, b)),
           summary \in [Functions -> SUBSET Accesses]
    PROVE  /\ Behaviour(Code(f, b)[i], Summaries).first \in SUBSET Accesses
           /\ Behaviour(Code(f, b)[i], Summaries).last \in SUBSET Accesses
           /\ Behaviour(Code(f, b)[i], Summaries).barrier \in BOOLEAN
           /\ Code(f, b)[i].name = "call" =>
                LET moved == Moved(Code(f, b)[i], summary[Code(f, b)[i].callee])
                IN  Behaviour(Code(f, b)[i], Summaries) = Does(moved, FALSE, moved) /\ moved \in SUBSET Accesses
  <1> DEFINE op == Code(f, b)[i]
  <1>1. /\ op \in OperationType /\ OperationFits(program.analysis, f, op) /\ op \in Operations(program)
        /\ \A s \in SlicesOf(op) : s \in Slices
    BY OperationFacts
  <1> HIDE DEF op
  <1>2. /\ Effects(op) \in SUBSET Accesses
        /\ Scratch(op, "R") \in SUBSET Accesses /\ Scratch(op, "W") \in SUBSET Accesses
    BY <1>1, AccessTypes
  <1>3. CASE op.name = "call"
    <2> DEFINE moved == Moved(op, summary[op.callee])
    <2>1. op.callee \in Functions
      <3>1. op.callee \in 1 .. (f - 1)
        BY <1>1, <1>3 DEF OperationFits
      <3>2. f \in 1 .. Len(program.funcs) /\ Functions = 1 .. Len(program.funcs) /\ Len(program.funcs) \in Nat
        BY ProgramFacts
      <3> QED
        BY <3>1, <3>2
    <2>2. moved \in SUBSET Accesses
      BY <1>1, <1>3, <2>1, MovedAccesses
    <2>3. Behaviour(op, Summaries) = Does(moved, FALSE, moved)
      BY <1>3, <2>1 DEF Behaviour, Summaries, Does
    <2> QED
      BY <2>2, <2>3, <1>3 DEF Does, op
  <1>4. CASE op.name # "call"
    <2>1. CASE SynchronisesInside(op)
      BY <1>2, <1>4, <2>1 DEF Behaviour, Does, op
    <2>2. CASE ~SynchronisesInside(op)
      BY <1>2, <1>4, <2>2 DEF Behaviour, Does, op
    <2> QED
      BY <2>1, <2>2
  <1> QED
    BY <1>3, <1>4

Fits(r, op, before) ==
    /\ r.info \in SUBSET Accesses /\ r.insert \in BOOLEAN
    /\ Passes(op, r.insert \/ Synchronises(op), before, r.info)

LEMMA JoinedFits ==
    ASSUME NEW A \in SUBSET Accesses, NEW B \in SUBSET Accesses
    PROVE  /\ Joined(A, B).info \in SUBSET Accesses /\ Joined(A, B).insert \in BOOLEAN
           /\ B \subseteq Joined(A, B).info
           /\ ~Joined(A, B).insert => A \subseteq Joined(A, B).info /\ ~IsIntersected(A, B)
           /\ IsIntersected(A, B) => Joined(A, B).insert
  <1>1. CASE IsIntersected(A, B)
    BY <1>1 DEF Joined, Result
  <1>2. CASE ~IsIntersected(A, B)
    BY <1>2 DEF Joined, Result
  <1> QED
    BY <1>1, <1>2

\* An operation that waits, synchronises or returns accesses nothing.
LEMMA SilentDoes ==
    ASSUME NEW op, Silent(op), op.name # "call"
    PROVE  Effects(op) = {} /\ Scratch(op, "R") = {} /\ Scratch(op, "W") = {}
           /\ Behaviour(op, Summaries) = Does({}, FALSE, {})
  <1>1. Effects(op) = {} /\ Scratch(op, "R") = {} /\ Scratch(op, "W") = {}
    BY DEF Silent, Effects, Scratch
  <1>2. ~SynchronisesInside(op)
    BY DEF Silent, SynchronisesInside
  <1> QED
    BY <1>1, <1>2 DEF Behaviour

LEMMA MembarFits ==
    ASSUME ProgramFits, program.analysis = "Membar", summary \in [Functions -> SUBSET Accesses],
           NEW f \in Functions, NEW b \in Blocks(f), NEW i \in 1 .. Len(Code(f, b)),
           NEW next, NEW before \in SUBSET Accesses
    PROVE  Fits(MembarUpdate(Code(f, b)[i], next, before), Code(f, b)[i], before)
  <1> DEFINE op == Code(f, b)[i]
             does == Behaviour(op, Summaries)
             r == MembarUpdate(op, next, before)
             info == IF op.name \in LocalBarriers THEN {} ELSE before
             now == Effects(op) \cup Scratch(op, "W")
  <1>1. /\ op \in OperationType /\ OperationFits(program.analysis, f, op)
        /\ \A s \in SlicesOf(op) : s \in Slices
    BY OperationFacts
  <1>2. /\ does.first \in SUBSET Accesses /\ does.last \in SUBSET Accesses
        /\ op.name = "call" => LET moved == Moved(op, summary[op.callee])
                               IN  does = Does(moved, FALSE, moved) /\ moved \in SUBSET Accesses
    BY BehaviourTypes
  <1> HIDE DEF op
  <1>3. /\ Effects(op) \in SUBSET Accesses /\ Scratch(op, "R") \in SUBSET Accesses
        /\ Scratch(op, "W") \in SUBSET Accesses /\ now \in SUBSET Accesses /\ info \in SUBSET Accesses
    BY <1>1, AccessTypes
  <1>4. /\ Synchronises(op) <=> op.name \in LocalBarriers
        /\ \A l, q : ~Filtered(l, q)
    BY DEF Synchronises, Filtered
  <1>5. CASE op.name = "mem_wait" /\ next \notin LocalBarriers
    <2>1. Silent(op)
      BY <1>1, <1>5 DEF OperationFits
    <2>2. does = Does({}, FALSE, {}) /\ r = Result({}, TRUE)
      BY <1>5, <2>1, SilentDoes DEF MembarUpdate
    <2> QED
      BY <2>2 DEF Fits, Passes, Covers, Result, Does, op
  <1>6. CASE ~(op.name = "mem_wait" /\ next \notin LocalBarriers) /\ op.scratch # {}
    <2> DEFINE hit == IsIntersected(info, now)
    <2>1. op.name # "call"
      BY <1>1, <1>6 DEF OperationFits, Silent
    <2>2. r = Result((IF hit \/ op.name \notin WarpSync THEN {} ELSE info) \cup now \cup Scratch(op, "R"), hit)
      BY <1>6 DEF MembarUpdate
    <2>3. hit \in BOOLEAN
      BY DEF IsIntersected
    <2> HIDE DEF hit, info, now, r
    <2>4. r.info \in SUBSET Accesses /\ r.insert = hit /\ now \cup Scratch(op, "R") \subseteq r.info
      BY <1>3, <2>2 DEF Result
    <2>5. does.last \subseteq now \cup Scratch(op, "R") /\ does.first \subseteq now \cup Scratch(op, "R")
      BY <2>1 DEF Behaviour, Does, now
    <2>6. ASSUME ~does.barrier, ~hit PROVE info \subseteq r.info
      <3>1. op.name \in WarpSync
        BY <1>6, <2>1, <2>6 DEF Behaviour, SynchronisesInside, Does
      <3> QED
        BY <2>2, <2>6, <3>1 DEF Result
    <2>7. ASSUME ~hit, NEW l \in info, NEW q \in does.first, Hazard(l, q) PROVE FALSE
      <3>1. CASE q \in now
        BY <1>3, <1>4, <2>7, <3>1, Intersected DEF hit
      <3>2. CASE q \in Scratch(op, "R")
        <4>1. PICK s \in op.scratch : q = Access("R", s, op)
          BY <3>2 DEF Scratch
        <4> DEFINE w == Access("W", s, op)
        <4>2. w \in now
          BY DEF now, Scratch
        <4>3. Hazard(l, w)
          BY <2>7, <4>1 DEF Hazard, Access
        <4> HIDE DEF w
        <4> QED
          BY <1>3, <1>4, <2>7, <4>2, <4>3, Intersected DEF hit
      <3> QED
        BY <2>5, <2>7, <3>1, <3>2
    <2>8. info = IF Synchronises(op) THEN {} ELSE before
      BY <1>4 DEF info
    <2>9. Covers(r.info, does.last)
      BY <2>4, <2>5 DEF Covers
    <2> HIDE DEF does
    <2>10. CASE hit \/ Synchronises(op)
      BY <2>3, <2>4, <2>9, <2>10 DEF Fits, Passes, does, r, op
    <2>11. CASE ~hit /\ ~Synchronises(op)
      BY <2>3, <2>4, <2>6, <2>7, <2>8, <2>9, <2>11 DEF Fits, Passes, does, r, op
    <2> QED
      BY <2>10, <2>11
  <1>7. CASE ~(op.name = "mem_wait" /\ next \notin LocalBarriers) /\ op.scratch = {}
    <2> DEFINE new == IF op.name = "call" THEN CallInfo(op) ELSE now
    <2>1. r = Joined(info, new)
      BY <1>7 DEF MembarUpdate
    <2>2. does.first = new /\ does.last = new /\ does.barrier = FALSE
      <3>1. CASE op.name = "call"
        BY <1>2, <3>1 DEF CallInfo, Moved, Does
      <3>2. CASE op.name # "call"
        <4>1. ~SynchronisesInside(op) /\ Scratch(op, "R") = {} /\ Scratch(op, "W") = {}
          BY <1>7 DEF SynchronisesInside, Scratch
        <4> QED
          BY <3>2, <4>1 DEF Behaviour, Does
      <3> QED
        BY <3>1, <3>2
    <2>3. new \in SUBSET Accesses
      BY <1>2, <2>2
    <2> HIDE DEF new, does, info, r
    <2>4. /\ r.info \in SUBSET Accesses /\ r.insert \in BOOLEAN /\ new \subseteq r.info
          /\ ~r.insert => info \subseteq r.info /\ ~IsIntersected(info, new)
      BY <1>3, <2>1, <2>3, JoinedFits
    <2>5. ASSUME ~r.insert, NEW l \in info, NEW q \in new, Hazard(l, q) PROVE FALSE
      BY <1>3, <1>4, <2>3, <2>4, <2>5, Intersected
    <2>6. info = IF Synchronises(op) THEN {} ELSE before
      BY <1>4 DEF info
    <2>7. Covers(r.info, does.last)
      BY <2>2, <2>4 DEF Covers
    <2>8. CASE r.insert \/ Synchronises(op)
      BY <2>4, <2>7, <2>8 DEF Fits, Passes, does, r, op
    <2>9. CASE ~r.insert /\ ~Synchronises(op)
      BY <2>2, <2>4, <2>5, <2>6, <2>7, <2>9 DEF Fits, Passes, does, r, op
    <2> QED
      BY <2>8, <2>9
  <1> QED
    BY <1>5, <1>6, <1>7

LEMMA ProxyFenceFits ==
    ASSUME ProgramFits, program.analysis = "ProxyFence", summary \in [Functions -> SUBSET Accesses],
           NEW f \in Functions, NEW b \in Blocks(f), NEW i \in 1 .. Len(Code(f, b)),
           NEW before \in SUBSET Accesses
    PROVE  Fits(ProxyFenceUpdate(Code(f, b)[i], before), Code(f, b)[i], before)
  <1> DEFINE op == Code(f, b)[i]
             does == Behaviour(op, Summaries)
             r == ProxyFenceUpdate(op, before)
             generic == (Effects(op) \ ProxyAccesses(op)) \cup Scratch(op, "R")
             hit == \E p \in ProxyAccesses(op) : IsIntersected({p}, before)
  <1>1. /\ op \in OperationType /\ OperationFits(program.analysis, f, op)
        /\ \A s \in SlicesOf(op) : s \in Slices
    BY OperationFacts
  <1> HIDE DEF op
  <1>2. /\ Effects(op) \in SUBSET Accesses /\ Scratch(op, "R") \in SUBSET Accesses
        /\ Scratch(op, "W") \in SUBSET Accesses
    BY <1>1, AccessTypes
  <1>3. /\ Synchronises(op) <=> op.name = "fence"
        /\ op.name # "call"
    BY <1>1 DEF Synchronises, OperationFits
  <1>4. \A a \in ProxyAccesses(op) : a \in Effects(op) /\ Harmless(a)
    <2>1. \A a \in Effects(op) : a.op = op.name
      BY DEF Effects, Access
    <2> QED
      BY <2>1 DEF ProxyAccesses, Harmless, IgnoredForProxyFence
  <1>5. hit \in BOOLEAN
    BY DEF IsIntersected
  <1>6. CASE op.name = "fence"
    <2>1. Silent(op)
      BY <1>1, <1>6 DEF OperationFits
    <2>2. does = Does({}, FALSE, {}) /\ r = Result({}, FALSE)
      BY <1>3, <1>6, <2>1, SilentDoes DEF ProxyFenceUpdate
    <2>3. Synchronises(op)
      BY <1>3, <1>6
    <2> QED
      BY <2>2, <2>3 DEF Fits, Passes, Covers, Result, Does, op
  <1>7. CASE op.name # "fence"
    <2>1. r = Result((IF hit THEN {} ELSE before) \cup generic, hit)
      BY <1>3, <1>7 DEF ProxyFenceUpdate
    <2>2. ~SynchronisesInside(op)
      BY DEF SynchronisesInside
    <2>3. does = Does(Effects(op) \cup Scratch(op, "R"), FALSE, Effects(op) \cup Scratch(op, "R"))
      BY <1>3, <2>2 DEF Behaviour
    <2>4. ASSUME NEW l \in before, NEW q \in does.first, Hazard(l, q) PROVE hit
      <3>1. IsProxy(q) /\ l.op \notin IgnoredForProxyFence /\ Bytes(l.slice) \cap Bytes(q.slice) # {}
            /\ (l.rw = "W" \/ q.rw = "W")
        BY <2>4 DEF Hazard
      <3>2. q \in Effects(op) \cup Scratch(op, "R") /\ q \in Accesses /\ l \in Accesses
        BY <1>2, <2>3, <2>4 DEF Does
      <3>3. CASE q \in Effects(op)
        <4>1. q \in ProxyAccesses(op)
          <5>1. q.op = op.name
            BY <3>3 DEF Effects, Access
          <5> QED
            BY <3>1, <3>3, <5>1 DEF ProxyAccesses, IsProxy
        <4>2. Intersects(q.slice, l.slice)
          <5>1. Bytes(q.slice) \cap Bytes(l.slice) # {} /\ q.slice \in Slices /\ l.slice \in Slices
            BY <3>1, <3>2 DEF Accesses
          <5> QED
            BY <5>1, CommonBytes
        <4>3. ~SliceFiltered(q, l) /\ ~Filtered(q, l)
          BY <3>1 DEF SliceFiltered, Filtered
        <4>4. IsIntersected({q}, before)
          BY <2>4, <3>1, <4>2, <4>3 DEF IsIntersected
        <4> QED
          BY <4>1, <4>4
      <3>4. CASE q \in Scratch(op, "R")
        <4>1. q.rw = "R" /\ q.op = op.name
          BY <3>4 DEF Scratch, Access
        <4>2. PICK s \in op.scratch : q = Access("R", s, op)
          BY <3>4 DEF Scratch
        <4>3. op.name \in ProxyReads
          BY <3>1, <4>1 DEF IsProxy
        <4> QED
          BY <4>2, <4>3, <1>1 DEF OperationFits
      <3> QED
        BY <3>2, <3>3, <3>4
    <2> HIDE DEF hit, r
    <2>5. r.info \in SUBSET Accesses /\ r.insert = hit /\ (~hit => before \subseteq r.info) /\ generic \subseteq r.info
      BY <1>2, <2>1 DEF Result
    <2>6. Covers(r.info, does.last)
      BY <1>4, <2>3, <2>5 DEF Covers, Does
    <2>7. does.barrier = FALSE
      BY <2>3 DEF Does
    <2>8. Synchronises(op) = FALSE
      BY <1>3, <1>7
    <2> HIDE DEF does
    <2>9. CASE hit
      BY <1>5, <2>5, <2>6, <2>9 DEF Fits, Passes, does, r, op
    <2>10. CASE ~hit
      BY <1>5, <2>4, <2>5, <2>6, <2>7, <2>8, <2>10 DEF Fits, Passes, does, r, op
    <2> QED
      BY <2>9, <2>10
  <1> QED
    BY <1>6, <1>7

LEMMA TMemFits ==
    ASSUME ProgramFits, program.analysis = "TMem", summary \in [Functions -> SUBSET Accesses],
           NEW f \in Functions, NEW b \in Blocks(f), NEW i \in 1 .. Len(Code(f, b)),
           NEW before \in SUBSET Accesses
    PROVE  Fits(TMemUpdate(Code(f, b)[i], before), Code(f, b)[i], before)
  <1> DEFINE op == Code(f, b)[i]
             does == Behaviour(op, Summaries)
             r == TMemUpdate(op, before)
  <1>1. /\ op \in OperationType /\ OperationFits(program.analysis, f, op)
        /\ \A s \in SlicesOf(op) : s \in Slices
    BY OperationFacts
  <1>0. op.name = "call" => LET moved == Moved(op, summary[op.callee])
                            IN  does = Does(moved, FALSE, moved) /\ moved \in SUBSET Accesses
    BY BehaviourTypes
  <1> HIDE DEF op
  <1>2. Effects(op) \in SUBSET Accesses
    BY <1>1, AccessTypes
  <1>3. Synchronises(op) <=> op.name \in LocalBarriers
    BY DEF Synchronises
  <1>4. CASE op.name \in LocalBarriers
    <2>1. Silent(op)
      BY <1>1, <1>4 DEF OperationFits
    <2>2. does = Does({}, FALSE, {}) /\ r = Result({}, FALSE)
      BY <1>4, <2>1, SilentDoes DEF TMemUpdate, LocalBarriers
    <2>3. Synchronises(op)
      BY <1>3, <1>4
    <2> QED
      BY <2>2, <2>3 DEF Fits, Passes, Covers, Result, Does, op
  <1>5. CASE op.name \notin LocalBarriers
    <2> DEFINE new == IF op.name = "call" THEN CallInfo(op) ELSE Effects(op)
    <2>1. r = Joined(before, new)
      BY <1>5 DEF TMemUpdate
    <2>2. op.scratch = {}
      BY <1>1 DEF OperationFits, Silent
    <2>3. ~SynchronisesInside(op) /\ Scratch(op, "R") = {} /\ Scratch(op, "W") = {}
      BY <2>2 DEF SynchronisesInside, Scratch
    <2>4. does.first = new /\ does.last = new /\ does.barrier = FALSE
      <3>1. CASE op.name = "call"
        BY <1>0, <3>1 DEF CallInfo, Moved, Does
      <3>2. CASE op.name # "call"
        BY <2>3, <3>2 DEF Behaviour, Does
      <3> QED
        BY <3>1, <3>2
    <2>11. new \in SUBSET Accesses
      BY <1>0, <1>2, <2>4 DEF Does
    <2> HIDE DEF new
    <2> HIDE DEF does, r
    <2>5. /\ r.info \in SUBSET Accesses /\ r.insert \in BOOLEAN /\ new \subseteq r.info
          /\ ~r.insert => before \subseteq r.info /\ ~IsIntersected(before, new)
      BY <2>1, <2>11, JoinedFits
    <2>6. ASSUME ~r.insert, NEW l \in before, NEW q \in new, Hazard(l, q) PROVE FALSE
      <3>1. l \in Accesses /\ q \in Accesses
        BY <2>6, <2>11
      <3>2. /\ TMemAccessKind(l.op) \in {"Load", "Store", "MMA"} /\ TMemAccessKind(q.op) \in {"Load", "Store", "MMA"}
            /\ TMemAccessKind(l.op) = "Load" => l.rw = "R"
            /\ TMemAccessKind(q.op) = "Load" => q.rw = "R"
        BY <3>1 DEF Accesses, OfTensorMemory, TMemAccessKind
      <3>3. TMemAccessKind(l.op) # "MMA" /\ (l.rw = "W" \/ q.rw = "W")
        BY <2>6 DEF Hazard
      <3>4. ~Filtered(l, q)
        BY <3>2, <3>3 DEF Filtered
      <3> QED
        BY <2>5, <2>6, <2>11, <3>4, Intersected
    <2>7. Covers(r.info, does.last)
      BY <2>4, <2>5 DEF Covers
    <2>8. ~Synchronises(op)
      BY <1>3, <1>5
    <2>9. CASE r.insert
      BY <2>4, <2>5, <2>7, <2>9 DEF Fits, Passes, does, r, op
    <2>10. CASE ~r.insert
      BY <2>4, <2>5, <2>6, <2>7, <2>8, <2>10 DEF Fits, Passes, does, r, op
    <2> QED
      BY <2>5, <2>9, <2>10
  <1> QED
    BY <1>4, <1>5

LEMMA ClusterFits ==
    ASSUME ProgramFits, program.analysis = "Cluster", summary \in [Functions -> SUBSET Accesses],
           NEW f \in Functions, NEW b \in Blocks(f), NEW i \in 1 .. Len(Code(f, b)),
           NEW before \in SUBSET Accesses
    PROVE  Fits(ClusterUpdate(Code(f, b)[i], before), Code(f, b)[i], before)
  <1> DEFINE op == Code(f, b)[i]
             does == Behaviour(op, Summaries)
             r == ClusterUpdate(op, before)
             now == Effects(op) \cup Scratch(op, "W")
  <1>1. /\ op \in OperationType /\ OperationFits(program.analysis, f, op)
        /\ \A s \in SlicesOf(op) : s \in Slices
    BY OperationFacts
  <1>2. /\ does.first \in SUBSET Accesses /\ does.last \in SUBSET Accesses
        /\ op.name = "call" => LET moved == Moved(op, summary[op.callee])
                               IN  does = Does(moved, FALSE, moved) /\ moved \in SUBSET Accesses
    BY BehaviourTypes
  <1> HIDE DEF op
  <1>3. /\ Effects(op) \in SUBSET Accesses /\ Scratch(op, "R") \in SUBSET Accesses
        /\ Scratch(op, "W") \in SUBSET Accesses /\ now \in SUBSET Accesses
    BY <1>1, AccessTypes
  <1>4. /\ Synchronises(op) <=> op.name = "cluster_barrier"
        /\ \A l, q : Hazard(l, q) => ~Filtered(l, q)
    BY DEF Synchronises, Filtered, Hazard
  <1>5. CASE op.name = "cluster_barrier"
    <2>1. Silent(op)
      BY <1>1, <1>5 DEF OperationFits
    <2>2. does = Does({}, FALSE, {}) /\ r = Result({}, FALSE)
      BY <1>5, <2>1, SilentDoes DEF ClusterUpdate
    <2>3. Synchronises(op)
      BY <1>4, <1>5
    <2> QED
      BY <2>2, <2>3 DEF Fits, Passes, Covers, Result, Does, op
  <1>6. CASE op.name = "return"
    <2>1. Silent(op)
      BY <1>1, <1>6 DEF OperationFits
    <2>2. does = Does({}, FALSE, {})
      BY <1>6, <2>1, SilentDoes
    <2>0. OpenAtReturn(op, before) \in BOOLEAN
      BY DEF OpenAtReturn
    <2>3. CASE OpenAtReturn(op, before)
      <3>1. r = Result({}, TRUE)
        BY <1>6, <2>0, <2>3 DEF ClusterUpdate
      <3> QED
        BY <2>2, <3>1 DEF Fits, Passes, Covers, Result, Does, op
    <2>4. CASE ~OpenAtReturn(op, before)
      <3>1. r = Result(before, FALSE)
        BY <1>6, <2>0, <2>4 DEF ClusterUpdate
      <3> QED
        BY <2>2, <3>1 DEF Fits, Passes, Covers, Result, Does, op
    <2> QED
      BY <2>3, <2>4
  <1>7. CASE op.name \notin {"cluster_barrier", "return"} /\ op.scratch # {}
    <2> DEFINE hit == IsIntersected(before, now)
               inside == \E a \in Scratch(op, "R") : Distributed(a)
    <2>1. op.name # "call"
      BY <1>1, <1>7 DEF OperationFits, Silent
    <2>2. r = Result((IF hit \/ inside THEN {} ELSE before) \cup now \cup Scratch(op, "R"), hit)
      BY <1>7 DEF ClusterUpdate
    <2>3. hit \in BOOLEAN
      BY DEF IsIntersected
    <2>4. SynchronisesInside(op) <=> inside
      BY <1>7 DEF SynchronisesInside
    <2> HIDE DEF hit, now, r
    <2>5. r.info \in SUBSET Accesses /\ r.insert = hit /\ now \cup Scratch(op, "R") \subseteq r.info
      BY <1>3, <2>2 DEF Result
    <2>6. /\ does.last \subseteq now \cup Scratch(op, "R") /\ does.first \subseteq now \cup Scratch(op, "R")
          /\ does.barrier <=> inside
          /\ inside => does.first = now
      <3>1. CASE inside
        BY <2>1, <2>4, <3>1 DEF Behaviour, Does, now
      <3>2. CASE ~inside
        BY <2>1, <2>4, <3>2 DEF Behaviour, Does, now
      <3> QED
        BY <3>1, <3>2
    <2>7. ASSUME ~does.barrier, ~hit PROVE before \subseteq r.info
      BY <2>2, <2>6, <2>7 DEF Result
    <2>8. ASSUME ~hit, NEW l \in before, NEW q \in does.first, Hazard(l, q) PROVE FALSE
      <3>1. CASE q \in now
        BY <1>3, <1>4, <2>8, <3>1, Intersected DEF hit
      <3>2. CASE q \in Scratch(op, "R") /\ q \notin now
        <4>1. PICK s \in op.scratch : q = Access("R", s, op)
          BY <3>2 DEF Scratch
        <4> DEFINE w == Access("W", s, op)
        <4>2. w \in now
          BY DEF now, Scratch
        <4>3. ~Distributed(q)
          BY <2>6, <2>8, <3>2
        <4>4. Hazard(l, w)
          BY <2>8, <4>1, <4>3 DEF Hazard, Access
        <4> HIDE DEF w
        <4> QED
          BY <1>3, <1>4, <2>8, <4>2, <4>4, Intersected DEF hit
      <3> QED
        BY <2>6, <2>8, <3>1, <3>2
    <2>9. Covers(r.info, does.last)
      BY <2>5, <2>6 DEF Covers
    <2>10. ~Synchronises(op)
      BY <1>4, <1>7
    <2> HIDE DEF does, inside
    <2>11. CASE hit
      BY <2>3, <2>5, <2>9, <2>11 DEF Fits, Passes, does, r, op
    <2>12. CASE ~hit
      BY <2>3, <2>5, <2>7, <2>8, <2>9, <2>10, <2>12 DEF Fits, Passes, does, r, op
    <2> QED
      BY <2>11, <2>12
  <1>8. CASE op.name \notin {"cluster_barrier", "return"} /\ op.scratch = {}
    <2> DEFINE new == IF op.name = "call" THEN CallInfo(op) ELSE now
    <2>1. r = Joined(before, new)
      BY <1>8 DEF ClusterUpdate
    <2>2. does.first = new /\ does.last = new /\ does.barrier = FALSE
      <3>1. CASE op.name = "call"
        BY <1>2, <3>1 DEF CallInfo, Moved, Does
      <3>2. CASE op.name # "call"
        <4>1. ~SynchronisesInside(op) /\ Scratch(op, "R") = {} /\ Scratch(op, "W") = {}
          BY <1>8 DEF SynchronisesInside, Scratch
        <4> QED
          BY <3>2, <4>1 DEF Behaviour, Does
      <3> QED
        BY <3>1, <3>2
    <2>3. new \in SUBSET Accesses
      BY <1>2, <2>2
    <2> HIDE DEF new, does, r
    <2>4. /\ r.info \in SUBSET Accesses /\ r.insert \in BOOLEAN /\ new \subseteq r.info
          /\ ~r.insert => before \subseteq r.info /\ ~IsIntersected(before, new)
      BY <2>1, <2>3, JoinedFits
    <2>5. ASSUME ~r.insert, NEW l \in before, NEW q \in new, Hazard(l, q) PROVE FALSE
      BY <1>4, <2>3, <2>4, <2>5, Intersected
    <2>6. ~Synchronises(op)
      BY <1>4, <1>8
    <2>7. Covers(r.info, does.last)
      BY <2>2, <2>4 DEF Covers
    <2>8. CASE r.insert
      BY <2>4, <2>7, <2>8 DEF Fits, Passes, does, r, op
    <2>9. CASE ~r.insert
      BY <2>2, <2>4, <2>5, <2>6, <2>7, <2>9 DEF Fits, Passes, does, r, op
    <2> QED
      BY <2>4, <2>8, <2>9
  <1> QED
    BY <1>5, <1>6, <1>7, <1>8

LEMMA UpdateFits ==
    ASSUME ProgramFits, summary \in [Functions -> SUBSET Accesses],
           NEW f \in Functions, NEW b \in Blocks(f), NEW i \in 1 .. Len(Code(f, b)),
           NEW next, NEW before \in SUBSET Accesses
    PROVE  Fits(Update(Code(f, b)[i], next, before), Code(f, b)[i], before)
  <1>1. program.analysis \in {"Membar", "ProxyFence", "TMem", "Cluster"}
    BY DEF ProgramFits, WellFormed
  <1>2. CASE program.analysis = "Membar"
    BY <1>2, MembarFits DEF Update
  <1>3. CASE program.analysis = "ProxyFence"
    BY <1>3, ProxyFenceFits DEF Update
  <1>4. CASE program.analysis = "TMem"
    BY <1>4, TMemFits DEF Update
  <1>5. CASE program.analysis = "Cluster"
    BY <1>5, ClusterFits DEF Update
  <1> QED
    BY <1>1, <1>2, <1>3, <1>4, <1>5

\* A kernel ends with no distributed access open.
Closes(op, after) ==
    program.analysis = "Cluster" /\ ~program.twoCTAs /\ op.name = "return" /\ op.kernel =>
        \A a \in after : ~Distributed(a)

LEMMA UpdateCloses ==
    ASSUME NEW op, NEW next, NEW before, op.name = "return" => op.kernel \in BOOLEAN
    PROVE  Closes(op, Update(op, next, before).info)
  <1> SUFFICES ASSUME program.analysis = "Cluster", ~program.twoCTAs, op.name = "return", op.kernel
               PROVE  \A a \in Update(op, next, before).info : ~Distributed(a)
    BY DEF Closes
  <1>0. OpenAtReturn(op, before) \in BOOLEAN
    BY DEF OpenAtReturn
  <1>1. Update(op, next, before) = ClusterUpdate(op, before)
    BY DEF Update
  <1>2. CASE OpenAtReturn(op, before)
    <2>1. ClusterUpdate(op, before) = Result({}, TRUE)
      BY <1>0, <1>2 DEF ClusterUpdate
    <2> QED
      BY <1>1, <2>1 DEF Result
  <1>3. CASE ~OpenAtReturn(op, before)
    <2>1. ClusterUpdate(op, before) = Result(before, FALSE)
      BY <1>0, <1>3 DEF ClusterUpdate
    <2>2. \A a \in before : ~Distributed(a)
      BY <1>3 DEF OpenAtReturn
    <2> QED
      BY <1>1, <2>1, <2>2 DEF Result
  <1> QED
    BY <1>2, <1>3

-----------------------------------------------------------------------------
(* A block: a certificate is an info between any two operations such that  *)
(* each passes what it finds.  More barriers do not hurt it.               *)

Stopped(points, f, b, i) == Point(f, b, i) \in points \/ Synchronises(Code(f, b)[i])
Certifies(c, points, f, b, in, out) ==
    /\ c \in [0 .. Len(Code(f, b)) -> SUBSET Accesses]
    /\ c[0] = in /\ c[Len(Code(f, b))] = out
    /\ \A i \in 1 .. Len(Code(f, b)) :
         Passes(Code(f, b)[i], Stopped(points, f, b, i), c[i - 1], c[i]) /\ Closes(Code(f, b)[i], c[i])
Certified(points, f, b, in, out) == \E c : Certifies(c, points, f, b, in, out)

LEMMA PassesMore ==
    ASSUME NEW op, NEW less, NEW more, less => more, NEW before, NEW after, Passes(op, less, before, after)
    PROVE  Passes(op, more, before, after)
  <1>1. CASE more
    BY <1>1 DEF Passes
  <1>2. CASE ~more
    BY <1>2 DEF Passes
  <1> QED
    BY <1>1, <1>2

LEMMA CertifiedMore ==
    ASSUME NEW less, NEW more, less \subseteq more, NEW f, NEW b, NEW in, NEW out,
           Certified(less, f, b, in, out)
    PROVE  Certified(more, f, b, in, out)
  <1>1. PICK c : Certifies(c, less, f, b, in, out)
    BY DEF Certified
  <1>2. ASSUME NEW i \in 1 .. Len(Code(f, b))
        PROVE  Passes(Code(f, b)[i], Stopped(more, f, b, i), c[i - 1], c[i])
    <2>1. Passes(Code(f, b)[i], Stopped(less, f, b, i), c[i - 1], c[i])
      BY <1>1 DEF Certifies
    <2>2. Stopped(less, f, b, i) => Stopped(more, f, b, i)
      BY DEF Stopped
    <2> QED
      BY <2>1, <2>2, PassesMore
  <1>3. Certifies(c, more, f, b, in, out)
    BY <1>1, <1>2 DEF Certifies
  <1> QED
    BY <1>3 DEF Certified

\* What a visit computes is certified.
LEMMA VisitCertified ==
    ASSUME ProgramFits, summary \in [Functions -> SUBSET Accesses], func \in Functions,
           NEW b \in Blocks(func), inputs[b] \in SUBSET Accesses
    PROVE  /\ BlockUpdate(b).info \in SUBSET Accesses
           /\ inserted \subseteq BlockUpdate(b).inserted
           /\ Certified(BlockUpdate(b).inserted, func, b, inputs[b], BlockUpdate(b).info)
  <1> DEFINE n == Len(Code(func, b))
             op(i) == Code(func, b)[i]
             here(i) == Point(func, b, i)
  <1>1. n \in Nat
    BY ProgramFacts
  <1>2. PICK g : /\ g[0] = [info |-> inputs[b], inserted |-> inserted]
                 /\ \A i \in 1 .. n : g[i] = BlockStep(b, i, g[i - 1])
                 /\ BlockUpdate(b) = g[n]
    BY <1>1, BlockUpdateFrom
  <1> DEFINE Sound(i) ==
               /\ g[i].info \in SUBSET Accesses
               /\ g[i - 1].inserted \subseteq g[i].inserted
               /\ Passes(op(i), Stopped(g[i].inserted, func, b, i), g[i - 1].info, g[i].info)
               /\ Closes(op(i), g[i].info)
  <1>3. ASSUME NEW i \in 1 .. n, g[i - 1].info \in SUBSET Accesses PROVE Sound(i)
    <2> DEFINE before == IF here(i) \in g[i - 1].inserted THEN {} ELSE g[i - 1].info
               r == Update(op(i), Next1(func, b, i), before)
    <2>1. before \in SUBSET Accesses
      BY <1>3
    <2>2. Fits(r, op(i), before)
      BY <2>1, UpdateFits
    <2>3. g[i] = [info |-> r.info,
                  inserted |-> IF r.insert THEN g[i - 1].inserted \cup {here(i)} ELSE g[i - 1].inserted]
      BY <1>2 DEF BlockStep
    <2>4. op(i).kernel \in BOOLEAN
      BY OperationFacts DEF OperationType
    <2>5. Closes(op(i), r.info)
      BY <2>4, UpdateCloses
    <2> DEFINE sync == Synchronises(op(i))
               stopped == Stopped(g[i].inserted, func, b, i)
    <2>6. r.info \in SUBSET Accesses /\ r.insert \in BOOLEAN /\ Passes(op(i), r.insert \/ sync, before, r.info)
      BY <2>2 DEF Fits
    <2> HIDE DEF r, sync
    <2>7. g[i].info = r.info /\ g[i - 1].inserted \subseteq g[i].inserted
      BY <2>3, <2>6
    <2>8. r.insert \/ sync => stopped
      BY <2>3, <2>6 DEF Stopped, sync
    <2>9. Passes(op(i), stopped, before, g[i].info)
      BY <2>6, <2>7, <2>8, PassesMore
    <2>10. CASE here(i) \in g[i - 1].inserted
      <3>1. stopped
        BY <2>7, <2>10 DEF Stopped
      <3> QED
        BY <2>5, <2>6, <2>7, <2>9, <3>1 DEF Passes
    <2>11. CASE here(i) \notin g[i - 1].inserted
      BY <2>5, <2>6, <2>7, <2>9, <2>11
    <2> QED
      BY <2>10, <2>11
  <1> HIDE DEF Sound
  <1> DEFINE S == {k \in Nat : k =< n => g[k].info \in SUBSET Accesses /\ inserted \subseteq g[k].inserted}
  <1>4. 0 \in S
    BY <1>2
  <1>5. ASSUME NEW k \in Nat, k \in S PROVE k + 1 \in S
    <2> SUFFICES ASSUME k + 1 =< n
                 PROVE  g[k + 1].info \in SUBSET Accesses /\ inserted \subseteq g[k + 1].inserted
      OBVIOUS
    <2>1. k + 1 \in 1 .. n /\ (k + 1) - 1 = k /\ k =< n
      BY <1>1
    <2>2. g[k].info \in SUBSET Accesses /\ inserted \subseteq g[k].inserted
      BY <1>5, <2>1
    <2>3. Sound(k + 1)
      BY <1>3, <2>1, <2>2
    <2>4. g[k + 1].info \in SUBSET Accesses /\ g[k].inserted \subseteq g[k + 1].inserted
      BY <2>1, <2>3 DEF Sound
    <2> QED
      BY <2>2, <2>4
  <1>6. S = Nat
    <2> HIDE DEF S
    <2>1. S \in SUBSET Nat
      BY DEF S
    <2> QED
      BY <1>4, <1>5, <2>1, SetInduction
  <1>7. \A k \in 0 .. n : g[k].info \in SUBSET Accesses /\ inserted \subseteq g[k].inserted
    BY <1>1, <1>6
  <1>8. \A i \in 1 .. n : Sound(i)
    <2> SUFFICES ASSUME NEW i \in 1 .. n PROVE Sound(i)
      OBVIOUS
    <2>1. i - 1 \in 0 .. n
      BY <1>1
    <2> QED
      BY <1>3, <1>7, <2>1
  \* What a point adds stays to the end of the block.
  <1> DEFINE T == {k \in Nat : k =< n => g[n - k].inserted \subseteq g[n].inserted}
  <1>9. 0 \in T
    BY <1>1
  <1>10. ASSUME NEW k \in Nat, k \in T PROVE k + 1 \in T
    <2> SUFFICES ASSUME k + 1 =< n PROVE g[n - (k + 1)].inserted \subseteq g[n].inserted
      OBVIOUS
    <2>1. n - k \in 1 .. n /\ (n - k) - 1 = n - (k + 1) /\ k =< n
      BY <1>1
    <2>2. g[(n - k) - 1].inserted \subseteq g[n - k].inserted
      BY <1>8, <2>1 DEF Sound
    <2>3. g[n - k].inserted \subseteq g[n].inserted
      BY <1>10, <2>1
    <2> QED
      BY <2>1, <2>2, <2>3
  <1>11. T = Nat
    <2> HIDE DEF T
    <2>1. T \in SUBSET Nat
      BY DEF T
    <2> QED
      BY <1>9, <1>10, <2>1, SetInduction
  <1>12. ASSUME NEW i \in 1 .. n PROVE g[i].inserted \subseteq g[n].inserted
    <2>1. n - i \in Nat /\ n - i =< n /\ n - (n - i) = i
      BY <1>1
    <2> QED
      BY <1>11, <2>1
  <1> DEFINE c == [k \in 0 .. n |-> g[k].info]
  <1>13. ASSUME NEW i \in 1 .. n
         PROVE  Passes(op(i), Stopped(g[n].inserted, func, b, i), c[i - 1], c[i]) /\ Closes(op(i), c[i])
    <2>1. i \in 0 .. n /\ i - 1 \in 0 .. n
      BY <1>1
    <2>2. c[i] = g[i].info /\ c[i - 1] = g[i - 1].info
      BY <2>1
    <2>3. Stopped(g[i].inserted, func, b, i) => Stopped(g[n].inserted, func, b, i)
      BY <1>12 DEF Stopped
    <2>4. Passes(op(i), Stopped(g[i].inserted, func, b, i), g[i - 1].info, g[i].info) /\ Closes(op(i), g[i].info)
      BY <1>8 DEF Sound
    <2> HIDE DEF c
    <2> QED
      BY <2>2, <2>3, <2>4, PassesMore
  <1>14. c \in [0 .. n -> SUBSET Accesses] /\ c[0] = inputs[b] /\ c[n] = g[n].info
    BY <1>1, <1>2, <1>7
  <1> HIDE DEF c
  <1>15. Certifies(c, g[n].inserted, func, b, inputs[b], g[n].info)
    BY <1>13, <1>14 DEF Certifies
  <1>16. n \in 0 .. n
    BY <1>1
  <1> QED
    BY <1>2, <1>7, <1>15, <1>16 DEF Certified

-----------------------------------------------------------------------------
(* A function: the infos where its blocks begin and end, once the visits   *)
(* change nothing, cover what is pending there on any path                 *)

Fixed(points, f, in, out) ==
    /\ in \in [Blocks(f) -> SUBSET Accesses] /\ out \in [Blocks(f) -> SUBSET Accesses]
    /\ \A b \in Blocks(f) : Certified(points, f, b, in[b], out[b])
    /\ \A b \in Blocks(f) : \A c \in ToSet(program.funcs[f].succ[b]) : out[b] \subseteq in[c]
Finished(points, f) ==
    \E in, out : Fixed(points, f, in, out) /\ \A b \in Returns(f) : out[b] \subseteq summary[f]

\* What calls do is in the summaries of their callees.
Reported(calls) ==
    \A g \in Functions : g < Len(program.funcs) =>
        /\ calls[g].barrier = FALSE
        /\ Covers(summary[g], calls[g].first) /\ Covers(summary[g], calls[g].last)

\* Then an operation does what the analysis takes it to do.
LEMMA BehaviourReported ==
    ASSUME ProgramFits, NEW f \in Functions, NEW b \in Blocks(f), NEW i \in 1 .. Len(Code(f, b)),
           NEW calls, Reported(calls)
    PROVE  /\ Behaviour(Code(f, b)[i], calls).barrier = Behaviour(Code(f, b)[i], Summaries).barrier
           /\ Behaviour(Code(f, b)[i], calls).first \subseteq Behaviour(Code(f, b)[i], Summaries).first
           /\ Covers(Behaviour(Code(f, b)[i], Summaries).last, Behaviour(Code(f, b)[i], calls).last)
  <1> DEFINE op == Code(f, b)[i]
  <1>1. OperationFits(program.analysis, f, op)
    BY OperationFacts
  <1> HIDE DEF op
  <1>2. CASE op.name # "call"
    <2>1. Behaviour(op, calls) = Behaviour(op, Summaries)
      BY <1>2 DEF Behaviour
    <2> QED
      BY <2>1 DEF Covers, op
  <1>3. CASE op.name = "call"
    <2> DEFINE g == op.callee
    <2>1. program.analysis # "ProxyFence" /\ g \in 1 .. (f - 1)
      BY <1>1, <1>3 DEF OperationFits
    <2>2. f \in 1 .. Len(program.funcs) /\ Functions = 1 .. Len(program.funcs) /\ Len(program.funcs) \in Nat
      BY ProgramFacts
    <2>3. g \in Functions /\ g < Len(program.funcs)
      BY <2>1, <2>2
    <2>4. calls[g].barrier = FALSE /\ calls[g].first \subseteq summary[g] /\ calls[g].last \subseteq summary[g]
      BY <2>1, <2>3 DEF Reported, Covers, Harmless
    <2>5. Moved(op, calls[g].first) \subseteq Moved(op, summary[g]) /\ Moved(op, calls[g].last) \subseteq Moved(op, summary[g])
      BY <2>4 DEF Moved
    <2>6. Summaries[g].first = summary[g] /\ Summaries[g].last = summary[g] /\ Summaries[g].barrier = FALSE
      BY <2>3 DEF Summaries, Does
    <2>7. Behaviour(op, calls) = Does(Moved(op, calls[g].first), calls[g].barrier, Moved(op, calls[g].last))
      BY <1>3 DEF Behaviour
    <2>8. Behaviour(op, Summaries) = Does(Moved(op, summary[g]), FALSE, Moved(op, summary[g]))
      BY <1>3, <2>6 DEF Behaviour
    <2> DEFINE does == Behaviour(op, calls)
               taken == Behaviour(op, Summaries)
    <2>9. does.barrier = FALSE /\ does.first = Moved(op, calls[g].first) /\ does.last = Moved(op, calls[g].last)
      BY <2>4, <2>7 DEF Does
    <2>10. taken.barrier = FALSE /\ taken.first = Moved(op, summary[g]) /\ taken.last = Moved(op, summary[g])
      BY <2>8 DEF Does
    <2> HIDE DEF does, taken, g
    <2>11. does.barrier = taken.barrier /\ does.first \subseteq taken.first /\ Covers(taken.last, does.last)
      BY <2>5, <2>9, <2>10 DEF Covers
    <2> QED
      BY <2>11 DEF does, taken, op
  <1> QED
    BY <1>2, <1>3

\* Harmless accesses need nothing after them.
LEMMA HarmlessIs ==
    ASSUME NEW l, NEW r, Harmless(l)
    PROVE  ~Hazard(l, r)
  BY DEF Harmless, Hazard

\* From what the infos cover where a block begins to where it ends.
LEMMA ThroughCovered ==
    ASSUME ProgramFits, NEW f \in Functions, NEW b \in Blocks(f), NEW in, NEW out,
           Certified(inserted, f, b, in, out), NEW calls, Reported(calls),
           NEW pending, Covers(in, pending)
    PROVE  /\ Covers(out, Through(f, b, pending, calls).pending)
           /\ Through(f, b, pending, calls).races = {}
  <1> DEFINE n == Len(Code(f, b))
             op(i) == Code(f, b)[i]
  <1>1. n \in Nat
    BY ProgramFacts
  <1>2. PICK g : /\ g[0] = [pending |-> pending, races |-> {}]
                 /\ \A i \in 1 .. n : g[i] = ThroughStep(f, b, i, calls, g[i - 1])
                 /\ Through(f, b, pending, calls) = g[n]
    BY <1>1, ThroughFrom
  <1>3. PICK c : Certifies(c, inserted, f, b, in, out)
    BY DEF Certified
  <1> DEFINE Good(i) == Covers(c[i], g[i].pending) /\ g[i].races = {}
  <1>4. Good(0)
    BY <1>2, <1>3 DEF Certifies
  <1>5. ASSUME NEW i \in 1 .. n, Good(i - 1) PROVE Good(i)
    <2> DEFINE does == Behaviour(op(i), calls)
               taken == Behaviour(op(i), Summaries)
               barred == Barred(f, b, i)
               before == IF barred THEN {} ELSE g[i - 1].pending
    <2>1. /\ does.barrier = taken.barrier /\ does.first \subseteq taken.first /\ Covers(taken.last, does.last)
      BY BehaviourReported
    <2>2. barred = Stopped(inserted, f, b, i)
      BY DEF Barred, Stopped
    <2>3. Passes(op(i), barred, c[i - 1], c[i])
      BY <1>3, <2>2 DEF Certifies
    <2>4. g[i] = [pending |-> does.last \cup (IF does.barrier THEN {} ELSE before),
                  races |-> g[i - 1].races \cup {q \in before \X does.first : Hazard(q[1], q[2])}]
      BY <1>2 DEF ThroughStep
    <2>5. barred \in BOOLEAN
      BY DEF Barred
    <2>6. /\ Covers(c[i], taken.last)
          /\ ~taken.barrier => (IF barred THEN {} ELSE c[i - 1]) \subseteq c[i]
          /\ \A l \in IF barred THEN {} ELSE c[i - 1], r \in taken.first : ~Hazard(l, r)
      BY <2>3 DEF Passes
    <2> HIDE DEF does, taken, barred
    <2>7. Covers(IF barred THEN {} ELSE c[i - 1], before)
      BY <1>5, <2>5 DEF Covers
    <2> DEFINE infos == IF barred THEN {} ELSE c[i - 1]
    <2> HIDE DEF before, infos
    <2>8. Covers(c[i], does.last)
      BY <2>1, <2>6 DEF Covers
    <2>9. ~does.barrier => Covers(c[i], before)
      BY <2>1, <2>6, <2>7 DEF Covers, infos
    <2>10. ASSUME NEW l \in before, NEW r \in does.first PROVE ~Hazard(l, r)
      <3>1. CASE Harmless(l)
        BY <3>1, HarmlessIs
      <3>2. CASE ~Harmless(l)
        <4>1. l \in infos
          BY <2>7, <2>10, <3>2 DEF Covers, infos
        <4> QED
          BY <2>1, <2>6, <4>1 DEF infos
      <3> QED
        BY <3>1, <3>2
    <2>11. g[i].races = {}
      BY <1>5, <2>4, <2>10
    <2>12. Covers(c[i], g[i].pending)
      BY <2>4, <2>8, <2>9 DEF Covers
    <2> QED
      BY <2>11, <2>12
  <1> HIDE DEF Good
  <1> DEFINE S == {k \in Nat : k =< n => Good(k)}
  <1>6. 0 \in S
    BY <1>4
  <1>7. ASSUME NEW k \in Nat, k \in S PROVE k + 1 \in S
    <2> SUFFICES ASSUME k + 1 =< n PROVE Good(k + 1)
      OBVIOUS
    <2>1. k + 1 \in 1 .. n /\ (k + 1) - 1 = k /\ k =< n
      BY <1>1
    <2> QED
      BY <1>5, <1>7, <2>1
  <1>8. S = Nat
    <2> HIDE DEF S
    <2>1. S \in SUBSET Nat
      BY DEF S
    <2> QED
      BY <1>6, <1>7, <2>1, SetInduction
  <1>9. Good(n)
    BY <1>1, <1>8
  <1> QED
    BY <1>2, <1>3, <1>9 DEF Good, Certifies

LEMMA PendingCovered ==
    ASSUME ProgramFits, NEW f \in Functions, NEW in, NEW out, Fixed(inserted, f, in, out),
           NEW calls, Reported(calls), NEW n \in Nat
    PROVE  \A b \in Blocks(f) : Covers(in[b], PendingAfter(f, calls, n)[b])
  <1>1. PICK g : /\ g[0] = [b \in Blocks(f) |-> {}]
                 /\ \A i \in 1 .. n : g[i] = Onward(f, calls, g[i - 1])
                 /\ PendingAfter(f, calls, n) = g[n]
    BY PendingFrom
  <1> DEFINE Good(i) == \A b \in Blocks(f) : Covers(in[b], g[i][b])
  <1>2. Good(0)
    BY <1>1 DEF Covers
  <1>3. ASSUME NEW i \in 1 .. n, Good(i - 1) PROVE Good(i)
    <2> SUFFICES ASSUME NEW b \in Blocks(f) PROVE Covers(in[b], g[i][b])
      OBVIOUS
    <2> DEFINE p == g[i - 1]
    <2>0. g[i] = Onward(f, calls, p)
      BY <1>1
    <2> HIDE DEF p
    <2>1. g[i][b] = UNION {Through(f, c, p[c], calls).pending : c \in Predecessors(f, b)}
      BY <2>0, Zenon DEF Onward
    <2>2. ASSUME NEW c \in Predecessors(f, b) PROVE Covers(in[b], Through(f, c, p[c], calls).pending)
      <3>1. c \in Blocks(f) /\ b \in ToSet(program.funcs[f].succ[c])
        BY DEF Predecessors
      <3>2. Certified(inserted, f, c, in[c], out[c]) /\ out[c] \subseteq in[b]
        BY <3>1 DEF Fixed
      <3>3. Covers(in[c], p[c])
        BY <1>3, <3>1 DEF p
      <3>4. Covers(out[c], Through(f, c, p[c], calls).pending)
        BY <3>1, <3>2, <3>3, ThroughCovered
      <3> QED
        BY <3>2, <3>4 DEF Covers
    <2> QED
      BY <2>1, <2>2 DEF Covers
  <1> HIDE DEF Good
  <1> DEFINE S == {k \in Nat : k =< n => Good(k)}
  <1>4. 0 \in S
    BY <1>2
  <1>5. ASSUME NEW k \in Nat, k \in S PROVE k + 1 \in S
    <2> SUFFICES ASSUME k + 1 =< n PROVE Good(k + 1)
      OBVIOUS
    <2>1. k + 1 \in 1 .. n /\ (k + 1) - 1 = k /\ k =< n
      OBVIOUS
    <2> QED
      BY <1>3, <1>5, <2>1
  <1>6. S = Nat
    <2> HIDE DEF S
    <2>1. S \in SUBSET Nat
      BY DEF S
    <2> QED
      BY <1>4, <1>5, <2>1, SetInduction
  <1>7. Good(n)
    BY <1>6
  <1> QED
    BY <1>1, <1>7 DEF Good

\* Nothing in the function is without its barrier, and the infos at its returns
\* cover what is pending there.
LEMMA FunctionCovered ==
    ASSUME ProgramFits, NEW f \in Functions, NEW in, NEW out, Fixed(inserted, f, in, out),
           NEW calls, Reported(calls)
    PROVE  /\ Races(f, calls) = {}
           /\ \A a \in PendingAtReturn(f, calls) : Harmless(a) \/ \E b \in Returns(f) : a \in out[b]
  <1> DEFINE pending == Pending(f, calls)
  <1>1. Cardinality(Blocks(f)) \in Nat
    <2>1. Blocks(f) = 1 .. Len(program.funcs[f].code) /\ Len(program.funcs[f].code) \in Nat
      <3>1. program.funcs[f].code \in Seq(Seq(OperationType))
        BY ProgramFacts
      <3> QED
        BY <3>1, ProgramFacts
    <2>2. IsFiniteSet(Blocks(f))
      BY <2>1, FS_Interval
    <2> QED
      BY <2>2, FS_CardinalityType
  <1>2. \A b \in Blocks(f) : Covers(in[b], pending[b])
    BY <1>1, PendingCovered DEF Pending
  <1> HIDE DEF pending
  <1>3. \A b \in Blocks(f) : Certified(inserted, f, b, in[b], out[b])
    BY DEF Fixed
  <1>4. ASSUME NEW b \in Blocks(f)
        PROVE  /\ Covers(out[b], Through(f, b, pending[b], calls).pending)
               /\ Through(f, b, pending[b], calls).races = {}
    BY <1>2, <1>3, ThroughCovered
  <1>5. Races(f, calls) = UNION {Through(f, b, pending[b], calls).races : b \in Blocks(f)}
    BY DEF Races, pending
  <1>6. PendingAtReturn(f, calls) = UNION {Through(f, b, pending[b], calls).pending : b \in Returns(f)}
    BY DEF PendingAtReturn, pending
  <1>7. Races(f, calls) = {}
    BY <1>4, <1>5
  <1>8. Returns(f) \subseteq Blocks(f)
    BY DEF Returns
  <1>9. ASSUME NEW a \in PendingAtReturn(f, calls) PROVE Harmless(a) \/ \E b \in Returns(f) : a \in out[b]
    <2>1. PICK b \in Returns(f) : a \in Through(f, b, pending[b], calls).pending
      BY <1>6
    <2>2. Covers(out[b], Through(f, b, pending[b], calls).pending)
      BY <1>4, <1>8
    <2> QED
      BY <2>1, <2>2 DEF Covers
  <1> QED
    BY <1>7, <1>9

-----------------------------------------------------------------------------
(* The program: calls leave what the summaries report, at any depth        *)

LEMMA PendingReported ==
    ASSUME NEW pending, \A g \in Functions : g < Len(program.funcs) => Covers(summary[g], pending[g])
    PROVE  Reported(AsPending(pending))
  <1> SUFFICES ASSUME NEW g \in Functions, g < Len(program.funcs)
               PROVE  /\ AsPending(pending)[g].barrier = FALSE
                      /\ Covers(summary[g], AsPending(pending)[g].first)
                      /\ Covers(summary[g], AsPending(pending)[g].last)
    BY DEF Reported
  <1>1. AsPending(pending)[g] = Does(pending[g], FALSE, pending[g])
    BY DEF AsPending
  <1> QED
    BY <1>1 DEF Does

LEMMA LeavesReported ==
    ASSUME ProgramFits, \A f \in Functions : f < Len(program.funcs) => Finished(inserted, f), NEW n \in Nat
    PROVE  Reported(LeavesTo(n))
  <1>1. PICK g : /\ g[0] = AsPending([f \in Functions |-> {}])
                 /\ \A i \in 1 .. n : g[i] = Deeper(g[i - 1])
                 /\ LeavesTo(n) = g[n]
    BY LeavesFrom
  <1>2. Reported(g[0])
    <2> DEFINE none == [f \in Functions |-> {}]
    <2>1. \A f \in Functions : Covers(summary[f], none[f])
      BY DEF Covers
    <2> HIDE DEF none
    <2>2. Reported(AsPending(none))
      BY <2>1, PendingReported
    <2> QED
      BY <1>1, <2>2 DEF none
  <1>3. ASSUME NEW i \in 1 .. n, Reported(g[i - 1]) PROVE Reported(g[i])
    <2> DEFINE calls == g[i - 1]
               left == [f \in Functions |-> PendingAtReturn(f, calls)]
    <2>1. ASSUME NEW f \in Functions, f < Len(program.funcs) PROVE Covers(summary[f], PendingAtReturn(f, calls))
      <3>1. PICK in, out : Fixed(inserted, f, in, out) /\ \A b \in Returns(f) : out[b] \subseteq summary[f]
        BY <2>1 DEF Finished
      <3>2. \A a \in PendingAtReturn(f, calls) : Harmless(a) \/ \E b \in Returns(f) : a \in out[b]
        BY <1>3, <3>1, FunctionCovered
      <3> QED
        BY <3>1, <3>2 DEF Covers
    <2>2. \A f \in Functions : f < Len(program.funcs) => Covers(summary[f], left[f])
      BY <2>1
    <2>3. g[i] = AsPending(left)
      BY <1>1 DEF Deeper
    <2> HIDE DEF left
    <2> QED
      BY <2>2, <2>3, PendingReported
  <1> DEFINE S == {k \in Nat : k =< n => Reported(g[k])}
  <1>4. 0 \in S
    BY <1>2
  <1>5. ASSUME NEW k \in Nat, k \in S PROVE k + 1 \in S
    <2> SUFFICES ASSUME k + 1 =< n PROVE Reported(g[k + 1])
      OBVIOUS
    <2>1. k + 1 \in 1 .. n /\ (k + 1) - 1 = k /\ k =< n
      OBVIOUS
    <2> QED
      BY <1>3, <1>5, <2>1
  <1>6. S = Nat
    <2> HIDE DEF S
    <2>1. S \in SUBSET Nat
      BY DEF S
    <2> QED
      BY <1>4, <1>5, <2>1, SetInduction
  <1>7. Reported(g[n])
    BY <1>6
  <1> QED
    BY <1>1, <1>7

\* When all functions are finished, and the blocks of the last one.
LEMMA AllOrdered ==
    ASSUME ProgramFits, \A f \in Functions : f < Len(program.funcs) => Finished(inserted, f),
           NEW in, NEW out, Fixed(inserted, Len(program.funcs), in, out)
    PROVE  /\ \A f \in Functions : Races(f, CallLeaves) = {}
           /\ \A a \in PendingAtReturn(Len(program.funcs), CallLeaves) :
                Harmless(a) \/ \E b \in Returns(Len(program.funcs)) : a \in out[b]
  <1>1. Len(program.funcs) \in Nat \ {0} /\ Functions = 1 .. Len(program.funcs)
    BY DEF ProgramFits, WellFormed, Functions
  <1>2. Reported(CallLeaves)
    BY <1>1, LeavesReported DEF CallLeaves
  <1>3. Len(program.funcs) \in Functions
    BY <1>1
  <1>4. ASSUME NEW f \in Functions PROVE Races(f, CallLeaves) = {}
    <2>1. CASE f = Len(program.funcs)
      BY <1>2, <1>3, <2>1, FunctionCovered
    <2>2. CASE f < Len(program.funcs)
      <3>1. PICK i, o : Fixed(inserted, f, i, o)
        BY <2>2 DEF Finished
      <3> QED
        BY <1>2, <3>1, FunctionCovered
    <2> QED
      BY <1>1, <2>1, <2>2
  <1> QED
    BY <1>2, <1>3, <1>4, FunctionCovered

\* A kernel that is certified returns with no distributed access open.
LEMMA KernelCloses ==
    ASSUME ProgramFits, program.analysis = "Cluster", ~program.twoCTAs, KernelReturns(program),
           NEW in, NEW out, Fixed(inserted, Len(program.funcs), in, out),
           NEW b \in Returns(Len(program.funcs)), NEW a \in out[b]
    PROVE  ~Distributed(a)
  <1> DEFINE f == Len(program.funcs)
             n == Len(Code(f, b))
  <1>1. f \in Functions /\ b \in Blocks(f)
    BY DEF ProgramFits, WellFormed, Functions, Returns
  <1>3. Code(f, b) # <<>> /\ Code(f, b)[n].name = "return" /\ Code(f, b)[n].kernel
    BY <1>1 DEF KernelReturns, Returns, Blocks, Code
  <1>4. Code(f, b) \in Seq(OperationType) /\ n \in Nat
    BY <1>1, ProgramFacts
  <1>5. n \in 1 .. n
    <2> DEFINE s == Code(f, b)
    <2> HIDE DEF s
    <2>1. s \in Seq(OperationType) /\ s # <<>> => Len(s) \in 1 .. Len(s)
      OBVIOUS
    <2> QED
      BY <1>3, <1>4, <2>1 DEF s
  <1>6. Certified(inserted, f, b, in[b], out[b])
    BY <1>1 DEF Fixed
  <1>7. PICK c : Certifies(c, inserted, f, b, in[b], out[b])
    BY <1>6 DEF Certified
  <1>8. Closes(Code(f, b)[n], c[n]) /\ c[n] = out[b]
    BY <1>5, <1>7 DEF Certifies
  <1> QED
    BY <1>3, <1>8 DEF Closes

-----------------------------------------------------------------------------
(* The invariant: a block that was visited is certified from the info it   *)
(* began with, unless it waits for another visit, and has passed its info  *)
(* on; nothing that can be reached is forgotten.                           *)

BlockType == [seen : BOOLEAN, info : SUBSET Accesses]
MembarTypeOK ==
    /\ func \in Functions /\ work \in Seq(Blocks(func))
    /\ inputs \in [Blocks(func) -> SUBSET Accesses] /\ outputs \in [Blocks(func) -> BlockType]
    /\ summary \in [Functions -> SUBSET Accesses]
Waiting(b) == b \in ToSet(work)
Visited ==
    \A b \in Blocks(func) : outputs[b].seen =>
        /\ Waiting(b) \/ Certified(inserted, func, b, inputs[b], outputs[b].info)
        /\ \A c \in ToSet(program.funcs[func].succ[b]) :
             outputs[b].info \subseteq inputs[c] /\ (outputs[c].seen \/ Waiting(c))
Started == outputs[program.funcs[func].entry].seen \/ Waiting(program.funcs[func].entry)
CalleesFinished == \A f \in Functions : f < func => Finished(inserted, f)
MembarInvariant == ProgramFits /\ MembarTypeOK /\ Visited /\ Started /\ CalleesFinished

\* Everything is visited when nothing waits, so the infos are fixed.
LEMMA NothingWaits ==
    ASSUME MembarInvariant, work = <<>>
    PROVE  Fixed(inserted, func, inputs, [b \in Blocks(func) |-> outputs[b].info])
  <1> USE DEF MembarInvariant
  <1>1. \A b \in Blocks(func) : ~Waiting(b)
    BY DEF Waiting, ToSet
  <1> DEFINE B == {b \in Blocks(func) : outputs[b].seen}
  <1>2. func \in Functions /\ program.funcs[func].entry \in Blocks(func)
        /\ program.funcs[func].succ \in [Blocks(func) -> Seq(Blocks(func))]
    BY ProgramFacts DEF MembarTypeOK
  <1>3. program.funcs[func].entry \in B
    BY <1>1, <1>2 DEF Started
  <1>4. ASSUME NEW b \in B PROVE ToSet(program.funcs[func].succ[b]) \subseteq B
    <2> DEFINE s == program.funcs[func].succ[b]
    <2>1. s \in Seq(Blocks(func))
      BY <1>2
    <2> HIDE DEF s
    <2>2. ToSet(s) \subseteq Blocks(func)
      BY <2>1 DEF ToSet
    <2>3. \A c \in ToSet(s) : outputs[c].seen
      BY <1>1, <2>2 DEF Visited, s
    <2> QED
      BY <2>2, <2>3 DEF s
  <1>5. B = Blocks(func)
    <2>1. FunctionFits(program.analysis, func, program.funcs[func])
      BY <1>2 DEF ProgramFits, WellFormed, Functions
    <2>2. \A X \in SUBSET Blocks(func) :
            program.funcs[func].entry \in X /\ (\A b \in X : ToSet(program.funcs[func].succ[b]) \subseteq X)
              => X = Blocks(func)
      BY <2>1 DEF FunctionFits, Blocks
    <2>3. B \in SUBSET Blocks(func)
      OBVIOUS
    <2> HIDE DEF B
    <2> QED
      BY <1>3, <1>4, <2>2, <2>3
  <1> DEFINE out == [b \in Blocks(func) |-> outputs[b].info]
  <1>6. ASSUME NEW b \in Blocks(func)
        PROVE  /\ Certified(inserted, func, b, inputs[b], outputs[b].info)
               /\ \A c \in ToSet(program.funcs[func].succ[b]) : outputs[b].info \subseteq inputs[c]
    <2>1. outputs[b].seen
      BY <1>5
    <2> QED
      BY <1>1, <2>1 DEF Visited
  <1>7. inputs \in [Blocks(func) -> SUBSET Accesses] /\ out \in [Blocks(func) -> SUBSET Accesses]
    BY DEF MembarTypeOK, BlockType
  <1>8. \A b \in Blocks(func) : out[b] = outputs[b].info
    OBVIOUS
  <1> HIDE DEF out
  <1>9. Fixed(inserted, func, inputs, out)
    BY <1>6, <1>7, <1>8 DEF Fixed
  <1> QED
    BY <1>9 DEF out

\* So the properties follow.
LEMMA InvariantOrders ==
    ASSUME MembarInvariant
    PROVE  AccessesOrdered /\ ((program.analysis = "Cluster" => KernelReturns(program)) => ExitIsSafe)
  <1> SUFFICES ASSUME Done
               PROVE  /\ \A f \in Functions : Races(f, CallLeaves) = {}
                      /\ program.analysis = "Cluster" /\ ~program.twoCTAs /\ KernelReturns(program) =>
                           \A a \in PendingAtReturn(Len(program.funcs), CallLeaves) : ~Distributed(a)
    BY DEF AccessesOrdered, ExitIsSafe
  <1> DEFINE out == [b \in Blocks(func) |-> outputs[b].info]
  <1>1. func = Len(program.funcs) /\ ProgramFits
    BY DEF Done, MembarInvariant
  <1>2. Fixed(inserted, Len(program.funcs), inputs, out)
    BY <1>1, NothingWaits DEF Done
  <1>3. \A f \in Functions : f < Len(program.funcs) => Finished(inserted, f)
    BY <1>1 DEF MembarInvariant, CalleesFinished
  <1> HIDE DEF out
  <1>4. /\ \A f \in Functions : Races(f, CallLeaves) = {}
        /\ \A a \in PendingAtReturn(Len(program.funcs), CallLeaves) :
             Harmless(a) \/ \E b \in Returns(Len(program.funcs)) : a \in out[b]
    BY <1>1, <1>2, <1>3, AllOrdered
  <1>5. ASSUME program.analysis = "Cluster", ~program.twoCTAs, KernelReturns(program),
               NEW a \in PendingAtReturn(Len(program.funcs), CallLeaves)
        PROVE  ~Distributed(a)
    <2>1. ~Harmless(a)
      BY <1>5 DEF Harmless
    <2>2. PICK b \in Returns(Len(program.funcs)) : a \in out[b]
      BY <1>4, <2>1
    <2> QED
      BY <1>1, <1>2, <1>5, <2>2, KernelCloses
  <1> QED
    BY <1>4, <1>5

-----------------------------------------------------------------------------
(* What a step keeps: the program, and the summaries of finished functions *)

LEMMA SameProgram ==
    ASSUME program' = program
    PROVE  /\ Accesses' = Accesses /\ Functions' = Functions /\ ProgramFits' = ProgramFits
           /\ \A f : Blocks(f)' = Blocks(f) /\ Returns(f)' = Returns(f)
           /\ \A f, b : Code(f, b)' = Code(f, b)
           /\ \A l, r : Hazard(l, r)' = Hazard(l, r)
           /\ \A a : Harmless(a)' = Harmless(a)
           /\ \A op : Synchronises(op)' = Synchronises(op) /\ SynchronisesInside(op)' = SynchronisesInside(op)
           /\ \A op, after : Closes(op, after)' = Closes(op, after)
  <1>1. Accesses' = Accesses
    BY DEF Accesses, Slices, Agrees, KnownViews, Operations
  <1>2. ProgramFits' = ProgramFits
    BY DEF ProgramFits
  <1>3. Functions' = Functions /\ \A f : Blocks(f)' = Blocks(f)
    BY DEF Functions, Blocks
  <1>4. \A f : Returns(f)' = Returns(f)
    BY <1>3 DEF Returns
  <1>5. \A f, b : Code(f, b)' = Code(f, b)
    BY DEF Code
  <1>6. \A l, r : Hazard(l, r)' = Hazard(l, r)
    BY DEF Hazard
  <1>7. \A a : Harmless(a)' = Harmless(a)
    BY DEF Harmless
  <1>8. \A op : Synchronises(op)' = Synchronises(op) /\ SynchronisesInside(op)' = SynchronisesInside(op)
    BY DEF Synchronises, SynchronisesInside
  <1>9. \A op, after : Closes(op, after)' = Closes(op, after)
    BY DEF Closes
  <1> QED
    BY <1>1, <1>2, <1>3, <1>4, <1>5, <1>6, <1>7, <1>8, <1>9

LEMMA CertifiedKept ==
    ASSUME ProgramFits, program' = program, NEW f \in Functions,
           \A g \in 1 .. (f - 1) : summary'[g] = summary[g],
           NEW points, NEW b \in Blocks(f), NEW in, NEW out, Certified(points, f, b, in, out)
    PROVE  Certified(points, f, b, in, out)'
  <1>1. PICK c : Certifies(c, points, f, b, in, out)
    BY DEF Certified
  <1>2. /\ Accesses' = Accesses /\ Functions' = Functions /\ Code(f, b)' = Code(f, b)
        /\ \A l, r : Hazard(l, r)' = Hazard(l, r)
        /\ \A a : Harmless(a)' = Harmless(a)
        /\ \A op : Synchronises(op)' = Synchronises(op) /\ SynchronisesInside(op)' = SynchronisesInside(op)
        /\ \A op, after : Closes(op, after)' = Closes(op, after)
    BY SameProgram
  <1>3. ASSUME NEW i \in 1 .. Len(Code(f, b))
        PROVE  /\ Passes(Code(f, b)[i], Stopped(points, f, b, i), c[i - 1], c[i])'
               /\ Closes(Code(f, b)[i], c[i])'
    <2> DEFINE op == Code(f, b)[i]
    <2>1. OperationFits(program.analysis, f, op)
      BY OperationFacts
    <2>2. Behaviour(op, Summaries)' = Behaviour(op, Summaries)
      <3>1. CASE op.name # "call"
        BY <1>2, <3>1 DEF Behaviour
      <3>2. CASE op.name = "call"
        <4>1. op.callee \in 1 .. (f - 1) /\ op.callee \in Functions
          <5>1. f \in 1 .. Len(program.funcs) /\ Functions = 1 .. Len(program.funcs) /\ Len(program.funcs) \in Nat
            BY ProgramFacts
          <5>2. op.callee \in 1 .. (f - 1)
            BY <2>1, <3>2 DEF OperationFits
          <5> QED
            BY <5>1, <5>2
        <4>2. Summaries[op.callee]' = Summaries[op.callee]
          BY <1>2, <4>1 DEF Summaries
        <4>3. \A A : Moved(op, A)' = Moved(op, A)
          BY <1>2 DEF Moved
        <4>4. op' = op
          BY <1>2
        <4> HIDE DEF op
        <4>5. Moved(op, Summaries[op.callee].first)' = Moved(op, Summaries[op.callee].first)
              /\ Moved(op, Summaries[op.callee].last)' = Moved(op, Summaries[op.callee].last)
          BY <4>2, <4>3, <4>4
        <4> QED
          BY <3>2, <4>2, <4>4, <4>5 DEF Behaviour
      <3> QED
        BY <3>1, <3>2
    <2>3. Stopped(points, f, b, i)' = Stopped(points, f, b, i)
      BY <1>2 DEF Stopped
    <2>4. Passes(op, Stopped(points, f, b, i), c[i - 1], c[i]) /\ Closes(op, c[i])
      BY <1>1 DEF Certifies
    <2>5. op' = op
      BY <1>2
    <2> HIDE DEF op
    <2>6. Passes(op, Stopped(points, f, b, i), c[i - 1], c[i])'
      BY <1>2, <2>2, <2>3, <2>4, <2>5 DEF Passes, Covers
    <2>7. Closes(op, c[i])'
      BY <1>2, <2>4, <2>5
    <2> QED
      BY <2>6, <2>7 DEF op
  <1>4. Certifies(c, points, f, b, in, out)'
    BY <1>1, <1>2, <1>3 DEF Certifies
  <1> QED
    BY <1>4 DEF Certified

LEMMA FinishedKept ==
    ASSUME ProgramFits, program' = program, NEW f \in Functions,
           \A g \in 1 .. f : summary'[g] = summary[g],
           NEW less, NEW more, less \subseteq more, Finished(less, f)
    PROVE  Finished(more, f)'
  <1>1. PICK in, out : Fixed(less, f, in, out) /\ \A b \in Returns(f) : out[b] \subseteq summary[f]
    BY DEF Finished
  <1>2. /\ Accesses' = Accesses /\ Blocks(f)' = Blocks(f) /\ Returns(f)' = Returns(f)
    BY SameProgram
  <1>3. f \in 1 .. f /\ \A g \in 1 .. (f - 1) : g \in 1 .. f
    BY ProgramFacts
  <1>4. ASSUME NEW b \in Blocks(f) PROVE Certified(more, f, b, in[b], out[b])'
    <2>1. Certified(less, f, b, in[b], out[b])
      BY <1>1 DEF Fixed
    <2>2. Certified(more, f, b, in[b], out[b])
      BY <2>1, CertifiedMore
    <2> QED
      BY <1>3, <2>2, CertifiedKept
  <1>5. Fixed(more, f, in, out)'
    BY <1>1, <1>2, <1>4 DEF Fixed
  <1>6. \A b \in Returns(f)' : out[b] \subseteq summary'[f]
    BY <1>1, <1>2, <1>3
  <1> QED
    BY <1>5, <1>6 DEF Finished

-----------------------------------------------------------------------------
(* The steps                                                               *)

LEMMA InvariantInit ==
    ASSUME \A p \in Programs : ViewsAgree(p), Init
    PROVE  MembarInvariant
  <1>1. ProgramFits
    BY ProgramsAssumption DEF Init, ProgramFits
  <1>2. 1 \in Functions /\ func = 1
    BY <1>1 DEF Init, ProgramFits, WellFormed, Functions
  <1>3. program.funcs[1].entry \in Blocks(1)
    BY <1>1, <1>2, ProgramFacts
  <1>4. work \in Seq(Blocks(func)) /\ Waiting(program.funcs[func].entry)
    BY <1>2, <1>3 DEF Init, Waiting, ToSet
  <1>5. /\ inputs \in [Blocks(func) -> SUBSET Accesses] /\ outputs \in [Blocks(func) -> BlockType]
        /\ summary \in [Functions -> SUBSET Accesses]
    BY <1>2 DEF Init, Unseen, BlockType, Functions
  <1>6. MembarTypeOK
    BY <1>2, <1>4, <1>5 DEF MembarTypeOK
  <1>7. Visited
    BY <1>2 DEF Init, Visited, Unseen
  <1>8. CalleesFinished
    <2>1. \A f \in Functions : ~(f < 1)
      BY <1>1 DEF ProgramFits, WellFormed, Functions
    <2> QED
      BY <1>2, <2>1 DEF CalleesFinished
  <1> QED
    BY <1>1, <1>4, <1>6, <1>7, <1>8 DEF MembarInvariant, Started

\* The elements of a work list.
LEMMA WorkList ==
    ASSUME NEW T, NEW s \in Seq(T), s # <<>>
    PROVE  /\ Head(s) \in T /\ Tail(s) \in Seq(T)
           /\ \A x \in ToSet(s) : x = Head(s) \/ x \in ToSet(Tail(s))
  <1>1. Head(s) \in T /\ Tail(s) \in Seq(T)
    OBVIOUS
  <1>2. ASSUME NEW x \in ToSet(s) PROVE x = Head(s) \/ x \in ToSet(Tail(s))
    <2>1. PICK i \in 1 .. Len(s) : x = s[i]
      BY DEF ToSet
    <2>2. CASE i = 1
      BY <2>1, <2>2
    <2>3. CASE i # 1
      <3>1. i - 1 \in 1 .. Len(Tail(s)) /\ Tail(s)[i - 1] = s[i] /\ DOMAIN Tail(s) = 1 .. Len(Tail(s))
        BY <2>3
      <3> QED
        BY <2>1, <3>1 DEF ToSet
    <2> QED
      BY <2>2, <2>3
  <1> QED
    BY <1>1, <1>2

LEMMA Appended ==
    ASSUME NEW T, NEW s \in Seq(T), NEW t \in Seq(T)
    PROVE  /\ s \o t \in Seq(T)
           /\ \A x \in ToSet(s) : x \in ToSet(s \o t)
           /\ \A x \in ToSet(t) : x \in ToSet(s \o t)
  <1>1. s \o t \in Seq(T) /\ DOMAIN (s \o t) = 1 .. (Len(s) + Len(t))
    OBVIOUS
  <1>2. ASSUME NEW x \in ToSet(s) PROVE x \in ToSet(s \o t)
    <2>1. PICK i \in 1 .. Len(s) : x = s[i]
      BY DEF ToSet
    <2>2. i \in 1 .. (Len(s) + Len(t)) /\ (s \o t)[i] = s[i]
      OBVIOUS
    <2> QED
      BY <1>1, <2>1, <2>2 DEF ToSet
  <1>3. ASSUME NEW x \in ToSet(t) PROVE x \in ToSet(s \o t)
    <2>1. PICK i \in 1 .. Len(t) : x = t[i]
      BY DEF ToSet
    <2>2. Len(s) + i \in 1 .. (Len(s) + Len(t)) /\ (s \o t)[Len(s) + i] = t[i]
      OBVIOUS
    <2> QED
      BY <1>1, <2>1, <2>2 DEF ToSet
  <1> QED
    BY <1>1, <1>2, <1>3

LEMMA VisitKeeps ==
    ASSUME MembarInvariant, Visit
    PROVE  MembarInvariant'
  <1> DEFINE b == Head(work)
             r == BlockUpdate(b)
  <1>1. /\ work # <<>> /\ inserted' = r.inserted
        /\ program' = program /\ func' = func /\ summary' = summary
    BY DEF Visit
  <1>2. /\ ProgramFits /\ func \in Functions /\ work \in Seq(Blocks(func))
        /\ inputs \in [Blocks(func) -> SUBSET Accesses] /\ outputs \in [Blocks(func) -> BlockType]
        /\ summary \in [Functions -> SUBSET Accesses]
    BY DEF MembarInvariant, MembarTypeOK
  <1>3. /\ b \in Blocks(func) /\ Tail(work) \in Seq(Blocks(func))
        /\ \A x \in ToSet(work) : x = b \/ x \in ToSet(Tail(work))
    BY <1>1, <1>2, WorkList
  <1>4. /\ r.info \in SUBSET Accesses /\ inserted \subseteq r.inserted
        /\ Certified(r.inserted, func, b, inputs[b], r.info)
    BY <1>2, <1>3, VisitCertified
  <1>5. /\ Accesses' = Accesses /\ Functions' = Functions /\ ProgramFits' /\ Blocks(func)' = Blocks(func)
    BY <1>1, <1>2, SameProgram
  <1>6. \A f \in Functions : Len(program.funcs) \in Nat /\ f \in Nat
    BY <1>2, ProgramFacts
  <1>7. CalleesFinished'
    <2> SUFFICES ASSUME NEW f \in Functions, f < func PROVE Finished(inserted, f)'
      BY <1>1, <1>5 DEF CalleesFinished
    <2>1. Finished(inserted, f)
      BY DEF MembarInvariant, CalleesFinished
    <2>2. PICK p : p = inserted'
      OBVIOUS
    <2>3. Finished(p, f)'
      BY <1>1, <1>2, <1>4, <2>1, <2>2, FinishedKept
    <2> QED
      BY <2>2, <2>3
  \* A certificate stays one.
  <1>8. ASSUME NEW x \in Blocks(func), NEW in, NEW out,
               Certified(inserted, func, x, in, out) \/ Certified(r.inserted, func, x, in, out)
        PROVE  Certified(inserted, func, x, in, out)'
    <2>1. PICK p : p = inserted'
      OBVIOUS
    <2>2. Certified(p, func, x, in, out)
      BY <1>1, <1>4, <1>8, <2>1, CertifiedMore
    <2>3. PICK f : f = func
      OBVIOUS
    <2>4. Certified(p, f, x, in, out)'
      BY <1>1, <1>2, <2>2, <2>3, CertifiedKept
    <2> QED
      BY <1>1, <2>1, <2>3, <2>4
  <1>9. program.funcs[func].succ \in [Blocks(func) -> Seq(Blocks(func))]
    BY <1>2, ProgramFacts
  <1> DEFINE s == program.funcs[func].succ[b]
             entry == program.funcs[func].entry
  <1>10. s \in Seq(Blocks(func)) /\ entry \in Blocks(func)
    BY <1>2, <1>3, <1>9, ProgramFacts
  <1>11. /\ Started
         /\ \A x \in Blocks(func) : outputs[x].seen =>
              /\ Waiting(x) \/ Certified(inserted, func, x, inputs[x], outputs[x].info)
              /\ \A c \in ToSet(program.funcs[func].succ[x]) :
                   outputs[x].info \subseteq inputs[c] /\ (outputs[c].seen \/ Waiting(c))
    BY DEF MembarInvariant, Visited
  <1>12. ASSUME NEW x \in Blocks(func) PROVE ToSet(program.funcs[func].succ[x]) \subseteq Blocks(func)
    <2> DEFINE t == program.funcs[func].succ[x]
    <2>1. t \in Seq(Blocks(func))
      BY <1>9
    <2> HIDE DEF t
    <2>2. ToSet(t) \subseteq Blocks(func)
      BY <2>1 DEF ToSet
    <2> QED
      BY <2>2 DEF t
  <1>13. CASE Unchanged(b, r.info)
    <2>1. work' = Tail(work) /\ inputs' = inputs /\ outputs' = outputs
      BY <1>13 DEF Visit
    <2>2. outputs[b].seen /\ outputs[b].info = r.info
      BY <1>13 DEF Unchanged
    <2>3. MembarTypeOK'
      BY <1>1, <1>2, <1>3, <1>5, <2>1 DEF MembarTypeOK, BlockType
    <2>4. ASSUME NEW x PROVE Waiting(x) => x = b \/ Waiting(x)'
      BY <1>3, <2>1 DEF Waiting
    <2>5. ASSUME NEW x \in Blocks(func), outputs[x].seen
          PROVE  /\ Waiting(x)' \/ Certified(inserted, func, x, inputs[x], outputs[x].info)'
                 /\ \A c \in ToSet(program.funcs[func].succ[x]) :
                      outputs[x].info \subseteq inputs[c] /\ (outputs[c].seen \/ Waiting(c)')
      <3>1. ASSUME NEW c \in ToSet(program.funcs[func].succ[x])
            PROVE  outputs[x].info \subseteq inputs[c] /\ (outputs[c].seen \/ Waiting(c)')
        BY <1>11, <2>2, <2>4, <2>5
      <3> DEFINE in == inputs[x]
                 out == outputs[x].info
      <3>2. PICK i, o : i = in /\ o = out
        OBVIOUS
      <3>3. Waiting(x)' \/ Certified(inserted, func, x, i, o) \/ Certified(r.inserted, func, x, i, o)
        BY <1>4, <1>11, <2>2, <2>4, <2>5, <3>2
      <3>4. Waiting(x)' \/ Certified(inserted, func, x, i, o)'
        BY <1>8, <3>3
      <3>5. i = inputs[x]' /\ o = (outputs[x].info)'
        BY <2>1, <3>2
      <3> QED
        BY <3>1, <3>4, <3>5
    <2>6. Visited'
      BY <1>1, <1>5, <2>1, <2>5 DEF Visited
    <2>7. Started'
      BY <1>1, <1>11, <2>1, <2>2, <2>4 DEF Started
    <2> QED
      BY <1>5, <1>7, <2>3, <2>6, <2>7 DEF MembarInvariant
  <1>14. CASE ~Unchanged(b, r.info)
    <2>1. /\ outputs' = [outputs EXCEPT ![b] = [seen |-> TRUE, info |-> r.info]]
          /\ inputs' = SuccessorInputs(b, r.info)
          /\ work' = Tail(work) \o s
      BY <1>14 DEF Visit, F
    <2>2. /\ DOMAIN inputs = Blocks(func) /\ DOMAIN outputs = Blocks(func)
      BY <1>2
    <2>3. inputs' = [c \in Blocks(func) |-> IF c \in ToSet(s) THEN inputs[c] \cup r.info ELSE inputs[c]]
      BY <2>1, <2>2 DEF SuccessorInputs, F
    <2>4. outputs' \in [Blocks(func) -> BlockType]
      <3>1. [seen |-> TRUE, info |-> r.info] \in BlockType
        BY <1>4 DEF BlockType
      <3> QED
        BY <1>2, <1>3, <2>1, <3>1
    <2>5. inputs' \in [Blocks(func) -> SUBSET Accesses]
      BY <1>2, <1>4, <2>3
    <2>6. /\ work' \in Seq(Blocks(func))
          /\ \A x \in ToSet(Tail(work)) : x \in ToSet(work')
          /\ \A x \in ToSet(s) : x \in ToSet(work')
      <3> HIDE DEF s
      <3> QED
        BY <1>3, <1>10, <2>1, Appended
    <2>7. BlockType' = BlockType
      BY <1>5 DEF BlockType
    <2>8. MembarTypeOK'
      BY <1>1, <1>2, <1>5, <2>4, <2>5, <2>6, <2>7 DEF MembarTypeOK
    <2>9. ASSUME NEW x PROVE /\ Waiting(x) => x = b \/ Waiting(x)'
                             /\ x \in ToSet(s) => Waiting(x)'
      BY <1>3, <2>6 DEF Waiting
    <2>10. ASSUME NEW x \in Blocks(func)
           PROVE  /\ x = b => outputs'[x].seen = TRUE /\ outputs'[x].info = r.info
                  /\ x # b => outputs'[x] = outputs[x]
      BY <1>2, <1>3, <2>1
    <2>11. ASSUME NEW x \in Blocks(func)
           PROVE  /\ inputs[x] \subseteq inputs'[x]
                  /\ x \in ToSet(s) => r.info \subseteq inputs'[x]
                  /\ x \notin ToSet(s) => inputs'[x] = inputs[x]
      BY <2>3
    <2>12. ASSUME NEW x \in Blocks(func), outputs'[x].seen
           PROVE  /\ Waiting(x)' \/ Certified(inserted, func, x, inputs[x], outputs[x].info)'
                  /\ \A c \in ToSet(program.funcs[func].succ[x]) :
                       outputs'[x].info \subseteq inputs'[c] /\ (outputs'[c].seen \/ Waiting(c)')
      <3>1. ASSUME NEW c \in ToSet(program.funcs[func].succ[x])
            PROVE  outputs'[x].info \subseteq inputs'[c] /\ (outputs'[c].seen \/ Waiting(c)')
        <4>1. c \in Blocks(func)
          BY <1>12, <2>12, <3>1
        <4>2. CASE x = b
          BY <2>9, <2>10, <2>11, <3>1, <4>1, <4>2
        <4>3. CASE x # b
          <5>1. outputs'[x] = outputs[x] /\ outputs[x].seen
            BY <2>10, <2>12, <4>3
          <5>2. outputs[x].info \subseteq inputs[c] /\ (outputs[c].seen \/ Waiting(c))
            BY <1>11, <2>12, <3>1, <5>1
          <5>3. outputs'[c].seen \/ Waiting(c)'
            BY <2>9, <2>10, <4>1, <5>2
          <5> QED
            BY <2>11, <4>1, <5>1, <5>2, <5>3
        <4> QED
          BY <4>2, <4>3
      <3>2. CASE x \in ToSet(s)
        BY <2>9, <3>1, <3>2
      <3>3. CASE x \notin ToSet(s)
        <4>1. inputs'[x] = inputs[x]
          BY <2>11, <3>3
        <4>2. PICK i, o : i = inputs[x] /\ o = outputs'[x].info
          OBVIOUS
        <4>3. CASE x = b
          <5>1. o = r.info
            BY <2>10, <4>2, <4>3
          <5>2. Certified(r.inserted, func, x, i, o)
            BY <1>4, <4>2, <4>3, <5>1
          <5>3. Certified(inserted, func, x, i, o)'
            BY <1>8, <5>2
          <5>4. i = inputs[x]' /\ o = (outputs[x].info)'
            BY <4>1, <4>2
          <5> QED
            BY <3>1, <5>3, <5>4
        <4>4. CASE x # b
          <5>1. outputs'[x] = outputs[x] /\ o = outputs[x].info /\ outputs[x].seen
            BY <2>10, <2>12, <4>2, <4>4
          <5>2. Waiting(x)' \/ Certified(inserted, func, x, i, o)
            BY <1>11, <2>9, <4>2, <4>4, <5>1
          <5>3. Waiting(x)' \/ Certified(inserted, func, x, i, o)'
            BY <1>8, <5>2
          <5>4. i = inputs[x]' /\ o = (outputs[x].info)'
            BY <4>1, <4>2
          <5> QED
            BY <3>1, <5>3, <5>4
        <4> QED
          BY <4>3, <4>4
      <3> QED
        BY <3>2, <3>3
    <2>13. Visited'
      BY <1>1, <1>5, <2>12 DEF Visited
    <2>14. Started'
      <3>1. PICK e : e = program.funcs[func].entry
        OBVIOUS
      <3>2. e \in Blocks(func) /\ (outputs[e].seen \/ Waiting(e))
        BY <1>10, <1>11, <3>1 DEF Started
      <3>3. outputs'[e].seen \/ Waiting(e)'
        BY <2>9, <2>10, <3>2
      <3>4. e = program'.funcs[func'].entry
        BY <1>1, <3>1
      <3> QED
        BY <3>3, <3>4 DEF Started
    <2> QED
      BY <1>5, <1>7, <2>8, <2>13, <2>14 DEF MembarInvariant
  <1> QED
    BY <1>13, <1>14

LEMMA FinishKeeps ==
    ASSUME MembarInvariant, FinishFunction
    PROVE  MembarInvariant'
  <1> DEFINE out == [b \in Blocks(func) |-> outputs[b].info]
             returned == UNION {outputs[b].info : b \in Returns(func)}
  <1>1. /\ work = <<>> /\ func < Len(program.funcs)
        /\ program' = program /\ inserted' = inserted /\ func' = func + 1
        /\ summary' = [summary EXCEPT ![func] = returned]
        /\ work' = <<program.funcs[func'].entry>>
        /\ inputs' = [b \in Blocks(func') |-> {}]
        /\ outputs' = [b \in Blocks(func') |-> Unseen]
    BY DEF FinishFunction
  <1>2. /\ ProgramFits /\ func \in Functions
        /\ outputs \in [Blocks(func) -> BlockType] /\ summary \in [Functions -> SUBSET Accesses]
    BY DEF MembarInvariant, MembarTypeOK
  <1>3. Functions = 1 .. Len(program.funcs) /\ Len(program.funcs) \in Nat
    BY <1>2, ProgramFacts
  <1>4. func' \in Functions
    BY <1>1, <1>2, <1>3
  <1>5. /\ Accesses' = Accesses /\ Functions' = Functions /\ ProgramFits'
        /\ \A f : Blocks(f)' = Blocks(f) /\ Returns(f)' = Returns(f)
    BY <1>1, <1>2, SameProgram
  <1>6. program.funcs[func'].entry \in Blocks(func')
    <2>1. \A f \in Functions : program.funcs[f].entry \in Blocks(f)
      BY <1>2, ProgramFacts
    <2> QED
      BY <1>4, <2>1
  <1>7. /\ summary' \in [Functions -> SUBSET Accesses]
        /\ summary'[func] = returned
        /\ \A g \in Functions : g # func => summary'[g] = summary[g]
    <2>1. \A b \in Returns(func) : outputs[b].info \in SUBSET Accesses
      BY <1>2 DEF Returns, BlockType
    <2>2. returned \in SUBSET Accesses
      BY <2>1
    <2> HIDE DEF returned
    <2> QED
      BY <1>1, <1>2, <2>2
  <1>8. PICK f : f = func'
    OBVIOUS
  <1>9. Blocks(func)' = Blocks(f)
    BY <1>5, <1>8
  <1>10. MembarTypeOK'
    <2>1. work' \in Seq(Blocks(f))
      BY <1>1, <1>6, <1>8
    <2>2. inputs' \in [Blocks(f) -> SUBSET Accesses]
      BY <1>1, <1>8
    <2>3. outputs' \in [Blocks(f) -> BlockType]
      BY <1>1, <1>8 DEF Unseen, BlockType
    <2>4. BlockType' = BlockType
      BY <1>5 DEF BlockType
    <2> QED
      BY <1>4, <1>5, <1>7, <1>9, <2>1, <2>2, <2>3, <2>4 DEF MembarTypeOK
  <1>11. Visited'
    <2>1. \A b \in Blocks(f) : outputs'[b].seen = FALSE
      BY <1>1, <1>8 DEF Unseen
    <2> QED
      BY <1>9, <2>1 DEF Visited
  <1>12. Started'
    <2>1. program.funcs[func'].entry \in ToSet(work')
      BY <1>1 DEF ToSet
    <2> QED
      BY <1>1, <2>1 DEF Started, Waiting
  <1>13. Fixed(inserted, func, inputs, out)
    BY <1>1, NothingWaits
  <1>14. ASSUME NEW g, g = func PROVE Finished(inserted, g)'
    <2>1. PICK p, in, o : g = func /\ p = inserted /\ in = inputs /\ o = out
      BY <1>14
    <2>2. \A h \in 1 .. (g - 1) : summary'[h] = summary[h]
      BY <1>2, <1>3, <1>7, <2>1
    <2> HIDE DEF out
    <2>3. ASSUME NEW b \in Blocks(g) PROVE Certified(p, g, b, in[b], o[b])'
      <3>1. Certified(p, g, b, in[b], o[b])
        BY <1>13, <2>1, <2>3 DEF Fixed
      <3> QED
        BY <1>1, <1>2, <2>1, <2>2, <2>3, <3>1, CertifiedKept
    <2>4. Fixed(p, g, in, o)
      BY <1>13, <2>1
    <2>5. Fixed(p, g, in, o)'
      BY <1>1, <1>5, <2>3, <2>4 DEF Fixed
    <2>6. ASSUME NEW b \in Returns(g)' PROVE o[b] \subseteq summary'[g]
      <3>1. b \in Returns(func) /\ Returns(func) \subseteq Blocks(func)
        BY <1>5, <2>1, <2>6 DEF Returns
      <3>2. o[b] = outputs[b].info
        BY <2>1, <3>1 DEF out
      <3> QED
        BY <1>7, <2>1, <3>1, <3>2
    <2>7. Finished(p, g)'
      BY <2>5, <2>6 DEF Finished
    <2> QED
      BY <1>1, <2>1, <2>7
  <1>15. CalleesFinished'
    <2> SUFFICES ASSUME NEW g \in Functions, g < func + 1 PROVE Finished(inserted, g)'
      BY <1>1, <1>5 DEF CalleesFinished
    <2>1. CASE g = func
      BY <1>14, <2>1
    <2>2. CASE g < func
      <3>1. PICK p : p = inserted
        OBVIOUS
      <3>2. Finished(p, g)
        BY <2>2, <3>1 DEF MembarInvariant, CalleesFinished
      <3>3. \A h \in 1 .. g : summary'[h] = summary[h]
        BY <1>2, <1>3, <1>7, <2>2
      <3>4. Finished(p, g)'
        BY <1>1, <1>2, <3>2, <3>3, FinishedKept
      <3> QED
        BY <1>1, <3>1, <3>4
    <2> QED
      BY <1>2, <1>3, <2>1, <2>2
  <1> QED
    BY <1>5, <1>10, <1>11, <1>12, <1>15 DEF MembarInvariant

LEMMA InvariantStutters ==
    ASSUME MembarInvariant, UNCHANGED vars
    PROVE  MembarInvariant'
  <1> USE DEF vars
  <1>1. ProgramFits /\ func \in Functions
    BY DEF MembarInvariant, MembarTypeOK
  <1>2. /\ Accesses' = Accesses /\ Functions' = Functions /\ ProgramFits' = ProgramFits
        /\ \A f : Blocks(f)' = Blocks(f)
    BY SameProgram
  <1>3. BlockType' = BlockType
    BY <1>2 DEF BlockType
  <1>4. MembarTypeOK' /\ Started' /\ ProgramFits'
    BY <1>2, <1>3 DEF MembarInvariant, MembarTypeOK, Started, Waiting
  <1>5. ASSUME NEW b \in Blocks(func), Certified(inserted, func, b, inputs[b], outputs[b].info)
        PROVE  Certified(inserted, func, b, inputs[b], outputs[b].info)'
    <2>1. PICK p, f, i, o : p = inserted /\ f = func /\ i = inputs[b] /\ o = outputs[b].info
      OBVIOUS
    <2>2. Certified(p, f, b, i, o)'
      BY <1>1, <1>5, <2>1, CertifiedKept
    <2> QED
      BY <2>1, <2>2
  <1>6. Visited'
    BY <1>2, <1>5 DEF MembarInvariant, Visited, Waiting
  <1>7. ASSUME NEW f \in Functions, Finished(inserted, f) PROVE Finished(inserted, f)'
    <2>1. PICK p : p = inserted
      OBVIOUS
    <2>2. Finished(p, f)'
      BY <1>1, <1>7, <2>1, FinishedKept
    <2> QED
      BY <2>1, <2>2
  <1>8. CalleesFinished'
    BY <1>2, <1>7 DEF MembarInvariant, CalleesFinished
  <1> QED
    BY <1>4, <1>6, <1>8 DEF MembarInvariant

-----------------------------------------------------------------------------
(* The theorems                                                            *)

\* When the known parts of a program's slices agree, every block that an
\* analysis has visited and that does not wait for another visit is certified:
\* runOnOperation's fixed point holds at every step, not only at its end.
THEOREM VisitsCertify ==
    ASSUME \A p \in Programs : ViewsAgree(p)
    PROVE  Spec => []MembarInvariant
  <1>1. Init => MembarInvariant
    BY InvariantInit
  <1>2. MembarInvariant /\ [Next]_vars => MembarInvariant'
    <2>1. CASE Visit
      BY <2>1, VisitKeeps
    <2>2. CASE FinishFunction
      BY <2>2, FinishKeeps
    <2>3. CASE UNCHANGED vars
      BY <2>3, InvariantStutters
    <2> QED
      BY <2>1, <2>2, <2>3 DEF Next
  <1> QED
    BY <1>1, <1>2, PTL DEF Spec

\* When an analysis (MembarAnalysis, ProxyFenceAnalysis, TMemBarrierAnalysis or
\* ClusterBarrierAnalysis) has ended, no path of the program has two accesses
\* that need something between them and nothing between them.
THEOREM BarriersSuffice ==
    ASSUME \A p \in Programs : ViewsAgree(p)
    PROVE  Spec => []AccessesOrdered
  <1>1. Spec => []MembarInvariant
    BY VisitsCertify
  <1>2. MembarInvariant => AccessesOrdered
    BY InvariantOrders
  <1> QED
    BY <1>1, <1>2, PTL

\* And no kernel returns while another CTA may still be in its shared memory.
THEOREM KernelsExitSafely ==
    ASSUME \A p \in Programs : ViewsAgree(p) /\ (p.analysis = "Cluster" => KernelReturns(p))
    PROVE  Spec => []ExitIsSafe
  <1>1. Spec => []MembarInvariant
    BY VisitsCertify
  <1>2. MembarInvariant => ExitIsSafe
    <2>1. MembarInvariant => (program.analysis = "Cluster" => KernelReturns(program))
      BY DEF MembarInvariant, ProgramFits
    <2> QED
      BY <2>1, InvariantOrders
  <1> QED
    BY <1>1, <1>2, PTL

=============================================================================
