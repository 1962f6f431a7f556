--------------------------- MODULE MCSharedMemory ---------------------------
(* Small programs for each analysis, whose buffers are placed already: every *)
(* choice of operations from a menu in a loop, in a diamond, and in a caller *)
(* with its callee.  And programs whose buffers are placed first: every      *)
(* order of definitions and uses in a loop and around a warp_specialize.     *)
EXTENDS SharedMemory

Op(name, reads, writes, scratch) ==
  [name |-> name, reads |-> reads, writes |-> writes, scratch |-> scratch,
   callee |-> 1, offset |-> 0, kernel |-> FALSE]
None(name) == Op(name, {}, {}, {})
Load(s) == Op("load", {s}, {}, {})
Store(s) == Op("store", {}, {s}, {})
Call(at) == [None("call") EXCEPT !.offset = at]
Return == [None("return") EXCEPT !.kernel = TRUE]

Linear(off, len) == [enc |-> "linear", off |-> off, len |-> len]
Flipped(off, len) == [enc |-> "flipped", off |-> off, len |-> len]
x == Slice(0, 4, "x", Whole)
xlow == Slice(0, 4, "x", Linear(0, 2))
xhigh == Slice(0, 4, "x", Linear(2, 2))
xflip == Slice(0, 4, "x", Flipped(0, 2))
y == Slice(2, 6, "y", Whole)
ylow == Slice(2, 6, "y", Linear(0, 2))
tmp == Slice(0, 4, NoBuffer, Whole)

Menu(analysis) ==
  CASE analysis = "Membar" ->
         {Load(xlow), Store(xhigh), Store(xflip), Load(y), None("mem_wait"), None("barrier"),
          Op("arrive", {}, {x}, {}), Op("reduce", {}, {}, {tmp}), Op("warp_convert", {}, {}, {tmp})}
    [] analysis = "ProxyFence" ->
         {Load(x), Store(x), Op("tma_load", {}, {x}, {}), Op("tma_store", {x}, {}, {}), None("fence"),
          Op("reduce", {}, {}, {tmp})}
    [] analysis = "TMem" ->
         {Op("tmem_load", {x}, {}, {}), Op("tmem_store", {}, {x}, {}), Op("mma", {y}, {x}, {}), None("barrier"),
          Op("tmem_copy", {}, {y}, {})}
    [] analysis = "Cluster" ->
         {Load(x), Store(x), Op("tma_multicast", {}, {x}, {}), Store(y), None("cluster_barrier"),
          Op("dist_convert", {}, {}, {tmp}), Op("mma2", {x}, {}, {})}
Analyses == {"Membar", "ProxyFence", "TMem", "Cluster"}

Func(succ, code) == [entry |-> 1, succ |-> succ, code |-> code]
Program(analysis, twoCTAs, funcs) ==
  [analysis |-> analysis, twoCTAs |-> twoCTAs, funcs |-> funcs, buffers |-> <<>>, partition |-> 0]
LoopSucc == <<<<2>>, <<2, 3>>, <<>>>>
DiamondSucc == <<<<2, 3>>, <<4>>, <<4>>, <<>>>>

Loops(m) == {Program(m, two, <<Func(LoopSucc, <<<<a>>, <<b, c>>, <<Return>>>>)>>) :
               two \in (IF m = "Cluster" THEN BOOLEAN ELSE {FALSE}), a, b, c \in Menu(m)}
Diamonds(m) == {Program(m, FALSE, <<Func(DiamondSucc, <<<<a>>, <<b>>, <<>>, <<c, Return>>>>)>>) :
                  a, b, c \in Menu(m)}
(* A callee whose shared memory is at the start of the caller's x.  The      *)
(* callee ends with at least one access pending that the caller meets.       *)
InCalls(m) ==
  CASE m = "Membar" -> {Load(xlow), Store(xflip), Load(y), None("barrier")}
    [] m = "TMem" -> {Op("tmem_load", {x}, {}, {}), Op("tmem_store", {}, {x}, {}), Op("mma", {y}, {x}, {})}
    [] m = "Cluster" -> {Load(x), Op("tma_multicast", {}, {x}, {}), None("cluster_barrier")}
Calls(m) == {Program(m, FALSE, <<Func(<<<<>>>>, <<<<a, b>>>>), Func(<<<<>>>>, <<<<c, Call(0), d, Return>>>>)>>) :
               a, b, c, d \in InCalls(m)}
(* Calls in calls, each with its callee's memory further on.                 *)
DeepCalls ==
  {Program("Membar", FALSE, <<Func(<<<<>>>>, <<<<a, Load(y)>>>>), Func(<<<<>>>>, <<<<Call(2), b>>>>),
                              Func(<<<<>>>>, <<<<c, [Call(1) EXCEPT !.callee = 2], Return>>>>)>>) :
     a, b, c \in {Load(y), Store(y), Store(tmp), None("barrier")}}

(***************************************************************************)
(* Programs with buffers: an order of the buffers in which each occurs     *)
(* twice, where it is defined and where it is used.                        *)
(***************************************************************************)
BufferOf(name, kind, size, align, neighbors) ==
  [name |-> name, kind |-> kind, size |-> size, align |-> align, neighbors |-> neighbors]
Explicit(name, size, align) == BufferOf(name, "explicit", size, align, {})
Part(name, size, other) == BufferOf(name, "explicit", size, 2, {other})
SliceOf(b) == Slice(0, b.size, b.name, Whole)
Slots(n, names) == {s \in [1..n -> names] : \A m \in names : Cardinality({i \in 1..n : s[i] = m}) = 2}
First(s, i) == \A j \in 1..(i - 1) : s[j] # s[i]
(* tensors: the buffers of each name.                                        *)
OpOf(s, i, tensors) ==
  LET slices == {SliceOf(b) : b \in tensors[s[i]]}
  IN IF First(s, i) THEN Op("store", {}, slices, {}) ELSE Op("load", slices, {}, {})
NoTask == [task |-> "none", region |-> 0]
WithBuffers(funcs, bs, part, order, region, parent) ==
  [analysis |-> "Membar", twoCTAs |-> FALSE, buffers |-> bs, partition |-> part, order |-> order,
   funcs |-> <<[entry |-> 1, succ |-> funcs.succ, code |-> funcs.code, region |-> region, parent |-> parent]>>]

Reduce(b) == Op("reduce", {}, {}, {SliceOf(b)})
Three == <<Explicit("a", 4, 4), Explicit("b", 3, 1), Explicit("c", 2, 2)>>
Parted == <<Part("a1", 2, 2), Part("a2", 2, 1), Explicit("b", 2, 1), Explicit("c", 1, 1)>>
Warps == BufferOf("w", "function", 1, 4, {})
Temp == BufferOf("t", "scratch", 1, 4, {})
Plain(bs) == [n \in {"a", "b", "c"} |-> {b \in ToSet(bs) : b.name = n \/ (n = "a" /\ b.name \in {"a1", "a2"})}]

LoopOf(s, bs, part) ==
  LET op(i) == OpOf(s, i, Plain(bs))
  IN WithBuffers([succ |-> LoopSucc,
                  code |-> <<<<op(1), op(2)>>, <<op(3), Reduce(Temp), op(4)>>, <<op(5), op(6), Return>>>>],
                 bs \o <<Temp>>, part,
                 <<<<1, 1>>, <<1, 2>>, <<2, 1>>, <<2, 2>>, <<2, 3>>, <<3, 1>>, <<3, 2>>, <<3, 3>>>>,
                 [b \in 1..3 |-> NoTask], <<0, 0>>)
BufferLoops ==
  {LoopOf(s, Three, 0) : s \in Slots(6, {"a", "b", "c"})} \union {LoopOf(s, Parted, 4) : s \in Slots(6, {"a", "b", "c"})}

(* Block 1 and 4 surround the warp_specialize, whose default region is 2 and *)
(* whose partition is 3.  What is defined in a region is used there.         *)
Home == <<1, 2, 2, 3, 3, 1>>
Scoped(s) == \A i, j \in 1..6 : i < j /\ s[i] = s[j] => Home[i] = Home[j] \/ Home[i] = 1
Specialized(s, bs) ==
  LET op(i) == OpOf(s, i, Plain(bs))
      in(r) == [task |-> "ws", region |-> r]
  IN WithBuffers([succ |-> <<<<2, 3>>, <<4>>, <<>>, <<>>>>,
                  code |-> <<<<op(1), Op("ws", {}, {}, {SliceOf(Temp)})>>,
                             <<op(2), op(3)>>, <<op(4), op(5)>>, <<op(6), Return>>>>],
                 bs \o <<Temp, Warps>>, 0,
                 <<<<1, 1>>, <<2, 1>>, <<2, 2>>, <<3, 1>>, <<3, 2>>, <<1, 2>>, <<4, 1>>, <<4, 2>>>>,
                 <<NoTask, in(1), in(2), NoTask>>, <<1, 2>>)
BufferTasks == {Specialized(s, Three) : s \in {t \in Slots(6, {"a", "b", "c"}) : Scoped(t)}}

MCPrograms ==
  UNION {Loops(m) : m \in Analyses} \union UNION {Diamonds(m) : m \in {"Membar", "Cluster"}}
    \union UNION {Calls(m) : m \in {"Membar", "TMem", "Cluster"}} \union DeepCalls
    \union BufferLoops \union BufferTasks
ASSUME ProgramsAgree == \A p \in MCPrograms : ViewsAgree(p) /\ (p.analysis = "Cluster" => KernelReturns(p))

CallPrograms ==
  {Program("Membar", FALSE, <<Func(<<<<>>>>, <<<<Store(tmp), Load(tmp)>>>>),
                              Func(<<<<>>>>, <<<<a, Call(o), Return>>>>)>>) :
     a \in Menu("Membar"), o \in {0, 4}}
SlicePrograms ==
  {Program("Membar", FALSE, <<Func(<<<<>>>>, <<<<a, b>>>>)>>) :
     a, b \in {Load(xlow), Load(xhigh), Store(ylow), Store(xlow)}}
=============================================================================
