----------------------------- MODULE MCPipeline -----------------------------
EXTENDS LoopSchedule

(* Every loop of two operations and two arguments over three stages.         *)
a == Op("op", 1)
b == Op("op", 2)
NoBuffers == [l \in {} |-> 0]
Scheduled3 ==
  {l \in {[block |-> <<a, b>>, order |-> order, stage |-> (a :> s) @@ (b :> t), uses |-> (a :> ua) @@ (b :> ub),
           yields |-> <<y1, y2>>, escapes |-> {1, 2}, trip |-> n, static |-> static, peel |-> peel,
           buffers |-> NoBuffers, tma |-> {}] :
            order \in {<<a, b>>, <<b, a>>}, s, t \in 0..2,
            ua \in {<<Iv>>, <<Arg(1)>>, <<Iv, Arg(2)>>},
            ub \in {<<a>>, <<a, Arg(1)>>, <<Arg(1), Arg(2)>>, <<Iv>>},
            y1 \in {a, b}, y2 \in {a, b, Outside}, n \in 0..3,
            static \in BOOLEAN, peel \in BOOLEAN} : VerifySchedule(l)}
OutsideLoops == {l \in Scheduled3 : l.peel /\ Outside \in ToSet(l.yields)}

(* Loops that the passes schedule: a pointer that advances, one to three     *)
(* loads, a dot or two, an if, and values carried to the next iteration.     *)
I(kind, uses) == [kind |-> kind, uses |-> uses]
ptr == Op("op", 1)
Thirds(two) ==
  {I("alloc", <<two>>), I("alloc", <<ptr>>), I("if", <<two>>), I("load", <<two>>), I("op", <<Arg(2), two>>)}
Fourths(two, three) ==
  {I("load", <<three>>), I("desc", <<ptr>>), I("dot", <<three, two, Arg(2)>>), I("op", <<two, Arg(2)>>), I("op", <<ptr, Arg(2)>>),
   I("wgmma", <<three, three, Iv>>)}
Fifths(three, four) ==
  {I("dot", <<three, four, Arg(2)>>), I("wgmma", <<four, three, Arg(2)>>), I("wgmma", <<three, three, Arg(2)>>)}
Sixths(four, five) == {I("if", <<five>>), I("op", <<Arg(1), Arg(2), Arg(3)>>), I("op", <<four, Iv>>)}
Bodies ==
  LET name(i, x) == Op(x.kind, i) IN
  UNION {UNION {UNION {UNION {
    {<<I("op", <<Arg(1)>>), two, three, four, five, six>> :
       six \in Sixths(name(4, four), name(5, five))} :
       five \in Fifths(name(3, three), name(4, four))} :
       four \in Fourths(name(2, two), name(3, three))} :
       three \in Thirds(name(2, two))} : two \in {I("load", <<ptr>>), I("desc", <<ptr>>)}}
(* Only the dots of warp groups take their operands from shared memory, the  *)
(* second always.                                                            *)
Typed(ops) ==
  \A i \in DOMAIN ops : \A n \in DOMAIN ops[i].uses :
    /\ ops[i].uses[n][1] = "alloc" => ops[i].kind = "wgmma"
    /\ (ops[i].kind = "wgmma" /\ n = 2) => ops[i].uses[n][1] = "alloc"
Programs ==
  {p \in UNION {{[ops |-> ops, yields |-> <<ptr, Op(ops[5].kind, 5), Op(ops[y].kind, y)>>, stages |-> stages, withoutDot |-> own] :
       y \in {2, 4}, stages \in {2, 4}, own \in {FALSE}} : ops \in {body \in Bodies : Typed(body)}} : Pipelined(p)}

TripsOf(l) ==
  {[block |-> l.block, order |-> l.order, stage |-> l.stage, uses |-> l.uses, yields |-> l.yields,
    buffers |-> l.buffers, tma |-> l.tma, escapes |-> {1, 2, 3}, trip |-> n, static |-> FALSE, peel |-> FALSE] :
     n \in {2, 6}}
(* Without a dot: what the load is for is behind a condition.                *)
Conditionals ==
  UNION {{[ops |-> <<I("op", <<Arg(1)>>), I(k, <<ptr>>), I("op", <<Op(k, 2)>>), I("if", <<Op(k, 2), Arg(2)>>)>>,
           yields |-> <<ptr, Op("if", 4), Op("op", 3)>>, stages |-> n, withoutDot |-> TRUE],
          [ops |-> <<I("op", <<Arg(1)>>), I(k, <<ptr>>), I("if", <<Op(k, 2), Arg(2)>>)>>,
           yields |-> <<ptr, Op("if", 3), ptr>>, stages |-> n, withoutDot |-> TRUE]} :
            k \in {"load", "desc"}, n \in {2, 3}}
Lowered == UNION {TripsOf(l) : l \in {Pipeline(p) : p \in Programs \union Conditionals}}
(* A conditional reads a dot of its iteration that is under way: the wait of *)
(* another dot in the loop keeps one from being put in the conditional.      *)
UnwaitedIf(l) ==
  LET launched == AsyncLaunchDots(l)
  IN \E o \in ToSet(Dots(l)) : launched.pendings[o] = NoWait /\ ~launched.inIfs /\ ValueUsers(l, o) # {}
(* A dot that is not waited for reads a load that is also read to registers, *)
(* which has no additional buffer.                                           *)
ReadTwice(l) ==
  LET launched == AsyncLaunchDots(l)
  IN \E o \in ToSet(Dots(l)) : \E n \in {1, 2} :
       launched.pendings[o] # 0 /\ l.uses[o][n][1] = "view" /\ Op("read", l.uses[o][n][2]) \in OpsOf(l)
UnwaitedIfs == {l \in Lowered : UnwaitedIf(l) /\ ~ReadTwice(l)}
ReadTwices == {l \in Lowered : ReadTwice(l) /\ ~UnwaitedIf(l)}
MCLoops == (Scheduled3 \ OutsideLoops) \union {l \in Lowered : ~UnwaitedIf(l) /\ ~ReadTwice(l)}
=============================================================================
