------------------------------ MODULE MCConSan ------------------------------
(* Small kernels for the sanitizer: two partitions, two buffers that share   *)
(* memory, one or two barriers.                                              *)
EXTENDS ConSan
CONSTANTS d, w, b1, b2, m1, m2

MCParts == {d, w}
MCBuffers == {b1, b2}
MCBarriers == {m1, m2}
MCOverlaps == [b \in MCBuffers |-> MCBuffers]
MCBudget == [p \in MCParts |-> IF p = d THEN 4 ELSE 3]

Op(name, b) == [name |-> name, buf |-> b]
On(name, m) == [name |-> name, bar |-> m]
Wait(m, phase) == [name |-> "wait", bar |-> m, phase |-> phase]
Groups(name, n) == [name |-> name, pending |-> n]
Start(m, count) == [name |-> "init", bar |-> m, count |-> count]
Tma(b, m) == [name |-> "tma_load", buf |-> b, bar |-> m]
Mma(b, acc, m) == [name |-> "mma", buf |-> b, acc |-> acc, bar |-> m]

(* Plain accesses ordered by a barrier.                                      *)
PlainMenu == [p \in MCParts |->
  {Op("local_load", b1), Op("local_store", b2), On("arrive", m1), Wait(m1, 0), Wait(m1, 1)}]
(* A producer that loads with the TMA, a consumer of its data.               *)
TmaMenu == [p \in MCParts |->
  IF p = d THEN {On("expect", m1), Tma(b1, m1), Wait(m1, 0)} ELSE {Wait(m1, 0), Op("local_load", b1), Op("local_store", b1)}]
(* The tensor core reads one buffer and writes another.                      *)
MmaMenu == [p \in MCParts |->
  IF p = d THEN {Mma(b1, b2, m1), On("tc_commit", m1), Wait(m1, 0)} ELSE {Wait(m1, 0), Op("local_store", b1), Op("local_load", b2)}]
(* Copies and stores that are counted and not tracked.                       *)
CountedMenu == [p \in MCParts |->
  IF p = d THEN {Op("async_copy", b1), [name |-> "async_commit"], Groups("async_wait", 0), Groups("async_wait", 1), On("arrive", m1)}
  ELSE {Op("wgmma", b1), Groups("wgmma_wait", 0), Groups("wgmma_wait", 1), Op("tma_store", b2), Groups("tma_store_wait", 0), Wait(m1, 0), Op("local_store", b1)}]
(* A buffer that is filled, drained and filled again.                        *)
RingMenu == [p \in MCParts |->
  IF p = d THEN {Op("local_store", b1), On("arrive", m1), Wait(m2, 0)}
  ELSE {Wait(m1, 0), Op("local_load", b1), On("arrive", m2)}]
MCMenus == {PlainMenu, TmaMenu, MmaMenu, CountedMenu, RingMenu}
ReadMenus == {PlainMenu}
MCPrologue == {<<Op("local_load", b1), Start(m1, 1)>>, <<Op("local_store", b1), Start(m1, 2)>>, <<Start(m1, 1), On("inval", m1), Start(m1, 1)>>,
               <<Start(m1, 1), Start(m2, 1)>>}
=============================================================================
