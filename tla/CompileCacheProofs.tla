------------------------- MODULE CompileCacheProofs -------------------------
(***************************************************************************)
(* A group file promises a whole kernel and a compile reads only whole     *)
(* files, for any set of processes and any number of runs.                 *)
(*                                                                         *)
(* GroupIsPromise is not inductive: the group that a process is about to   *)
(* put may be anything.  The invariant adds what a process knows of the    *)
(* directory: the files of its group are whole, and the binary and the     *)
(* metadata are in the group or still to be put ahead of the group file.   *)
(* Files never become less than whole, so nothing another process does     *)
(* can take that back.                                                     *)
(***************************************************************************)
EXTENDS CompileCache, TLAPS

Essential == {"binary", "json"}
PCs == {"out", "lookup", "put", "replace", "load"}

\* What can be left to put: the ends of the two orders.
Remaining == {<<>>, <<"group">>, <<"json", "group">>, <<"binary", "json", "group">>,
              <<"ir", "binary", "json", "group">>, <<"source", "ir", "binary", "json", "group">>,
              <<"source", "binary", "json", "group">>}

ToPut(left) == {left[i] : i \in 1 .. Len(left)}

ProcessType ==
    process \in [Processes -> [pc : PCs, runs : Nat, group : SUBSET Artifacts, left : Remaining,
                               always : BOOLEAN, binaryOnly : BOOLEAN]]

\* Each file is put by one rename, so none is ever partial where it is read.
NoPartialFile == disk \in [Files -> {"absent", "whole"}]

GroupsWhole == \A p \in Processes : \A f \in process[p].group : disk[f] = "whole"

KnowsItsKernel ==
    \A p \in Processes :
        /\ process[p].pc \in {"put", "replace"} => /\ process[p].left # <<>>
                                                   /\ Essential \subseteq process[p].group \cup ToPut(process[p].left)
        /\ process[p].pc = "load" => Essential \subseteq process[p].group

IInv == /\ ProcessType /\ NoPartialFile /\ children \subseteq Artifacts
        /\ GroupsWhole /\ KnowsItsKernel
        /\ GroupIsPromise /\ ReadsWhole

\* What is left of an order: the file that is next and what follows it.  The
\* group file is the last.
LEMMA RemainingStep ==
    ASSUME NEW left \in Remaining, left # <<>>
    PROVE  /\ Head(left) \in Files /\ Tail(left) \in Remaining
           /\ Head(left) = "group" <=> Len(left) = 1
           /\ Len(left) = 1 <=> Tail(left) = <<>>
           /\ ToPut(left) \subseteq {Head(left)} \cup ToPut(Tail(left))
           /\ ToPut(Tail(left)) \subseteq ToPut(left)
  <1> USE DEF Remaining, Files, Artifacts, ToPut
  <1>1. CASE left = <<"group">>
    BY <1>1
  <1>2. CASE left = <<"json", "group">>
    BY <1>2
  <1>3. CASE left = <<"binary", "json", "group">>
    BY <1>3
  <1>4. CASE left = <<"ir", "binary", "json", "group">>
    BY <1>4
  <1>5. CASE left = <<"source", "ir", "binary", "json", "group">>
    BY <1>5
  <1>6. CASE left = <<"source", "binary", "json", "group">>
    BY <1>6
  <1> QED
    BY <1>1, <1>2, <1>3, <1>4, <1>5, <1>6

\* Nothing is left of <<>>.
LEMMA NothingToPut == ToPut(<<>>) = {}
  BY DEF ToPut

\* Both orders put the binary and the metadata.
LEMMA OrdersComplete ==
    ASSUME NEW b \in BOOLEAN
    PROVE  PutOrder(b) \in Remaining /\ PutOrder(b) # <<>> /\ Essential \subseteq ToPut(PutOrder(b))
  <1>1. CASE b
    BY <1>1 DEF PutOrder, Remaining, Essential, ToPut
  <1>2. CASE ~b
    BY <1>2 DEF PutOrder, Remaining, Essential, ToPut
  <1> QED
    BY <1>1, <1>2

\* The directory is empty and nobody runs.
LEMMA InitIInv == Init => IInv
  <1> SUFFICES ASSUME Init PROVE IInv
    OBVIOUS
  <1> USE DEF Init, NotRunning, At
  <1>1. ProcessType
    BY DEF ProcessType, PCs, Remaining
  <1>2. NoPartialFile /\ GroupIsPromise
    BY DEF NoPartialFile, GroupIsPromise, Files
  <1>3. GroupsWhole /\ KnowsItsKernel
    BY DEF GroupsWhole, KnowsItsKernel
  <1>4. ReadsWhole
    BY <1>2 DEF ReadsWhole, TypeOK, KernelsWhole, Files
  <1> QED
    BY <1>1, <1>2, <1>3, <1>4 DEF IInv

\* A group that get_group returns is of whole files, and with the metadata in it
\* it is a kernel.
LEMMA GroupFound ==
    ASSUME IInv
    PROVE  /\ GetGroup \subseteq Artifacts
           /\ \A f \in GetGroup : disk[f] = "whole"
           /\ "json" \in GetGroup => Essential \subseteq GetGroup
  <1>1. CASE disk["group"] = "whole"
    BY <1>1 DEF IInv, GroupIsPromise, GetGroup, Essential
  <1>2. CASE disk["group"] # "whole"
    BY <1>2 DEF GetGroup
  <1> QED
    BY <1>1, <1>2

\* A step of one process keeps the invariant.
LEMMA NextIInv == IInv /\ [Next]_vars => IInv'
  <1> SUFFICES ASSUME IInv, [Next]_vars PROVE IInv'
    OBVIOUS
  <1>typ. /\ ProcessType /\ NoPartialFile /\ children \subseteq Artifacts
          /\ GroupsWhole /\ KnowsItsKernel /\ GroupIsPromise /\ ReadsWhole /\ TypeOK /\ KernelsWhole
    BY DEF IInv, ReadsWhole
  <1>keep. ASSUME UNCHANGED <<disk, children, kernels>>, ProcessType', KnowsItsKernel', GroupsWhole'
           PROVE  IInv'
    <2>1. NoPartialFile' /\ GroupIsPromise' /\ KernelsWhole' /\ (children \subseteq Artifacts)'
      BY <1>typ, <1>keep DEF NoPartialFile, GroupIsPromise, KernelsWhole
    <2>2. TypeOK'
      BY <1>typ, <1>keep, <2>1 DEF ProcessType, NoPartialFile, KnowsItsKernel, TypeOK, PCs, At, Files
    <2> QED
      BY <2>1, <2>2, <1>keep DEF IInv, ReadsWhole
  <1>out. ASSUME NEW p \in Processes, UNCHANGED <<disk, children>>,
                 process' = [process EXCEPT ![p] = NotRunning(process[p].runs)]
          PROVE  ProcessType' /\ KnowsItsKernel' /\ GroupsWhole'
    BY <1>typ, <1>out DEF ProcessType, KnowsItsKernel, GroupsWhole, NotRunning, PCs, Remaining
  <1>1. ASSUME NEW p \in Processes, NEW always \in BOOLEAN, NEW binaryOnly \in BOOLEAN,
               Start(p, always, binaryOnly)
        PROVE  IInv'
    <2>1. ProcessType' /\ KnowsItsKernel' /\ GroupsWhole'
      BY <1>1, <1>typ DEF Start, At, ProcessType, KnowsItsKernel, GroupsWhole, PCs, Remaining
    <2> QED
      BY <2>1, <1>keep, <1>1 DEF Start
  <1>2. ASSUME NEW p \in Processes, Lookup(p) PROVE IInv'
    <2>1. ProcessType'
      <3>1. GetGroup \in SUBSET Artifacts /\ <<>> \in Remaining
        BY GroupFound DEF Remaining
      <3>2. PutOrder(process[p].binaryOnly) \in Remaining
        BY <1>typ, OrdersComplete DEF ProcessType
      <3>3. PICK newPc \in PCs, newLeft \in Remaining :
               process' = [process EXCEPT ![p].pc = newPc, ![p].group = GetGroup, ![p].left = newLeft]
        BY <1>2, <3>1, <3>2 DEF Lookup, PCs
      <3> QED
        BY <1>typ, <3>1, <3>3 DEF ProcessType
    <2>2. GroupsWhole'
      BY <1>2, <1>typ, GroupFound DEF Lookup, ProcessType, GroupsWhole
    <2>3. KnowsItsKernel'
      BY <1>2, <1>typ, GroupFound, OrdersComplete DEF Lookup, At, ProcessType, KnowsItsKernel
    <2> QED
      BY <2>1, <2>2, <2>3, <1>keep, <1>2 DEF Lookup
  <1>3. ASSUME NEW p \in Processes, WriteTemp(p) PROVE IInv'
    <2>1. ProcessType' /\ KnowsItsKernel' /\ GroupsWhole'
      BY <1>3, <1>typ DEF WriteTemp, At, ProcessType, KnowsItsKernel, GroupsWhole, PCs
    <2> QED
      BY <2>1, <1>keep, <1>3 DEF WriteTemp
  <1>4. ASSUME NEW p \in Processes, Replace(p) PROVE IInv'
    <2> DEFINE left == process[p].left
               f == Head(left)
    <2>1. process[p].pc = "replace" /\ left \in Remaining /\ left # <<>>
      BY <1>4, <1>typ DEF Replace, At, ProcessType, KnowsItsKernel
    <2>2. /\ f \in Files /\ Tail(left) \in Remaining
          /\ f = "group" <=> Len(left) = 1
          /\ Len(left) = 1 <=> Tail(left) = <<>>
          /\ ToPut(left) \subseteq {f} \cup ToPut(Tail(left))
      BY <2>1, RemainingStep
    <2>3. Essential \subseteq process[p].group \cup ToPut(left)
      BY <2>1, <1>typ DEF KnowsItsKernel
    <2>4. /\ disk' = [disk EXCEPT ![f] = "whole"]
          /\ children' = IF f = "group" THEN process[p].group ELSE children
          /\ process' = [process EXCEPT
                           ![p].pc = IF Len(left) = 1 THEN "load" ELSE "put",
                           ![p].group = IF f = "group" THEN @ ELSE @ \cup {f},
                           ![p].left = Tail(@)]
          /\ kernels' = kernels
      BY <1>4 DEF Replace
    <2>5. NoPartialFile' /\ \A g \in Files : disk[g] = "whole" => disk'[g] = "whole"
      BY <2>2, <2>4, <1>typ DEF NoPartialFile
    <2>6. disk'[f] = "whole"
      BY <2>2, <2>4, <1>typ DEF NoPartialFile
    <2>7. process[p].group \subseteq Artifacts /\ Artifacts \subseteq Files
      BY <1>typ DEF ProcessType, Files
    <2>8. f # "group" => f \in Artifacts
      BY <2>2 DEF Files
    <2>9. ProcessType' /\ (children \subseteq Artifacts)'
      <3>1. (IF f = "group" THEN process[p].group ELSE process[p].group \cup {f}) \in SUBSET Artifacts
        BY <2>7, <2>8
      <3>2. ProcessType'
        BY <2>2, <2>4, <3>1, <1>typ DEF ProcessType, PCs
      <3> QED
        BY <2>4, <2>7, <3>2, <1>typ
    <2>10. GroupsWhole'
      BY <2>4, <2>5, <2>6, <2>7, <2>8, <1>typ DEF GroupsWhole, ProcessType, Files
    <2>11. f = "group" => Essential \subseteq process[p].group
      BY <2>2, <2>3, NothingToPut DEF Essential
    <2>12. KnowsItsKernel'
      BY <2>2, <2>3, <2>4, <2>11, <1>typ DEF KnowsItsKernel, ProcessType
    <2>13. GroupIsPromise'
      <3>1. CASE f = "group"
        BY <3>1, <2>4, <2>5, <2>7, <2>11, <1>typ DEF GroupIsPromise, GroupsWhole, Essential
      <3>2. CASE f # "group"
        BY <3>2, <2>4, <2>5, <2>2, <1>typ DEF GroupIsPromise, NoPartialFile, Files
      <3> QED
        BY <3>1, <3>2
    <2>14. KernelsWhole' /\ TypeOK'
      BY <2>4, <2>5, <2>9, <2>12, <1>typ
      DEF ProcessType, NoPartialFile, KnowsItsKernel, TypeOK, PCs, At, Files, KernelsWhole
    <2> QED
      BY <2>5, <2>9, <2>10, <2>12, <2>13, <2>14 DEF IInv, ReadsWhole
  <1>5. ASSUME NEW p \in Processes, Load(p) PROVE IInv'
    <2> DEFINE k == [f \in process[p].group |-> disk[f]]
    <2>1. ProcessType' /\ KnowsItsKernel' /\ GroupsWhole'
      BY <1>5, <1>out DEF Load
    <2>2. NoPartialFile' /\ GroupIsPromise' /\ (children \subseteq Artifacts)'
      BY <1>5, <1>typ DEF Load, NoPartialFile, GroupIsPromise
    <2>3. /\ process[p].group \in SUBSET Artifacts
          /\ Essential \subseteq process[p].group
          /\ \A f \in process[p].group : disk[f] = "whole"
      BY <1>5, <1>typ DEF Load, At, ProcessType, KnowsItsKernel, GroupsWhole
    <2>4. k \in [process[p].group -> {"absent", "partial", "whole"}]
      BY <2>3
    <2>5. kernels' = kernels \cup {k}
      BY <1>5 DEF Load
    <2>6. KernelsWhole'
      BY <2>3, <2>4, <2>5, <1>typ DEF KernelsWhole, Essential
    <2>7. \A q \in kernels' :
             q \in UNION {[g -> {"absent", "partial", "whole"}] : g \in SUBSET Artifacts}
      BY <2>3, <2>4, <2>5, <1>typ DEF TypeOK
    <2>8. TypeOK'
      BY <2>1, <2>2, <2>7 DEF ProcessType, NoPartialFile, KnowsItsKernel, TypeOK, PCs, At, Files
    <2> QED
      BY <2>1, <2>2, <2>6, <2>8 DEF IInv, ReadsWhole
  <1>6. ASSUME NEW p \in Processes, Abort(p) PROVE IInv'
    BY <1>6, <1>out, <1>keep DEF Abort
  <1>7. CASE UNCHANGED vars
    <2>1. ProcessType' /\ KnowsItsKernel' /\ GroupsWhole'
      BY <1>7, <1>typ DEF vars, ProcessType, KnowsItsKernel, GroupsWhole
    <2> QED
      BY <2>1, <1>7, <1>keep DEF vars
  <1> QED
    BY <1>1, <1>2, <1>3, <1>4, <1>5, <1>6, <1>7 DEF Next

\* What each process knows of the directory is true in every reachable state.
THEOREM Invariance == Spec => []IInv
  BY InitIInv, NextIInv, PTL DEF Spec

\* Whoever was killed and whoever compiles again, a group file names the binary
\* and the metadata and only files that are whole.
THEOREM GroupPromises == Spec => []GroupIsPromise
  <1>1. IInv => GroupIsPromise
    BY DEF IInv
  <1> QED
    BY <1>1, Invariance, PTL

\* A compile that returns has read the metadata and the binary, and no partial
\* write.
THEOREM ReadersSeeWhole == Spec => []ReadsWhole
  <1>1. IInv => ReadsWhole
    BY DEF IInv
  <1> QED
    BY <1>1, Invariance, PTL
=============================================================================
