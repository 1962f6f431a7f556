---------------------------- MODULE CompileCache ----------------------------
(***************************************************************************)
(* The cache directory of one kernel hash (runtime/cache.py) and the       *)
(* compilations that share it (compile in compiler/compiler.py).           *)
(*                                                                         *)
(* Processes look up, compile and load with no lock between them, and each *)
(* may be killed between two file operations.  A file is absent, partly    *)
(* written or whole; equal hashes stand for equal contents.  The group     *)
(* file holds the names that were in the metadata group when it was put.   *)
(* "Slip" marks a plausible bug the specification does not use.            *)
(***************************************************************************)
EXTENDS Naturals, Sequences, FiniteSets

CONSTANTS
    Processes,
    MaxRuns   \* bound: compile calls of a process, those that are killed included

ASSUME ConstantsAssumption == MaxRuns \in Nat

Artifacts == {"source", "ir", "binary", "json"}
Files == Artifacts \cup {"group"}

VARIABLES
    disk,      \* state of each file
    children,  \* child_paths of the group file, when it is whole
    process,   \* pc and locals of each process
    kernels    \* what the compile calls that returned have read: file -> state

vars == <<disk, children, process, kernels>>

\* metadata_group, what is left to put, and the knobs always_compile and
\* store_binary_only of the process.
NotRunning(runs) == [pc |-> "out", runs |-> runs, group |-> {}, left |-> <<>>,
                     always |-> FALSE, binaryOnly |-> FALSE]

Init ==
    /\ disk = [f \in Files |-> "absent"]
    /\ children = {}
    /\ process = [p \in Processes |-> NotRunning(0)]
    /\ kernels = {}

At(p, label) == process[p].pc = label

\* Slip: the metadata and the group go first, and the binary after them.
EagerOrder(binaryOnly) ==
    IF binaryOnly THEN <<"source", "json", "group", "binary">>
                  ELSE <<"source", "ir", "json", "group", "binary">>

\* The files of a compilation in the order they are put: the source, the stages
\* (only the binary with store_binary_only), the metadata and the group.
PutOrder(binaryOnly) ==
    IF binaryOnly THEN <<"source", "binary", "json", "group">>
                  ELSE <<"source", "ir", "binary", "json", "group">>

\* get_group: the children that exist, nothing if the group file is not there
\* or cannot be parsed.
GetGroup == IF disk["group"] = "whole" THEN {f \in children : disk[f] # "absent"} ELSE {}

Start(p, always, binaryOnly) ==
    /\ At(p, "out") /\ process[p].runs < MaxRuns
    /\ process' = [process EXCEPT ![p] = [pc |-> "lookup", runs |-> @.runs + 1, group |-> {}, left |-> <<>>,
                                          always |-> always, binaryOnly |-> binaryOnly]]
    /\ UNCHANGED <<disk, children, kernels>>

\* A hit is a group with the metadata; a miss keeps the group it found.
Lookup(p) ==
    LET hit == ~process[p].always /\ "json" \in GetGroup IN
    /\ At(p, "lookup")
    /\ process' = [process EXCEPT
                     ![p].pc = IF hit THEN "load" ELSE "put",
                     ![p].group = GetGroup,
                     ![p].left = IF hit THEN <<>> ELSE PutOrder(process[p].binaryOnly)]
    /\ UNCHANGED <<disk, children, kernels>>

\* Slip: put writes the file where it will be read.
InPlaceWriteTemp(p) ==
    /\ At(p, "put") /\ process[p].left # <<>>
    /\ disk' = [disk EXCEPT ![Head(process[p].left)] = "partial"]
    /\ process' = [process EXCEPT ![p].pc = "replace"]
    /\ UNCHANGED <<children, kernels>>

\* put of the next file: it is written in a directory of its own ...
WriteTemp(p) ==
    /\ At(p, "put") /\ process[p].left # <<>>
    /\ process' = [process EXCEPT ![p].pc = "replace"]
    /\ UNCHANGED <<disk, children, kernels>>

\* ... and os.replace puts it in place.
Replace(p) ==
    LET f == Head(process[p].left) IN
    /\ At(p, "replace")
    /\ disk' = [disk EXCEPT ![f] = "whole"]
    /\ children' = IF f = "group" THEN process[p].group ELSE children
    /\ process' = [process EXCEPT
                     ![p].pc = IF Len(process[p].left) = 1 THEN "load" ELSE "put",
                     ![p].group = IF f = "group" THEN @ ELSE @ \cup {f},
                     ![p].left = Tail(@)]
    /\ UNCHANGED kernels

\* CompiledKernel: every file of the group is read.
Load(p) ==
    /\ At(p, "load")
    /\ kernels' = kernels \cup {[f \in process[p].group |-> disk[f]]}
    /\ process' = [process EXCEPT ![p] = NotRunning(process[p].runs)]
    /\ UNCHANGED <<disk, children>>

\* A stage raises, or the process is killed: what it has put stays.
Abort(p) ==
    /\ process[p].pc \in {"lookup", "put", "replace", "load"}
    /\ process' = [process EXCEPT ![p] = NotRunning(process[p].runs)]
    /\ UNCHANGED <<disk, children, kernels>>

Next == \E p \in Processes :
            \/ \E always, binaryOnly \in BOOLEAN : Start(p, always, binaryOnly)
            \/ Lookup(p) \/ WriteTemp(p) \/ Replace(p) \/ Load(p) \/ Abort(p)

Spec == Init /\ [][Next]_vars

-----------------------------------------------------------------------------
TypeOK ==
    /\ disk \in [Files -> {"absent", "partial", "whole"}]
    /\ children \subseteq Artifacts
    /\ \A p \in Processes : /\ process[p].pc \in {"out", "lookup", "put", "replace", "load"}
                            /\ process[p].group \subseteq Artifacts
                            /\ At(p, "replace") => process[p].left # <<>>
    /\ \A k \in kernels : k \in UNION {[g -> {"absent", "partial", "whole"}] : g \in SUBSET Artifacts}

\* The group file is the promise that the kernel is there: whoever was killed,
\* whoever compiles again, all it names can be read and the kernel is complete.
GroupIsPromise ==
    disk["group"] = "whole" => /\ {"binary", "json"} \subseteq children
                               /\ \A f \in children : disk[f] = "whole"

\* A compile that returns, by a hit or a compilation, has read the metadata and
\* the binary and no partial write ("filepath cannot see a partial write").
KernelsWhole ==
    \A k \in kernels : {"binary", "json"} \subseteq DOMAIN k /\ \A f \in DOMAIN k : k[f] = "whole"

\* What a process reads is whole, and all it keeps is a state of a file.
ReadsWhole == TypeOK /\ KernelsWhole
=============================================================================
