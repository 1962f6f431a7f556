--------------------------- MODULE VulkanCompute ---------------------------
(***************************************************************************)
(* The Vulkan dispatch engine (third_party/vulkan/lib/Runtime): which      *)
(* Vulkan objects a VulkanCompute holds, creates and destroys, and what a  *)
(* dispatch binds, when any Vulkan call it makes may fail.                 *)
(*                                                                         *)
(* One action is one call of the class, with the Vulkan calls it makes and *)
(* the clean-up of its catch block.  The driver is external: it hands out  *)
(* handles or refuses.  Every call that submits work also waits for it.    *)
(* A handle is [kind, id], and live is the driver's set of objects.        *)
(* "Slip" marks a plausible bug the specification does not use.            *)
(***************************************************************************)
EXTENDS Naturals, Sequences, FiniteSets, Functions

CONSTANTS
    Bindings,             \* descriptor bindings of the shaders
    PushSizes,            \* sizes of push constant data callers set, in bytes
    MaxPushConstantsSize, \* limits.maxPushConstantsSize
    BuffersAfterDispatch, \* whether callers create buffers once a pipeline is built
    MaxHandles            \* bound on the handles the driver hands out

ASSUME ConstantsAssumption ==
    /\ PushSizes \subseteq Nat /\ MaxPushConstantsSize \in Nat /\ MaxHandles \in Nat
    /\ BuffersAfterDispatch \in BOOLEAN

VARIABLES
    live,         \* objects the driver holds for this process
    lifetime,     \* of the C++ object
    held,         \* instance_, device_, commandPool_ and the per-shader handles
    descriptors,  \* binding -> buffer, as written into descriptorSet_
    pushRange,    \* push constant size the pipeline layout was made for
    buffers,      \* buffers_
    pushSize,     \* pushConstantData_.size()
    lost,         \* live objects no field refers to any more
    issued        \* handles handed out so far

vars == <<live, lifetime, held, descriptors, pushRange, buffers, pushSize, lost, issued>>

Null == [kind |-> "null", id |-> 0]
ContextFields == <<"instance", "device", "commandPool">>
PipelineFields == {"setLayout", "pipelineLayout", "pipeline", "descriptorPool"}
Fields == Range(ContextFields) \cup {"shaderModule"} \cup PipelineFields
BufferFields == <<"buffer", "memory", "staging", "stagingMemory">>
Kinds == Fields \cup Range(BufferFields) \cup {"commandBuffer"}

\* The first n of a sequence of kinds, as handles issued next.
Issue(kinds, n) == [i \in 1 .. n |-> [kind |-> kinds[i], id |-> issued + i]]

Handles(f) == Range(f) \ {Null}
BufferHandles(b) == {b[f] : f \in Range(BufferFields)} \ {Null}
AllBufferHandles == UNION {BufferHandles(buffers[i]) : i \in DOMAIN buffers}
Held == Handles(held) \cup AllBufferHandles

Init ==
    /\ live = {} /\ lost = {} /\ issued = 0
    /\ lifetime = "unborn"
    /\ held = [f \in Fields |-> Null]
    /\ descriptors = <<>> /\ pushRange = 0
    /\ buffers = <<>> /\ pushSize = 0

CanIssue(n) == issued + n <= MaxHandles

Alive == lifetime = "alive"

-----------------------------------------------------------------------------
(* Construction                                                            *)

\* initInstance, pickPhysicalDevice, createLogicalDevice, createCommandPool.  A
\* constructor that throws runs no destructor: what it made so far is lost.
Construct ==
    /\ lifetime = "unborn"
    /\ \E made \in 0 .. 3 :
          LET new == Issue(ContextFields, made) IN
          /\ CanIssue(3)
          /\ issued' = issued + made
          /\ live' = live \cup Range(new)
          /\ IF made = 3
             THEN /\ lifetime' = "alive"
                  /\ held' = [f \in Fields |-> IF \E i \in 1 .. 3 : ContextFields[i] = f
                                               THEN CHOOSE h \in Range(new) : h.kind = f ELSE held[f]]
                  /\ UNCHANGED lost
             ELSE /\ lifetime' = "failed"
                  /\ lost' = lost \cup Range(new)
                  /\ UNCHANGED held
    /\ UNCHANGED <<descriptors, pushRange, buffers, pushSize>>

-----------------------------------------------------------------------------
(* Shader state                                                            *)

\* Slip: the staging buffers stay behind.
DestroyedWithoutStaging ==
    {h \in AllBufferHandles : h.kind \notin {"staging", "stagingMemory"}}
      \cup ({held[f] : f \in PipelineFields \cup {"shaderModule"}} \ {Null})

\* destroyShaderState: what it destroys.
Destroyed == AllBufferHandles \cup ({held[f] : f \in PipelineFields \cup {"shaderModule"}} \ {Null})

Cleared == [f \in Fields |-> IF f \in Range(ContextFields) THEN held[f] ELSE Null]

\* loadShader: clear the previous shader's state, then create the module.
LoadShader ==
    /\ Alive /\ CanIssue(1)
    /\ \E created \in BOOLEAN :
          LET new == Issue(<<"shaderModule">>, 1)[1] IN
          /\ live' = (live \ Destroyed) \cup (IF created THEN {new} ELSE {})
          /\ held' = IF created THEN [Cleared EXCEPT !.shaderModule = new] ELSE Cleared
          /\ issued' = IF created THEN issued + 1 ELSE issued
    /\ buffers' = <<>> /\ descriptors' = <<>> /\ pushRange' = 0
    /\ UNCHANGED <<lifetime, pushSize, lost>>

ResetShaderState ==
    /\ Alive
    /\ live' = live \ Destroyed
    /\ held' = Cleared
    /\ buffers' = <<>> /\ descriptors' = <<>> /\ pushRange' = 0
    /\ UNCHANGED <<lifetime, pushSize, lost, issued>>

\* ~VulkanCompute: the shader state, then the command pool with every command
\* buffer it still holds, the device and the instance.
Destruct ==
    /\ Alive
    /\ live' = live \ (Destroyed \cup Handles(held) \cup {h \in lost : h.kind = "commandBuffer"})
    /\ lost' = {h \in lost : h.kind # "commandBuffer"}
    /\ held' = [f \in Fields |-> Null]
    /\ buffers' = <<>> /\ descriptors' = <<>> /\ pushRange' = 0
    /\ lifetime' = "destroyed"
    /\ UNCHANGED <<pushSize, issued>>

-----------------------------------------------------------------------------
(* Buffers                                                                 *)

\* createBuffer: a device-local buffer takes a staging twin, the fallback is
\* host-visible.  Failing after made objects, the catch block destroys them.
CreateBuffer(binding) ==
    /\ Alive
    /\ \A i \in DOMAIN buffers : buffers[i].binding # binding
    /\ held.pipeline # Null => BuffersAfterDispatch
    /\ \E deviceLocal \in BOOLEAN :
          LET needed == IF deviceLocal THEN 4 ELSE 2 IN
          /\ CanIssue(needed)
          /\ \E made \in 0 .. needed, complete \in BOOLEAN :
                LET new == Issue(BufferFields, made)
                    part(i) == IF i \in DOMAIN new THEN new[i] ELSE Null IN
                /\ complete => made = needed
                /\ issued' = issued + made
                /\ IF complete
                   THEN /\ live' = live \cup Range(new)
                        /\ buffers' = Append(buffers,
                             [binding |-> binding, deviceLocal |-> deviceLocal, buffer |-> part(1),
                              memory |-> part(2), staging |-> part(3), stagingMemory |-> part(4)])
                   ELSE UNCHANGED <<live, buffers>>
    /\ UNCHANGED <<lifetime, held, descriptors, pushRange, pushSize, lost>>

\* copyBuffer, and the second half of dispatch: a command buffer is allocated,
\* recorded, submitted, waited for and freed; a failure on the way leaves it
\* allocated in the pool.
Submit ==
    \/ UNCHANGED <<live, lost, issued>>            \* none allocated
    \/ LET command == Issue(<<"commandBuffer">>, 1)[1] IN
       /\ CanIssue(1)
       /\ issued' = issued + 1
       /\ \/ UNCHANGED <<live, lost>>              \* done and freed
          \/ /\ live' = live \cup {command}
             /\ lost' = lost \cup {command}

\* writeBuffer and readBuffer of a device-local buffer; a host-visible one is
\* mapped and changes no object.
TransferBuffer(i) ==
    /\ Alive /\ i \in DOMAIN buffers
    /\ buffers[i].deviceLocal
    /\ Submit
    /\ UNCHANGED <<lifetime, held, descriptors, pushRange, buffers, pushSize>>

-----------------------------------------------------------------------------
(* Pipeline and dispatch                                                   *)

\* Slip: the pipeline is kept.
LazySetPushConstants(size) ==
    /\ Alive
    /\ pushSize' = size
    /\ UNCHANGED <<live, lifetime, held, descriptors, pushRange, buffers, lost, issued>>

\* setPushConstants: the pipeline and all that depends on its layout go.
SetPushConstants(size) ==
    /\ Alive
    /\ pushSize' = size
    /\ live' = live \ {held[f] : f \in PipelineFields}
    /\ held' = [f \in Fields |-> IF f \in PipelineFields THEN Null ELSE held[f]]
    /\ descriptors' = <<>> /\ pushRange' = 0
    /\ UNCHANGED <<lifetime, buffers, lost, issued>>

\* The order in which buildPipeline creates its objects.
BuildOrder == <<"setLayout", "pipelineLayout", "pipeline", "descriptorPool">>

\* buildPipeline that throws after made objects: all of them are destroyed.
FailedBuildPipeline(made) ==
    /\ CanIssue(4)
    /\ issued' = issued + made
    /\ UNCHANGED <<live, held, descriptors, pushRange, lost>>

BuiltPipeline(new, set) ==
    /\ CanIssue(4)
    /\ issued' = issued + 4
    /\ live' = live \cup Range(new)
    /\ held' = [f \in Fields |-> IF f \in PipelineFields THEN CHOOSE h \in Range(new) : h.kind = f
                                                         ELSE held[f]]
    /\ descriptors' = set
    /\ pushRange' = pushSize

BoundBindings == {buffers[i].binding : i \in DOMAIN buffers}

\* buildPipeline: layouts, pipeline, pool and a set that names each buffer.
BuildPipeline ==
    /\ pushSize <= MaxPushConstantsSize
    /\ BuiltPipeline(Issue(BuildOrder, 4),
                     [b \in BoundBindings |-> (CHOOSE x \in Range(buffers) : x.binding = b).buffer])

\* dispatch with no pipeline: build one first.  A complete build is followed by
\* Dispatch, the state in between is the one a failed submission leaves.
DispatchBuilds ==
    /\ Alive /\ held.shaderModule # Null /\ buffers # <<>>
    /\ held.pipeline = Null
    /\ \/ BuildPipeline /\ UNCHANGED lost
       \/ \E made \in 0 .. 4 : FailedBuildPipeline(made)
    /\ UNCHANGED <<lifetime, buffers, pushSize>>

\* dispatch with a pipeline: bind, push, dispatch, submit and wait.
Dispatch ==
    /\ Alive
    /\ held.pipeline # Null
    /\ Submit
    /\ UNCHANGED <<lifetime, held, descriptors, pushRange, buffers, pushSize>>

Next == \/ Construct \/ Destruct \/ LoadShader \/ ResetShaderState
        \/ \E b \in Bindings : CreateBuffer(b)
        \/ \E i \in 1 .. Cardinality(Bindings) : TransferBuffer(i)
        \/ \E size \in PushSizes : SetPushConstants(size)
        \/ DispatchBuilds \/ Dispatch

Spec == Init /\ [][Next]_vars

-----------------------------------------------------------------------------
TypeOK ==
    /\ \A h \in live : h.kind \in Kinds /\ h.id \in 1 .. issued
    /\ lost \subseteq live
    /\ lifetime \in {"unborn", "alive", "failed", "destroyed"}
    /\ \A f \in Fields : held[f].kind \in {f, "null"}
    /\ pushRange \in 0 .. MaxPushConstantsSize /\ pushSize \in PushSizes \cup {0}
    /\ issued \in 0 .. MaxHandles

\* Whatever call failed, every object of the driver is in a field of the class
\* and every field holds an object that exists.  Only a failed submission's
\* command buffer and what a failed constructor had made are out of reach, and
\* the destructor leaves nothing.
NothingLeaks ==
    /\ live = Held \cup lost
    /\ lifetime # "failed" => \A h \in lost : h.kind = "commandBuffer"
    /\ lifetime = "destroyed" => live = {}

\* dispatch looks at pipeline_ alone before it binds the layout and the set:
\* the pipeline objects are there together or not at all.
PipelineWhole ==
    \/ \A f \in PipelineFields : held[f] # Null
    \/ \A f \in PipelineFields : held[f] = Null

\* The push constants a dispatch pushes fit the range its layout was made for.
LayoutCurrent == held.pipeline # Null => pushRange = pushSize

\* Every buffer is bound to its binding in the set the next dispatch uses
\* ("Create a storage buffer bound to a descriptor set binding"), and the set
\* names no buffer that is gone.
DescriptorsCurrent ==
    held.pipeline # Null =>
        /\ \A i \in DOMAIN buffers : /\ buffers[i].binding \in DOMAIN descriptors
                                    /\ descriptors[buffers[i].binding] = buffers[i].buffer
        /\ Range(descriptors) \subseteq live

\* Calls that fail one by one leave the object fit for the next call.
FailuresContained == TypeOK /\ NothingLeaks /\ PipelineWhole

\* The next dispatch runs with what the class holds now.
DispatchesCurrent == LayoutCurrent /\ DescriptorsCurrent
=============================================================================
