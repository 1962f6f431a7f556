------------------------ MODULE VulkanComputeProofs -------------------------
(***************************************************************************)
(* Whatever Vulkan call fails, a VulkanCompute loses no object and keeps   *)
(* no stale one, for any bindings, limits and number of handles.           *)
(*                                                                         *)
(* NothingLeaks is an equation between the driver's objects and the fields *)
(* of the class.  A call keeps it only if what it destroys is disjoint     *)
(* from what the class keeps; the kinds of the handles show that, so the   *)
(* invariant says in which field a handle of each kind may be.             *)
(***************************************************************************)
EXTENDS VulkanCompute, SequenceTheorems, TLAPS

ContextKinds == {"instance", "device", "commandPool"}
BufferKinds == {"buffer", "memory", "staging", "stagingMemory"}
Handle == [kind : Kinds \cup {"null"}, id : Nat]
HandleOrNull(kind) == [kind : {kind}, id : 1 .. issued] \cup {Null}

Buffer == [binding : Bindings, deviceLocal : BOOLEAN, buffer : Handle, memory : Handle,
           staging : Handle, stagingMemory : Handle]

\* Each field holds a handle of its own kind, or none.
Typed ==
    /\ issued \in 0 .. MaxHandles
    /\ lifetime \in {"unborn", "alive", "failed", "destroyed"}
    /\ pushRange \in 0 .. MaxPushConstantsSize /\ pushSize \in PushSizes \cup {0}
    /\ held \in [Fields -> Handle]
    /\ \A f \in Fields : held[f] \in HandleOrNull(f)
    /\ buffers \in Seq(Buffer)
    /\ \A i \in DOMAIN buffers : /\ \A f \in BufferKinds : buffers[i][f] \in HandleOrNull(f)
                                 /\ buffers[i].buffer # Null
    /\ \A h \in lost : h.kind \in Kinds /\ h.id \in 1 .. issued

Unborn == lifetime = "unborn" =>
              held = [f \in Fields |-> Null] /\ buffers = <<>> /\ lost = {}

IInv == Typed /\ Unborn /\ NothingLeaks /\ PipelineWhole

\* The names of the fields.
LEMMA FieldNames ==
    /\ Range(ContextFields) = ContextKinds
    /\ Range(BufferFields) = BufferKinds
    /\ Fields = ContextKinds \cup {"shaderModule"} \cup PipelineFields
    /\ {f \in Fields : \E i \in 1 .. 3 : ContextFields[i] = f} = ContextKinds
  <1>1. Range(ContextFields) = ContextKinds
    BY DEF Range, ContextFields, ContextKinds
  <1>2. Range(BufferFields) = BufferKinds
    BY DEF Range, BufferFields, BufferKinds
  <1>3. \A f : (\E i \in 1 .. 3 : ContextFields[i] = f) <=> f \in ContextKinds
    BY DEF ContextFields, ContextKinds
  <1> QED
    BY <1>1, <1>2, <1>3 DEF Fields

\* What Issue hands out: handles of the kinds asked for, with new ids.
LEMMA IssuedHandles ==
    ASSUME NEW kinds, NEW n \in Nat, issued \in Nat
    PROVE  /\ DOMAIN Issue(kinds, n) = 1 .. n
           /\ \A i \in 1 .. n : /\ Issue(kinds, n)[i] = [kind |-> kinds[i], id |-> issued + i]
                                /\ Issue(kinds, n)[i] \in [kind : {kinds[i]}, id : 1 .. (issued + n)]
                                /\ Issue(kinds, n)[i] # Null
           /\ Range(Issue(kinds, n)) = {[kind |-> kinds[i], id |-> issued + i] : i \in 1 .. n}
  <1>1. DOMAIN Issue(kinds, n) = 1 .. n
    BY DEF Issue
  <1>2. \A i \in 1 .. n : Issue(kinds, n)[i] = [kind |-> kinds[i], id |-> issued + i]
    BY DEF Issue
  <1>3. \A i \in 1 .. n : issued + i \in 1 .. (issued + n) /\ issued + i # 0
    OBVIOUS
  <1>4. \A i \in 1 .. n : [kind |-> kinds[i], id |-> issued + i].id # Null.id
    BY <1>3 DEF Null
  <1>5. \A i \in 1 .. n : Issue(kinds, n)[i] \in [kind : {kinds[i]}, id : 1 .. (issued + n)]
    <2> TAKE i \in 1 .. n
    <2>1. \A k, m : m \in 1 .. (issued + n) => [kind |-> k, id |-> m] \in [kind : {k}, id : 1 .. (issued + n)]
      OBVIOUS
    <2>2. Issue(kinds, n)[i] = [kind |-> kinds[i], id |-> issued + i] /\ issued + i \in 1 .. (issued + n)
      BY <1>2, <1>3
    <2> HIDE DEF Issue
    <2> QED
      BY <2>1, <2>2, Zenon
  <1>6. \A i \in 1 .. n : Issue(kinds, n)[i] # Null
    BY <1>2, <1>4
  <1>7. Range(Issue(kinds, n)) = {[kind |-> kinds[i], id |-> issued + i] : i \in 1 .. n}
    BY <1>1, <1>2 DEF Range
  <1> QED
    BY <1>1, <1>2, <1>5, <1>6, <1>7

\* Among handles of different kinds, the one of a kind is the one issued for it.
LEMMA ChosenHandle ==
    ASSUME NEW kinds, NEW n \in Nat, issued \in Nat,
           \A i, j \in 1 .. n : kinds[i] = kinds[j] => i = j, NEW i \in 1 .. n
    PROVE  (CHOOSE h \in Range(Issue(kinds, n)) : h.kind = kinds[i]) = Issue(kinds, n)[i]
  <1>1. \A h \in Range(Issue(kinds, n)) : h.kind = kinds[i] => h = Issue(kinds, n)[i]
    BY IssuedHandles
  <1>2. Issue(kinds, n)[i] \in Range(Issue(kinds, n))
    BY IssuedHandles DEF Range
  <1>3. Issue(kinds, n)[i].kind = kinds[i]
    <2>1. Issue(kinds, n)[i] = [kind |-> kinds[i], id |-> issued + i]
      BY IssuedHandles
    <2>2. \A k, m : [kind |-> k, id |-> m].kind = k
      OBVIOUS
    <2> QED
      BY <2>1, <2>2, Zenon
  <1> QED
    BY <1>1, <1>2

\* The kinds of what the fields and the buffers hold.
LEMMA KindsHeld ==
    ASSUME Typed
    PROVE  /\ \A f \in Fields : held[f] # Null => held[f].kind = f /\ held[f].id \in 1 .. issued
           /\ \A h \in AllBufferHandles : h # Null /\ h.kind \in BufferKinds /\ h.id \in 1 .. issued
           /\ Handles(held) = {held[f] : f \in {g \in Fields : held[g] # Null}}
  <1>1. \A f \in Fields : held[f] # Null => held[f].kind = f /\ held[f].id \in 1 .. issued
    BY DEF Typed, HandleOrNull
  <1>2. \A i \in DOMAIN buffers : \A f \in BufferKinds :
           buffers[i][f] # Null => buffers[i][f].kind = f /\ buffers[i][f].id \in 1 .. issued
    BY DEF Typed, HandleOrNull
  <1>3. \A h \in AllBufferHandles : h # Null /\ h.kind \in BufferKinds /\ h.id \in 1 .. issued
    BY <1>2, FieldNames DEF AllBufferHandles, BufferHandles
  <1>4. DOMAIN held = Fields
    BY DEF Typed
  <1> QED
    BY <1>1, <1>3, <1>4 DEF Handles, Range

\* What destroyShaderState destroys, by the fields it is in.
LEMMA DestroyedHandles ==
    Destroyed = AllBufferHandles
                  \cup {held[f] : f \in {g \in PipelineFields \cup {"shaderModule"} : held[g] # Null}}
  BY DEF Destroyed

\* Nothing exists before the constructor.
LEMMA InitIInv == Init => IInv
  <1> SUFFICES ASSUME Init PROVE IInv
    OBVIOUS
  <1> USE DEF Init
  <1>1. Null \in Handle
    BY DEF Null, Handle
  <1>2. Typed
    BY <1>1, ConstantsAssumption DEF Typed, HandleOrNull
  <1>3. Handles(held) = {} /\ AllBufferHandles = {}
    BY DEF Handles, Range, AllBufferHandles
  <1>4. Unborn /\ NothingLeaks /\ PipelineWhole
    BY <1>3 DEF Unborn, NothingLeaks, PipelineWhole, Held, Fields
  <1> QED
    BY <1>2, <1>4 DEF IInv

HeldIn(fields) == {held[f] : f \in {g \in fields : held[g] # Null}}

\* What destroyShaderState leaves: the context, and what is out of reach.  Kinds
\* tell them from what it destroys.
LEMMA LeftByDestroy ==
    ASSUME IInv, Alive
    PROVE  live \ Destroyed = HeldIn(ContextKinds) \cup lost
  <1>1. Typed /\ live = Held \cup lost /\ \A h \in lost : h.kind = "commandBuffer"
    BY DEF IInv, NothingLeaks, Alive
  <1>2. Held = HeldIn(ContextKinds) \cup Destroyed
    BY <1>1, KindsHeld, DestroyedHandles, FieldNames DEF Held, HeldIn
  <1>3. \A h \in Destroyed : h.kind \in BufferKinds \cup PipelineFields \cup {"shaderModule"}
    BY <1>1, KindsHeld, DestroyedHandles, FieldNames
  <1>4. \A h \in HeldIn(ContextKinds) : h.kind \in ContextKinds
    BY <1>1, KindsHeld, FieldNames DEF HeldIn
  <1>5. \A k \in ContextKinds \cup {"commandBuffer"} :
           k \notin BufferKinds \cup PipelineFields \cup {"shaderModule"}
    BY DEF ContextKinds, BufferKinds, PipelineFields
  <1> QED
    BY <1>1, <1>2, <1>3, <1>4, <1>5

\* What setPushConstants leaves: everything but the pipeline.
LEMMA LeftWithoutPipeline ==
    ASSUME IInv, Alive
    PROVE  live \ {held[f] : f \in PipelineFields} =
              HeldIn(ContextKinds \cup {"shaderModule"}) \cup AllBufferHandles \cup lost
  <1>1. Typed /\ live = Held \cup lost /\ \A h \in lost : h.kind = "commandBuffer"
    BY DEF IInv, NothingLeaks, Alive
  <1>2. Held = HeldIn(ContextKinds \cup {"shaderModule"}) \cup HeldIn(PipelineFields) \cup AllBufferHandles
    BY <1>1, KindsHeld, FieldNames DEF Held, HeldIn
  <1>3. \A h \in HeldIn(PipelineFields) : h.kind \in PipelineFields
    BY <1>1, KindsHeld, FieldNames DEF HeldIn
  <1>4. \A h \in HeldIn(ContextKinds \cup {"shaderModule"}) : h.kind \in ContextKinds \cup {"shaderModule"}
    BY <1>1, KindsHeld, FieldNames DEF HeldIn
  <1>5. \A h \in AllBufferHandles : h.kind \in BufferKinds
    BY <1>1, KindsHeld
  <1>6. Null.kind = "null"
    BY DEF Null
  <1>7. \A f \in PipelineFields : held[f] = Null \/ held[f] \in HeldIn(PipelineFields)
    BY DEF HeldIn
  <1>8. HeldIn(PipelineFields) \subseteq {held[f] : f \in PipelineFields}
    BY DEF HeldIn
  <1>9. \A k \in ContextKinds \cup {"shaderModule", "commandBuffer"} \cup BufferKinds :
           k \notin PipelineFields \cup {"null"}
    BY DEF ContextKinds, BufferKinds, PipelineFields
  <1> QED
    BY <1>1, <1>2, <1>3, <1>4, <1>5, <1>6, <1>7, <1>8, <1>9

\* The constructor: it has all it made in fields, or all of it is lost.
LEMMA ConstructStep == IInv /\ Construct => IInv'
  <1> SUFFICES ASSUME IInv, Construct PROVE IInv'
    OBVIOUS
  <1>1. PICK made \in 0 .. 3 :
           LET new == Issue(ContextFields, made) IN
           /\ CanIssue(3)
           /\ issued' = issued + made
           /\ live' = live \cup Range(new)
           /\ IF made = 3
              THEN /\ lifetime' = "alive"
                   /\ held' = [f \in Fields |-> IF \E i \in 1 .. 3 : ContextFields[i] = f
                                                THEN CHOOSE h \in Range(new) : h.kind = f ELSE held[f]]
                   /\ UNCHANGED lost
              ELSE /\ lifetime' = "failed"
                   /\ lost' = lost \cup Range(new)
                   /\ UNCHANGED held
    BY DEF Construct
  <1> DEFINE new == Issue(ContextFields, made)
  <1>2. lifetime = "unborn" /\ UNCHANGED <<descriptors, pushRange, buffers, pushSize>>
    BY DEF Construct
  <1>3. /\ Typed /\ held = [f \in Fields |-> Null] /\ buffers = <<>> /\ lost = {}
        /\ issued \in Nat /\ issued' \in 0 .. MaxHandles /\ issued <= issued'
    BY <1>1, <1>2, ConstantsAssumption DEF IInv, Typed, Unborn, CanIssue
  <1>4. Handles(held) = {} /\ AllBufferHandles = {} /\ AllBufferHandles' = {} /\ live = {}
    BY <1>2, <1>3 DEF IInv, NothingLeaks, Held, Handles, Range, AllBufferHandles
  <1>5. /\ \A i \in 1 .. made : /\ new[i] = [kind |-> ContextFields[i], id |-> issued + i]
                                 /\ new[i] \in [kind : {ContextFields[i]}, id : 1 .. issued']
                                 /\ new[i] # Null
        /\ DOMAIN new = 1 .. made
    BY <1>1, <1>3, IssuedHandles
  <1>6. \A i \in 1 .. 3 : ContextFields[i] \in ContextKinds
    BY DEF ContextFields, ContextKinds
  <1>7. ContextKinds \subseteq Fields /\ ContextKinds \subseteq Kinds /\ Fields \subseteq Kinds
    BY FieldNames DEF Kinds
  <1>8. Null \in Handle /\ \A f \in Fields : [kind : {f}, id : 1 .. issued'] \subseteq Handle
    BY <1>3, <1>7 DEF Null, Handle
  <1> HIDE DEF new
  <1>9. CASE made = 3
    <2>1. \A i \in 1 .. 3 : (CHOOSE h \in Range(new) : h.kind = ContextFields[i]) = new[i]
      <3>1. \A i, j \in 1 .. 3 : ContextFields[i] = ContextFields[j] => i = j
        BY DEF ContextFields
      <3> QED
        BY <3>1, <1>3, <1>9, ChosenHandle DEF new
    <2>2. /\ held' \in [Fields -> Handle] /\ DOMAIN held' = Fields
          /\ \A i \in 1 .. 3 : held'[ContextFields[i]] = new[i]
          /\ \A f \in Fields \ ContextKinds : held'[f] = Null
          /\ \A f \in ContextKinds : \E i \in 1 .. 3 : f = ContextFields[i]
      <3>1. \A f : (\E i \in 1 .. 3 : ContextFields[i] = f) <=> f \in ContextKinds
        BY DEF ContextFields, ContextKinds
      <3>2. held' = [f \in Fields |-> IF f \in ContextKinds
                                      THEN CHOOSE h \in Range(new) : h.kind = f ELSE held[f]]
        BY <1>1, <1>9, <3>1 DEF new
      <3>3. \A i \in 1 .. 3 : held'[ContextFields[i]] = new[i]
        BY <2>1, <3>2, <1>6, <1>7
      <3>4. \A f \in Fields \ ContextKinds : held'[f] = Null
        BY <3>2, <1>3
      <3>5. \A f \in Fields : held'[f] \in Handle
        BY <3>1, <3>3, <3>4, <1>5, <1>6, <1>7, <1>8, <1>9
      <3> QED
        BY <3>1, <3>2, <3>3, <3>4, <3>5
    <2>3. \A f \in Fields : held'[f] \in [kind : {f}, id : 1 .. issued'] \cup {Null}
      BY <2>2, <1>5, <1>9
    <2>4. Typed'
      BY <1>1, <1>2, <1>3, <1>9, <2>2, <2>3 DEF Typed, HandleOrNull
    <2>5. Handles(held)' = Range(new)
      <3>1. Handles(held)' = {held'[f] : f \in Fields} \ {Null}
        BY <2>2 DEF Handles, Range
      <3>2. Range(new) = {new[i] : i \in 1 .. 3}
        BY <1>5, <1>9 DEF Range
      <3> QED
        BY <3>1, <3>2, <2>2, <1>5, <1>6, <1>7, <1>9
    <2>6. NothingLeaks'
      BY <1>1, <1>3, <1>4, <1>9, <2>5 DEF NothingLeaks, Held, new
    <2>7. PipelineWhole'
      BY <2>2, FieldNames DEF PipelineWhole, PipelineFields, ContextKinds
    <2>8. Unborn'
      BY <1>1, <1>9 DEF Unborn
    <2> QED
      BY <2>4, <2>6, <2>7, <2>8 DEF IInv
  <1>10. CASE made # 3
    <2>1. /\ lifetime' = "failed" /\ lost' = Range(new) /\ live' = Range(new) /\ held' = held
      BY <1>1, <1>3, <1>4, <1>10 DEF new
    <2>2. \A h \in Range(new) : h.kind \in Kinds /\ h.id \in 1 .. issued'
      BY <1>1, <1>5, <1>6, <1>7, <1>10 DEF Range
    <2>3. Typed'
      BY <1>2, <1>3, <2>1, <2>2 DEF Typed, HandleOrNull
    <2>4. Handles(held)' = {}
      BY <1>4, <2>1
    <2>5. NothingLeaks' /\ Unborn'
      BY <1>4, <2>1, <2>4 DEF NothingLeaks, Held, Unborn
    <2>6. PipelineWhole'
      BY <2>1 DEF IInv, PipelineWhole
    <2> QED
      BY <2>3, <2>5, <2>6 DEF IInv
  <1> QED
    BY <1>9, <1>10

\* With no buffers no handle is theirs.
LEMMA NoBuffers == buffers = <<>> => AllBufferHandles = {}
  BY DEF AllBufferHandles

\* loadShader, resetShaderState: of the context nothing is destroyed, and what
\* the class keeps is what is left.
LEMMA ClearStep ==
    ASSUME IInv, Alive, buffers' = <<>>, pushRange' = 0, UNCHANGED <<lifetime, pushSize, lost>>,
           \/ issued' = issued /\ held' = Cleared /\ live' = live \ Destroyed
           \/ LET new == Issue(<<"shaderModule">>, 1)[1] IN
              /\ CanIssue(1) /\ issued' = issued + 1
              /\ held' = [Cleared EXCEPT !.shaderModule = new]
              /\ live' = (live \ Destroyed) \cup {new}
    PROVE  IInv'
  <1>1. /\ Typed /\ live \ Destroyed = HeldIn(ContextKinds) \cup lost
        /\ issued \in Nat /\ issued' \in 0 .. MaxHandles /\ issued <= issued'
    BY LeftByDestroy, ConstantsAssumption DEF IInv, Typed, CanIssue
  <1>2. Null \in Handle /\ Fields \subseteq Kinds
    BY DEF Null, Handle, Kinds
  <1>3. /\ Cleared \in [Fields -> Handle]
        /\ \A f \in ContextKinds : Cleared[f] = held[f]
        /\ \A f \in Fields \ ContextKinds : Cleared[f] = Null
    BY <1>1, <1>2, FieldNames DEF Cleared, Typed
  <1>4. PICK module \in HandleOrNull("shaderModule")' :
           /\ held' = [Cleared EXCEPT !.shaderModule = module]
           /\ live' = (live \ Destroyed) \cup ({module} \ {Null})
    <2>1. CASE issued' = issued /\ held' = Cleared /\ live' = live \ Destroyed
      <3>1. Cleared = [Cleared EXCEPT !.shaderModule = Null]
        BY <1>3, FieldNames DEF ContextKinds
      <3>2. /\ held' = [Cleared EXCEPT !.shaderModule = Null]
            /\ live' = (live \ Destroyed) \cup ({Null} \ {Null})
        BY <2>1, <3>1
      <3>3. Null \in HandleOrNull("shaderModule")'
        BY DEF HandleOrNull
      <3> QED
        BY <3>2, <3>3
    <2>2. CASE LET new == Issue(<<"shaderModule">>, 1)[1] IN
               /\ CanIssue(1) /\ issued' = issued + 1
               /\ held' = [Cleared EXCEPT !.shaderModule = new]
               /\ live' = (live \ Destroyed) \cup {new}
      <3> DEFINE new == Issue(<<"shaderModule">>, 1)[1]
      <3>1. new = [kind |-> "shaderModule", id |-> issued + 1]
        BY DEF Issue
      <3>2. new \in [kind : {"shaderModule"}, id : 1 .. issued'] /\ new # Null
        BY <3>1, <2>2, <1>1 DEF Null
      <3>3. new \in HandleOrNull("shaderModule")' /\ {new} \ {Null} = {new}
        BY <3>2 DEF HandleOrNull
      <3> HIDE DEF new
      <3> QED
        BY <3>3, <2>2 DEF new
    <2> QED
      BY <2>1, <2>2
  <1>5. /\ held' \in [Fields -> Handle]
        /\ \A f \in ContextKinds : held'[f] = held[f]
        /\ held'["shaderModule"] = module
        /\ \A f \in PipelineFields : held'[f] = Null
    <2>1. module \in Handle
      BY <1>1, <1>2, <1>4, FieldNames DEF HandleOrNull, Handle
    <2>2. "shaderModule" \notin ContextKinds /\ \A f \in PipelineFields : f \notin ContextKinds /\ f # "shaderModule"
      BY DEF ContextKinds, PipelineFields
    <2> QED
      BY <2>1, <2>2, <1>3, <1>4, FieldNames
  <1>6. \A f \in Fields : held'[f] \in HandleOrNull(f)'
    BY <1>1, <1>4, <1>5, FieldNames DEF Typed, HandleOrNull
  <1>7. Typed'
    BY <1>1, <1>5, <1>6, ConstantsAssumption DEF Typed
  <1>8. Held' = HeldIn(ContextKinds) \cup ({module} \ {Null})
    <2>1. AllBufferHandles' = {}
      BY DEF AllBufferHandles
    <2>2. Handles(held)' = {held'[f] : f \in Fields} \ {Null}
      BY <1>5 DEF Handles, Range
    <2> QED
      BY <2>1, <2>2, <1>5, FieldNames DEF Held, HeldIn
  <1>9. NothingLeaks'
    BY <1>1, <1>4, <1>8 DEF IInv, NothingLeaks, Alive
  <1>10. PipelineWhole' /\ Unborn'
    BY <1>5 DEF PipelineWhole, Unborn, Alive
  <1> QED
    BY <1>7, <1>9, <1>10 DEF IInv

\* The destructor leaves nothing.
LEMMA DestructStep == IInv /\ Destruct => IInv'
  <1> SUFFICES ASSUME IInv, Destruct PROVE IInv'
    OBVIOUS
  <1>1. Typed /\ live = Held \cup lost /\ \A h \in lost : h.kind = "commandBuffer"
    BY DEF IInv, NothingLeaks, Destruct, Alive
  <1>2. live' = {} /\ lost' = {}
    BY <1>1 DEF Destruct, Held, Destroyed
  <1>3. Null \in Handle /\ held' = [f \in Fields |-> Null]
    BY DEF Null, Handle, Destruct
  <1>4. Typed'
    BY <1>1, <1>2, <1>3, ConstantsAssumption DEF Typed, HandleOrNull, Destruct
  <1>5. Handles(held)' = {} /\ AllBufferHandles' = {}
    BY <1>3 DEF Handles, Range, AllBufferHandles, Destruct
  <1>6. NothingLeaks' /\ Unborn'
    BY <1>2, <1>5 DEF NothingLeaks, Held, Unborn, Destruct
  <1>7. PipelineWhole'
    BY <1>3, FieldNames DEF PipelineWhole
  <1> QED
    BY <1>4, <1>6, <1>7 DEF IInv

\* A new buffer has all its objects in its fields; a failed one leaves none.
LEMMA CreateBufferStep == ASSUME NEW b \in Bindings, IInv, CreateBuffer(b) PROVE IInv'
  <1>1. PICK deviceLocal \in BOOLEAN : \E made \in 0 .. (IF deviceLocal THEN 4 ELSE 2), complete \in BOOLEAN :
           LET needed == IF deviceLocal THEN 4 ELSE 2
               new == Issue(BufferFields, made)
               part(i) == IF i \in DOMAIN new THEN new[i] ELSE Null IN
           /\ CanIssue(needed)
           /\ complete => made = needed
           /\ issued' = issued + made
           /\ IF complete
              THEN /\ live' = live \cup Range(new)
                   /\ buffers' = Append(buffers,
                        [binding |-> b, deviceLocal |-> deviceLocal, buffer |-> part(1),
                         memory |-> part(2), staging |-> part(3), stagingMemory |-> part(4)])
              ELSE UNCHANGED <<live, buffers>>
    BY DEF CreateBuffer
  <1> DEFINE needed == IF deviceLocal THEN 4 ELSE 2
  <1>2. PICK made \in 0 .. needed, complete \in BOOLEAN :
           LET new == Issue(BufferFields, made)
               part(i) == IF i \in DOMAIN new THEN new[i] ELSE Null IN
           /\ CanIssue(needed)
           /\ complete => made = needed
           /\ issued' = issued + made
           /\ IF complete
              THEN /\ live' = live \cup Range(new)
                   /\ buffers' = Append(buffers,
                        [binding |-> b, deviceLocal |-> deviceLocal, buffer |-> part(1),
                         memory |-> part(2), staging |-> part(3), stagingMemory |-> part(4)])
              ELSE UNCHANGED <<live, buffers>>
    BY <1>1
  <1> DEFINE new == Issue(BufferFields, made)
             part(i) == IF i \in DOMAIN new THEN new[i] ELSE Null
             buffer == [binding |-> b, deviceLocal |-> deviceLocal, buffer |-> part(1),
                        memory |-> part(2), staging |-> part(3), stagingMemory |-> part(4)]
  <1>3. /\ Alive /\ UNCHANGED <<lifetime, held, descriptors, pushRange, pushSize, lost>>
        /\ Typed /\ live = Held \cup lost
    BY DEF CreateBuffer, IInv, NothingLeaks
  <1>4. issued \in Nat /\ issued' \in 0 .. MaxHandles /\ issued <= issued'
    BY <1>2, <1>3, ConstantsAssumption DEF Typed, CanIssue
  <1>5. /\ held' \in [Fields -> Handle] /\ \A f \in Fields : held'[f] \in HandleOrNull(f)'
        /\ \A h \in lost' : h.kind \in Kinds /\ h.id \in 1 .. issued'
        /\ \A i \in DOMAIN buffers : /\ \A f \in BufferKinds : buffers[i][f] \in HandleOrNull(f)'
                                     /\ buffers[i].buffer # Null
    BY <1>3, <1>4 DEF Typed, HandleOrNull
  <1>6. PipelineWhole' /\ Unborn'
    BY <1>3 DEF IInv, PipelineWhole, Unborn, Alive
  <1>7. Handles(held)' = Handles(held)
    BY <1>3
  <1>8. CASE ~complete
    <2>1. UNCHANGED <<live, buffers>>
      BY <1>2, <1>8
    <2>2. Typed'
      BY <2>1, <1>3, <1>4, <1>5 DEF Typed
    <2>3. NothingLeaks'
      BY <2>1, <1>3, <1>7 DEF IInv, NothingLeaks, Held, AllBufferHandles
    <2> QED
      BY <2>2, <2>3, <1>6 DEF IInv
  <1>9. CASE complete
    <2>1. made = needed /\ live' = live \cup Range(new) /\ buffers' = Append(buffers, buffer)
      BY <1>2, <1>9
    <2>2. /\ DOMAIN new = 1 .. made
          /\ \A i \in 1 .. made : /\ new[i] \in [kind : {BufferFields[i]}, id : 1 .. issued']
                                   /\ new[i] # Null
      <3>1. made \in Nat /\ issued' = issued + made
        BY <1>2
      <3>2. DOMAIN new = 1 .. made
        BY <3>1, <1>4, IssuedHandles
      <3>3. \A i \in 1 .. made : new[i] \in [kind : {BufferFields[i]}, id : 1 .. (issued + made)]
        BY <3>1, <1>4, IssuedHandles
      <3>4. \A i \in 1 .. made : new[i] # Null
        BY <3>3 DEF Null
      <3> QED
        BY <3>1, <3>2, <3>3, <3>4
    <2> HIDE DEF new
    <2>3. /\ part(1) = new[1] /\ part(2) = new[2]
          /\ deviceLocal => part(3) = new[3] /\ part(4) = new[4]
          /\ ~deviceLocal => part(3) = Null /\ part(4) = Null
      BY <2>1, <2>2
    <2>4. Range(new) = {part(1), part(2), part(3), part(4)} \ {Null}
      <3>1. CASE deviceLocal
        BY <3>1, <2>1, <2>2, <2>3 DEF Range
      <3>2. CASE ~deviceLocal
        BY <3>2, <2>1, <2>2, <2>3 DEF Range
      <3> QED
        BY <3>1, <3>2
    <2>5. /\ part(1) \in HandleOrNull("buffer")' /\ part(2) \in HandleOrNull("memory")'
          /\ part(3) \in HandleOrNull("staging")' /\ part(4) \in HandleOrNull("stagingMemory")'
          /\ part(1) # Null
      BY <2>1, <2>2, <2>3 DEF HandleOrNull, BufferFields
    <2> HIDE DEF part
    <2>6. /\ BufferKinds \subseteq Kinds /\ Null \in Handle
          /\ \A f \in BufferKinds : HandleOrNull(f)' \subseteq Handle
      BY <1>4, FieldNames DEF Kinds, Null, Handle, HandleOrNull
    <2>7. /\ buffer \in Buffer
          /\ \A f \in BufferKinds : buffer[f] \in HandleOrNull(f)'
          /\ buffer.buffer # Null
      BY <2>5, <2>6 DEF Buffer, BufferKinds
    <2>8. BufferHandles(buffer) = Range(new)
      BY <2>4, FieldNames DEF BufferHandles, BufferKinds
    <2> HIDE DEF buffer
    <2>9. /\ buffers' \in Seq(Buffer) /\ DOMAIN buffers' = DOMAIN buffers \cup {Len(buffers) + 1}
          /\ \A i \in DOMAIN buffers : buffers'[i] = buffers[i]
          /\ buffers'[Len(buffers) + 1] = buffer
      BY <2>1, <2>7, <1>3 DEF Typed
    <2>10. Typed'
      BY <2>7, <2>9, <1>3, <1>4, <1>5 DEF Typed
    <2>11. AllBufferHandles' = AllBufferHandles \cup Range(new)
      BY <2>8, <2>9 DEF AllBufferHandles
    <2>12. NothingLeaks'
      BY <2>1, <2>11, <1>3, <1>7 DEF IInv, NothingLeaks, Held, Alive
    <2> QED
      BY <2>10, <2>12, <1>6 DEF IInv
  <1> QED
    BY <1>8, <1>9

\* A submission leaves at most a command buffer out of reach.
LEMMA SubmitStep ==
    ASSUME IInv, Alive, Submit, UNCHANGED <<lifetime, held, descriptors, pushRange, buffers, pushSize>>
    PROVE  IInv'
  <1> DEFINE command == Issue(<<"commandBuffer">>, 1)[1]
  <1>1. command = [kind |-> "commandBuffer", id |-> issued + 1]
    BY DEF Issue
  <1> HIDE DEF command
  <1>2. /\ issued \in Nat /\ issued' \in 0 .. MaxHandles /\ issued <= issued'
        /\ \/ UNCHANGED <<live, lost>>
           \/ /\ live' = live \cup {command} /\ lost' = lost \cup {command}
              /\ issued' = issued + 1
    BY ConstantsAssumption DEF Submit, CanIssue, IInv, Typed, command
  <1>3. Typed /\ live = Held \cup lost /\ \A h \in lost : h.kind = "commandBuffer"
    BY DEF IInv, NothingLeaks, Alive
  <1>4. \A h \in lost' : h.kind = "commandBuffer" /\ h.id \in 1 .. issued'
    BY <1>1, <1>2, <1>3 DEF Typed
  <1>5. Typed'
    BY <1>2, <1>3, <1>4 DEF Typed, HandleOrNull, Kinds
  <1>6. Held' = Held
    BY DEF Held, AllBufferHandles
  <1>7. NothingLeaks'
    BY <1>2, <1>3, <1>4, <1>6 DEF NothingLeaks, Alive
  <1>8. PipelineWhole' /\ Unborn'
    BY DEF IInv, PipelineWhole, Unborn, Alive
  <1> QED
    BY <1>5, <1>7, <1>8 DEF IInv

\* setPushConstants drops all four objects of the pipeline.
LEMMA SetPushConstantsStep == ASSUME NEW size \in PushSizes, IInv, SetPushConstants(size) PROVE IInv'
  <1>1. /\ Alive /\ pushSize' = size /\ pushRange' = 0
        /\ live' = live \ {held[f] : f \in PipelineFields}
        /\ held' = [f \in Fields |-> IF f \in PipelineFields THEN Null ELSE held[f]]
        /\ UNCHANGED <<lifetime, buffers, lost, issued>> /\ Typed
    BY DEF SetPushConstants, IInv
  <1>2. live' = HeldIn(ContextKinds \cup {"shaderModule"}) \cup AllBufferHandles \cup lost
    BY <1>1, LeftWithoutPipeline
  <1>3. /\ \A f \in PipelineFields : f \in Fields /\ held'[f] = Null
        /\ \A f \in ContextKinds \cup {"shaderModule"} : f \in Fields /\ held'[f] = held[f]
        /\ DOMAIN held' = Fields
    <2>1. \A f \in ContextKinds \cup {"shaderModule"} : f \notin PipelineFields
      BY DEF ContextKinds, PipelineFields
    <2> QED
      BY <2>1, <1>1, FieldNames
  <1>4. Typed'
    <2>1. Null \in Handle
      BY DEF Null, Handle
    <2>2. held' \in [Fields -> Handle] /\ \A f \in Fields : held'[f] \in HandleOrNull(f)'
      BY <2>1, <1>1 DEF Typed, HandleOrNull
    <2> QED
      BY <2>2, <1>1, ConstantsAssumption DEF Typed, HandleOrNull
  <1>5. Handles(held)' = HeldIn(ContextKinds \cup {"shaderModule"})
    <2>1. Handles(held)' = {held'[f] : f \in Fields} \ {Null}
      BY <1>3 DEF Handles, Range
    <2> QED
      BY <2>1, <1>3, FieldNames DEF HeldIn
  <1>6. NothingLeaks'
    BY <1>1, <1>2, <1>5 DEF IInv, NothingLeaks, Held, AllBufferHandles, Alive
  <1>7. PipelineWhole' /\ Unborn'
    BY <1>1, <1>3 DEF PipelineWhole, Unborn, Alive
  <1> QED
    BY <1>4, <1>6, <1>7 DEF IInv

\* buildPipeline fills the four fields, which were empty together.
LEMMA DispatchBuildsStep == IInv /\ DispatchBuilds => IInv'
  <1> SUFFICES ASSUME IInv, DispatchBuilds PROVE IInv'
    OBVIOUS
  <1>1. /\ Alive /\ held.pipeline = Null /\ UNCHANGED <<lifetime, buffers, pushSize, lost>>
        /\ Typed /\ live = Held \cup lost
    BY DEF DispatchBuilds, FailedBuildPipeline, IInv, NothingLeaks
  <1>2. \A f \in PipelineFields : held[f] = Null
    BY <1>1 DEF IInv, PipelineWhole, PipelineFields
  <1>3. ASSUME NEW made \in 0 .. 4, FailedBuildPipeline(made) PROVE IInv'
    <2>1. /\ issued \in Nat /\ issued' \in 0 .. MaxHandles /\ issued <= issued'
          /\ UNCHANGED <<live, held, descriptors, pushRange, lost>>
      BY <1>1, <1>3, ConstantsAssumption DEF FailedBuildPipeline, CanIssue, Typed
    <2>2. Typed'
      BY <1>1, <2>1 DEF Typed, HandleOrNull
    <2>3. NothingLeaks' /\ PipelineWhole' /\ Unborn'
      BY <1>1, <2>1 DEF IInv, NothingLeaks, Held, AllBufferHandles, PipelineWhole, Unborn
    <2> QED
      BY <2>2, <2>3 DEF IInv
  <1>4. ASSUME BuildPipeline, UNCHANGED lost PROVE IInv'
    <2> DEFINE new == Issue(BuildOrder, 4)
    <2>1. /\ CanIssue(4) /\ issued' = issued + 4 /\ live' = live \cup Range(new)
          /\ held' = [f \in Fields |-> IF f \in PipelineFields THEN CHOOSE h \in Range(new) : h.kind = f
                                                               ELSE held[f]]
          /\ pushRange' = pushSize /\ pushSize <= MaxPushConstantsSize
      BY <1>4 DEF BuildPipeline, BuiltPipeline
    <2>2. issued \in Nat /\ issued' \in 0 .. MaxHandles /\ issued <= issued'
      BY <1>1, <2>1, ConstantsAssumption DEF Typed, CanIssue
    <2>3. DOMAIN new = 1 .. 4
      BY <2>2, IssuedHandles
    <2>4. \A i \in 1 .. 4 : new[i] \in [kind : {BuildOrder[i]}, id : 1 .. issued']
      BY <2>1, <2>2, IssuedHandles
    <2>5. \A i \in 1 .. 4 : new[i] # Null
      BY <2>4 DEF Null
    <2>6. /\ \A i, j \in 1 .. 4 : BuildOrder[i] = BuildOrder[j] => i = j
          /\ \A i \in 1 .. 4 : BuildOrder[i] \in PipelineFields
          /\ \A f \in PipelineFields : \E i \in 1 .. 4 : f = BuildOrder[i]
      BY DEF BuildOrder, PipelineFields
    <2>7. \A i \in 1 .. 4 : (CHOOSE h \in Range(new) : h.kind = BuildOrder[i]) = new[i]
      BY <2>2, <2>6, ChosenHandle
    <2> HIDE DEF new
    <2>8. /\ \A i \in 1 .. 4 : held'[BuildOrder[i]] = new[i]
          /\ \A f \in Fields \ PipelineFields : held'[f] = held[f]
          /\ DOMAIN held' = Fields
      BY <2>1, <2>6, <2>7, FieldNames
    <2>9. \A f \in PipelineFields : held'[f] \in [kind : {f}, id : 1 .. issued'] /\ held'[f] # Null
      BY <2>4, <2>5, <2>6, <2>8
    <2>10. Typed'
      <3>1. \A f \in Fields : held'[f] \in HandleOrNull(f)'
        BY <1>1, <2>2, <2>8, <2>9 DEF Typed, HandleOrNull
      <3>2. \A f \in Fields : HandleOrNull(f)' \subseteq Handle
        BY <2>2 DEF HandleOrNull, Handle, Kinds, Null
      <3>3. held' \in [Fields -> Handle]
        BY <2>1, <2>8, <3>1, <3>2
      <3> QED
        BY <1>1, <2>1, <2>2, <3>1, <3>3, ConstantsAssumption DEF Typed, HandleOrNull
    <2>11. Handles(held)' = Handles(held) \cup Range(new)
      <3>1. Handles(held)' = {held'[f] : f \in Fields} \ {Null}
        BY <2>8 DEF Handles, Range
      <3>2. Handles(held) = {held[f] : f \in Fields \ PipelineFields} \ {Null}
        BY <1>1, <1>2, KindsHeld
      <3>3. Range(new) = {held'[f] : f \in PipelineFields}
        BY <2>3, <2>6, <2>8 DEF Range
      <3>4. Null \notin Range(new)
        BY <2>3, <2>5 DEF Range
      <3> QED
        BY <2>8, <3>1, <3>2, <3>3, <3>4, FieldNames
    <2>12. NothingLeaks'
      BY <1>1, <2>1, <2>11 DEF IInv, NothingLeaks, Held, AllBufferHandles, Alive
    <2>13. PipelineWhole' /\ Unborn'
      BY <1>1, <2>9 DEF PipelineWhole, Unborn, Alive
    <2> QED
      BY <2>10, <2>12, <2>13 DEF IInv
  <1> QED
    BY <1>3, <1>4 DEF DispatchBuilds

\* Every call keeps the invariant, whichever of its Vulkan calls fails.
LEMMA NextIInv == IInv /\ [Next]_vars => IInv'
  <1> SUFFICES ASSUME IInv, [Next]_vars PROVE IInv'
    OBVIOUS
  <1>1. CASE Construct
    BY <1>1, ConstructStep
  <1>2. CASE Destruct
    BY <1>2, DestructStep
  <1>3. CASE LoadShader
    <2>1. PICK created \in BOOLEAN :
             LET new == Issue(<<"shaderModule">>, 1)[1] IN
             /\ live' = (live \ Destroyed) \cup (IF created THEN {new} ELSE {})
             /\ held' = IF created THEN [Cleared EXCEPT !.shaderModule = new] ELSE Cleared
             /\ issued' = IF created THEN issued + 1 ELSE issued
      BY <1>3 DEF LoadShader
    <2>2. /\ Alive /\ CanIssue(1) /\ buffers' = <<>> /\ pushRange' = 0
          /\ UNCHANGED <<lifetime, pushSize, lost>>
      BY <1>3 DEF LoadShader
    <2>3. CASE created
      BY <2>1, <2>2, <2>3, ClearStep
    <2>4. CASE ~created
      <3>1. live' = live \ Destroyed /\ held' = Cleared /\ issued' = issued
        BY <2>1, <2>4
      <3> QED
        BY <2>2, <3>1, ClearStep
    <2> QED
      BY <2>3, <2>4
  <1>4. CASE ResetShaderState
    BY <1>4, ClearStep DEF ResetShaderState
  <1>5. ASSUME NEW b \in Bindings, CreateBuffer(b) PROVE IInv'
    BY <1>5, CreateBufferStep
  <1>6. ASSUME NEW i \in 1 .. Cardinality(Bindings), TransferBuffer(i) PROVE IInv'
    BY <1>6, SubmitStep DEF TransferBuffer
  <1>7. ASSUME NEW size \in PushSizes, SetPushConstants(size) PROVE IInv'
    BY <1>7, SetPushConstantsStep
  <1>8. CASE DispatchBuilds
    BY <1>8, DispatchBuildsStep
  <1>9. CASE Dispatch
    BY <1>9, SubmitStep DEF Dispatch
  <1>10. CASE UNCHANGED vars
    <2>1. Typed' /\ Unborn' /\ PipelineWhole'
      BY <1>10 DEF vars, IInv, Typed, HandleOrNull, Unborn, PipelineWhole
    <2>2. NothingLeaks'
      BY <1>10 DEF vars, IInv, NothingLeaks, Held, AllBufferHandles
    <2> QED
      BY <2>1, <2>2 DEF IInv
  <1> QED
    BY <1>1, <1>2, <1>3, <1>4, <1>5, <1>6, <1>7, <1>8, <1>9, <1>10 DEF Next

\* The types of TypeOK follow.
LEMMA TypesFollow == IInv => TypeOK
  <1> SUFFICES ASSUME IInv PROVE TypeOK
    OBVIOUS
  <1>1. Typed /\ live = Held \cup lost
    BY DEF IInv, NothingLeaks
  <1>2. \A h \in Held : h.kind \in Kinds /\ h.id \in 1 .. issued
    BY <1>1, KindsHeld, FieldNames DEF Held, Kinds
  <1>3. \A f \in Fields : held[f].kind \in {f, "null"}
    BY <1>1 DEF Typed, HandleOrNull, Null
  <1> QED
    BY <1>1, <1>2, <1>3 DEF Typed, TypeOK

\* Fields and objects correspond in every reachable state.
THEOREM Invariance == Spec => []IInv
  BY InitIInv, NextIInv, PTL DEF Spec

\* Calls that fail one by one leak nothing but what is out of reach, and leave
\* no half-built pipeline.
THEOREM FailuresAreContained == Spec => []FailuresContained
  <1>1. IInv => FailuresContained
    BY TypesFollow DEF IInv, FailuresContained
  <1> QED
    BY <1>1, Invariance, PTL
-----------------------------------------------------------------------------
(* What a dispatch binds.  A descriptor set is written when its pipeline   *)
(* is built; it stays current because the calls that change what it was    *)
(* written from drop the pipeline, createBuffer excepted: a program that   *)
(* creates a buffer behind its first dispatch is outside of the theorem.   *)

\* createBuffer refuses a binding that has its buffer.
DistinctBindings ==
    \A i, j \in DOMAIN buffers : buffers[i].binding = buffers[j].binding => i = j

CurrentInv == DispatchesCurrent /\ DistinctBindings

\* With no pipeline nothing is bound.
LEMMA NoPipeline == held.pipeline = Null => DispatchesCurrent
  BY DEF DispatchesCurrent, LayoutCurrent, DescriptorsCurrent

\* A pipeline just built is bound to each buffer there is.
LEMMA BuildIsCurrent == ASSUME IInv, DistinctBindings, DispatchBuilds, BuildPipeline PROVE DispatchesCurrent'
  <1> DEFINE bufferOf(b) == CHOOSE x \in Range(buffers) : x.binding = b
  <1>1. /\ descriptors' = [b \in BoundBindings |-> bufferOf(b).buffer]
        /\ pushRange' = pushSize /\ pushSize' = pushSize /\ buffers' = buffers /\ live \subseteq live'
    BY DEF DispatchBuilds, BuildPipeline, BuiltPipeline
  <1>2. \A i \in DOMAIN buffers : bufferOf(buffers[i].binding) = buffers[i]
    <2> TAKE i \in DOMAIN buffers
    <2>1. buffers[i] \in Range(buffers)
      BY DEF Range
    <2>2. \A x \in Range(buffers) : x.binding = buffers[i].binding => x = buffers[i]
      BY DEF Range, DistinctBindings
    <2> QED
      BY <2>1, <2>2
  <1> HIDE DEF bufferOf
  <1>3. \A i \in DOMAIN buffers : buffers[i].buffer \in live
    <2>1. \A i \in DOMAIN buffers : buffers[i].buffer # Null
      BY DEF IInv, Typed
    <2>2. \A i \in DOMAIN buffers : buffers[i].buffer \in BufferHandles(buffers[i])
      BY <2>1, FieldNames DEF BufferHandles, BufferKinds
    <2> QED
      BY <2>2 DEF AllBufferHandles, Held, IInv, NothingLeaks
  <1>4. \A i \in DOMAIN buffers : /\ buffers[i].binding \in DOMAIN descriptors'
                                  /\ descriptors'[buffers[i].binding] = buffers[i].buffer
    BY <1>1, <1>2 DEF BoundBindings
  <1>5. Range(descriptors)' \subseteq live'
    <2>1. \A b \in BoundBindings : \E i \in DOMAIN buffers : descriptors'[b] = buffers[i].buffer
      BY <1>4 DEF BoundBindings
    <2>2. DOMAIN descriptors' = BoundBindings
      BY <1>1
    <2> QED
      BY <2>1, <2>2, <1>1, <1>3 DEF Range
  <1> QED
    BY <1>1, <1>4, <1>5 DEF DispatchesCurrent, LayoutCurrent, DescriptorsCurrent

\* A call that changes what a pipeline was made from drops the pipeline.
LEMMA NextCurrentInv ==
    ASSUME BuffersAfterDispatch = FALSE
    PROVE  IInv /\ IInv' /\ CurrentInv /\ [Next]_vars => CurrentInv'
  <1> SUFFICES ASSUME IInv, CurrentInv, [Next]_vars PROVE CurrentInv'
    OBVIOUS
  <1>fld. /\ "pipeline" \in PipelineFields /\ "pipeline" \in Fields /\ "pipeline" \notin Range(ContextFields)
          /\ "shaderModule" # "pipeline"
          /\ ~ \E i \in 1 .. 3 : ContextFields[i] = "pipeline"
    BY FieldNames DEF PipelineFields, ContextKinds, ContextFields
  <1>drop. ASSUME held'.pipeline = Null, buffers' = buffers \/ buffers' = <<>> PROVE CurrentInv'
    <2>1. DistinctBindings'
      BY <1>drop DEF CurrentInv, DistinctBindings
    <2>2. DispatchesCurrent'
      BY <1>drop DEF DispatchesCurrent, LayoutCurrent, DescriptorsCurrent
    <2> QED
      BY <2>1, <2>2 DEF CurrentInv
  <1>clr. Cleared.pipeline = Null /\ Cleared \in [Fields -> Handle]
    BY <1>fld DEF Cleared, IInv, Typed, Null, Handle
  <1>1. CASE Construct
    <2>1. held.pipeline = Null /\ UNCHANGED buffers
      BY <1>1, <1>fld DEF Construct, IInv, Unborn
    <2>2. held'.pipeline = held.pipeline
      BY <1>1, <1>fld DEF Construct
    <2> QED
      BY <2>1, <2>2, <1>drop
  <1>2. CASE Destruct
    BY <1>2, <1>drop, <1>fld DEF Destruct
  <1>3. CASE LoadShader
    <2>1. PICK module : held' = Cleared \/ held' = [Cleared EXCEPT !.shaderModule = module]
      BY <1>3 DEF LoadShader
    <2>2. held'.pipeline = Null
      BY <2>1, <1>clr, <1>fld
    <2> QED
      BY <2>2, <1>3, <1>drop DEF LoadShader
  <1>4. CASE ResetShaderState
    BY <1>4, <1>drop, <1>clr DEF ResetShaderState
  <1>5. ASSUME NEW b \in Bindings, CreateBuffer(b) PROVE CurrentInv'
    <2>1. held'.pipeline = Null /\ \A i \in DOMAIN buffers : buffers[i].binding # b
      BY <1>5 DEF CreateBuffer
    <2>2. \/ buffers' = buffers
          \/ \E x : buffers' = Append(buffers, x) /\ x.binding = b
      BY <1>5 DEF CreateBuffer
    <2>3. CASE buffers' = buffers
      BY <2>1, <2>3, <1>drop
    <2>4. ASSUME NEW x, buffers' = Append(buffers, x), x.binding = b PROVE DistinctBindings'
      <3>1. Len(buffers) \in Nat /\ DOMAIN buffers = 1 .. Len(buffers)
        BY DEF IInv, Typed
      <3>2. /\ DOMAIN buffers' = DOMAIN buffers \cup {Len(buffers) + 1}
            /\ \A i \in DOMAIN buffers : buffers'[i] = buffers[i]
            /\ buffers'[Len(buffers) + 1] = x
        BY <2>4, <3>1 DEF IInv, Typed
      <3> QED
        BY <2>1, <2>4, <3>2 DEF CurrentInv, DistinctBindings
    <2>5. DispatchesCurrent'
      BY <2>1 DEF DispatchesCurrent, LayoutCurrent, DescriptorsCurrent
    <2> QED
      BY <2>2, <2>3, <2>4, <2>5 DEF CurrentInv
  <1>sub. ASSUME Submit, UNCHANGED <<lifetime, held, descriptors, pushRange, buffers, pushSize>>
          PROVE  CurrentInv'
    <2>1. live \subseteq live'
      BY <1>sub DEF Submit
    <2> QED
      BY <2>1, <1>sub
      DEF CurrentInv, DispatchesCurrent, LayoutCurrent, DescriptorsCurrent, DistinctBindings
  <1>6. ASSUME NEW i \in 1 .. Cardinality(Bindings), TransferBuffer(i) PROVE CurrentInv'
    BY <1>6, <1>sub DEF TransferBuffer
  <1>7. ASSUME NEW size \in PushSizes, SetPushConstants(size) PROVE CurrentInv'
    BY <1>7, <1>drop, <1>fld DEF SetPushConstants
  <1>8. CASE DispatchBuilds
    <2>1. DistinctBindings'
      BY <1>8 DEF DispatchBuilds, CurrentInv, DistinctBindings
    <2>2. CASE BuildPipeline
      BY <1>8, <2>1, <2>2, BuildIsCurrent DEF CurrentInv
    <2>3. ASSUME NEW made \in 0 .. 4, FailedBuildPipeline(made) PROVE CurrentInv'
      BY <1>8, <2>3, <1>drop DEF DispatchBuilds, FailedBuildPipeline
    <2> QED
      BY <1>8, <2>2, <2>3 DEF DispatchBuilds
  <1>9. CASE Dispatch
    BY <1>9, <1>sub DEF Dispatch
  <1>10. CASE UNCHANGED vars
    BY <1>10 DEF vars, CurrentInv, DispatchesCurrent, LayoutCurrent, DescriptorsCurrent, DistinctBindings
  <1> QED
    BY <1>1, <1>2, <1>3, <1>4, <1>5, <1>6, <1>7, <1>8, <1>9, <1>10 DEF Next

\* A program that creates its buffers before its first dispatch always runs with
\* the layout and the descriptors of what the class holds.
THEOREM DispatchesAreCurrent ==
    ASSUME BuffersAfterDispatch = FALSE
    PROVE  Spec => []DispatchesCurrent
  <1>1. Init => CurrentInv
    BY FieldNames DEF Init, CurrentInv, DispatchesCurrent, LayoutCurrent, DescriptorsCurrent,
                      DistinctBindings, PipelineFields
  <1>2. CurrentInv => DispatchesCurrent
    BY DEF CurrentInv
  <1> QED
    BY <1>1, <1>2, NextCurrentInv, Invariance, PTL DEF Spec
=============================================================================
