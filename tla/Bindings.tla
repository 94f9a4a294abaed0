------------------------------ MODULE Bindings ------------------------------
(***************************************************************************)
(* From a parsed shader to the resources a dispatch reads and writes: the   *)
(* analysis of a module into a program with its bindings and requirements  *)
(* (src/api/program/analysis.rs), the runtime values bound to it           *)
(* (src/api/program/runtime_binding), admission on the created device, the *)
(* layouts and cached bind groups wgpu is given                            *)
(* (src/backend/wgpu/program_binding_realization) and the dispatch that is *)
(* encoded with its dynamic offsets (src/backend/wgpu/execution.rs).       *)
(*                                                                         *)
(* A module is what the WGSL front end makes of a source: needs, the       *)
(* optional features its text uses; globals, one per <<group, binding>>;   *)
(* entries; nonUniform, the arrays indexed non-uniformly anywhere. A size, *)
(* minimum or count that is missing is 0 and a missing choice "None"; an    *)
(* array sized at run time has count -1; other optional parts are sets of   *)
(* at most one element. Values and refinements the code sorts by key and   *)
(* refuses when a key repeats are sets. Offsets whose sum overflows end    *)
(* past every buffer.                                                      *)
(***************************************************************************)
EXTENDS Resources, Sequences
LOCAL INSTANCE FiniteSetsExt

CONSTANTS
    ProgramChoice,    \* the modules tried, each with selected entries and refinements
    ValuesTried(_),   \* the runtime values tried for a pipeline layout
    DispatchChoice,   \* the dispatch intents tried
    BoundBuffer,      \* the descriptor of each buffer
    BoundTexture,     \* the descriptor of each texture
    BoundSampler,     \* whether each sampler filters and compares
    BindingLimits,    \* binding facts of the admitted device and its adapter
    MaxSubmissions    \* bounds the operations submitted in a behaviour

VARIABLES
    program,      \* the admitted program of the pipeline in use, if any
    operation,    \* the values and intent of the compute operation made, if any
    bindGroups,   \* the bind groups realized so far, by request key
    dispatches,   \* the dispatches encoded
    submissions   \* how many operations were submitted

bindingVars == <<program, operation, bindGroups, dispatches, submissions>>

-----------------------------------------------------------------------------
(* Modules: resource classes and the features a module needs.              *)

BindingClass(g) ==
    CASE g.space = "Uniform"                                      -> "UniformBuffer"
      [] g.space = "Storage"                                      -> "StorageBuffer"
      [] g.space = "Handle" /\ g.kind = "Sampler"                 -> "Sampler"
      [] g.space = "Handle" /\ g.kind \in {"Sampled", "Depth"}    -> "SampledTexture"
      [] g.space = "Handle" /\ g.kind = "StorageTexture"          -> "StorageTexture"
      [] OTHER                                                    -> "None"

BufferClasses == {"UniformBuffer", "StorageBuffer"}

\* What the mere declaration of an array needs, used or not.
ArrayFeatures(class) ==
    CASE class = "UniformBuffer"               -> {"BufferBindingArray"}
      [] class = "StorageBuffer"               -> {"BufferBindingArray", "StorageResourceBindingArray"}
      [] class \in {"SampledTexture", "Sampler"} -> {"TextureBindingArray"}
      [] OTHER                                 -> {"TextureBindingArray", "StorageResourceBindingArray"}

\* What an array needs in a layout.
ArrayLayoutFeatures(class) ==
    ArrayFeatures(class) \cup When(class = "UniformBuffer", "UniformBufferBindingArray")

\* Uniform buffers are not indexed non-uniformly.
NonUniformFeature ==
    [StorageBuffer  |-> "StorageBufferBindingArrayNonUniformIndexing",
     SampledTexture |-> "TextureBindingArrayNonUniformIndexing",
     Sampler        |-> "TextureBindingArrayNonUniformIndexing",
     StorageTexture |-> "StorageTextureBindingArrayNonUniformIndexing"]

\* The front end is tried with every subset of the optional features, the first one counting least.
OptionalFeatures == {"ShaderF16", "DualSourceBlending", "ClipDistances", "PrimitiveIndex"}
ProfileRank(profile) ==
    LET Counting(feature, weight) == IF feature \in profile THEN weight ELSE 0
    IN  Counting("ShaderF16", 1) + Counting("DualSourceBlending", 2) + Counting("ClipDistances", 4)
        + Counting("PrimitiveIndex", 8)
ParsedProfile(m) ==
    LET parses == {p \in SUBSET OptionalFeatures : m.needs \subseteq p}
    IN  CHOOSE p \in parses : \A q \in parses : ProfileRank(p) <= ProfileRank(q)

ArrayKeys(m) == {k \in DOMAIN m.globals : m.globals[k].count # 0}

\* The view index is read only, by graphics stages, as one unsigned integer.
ValidViewIndex(e) ==
    \A v \in e.views : v.input /\ e.stage \in {"Vertex", "Fragment"} /\ v.type = <<"Uint", 1>>

ValidModule(m) ==
    /\ ~m.halfOverride
    /\ \A e \in m.entries : ValidViewIndex(e)
    /\ \A k \in ArrayKeys(m) : m.globals[k].count > 0 /\ BindingClass(m.globals[k]) # "None"
    /\ \A k \in m.nonUniform \cap ArrayKeys(m) : BindingClass(m.globals[k]) \in DOMAIN NonUniformFeature

\* Every entry point and every array counts, selected or not.
ModuleFeatures(m) ==
    ParsedProfile(m)
    \cup When(\E e \in m.entries : e.views # {}, "Multiview")
    \cup {NonUniformFeature[BindingClass(m.globals[k])] : k \in m.nonUniform \cap ArrayKeys(m)}
    \cup UNION {ArrayFeatures(BindingClass(m.globals[k])) : k \in ArrayKeys(m)}

-----------------------------------------------------------------------------
(* Programs: selected entries, effective bindings, requirements.           *)

EntriesOf(c) == {e \in c.module.entries : \E i \in DOMAIN c.names : e.name = c.names[i]}

ValidSelected(c) ==
    /\ c.names # <<>>
    /\ \A i, j \in DOMAIN c.names : c.names[i] = c.names[j] => i = j
    /\ \A i \in DOMAIN c.names : Cardinality({e \in c.module.entries : e.name = c.names[i]}) = 1

UsingStages(c, k) == {e.stage : e \in {x \in EntriesOf(c) : k \in x.uses}}
UsedKeys(c) == {k \in DOMAIN c.module.globals : UsingStages(c, k) # {}}

ViewDimensionOf(g) ==
    CASE ~g.arrayed           -> g.dimension
      [] g.dimension = "D2"   -> "D2Array"
      [] g.dimension = "Cube" -> "CubeArray"
      [] OTHER                -> "None"

StorageFormats ==
    {"Rgba8Unorm", "Rgba8Snorm", "Rgba8Uint", "Rgba8Sint", "Bgra8Unorm", "R32Uint", "R32Sint", "R32Float",
     "Rg32Uint", "Rg32Sint", "Rg32Float", "Rgba32Uint", "Rgba32Sint", "Rgba32Float", "Rgba16Uint", "Rgba16Sint",
     "Rgba16Float"}

SupportedGlobal(g) ==
    CASE BindingClass(g) = "SampledTexture" ->
            /\ g.kind = "Sampled" => g.scalar \in {"Float", "Sint", "Uint"}
            /\ ViewDimensionOf(g) # "None"
            /\ g.multi => ViewDimensionOf(g) = "D2"
      [] BindingClass(g) = "StorageTexture" ->
            /\ g.access # {} /\ g.format \in StorageFormats
            /\ ViewDimensionOf(g) \notin {"None", "Cube", "CubeArray"}
      [] OTHER -> BindingClass(g) # "None"

\* A storage buffer that is stored to is taken to be read as well.
AccessOf(g) ==
    IF g.access \cap {"Store", "Atomic"} = {} THEN "ReadOnly"
    ELSE IF g.space = "Storage" \/ "Load" \in g.access THEN "ReadWrite" ELSE "WriteOnly"

NoPolicy == [visibility |-> {}, dynamic |-> FALSE, minimum |-> 0, texture |-> "None", sampler |-> "None"]
PolicyOf(c, k) ==
    IF \E r \in c.refinements : r.key = k THEN (CHOOSE r \in c.refinements : r.key = k).policy ELSE NoPolicy

VisibilityOf(c, k) ==
    LET chosen == PolicyOf(c, k).visibility
    IN  IF chosen = {} THEN UsingStages(c, k) ELSE UNION chosen

\* A refinement says what the shader leaves open, and nothing else.
ValidPolicy(g, p) ==
    CASE BindingClass(g) \in BufferClasses ->
            /\ p.texture = "None" /\ p.sampler = "None"
            /\ p.minimum # 0 => p.minimum >= g.size
      [] BindingClass(g) = "SampledTexture" ->
            /\ ~p.dynamic /\ p.minimum = 0 /\ p.sampler = "None"
            /\ p.texture \in IF g.kind = "Sampled" /\ g.scalar = "Float" THEN {"FloatFilterable", "FloatUnfilterable"}
                             ELSE {"None"}
      [] BindingClass(g) = "Sampler" ->
            /\ ~p.dynamic /\ p.minimum = 0 /\ p.texture = "None"
            /\ p.sampler \in IF g.comparison THEN {"None"} ELSE {"Filtering", "NonFiltering"}
      [] OTHER -> p = [NoPolicy EXCEPT !.visibility = p.visibility]

SampleClassOf(g, p) ==
    IF g.kind = "Depth" THEN "Depth" ELSE IF g.scalar = "Float" THEN p.texture ELSE g.scalar

Declaration(c, k) ==
    LET g == c.module.globals[k] p == PolicyOf(c, k)
    IN  [key |-> k, visibility |-> VisibilityOf(c, k), class |-> BindingClass(g), access |-> AccessOf(g),
         sample |-> SampleClassOf(g, p), dimension |-> ViewDimensionOf(g), multi |-> g.multi, format |-> g.format,
         sampler |-> IF g.comparison THEN "Comparison" ELSE p.sampler,
         dynamic |-> p.dynamic, host |-> p.minimum, compiler |-> g.size, count |-> g.count]

ValidBinding(c, k) ==
    /\ SupportedGlobal(c.module.globals[k])
    /\ UsingStages(c, k) \subseteq VisibilityOf(c, k)
    /\ VisibilityOf(c, k) \subseteq {e.stage : e \in EntriesOf(c)}
    /\ ValidPolicy(c.module.globals[k], PolicyOf(c, k))

ValidProgram(c) ==
    /\ ValidModule(c.module) /\ ValidSelected(c)
    /\ \A r, s \in c.refinements : r.key = s.key => r = s
    /\ {r.key : r \in c.refinements} \subseteq UsedKeys(c)
    /\ \A k \in UsedKeys(c) : ValidBinding(c, k)

LayoutOf(c) == {Declaration(c, k) : k \in UsedKeys(c)}

ProgramFeatures(c) ==
    ModuleFeatures(c.module)
    \cup UNION {When(d.class = "StorageTexture", "StorageTexture") : d \in LayoutOf(c)}
    \cup UNION {ArrayLayoutFeatures(d.class) : d \in {x \in LayoutOf(c) : x.count # 0}}

ProgramOf(c) == [module |-> c.module, entries |-> EntriesOf(c), layout |-> LayoutOf(c), features |-> ProgramFeatures(c)]

GroupsOf(layout) == {d.key[1] : d \in layout}
GroupLayout(layout, n) == {d \in layout : d.key[1] = n}

-----------------------------------------------------------------------------
(* Runtime values.                                                         *)

ParentOf(v) == BoundTexture[v.texture]
FormatOf(v) == ViewFormat(v, ParentOf(v))

\* The offset a dynamic binding is used with, 0 for the others.
UseOffset(r) == IF r.dynamic = {} THEN 0 ELSE CHOOSE n \in r.dynamic : TRUE
EffectiveOffset(r) == r.offset + UseOffset(r)

ValidBufferValue(d, r) ==
    /\ IF d.class = "UniformBuffer" THEN "Uniform" \in BoundBuffer[r.buffer].usages
       ELSE "Storage" \in BoundBuffer[r.buffer].usages
    /\ d.dynamic = (r.dynamic # {})
    /\ EffectiveOffset(r) + r.size <= BoundBuffer[r.buffer].size
    /\ r.size >= d.compiler /\ r.size >= d.host

SampledAs(f, aspect, sample) ==
    CASE aspect = "Color"       -> Semantics[f].scalar = IF sample \in {"FloatFilterable", "FloatUnfilterable"}
                                                         THEN "Float" ELSE sample
      [] aspect = "DepthOnly"   -> sample = "Depth"
      [] aspect = "StencilOnly" -> sample = "Uint"
      [] OTHER                  -> FALSE

ValidSampledValue(d, v) ==
    /\ v.dimension = d.dimension
    /\ "Sampled" \in ParentOf(v).usages
    /\ d.multi = (ParentOf(v).samples > 1)
    /\ SampledAs(FormatOf(v), FormatAspect(FormatOf(v), v.aspect), d.sample)

StorageUsagesOf(access) ==
    (IF access # "WriteOnly" THEN {"StorageRead"} ELSE {}) \cup (IF access # "ReadOnly" THEN {"StorageWrite"} ELSE {})

ValidStorageValue(d, v) ==
    /\ v.dimension = d.dimension
    /\ FormatAspect(FormatOf(v), v.aspect) # "None"
    /\ ParentOf(v).samples = 1
    /\ FormatOf(v) = d.format
    /\ StorageUsagesOf(d.access) \subseteq ParentOf(v).usages

ValidSamplerValue(d, s) ==
    CASE d.sampler = "Comparison" -> s.comparison
      [] OTHER                    -> ~s.comparison /\ s.filtering = (d.sampler = "Filtering")

ValidResource(d, r) ==
    CASE d.class \in BufferClasses   -> r.kind = "Buffer" /\ ValidBufferValue(d, r)
      [] d.class = "SampledTexture"  -> r.kind = "View" /\ ValidSampledValue(d, r.view)
      [] d.class = "StorageTexture"  -> r.kind = "View" /\ ValidStorageValue(d, r.view)
      [] OTHER                       -> r.kind = "Sampler" /\ ValidSamplerValue(d, BoundSampler[r.sampler])

ResourcesAt(values, k) == (CHOOSE v \in values : v.key = k).resources

\* The bytes, or the planes of layers of levels, that a resource stands for.
CellsBound(r) ==
    CASE r.kind = "Buffer" -> {r.buffer} \X (EffectiveOffset(r) .. EffectiveOffset(r) + r.size - 1)
      [] r.kind = "View"   -> {r.view.texture} \X (r.view.mip .. r.view.mip + r.view.mips - 1)
                              \X (r.view.layer .. r.view.layer + r.view.layers - 1)
                              \X AspectPlanes(ParentOf(r.view).format, r.view.aspect)
      [] OTHER             -> {}

MayWrite(d) == d.class \in {"StorageBuffer", "StorageTexture"} /\ d.access # "ReadOnly"

\* Each resource of each declaration, at its place in the array.
Elements(layout, values) ==
    UNION {{<<<<d, i>>, ResourcesAt(values, d.key)[i]>> : i \in DOMAIN ResourcesAt(values, d.key)} : d \in layout}

NoWritableAlias(layout, values) ==
    \A a, b \in Elements(layout, values) :
        a[1] # b[1] /\ (MayWrite(a[1][1]) \/ MayWrite(b[1][1])) => CellsBound(a[2]) \cap CellsBound(b[2]) = {}

ValidValues(layout, values) ==
    /\ \A v, w \in values : v.key = w.key => v = w
    /\ {v.key : v \in values} = {d.key : d \in layout}
    /\ \A d \in layout : LET resources == ResourcesAt(values, d.key)
                         IN  /\ Len(resources) = IF d.count = 0 THEN 1 ELSE d.count
                             /\ \A i \in DOMAIN resources : ValidResource(d, resources[i])
    /\ NoWritableAlias(layout, values)

RecordBytes == 12

ValidDispatch(intent) ==
    intent.kind = "Indirect" =>
        /\ intent.offset % 4 = 0
        /\ "Indirect" \in BoundBuffer[intent.buffer].usages
        /\ intent.offset + RecordBytes <= BoundBuffer[intent.buffer].size

-----------------------------------------------------------------------------
(* Admission on the device.                                                *)

GroupSlots(layout) == IF layout = {} THEN 0 ELSE 1 + CHOOSE n \in GroupsOf(layout) : \A i \in GroupsOf(layout) : i <= n

DynamicCount(layout, class) == Cardinality({d \in layout : d.dynamic /\ d.class = class})

ArrayElements(layout, stage, classes) ==
    MapThenSumSet(LAMBDA d : d.count, {d \in layout : d.count # 0 /\ stage \in d.visibility /\ d.class \in classes})

AllClasses == BufferClasses \cup {"SampledTexture", "StorageTexture", "Sampler"}

AdmittedLayout(layout) ==
    /\ GroupSlots(layout) <= BindingLimits.groups
    /\ DynamicCount(layout, "UniformBuffer") <= BindingLimits.dynamicUniform
    /\ DynamicCount(layout, "StorageBuffer") <= BindingLimits.dynamicStorage
    /\ \A stage \in {"Vertex", "Fragment", "Compute"} :
          /\ ArrayElements(layout, stage, AllClasses) <= BindingLimits.elements
          /\ ArrayElements(layout, stage, {"Sampler"}) <= BindingLimits.samplers

\* The offsets are aligned one by one.
AlignedTo(r, alignment) == \A n \in {r.offset} \cup r.dynamic : n % alignment = 0

AdmittedResource(d, r) ==
    CASE d.class = "UniformBuffer"  -> AlignedTo(r, BindingLimits.uniformAlignment)
      [] d.class = "StorageBuffer"  -> AlignedTo(r, BindingLimits.storageAlignment)
      [] d.class = "SampledTexture" ->
            {FormatOf(r.view)} \X ({"Sampled"} \cup When(d.sample = "FloatFilterable", "Filterable"))
                \subseteq BindingLimits.formats
      [] d.class = "StorageTexture" -> {FormatOf(r.view)} \X StorageUsagesOf(d.access) \subseteq BindingLimits.formats
      [] OTHER                      -> TRUE

AdmittedDispatch(intent) ==
    intent.kind = "Direct" => \A i \in DOMAIN intent.size : intent.size[i] <= BindingLimits.workgroups

DispatchFeatures(p, intent) ==
    {"Compute"} \cup p.features \cup When(intent.kind = "Indirect", "IndirectExecution")

AdmittedOperation(p, o) ==
    /\ DispatchFeatures(p, o.intent) \subseteq Device.features
    /\ AdmittedLayout(p.layout)
    /\ \A x \in Elements(p.layout, o.values) : AdmittedResource(x[1][1], x[2])
    /\ AdmittedDispatch(o.intent)

-----------------------------------------------------------------------------
(* Realization: layouts at their positions, bind groups by static values.  *)

LowersGroupLayout(group) ==
    LET arrays == {d \in group : d.count # 0}
    IN  /\ arrays # {} => \A d \in group : ~d.dynamic /\ (d.class = "UniformBuffer" => d.count # 0)
        /\ \A d \in arrays : ArrayLayoutFeatures(d.class) \subseteq Device.features

\* The least size wgpu is told is the host's; the shader's own it knows.
NativeEntry(d) ==
    [visibility |-> d.visibility, class |-> d.class, count |-> d.count,
     dynamic |-> d.class \in BufferClasses /\ d.dynamic,
     type |-> CASE d.class \in BufferClasses  -> [readOnly |-> d.class = "UniformBuffer" \/ d.access = "ReadOnly",
                                                 minimum |-> d.host]
                [] d.class = "SampledTexture" -> [sample |-> d.sample, dimension |-> d.dimension, multi |-> d.multi]
                [] d.class = "StorageTexture" -> [access |-> d.access, format |-> d.format, dimension |-> d.dimension]
                [] OTHER                      -> [sampler |-> d.sampler]]

NativeGroupLayout(group) ==
    [b \in {d.key[2] : d \in group} |-> NativeEntry(CHOOSE d \in group : d.key[2] = b)]

\* Groups nobody declares below the highest get empty layouts.
PositionalLayouts(layout) ==
    [n \in 0 .. GroupSlots(layout) - 1 |-> NativeGroupLayout(GroupLayout(layout, n))]

StaticValueByHandle(v) ==
    [v EXCEPT !.resources = [i \in DOMAIN @ |->
        IF @[i].kind = "Buffer" THEN [@[i] EXCEPT !.dynamic = {}, !.offset = 0] ELSE @[i]]]

\* Dynamic offsets belong to the use of a bind group, not to the group.
StaticValue(v) ==
    [v EXCEPT !.resources = [i \in DOMAIN @ |->
        IF @[i].kind = "Buffer" THEN [@[i] EXCEPT !.dynamic = {}] ELSE @[i]]]

GroupValues(values, n) == {v \in values : v.key[1] = n}

GroupRequest(layout, values, n) ==
    <<GroupLayout(layout, n), {StaticValue(v) : v \in GroupValues(values, n)}>>

NativeResource(r) ==
    CASE r.kind = "Buffer" -> [kind |-> "Buffer", buffer |-> r.buffer, offset |-> r.offset, size |-> r.size]
      [] r.kind = "View"   -> [kind |-> "View", view |-> r.view]
      [] OTHER             -> [kind |-> "Sampler", sampler |-> r.sampler]

NativeGroup(values) ==
    [b \in {v.key[2] : v \in values} |->
        LET v == CHOOSE x \in values : x.key[2] = b
        IN  [i \in DOMAIN v.resources |-> NativeResource(v.resources[i])]]

RealizesResource(r) ==
    CASE r.kind = "Buffer" -> LowersBuffer(BoundBuffer[r.buffer])
      [] r.kind = "View"   -> LowersTexture(ParentOf(r.view)) /\ LowersView(r.view, ParentOf(r.view))
      [] OTHER             -> TRUE

\* The dynamic resources of a group, by binding and element.
DynamicPlaces(layout, values, n) ==
    UNION {{<<d.key[2], i>> : i \in DOMAIN ResourcesAt(values, d.key)} : d \in {x \in GroupLayout(layout, n) : x.dynamic}}

PlacesUpTo(places, at) == {p \in places : p[1] < at[1] \/ (p[1] = at[1] /\ p[2] <= at[2])}

\* The offsets of a group, in the order of its bindings and their elements.
DynamicOffsets(layout, values, n) ==
    LET places == DynamicPlaces(layout, values, n)
    IN  [i \in 1 .. Cardinality(places) |->
            LET at == CHOOSE p \in places : Cardinality(PlacesUpTo(places, p)) = i
            IN  UseOffset(ResourcesAt(values, <<n, at[1]>>)[at[2]])]

OffsetsEncodable(layout, values, n) ==
    LET offsets == DynamicOffsets(layout, values, n)
    IN  \A i \in DOMAIN offsets : offsets[i] <= BindingLimits.dynamicOffset

RealizesGroup(layout, values, n) ==
    \A x \in Elements(GroupLayout(layout, n), values) : RealizesResource(x[2])

\* What is realized before any bind group.
PreparesPipeline(p, o) ==
    /\ o.intent.kind = "Indirect" => LowersBuffer(BoundBuffer[o.intent.buffer])
    /\ \A n \in GroupsOf(p.layout) : LowersGroupLayout(GroupLayout(p.layout, n))

\* Groups are realized in order, each before its offsets are checked, and stay realized when a later step fails.
RealizedGroups(p, o) ==
    {n \in GroupsOf(p.layout) :
        /\ PreparesPipeline(p, o)
        /\ \A m \in GroupsOf(p.layout) : /\ m <= n => RealizesGroup(p.layout, o.values, m)
                                        /\ m < n  => OffsetsEncodable(p.layout, o.values, m)}

\* The bind groups afterwards: one realized for the same request is used again.
Realized(p, o) ==
    [request \in DOMAIN bindGroups \cup {GroupRequest(p.layout, o.values, n) : n \in RealizedGroups(p, o)} |->
        IF request \in DOMAIN bindGroups THEN bindGroups[request]
        ELSE NativeGroup(GroupValues(o.values,
                CHOOSE n \in GroupsOf(p.layout) : GroupRequest(p.layout, o.values, n) = request))]

PreparedOperation(p, o) ==
    /\ PreparesPipeline(p, o)
    /\ RealizedGroups(p, o) = GroupsOf(p.layout)
    /\ \A n \in GroupsOf(p.layout) : OffsetsEncodable(p.layout, o.values, n)

\* A direct dispatch of nothing is not encoded.
EncodesNothing(intent) == intent.kind = "Direct" /\ \E i \in DOMAIN intent.size : intent.size[i] = 0

EncodedDispatch(p, o) ==
    [program |-> p, values |-> o.values, intent |-> o.intent, layouts |-> PositionalLayouts(p.layout),
     sets |-> [n \in GroupsOf(p.layout) |->
                  [group |-> Realized(p, o)[GroupRequest(p.layout, o.values, n)],
                   offsets |-> DynamicOffsets(p.layout, o.values, n)]]]

-----------------------------------------------------------------------------
(* What the modules and values tried are: the front end resolves every     *)
(* global an entry uses and lets a shader store to storage buffers and      *)
(* storage textures alone; only arrays are indexed.                          *)

TypedModule(m) ==
    /\ DOMAIN m.globals \subseteq Nat \X Nat /\ IsFiniteSet(DOMAIN m.globals)
    /\ \A e \in m.entries : e.uses \subseteq DOMAIN m.globals
    /\ \A k \in DOMAIN m.globals : LET g == m.globals[k]
                                  IN  g.access \cap {"Store", "Atomic"} # {}
                                      => BindingClass(g) \in {"StorageBuffer", "StorageTexture"}
    /\ m.needs \subseteq OptionalFeatures
    /\ m.nonUniform \subseteq ArrayKeys(m)

TypedChoice(c) == TypedModule(c.module) /\ \A r \in c.refinements : r.policy.dynamic \in BOOLEAN

TypedResource(r) ==
    /\ r.kind \in {"Buffer", "View", "Sampler"}
    /\ r.kind = "Buffer" =>
          /\ r = [kind |-> r.kind, buffer |-> r.buffer, offset |-> r.offset, size |-> r.size, dynamic |-> r.dynamic]
          /\ {r.offset, r.size} \cup r.dynamic \subseteq Nat

TypedValue(v) ==
    /\ v = [key |-> v.key, resources |-> v.resources]
    /\ DOMAIN v.resources = 1 .. Len(v.resources) /\ Len(v.resources) \in Nat
    /\ \A i \in DOMAIN v.resources : TypedResource(v.resources[i])

ASSUME BindingConstants ==
    /\ MaxSubmissions \in Nat
    /\ {BindingLimits.uniformAlignment, BindingLimits.storageAlignment} \subseteq Nat \ {0}
    /\ \A c \in ProgramChoice :
          /\ TypedChoice(c)
          /\ ValidProgram(c) => \A values \in ValuesTried(LayoutOf(c)) : \A v \in values : TypedValue(v)

-----------------------------------------------------------------------------
(* A caller admits a program, makes compute operations and submits them.   *)

AdmitProgram(c) ==
    /\ operation = {}
    /\ ValidProgram(c) /\ \E e \in EntriesOf(c) : e.stage = "Compute"
    /\ program' = {ProgramOf(c)}
    /\ UNCHANGED <<operation, bindGroups, dispatches, submissions>>

MakeOperation(values, intent) ==
    /\ operation = {}
    /\ \E p \in program : ValidValues(p.layout, values)
    /\ ValidDispatch(intent)
    /\ operation' = {[values |-> values, intent |-> intent]}
    /\ UNCHANGED <<program, bindGroups, dispatches, submissions>>

\* What the device admits is prepared; what is prepared whole is encoded.
SubmitOperation ==
    \E p \in program, o \in operation :
        /\ operation' = {} /\ submissions' = submissions + 1
        /\ bindGroups' = IF AdmittedOperation(p, o) THEN Realized(p, o) ELSE bindGroups
        /\ dispatches' = IF AdmittedOperation(p, o) /\ PreparedOperation(p, o) /\ ~EncodesNothing(o.intent)
                         THEN Append(dispatches, EncodedDispatch(p, o)) ELSE dispatches
        /\ UNCHANGED program

BindingInit == program = {} /\ operation = {} /\ bindGroups = << >> /\ dispatches = <<>> /\ submissions = 0

BindingNext ==
    /\ submissions < MaxSubmissions
    /\ \/ \E c \in ProgramChoice : AdmitProgram(c)
       \/ \E p \in program : \E values \in ValuesTried(p.layout), intent \in DispatchChoice : MakeOperation(values, intent)
       \/ SubmitOperation

BindingSpec == BindingInit /\ [][BindingNext]_bindingVars

-----------------------------------------------------------------------------
(* Properties.                                                             *)

\* The device gives the offsets passed with a group to its dynamic bindings in ascending order.
DeviceOffset(x, n, b) ==
    LET dynamic == {i \in DOMAIN x.layouts[n] : x.layouts[n][i].dynamic}
    IN  IF b \in dynamic THEN x.sets[n].offsets[Cardinality({i \in dynamic : i <= b})] ELSE 0

\* What the shader reaches at one element of a binding.
Reached(x, k, i) ==
    LET r == x.sets[k[1]].group[k[2]][i]
    IN  IF r.kind = "Buffer" THEN [r EXCEPT !.offset = @ + DeviceOffset(x, k[1], k[2])] ELSE r

\* What the caller bound there.
Meaning(r) == IF r.kind = "Buffer" THEN [NativeResource(r) EXCEPT !.offset = EffectiveOffset(r)] ELSE NativeResource(r)

InsideBuffer(r, size, alignment) ==
    r.kind = "Buffer" => /\ r.offset % alignment = 0 /\ r.offset + r.size <= BoundBuffer[r.buffer].size
                         /\ r.size >= size

CellsReached(r) ==
    IF r.kind = "Buffer" THEN {r.buffer} \X (r.offset .. r.offset + r.size - 1) ELSE CellsBound(r)

\* Whether a dispatch reaches what its shader and caller mean, and nothing else.
DispatchIsBound(x) ==
    LET globals == x.program.module.globals
        used == UNION {e.uses : e \in x.program.entries}
        places == UNION {{<<k, i>> : i \in DOMAIN x.sets[k[1]].group[k[2]]} : k \in used}
        stores(k) == globals[k].access \cap {"Store", "Atomic"} # {}
    IN  /\ \A e \in x.program.entries : \A k \in e.uses :
              LET entry == x.layouts[k[1]][k[2]]
              IN  /\ e.stage \in entry.visibility
                  /\ entry.count = globals[k].count
                  /\ entry.class \in BufferClasses /\ entry.type.readOnly => ~stores(k)
        /\ \A n \in DOMAIN x.layouts \ DOMAIN x.sets : DOMAIN x.layouts[n] = {}
        /\ \A at \in places :
              /\ Reached(x, at[1], at[2]) = Meaning(ResourcesAt(x.values, at[1])[at[2]])
              /\ InsideBuffer(Reached(x, at[1], at[2]), globals[at[1]].size,
                     IF globals[at[1]].space = "Uniform" THEN BindingLimits.uniformAlignment
                     ELSE BindingLimits.storageAlignment)
        /\ \A a, b \in places :
              a # b /\ (stores(a[1]) \/ stores(b[1]))
              => CellsReached(Reached(x, a[1], a[2])) \cap CellsReached(Reached(x, b[1], b[2])) = {}
        /\ x.program.module.needs \cup {NonUniformFeature[BindingClass(globals[k])] : k \in x.program.module.nonUniform}
              \subseteq Device.features
        /\ \A k \in ArrayKeys(x.program.module) : ArrayFeatures(BindingClass(globals[k])) \subseteq Device.features

\* Every global a selected entry uses lies in the layout at its own position, visible to the stages that
\* use it and read-only only where the shader stores nothing; what the device reaches there is, element by
\* element, the range or view the caller bound, long enough for the shader, inside its buffer and aligned;
\* no two elements share a byte or a texel one of them is written through; and the device has every
\* feature the shader and its arrays need (analyze_program, GpuRuntimeBindingSet::new,
\* realize_validated_bind_group and checked_dynamic_offsets taken together, with bind groups reused).
BoundAsDeclared == \A j \in DOMAIN dispatches : DispatchIsBound(dispatches[j])
=============================================================================
