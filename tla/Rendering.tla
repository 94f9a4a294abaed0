----------------------------- MODULE Rendering -----------------------------
(***************************************************************************)
(* One render pass, from pipeline state and draws to the native pass wgpu  *)
(* encodes: the pipeline contract (src/api/program/pipeline), attachments  *)
(* and draws (src/api/work, src/api/render_execution.rs), the usage scope  *)
(* of the pass (src/api/render_pass_usage.rs), admission on the created    *)
(* device, and the lowering of pipelines and passes                        *)
(* (src/backend/wgpu/pipeline_realization, execution/render.rs).           *)
(*                                                                         *)
(* An optional part is a set of at most one element. A list the code sorts *)
(* by a key and refuses when a key repeats is a set. A vertex format is    *)
(* its kind, the bits of a component and the number of components.         *)
(***************************************************************************)
EXTENDS Resources, Sequences

CONSTANTS
    Canvas,           \* the descriptor of each texture
    Stream,           \* the size and usages of each buffer
    DrawChoice,       \* the draws a caller tries, each with its pipeline
    ColorChoice,      \* the lists of color attachments tried
    DepthChoice,      \* the optional depth/stencil attachments tried
    TimestampChoice,  \* the optional timestamp writes tried
    MaxDraws          \* bounds the draws of a pass


VARIABLES
    phase,     \* "recording", "composed", "refused" or "encoded"
    draws,     \* the draws made so far
    pass,      \* the accepted render operation
    native     \* the pass as it reaches wgpu

renderVars == <<phase, draws, pass, native>>

-----------------------------------------------------------------------------
(* Vertex input.                                                           *)

VertexFormat ==
    ({"Uint", "Sint", "Unorm", "Snorm"} \X {8, 16} \X {1, 2, 4}) \cup ({"Float"} \X {16} \X {1, 2, 4})
    \cup ({"Float", "Uint", "Sint"} \X {32} \X (1 .. 4))
    \cup {<<"Unorm10_10_10_2", 8, 4>>, <<"Unorm8x4Bgra", 8, 4>>}

StrideAlignment == 4

VertexSize(f)      == (f[2] * f[3]) \div 8
VertexAlignment(f) == IF VertexSize(f) < StrideAlignment THEN VertexSize(f) ELSE StrideAlignment

\* The shader type a format feeds: normalized and packed formats arrive as floats.
FetchedType(f) == <<IF f[1] \in {"Uint", "Sint"} THEN f[1] ELSE "Float", f[3]>>

DistinctLocations(attributes) == \A a, b \in attributes : a.location = b.location => a = b

ValidVertexLayout(l) ==
    /\ l.stride > 0 /\ l.stride % StrideAlignment = 0
    /\ l.attributes # {} /\ DistinctLocations(l.attributes)
    /\ \A a \in l.attributes : /\ a.offset % VertexAlignment(a.format) = 0
                               /\ a.offset + VertexSize(a.format) <= l.stride

AllAttributes(layouts) == UNION {l.attributes : l \in layouts}

ValidVertexInput(layouts) ==
    /\ \A l \in layouts : ValidVertexLayout(l)
    /\ \A k, l \in layouts : k.slot = l.slot => k = l
    /\ \A k, l \in layouts : \A a \in k.attributes, b \in l.attributes :
          a.location = b.location => k = l

-----------------------------------------------------------------------------
(* Render state.                                                           *)

SecondaryFactors == {"Src1", "OneMinusSrc1", "Src1Alpha", "OneMinusSrc1Alpha"}

ValidBlendPart(c) == c.operation \in {"Min", "Max"} => c.source = "One" /\ c.destination = "One"

ValidTarget(t) ==
    /\ ~IsDepth(t.format) /\ ~IsStencil(t.format)
    /\ t.blend # {} => Semantics[t.format].scalar \notin {"Sint", "Uint"}
    /\ \A b \in t.blend : ValidBlendPart(b.color) /\ ValidBlendPart(b.alpha)

DualSource(targets) ==
    \E i \in DOMAIN targets : \E b \in targets[i].blend :
        {b.color.source, b.color.destination, b.alpha.source, b.alpha.destination} \cap SecondaryFactors # {}

TargetType(t) == <<Semantics[t.format].scalar, Semantics[t.format].components>>

ValidDepthStencil(s) ==
    /\ s.depth # {} \/ s.stencil # {}
    /\ s.depth # {} => IsDepth(s.format)
    /\ s.stencil # {} => IsStencil(s.format)

\* A stencil state writes only through its mask and only when some outcome does not keep the value.
MayWriteStencil(s) ==
    s.mask # 0 /\ \E face \in {s.front, s.back} : \E outcome \in DOMAIN face : face[outcome] # "Keep"

ValidMultisample(s) ==
    /\ s.samples \in SampleCounts
    /\ s.sampleMask < 2^s.samples
    /\ s.alphaToCoverage => s.samples > 1

Targets(s) == IF s.output = {} THEN <<>> ELSE CHOOSE targets \in s.output : TRUE

Biased(s) == s.bias.constant # 0 \/ s.bias.slope # 0 \/ s.bias.clamp # 0

ValidState(s) ==
    /\ ValidVertexInput(s.vertex)
    /\ \A i \in DOMAIN Targets(s) : ValidTarget(Targets(s)[i])
    /\ \A z \in s.depthStencil : ValidDepthStencil(z)
    /\ s.strip # "None" => s.topology \in {"TriangleStrip", "LineStrip"}
    /\ ValidMultisample(s)
    /\ s.views # 0 => s.views \in 2 .. 31
    /\ Targets(s) # <<>> \/ s.depthStencil # {}
    /\ DualSource(Targets(s)) => Len(Targets(s)) = 1
    /\ (\E z \in s.depthStencil : Biased(z)) => s.topology \in {"TriangleList", "TriangleStrip"}
    /\ s.alphaToCoverage => Targets(s) # <<>> /\ Semantics[Targets(s)[1].format].alpha

-----------------------------------------------------------------------------
(* Pipelines: state joined to the entry points of an admitted program.     *)

Interface(s) == {<<a.location, FetchedType(a.format)>> : a \in AllAttributes(s.vertex)}

Outputs(targets) ==
    IF DualSource(targets)
    THEN {<<0, source, TargetType(targets[1])>> : source \in {"Primary", "Secondary"}}
    ELSE {<<i - 1, "Only", TargetType(targets[i])>> : i \in DOMAIN targets}

ValidPipeline(p) ==
    /\ ValidState(p.state)
    /\ p.vertex \in DOMAIN p.program.vertex
    /\ p.fragment # {} <=> p.state.output # {}
    /\ p.fragment \subseteq DOMAIN p.program.fragment
    /\ p.state.views = 0 => /\ ~p.program.vertex[p.vertex].viewIndex
                            /\ \A f \in p.fragment : ~p.program.fragment[f].viewIndex
    /\ p.program.vertex[p.vertex].inputs = Interface(p.state)
    /\ \A f \in p.fragment : p.program.fragment[f].outputs = Outputs(Targets(p.state))

PipelineRequirements(p) ==
    {"RenderPipeline"} \cup p.program.requirements
    \cup When(p.state.clip = "Unclipped", "DepthClipControl")
    \cup When(p.state.views # 0, "Multiview")
    \cup When(DualSource(Targets(p.state)), "DualSourceBlending")
    \cup When(p.state.depthStencil # {}, "DepthAttachment")
    \cup When(\E z \in p.state.depthStencil : z.bias.clamp # 0, "DepthBiasClamp")

RequiredRoles(s) ==
    (UNION {{<<Targets(s)[i].format, "ColorAttachment">>}
            \cup When(Targets(s)[i].blend # {}, <<Targets(s)[i].format, "Blendable">>) : i \in DOMAIN Targets(s)})
    \cup {<<z.format, "DepthStencilAttachment">> : z \in s.depthStencil}

\* One past the highest slot: vertex buffers are positional, so gaps count.
Positions(slots) == IF slots = {} THEN 0 ELSE 1 + CHOOSE n \in slots : \A m \in slots : m <= n
Slots(parts)     == {x.slot : x \in parts}

SupportsTarget(format, samples) ==
    "RENDER_ATTACHMENT" \in Device.formatUsages[format] /\ samples \in Device.samples[format]

LowersPipeline(p) ==
    LET s == p.state
    IN  /\ RequiredRoles(s) \subseteq Device.roles
        /\ PipelineRequirements(p) \subseteq Device.features
        /\ s.views <= Device.maxViews
        /\ Positions(Slots(s.vertex)) <= Device.maxVertexBuffers
        /\ Cardinality(AllAttributes(s.vertex)) <= Device.maxAttributes
        /\ \A l \in s.vertex : l.stride <= Device.maxStride
        /\ Len(Targets(s)) <= Device.maxColors
        /\ \A i \in DOMAIN Targets(s) : /\ SupportsTarget(Targets(s)[i].format, s.samples)
                                        /\ Targets(s)[i].blend # {} => Targets(s)[i].format \in Device.blendable
        /\ \A z \in s.depthStencil : SupportsTarget(z.format, s.samples)

\* Undeclared positions below the highest slot become empty layouts.
NativeLayouts(s) ==
    [n \in 0 .. Positions(Slots(s.vertex)) - 1 |->
        IF n \in Slots(s.vertex) THEN CHOOSE l \in s.vertex : l.slot = n
        ELSE [slot |-> n, stride |-> 0, step |-> "Vertex", attributes |-> {}]]

-----------------------------------------------------------------------------
(* Draws.                                                                  *)

RangeEnd(range) == range.first + range.count

ValidDrawRange(range) == range.count > 0

ValidSlice(slice, usage) ==
    LET d == Stream[slice.buffer]
    IN  slice.size > 0 /\ slice.offset + slice.size <= d.size /\ usage \in d.usages

IndexSize(format) == IF format = "Uint16" THEN 2 ELSE 4

ValidIndexBinding(x) ==
    /\ x.offset % IndexSize(x.format) = 0 /\ x.size % IndexSize(x.format) = 0
    /\ ValidSlice(x, "Index")

IsIndexed(intent) == intent.kind = "Indexed" \/ (intent.kind = "Indirect" /\ intent.indexed)

RecordSize(intent) == IF intent.indexed THEN 20 ELSE 16

ValidIntent(intent) ==
    IF intent.kind = "Indirect"
    THEN /\ intent.record.offset % 4 = 0 /\ intent.record.size = RecordSize(intent)
         /\ ValidSlice(intent.record, "Indirect")
    ELSE ValidDrawRange(intent.elements) /\ ValidDrawRange(intent.instances)

\* Runtime values read on the device bound the fetches of indexed and indirect draws, so of an indexed
\* draw only what steps per instance has a known end, and of an indirect draw nothing has.
KnownEnds(l, intent) ==
    IF intent.kind = "Indirect" THEN {}
    ELSE IF l.step = "Instance" THEN {RangeEnd(intent.instances)}
    ELSE IF intent.kind = "Direct" THEN {RangeEnd(intent.elements)}
    ELSE {}

AttributeEnd(l) == CHOOSE n \in {a.offset + VertexSize(a.format) : a \in l.attributes} :
                      \A a \in l.attributes : a.offset + VertexSize(a.format) <= n

\* The last element is counted only up to its start.
SteppedSpanShort(l, end) == IF end = 0 THEN 0 ELSE (end - 1) * l.stride

SteppedSpan(l, end) == IF end = 0 THEN 0 ELSE (end - 1) * l.stride + AttributeEnd(l)

ValidViewport(v) ==
    /\ v.x >= 0 /\ v.y >= 0 /\ v.width >= 0 /\ v.height >= 0
    /\ v.near >= 0 /\ v.far <= 1 /\ v.near <= v.far

ValidDraw(d) ==
    LET layouts == d.pipeline.state.vertex
    IN  /\ ValidPipeline(d.pipeline)
        /\ \A b \in d.vertex : ValidSlice(b, "Vertex")
        /\ \A x \in d.index : ValidIndexBinding(x)
        /\ ValidIntent(d.intent) /\ ValidViewport(d.viewport)
        /\ d.bound.layout = d.pipeline.program.layout
        /\ \A b, c \in d.vertex : b.slot = c.slot => b = c
        /\ Slots(layouts) = Slots(d.vertex)
        /\ d.index # {} <=> IsIndexed(d.intent)
        /\ d.intent.kind = "Indexed" =>
              \A x \in d.index : RangeEnd(d.intent.elements) * IndexSize(x.format) <= x.size
        /\ \A l \in layouts, b \in d.vertex : l.slot = b.slot =>
              \A end \in KnownEnds(l, d.intent) : SteppedSpan(l, end) <= b.size

\* One use of a resource in the pass: a buffer is used whole, a texture by level, layer and plane.
BufferUse(kind, slice) ==
    [kind |-> kind, on |-> <<"buffer", slice.buffer>>, mips |-> {0}, layers |-> {0}, planes |-> {"All"}]

DrawUses(d) ==
    d.bound.uses \cup {BufferUse("VertexRead", b) : b \in d.vertex}
    \cup {BufferUse("IndexRead", x) : x \in d.index}
    \cup (IF d.intent.kind = "Indirect" THEN {BufferUse("IndirectRead", d.intent.record)} ELSE {})

-----------------------------------------------------------------------------
(* Attachments.                                                            *)

Parent(v)    == Canvas[v.texture]
EffectiveFormat(v) == ViewFormat(v, Parent(v))
Layered(v)   == v.dimension = "D2Array"
Transient(v) == "TransientAttachment" \in Parent(v).usages

ValidAttachmentView(v) ==
    /\ ValidView(v, Parent(v))
    /\ v.mips = 1
    /\ \/ v.dimension = "D2" /\ v.layers = 1
       \/ Layered(v) /\ v.layers \in 2 .. 31 /\ ~Transient(v)

ViewUse(kind, v, aspect) ==
    LET f == Parent(v).format
    IN  [kind |-> kind, on |-> <<"texture", v.texture>>, mips |-> v.mip .. v.mip + v.mips - 1,
         layers |-> v.layer .. v.layer + v.layers - 1, planes |-> AspectPlanes(f, v.aspect) \cap AspectPlanes(f, aspect)]

ColorUsable(v) == /\ "ColorAttachment" \in Parent(v).usages
                  /\ ~IsDepth(Parent(v).format) /\ ~IsStencil(Parent(v).format)

ValidResolve(source, target) ==
    LET from == Parent(source) to == Parent(target)
    IN  /\ ValidAttachmentView(target) /\ ColorUsable(target) /\ ~Transient(target)
        /\ from.samples > 1 /\ to.samples = 1
        /\ EffectiveFormat(source) = EffectiveFormat(target)
        /\ from.dimension = to.dimension /\ source.dimension = target.dimension
        /\ source.layers = target.layers
        /\ MipExtent(from, source.mip).width = MipExtent(to, target.mip).width
        /\ MipExtent(from, source.mip).height = MipExtent(to, target.mip).height
        /\ source.texture # target.texture

ValidColor(c) ==
    /\ ValidAttachmentView(c.view) /\ ColorUsable(c.view)
    /\ Layered(c.view) => c.store = "Store"
    /\ Transient(c.view) => c.load = "Clear" /\ c.store = "Discard"
    /\ \A target \in c.resolve : ValidResolve(c.view, target)

\* A read-only aspect can be neither cleared nor discarded.
ValidAspect(state) == state.access = "ReadOnly" => state.load = "Load" /\ state.store = "Store"

ValidDepthAttachment(z) ==
    /\ ValidAttachmentView(z.view) /\ "DepthStencilAttachment" \in Parent(z.view).usages
    /\ z.depth \cup z.stencil # {}
    /\ \A state \in z.depth \cup z.stencil :
          /\ ValidAspect(state)
          /\ Layered(z.view) /\ state.access = "ReadWrite" => state.store = "Store"
          /\ Transient(z.view) => state.access = "ReadWrite" /\ state.load = "Clear" /\ state.store = "Discard"
    /\ z.depth # {} => /\ IsDepth(EffectiveFormat(z.view))
                       /\ ViewUse("", z.view, "DepthOnly").planes # {}
    /\ z.stencil # {} => /\ IsStencil(EffectiveFormat(z.view))
                         /\ ViewUse("", z.view, "StencilOnly").planes # {}
    /\ Transient(z.view) => /\ z.depth # {} <=> IsDepth(EffectiveFormat(z.view))
                            /\ z.stencil # {} <=> IsStencil(EffectiveFormat(z.view))

ValidTimestamps(t) ==
    /\ t.begin \cup t.end # {} /\ t.begin \cap t.end = {}
    /\ \A slot \in t.begin \cup t.end : slot < t.count

ColorUses(c) ==
    {ViewUse("ColorAttachment", c.view, c.view.aspect)}
    \cup {ViewUse("Resolve", target, target.aspect) : target \in c.resolve}

DepthKind == [ReadOnly |-> "DepthReadOnly", ReadWrite |-> "DepthReadWrite"]

DepthUses(z) ==
    {ViewUse(DepthKind[state.access], z.view, "DepthOnly") : state \in z.depth}
    \cup {ViewUse(DepthKind[state.access], z.view, "StencilOnly") : state \in z.stencil}

-----------------------------------------------------------------------------
(* The pass: signature, draw compatibility, usage scope.                   *)

Fact(v) ==
    LET level == MipExtent(Parent(v), v.mip)
    IN  [width |-> level.width, height |-> level.height, samples |-> Parent(v).samples,
         views |-> IF Layered(v) THEN v.layers ELSE 0]

Views(p) == {p.colors[i].view : i \in DOMAIN p.colors} \cup {z.view : z \in p.depth}

\* Defined once every attachment of the pass has the same facts.
Signature(p) == Fact(CHOOSE v \in Views(p) : TRUE)

MatchesPass(p, d) ==
    LET s == d.pipeline.state signature == Signature(p)
    IN  /\ [i \in DOMAIN Targets(s) |-> Targets(s)[i].format] = [i \in DOMAIN p.colors |-> EffectiveFormat(p.colors[i].view)]
        /\ {z.format : z \in s.depthStencil} = {EffectiveFormat(z.view) : z \in p.depth}
        /\ s.samples = signature.samples /\ s.views = signature.views
        /\ d.scissor.x + d.scissor.width <= signature.width
        /\ d.scissor.y + d.scissor.height <= signature.height

\* The pipeline uses an aspect only where the attachment states it, and writes no read-only one.
DepthParity(p, d) ==
    \A z \in p.depth, s \in d.pipeline.state.depthStencil :
        /\ s.depth # {} => z.depth # {}
        /\ s.stencil # {} => z.stencil # {}
        /\ \A state \in z.depth : state.access = "ReadOnly" => \A x \in s.depth : ~x.write
        /\ \A state \in z.stencil : state.access = "ReadOnly" => \A x \in s.stencil : ~MayWriteStencil(x)

\* Every depth/stencil attachment counts as a read.
UsageClassLenient(kind) ==
    CASE kind \in {"UniformRead", "VertexRead", "IndexRead", "IndirectRead", "SampledRead", "DepthReadOnly",
                   "DepthReadWrite"} -> "ReadOnly"
      [] kind \in {"StorageRead", "StorageWrite", "StorageReadWrite"}                          -> "Storage"
      [] OTHER                                                                                -> "Attachment"

UsageClass(kind) ==
    CASE kind \in {"UniformRead", "VertexRead", "IndexRead", "IndirectRead", "SampledRead", "DepthReadOnly"}
                                                                      -> "ReadOnly"
      [] kind \in {"StorageRead", "StorageWrite", "StorageReadWrite"} -> "Storage"
      [] OTHER                                                        -> "Attachment"

Meets(u, w) == /\ u.on = w.on /\ u.mips \cap w.mips # {}
               /\ u.layers \cap w.layers # {} /\ u.planes \cap w.planes # {}

\* The uses in the order they are listed: equal uses of two attachments stay two.
AttachmentUses(p) ==
    (UNION {{<<"color", i>>} \X ColorUses(p.colors[i]) : i \in DOMAIN p.colors})
    \cup UNION {{<<"depth", 0>>} \X DepthUses(z) : z \in p.depth}

ValidScope(p) ==
    LET uses == AttachmentUses(p) \cup UNION {{<<"draw", 0>>} \X DrawUses(p.draws[i]) : i \in DOMAIN p.draws}
    IN  \A u, w \in uses : u # w /\ Meets(u[2], w[2]) =>
            /\ UsageClass(u[2].kind) = UsageClass(w[2].kind)
            /\ UsageClass(u[2].kind) # "Attachment"

Clears(p) ==
    \/ \E i \in DOMAIN p.colors : p.colors[i].load = "Clear"
    \/ \E z \in p.depth : \E state \in z.depth \cup z.stencil : state.load = "Clear"

ValidPass(p) ==
    /\ p.colors # <<>> \/ p.depth # {}
    /\ p.draws # <<>> \/ Clears(p) \/ p.timestamps # {}
    /\ Cardinality({Fact(v) : v \in Views(p)}) = 1
    /\ \A i \in DOMAIN p.draws : MatchesPass(p, p.draws[i]) /\ DepthParity(p, p.draws[i])
    /\ ValidScope(p)

-----------------------------------------------------------------------------
(* Admission on the created device, preparation and encoding.              *)

Indirects(p) == {p.draws[i].intent : i \in {j \in DOMAIN p.draws : p.draws[j].intent.kind = "Indirect"}}

RequiredFeatures(p) ==
    {"RenderPipeline"}
    \cup When(Signature(p).views # 0 /\ Signature(p).samples > 1, "MultisampleArray")
    \cup When(Signature(p).views # 0, "Multiview")
    \cup (UNION {PipelineRequirements(p.draws[i].pipeline) : i \in DOMAIN p.draws})
    \cup When(Indirects(p) # {}, "IndirectExecution")
    \cup When(\E intent \in Indirects(p) : intent.firstInstance = "MayBeNonZero", "IndirectFirstInstance")
    \cup When(p.depth # {}, "DepthAttachment")
    \cup When(p.timestamps # {}, "TimestampQuery")

DisabledFeatures(p) ==
    When(\E intent \in Indirects(p) : intent.firstInstance = "ZeroOnly", "IndirectFirstInstance")

WithinDrawLimits(d) ==
    /\ d.viewport.x + d.viewport.width <= Device.maxSide
    /\ d.viewport.y + d.viewport.height <= Device.maxSide
    /\ Positions(Slots(d.vertex)) <= Device.maxVertexBuffers
    /\ Positions(Slots(d.vertex)) + d.bound.groupSlots <= Device.maxSlots

Admitted(p) ==
    /\ RequiredFeatures(p) \subseteq Device.features
    /\ DisabledFeatures(p) \cap Device.features = {}
    /\ Signature(p).views <= Device.maxViews
    /\ \A i \in DOMAIN p.draws : WithinDrawLimits(p.draws[i])

\* A surface's image is drawn to as it was acquired, and only as color.
Prepares(p) ==
    /\ \A v \in Views(p) \cup UNION {p.colors[i].resolve : i \in DOMAIN p.colors} :
          Parent(v).common.ownership # "SurfaceAcquired" => LowersTexture(Parent(v)) /\ LowersView(v, Parent(v))
    /\ \A z \in p.depth : Parent(z.view).common.ownership # "SurfaceAcquired"
    /\ \A i \in DOMAIN p.draws :
          /\ LowersPipeline(p.draws[i].pipeline)
          /\ \A u \in DrawUses(p.draws[i]) : u.on[1] = "buffer" => LowersBuffer(Stream[u.on[2]])

\* The mask of the lowest views bits.
ViewMask(views) == IF views = 0 THEN 0 ELSE 2^views - 1

\* No operations reach the device for an aspect that is absent or only read.
Operations(states) == {[load |-> s.load, store |-> s.store] : s \in {x \in states : x.access = "ReadWrite"}}

NativeSlice(b) == [buffer |-> b.buffer, from |-> b.offset, to |-> b.offset + b.size]

NativeDraw(d) ==
    [pipeline |-> [state |-> d.pipeline.state, layouts |-> NativeLayouts(d.pipeline.state),
                   views |-> ViewMask(d.pipeline.state.views)],
     slices   |-> [slot \in Slots(d.vertex) |-> NativeSlice(CHOOSE b \in d.vertex : b.slot = slot)],
     index    |-> {[slice |-> NativeSlice(x), format |-> x.format] : x \in d.index},
     command  |-> IF d.intent.kind = "Indirect"
                  THEN [kind |-> "Indirect", indexed |-> d.intent.indexed,
                        buffer |-> d.intent.record.buffer, at |-> d.intent.record.offset]
                  ELSE [kind |-> d.intent.kind, elements |-> d.intent.elements.first .. RangeEnd(d.intent.elements) - 1,
                        instances |-> d.intent.instances.first .. RangeEnd(d.intent.instances) - 1],
     scissor  |-> d.scissor]

NativePass(p) ==
    [colors |-> p.colors,
     depth  |-> {[view |-> z.view, depth |-> Operations(z.depth), stencil |-> Operations(z.stencil)] : z \in p.depth},
     times  |-> p.timestamps,
     views  |-> ViewMask(Signature(p).views),
     draws  |-> [i \in DOMAIN p.draws |-> NativeDraw(p.draws[i])]]

-----------------------------------------------------------------------------
(* A caller makes draws, composes them into a pass and executes it.        *)

Draw(d) ==
    /\ phase = "recording" /\ Len(draws) < MaxDraws
    /\ ValidDraw(d)
    /\ draws' = Append(draws, d)
    /\ UNCHANGED <<phase, pass, native>>

Compose(colors, depth, timestamps) ==
    LET p == [colors |-> colors, depth |-> depth, timestamps |-> timestamps, draws |-> draws]
    IN  /\ phase = "recording"
        /\ \A i \in DOMAIN colors : ValidColor(colors[i])
        /\ \A z \in depth : ValidDepthAttachment(z)
        /\ \A t \in timestamps : ValidTimestamps(t)
        /\ ValidPass(p)
        /\ pass' = p /\ phase' = "composed"
        /\ UNCHANGED <<draws, native>>

Finish(ready) ==
    /\ phase = "composed"
    /\ phase' = IF ready THEN "encoded" ELSE "refused"
    /\ native' = IF ready THEN NativePass(pass) ELSE <<>>
    /\ UNCHANGED <<draws, pass>>

Submit == Finish(Admitted(pass) /\ Prepares(pass))

\* What the types of these values say.
TypedSlice(b) == b.buffer \in DOMAIN Stream /\ {b.offset, b.size, Stream[b.buffer].size} \subseteq Nat

TypedLayout(l) ==
    /\ {l.slot, l.stride} \subseteq Nat /\ l.step \in {"Vertex", "Instance"} /\ IsFiniteSet(l.attributes)
    /\ \A a \in l.attributes : a.offset \in Nat /\ a.format \in VertexFormat

TypedIntent(intent) ==
    CASE intent.kind = "Indirect" -> intent.indexed \in BOOLEAN /\ TypedSlice(intent.record)
      [] OTHER -> /\ intent.kind \in {"Direct", "Indexed"}
                  /\ {intent.elements, intent.instances} \subseteq [first : Nat, count : Nat]

TypedDraw(d) ==
    /\ \A targets \in d.pipeline.state.output : targets \in Seq({targets[i] : i \in DOMAIN targets})
    /\ IsFiniteSet(d.pipeline.state.vertex) /\ \A l \in d.pipeline.state.vertex : TypedLayout(l)
    /\ \A b \in d.vertex : TypedSlice(b) /\ b.slot \in Nat
    /\ \A x \in d.index : TypedSlice(x) /\ x.format \in {"Uint16", "Uint32"}
    /\ TypedIntent(d.intent)
    /\ \A u \in d.bound.uses : u.on \in ({"buffer"} \X DOMAIN Stream) \cup ({"texture"} \X DOMAIN Canvas)

TypedView(v) ==
    v.texture \in DOMAIN Canvas /\ Parent(v).format \in Format /\ {v.mip, v.mips, v.layer, v.layers} \subseteq Nat

ASSUME RenderConstants ==
    /\ MaxDraws \in Nat
    /\ \A d \in DrawChoice : TypedDraw(d)
    /\ \A colors \in ColorChoice :
          /\ colors \in Seq({colors[i] : i \in DOMAIN colors})
          /\ \A i \in DOMAIN colors : TypedView(colors[i].view) /\ \A v \in colors[i].resolve : TypedView(v)
    /\ \A depth \in DepthChoice :
          /\ IsFiniteSet(depth)
          /\ \A z \in depth : TypedView(z.view) /\ \A state \in z.depth \cup z.stencil : state.access \in DOMAIN DepthKind

RenderInit == phase = "recording" /\ draws = <<>> /\ pass = <<>> /\ native = <<>>

RenderNext ==
    \/ \E d \in DrawChoice : Draw(d)
    \/ \E colors \in ColorChoice, depth \in DepthChoice, timestamps \in TimestampChoice :
          Compose(colors, depth, timestamps)
    \/ Submit

RenderSpec == RenderInit /\ [][RenderNext]_renderVars

-----------------------------------------------------------------------------
(* Properties.                                                             *)

InSlice(slice, from, to) ==
    /\ slice.from <= from /\ to <= slice.to
    /\ to <= Stream[slice.buffer].size

\* The elements of a buffer whose fetch the encoded command fixes.
FixedElements(command, step) ==
    IF command.kind = "Indirect" THEN {}
    ELSE IF step = "Instance" THEN command.instances
    ELSE IF command.kind = "Direct" THEN command.elements
    ELSE {}

\* Every vertex, instance and index the host fixes is fetched, byte for byte, from the slice bound for
\* it and from inside its buffer, through exactly the slots the pipeline reads, each shader input by one
\* attribute; an indirect record lies inside its buffer (validate_stepped_range, validate_indexed_range,
\* lower_vertex_buffers and encode_render_operation taken together).
FetchesStayBound ==
    phase = "encoded" =>
        \A i \in DOMAIN native.draws :
            LET d == native.draws[i]
                layouts == d.pipeline.layouts
                read == {n \in DOMAIN layouts : layouts[n].attributes # {}}
            IN  /\ DOMAIN d.slices = read
                /\ \A input \in pass.draws[i].pipeline.program.vertex[pass.draws[i].pipeline.vertex].inputs :
                      Cardinality({x \in UNION {{n} \X layouts[n].attributes : n \in read} :
                                      <<x[2].location, FetchedType(x[2].format)>> = input}) = 1
                /\ \A n \in read : \A a \in layouts[n].attributes, e \in FixedElements(d.command, layouts[n].step) :
                      LET start == d.slices[n].from + (e * layouts[n].stride) + a.offset
                      IN  InSlice(d.slices[n], start, start + VertexSize(a.format))
                /\ d.command.kind = "Indexed" =>
                      \A x \in d.index, e \in d.command.elements :
                          LET start == x.slice.from + (e * IndexSize(x.format))
                          IN  InSlice(x.slice, start, start + IndexSize(x.format))
                /\ d.command.kind = "Indirect" =>
                      d.command.at + (IF d.command.indexed THEN 20 ELSE 16) <= Stream[d.command.buffer].size
                /\ (d.index # {}) = (d.command.kind = "Indexed" \/ (d.command.kind = "Indirect" /\ d.command.indexed))

\* The level-layer planes the device writes through the attachments of the encoded pass.
Written(n) ==
    LET cells(v, planes) == {v.texture} \X {v.mip} \X (v.layer .. v.layer + v.layers - 1) \X planes
    IN  (UNION {{<<"color", i>>} \X cells(n.colors[i].view, {"Color"}) : i \in DOMAIN n.colors})
        \cup (UNION {{<<"resolve", i>>} \X (UNION {cells(v, {"Color"}) : v \in n.colors[i].resolve}) :
                       i \in DOMAIN n.colors})
        \cup UNION {{<<"depth", 0>>} \X
                       cells(z.view, When(z.depth # {}, "DepthOnly") \cup When(z.stencil # {}, "StencilOnly")) :
                       z \in n.depth}

Touched(u) == {u.on[2]} \X u.mips \X u.layers \X u.planes

\* The encoded pass is one the device can run without a hazard inside it: what an attachment writes is
\* written through that attachment only and read by no draw, what a draw may write through a storage
\* binding is used otherwise by none, every pipeline renders to exactly these attachments and writes
\* depth or stencil only where the pass has operations for them, and layers match the view mask
\* (GpuRenderOperation::new, validate_render_pass_usage_scope, encode_render_operation).
PassesAreCoherent ==
    phase = "encoded" =>
        LET used == UNION {DrawUses(pass.draws[i]) : i \in DOMAIN pass.draws}
            textureUses == {u \in used : u.on[1] = "texture"}
            written == Written(native)
        IN  /\ \A a, b \in written : a[2] = b[2] => a = b
            /\ \A u \in textureUses : Touched(u) \cap {w[2] : w \in written} = {}
            /\ \A u, w \in used : u.on = w.on /\ u.kind \in {"StorageWrite", "StorageReadWrite"} /\ Meets(u, w)
                  => w.kind \in {"StorageRead", "StorageWrite", "StorageReadWrite"}
            /\ \A v \in Views(pass) : /\ MipExtent(Parent(v), v.mip).width = Signature(pass).width
                                      /\ ViewMask(IF v.layers = 1 THEN 0 ELSE v.layers) = native.views
            /\ \A i \in DOMAIN native.draws :
                  LET d == native.draws[i] s == d.pipeline.state
                  IN  /\ d.pipeline.views = native.views
                      /\ Len(Targets(s)) = Len(native.colors)
                      /\ \A k \in DOMAIN native.colors :
                            /\ Targets(s)[k].format = EffectiveFormat(native.colors[k].view)
                            /\ s.samples = Parent(native.colors[k].view).samples
                      /\ (s.depthStencil = {}) = (native.depth = {})
                      /\ \A z \in native.depth, x \in s.depthStencil :
                            /\ (\E part \in x.depth : part.write) => z.depth # {}
                            /\ (\E part \in x.stencil : MayWriteStencil(part)) => z.stencil # {}
                      /\ \A v \in Views(pass) :
                            /\ d.scissor.x + d.scissor.width <= MipExtent(Parent(v), v.mip).width
                            /\ d.scissor.y + d.scissor.height <= MipExtent(Parent(v), v.mip).height
=============================================================================
