---------------------------- MODULE MCContracts ----------------------------
(* The contracts every submission passes on its way to the device, each     *)
(* explored on an instance of its own: subject says which one a behaviour   *)
(* is about, and the variables of the others stay where they start.         *)
EXTENDS Coverage, Graph, Admission, Health, Transfers, Rendering, Bindings

VARIABLE subject

-----------------------------------------------------------------------------
(* Coverage: raw strided layouts over a few bytes, some touching, some not. *)

SmallStrides ==
    [first : 0 .. 1, size : 1 .. 2, stride : {2, 3}, count : 1 .. 2, group : {0, 4}, groups : 1 .. 2]

-----------------------------------------------------------------------------
(* Graph: a retained buffer two authors pass on, a zeroed texture with two  *)
(* planes, one of them read through a view, and a prepared one with two     *)
(* mips.                                                                    *)

Box(first, end, aspect) == [first |-> first, end |-> end, layer |-> 0, layerEnd |-> 1, aspect |-> aspect]

Handles == {"b", "t", "v", "p"}

HandleDescriptor ==
    [b |-> [storage |-> "b", type |-> "buffer", box |-> Box(0, 2, "Color"), parent |-> "Color",
            usages |-> {"Storage", "CopySource", "CopyDestination", "Uniform"},
            retained |-> TRUE, initial |-> "uninitialized"],
     t |-> [storage |-> "t", type |-> "texture", box |-> Box(0, 1, "All"), parent |-> "All",
            usages |-> {"DepthStencilAttachment", "Sampled", "CopySource"},
            retained |-> FALSE, initial |-> "zeroed"],
     v |-> [storage |-> "t", type |-> "view", box |-> Box(0, 1, "DepthOnly"), parent |-> "All",
            usages |-> {}, retained |-> FALSE, initial |-> "zeroed"],
     p |-> [storage |-> "p", type |-> "texture", box |-> Box(0, 2, "Color"), parent |-> "Color",
            usages |-> {"Sampled", "CopySource", "CopyDestination"},
            retained |-> TRUE, initial |-> "prepared"]]

Buffered(kind, end) ==
    {[resource |-> "b", kind |-> kind, box |-> Box(0, end, "All"), load |-> "None", store |-> "None"]}
Attached(handle, load, store, aspect) ==
    [resource |-> handle, kind |-> "DepthStencilAttachment", box |-> Box(0, 1, aspect), load |-> load, store |-> store]
MipRead(handle, kind, box) == [resource |-> handle, kind |-> kind, box |-> box, load |-> "None", store |-> "None"]
Sampling == {MipRead("v", "SampledRead", Box(0, 1, "All")), MipRead("p", "SampledRead", Box(0, 1, "All"))}

Operation(kind, uses) ==
    [kind |-> kind, uses |-> uses, arguments |-> {}, whole |-> TRUE, idle |-> FALSE, indexed |-> FALSE]
CopyFirst  == Operation("copy", Buffered("CopyDestination", 1) \cup {MipRead("p", "CopySource", Box(0, 1, "All"))})
ComputeAll == Operation("compute", Buffered("StorageReadWrite", 2))
ReadFirst  == Operation("readback", Buffered("CopySource", 1))
Render     == Operation("render", {Attached("t", "Clear", "Discard", "StencilOnly"),
                                   Attached("v", "Load", "Store", "DepthOnly")})

Job(op, extra) == [op |-> op, extra |-> extra]
BytesOfB(last) == {<<i, 0, "Color">> : i \in 0 .. last}

Authors == <<
    [declared |-> {}, work |-> {Job(CopyFirst, {}), Job(ComputeAll, {})}, inputs |-> {}, imports |-> {},
     outputs |-> {[key |-> "k", resource |-> "b", intent |-> "ReadWrite", cells |-> BytesOfB(1)]}],
    [declared |-> {Handles}, work |-> {Job(ComputeAll, {}), Job(ReadFirst, Sampling), Job(Render, {})},
     inputs |-> {[resource |-> "b", cells |-> BytesOfB(0)]},
     imports |-> {[key |-> "k", resource |-> "b", intent |-> "ReadWrite"]},
     outputs |-> {}]>>

Reconstructions ==
    {[seeds |-> {}, targets |-> {}],
     [seeds |-> {[storage |-> "b", cells |-> {<<1, 0, "Color">>}]}, targets |-> {"b"}],
     [seeds |-> {[storage |-> "p", cells |-> {<<0, 0, "Color">>}]}, targets |-> {"p"}]}

-----------------------------------------------------------------------------
(* Admission: descriptors that differ in each kind of demand, and machines  *)
(* with twins, weaker adapters and filters.                                 *)

Plainly == [power |-> "NoPreference", strict |-> FALSE, fallback |-> "Allow", backends |-> {}, preference |-> <<>>,
            classes |-> {}, portable |-> FALSE, exact |-> 0, needs |-> [f \in {"RenderPipeline"} |-> "Required"],
            limits |-> [k \in {} |-> 0], roles |-> {}, alignments |-> [k \in {} |-> 0]]
Needs(feature, strength) == [f \in {feature} |-> strength]
AtLeast(kind, n) == [k \in {kind} |-> [minimum |-> n, maximum |-> Unlimited]]
AtMost(kind, n)  == [k \in {kind} |-> [minimum |-> 0, maximum |-> n]]

Demands == {
    [Plainly EXCEPT !.needs = Needs("TimestampQuery", "DisableInstrumentation"), !.limits = AtLeast("Plain", 3)],
    [Plainly EXCEPT !.needs = Needs("TimestampQuery", "Required"), !.limits = AtLeast("Plain", 2),
                    !.power = "HighPerformance"],
    [Plainly EXCEPT !.needs = Needs("TextureBindingArray", "SelectAlternativeWork"),
                    !.limits = AtMost("ArrayElements", 1),
                    !.roles = {<<"Depth32Float", "DepthStencil">>, <<"Bc", "Sampled">>}],
    [Plainly EXCEPT !.strict = TRUE, !.alignments = [k \in {"DynamicOffset"} |-> 2]],
    [Plainly EXCEPT !.needs = Needs("Multiview", "Required"), !.limits = AtLeast("MultiviewViews", 2),
                    !.classes = {"Discrete"}],
    [Plainly EXCEPT !.needs = Needs("TimestampQuery", "Disabled"), !.backends = {"Vulkan", "OpenGl"},
                    !.preference = <<"OpenGl">>],
    [Plainly EXCEPT !.portable = TRUE, !.power = "LowPower", !.roles = {<<"Float32", "Blendable">>}],
    [Plainly EXCEPT !.fallback = "Require"],
    [Plainly EXCEPT !.fallback = "Forbid", !.backends = {"Vulkan"}]}

AllLimits(n) == [k \in LimitKind |-> n]
Discrete == [
    slot |-> 1, vendor |-> "v", backend |-> "Vulkan", class |-> "Discrete", compliant |-> TRUE, unknownFlags |-> FALSE,
    flags |-> {"Compute", "DepthBiasClamp", "IndirectExecution"},
    features |-> {"TimestampQuery", "Multiview", "TextureBindingArray", "SampledNonUniformIndexing", "Bc"},
    limits |-> AllLimits(3), alignment |-> 2,
    roles |-> {<<"Depth32Float", "DepthStencil">>, <<"Bc", "Sampled">>, <<"Float32", "Blendable">>,
               <<"Float32", "ColorAttachment">>},
    presents |-> TRUE, profileSupported |-> TRUE]
Twin    == [Discrete EXCEPT !.slot = 2]
Finer   == [Discrete EXCEPT !.vendor = "w", !.alignment = 1]
Smaller == [Discrete EXCEPT !.class = "Integrated", !.limits = AllLimits(2), !.presents = FALSE, !.features = {}]
Soft    == [Discrete EXCEPT !.backend = "OpenGl", !.class = "Cpu", !.presents = FALSE]

Host(adapters, operator, window) == [adapters |-> adapters, operator |-> operator, window |-> window]
Machines == {Host({Discrete, Twin, Smaller}, {}, TRUE), Host({Finer, Discrete, Soft}, {}, FALSE),
             Host({Smaller, Soft}, {}, FALSE), Host({Discrete, Soft}, {"OpenGl"}, FALSE)}

-----------------------------------------------------------------------------
(* The device of transfers, render passes and dispatches: one format never  *)
(* admitted, storage textures of one format, two views at most.             *)

Common == [ownership |-> "Owned", lifetime |-> "Retained", memory |-> "Device", rebuild |-> "FromSource",
           riskAccepted |-> FALSE]

DeviceOf(formats) ==
    [features |-> {"Copy", "TimestampQuery", "StorageTexture", "RenderPipeline", "DepthAttachment", "MultisampleArray",
                   "Multiview", "IndirectExecution", "Compute", "BufferBindingArray", "StorageResourceBindingArray",
                   "StorageBufferBindingArrayNonUniformIndexing"},
     roles |-> {<<"R32Float", "StorageWrite">>} \cup (formats \ {"Rg16Float"}) \X {"CopySource", "CopyDestination", "ColorAttachment",
                                             "DepthStencilAttachment", "Sampled", "Blendable"},
     native |-> {"INDIRECT_EXECUTION", "VIEW_FORMATS", "UNRESTRICTED_INDEX_BUFFER"},
     formatUsages |-> [f \in formats |-> {"COPY_SRC", "COPY_DST", "RENDER_ATTACHMENT", "TEXTURE_BINDING",
                                          "TRANSIENT_ATTACHMENT"} \cup When(f = "R32Float", "STORAGE_BINDING")],
     samples |-> [f \in formats |-> {1, 4}], storage |-> {<<"R32Float", "StorageWrite">>}, blendable |-> {"Rgba8Unorm"},
     maxBuffer |-> 64, maxSide |-> 24, maxLayers |-> 2, maxViews |-> 2, maxVertexBuffers |-> 3, maxSlots |-> 4,
     maxAttributes |-> 4, maxStride |-> 64, maxColors |-> 2]

CreatedDevice == DeviceOf(Format)

-----------------------------------------------------------------------------
(* Transfers: a texture of every format moved whole, and a few probed by     *)
(* region: uneven mips, compressed blocks, a volume, a line, two planes.     *)

Size(w, h, d) == [width |-> w, height |-> h, depth |-> d]
Tex(f, dimension, extent, mips, initial, prepared) ==
    [common |-> Common, format |-> f, dimension |-> dimension, extent |-> extent, mips |-> mips, samples |-> 1,
     usages |-> {"CopySource", "CopyDestination"}, initial |-> initial, prepared |-> prepared]
Empty(f, extent, mips) == Tex(f, "D2", extent, mips, "none", "none")
Filled(f, dimension, e, mips, slack, more) ==
    LET print == Footprint(f, "All", e.width, e.height)
    IN  Tex(f, dimension, e, mips, "prepared",
            [format |-> f, extent |-> e, rowBytes |-> print.row + slack, imageRows |-> print.rows + more,
             length |-> LayoutSpan(print, e.depth, print.row + slack, print.rows + more)])
Each(f) ==
    LET e == Size(2 * Semantics[f].width, Semantics[f].height, 2)
    IN  IF CopyBlockSize(f, "All") > 0 THEN Filled(f, "D2", e, 1, 1, 1) ELSE Empty(f, e, 1)

Uneven  == Filled("Rg8Unorm", "D2", Size(3, 4, 2), 2, 0, 0)
Encoded == Empty("Rgba8UnormSrgb", Size(2, 2, 1), 1)
Decoded == Filled("Rgba8Unorm", "D2", Size(2, 2, 1), 1, 4, 0)
Blocks  == Filled("Bc1RgbaUnorm", "D2", Size(8, 8, 1), 2, 0, 0)
Blocks2 == Empty("Bc1RgbaUnormSrgb", Size(8, 8, 2), 3)
Volume  == Filled("R8Uint", "D3", Size(2, 3, 4), 2, 1, 1)
Line    == Filled("R32Float", "D1", Size(4, 1, 1), 1, 0, 0)
Deep    == Empty("Depth32FloatStencil8", Size(2, 2, 2), 1)

Probed == {<<Uneven, Uneven>>, <<Encoded, Decoded>>, <<Blocks, Blocks2>>, <<Volume, Line>>, <<Deep, Deep>>}
TexturePairs == Probed \cup {<<Each(f), Each(f)>> : f \in Format}

Buffers == {[common |-> Common, usages |-> {"CopySource", "CopyDestination", "QueryResolve"}, size |-> 48,
             initial |-> "prepared", prepared |-> 48]}

Corner(x, y, z) == [x |-> x, y |-> y, z |-> z]
ProbedRegions(d) ==
    LET w == Semantics[d.format].width h == Semantics[d.format].height
        aspects == {"All"} \cup ClassAspects(Semantics[d.format].class)
    IN  IF d \in UNION {{pair[1], pair[2]} : pair \in Probed}
        THEN [mip : 0 .. d.mips - 1, aspect : aspects,
              origin : {Corner(0, 0, 0), Corner(w, 0, 0), Corner(0, h, 1)},
              extent : {Size(2 * w, h, 1), Size(w, 2 * h, 2), d.extent}]
        ELSE [mip : {0}, aspect : aspects, origin : {Corner(0, 0, 0)}, extent : {d.extent}]

Queries == [common |-> Common, count |-> 2]

-----------------------------------------------------------------------------
(* Rendering: color, multisampled, depth/stencil and surface textures, and  *)
(* draws that fit and miss their buffers and attachments by one.            *)

Target(f, layers, samples, usages) ==
    [Tex(f, "D2", Size(4, 4, layers), 1, "none", "none") EXCEPT !.samples = samples, !.usages = usages]
Textures ==
    [color |-> Target("Rgba8Unorm", 2, 1, {"ColorAttachment", "Sampled"}),
     multi |-> Target("Rgba8Unorm", 1, 4, {"ColorAttachment"}),
     memoryless |-> Target("Depth24PlusStencil8", 1, 4, {"DepthStencilAttachment", "TransientAttachment"}),
     depth |-> Target("Depth24PlusStencil8", 2, 1, {"DepthStencilAttachment", "Sampled"}),
     frame |-> [Target("Rgba8Unorm", 1, 1, {"ColorAttachment"}) EXCEPT
                   !.common = [@ EXCEPT !.ownership = "SurfaceAcquired", !.lifetime = "Transient",
                                        !.rebuild = "Externally"]]]
LayerView(t, dimension, layer, layers, aspect) ==
    [common |-> Textures[t].common, texture |-> t, dimension |-> dimension, mip |-> 0, mips |-> 1,
     layer |-> layer, layers |-> layers, aspect |-> aspect, format |-> "None"]
OneLayer(t, layer) == LayerView(t, "D2", layer, 1, "All")

Streams ==
    [vertices  |-> [common |-> Common, usages |-> {"Vertex"}, size |-> 48, initial |-> "none"],
     instances |-> [common |-> Common, usages |-> {"Vertex", "Index"}, size |-> 32, initial |-> "none"],
     records   |-> [common |-> Common, usages |-> {"Indirect"}, size |-> 40, initial |-> "none"]]

VertexLayout == [slot |-> 0, stride |-> 12, step |-> "Vertex",
                 attributes |-> {[location |-> 0, offset |-> 0, format |-> <<"Float", 32, 2>>],
                                 [location |-> 1, offset |-> 8, format |-> <<"Uint", 8, 2>>]}]
InstanceLayout == [slot |-> 2, stride |-> 8, step |-> "Instance",
                   attributes |-> {[location |-> 2, offset |-> 4, format |-> <<"Unorm", 8, 4>>]}]
Blending == [color |-> [operation |-> "Add", source |-> "SrcAlpha", destination |-> "One"],
             alpha |-> [operation |-> "Max", source |-> "One", destination |-> "One"]]
PlainState ==
    [vertex |-> {}, output |-> {<<[format |-> "Rgba8Unorm", blend |-> {}]>>}, topology |-> "TriangleList",
     strip |-> "None", clip |-> "Clipped", depthStencil |-> {}, samples |-> 1, sampleMask |-> 1,
     alphaToCoverage |-> FALSE, views |-> 0]
Multi == [PlainState EXCEPT !.samples = 4, !.sampleMask = 15]
DepthState(write, stencil) ==
    {[format |-> "Depth24PlusStencil8", depth |-> {[write |-> write]}, stencil |-> stencil,
      bias |-> [constant |-> 0, slope |-> 0, clamp |-> 0]]}
Stamping == {[front |-> [pass |-> "Keep"], back |-> [pass |-> "Replace"], mask |-> 1]}

\* The pipeline of a state over a program whose stages match it.
Matching(s) ==
    [state |-> s, vertex |-> "vs", fragment |-> {"fs"},
     program |-> [vertex |-> [vs |-> [inputs |-> Interface(s), viewIndex |-> s.views # 0]],
                  fragment |-> [fs |-> [outputs |-> Outputs(Targets(s)), viewIndex |-> FALSE]],
                  layout |-> "L", requirements |-> {}]]
Simple(s) ==
    [pipeline |-> Matching(s), bound |-> [layout |-> "L", groupSlots |-> 1, uses |-> {}],
     vertex |-> {}, index |-> {},
     intent |-> [kind |-> "Direct", elements |-> [first |-> 0, count |-> 3], instances |-> [first |-> 1, count |-> 1]],
     viewport |-> [x |-> 0, y |-> 0, width |-> 4, height |-> 4, near |-> 0, far |-> 1],
     scissor |-> [x |-> 0, y |-> 0, width |-> 4, height |-> 4]]

Indices == {[buffer |-> "instances", offset |-> 16, size |-> 8, format |-> "Uint16"]}
FedDraw(simple, kind, size, first) ==
    [simple EXCEPT
        !.vertex = {[slot |-> 0, buffer |-> "vertices", offset |-> 4, size |-> size],
                    [slot |-> 2, buffer |-> "instances", offset |-> 0, size |-> 16]},
        !.index = IF kind = "Indexed" THEN Indices ELSE {}, !.intent.kind = kind,
        !.intent.elements.first = first]
FedDraws(simple) ==
    {FedDraw(simple, "Direct", size, first) : size \in {32, 36}, first \in {0, 1}}
    \cup {FedDraw(simple, "Indexed", 36, first) : first \in {1, 2}}

Record(indexed, mode) ==
    [kind |-> "Indirect", indexed |-> indexed, firstInstance |-> mode,
     record |-> [buffer |-> "records", offset |-> 20, size |-> IF indexed THEN 20 ELSE 16]]
Sampled(t, layer, aspect) == {ViewUse("SampledRead", OneLayer(t, layer), aspect)}
PlainDraws(simple) ==
    {[simple EXCEPT !.intent = Record(FALSE, "ZeroOnly")],
     [simple EXCEPT !.intent = Record(TRUE, "MayBeNonZero"), !.index = Indices],
     [simple EXCEPT !.bound.uses = Sampled("color", 1, "All")],
     [simple EXCEPT !.scissor.x = 1]}

Reading   == [PlainState EXCEPT !.depthStencil = DepthState(FALSE, {})]
OtherStates ==
    {[PlainState EXCEPT !.depthStencil = DepthState(TRUE, Stamping)],
     [PlainState EXCEPT !.views = 2],
     [Multi EXCEPT !.alphaToCoverage = TRUE, !.output = {<<[format |-> "Rgba8Unorm", blend |-> {Blending}]>>}],
     [Multi EXCEPT !.depthStencil = DepthState(TRUE, {})]}

Draws ==
    FedDraws(Simple([PlainState EXCEPT !.vertex = {VertexLayout, InstanceLayout}]))
    \cup PlainDraws(Simple(PlainState))
    \cup {[Simple(Reading) EXCEPT !.bound.uses = uses] : uses \in {{}, Sampled("depth", 0, "DepthOnly")}}
    \cup {Simple(s) : s \in OtherStates}

Color(view, load, store, resolve) == [view |-> view, load |-> load, store |-> store, resolve |-> resolve]
FirstLayer == Color(OneLayer("color", 0), "Clear", "Store", {})
ColorLists ==
    {<<>>, <<FirstLayer>>, <<Color(OneLayer("color", 1), "Load", "Discard", {})>>,
     <<Color(LayerView("color", "D2Array", 0, 2, "All"), "Load", "Store", {})>>,
     <<Color(OneLayer("multi", 0), "Clear", "Discard", {OneLayer("color", 0)})>>,
     <<Color(OneLayer("frame", 0), "Clear", "Store", {})>>, <<FirstLayer, FirstLayer>>}

OnlyRead == [access |-> "ReadOnly", load |-> "Load", store |-> "Store"]
Cleared  == [access |-> "ReadWrite", load |-> "Clear", store |-> "Store"]
Dropped  == [Cleared EXCEPT !.store = "Discard"]
Planar(view, depth, stencil) == {[view |-> view, depth |-> depth, stencil |-> stencil]}
DepthAttachments ==
    {{}, Planar(OneLayer("memoryless", 0), {Dropped}, {Dropped}),
     Planar(LayerView("depth", "D2", 0, 1, "DepthOnly"), {OnlyRead}, {Cleared}),
     Planar(LayerView("depth", "D2Array", 0, 2, "All"), {Cleared}, {})}
    \cup {Planar(OneLayer("depth", 0), depth, stencil) :
            depth \in {{OnlyRead}, {Cleared}}, stencil \in {{}, {Cleared}}}

Timestamps == {{}, {[begin |-> {0}, end |-> {1}, count |-> 2]}}

-----------------------------------------------------------------------------
(* Bindings: one shader with dynamic buffers beside each other, an array    *)
(* indexed non-uniformly, a group nobody declares, textures and a sampler;  *)
(* and values that fit, overlap, miss an alignment or an end by one step.   *)

Global(space, kind, access, size, count) ==
    [space |-> space, kind |-> kind, comparison |-> FALSE, scalar |-> "Float", dimension |-> "D2", arrayed |-> FALSE,
     multi |-> FALSE, format |-> "R32Float", access |-> access, size |-> size, count |-> count]
EntryPoint(name, at, uses, views) == [name |-> name, stage |-> at, uses |-> uses, views |-> views]
ViewIndex(input) == {[input |-> input, type |-> <<"Uint", 1>>]}

Shader ==
    [needs |-> {}, halfOverride |-> FALSE, nonUniform |-> {<<2, 0>>},
     globals |-> (<<0, 0>> :> Global("Uniform", "Plain", {}, 8, 0))
                 @@ (<<0, 1>> :> Global("Storage", "Plain", {"Load", "Store"}, 8, 0))
                 @@ (<<2, 0>> :> Global("Storage", "Plain", {"Load"}, 4, 2))
                 @@ (<<3, 0>> :> Global("Handle", "Sampled", {}, 0, 0))
                 @@ (<<3, 1>> :> Global("Handle", "Sampler", {}, 0, 0))
                 @@ (<<3, 4>> :> Global("Handle", "StorageTexture", {"Store"}, 0, 0))
                 @@ (<<4, 0>> :> Global("Handle", "Depth", {}, 0, 0)),
     entries |-> {EntryPoint("buffers", "Compute", {<<0, 0>>, <<0, 1>>, <<2, 0>>}, {}),
                  EntryPoint("images", "Compute", {<<0, 1>>, <<3, 0>>, <<3, 1>>, <<3, 4>>}, {}),
                  EntryPoint("shade", "Fragment", {<<0, 0>>}, ViewIndex(TRUE))}]

Refining(k, policy) == [key |-> k, policy |-> policy]
Dynamic == [NoPolicy EXCEPT !.dynamic = TRUE]
Refined ==
    {Refining(<<0, 0>>, [Dynamic EXCEPT !.minimum = 12]), Refining(<<0, 1>>, Dynamic),
     Refining(<<3, 0>>, [NoPolicy EXCEPT !.texture = "FloatFilterable"]),
     Refining(<<3, 1>>, [NoPolicy EXCEPT !.sampler = "Filtering"])}
Selecting(m, names, open) == [module |-> m, names |-> names, refinements |-> open]
RefinedFor(keys) == {r \in Refined : r.key \in keys}
BufferKeys == {<<0, 0>>, <<0, 1>>}
ImageKeys  == {<<0, 1>>, <<3, 0>>, <<3, 1>>}

Programs ==
    {Selecting(Shader, <<"buffers">>, RefinedFor(BufferKeys)),
     Selecting(Shader, <<"buffers">>, RefinedFor({<<0, 1>>})),
     Selecting(Shader, <<"images">>, RefinedFor(ImageKeys)),
     Selecting(Shader, <<"buffers", "shade">>,
               {Refining(<<0, 0>>, [Dynamic EXCEPT !.visibility = {{"Compute", "Fragment"}}])}),
     Selecting(Shader, <<"buffers">>, {Refining(<<0, 0>>, [Dynamic EXCEPT !.minimum = 4])}),
     Selecting(Shader, <<"images">>, RefinedFor(ImageKeys \ {<<3, 1>>})),
     Selecting(Shader, <<"images">>, Refined),
     Selecting(Shader, <<"buffers">>, RefinedFor(BufferKeys) \cup {Refining(<<2, 0>>, Dynamic)}),
     Selecting(Shader, <<"shade">>, {}), Selecting(Shader, <<"buffers", "buffers">>, {}), Selecting(Shader, <<>>, {}),
     Selecting([Shader EXCEPT !.needs = {"ShaderF16"}], <<"buffers">>, RefinedFor(BufferKeys)),
     Selecting([Shader EXCEPT !.halfOverride = TRUE], <<"buffers">>, RefinedFor(BufferKeys)),
     Selecting([Shader EXCEPT !.globals[<<2, 0>>].count = -1], <<"images">>, RefinedFor(ImageKeys)),
     Selecting([Shader EXCEPT !.entries = @ \cup {EntryPoint("bad", "Vertex", {}, ViewIndex(FALSE))}],
               <<"buffers">>, RefinedFor(BufferKeys))}

Shared(usages, size) == [common |-> Common, usages |-> usages, size |-> size, initial |-> "none"]
SharedBuffers == [block |-> Shared({"Uniform", "Storage"}, 60), table |-> Shared({"Storage"}, 20),
                  orders |-> Shared({"Indirect"}, 20)]
SharedTextures ==
    [picture |-> Target("Rgba8Unorm", 2, 1, {"Sampled"}),
     canvas  |-> Target("R32Float", 2, 1, {"Sampled", "StorageWrite"})]
TextureView(t, layer) ==
    [common |-> Common, texture |-> t, dimension |-> "D2", mip |-> 0, mips |-> 1, layer |-> layer, layers |-> 1,
     aspect |-> "All", format |-> "None"]

Span(b, offset, size, dynamic) ==
    [kind |-> "Buffer", buffer |-> b, offset |-> offset, size |-> size, dynamic |-> dynamic]
ViewOf(t, layer) == [kind |-> "View", view |-> TextureView(t, layer)]
SamplerOf(s) == [kind |-> "Sampler", sampler |-> s]
Samplers == [smooth |-> [comparison |-> FALSE, filtering |-> TRUE], sharp |-> [comparison |-> FALSE, filtering |-> FALSE]]

\* What is bound at each key, the first one usually.
Fitting ==
    (<<0, 0>> :> {<<Span("block", 0, 12, {16})>>, <<Span("block", 16, 12, {0})>>, <<Span("block", 0, 12, {4})>>, <<Span("block", 0, 12, {32})>>,
                  <<Span("block", 0, 12, {})>>})
    @@ (<<0, 1>> :> {<<Span("block", 40, 12, {8})>>, <<Span("block", 8, 12, {8})>>, <<Span("block", 48, 12, {0})>>,
                     <<Span("block", 48, 12, {8})>>, <<Span("block", 40, 12, {})>>})
    @@ (<<2, 0>> :> {<<Span("table", 0, 4, {}), Span("table", 8, 4, {})>>, <<Span("table", 0, 4, {})>>,
                     <<Span("table", 0, 4, {}), Span("block", 56, 4, {})>>})
    @@ (<<3, 0>> :> {<<ViewOf("picture", 0)>>, <<ViewOf("picture", 1)>>, <<ViewOf("canvas", 0)>>})
    @@ (<<3, 1>> :> {<<SamplerOf("smooth")>>, <<SamplerOf("sharp")>>})
    @@ (<<3, 4>> :> {<<ViewOf("canvas", 0)>>, <<ViewOf("canvas", 1)>>})
Usual ==
    (<<0, 0>> :> <<Span("block", 0, 12, {16})>>) @@ (<<0, 1>> :> <<Span("block", 40, 12, {8})>>)
    @@ (<<2, 0>> :> <<Span("table", 0, 4, {}), Span("table", 8, 4, {})>>) @@ (<<3, 0>> :> <<ViewOf("picture", 0)>>)
    @@ (<<3, 1>> :> <<SamplerOf("smooth")>>) @@ (<<3, 4>> :> <<ViewOf("canvas", 0)>>)

\* The usual values, and each of them exchanged or left out.
Values(layout) ==
    LET keys == {d.key : d \in layout}
        value(k, r) == [key |-> k, resources |-> r]
        usual == {value(k, Usual[k]) : k \in keys}
    IN  {(usual \ {value(k, Usual[k])}) \cup {value(k, r)} : <<k, r>> \in UNION {{k} \X Fitting[k] : k \in keys}}
        \cup {{v \in usual : v.key # <<0, 1>>}}

Intents == {[kind |-> "Direct", size |-> <<2, 1, 4>>], [kind |-> "Direct", size |-> <<0, 1, 4>>], [kind |-> "Direct", size |-> <<5, 1, 1>>],
            [kind |-> "Indirect", buffer |-> "orders", offset |-> 8],
            [kind |-> "Indirect", buffer |-> "orders", offset |-> 12]}

Bounds == [groups |-> 4, dynamicUniform |-> 1, dynamicStorage |-> 1, elements |-> 2, samplers |-> 0,
           uniformAlignment |-> 16, storageAlignment |-> 8, workgroups |-> 4, dynamicOffset |-> 16,
           formats |-> {<<"Rgba8Unorm", "Sampled">>, <<"Rgba8Unorm", "Filterable">>, <<"R32Float", "StorageWrite">>}]

-----------------------------------------------------------------------------
(* One subject at a time.                                                   *)

Init ==
    /\ subject \in {"coverage", "graph", "admission", "health", "transfer", "rendering", "binding"}
    /\ CoverageInit /\ (subject # "coverage" => coverage.kind = "Buffer")
    /\ AdmissionInit /\ (subject # "admission" => request = CHOOSE d \in Demands : WellFormed(d))
    /\ GraphInit /\ HealthInit /\ TransferInit /\ RenderInit /\ BindingInit

Next ==
    /\ UNCHANGED subject
    /\ \/ /\ subject = "coverage" /\ CoverageNext
          /\ UNCHANGED <<graphVars, admissionVars, healthVars, transferVars, renderVars, bindingVars>>
       \/ /\ subject = "graph" /\ GraphNext
          /\ UNCHANGED <<coverageVars, admissionVars, healthVars, transferVars, renderVars, bindingVars>>
       \/ /\ subject = "admission" /\ AdmissionNext
          /\ UNCHANGED <<coverageVars, graphVars, healthVars, transferVars, renderVars, bindingVars>>
       \/ /\ subject = "health" /\ HealthNext
          /\ UNCHANGED <<coverageVars, graphVars, admissionVars, transferVars, renderVars, bindingVars>>
       \/ /\ subject = "transfer" /\ TransferNext
          /\ UNCHANGED <<coverageVars, graphVars, admissionVars, healthVars, renderVars, bindingVars>>
       \/ /\ subject = "rendering" /\ RenderNext
          /\ UNCHANGED <<coverageVars, graphVars, admissionVars, healthVars, transferVars, bindingVars>>
       \/ /\ subject = "binding" /\ BindingNext
          /\ UNCHANGED <<coverageVars, graphVars, admissionVars, healthVars, transferVars, renderVars>>

Spec == Init /\ [][Next]_<<subject, coverageVars, graphVars, admissionVars, healthVars, transferVars, renderVars, bindingVars>>
=============================================================================
