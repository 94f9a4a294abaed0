----------------------------- MODULE Resources -----------------------------
(***************************************************************************)
(* Resource descriptors and what the created device makes of them: the     *)
(* checks of every descriptor constructor (src/api/resource.rs) and the    *)
(* lowering that admits a descriptor on a device and picks its native      *)
(* usages (src/backend/wgpu/resource_realization/lowering.rs).             *)
(*                                                                         *)
(* Descriptors are records; a missing choice is "None". What the device    *)
(* and its adapter support is the constant Device: features admitted,      *)
(* format roles admitted, size limits (the least of the created device's   *)
(* and of the admitted workload's), the native switches wgpu reports, and  *)
(* the native usages and sample counts of each format.                     *)
(***************************************************************************)
EXTENDS Formats, FiniteSets

CONSTANT Device

\* A feature needed under a condition.
When(condition, feature) == IF condition THEN {feature} ELSE {}

-----------------------------------------------------------------------------
(* What every descriptor shares.                                           *)

\* Retained contents nobody can rebuild are taken only when their loss was explicitly accepted.
ValidCommon(c) ==
    CASE c.ownership = "Owned"    -> /\ c.lifetime = "Retained" /\ c.rebuild = "Never" => c.riskAccepted
                                     /\ c.riskAccepted => c.lifetime = "Retained" /\ c.rebuild = "Never"
      [] c.ownership = "Imported" -> c.memory = "Device" /\ c.rebuild = "Externally" /\ ~c.riskAccepted
      [] OTHER                    -> /\ c.lifetime = "Transient" /\ c.memory = "Device"
                                     /\ c.rebuild = "Externally" /\ ~c.riskAccepted

-----------------------------------------------------------------------------
(* Buffers.                                                                *)

ValidBufferMemory(d) ==
    /\ d.common.memory = "Upload"   => "CopySource" \in d.usages
    /\ d.common.memory = "Readback" => "CopyDestination" \in d.usages
    /\ d.initial = "prepared" => d.common.memory = "Device" /\ "CopyDestination" \in d.usages

ValidBuffer(d) ==
    /\ ValidCommon(d.common)
    /\ d.usages # {}
    /\ d.size > 0
    /\ d.common.ownership # "SurfaceAcquired"
    /\ d.common.ownership # "Owned" => d.initial = "none"
    /\ ValidBufferMemory(d)
    /\ d.initial = "prepared" => d.prepared = d.size

-----------------------------------------------------------------------------
(* Textures.                                                               *)

ValidTextureUsages(usages) ==
    /\ usages # {}
    /\ "TransientAttachment" \in usages =>
          \E role \in {"ColorAttachment", "DepthStencilAttachment"} :
              usages = {"TransientAttachment", role}

ValidExtent(dimension, e) ==
    /\ e.width > 0 /\ e.height > 0 /\ e.depth > 0
    /\ dimension = "D1" => e.height = 1 /\ e.depth = 1

\* Row stride and rows per image of host bytes cover the block rows they lay out.
ValidRows(footprint, images, rowBytes, imageRows) ==
    /\ rowBytes >= footprint.row
    /\ images > 1 \/ imageRows # 0 => imageRows >= footprint.rows

\* The bytes a row layout spans, from its first byte to the last byte of the last block row.
LayoutSpan(footprint, images, rowBytes, imageRows) ==
    (images - 1) * rowBytes * imageRows + (footprint.rows - 1) * rowBytes + footprint.row

ValidPrepared(p) ==
    LET footprint == Footprint(p.format, "All", p.extent.width, p.extent.height)
    IN  /\ footprint.known
        /\ p.rowBytes > 0
        /\ ValidRows(footprint, p.extent.depth, p.rowBytes, p.imageRows)
        /\ p.length >= LayoutSpan(footprint, p.extent.depth, p.rowBytes, p.imageRows)

\* The number of mip levels down to one texel: the bits of the largest extent.
MaxMips(dimension, e) ==
    LET largest == IF dimension = "D3" /\ e.depth > e.width /\ e.depth > e.height THEN e.depth
                   ELSE IF e.width > e.height THEN e.width ELSE e.height
    IN  CHOOSE n \in 1 .. 32 : 2^(n - 1) <= largest /\ largest < 2^n

SampleCounts         == {1, 2, 4, 8, 16}
AttachmentUsages     == {"ColorAttachment", "DepthStencilAttachment"}
StorageUsages        == {"StorageRead", "StorageWrite"}

ValidSamples(d) ==
    /\ d.samples \in SampleCounts
    /\ IsCompressed(d.format) => d.samples = 1
    /\ d.samples > 1 => /\ d.dimension = "D2" /\ d.mips = 1
                        /\ d.usages \cap AttachmentUsages # {}
                        /\ d.usages \cap StorageUsages = {}

ValidFormatUsages(f, usages) ==
    LET planes == SupportsAspect(f, "DepthOnly") \/ SupportsAspect(f, "StencilOnly")
        opaque == usages \cap (StorageUsages \cup {"ColorAttachment"}) = {}
    IN  /\ planes \/ IsCompressed(f) => opaque
        /\ ~planes => "DepthStencilAttachment" \notin usages
        /\ Semantics[f].srgb => usages \cap StorageUsages = {}

ValidTransient(d) ==
    "TransientAttachment" \in d.usages =>
        /\ d.common.ownership = "Owned"
        /\ d.dimension = "D2" /\ d.extent.depth = 1 /\ d.mips = 1
        /\ d.initial = "none"

ValidTexture(d) ==
    /\ ValidCommon(d.common)
    /\ ValidTextureUsages(d.usages)
    /\ d.common.memory = "Device"
    /\ ValidExtent(d.dimension, d.extent)
    /\ IsCompressed(d.format) => /\ d.dimension = "D2"
                                 /\ d.extent.width % Semantics[d.format].width = 0
                                 /\ d.extent.height % Semantics[d.format].height = 0
    /\ d.common.ownership # "Owned" => d.initial = "none"
    /\ ValidTransient(d)
    /\ IsDepth(d.format) \/ IsStencil(d.format) => d.dimension = "D2"
    /\ d.dimension = "D1" => d.usages \cap AttachmentUsages = {}
    /\ d.mips \in 1 .. MaxMips(d.dimension, d.extent)
    /\ ValidSamples(d)
    /\ ValidFormatUsages(d.format, d.usages)
    /\ d.initial = "prepared" => /\ d.samples = 1
                                 /\ "CopyDestination" \in d.usages
                                 /\ ValidPrepared(d.prepared)
                                 /\ d.prepared.format = d.format /\ d.prepared.extent = d.extent

ArrayLayers(d) == IF d.dimension = "D2" THEN d.extent.depth ELSE 1

\* The extent of one mip level; only the depth of a volume shrinks with it.
MipExtent(d, mip) ==
    LET shrunk(n) == IF n \div 2^mip = 0 THEN 1 ELSE n \div 2^mip
    IN  [width  |-> shrunk(d.extent.width),
         height |-> shrunk(d.extent.height),
         depth  |-> IF d.dimension = "D3" THEN shrunk(d.extent.depth) ELSE ArrayLayers(d)]

-----------------------------------------------------------------------------
(* Views, samplers and query sets.                                         *)

ParentDimension(view) ==
    CASE view \in {"D2", "D2Array", "Cube", "CubeArray"} -> "D2"
      [] OTHER                                           -> view

ValidViewShape(v, parent) ==
    LET square == parent.extent.width = parent.extent.height
    IN  /\ CASE v.dimension = "D2Array"   -> TRUE
             [] v.dimension = "Cube"      -> v.layers = 6 /\ square
             [] v.dimension = "CubeArray" -> v.layers % 6 = 0 /\ square
             [] OTHER                     -> v.layers = 1
        /\ \/ parent.samples = 1
           \/ v.dimension = "D2"
           \/ v.dimension = "D2Array" /\ parent.extent.depth > 1

ValidView(v, parent) ==
    /\ v.common.memory = "Device"
    /\ v.common.ownership = parent.common.ownership
    /\ parent.common.lifetime = "Transient" => v.common.lifetime = "Transient"
    /\ ParentDimension(v.dimension) = parent.dimension
    /\ v.mips > 0 /\ v.layers > 0
    /\ v.mip + v.mips <= parent.mips
    /\ v.layer + v.layers <= ArrayLayers(parent)
    /\ ValidViewShape(v, parent)
    /\ SupportsAspect(parent.format, v.aspect)
    /\ "TransientAttachment" \in parent.usages =>
          /\ v.dimension = "D2"
          /\ FormatAspect(parent.format, v.aspect) = WholeAspect(parent.format)
          /\ v.format \in {"None", parent.format}
    /\ v.format # "None" => ViewCompatible(parent.format, v.format)

ViewFormat(v, parent) == IF v.format = "None" THEN parent.format ELSE v.format

\* The planes of a parent texture that an aspect selects.
AspectPlanes(f, aspect) ==
    IF FormatAspect(f, aspect) = "All" THEN {"DepthOnly", "StencilOnly"} ELSE {FormatAspect(f, aspect)}

MaxQueries == 4096

ValidQuerySet(d) ==
    /\ d.common.memory = "Device"
    /\ d.common.ownership # "SurfaceAcquired"
    /\ d.count \in 1 .. MaxQueries

-----------------------------------------------------------------------------
(* Lowering to the created device.                                         *)

NativeBufferUsage(usage) ==
    [Uniform |-> "UNIFORM", Storage |-> "STORAGE", Vertex |-> "VERTEX", Index |-> "INDEX",
     Indirect |-> "INDIRECT", CopySource |-> "COPY_SRC", CopyDestination |-> "COPY_DST",
     QueryResolve |-> "QUERY_RESOLVE"][usage]

NativeTextureUsage(usage) ==
    [Sampled |-> "TEXTURE_BINDING", StorageRead |-> "STORAGE_BINDING", StorageWrite |-> "STORAGE_BINDING",
     ColorAttachment |-> "RENDER_ATTACHMENT", DepthStencilAttachment |-> "RENDER_ATTACHMENT",
     TransientAttachment |-> "TRANSIENT_ATTACHMENT", CopySource |-> "COPY_SRC",
     CopyDestination |-> "COPY_DST"][usage]

NativeBufferUsages(d) ==
    {NativeBufferUsage(u) : u \in d.usages}
    \cup [Device |-> {}, Upload |-> {"MAP_WRITE"}, Readback |-> {"MAP_READ"}][d.common.memory]

NativeTextureUsages(usages) == {NativeTextureUsage(u) : u \in usages}

BufferFeatures(usages) ==
    (IF usages \cap {"CopySource", "CopyDestination"} # {} THEN {"Copy"} ELSE {})
    \cup (IF "Indirect" \in usages THEN {"IndirectExecution"} ELSE {})
    \cup (IF "QueryResolve" \in usages THEN {"TimestampQuery"} ELSE {})

\* Mapped buffers combine with their one transfer direction only, unless the device lifts that.
MappableTogether(native) ==
    \/ "MAPPABLE_PRIMARY_BUFFERS" \in Device.native
    \/ /\ "MAP_WRITE" \in native => native \subseteq {"MAP_WRITE", "COPY_SRC"}
       /\ "MAP_READ"  \in native => native \subseteq {"MAP_READ", "COPY_DST"}

LowersBuffer(d) ==
    /\ d.common.ownership = "Owned"
    /\ BufferFeatures(d.usages) \subseteq Device.features
    /\ "Indirect" \in d.usages => "INDIRECT_EXECUTION" \in Device.native
    /\ d.size <= Device.maxBuffer
    /\ MappableTogether(NativeBufferUsages(d))
    /\ "Index" \in d.usages /\ d.usages \cap {"Vertex", "Uniform", "Indirect", "Storage"} # {}
          => "UNRESTRICTED_INDEX_BUFFER" \in Device.native

TextureFeatures(usages) ==
    (IF usages \cap StorageUsages # {} THEN {"StorageTexture"} ELSE {})
    \cup (IF "ColorAttachment" \in usages THEN {"RenderPipeline"} ELSE {})
    \cup (IF "DepthStencilAttachment" \in usages THEN {"DepthAttachment"} ELSE {})
    \cup (IF usages \cap {"CopySource", "CopyDestination"} # {} THEN {"Copy"} ELSE {})

\* The context request names each format role it will use; transient contents need none.
AdmittedRoles(f, usages) ==
    /\ \A u \in usages \ {"TransientAttachment"} : <<f, u>> \in Device.roles
    /\ TextureFeatures(usages) \subseteq Device.features

WithinLimits(d) ==
    CASE d.dimension = "D1" -> d.extent.width <= Device.maxSide
      [] d.dimension = "D2" -> d.extent.width <= Device.maxSide /\ d.extent.height <= Device.maxSide
                               /\ d.extent.depth <= Device.maxLayers
      [] OTHER              -> \A n \in {d.extent.width, d.extent.height, d.extent.depth} : n <= Device.maxSide

Reinterprets(d) == "TransientAttachment" \notin d.usages /\ "VIEW_FORMATS" \in Device.native

LowersTexture(d) ==
    /\ d.common.ownership = "Owned"
    /\ d.samples > 1 /\ d.extent.depth > 1 => "MultisampleArray" \in Device.features
    /\ AdmittedRoles(d.format, d.usages)
    /\ WithinLimits(d)
    /\ NativeTextureUsages(d.usages) \subseteq Device.formatUsages[d.format]
    /\ \A u \in d.usages \cap StorageUsages : <<d.format, u>> \in Device.storage
    /\ d.samples \in Device.samples[d.format]

\* A view in another format is admitted only where the parent could have been made in that format.
LowersView(v, parent) ==
    /\ v.common.ownership = "Owned"
    /\ ViewFormat(v, parent) # parent.format =>
          /\ Reinterprets(parent)
          /\ AdmittedRoles(ViewFormat(v, parent), parent.usages)
          /\ NativeTextureUsages(parent.usages) \subseteq Device.formatUsages[ViewFormat(v, parent)]

LowersQuerySet(d) == d.common.ownership = "Owned" /\ "TimestampQuery" \in Device.features
=============================================================================
