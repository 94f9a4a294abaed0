----------------------------- MODULE Transfers -----------------------------
(***************************************************************************)
(* One piece of transfer work, from the resources it names to the bytes it *)
(* moves: the construction of copy regions, buffer-texture layouts and     *)
(* copies (src/api/work/copy.rs, src/api/transfer.rs, query.rs), their     *)
(* preparation for the device, and the staging layouts through which host  *)
(* bytes reach and leave a texture (src/backend/wgpu/execution.rs).        *)
(*                                                                         *)
(* Bytes are tracked one by one. A place is <<"texture", t, mip, x, y, z,  *)
(* b>> (byte b of the block at x, y, z), <<"host", i>> (byte i of the      *)
(* payload or of the readback), <<"buffer", i>>, or <<"query", q, b>>;     *)
(* moved is the set of <<from, to>> pairs. RowAlignment stands for wgpu's  *)
(* 256-byte row pitch, BufferAlignment for its copy alignment, and         *)
(* ResolveAlignment for the alignment of resolved queries. RegionsOf(d)    *)
(* are the mip levels, aspects, origins and extents tried on a texture.    *)
(* Regions and work keep the descriptors of the handles they name.         *)
(***************************************************************************)
EXTENDS Resources, Sequences

CONSTANTS
    RowAlignment, BufferAlignment, ResolveAlignment,
    TextureChoice,    \* the pairs of texture descriptors a caller asks for
    BufferChoice,     \* the buffer descriptors a caller asks for
    RegionsOf(_),
    RowPitch, ImageRows, Offset, RangeSize,   \* the layout numbers a caller tries
    QueryDescriptor   \* the query set to resolve

VARIABLES
    stage,       \* "empty", "described", "requested", "refused", "broken" or "done"
    textures,    \* the two texture descriptors at hand
    buffer,      \* the buffer descriptor at hand
    work,        \* the transfer asked for
    moved        \* the bytes it moved

transferVars == <<stage, textures, buffer, work, moved>>

AlignUp(value, alignment) ==
    IF value % alignment = 0 THEN value ELSE value + (alignment - (value % alignment))

-----------------------------------------------------------------------------
(* Copy regions.                                                           *)

Texture(region) == region.of

Width(d)  == Semantics[d.format].width
Height(d) == Semantics[d.format].height

\* A mip's extent rounded up to whole blocks.
PhysicalExtent(d, mip) ==
    [MipExtent(d, mip) EXCEPT !.width  = BlockCount(@, Width(d)) * Width(d),
                              !.height = BlockCount(@, Height(d)) * Height(d)]

ValidRegion(region) ==
    LET d        == Texture(region)
        logical  == MipExtent(d, region.mip)
        physical == PhysicalExtent(d, region.mip)
        origin   == region.origin
        extent   == region.extent
    IN  /\ extent.width > 0 /\ extent.height > 0 /\ extent.depth > 0
        /\ d.samples = 1 /\ region.mip < d.mips
        /\ FormatAspect(d.format, region.aspect) # "None"
        /\ origin.x % Width(d) = 0 /\ extent.width % Width(d) = 0
        /\ origin.y % Height(d) = 0 /\ extent.height % Height(d) = 0
        /\ d.dimension = "D1" => origin.y = 0 /\ origin.z = 0 /\ extent.height = 1 /\ extent.depth = 1
        /\ origin.x + extent.width <= physical.width
        /\ origin.y + extent.height <= physical.height
        /\ origin.z + extent.depth <= logical.depth
        /\ RequiresFullPlane(d.format) =>
              /\ origin.x = 0 /\ origin.y = 0
              /\ extent.width = logical.width /\ extent.height = logical.height

Selected(region) == FormatAspect(Texture(region).format, region.aspect)

\* The array layers a region touches; a volume or a line is its single layer 0.
RegionLayers(region) ==
    IF Texture(region).dimension = "D2" THEN region.origin.z .. region.origin.z + region.extent.depth - 1
    ELSE {0}

RegionFootprint(region) ==
    Footprint(Texture(region).format, region.aspect, region.extent.width, region.extent.height)

TextureAllows(region, usage) == usage \in Texture(region).usages

-----------------------------------------------------------------------------
(* Buffer ranges and buffer-texture layouts.                               *)

ValidRange(b, range) == range.size > 0 /\ range.offset + range.size <= b.size

BufferAllows(b, range, usage) == ValidRange(b, range) /\ usage \in b.usages

LayoutRange(layout, region) ==
    [offset |-> layout.offset,
     size   |-> LayoutSpan(RegionFootprint(region), region.extent.depth, layout.rowBytes,
                           IF region.extent.depth > 1 THEN layout.imageRows ELSE 0)]

ValidLayout(b, layout, region, usage) ==
    LET footprint == RegionFootprint(region)
    IN  /\ layout.rowBytes > 0 /\ layout.offset < b.size
        /\ footprint.known
        /\ layout.offset % CopyBlockSize(Texture(region).format, region.aspect) = 0
        /\ ValidRows(footprint, region.extent.depth, layout.rowBytes, layout.imageRows)
        /\ BufferAllows(b, LayoutRange(layout, region), usage)

-----------------------------------------------------------------------------
(* Construction of each kind of transfer.                                  *)

ValidTextureCopy(from, to) ==
    LET source == Texture(from) target == Texture(to)
    IN  /\ CopyCompatible(source.format, target.format)
        /\ from.extent = to.extent
        /\ Selected(from) = Selected(to)
        /\ WholeTextureAspect(source.format, from.aspect)
        /\ WholeTextureAspect(target.format, to.aspect)
        /\ from.texture = to.texture => from.mip # to.mip \/ RegionLayers(from) \cap RegionLayers(to) = {}

ValidWork(w) ==
    CASE w.kind = "Initial" -> \* contents the descriptor of a texture, or of the buffer, came with
           (IF w.target = "texture" THEN w.of ELSE w.buffer).initial = "prepared"
      [] w.kind = "Upload" /\ w.target = "texture" ->
           /\ ValidRegion(w.region) /\ TextureAllows(w.region, "CopyDestination")
           /\ RegionFootprint(w.region).known
           /\ w.payload = TightLength(RegionFootprint(w.region), w.region.extent.depth)
      [] w.kind = "Upload" /\ w.target = "buffer" ->
           BufferAllows(w.buffer, w.range, "CopyDestination") /\ w.payload = w.range.size
      [] w.kind = "Readback" /\ w.target = "texture" ->
           ValidRegion(w.region) /\ TextureAllows(w.region, "CopySource") /\ RegionFootprint(w.region).known
      [] w.kind = "Readback" /\ w.target = "buffer" -> BufferAllows(w.buffer, w.range, "CopySource")
      [] w.kind = "Zero"     -> BufferAllows(w.buffer, w.range, "CopyDestination")
      [] w.kind = "BufferToBuffer" -> \* within one buffer, so the ranges may not overlap
           /\ w.range.size = w.to.size
           /\ w.range.offset + w.range.size <= w.to.offset \/ w.to.offset + w.to.size <= w.range.offset
           /\ BufferAllows(w.buffer, w.range, "CopySource") /\ BufferAllows(w.buffer, w.to, "CopyDestination")
      [] w.kind = "BufferToTexture" ->
           /\ ValidRegion(w.region) /\ TextureAllows(w.region, "CopyDestination")
           /\ ValidLayout(w.buffer, w.layout, w.region, "CopySource")
      [] w.kind = "TextureToBuffer" ->
           /\ ValidRegion(w.region) /\ TextureAllows(w.region, "CopySource")
           /\ ValidLayout(w.buffer, w.layout, w.region, "CopyDestination")
      [] w.kind = "TextureToTexture" ->
           /\ ValidRegion(w.region) /\ ValidRegion(w.to) /\ ValidTextureCopy(w.region, w.to)
           /\ TextureAllows(w.region, "CopySource") /\ TextureAllows(w.to, "CopyDestination")
      [] w.kind = "Resolve" ->
           /\ w.count > 0 /\ w.first + w.count <= QueryDescriptor.count
           /\ BufferAllows(w.buffer, [offset |-> w.offset, size |-> 8 * w.count], "QueryResolve")

-----------------------------------------------------------------------------
(* Staging: the row pitch the device insists on, and the tight host bytes  *)
(* its rows carry.                                                         *)

\* The pitch is forced on tall copies only, not on flat copies of several layers.
StagingUnpitched(footprint, images) ==
    LET rowCount == footprint.rows * images
        pitched  == footprint.rows > 1
        pitch    == IF pitched THEN AlignUp(footprint.row, RowAlignment) ELSE footprint.row
    IN  [row   |-> footprint.row, rows |-> rowCount, imageRows |-> footprint.rows,
         pitch |-> pitch, pitched |-> pitched,
         length |-> AlignUp(pitch * (rowCount - 1) + footprint.row, BufferAlignment)]

StagingOf(footprint, images) ==
    LET rowCount == footprint.rows * images
        pitched  == footprint.rows > 1 \/ images > 1
        pitch    == IF pitched THEN AlignUp(footprint.row, RowAlignment) ELSE footprint.row
    IN  [row   |-> footprint.row, rows |-> rowCount, imageRows |-> footprint.rows,
         pitch |-> pitch, pitched |-> pitched,
         length |-> AlignUp(pitch * (rowCount - 1) + footprint.row, BufferAlignment)]

Staging(region) == StagingOf(RegionFootprint(region), region.extent.depth)

\* The tight host byte each staging byte carries, whichever way the rows are copied.
StagedRows(s) ==
    [p \in {r * s.pitch + k : r \in 0 .. s.rows - 1, k \in 0 .. s.row - 1} |->
        ((p \div s.pitch) * s.row) + (p % s.pitch)]

StagingLayout(region, s) ==
    [offset    |-> 0,
     rowBytes  |-> IF s.pitched THEN s.pitch ELSE 0,
     imageRows |-> IF region.extent.depth > 1 THEN s.imageRows ELSE 0]

\* Rows per image are passed on with the row pitch of tall copies only.
DirectLayoutTall(layout, region) ==
    LET tall == RegionFootprint(region).rows > 1
    IN  [offset    |-> layout.offset,
         rowBytes  |-> IF tall \/ region.extent.depth > 1 THEN layout.rowBytes ELSE 0,
         imageRows |-> IF tall THEN layout.imageRows ELSE 0]

DirectLayout(layout, region) ==
    LET images == region.extent.depth > 1
    IN  [offset    |-> layout.offset,
         rowBytes  |-> IF RegionFootprint(region).rows > 1 \/ images THEN layout.rowBytes ELSE 0,
         imageRows |-> IF images THEN layout.imageRows ELSE 0]

\* The byte of prepared content that becomes each byte of the tight payload.
PreparedRows(p) ==
    LET footprint == Footprint(p.format, "All", p.extent.width, p.extent.height)
        image     == IF p.extent.depth > 1 THEN p.rowBytes * p.imageRows ELSE 0
    IN  [i \in 0 .. TightLength(footprint, p.extent.depth) - 1 |->
            LET line == i \div footprint.row
            IN  ((line \div footprint.rows) * image) + ((line % footprint.rows) * p.rowBytes) + (i % footprint.row)]

-----------------------------------------------------------------------------
(* What the device does with a copy command (wgpu).                        *)

\* Between textures both planes of a depth/stencil format move together.
BlockBytes(region) ==
    LET Bytes(row, aspect) == IF aspect = "All" THEN row.depth + row.stencil ELSE BytesOf(row, aspect)
    IN  Bytes(Semantics[Texture(region).format], Selected(region))
Wide(region)       == BlockCount(region.extent.width, Width(Texture(region)))
High(region)       == BlockCount(region.extent.height, Height(Texture(region)))

\* The bytes of a region's blocks, by block within the region.
BlockPlaces(region) ==
    (0 .. Wide(region) - 1) \X (0 .. High(region) - 1) \X (0 .. region.extent.depth - 1)
        \X (0 .. BlockBytes(region) - 1)

Cell(region, at) ==
    LET d == Texture(region)
    IN  <<"texture", region.texture, region.mip, region.origin.x \div Width(d) + at[1],
          region.origin.y \div Height(d) + at[2], region.origin.z + at[3], at[4]>>

\* Each cell with its byte under a layout; an absent row pitch or image height (0) is the copy's own.
DevicePairs(region, layout) ==
    LET Pairs(bytes, row, image) ==
          {<<Cell(region, at), layout.offset + (at[3] * image + at[2]) * row + at[1] * bytes + at[4]>> :
              at \in BlockPlaces(region)}
    IN  Pairs(BlockBytes(region),
              IF layout.rowBytes = 0 THEN Wide(region) * BlockBytes(region) ELSE layout.rowBytes,
              IF layout.imageRows = 0 THEN High(region) ELSE layout.imageRows)

\* The device takes a row pitch and an image height absent only where there is no second row or image.
DeviceAccepts(region, layout) ==
    /\ layout.rowBytes = 0 => High(region) = 1 /\ region.extent.depth = 1
    /\ layout.imageRows = 0 => region.extent.depth = 1
    /\ layout.rowBytes % RowAlignment = 0

Reversed(pairs) == {<<p[2], p[1]>> : p \in pairs}

BufferByte(i) == <<"buffer", i>>

\* A copy between a texture and a staging buffer joined with the host rows of that buffer.
StagedPairs(region, s) ==
    LET host == StagedRows(s)
    IN  {<<p[1], IF p[2] \in DOMAIN host THEN <<"host", host[p[2]]>> ELSE <<"padding", p[2]>>>> :
            p \in DevicePairs(region, StagingLayout(region, s))}

DirectPairs(region, layout) ==
    {<<p[1], BufferByte(p[2])>> : p \in DevicePairs(region, DirectLayout(layout, region))}

-----------------------------------------------------------------------------
(* Preparation for the device, and the command encoded.                    *)

\* Prepared content becomes an upload over the whole first level of every aspect.
InitialRegion(w) ==
    [texture |-> w.texture, of |-> w.of, mip |-> 0, aspect |-> "All", origin |-> [x |-> 0, y |-> 0, z |-> 0],
     extent |-> w.of.extent]

WorkRegions(w) ==
    CASE w.kind = "Initial" /\ w.target = "texture"                 -> {InitialRegion(w)}
      [] w.kind \in {"Upload", "Readback"} /\ w.target = "texture"  -> {w.region}
      [] w.kind \in {"BufferToTexture", "TextureToBuffer"}          -> {w.region}
      [] w.kind = "TextureToTexture"                                -> {w.region, w.to}
      [] OTHER                                                      -> {}

UsesBuffer(w) ==
    IF w.kind \in {"Initial", "Upload", "Readback"} THEN w.target = "buffer" ELSE w.kind # "TextureToTexture"

Realizable(w) ==
    /\ \A region \in WorkRegions(w) : LowersTexture(Texture(region))
    /\ UsesBuffer(w) => LowersBuffer(w.buffer)
    /\ w.kind = "Resolve" => LowersQuerySet(QueryDescriptor)

\* Buffer ranges copied or cleared whole, which must sit on the copy alignment.
CopiedRanges(w) ==
    CASE w.kind = "Initial" /\ w.target = "buffer" -> {[offset |-> 0, size |-> w.buffer.size]}
      [] w.kind \in {"Upload", "Readback"} /\ w.target = "buffer" -> {w.range}
      [] w.kind = "Zero"                           -> {w.range}
      [] w.kind = "BufferToBuffer"                 -> {w.range, w.to}
      [] OTHER                                     -> {}

Encodable(w) ==
    /\ \A range \in CopiedRanges(w) : range.offset % BufferAlignment = 0 /\ range.size % BufferAlignment = 0
    /\ w.kind \in {"BufferToTexture", "TextureToBuffer"} =>
          \/ RegionFootprint(w.region).rows = 1 /\ w.region.extent.depth = 1
          \/ w.layout.rowBytes % RowAlignment = 0
    /\ w.kind = "Resolve" => w.offset % ResolveAlignment = 0

ValidDataLayout(length, alignment, stride, elements) ==
    /\ length > 0 /\ elements > 0 /\ stride > 0
    /\ \E n \in 0 .. 31 : alignment = 2^n
    /\ stride % alignment = 0
    /\ stride * elements = length

\* What preparation and encoding take for granted and report as an internal fault when it is not so.
Coherent(w) ==
    CASE w.kind = "Initial" /\ w.target = "texture" ->
           LET p == w.of.prepared
               region == InitialRegion(w)
               rows == PreparedRows(p)
           IN  /\ ValidRegion(region)
               /\ RegionFootprint(region).known
               /\ \A i \in DOMAIN rows : rows[i] < p.length
               /\ Cardinality(DOMAIN rows) = TightLength(RegionFootprint(region), region.extent.depth)
      [] w.kind = "Upload" /\ w.target = "texture" ->
           w.payload = TightLength(RegionFootprint(w.region), w.region.extent.depth)
      [] w.kind = "Readback" /\ w.target = "texture" ->
           LET s == Staging(w.region)
           IN  /\ ValidDataLayout(s.row * s.rows, BlockBytes(w.region), s.row, s.rows)
               /\ Cardinality(DOMAIN StagedRows(s)) = s.row * s.rows
      [] w.kind = "Readback" /\ w.target = "buffer" -> ValidDataLayout(w.range.size, 1, w.range.size, 1)
      [] OTHER -> TRUE

\* The bytes the encoded commands move, host staging included.
MovedBy(w) ==
    CASE w.kind = "Initial" /\ w.target = "texture" ->
           LET rows == PreparedRows(w.of.prepared)
           IN  {<<IF p[2][1] = "host" THEN <<"host", rows[p[2][2]]>> ELSE p[2], p[1]>> :
                   p \in StagedPairs(InitialRegion(w), Staging(InitialRegion(w)))}
      [] w.kind = "Initial" /\ w.target = "buffer" ->
           {<<<<"host", i>>, BufferByte(i)>> : i \in 0 .. w.buffer.prepared - 1}
      [] w.kind = "Upload" /\ w.target = "texture"   -> Reversed(StagedPairs(w.region, Staging(w.region)))
      [] w.kind = "Upload" /\ w.target = "buffer" ->
           {<<<<"host", i>>, BufferByte(w.range.offset + i)>> : i \in 0 .. w.payload - 1}
      [] w.kind = "Readback" /\ w.target = "texture" -> StagedPairs(w.region, Staging(w.region))
      [] w.kind = "Readback" /\ w.target = "buffer" ->
           {<<BufferByte(w.range.offset + i), <<"host", i>>>> : i \in 0 .. w.range.size - 1}
      [] w.kind = "Zero" ->
           {<<<<"zero">>, BufferByte(w.range.offset + i)>> : i \in 0 .. w.range.size - 1}
      [] w.kind = "BufferToBuffer" ->
           {<<BufferByte(w.range.offset + i), BufferByte(w.to.offset + i)>> : i \in 0 .. w.range.size - 1}
      [] w.kind = "BufferToTexture"  -> Reversed(DirectPairs(w.region, w.layout))
      [] w.kind = "TextureToBuffer"  -> DirectPairs(w.region, w.layout)
      [] w.kind = "TextureToTexture" -> {<<Cell(w.region, at), Cell(w.to, at)>> : at \in BlockPlaces(w.region)}
      [] w.kind = "Resolve" ->
           {<<<<"query", w.first + q, b>>, BufferByte(w.offset + 8 * q + b)>> : q \in 0 .. w.count - 1, b \in 0 .. 7}

-----------------------------------------------------------------------------
(* What descriptors and requests are made of: natural numbers, and sizes   *)
(* of 32 bits in an extent.                                                *)

TypedExtent(e) == \A n \in {e.width, e.height, e.depth} : n \in Nat /\ \E bits \in 0 .. 32 : n < 2^bits

TypedTexture(d) ==
    /\ d.format \in Format /\ d.dimension \in {"D1", "D2", "D3"}
    /\ TypedExtent(d.extent) /\ d.mips \in Nat
    /\ d.initial = "prepared" => {d.prepared.rowBytes, d.prepared.imageRows, d.prepared.length} \subseteq Nat

TypedProbe(r) == TypedExtent(r.extent) /\ {r.mip, r.origin.x, r.origin.y, r.origin.z} \subseteq Nat

ASSUME TransferConstants ==
    /\ {RowAlignment, BufferAlignment, ResolveAlignment} \subseteq Nat \ {0}
    /\ RowPitch \cup ImageRows \cup Offset \cup RangeSize \subseteq Nat
    /\ \A pair \in TextureChoice, k \in 1 .. 2 :
          TypedTexture(pair[k]) /\ \A r \in RegionsOf(pair[k]) : TypedProbe(r)
    /\ \A b \in BufferChoice : b.size \in Nat

-----------------------------------------------------------------------------
(* A caller describes resources, asks for work on them, and executes it.   *)

Regions(t) ==
    {[texture |-> t, of |-> textures[t], mip |-> r.mip, aspect |-> r.aspect, origin |-> r.origin, extent |-> r.extent] :
        r \in RegionsOf(textures[t])}

BufferRanges == [offset : Offset, size : RangeSize]
Layouts == [offset : Offset, rowBytes : RowPitch, imageRows : ImageRows]

Describe ==
    /\ stage = "empty"
    /\ \E pair \in TextureChoice, b \in BufferChoice :
          /\ \A k \in 1 .. 2 : ValidTexture(pair[k])
          /\ ValidBuffer(b)
          /\ textures' = pair /\ buffer' = b
    /\ ValidQuerySet(QueryDescriptor)
    /\ stage' = "described"
    /\ UNCHANGED <<work, moved>>

Request(w) ==
    /\ ValidWork(w)
    /\ work' = w /\ stage' = "requested"
    /\ UNCHANGED <<textures, buffer, moved>>

BufferRequests ==
    {[kind |-> "Initial", target |-> "buffer", buffer |-> buffer]}
    \cup {[kind |-> "Upload", target |-> "buffer", buffer |-> buffer, range |-> range, payload |-> range.size] :
             range \in BufferRanges}
    \cup [kind : {"Readback"}, target : {"buffer"}, buffer : {buffer}, range : BufferRanges]
    \cup [kind : {"Zero"}, buffer : {buffer}, range : BufferRanges]
    \cup [kind : {"BufferToBuffer"}, buffer : {buffer}, range : BufferRanges, to : BufferRanges]
    \cup [kind : {"Resolve"}, buffer : {buffer}, first : 0 .. QueryDescriptor.count,
          count : 0 .. QueryDescriptor.count, offset : Offset]

RequestBufferWork == stage = "described" /\ \E w \in BufferRequests : Request(w)

TextureRequests(regions) ==
    {[kind |-> "Initial", target |-> "texture", texture |-> t, of |-> textures[t]] : t \in 1 .. 2}
    \cup {[kind |-> "Upload", target |-> "texture", region |-> region,
           payload |-> TightLength(RegionFootprint(region), region.extent.depth)] : region \in regions}
    \cup [kind : {"Readback"}, target : {"texture"}, region : regions]
    \cup [kind : {"BufferToTexture", "TextureToBuffer"}, buffer : {buffer}, region : regions, layout : Layouts]
    \cup [kind : {"TextureToTexture"}, region : regions, to : regions]

RequestTextureWork ==
    stage = "described" /\ \E w \in TextureRequests(UNION {Regions(t) : t \in 1 .. 2}) : Request(w)

Execute ==
    /\ stage = "requested"
    /\ stage' = IF ~Realizable(work) \/ ~Encodable(work) THEN "refused"
                ELSE IF Coherent(work) THEN "done" ELSE "broken"
    /\ moved' = IF stage' = "done" THEN MovedBy(work) ELSE {}
    /\ UNCHANGED <<textures, buffer, work>>

TransferInit == stage = "empty" /\ textures = <<>> /\ buffer = <<>> /\ work = <<>> /\ moved = {}

TransferNext == Describe \/ RequestBufferWork \/ RequestTextureWork \/ Execute

TransferSpec == TransferInit /\ [][TransferNext]_transferVars

-----------------------------------------------------------------------------
(* Properties.                                                             *)

\* The byte of a tight or strided host or buffer layout a caller means by a byte of a block.
Meant(region, at, offset, rowBytes, imageBytes) ==
    offset + at[3] * imageBytes + at[2] * rowBytes + at[1] * BlockBytes(region) + at[4]

Promised(w) ==
    LET tight(region, at) == LET row == Wide(region) * BlockBytes(region)
                             IN  <<"host", Meant(region, at, 0, row, row * High(region))>>
        laid(at) == BufferByte(Meant(w.region, at, w.layout.offset, w.layout.rowBytes,
                                     w.layout.rowBytes * w.layout.imageRows))
        source(at) == LET p == w.of.prepared
                      IN  <<"host", Meant(InitialRegion(w), at, 0, p.rowBytes, p.rowBytes * p.imageRows)>>
    IN  CASE w.kind = "Upload"          -> {<<tight(w.region, at), Cell(w.region, at)>> : at \in BlockPlaces(w.region)}
          [] w.kind = "Readback"        -> {<<Cell(w.region, at), tight(w.region, at)>> : at \in BlockPlaces(w.region)}
          [] w.kind = "BufferToTexture" -> {<<laid(at), Cell(w.region, at)>> : at \in BlockPlaces(w.region)}
          [] w.kind = "TextureToBuffer" -> {<<Cell(w.region, at), laid(at)>> : at \in BlockPlaces(w.region)}
          [] w.kind = "Initial"         -> {<<source(at), Cell(InitialRegion(w), at)>> :
                                               at \in BlockPlaces(InitialRegion(w))}

\* Every byte of a region arrives where the caller's layout says, whatever pitch, padding and absent
\* layout numbers the copy went through on the way: texture staging, prepared content and direct
\* copies (TextureStagingLayout, normalize_prepared_texture_payload, wgpu_buffer_texture_copy_layout).
TransfersMoveExactly ==
    stage = "done" /\ work.kind # "TextureToTexture" /\ WorkRegions(work) # {} => moved = Promised(work)

\* The bytes a buffer-texture layout is tracked to initialize: one segment per block row and image.
TrackedLayout(layout, region) ==
    LET footprint == RegionFootprint(region)
        group     == IF region.extent.depth > 1 THEN layout.rowBytes * layout.imageRows ELSE 0
    IN  {layout.offset + z * group + y * layout.rowBytes + k :
            z \in 0 .. region.extent.depth - 1, y \in 0 .. footprint.rows - 1, k \in 0 .. footprint.row - 1}

\* A buffer-texture copy touches the bytes its tracked coverage claims and ends where its access ends.
LayoutIsHonest(w, touched) ==
    LET range == LayoutRange(w.layout, w.region)
    IN  /\ touched = TrackedLayout(w.layout, w.region)
        /\ range.offset \in touched /\ range.offset + range.size - 1 \in touched
        /\ \A i \in touched : i < range.offset + range.size

Needed(w) ==
    [buffer |-> IF w.kind \in {"BufferToTexture", "Readback", "BufferToBuffer"} THEN {"COPY_SRC"} ELSE {},
     write  |-> IF w.kind \in {"Initial", "Upload", "Zero", "BufferToBuffer", "TextureToBuffer"} THEN {"COPY_DST"}
                ELSE IF w.kind = "Resolve" THEN {"QUERY_RESOLVE"} ELSE {}]

\* The rows a staged copy moves lie in the staging buffer, whose size the device can copy.
StagingFits(region, s) ==
    /\ DeviceAccepts(region, StagingLayout(region, s))
    /\ s.length % BufferAlignment = 0
    /\ \A p \in DevicePairs(region, StagingLayout(region, s)) : p[2] < s.length

\* No transfer that was admitted fails on an internal assumption, has a layout the device cannot copy or
\* needs a native usage its resources were not made with, and none touches a byte outside its buffer,
\* staging buffer or mip level, beyond the buffer bytes its declared access and its tracked
\* initialization name, or both as source and as destination.
AdmittedTransfersStayInside ==
    /\ stage # "broken"
    /\ stage = "done" =>
          LET places  == {p[1] : p \in moved} \cup {p[2] : p \in moved}
              touched == {p[2] : p \in {q \in places : q[1] = "buffer"}}
          IN  /\ \A i \in touched : i < buffer.size
              /\ {p[1] : p \in moved} \cap {p[2] : p \in moved} = {}
              /\ UsesBuffer(work) =>
                    Needed(work).buffer \cup Needed(work).write \subseteq NativeBufferUsages(buffer)
              /\ work.kind \in {"BufferToTexture", "TextureToBuffer"} =>
                    /\ DeviceAccepts(work.region, DirectLayout(work.layout, work.region))
                    /\ LayoutIsHonest(work, touched)
              /\ work.kind \in {"Initial", "Upload", "Readback"} =>
                    \A region \in WorkRegions(work) : StagingFits(region, Staging(region))
              /\ \A p \in places : p[1] = "texture" =>
                    LET d == textures[p[2]] level == MipExtent(d, p[3])
                    IN  /\ p[4] < BlockCount(level.width, Width(d))
                        /\ p[5] < BlockCount(level.height, Height(d))
                        /\ p[6] < level.depth
=============================================================================
