------------------------------ MODULE Formats ------------------------------
(***************************************************************************)
(* The normalized texture formats: the aspects a format has, the block its *)
(* copies move, the bytes of that block for each aspect, the linear/sRGB   *)
(* partner its views and copies may use, and what a shader or a color      *)
(* target sees of it (src/api/texture_format.rs).                          *)
(*                                                                         *)
(* A missing byte size is 0 (no format has an empty block) and a missing   *)
(* partner, aspect or scalar class is "None".                              *)
(***************************************************************************)
EXTENDS Integers

-----------------------------------------------------------------------------
(* The table, in the order of the source: bytes, scalar class and           *)
(* components of a texel; width, height, bytes and components of a block;   *)
(* class and the bytes of the depth and stencil planes of the others.       *)

ByteFormats == [
    R8Unorm  |-> <<1, "Float", 1>>,
    R8Snorm  |-> <<1, "Float", 1>>,
    R8Uint   |-> <<1, "Uint", 1>>,
    R8Sint   |-> <<1, "Sint", 1>>,
    Rg8Unorm |-> <<2, "Float", 2>>,
    Rg8Snorm |-> <<2, "Float", 2>>,
    Rg8Uint  |-> <<2, "Uint", 2>>,
    Rg8Sint  |-> <<2, "Sint", 2>>,
    R16Uint  |-> <<2, "Uint", 1>>,
    R16Sint  |-> <<2, "Sint", 1>>,
    R16Float |-> <<2, "Float", 1>>]

WordFormats == [
    Rg16Uint       |-> <<4, "Uint", 2>>,
    Rg16Sint       |-> <<4, "Sint", 2>>,
    Rg16Float      |-> <<4, "Float", 2>>,
    Rgba8Unorm     |-> <<4, "Float", 4>>,
    Rgba8UnormSrgb |-> <<4, "Float", 4>>,
    Rgba8Snorm     |-> <<4, "Float", 4>>,
    Rgba8Uint      |-> <<4, "Uint", 4>>,
    Rgba8Sint      |-> <<4, "Sint", 4>>,
    Bgra8Unorm     |-> <<4, "Float", 4>>,
    Bgra8UnormSrgb |-> <<4, "Float", 4>>]

PackedFormats == [
    Rgb9e5Ufloat  |-> <<4, "Float", 3>>,
    Rgb10a2Uint   |-> <<4, "Uint", 4>>,
    Rgb10a2Unorm  |-> <<4, "Float", 4>>,
    Rg11b10Ufloat |-> <<4, "Float", 3>>,
    R32Uint       |-> <<4, "Uint", 1>>,
    R32Sint       |-> <<4, "Sint", 1>>,
    R32Float      |-> <<4, "Float", 1>>,
    Rg32Uint      |-> <<8, "Uint", 2>>,
    Rg32Sint      |-> <<8, "Sint", 2>>,
    Rg32Float     |-> <<8, "Float", 2>>]

WideFormats == [
    Rgba32Uint  |-> <<16, "Uint", 4>>,
    Rgba32Sint  |-> <<16, "Sint", 4>>,
    Rgba32Float |-> <<16, "Float", 4>>,
    Rgba16Uint  |-> <<8, "Uint", 4>>,
    Rgba16Sint  |-> <<8, "Sint", 4>>,
    Rgba16Float |-> <<8, "Float", 4>>]

BcFormats == [
    Bc1RgbaUnorm     |-> <<4, 4, 8, 4>>,
    Bc1RgbaUnormSrgb |-> <<4, 4, 8, 4>>,
    Bc2RgbaUnorm     |-> <<4, 4, 16, 4>>,
    Bc2RgbaUnormSrgb |-> <<4, 4, 16, 4>>,
    Bc3RgbaUnorm     |-> <<4, 4, 16, 4>>,
    Bc3RgbaUnormSrgb |-> <<4, 4, 16, 4>>,
    Bc4RUnorm        |-> <<4, 4, 8, 1>>,
    Bc4RSnorm        |-> <<4, 4, 8, 1>>,
    Bc5RgUnorm       |-> <<4, 4, 16, 2>>,
    Bc5RgSnorm       |-> <<4, 4, 16, 2>>]

BcLateFormats == [
    Bc6hRgbUfloat    |-> <<4, 4, 16, 3>>,
    Bc6hRgbFloat     |-> <<4, 4, 16, 3>>,
    Bc7RgbaUnorm     |-> <<4, 4, 16, 4>>,
    Bc7RgbaUnormSrgb |-> <<4, 4, 16, 4>>]

EtcFormats == [
    Etc2Rgb8Unorm       |-> <<4, 4, 8, 3>>,
    Etc2Rgb8UnormSrgb   |-> <<4, 4, 8, 3>>,
    Etc2Rgb8A1Unorm     |-> <<4, 4, 8, 4>>,
    Etc2Rgb8A1UnormSrgb |-> <<4, 4, 8, 4>>,
    Etc2Rgba8Unorm      |-> <<4, 4, 16, 4>>,
    Etc2Rgba8UnormSrgb  |-> <<4, 4, 16, 4>>,
    EacR11Unorm         |-> <<4, 4, 8, 1>>,
    EacR11Snorm         |-> <<4, 4, 8, 1>>,
    EacRg11Unorm        |-> <<4, 4, 16, 2>>,
    EacRg11Snorm        |-> <<4, 4, 16, 2>>]

AstcSmallFormats == [
    Astc4x4Unorm     |-> <<4, 4, 16, 4>>,
    Astc4x4UnormSrgb |-> <<4, 4, 16, 4>>,
    Astc5x4Unorm     |-> <<5, 4, 16, 4>>,
    Astc5x4UnormSrgb |-> <<5, 4, 16, 4>>,
    Astc5x5Unorm     |-> <<5, 5, 16, 4>>,
    Astc5x5UnormSrgb |-> <<5, 5, 16, 4>>,
    Astc6x5Unorm     |-> <<6, 5, 16, 4>>,
    Astc6x5UnormSrgb |-> <<6, 5, 16, 4>>,
    Astc6x6Unorm     |-> <<6, 6, 16, 4>>,
    Astc6x6UnormSrgb |-> <<6, 6, 16, 4>>,
    Astc8x5Unorm     |-> <<8, 5, 16, 4>>,
    Astc8x5UnormSrgb |-> <<8, 5, 16, 4>>]

AstcMiddleFormats == [
    Astc8x6Unorm      |-> <<8, 6, 16, 4>>,
    Astc8x6UnormSrgb  |-> <<8, 6, 16, 4>>,
    Astc8x8Unorm      |-> <<8, 8, 16, 4>>,
    Astc8x8UnormSrgb  |-> <<8, 8, 16, 4>>,
    Astc10x5Unorm     |-> <<10, 5, 16, 4>>,
    Astc10x5UnormSrgb |-> <<10, 5, 16, 4>>,
    Astc10x6Unorm     |-> <<10, 6, 16, 4>>,
    Astc10x6UnormSrgb |-> <<10, 6, 16, 4>>,
    Astc10x8Unorm     |-> <<10, 8, 16, 4>>,
    Astc10x8UnormSrgb |-> <<10, 8, 16, 4>>]

AstcLargeFormats == [
    Astc10x10Unorm     |-> <<10, 10, 16, 4>>,
    Astc10x10UnormSrgb |-> <<10, 10, 16, 4>>,
    Astc12x10Unorm     |-> <<12, 10, 16, 4>>,
    Astc12x10UnormSrgb |-> <<12, 10, 16, 4>>,
    Astc12x12Unorm     |-> <<12, 12, 16, 4>>,
    Astc12x12UnormSrgb |-> <<12, 12, 16, 4>>]

PlaneFormats == [
    Stencil8             |-> <<"Stencil", 0, 1>>,
    Depth16Unorm         |-> <<"Depth", 2, 0>>,
    Depth24Plus          |-> <<"Depth", 0, 0>>,
    Depth24PlusStencil8  |-> <<"DepthStencil", 0, 1>>,
    Depth32Float         |-> <<"Depth", 4, 0>>,
    Depth32FloatStencil8 |-> <<"DepthStencil", 4, 1>>]

\* The formats with an sRGB partner.
SrgbOf == [
    Rgba8Unorm |-> "Rgba8UnormSrgb", Bgra8Unorm |-> "Bgra8UnormSrgb",
    Bc1RgbaUnorm |-> "Bc1RgbaUnormSrgb", Bc2RgbaUnorm |-> "Bc2RgbaUnormSrgb",
    Bc3RgbaUnorm |-> "Bc3RgbaUnormSrgb", Bc7RgbaUnorm |-> "Bc7RgbaUnormSrgb",
    Etc2Rgb8Unorm |-> "Etc2Rgb8UnormSrgb", Etc2Rgb8A1Unorm |-> "Etc2Rgb8A1UnormSrgb",
    Etc2Rgba8Unorm |-> "Etc2Rgba8UnormSrgb", Astc4x4Unorm |-> "Astc4x4UnormSrgb",
    Astc5x4Unorm |-> "Astc5x4UnormSrgb", Astc5x5Unorm |-> "Astc5x5UnormSrgb",
    Astc6x5Unorm |-> "Astc6x5UnormSrgb", Astc6x6Unorm |-> "Astc6x6UnormSrgb",
    Astc8x5Unorm |-> "Astc8x5UnormSrgb", Astc8x6Unorm |-> "Astc8x6UnormSrgb",
    Astc8x8Unorm |-> "Astc8x8UnormSrgb", Astc10x5Unorm |-> "Astc10x5UnormSrgb",
    Astc10x6Unorm |-> "Astc10x6UnormSrgb", Astc10x8Unorm |-> "Astc10x8UnormSrgb",
    Astc10x10Unorm |-> "Astc10x10UnormSrgb", Astc12x10Unorm |-> "Astc12x10UnormSrgb",
    Astc12x12Unorm |-> "Astc12x12UnormSrgb"]

\* One row of the table. In every row a format has alpha exactly when it has four components.
Row(f, class, width, height, color, depth, stencil, scalar, components) ==
    LET srgb == \E g \in DOMAIN SrgbOf : SrgbOf[g] = f
    IN  [class |-> class, width |-> width, height |-> height, color |-> color, depth |-> depth,
         stencil |-> stencil, scalar |-> scalar, components |-> components, alpha |-> components = 4, srgb |-> srgb,
         pair |-> IF srgb THEN CHOOSE g \in DOMAIN SrgbOf : SrgbOf[g] = f
                  ELSE IF f \in DOMAIN SrgbOf THEN SrgbOf[f] ELSE "None"]

TexelRow(f, t) == Row(f, "Color", 1, 1, t[1], 0, 0, t[2], t[3])
BlockRow(f, t) == Row(f, "Color", t[1], t[2], t[3], 0, 0, "Float", t[4])
PlaneRow(f, t) == Row(f, t[1], 1, 1, 0, t[2], t[3], "None", 1)

\* One table over the rows of two.
BothTables(upper, lower) ==
    [f \in DOMAIN upper \cup DOMAIN lower |-> IF f \in DOMAIN upper THEN upper[f] ELSE lower[f]]

AstcFormats  == BothTables(AstcSmallFormats, BothTables(AstcMiddleFormats, AstcLargeFormats))
TexelFormats == BothTables(BothTables(ByteFormats, WordFormats), BothTables(PackedFormats, WideFormats))
BlockFormats == BothTables(BothTables(BcFormats, BcLateFormats), BothTables(EtcFormats, AstcFormats))

Semantics ==
    [f \in DOMAIN TexelFormats \cup DOMAIN BlockFormats \cup DOMAIN PlaneFormats |->
        IF f \in DOMAIN PlaneFormats THEN PlaneRow(f, PlaneFormats[f])
        ELSE IF f \in DOMAIN BlockFormats THEN BlockRow(f, BlockFormats[f])
        ELSE TexelRow(f, TexelFormats[f])]

Format == DOMAIN Semantics

-----------------------------------------------------------------------------
(* Aspects: a depth/stencil format keeps two planes that no single copy    *)
(* addresses, so "All" of it stays "All" and has no copy block.            *)

ClassAspects(class) ==
    [Color        |-> {"Color"},
     Depth        |-> {"DepthOnly"},
     Stencil      |-> {"StencilOnly"},
     DepthStencil |-> {"DepthOnly", "StencilOnly"}][class]

Supports(class, aspect) == aspect = "All" \/ aspect \in ClassAspects(class)
SupportsAspect(f, aspect) == Supports(Semantics[f].class, aspect)

AspectOf(class, aspect) ==
    IF ~Supports(class, aspect) THEN "None"
    ELSE IF aspect # "All" \/ class = "DepthStencil" THEN aspect
    ELSE CHOOSE a \in ClassAspects(class) : TRUE

FormatAspect(f, aspect) == AspectOf(Semantics[f].class, aspect)

WholeAspect(f) == FormatAspect(f, "All")
IsDepth(f)     == Semantics[f].class \in {"Depth", "DepthStencil"}
IsStencil(f)   == Semantics[f].class \in {"Stencil", "DepthStencil"}

RequiresFullPlane(f) == Semantics[f].class # "Color"

\* Between textures the planes of a format move together.
WholeTextureAspect(f, aspect) ==
    LET Whole(class) == AspectOf(class, aspect) # "None" /\ AspectOf(class, aspect) = AspectOf(class, "All")
    IN  Whole(Semantics[f].class)

-----------------------------------------------------------------------------
(* Copy blocks.                                                            *)

IsCompressed(f) == LET Compressed(row) == row.width # 1 \/ row.height # 1 IN Compressed(Semantics[f])

\* The bytes of the plane a single copy addresses; the two planes of a depth/stencil format
\* together are not one.
BytesOf(row, aspect) ==
    CASE AspectOf(row.class, aspect) = "Color"       -> row.color
      [] AspectOf(row.class, aspect) = "DepthOnly"   -> row.depth
      [] AspectOf(row.class, aspect) = "StencilOnly" -> row.stencil
      [] OTHER                                       -> 0

CopyBlockSize(f, aspect) == BytesOf(Semantics[f], aspect)

ViewCompatible(parent, view) == parent = view \/ Semantics[parent].pair = view
CopyCompatible(from, to)     == from = to \/ Semantics[from].pair = to

BlockCount(extent, block) == (extent + block - 1) \div block

\* The bytes of one block row and the number of block rows of a plane of the given size.
Footprint(f, aspect, width, height) ==
    LET Plane(row) ==
          [known |-> width > 0 /\ height > 0 /\ BytesOf(row, aspect) > 0,
           row   |-> BlockCount(width, row.width) * BytesOf(row, aspect),
           rows  |-> BlockCount(height, row.height)]
    IN  Plane(Semantics[f])

TightLength(footprint, images) == footprint.row * footprint.rows * images
=============================================================================
