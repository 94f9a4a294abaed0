------------------------------ MODULE Coverage ------------------------------
(***************************************************************************)
(* Which part of one resource is initialized (api/graph/coverage.rs and the  *)
(* coverage algebra of api/graph/initialization.rs).  A buffer is covered by *)
(* dense ranges and by strided ones, the padded rows of a texture copy; a    *)
(* texture by layer intervals of each mip and aspect; a query set by         *)
(* intervals.  Graph preparation only ever combines these values by union,   *)
(* intersection, removal and containment, and it never enumerates bytes: the *)
(* representation is normalized and compared symbolically.                   *)
(*                                                                          *)
(* The machine takes one resource through arbitrary sequences of those       *)
(* operations; defined is the set of cells that is really meant.             *)
(***************************************************************************)
EXTENDS Integers, Sequences, FiniteSets, FiniteSetsExt

CONSTANTS
  BufferSize,    \* bytes of the buffer
  Strides,       \* raw strided layouts a caller may ask for
  Mips, Layers,  \* mip levels and array layers of the texture
  QueryCount,    \* queries of the set
  MaxPieces      \* bound on the values one buffer coverage is made of

ASSUME SizeAssumption ==
  /\ {BufferSize, Mips, Layers, QueryCount} \subseteq Nat
  /\ Strides \subseteq [first : Nat, size : Nat, stride : Nat, count : Nat, group : Nat, groups : Nat]

VARIABLES
  coverage,      \* [kind, values]: GpuInitialCoverageData of the resource
  defined        \* the cells it stands for

coverageVars == <<coverage, defined>>

Lesser(a, b)  == IF a <= b THEN a ELSE b
Greater(a, b) == IF a >= b THEN a ELSE b

(* normalize_u32_intervals, normalize_u64_intervals: sorted, every interval that *)
(* starts inside or right after its predecessor is merged into it.  What is left *)
(* starts where no other interval reaches and ends where none goes on.          *)
Merged(intervals) ==
  LET starts == {i[1] : i \in {j \in intervals :
                   ~ \E k \in intervals : k[1] < j[1] /\ j[1] <= k[2]}}
      ends   == {i[2] : i \in {j \in intervals :
                   ~ \E k \in intervals : k[1] <= j[2] /\ j[2] < k[2]}}
  IN {<<s, CHOOSE e \in ends : e > s /\ \A f \in ends : f > s => e <= f>> : s \in starts}

(***************************************************************************)
(* Buffers.                                                                  *)
(***************************************************************************)
Dense(first, end) == [form |-> "dense", first |-> first, end |-> end]

Payload(s) == (s.count - 1) * s.stride + s.size

(* GpuBufferStridedCoverage::new: what is refused, and the end it computes.    *)
StridedEnd(s) == s.first + (s.groups - 1) * s.group + Payload(s)

ValidStrided(s) ==
  /\ s.size # 0 /\ s.count # 0 /\ s.groups # 0
  /\ s.stride >= s.size
  /\ s.groups > 1 => s.group >= Payload(s)
  /\ s.first < BufferSize /\ StridedEnd(s) <= BufferSize

Strided(s) ==
  [form |-> "strided", first |-> s.first, size |-> s.size, stride |-> s.stride,
   count |-> s.count, group |-> s.group, groups |-> s.groups, end |-> StridedEnd(s)]

(* canonical_strided_coverage: a stride that is never taken is forgotten, and a *)
(* layout without gaps is dense.                                              *)
Canonical(c) ==
  IF c.form = "dense" THEN c
  ELSE LET stride  == IF c.count = 1 THEN c.size ELSE c.stride
           payload == (c.count - 1) * stride + c.size
       IN IF \/ c.count = 1 /\ c.groups = 1
             \/ stride = c.size /\ (c.groups = 1 \/ c.group = payload)
          THEN Dense(c.first, c.end)
          ELSE Strided([c EXCEPT !.stride = stride,
                                 !.group = IF c.groups = 1 THEN 0 ELSE @])

(* CoverageIntervalCursor: the segments of a value, in ascending order.        *)
Segments(c) ==
  IF c.form = "dense" THEN {<<c.first, c.end>>}
  ELSE {LET start == c.first + g * c.group + s * c.stride IN <<start, start + c.size>> :
          g \in 0 .. c.groups - 1, s \in 0 .. c.count - 1}

(* CoverageIntervals merges the cursors of all the values.                     *)
Intervals(values) == Merged(UNION {Segments(c) : c \in values})

(* A fault: the position inside a group is not compared with the grid.         *)
GridContainsMisaligned(have, need) ==
  \/ have = need
  \/ /\ have.size >= need.size /\ have.stride = need.stride
     /\ have.group = need.group /\ need.first >= have.first
     /\ need.end <= have.end

(* strided_coverage_fast_contains: aligned sub-grids of one grid.              *)
GridContains(have, need) ==
  LET offset == need.first - have.first
      group  == IF have.groups = 1 THEN 0 ELSE offset \div have.group
      within == IF have.groups = 1 THEN offset ELSE offset % have.group
      segment == within \div have.stride
  IN \/ have = need
     \/ /\ have.size >= need.size /\ have.stride = need.stride
        /\ have.group = need.group /\ need.first >= have.first
        /\ within = segment * have.stride
        /\ group + need.groups <= have.groups
        /\ segment + need.count <= have.count

(* strided_coverage_fast_contains_dense: the range lies in one segment, in one  *)
(* gapless group, or in a layout without any gap.                              *)
GridContainsDense(have, need) ==
  LET gapless == have.stride = have.size
      group   == IF have.groups = 1 THEN 0 ELSE (need.first - have.first) \div have.group
      start   == have.first + group * have.group
      segment == (need.first - start) \div have.stride
  IN /\ need.first >= have.first /\ need.end <= have.end
     /\ \/ gapless /\ (have.groups = 1 \/ have.group = Payload(have))
        \/ /\ group < have.groups
           /\ IF gapless THEN need.end <= start + Payload(have)
              ELSE /\ segment < have.count
                   /\ need.end <= start + segment * have.stride + have.size

(* GpuBufferCoverage::fast_contains: sound, not complete.                      *)
FastContains(have, need) ==
  IF have.form = "dense" THEN have.first <= need.first /\ have.end >= need.end
  ELSE IF need.form = "dense" THEN GridContainsDense(have, need)
  ELSE GridContains(have, need)

(* normalize_buffer_coverage: dense ranges merged, then every value another one *)
(* contains dropped; of two equal ones the first in the derived order stays.   *)
Before(a, b) ==
  \/ a.form = "dense" /\ b.form = "strided"
  \/ /\ a.form = b.form
     /\ LET key(c) == IF c.form = "dense" THEN <<c.first, c.end>>
                      ELSE <<c.first, c.size, c.stride, c.count, c.group, c.groups>>
        IN \E i \in 1 .. Len(key(a)) :
             key(a)[i] < key(b)[i] /\ \A j \in 1 .. i - 1 : key(a)[j] = key(b)[j]

NormalizeBuffer(values) ==
  LET canonical == {Canonical(c) : c \in values}
      dense     == {<<c.first, c.end>> : c \in {d \in canonical : d.form = "dense"}}
      all       == {Dense(i[1], i[2]) : i \in Merged(dense)}
                     \cup {c \in canonical : c.form = "strided"}
  IN {c \in all : ~ \E other \in all \ {c} :
        FastContains(other, c) /\ (FastContains(c, other) => Before(other, c))}

(* buffer_coverage_contains: piecewise if that is enough, else a sweep over the *)
(* merged intervals of both sides.                                            *)
Within(inner, outer) ==
  \A i \in inner : \E o \in outer : o[1] <= i[1] /\ i[2] <= o[2]

BufferContains(have, need) ==
  \/ \A n \in need : \E h \in have : FastContains(h, n)
  \/ Within(Intervals(need), Intervals(have))

(* intersect_buffer_coverage keeps the smaller operand when it is contained;    *)
(* otherwise it sweeps, and every strided value becomes dense pieces.          *)
Overlaps(left, right) ==
  {i \in {<<Greater(l[1], r[1]), Lesser(l[2], r[2])>> : l \in left, r \in right} :
     i[1] < i[2]}

IntersectBuffer(left, right) ==
  NormalizeBuffer(
    IF BufferContains(left, right) THEN right
    ELSE IF BufferContains(right, left) THEN left
    ELSE {Dense(i[1], i[2]) : i \in Overlaps(Intervals(left), Intervals(right))})

(***************************************************************************)
(* Textures and query sets: sets of merged intervals.  A texture has one set *)
(* for each mip and atomic aspect, absent when empty.                        *)
(***************************************************************************)
Aspect == {"All", "DepthOnly", "StencilOnly"}

(* atomic_texture_aspects of a combined depth and stencil format.              *)
AtomicAspects(aspect) == IF aspect = "All" THEN {"DepthOnly", "StencilOnly"} ELSE {aspect}

(* texture_range_coverage                                                     *)
TextureRange(range) ==
  [key \in (range.mip .. range.mipEnd - 1) \X AtomicAspects(range.aspect) |->
     {<<range.layer, range.layerEnd>>}]

(* interval_set_contains_u32, subtract_u32_intervals, intersect_u32_intervals  *)
SpanContains(have, need) == Within(need, have)

Subtracted(have, gone) ==
  UNION {IF i[2] <= gone[1] \/ i[1] >= gone[2] THEN {i}
         ELSE {j \in {<<i[1], gone[1]>>, <<gone[2], i[2]>>} : j[1] < j[2]} : i \in have}

Cut(have, gone) == FoldSet(LAMBDA i, rest : Subtracted(rest, i), have, gone)

SpanIntersect(left, right) == Merged(Overlaps(left, right))

(***************************************************************************)
(* InitializedCoverage: union, contains, remove and intersect by kind.        *)
(***************************************************************************)
UnionCoverage(kind, left, right) ==
  CASE kind = "Buffer"  -> NormalizeBuffer(left \cup right)
    [] kind = "Query"   -> Merged(left \cup right)
    [] kind = "Texture" ->
         [key \in DOMAIN left \cup DOMAIN right |->
            Merged((IF key \in DOMAIN left THEN left[key] ELSE {})
                   \cup (IF key \in DOMAIN right THEN right[key] ELSE {}))]

ContainsCoverage(kind, have, need) ==
  CASE kind = "Buffer"  -> BufferContains(have, need)
    [] kind = "Query"   -> SpanContains(have, need)
    [] kind = "Texture" -> \A key \in DOMAIN need :
                             key \in DOMAIN have /\ SpanContains(have[key], need[key])

IntersectCoverage(kind, left, right) ==
  CASE kind = "Buffer"  -> IntersectBuffer(left, right)
    [] kind = "Query"   -> SpanIntersect(left, right)
    [] kind = "Texture" ->
         LET both == {key \in DOMAIN left \cap DOMAIN right :
                        SpanIntersect(left[key], right[key]) # {}}
         IN [key \in both |-> SpanIntersect(left[key], right[key])]

(* Buffers have no discard: remove answers false and the caller gives up.      *)
Removable(kind) == kind \in {"Texture", "Query"}

RemoveCoverage(kind, have, gone) ==
  CASE kind = "Query"   -> Cut(have, gone)
    [] kind = "Texture" ->
         LET rest(key) == IF key \in DOMAIN gone THEN Cut(have[key], gone[key]) ELSE have[key]
         IN [key \in {k \in DOMAIN have : rest(k) # {}} |-> rest(key)]

(* empty_for *)
Nothing(kind) == IF kind = "Texture" THEN [key \in {} |-> {}] ELSE {}

(***************************************************************************)
(* The cells a value stands for.                                             *)
(***************************************************************************)
SpanCells(intervals) == UNION {i[1] .. i[2] - 1 : i \in intervals}

Cells(kind, value) ==
  CASE kind = "Buffer"  -> SpanCells(UNION {Segments(c) : c \in value})
    [] kind = "Query"   -> SpanCells(value)
    [] kind = "Texture" -> UNION {{key} \X SpanCells(value[key]) : key \in DOMAIN value}

(* What one access, copy layout, input or discard contributes                 *)
(* (GpuInitialCoverage::buffer, texture_subresources, query_ranges).          *)
Ranges(end) == {r \in (0 .. end) \X (0 .. end) : r[1] < r[2]}

TextureRanges ==
  {[mip |-> m[1], mipEnd |-> m[2], layer |-> l[1], layerEnd |-> l[2], aspect |-> a] :
     m \in Ranges(Mips), l \in Ranges(Layers), a \in Aspect}

Pieces(kind) ==
  CASE kind = "Buffer"  -> {{Dense(r[1], r[2])} : r \in Ranges(BufferSize)}
                             \cup {{Strided(s)} : s \in {t \in Strides : ValidStrided(t)}}
    [] kind = "Query"   -> {{r} : r \in Ranges(QueryCount)}
    [] kind = "Texture" -> {TextureRange(r) : r \in TextureRanges}

CoverageInit ==
  \E kind \in {"Buffer", "Query", "Texture"} :
    /\ coverage = [kind |-> kind, values |-> Nothing(kind)]
    /\ defined = {}

Cover(piece) ==
  /\ coverage' = [coverage EXCEPT !.values = UnionCoverage(coverage.kind, @, piece)]
  /\ defined' = defined \cup Cells(coverage.kind, piece)

Narrow(piece) ==
  /\ coverage' = [coverage EXCEPT !.values = IntersectCoverage(coverage.kind, @, piece)]
  /\ defined' = defined \cap Cells(coverage.kind, piece)

Discard(piece) ==
  /\ Removable(coverage.kind)
  /\ coverage' = [coverage EXCEPT !.values = RemoveCoverage(coverage.kind, @, piece)]
  /\ defined' = defined \ Cells(coverage.kind, piece)

CoverageNext ==
  \E piece \in Pieces(coverage.kind) :
    \/ /\ coverage.kind = "Buffer" => Cardinality(coverage.values) < MaxPieces
       /\ Cover(piece)
    \/ Narrow(piece)
    \/ Discard(piece)

CoverageSpec == CoverageInit /\ [][CoverageNext]_coverageVars

(* After any sequence of unions, intersections and discards the symbolic       *)
(* coverage stands for exactly the cells it should, and containment answers    *)
(* exactly what the cells say: preparation neither refuses an initialized read *)
(* nor admits an uninitialized one because of how coverage is represented      *)
(* (InitializedCoverage, buffer_coverage_contains).                            *)
CoverageIsExact ==
  /\ Cells(coverage.kind, coverage.values) = defined
  /\ \A piece \in Pieces(coverage.kind) :
       /\ ContainsCoverage(coverage.kind, coverage.values, piece)
            <=> Cells(coverage.kind, piece) \subseteq defined
       /\ ContainsCoverage(coverage.kind, piece, coverage.values)
            <=> defined \subseteq Cells(coverage.kind, piece)
=============================================================================
