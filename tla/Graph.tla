-------------------------------- MODULE Graph --------------------------------
(***************************************************************************)
(* Work fragments and the graph prepared from them (api/access.rs,           *)
(* api/operation.rs, api/graph/authoring.rs, dependency.rs, hazards.rs,      *)
(* composition.rs, preparation.rs and the simulation in initialization.rs).  *)
(*                                                                          *)
(* A fragment is a program: nodes in the order they were authored.           *)
(* Preparation gives up that order.  It keeps the edges its typed accesses    *)
(* call for, those of the imports that tie fragments together and the        *)
(* explicit ones, and schedules the nodes of all the fragments by them.      *)
(* Coverage of a storage is a set of cells here; module Coverage shows that   *)
(* its representation stands for exactly those.                              *)
(***************************************************************************)
EXTENDS Integers, Sequences, FiniteSets, SequencesExt

CONSTANTS
  Resource,        \* kind-preserving handles: buffers, textures, views, samplers
  Descriptor,      \* handle -> [storage, type, box, parent, usages, retained, initial]
  Author,          \* fragment number -> what its author works with: [declared, work,
                   \*   inputs, imports, outputs], work: [op, extra accesses]
  Reconstruction,  \* what preparation is given: [seeds, targets], a seed [storage, cells]
  MaxNodes, MaxOrders

(* The aspects of formats and of the regions callers name.                     *)
NamedAspect == {"All", "Color", "DepthOnly", "StencilOnly"}

IsBox(box) ==
  {box.first, box.end, box.layer, box.layerEnd} \subseteq Nat /\ box.aspect \in NamedAspect

(* A handle leads to its storage, a sampler is nobody's view, and a texture has a *)
(* mip level.                                                                 *)
ASSUME DescriptorAssumption ==
  \A r \in Resource :
    /\ Descriptor[r].storage \in Resource
    /\ Descriptor[Descriptor[r].storage].storage = Descriptor[r].storage
    /\ Descriptor[Descriptor[r].storage].type = "sampler" => Descriptor[r].type = "sampler"
    /\ IsBox(Descriptor[r].box) /\ Descriptor[r].parent \in NamedAspect
    /\ Descriptor[r].type = "texture" => Descriptor[r].box.first = 0 /\ Descriptor[r].box.end > 0

VARIABLES
  fragments,       \* the fragments built so far, the last one perhaps still open
  graph            \* the outcome of the last preparation

graphVars == <<fragments, graph>>

NoGraph == [state |-> "none"]

(***************************************************************************)
(* Accesses.  A box is the half-open range of bytes, queries or mips, the     *)
(* layers and the aspect.                                                    *)
(***************************************************************************)
Least(a, b) == IF a <= b THEN a ELSE b
Most(a, b)  == IF a >= b THEN a ELSE b

StorageOf(r) == Descriptor[r].storage
Storage      == {StorageOf(r) : r \in Resource}
TypeOf(s)    == Descriptor[s].type

Reads(a) ==
  \/ a.kind \in {"UniformRead", "StorageRead", "StorageReadWrite", "VertexRead", "IndexRead",
                 "IndirectRead", "SampledRead", "CopySource", "Present", "ResolveSource", "Sampler"}
  \/ a.kind \in {"ColorAttachment", "DepthStencilAttachment", "ReadOnlyAttachment"} /\ a.load = "Load"

Writes(a) ==
  a.kind \in {"StorageWrite", "StorageReadWrite", "CopyDestination", "QueryResolveDestination",
              "ResolveDestination", "ColorAttachment", "DepthStencilAttachment", "WriteTimestamp"}

(* The usages an access kind asks of the descriptor; queries, samplers and      *)
(* presentation ask for none.                                                 *)
UsagesFor(a) ==
  CASE a.kind = "UniformRead"             -> {"Uniform"}
    [] a.kind = "VertexRead"              -> {"Vertex"}
    [] a.kind = "IndexRead"               -> {"Index"}
    [] a.kind = "IndirectRead"            -> {"Indirect"}
    [] a.kind = "SampledRead"             -> {"Sampled"}
    [] a.kind = "CopySource"              -> {"CopySource"}
    [] a.kind = "CopyDestination"         -> {"CopyDestination"}
    [] a.kind = "QueryResolveDestination" -> {"QueryResolve"}
    [] a.kind \in {"ColorAttachment", "ResolveDestination"} -> {"ColorAttachment"}
    [] a.kind \in {"DepthStencilAttachment", "ReadOnlyAttachment"} -> {"DepthStencilAttachment"}
    [] a.kind = "StorageRead"      -> IF TypeOf(a.storage) = "buffer" THEN {"Storage"} ELSE {"StorageRead"}
    [] a.kind = "StorageWrite"     -> IF TypeOf(a.storage) = "buffer" THEN {"Storage"} ELSE {"StorageWrite"}
    [] a.kind = "StorageReadWrite" -> IF TypeOf(a.storage) = "buffer" THEN {"Storage"}
                                      ELSE {"StorageRead", "StorageWrite"}
    [] OTHER                       -> {}

CanonicalAspect(aspect, parent) == IF aspect = "All" THEN parent ELSE aspect

(* intersect_aspects; "None" when the aspects are disjoint                      *)
CommonAspect(left, right, parent) ==
  LET l == CanonicalAspect(left, parent)
      r == CanonicalAspect(right, parent)
  IN IF l = r \/ r = "All" THEN l ELSE IF l = "All" THEN r ELSE "None"

(* access_intersection and intersect_texture_ranges: axis by axis.             *)
Intersection(left, right, parent) ==
  [first |-> Most(left.first, right.first), end |-> Least(left.end, right.end),
   layer |-> Most(left.layer, right.layer), layerEnd |-> Least(left.layerEnd, right.layerEnd),
   aspect |-> CommonAspect(left.aspect, right.aspect, parent)]

NonEmpty(box) == box.first < box.end /\ box.layer < box.layerEnd /\ box.aspect # "None"

Overlap(a, b) ==
  /\ a.storage = b.storage /\ TypeOf(a.storage) # "sampler"
  /\ NonEmpty(Intersection(a.box, b.box, Descriptor[a.storage].parent))

(* GpuBufferAccess, GpuTextureAccess and GpuQueryAccess::new: the request is     *)
(* checked against the storage, and cut down to the view it goes through.       *)
NewAccess(request) ==
  LET d == Descriptor[request.resource]
  IN [resource |-> request.resource, storage |-> d.storage, kind |-> request.kind,
      load |-> request.load, store |-> request.store,
      box |-> IF d.type = "view" THEN Intersection(d.box, request.box, d.parent) ELSE request.box]

ValidAccess(request) ==
  LET access == NewAccess(request)
      whole  == Descriptor[access.storage]
  IN /\ NonEmpty(request.box) /\ NonEmpty(access.box)
     /\ request.box.end <= whole.box.end /\ request.box.layerEnd <= whole.box.layerEnd
     /\ request.box.aspect \in {"All", whole.parent}
          \cup (IF whole.parent = "All" THEN {"DepthOnly", "StencilOnly"} ELSE {})
     /\ UsagesFor(access) \subseteq whole.usages
     /\ "TransientAttachment" \in whole.usages =>
          /\ access.kind \in {"ColorAttachment", "DepthStencilAttachment"}
          /\ access.load = "Clear" /\ access.store = "Discard"
     /\ access.kind \in {"ColorAttachment", "ResolveDestination"} => whole.parent = "Color"
     /\ access.kind \in {"DepthStencilAttachment", "ReadOnlyAttachment"} => whole.parent # "Color"

(* coverage_for_access                                                        *)
AtomsOf(aspect) == IF aspect = "All" THEN {"DepthOnly", "StencilOnly"} ELSE {aspect}

BoxCells(box, parent) ==
  (box.first .. box.end - 1) \X (box.layer .. box.layerEnd - 1)
    \X AtomsOf(CanonicalAspect(box.aspect, parent))

CellsOf(a) == BoxCells(a.box, Descriptor[a.storage].parent)

(***************************************************************************)
(* Operations.  uses are the accesses the typed operation derives, arguments  *)
(* those an indirect dispatch reads besides; whole says that a copy or an      *)
(* upload fills every subresource it selects, idle that a direct dispatch has  *)
(* no workgroup.                                                              *)
(***************************************************************************)
Uses(op)      == {NewAccess(u) : u \in op.uses}
Arguments(op) == {NewAccess(u) : u \in op.arguments}
Derived(op)   == Uses(op) \cup Arguments(op)

ValidOperation(op) == \A u \in op.uses \cup op.arguments : ValidAccess(u)

Attachment(a) == a.kind \in {"ColorAttachment", "DepthStencilAttachment", "ReadOnlyAttachment"}

(* operation_initialization: what must be initialized, and what is afterwards.  *)
(* A shader promises nothing about the storage it may write.                   *)
Required(op) ==
  Arguments(op) \cup (IF op.kind = "compute" /\ op.idle THEN {} ELSE {a \in Uses(op) : Reads(a)})

Effects(op) ==
  {a \in Uses(op) :
     CASE op.kind = "compute" -> a.kind = "WriteTimestamp"
       [] op.kind = "render"  -> \/ Attachment(a) /\ a.load = "Clear"
                                 \/ a.kind \in {"ResolveDestination", "WriteTimestamp"}
       [] op.kind = "copy"    -> a.kind = "CopyDestination" /\ (TypeOf(a.storage) = "buffer" \/ op.whole)
       [] op.kind = "upload"  -> Writes(a) /\ op.whole
       [] OTHER               -> Writes(a)}

(* operation_discard_regions                                                   *)
Discards(op) == {a \in Uses(op) : op.kind = "render" /\ Attachment(a) /\ a.store = "Discard"}

(* Requests are built per type of resource; a typed operation derives none that   *)
(* neither reads nor writes (validate_read_only_attachment_state).              *)
IsRequest(u) ==
  /\ u.resource \in Resource /\ IsBox(u.box)
  /\ Descriptor[u.resource].type = "sampler" => u.kind = "Sampler"

ASSUME AuthorAssumption ==
  /\ Author \in Seq(Range(Author)) /\ MaxNodes \in Nat
  /\ \A i \in DOMAIN Author :
       /\ Author[i].declared \subseteq SUBSET Resource
       /\ \A w \in Author[i].work :
            /\ \A u \in w.op.uses \cup w.op.arguments : IsRequest(u) /\ (Reads(u) \/ Writes(u))
            /\ \A u \in w.extra : IsRequest(u)

(***************************************************************************)
(* Authoring a fragment.                                                     *)
(***************************************************************************)
(* merge_storage_access: exact storage reads and writes of one region are one   *)
(* read-write access of the storage itself.                                    *)
Merges(a, b) ==
  /\ a # b /\ a.storage = b.storage /\ a.box = b.box
  /\ a.kind # b.kind
  /\ {a.kind, b.kind} \subseteq {"StorageRead", "StorageWrite", "StorageReadWrite"}

MergedAccess(a, accesses) ==
  IF \E b \in accesses : Merges(a, b)
  THEN [a EXCEPT !.kind = "StorageReadWrite", !.resource = a.storage] ELSE a

Normalized(accesses) == {MergedAccess(a, accesses) : a \in accesses}

(* normalize_node_accesses refuses what a node may not do at once.             *)
Compatible(accesses) ==
  \A a, b \in Normalized(accesses) :
    a # b /\ Overlap(a, b) => ~ Writes(a) /\ ~ Writes(b)

NodeAccepted(fragment, op, caller) ==
  /\ ValidOperation(op)
  /\ \A a \in Derived(op) \cup caller : a.resource \in fragment.resources
  /\ caller \cap Derived(op) = {}
  /\ Compatible(Derived(op) \cup caller)
  /\ op.indexed => \E a \in Derived(op) \cup caller : a.kind = "IndexRead"
  /\ Len(fragment.nodes) < MaxNodes

Node(op, caller) ==
  [op |-> op, accesses |-> Normalized(Derived(op) \cup caller),
   readable |-> {a \in caller : Reads(a)}]

NewFragment(id) ==
  [identity |-> id, open |-> TRUE, resources |-> {}, inputs |-> {}, imports |-> {},
   outputs |-> {}, nodes |-> <<>>, orders |-> <<>>]

Current == fragments[Len(fragments)]
Open    == fragments # <<>> /\ Current.open
Edit(f) == fragments' = [fragments EXCEPT ![Len(fragments)] = f] /\ UNCHANGED graph

StartFragment ==
  /\ ~ Open /\ Len(fragments) < Len(Author)
  /\ fragments' = Append(fragments, NewFragment(Len(fragments) + 1))
  /\ graph' = NoGraph

(* The declare_resource calls an author makes at the start, as one step.        *)
DeclareResources(set) ==
  /\ Open /\ Current = NewFragment(Len(fragments)) /\ set # {}
  /\ Edit([Current EXCEPT !.resources = set])

AddInput(input) ==
  /\ Open /\ input.resource \in Current.resources
  /\ \A i \in Current.inputs : i.resource # input.resource
  /\ Edit([Current EXCEPT !.inputs = @ \cup {input}])

AddImport(import) ==
  /\ Open /\ import.resource \in Current.resources
  /\ \A i \in Current.imports : i.key # import.key
  /\ Edit([Current EXCEPT !.imports = @ \cup {import}])

AddOutput(output) ==
  /\ Open /\ output.resource \in Current.resources
  /\ \A o \in Current.outputs : o.key # output.key
  /\ Edit([Current EXCEPT !.outputs = @ \cup {output}])

AddNode(op, requests) ==
  /\ Open /\ \A u \in requests : ValidAccess(u)
  /\ LET caller == {NewAccess(u) : u \in requests}
     IN /\ NodeAccepted(Current, op, caller)
        /\ Edit([Current EXCEPT !.nodes = Append(@, Node(op, caller))])

(* A lexical operation declares what it derives; a refused one leaves no trace. *)
AddOperation(op) ==
  /\ Open /\ ValidOperation(op)
  /\ LET declared == [Current EXCEPT !.resources = @ \cup {a.resource : a \in Derived(op)}]
     IN /\ NodeAccepted(declared, op, {})
        /\ Edit([declared EXCEPT !.nodes = Append(@, Node(op, {}))])

AddOrder(before, after) ==
  /\ Open /\ Len(Current.orders) < MaxOrders
  /\ {before, after} \subseteq DOMAIN Current.nodes /\ before # after
  /\ <<before, after>> \notin ToSet(Current.orders)
  /\ Edit([Current EXCEPT !.orders = Append(@, <<before, after>>)])

FinishFragment == Open /\ Edit([Current EXCEPT !.open = FALSE])

(***************************************************************************)
(* Composing fragments.  parts is the sequence of fragments of the graph; a    *)
(* node of the graph is <<index of its part, index in the fragment>>.          *)
(***************************************************************************)
NodeIds(parts) == UNION {{i} \X DOMAIN parts[i].nodes : i \in DOMAIN parts}
NodeAt(parts, n) == parts[n[1]].nodes[n[2]]
Earlier(m, n) == m[1] < n[1] \/ (m[1] = n[1] /\ m[2] < n[2])

Exports(parts) == UNION {{i} \X parts[i].outputs : i \in DOMAIN parts}
Imports(parts) == UNION {{i} \X parts[i].imports : i \in DOMAIN parts}

UniqueExports(parts) == \A x, y \in Exports(parts) : x[2].key = y[2].key => x = y

(* bind_imports: an import takes the output of another part with its key and    *)
(* its exact resource, and a storage comes from one producer only.              *)
Relations(parts) ==
  {<<p[1][1], p[2][1], StorageOf(p[2][2].resource)>> : p \in
     {q \in Exports(parts) \X Imports(parts) : q[1][2].key = q[2][2].key}}

ImportsBound(parts) ==
  /\ \A m \in Imports(parts) : \E x \in Exports(parts) :
       x[2].key = m[2].key /\ x[2].resource = m[2].resource /\ x[1] # m[1]
  /\ \A r, q \in Relations(parts) : r[2] = q[2] /\ r[3] = q[3] => r[1] = q[1]

Intent(accesses) ==
  LET reads == \E a \in accesses : Reads(a)  writes == \E a \in accesses : Writes(a)
  IN IF reads /\ writes THEN "ReadWrite" ELSE IF writes THEN "Write" ELSE "Read"

Touching(fragment, s) ==
  {l \in DOMAIN fragment.nodes : \E a \in fragment.nodes[l].accesses : a.storage = s}

IntentAt(fragment, l, s) == Intent({a \in fragment.nodes[l].accesses : a.storage = s})

BoundaryIntents(parts) ==
  /\ \A m \in Imports(parts) :
       \E l \in Touching(parts[m[1]], StorageOf(m[2].resource)) :
         /\ \A k \in Touching(parts[m[1]], StorageOf(m[2].resource)) : l <= k
         /\ IntentAt(parts[m[1]], l, StorageOf(m[2].resource)) = m[2].intent
  /\ \A x \in Exports(parts) :
       \E l \in Touching(parts[x[1]], StorageOf(x[2].resource)) :
         /\ \A k \in Touching(parts[x[1]], StorageOf(x[2].resource)) : k <= l
         /\ IntentAt(parts[x[1]], l, StorageOf(x[2].resource)) = x[2].intent

(***************************************************************************)
(* Hazards and the order they leave.  An edge is [before, after, data].        *)
(***************************************************************************)
(* A fault: a write does not wait for the reads before it.                      *)
HazardAfterWrite(a, b) == Overlap(a, b) /\ Writes(a)

(* access_pair_hazard_reasons: read after write, write after read, write after  *)
(* write.                                                                     *)
Hazard(a, b) ==
  /\ Overlap(a, b)
  /\ \/ Writes(a) /\ Reads(b)
     \/ Reads(a) /\ Writes(b)
     \/ Writes(a) /\ Writes(b)

NodeHazard(parts, m, n) ==
  \E a \in NodeAt(parts, m).accesses, b \in NodeAt(parts, n).accesses : Hazard(a, b)

Edge(m, n, data) == [before |-> m, after |-> n, data |-> data]

FragmentHazards(parts) ==
  {Edge(p[1], p[2], TRUE) : p \in
     {q \in NodeIds(parts) \X NodeIds(parts) :
        q[1][1] = q[2][1] /\ q[1][2] < q[2][2] /\ NodeHazard(parts, q[1], q[2])}}

(* infer_cross_fragment_hazards: two parts that touch the same cells, one of     *)
(* them writing, must be tied by an import in exactly one direction.            *)
Crossing(parts) ==
  {c \in NodeIds(parts) \X NodeIds(parts) \X Storage :
     /\ c[1][1] # c[2][1]
     /\ \E a \in NodeAt(parts, c[1]).accesses, b \in NodeAt(parts, c[2]).accesses :
          a.storage = c[3] /\ Hazard(a, b)}

CrossingsTied(parts) ==
  \A c \in Crossing(parts) :
    (<<c[1][1], c[2][1], c[3]>> \in Relations(parts)) # (<<c[2][1], c[1][1], c[3]>> \in Relations(parts))

CrossHazards(parts) ==
  {Edge(c[1], c[2], TRUE) : c \in
     {d \in Crossing(parts) : <<d[1][1], d[2][1], d[3]>> \in Relations(parts)}}

(* dependency_data_path_exists: a path with at least one data edge.             *)
Reach(edges, ids) ==
  LET step[k \in 0 .. Cardinality(ids)] ==
        IF k = 0 THEN {<<n, n>> : n \in ids}
        ELSE step[k - 1] \cup
               {<<p[1][1], p[2].after>> : p \in {q \in step[k - 1] \X edges : q[1][2] = q[2].before}}
  IN step[Cardinality(ids)]

DataPath(edges, ids, m, n) ==
  LET reach == Reach(edges, ids)
  IN \E e \in edges : e.data /\ <<m, e.before>> \in reach /\ <<e.after, n>> \in reach

(* Explicit orders are added one at a time, each checked against the edges       *)
(* already there: neither implied by the data nor against it.                   *)
WithOrder(done, ids, order) ==
  [edges |-> done.edges \cup {Edge(order[1], order[2], FALSE)},
   valid |-> /\ done.valid
             /\ ~ DataPath(done.edges, ids, order[1], order[2])
             /\ ~ DataPath(done.edges, ids, order[2], order[1])]

WithOrders(start, ids, orders) ==
  LET added[k \in 0 .. Len(orders)] ==
        IF k = 0 THEN start ELSE WithOrder(added[k - 1], ids, orders[k])
  IN added[Len(orders)]

OrdersOf(parts, i) ==
  [k \in DOMAIN parts[i].orders |->
     <<<<i, parts[i].orders[k][1]>>, <<i, parts[i].orders[k][2]>>>>]

FragmentOrders(parts) ==
  LET all[i \in 0 .. Len(parts)] == IF i = 0 THEN <<>> ELSE all[i - 1] \o OrdersOf(parts, i)
  IN all[Len(parts)]

(* resolve_graph_order_endpoint: an endpoint names a fragment that is in the     *)
(* graph exactly once.                                                         *)
Resolves(parts, endpoint) ==
  /\ Cardinality({i \in DOMAIN parts : parts[i].identity = endpoint[1]}) = 1
  /\ \A i \in DOMAIN parts : parts[i].identity = endpoint[1] => endpoint[2] \in DOMAIN parts[i].nodes

Resolved(parts, endpoint) ==
  <<CHOOSE i \in DOMAIN parts : parts[i].identity = endpoint[1], endpoint[2]>>

Ordered(parts, graphOrders) ==
  LET ids      == NodeIds(parts)
      inferred == FragmentHazards(parts) \cup CrossHazards(parts)
      local    == WithOrders([edges |-> inferred, valid |-> TRUE], ids, FragmentOrders(parts))
  IN WithOrders(local, ids,
       [k \in DOMAIN graphOrders |->
          <<Resolved(parts, graphOrders[k][1]), Resolved(parts, graphOrders[k][2])>>])

(* topological_node_order, topological_fragment_order: the least ready element   *)
(* first; a sequence that stops short is a cycle.  A fragment stands there as     *)
(* its node 0.                                                                *)
First(ready) == CHOOSE n \in ready : \A m \in ready : ~ Earlier(m, n)

ReadyAfter(done, ids, edges) ==
  {n \in ids \ done : \A e \in edges : e.after = n => e.before \in done}

Extended(order, ids, edges) ==
  LET ready == ReadyAfter(ToSet(order), ids, edges)
  IN IF ready = {} THEN order ELSE Append(order, First(ready))

Topological(ids, edges) ==
  LET order[k \in 0 .. Cardinality(ids)] ==
        IF k = 0 THEN <<>> ELSE Extended(order[k - 1], ids, edges)
  IN order[Cardinality(ids)]

NodeOrder(parts, edges) == Topological(NodeIds(parts), edges)

FragmentEdges(parts) == {Edge(<<r[1], 0>>, <<r[2], 0>>, TRUE) : r \in Relations(parts)}

FragmentsOrdered(parts) ==
  Len(Topological({<<i, 0>> : i \in DOMAIN parts}, FragmentEdges(parts))) = Len(parts)

(***************************************************************************)
(* Initialization.                                                           *)
(***************************************************************************)
WholeCells(r) == BoxCells(Descriptor[r].box, Descriptor[StorageOf(r)].parent)

(* descriptor_coverage: of a view, the part it sees.                            *)
DescriptorCells(r) == IF Descriptor[StorageOf(r)].initial = "zeroed" THEN WholeCells(r) ELSE {}

SeededStorage(seeds) == {d.storage : d \in seeds}
Retained(s)          == Descriptor[s].retained

(* Coverage that exists before the first node: retained coverage replaces what  *)
(* the descriptor says, inputs add to it.                                      *)
EntryCells(resources, inputs, seeds) ==
  [s \in Storage |->
     LET declared == {r \in resources : StorageOf(r) = s}
     IN (IF declared # {} /\ Retained(s) /\ s \in SeededStorage(seeds)
         THEN UNION {d.cells : d \in {e \in seeds : e.storage = s}}
         ELSE UNION {DescriptorCells(r) : r \in declared})
        \cup UNION {i.cells : i \in {j \in inputs : StorageOf(j.resource) = s}}]

(* derive_prepared_initial_content: prepared content is written where a typed     *)
(* operation of the graph touches the storage, unless retained coverage stands   *)
(* for it.  A resource that is only declared, or only read by the caller's word, *)
(* gets none.                                                                 *)
PreparedContent(parts, seeds) ==
  {s \in {a.storage : a \in UNION {Derived(NodeAt(parts, n).op) : n \in NodeIds(parts)}} :
     Descriptor[s].initial = "prepared" /\ s \notin SeededStorage(seeds)}

(* prepared_initial_content_coverage: a buffer as a whole, of a texture mip 0.    *)
ContentBox(s) ==
  IF TypeOf(s) = "texture" THEN [Descriptor[s].box EXCEPT !.first = 0, !.end = 1] ELSE Descriptor[s].box

ContentCells(content) ==
  [s \in Storage |-> IF s \in content THEN BoxCells(ContentBox(s), Descriptor[s].parent) ELSE {}]

Joined(left, right) == [s \in Storage |-> left[s] \cup right[s]]

CellsIn(accesses, s) == UNION {CellsOf(a) : a \in {b \in accesses : b.storage = s}}

(* apply_node_initialization: every effect stands inside a checked write of its  *)
(* own role; a discard comes after the effects of the same node.                *)
NodeReads(node)     == node.readable \cup Required(node.op)
NodeReady(node, st) == \A a \in NodeReads(node) : CellsOf(a) \subseteq st[a.storage]

EffectsBacked(node) ==
  \A e \in Effects(node.op) : \E a \in node.accesses :
    a.storage = e.storage /\ a.kind = e.kind /\ CellsOf(e) \subseteq CellsOf(a)

(* A fault: a discarded attachment keeps its coverage.                          *)
AfterNodeKept(node, st) == [s \in Storage |-> st[s] \cup CellsIn(Effects(node.op), s)]

AfterNode(node, st) ==
  [s \in Storage |->
     (st[s] \cup CellsIn(Effects(node.op), s)) \ CellsIn(Discards(node.op), s)]

RunNode(node, done) ==
  [cells |-> AfterNode(node, done.cells),
   valid |-> done.valid /\ EffectsBacked(node) /\ NodeReady(node, done.cells)]

RunNodes(nodes, start) ==
  LET run[k \in 0 .. Len(nodes)] ==
        IF k = 0 THEN [cells |-> start, valid |-> TRUE] ELSE RunNode(nodes[k], run[k - 1])
  IN run[Len(nodes)]

(* validate_fragment_initialization: each fragment by itself, with the coverage   *)
(* its producers declare, which must be exactly what they end with.             *)
ImportedCells(parts, i) ==
  [s \in Storage |-> UNION {x[2].cells : x \in {y \in Exports(parts) :
     StorageOf(y[2].resource) = s /\ \E m \in parts[i].imports : m.key = y[2].key}}]

FragmentRun(parts, i, seeds, content) ==
  RunNodes(parts[i].nodes,
    Joined(Joined(EntryCells(parts[i].resources, parts[i].inputs, seeds),
                  ContentCells(content \cap {StorageOf(r) : r \in parts[i].resources})),
           ImportedCells(parts, i)))

FragmentsInitialized(parts, seeds, content) ==
  \A i \in DOMAIN parts :
    LET run == FragmentRun(parts, i, seeds, content)
    IN /\ run.valid
       /\ \A o \in parts[i].outputs :
            run.cells[StorageOf(o.resource)] \cap WholeCells(o.resource) = o.cells

(* simulate_prepared_initialization: the whole graph in its schedule, and the     *)
(* coverage that survives if the graph is accepted and then fails.              *)
GraphResources(parts) == UNION {parts[i].resources : i \in DOMAIN parts}
GraphStorage(parts)   == {StorageOf(r) : r \in GraphResources(parts)}
GraphInputs(parts)    == UNION {parts[i].inputs : i \in DOMAIN parts}

InitialCells(parts, seeds) ==
  EntryCells(GraphStorage(parts), GraphInputs(parts), seeds)

Simulated(parts, order, seeds, content) ==
  RunNodes([k \in DOMAIN order |-> NodeAt(parts, order[k])],
           Joined(InitialCells(parts, seeds), ContentCells(content)))

Preserved(parts, seeds) ==
  [s \in {t \in GraphStorage(parts) : Retained(t)} |->
     InitialCells(parts, seeds)[s]
       \ UNION {CellsIn(Discards(NodeAt(parts, n).op), s) : n \in NodeIds(parts)}]

(* prepare_core ignores seeds of storage that is not retained here, and          *)
(* validate_reconstruction_targets and _participation want every target retained,*)
(* declared and used.                                                          *)
UsableSeeds(parts, seeds) == {d \in seeds : d.storage \in GraphStorage(parts) /\ Retained(d.storage)}

TargetsParticipate(parts, targets, content) ==
  \A s \in targets :
    /\ s \in GraphStorage(parts) /\ Retained(s)
    /\ \/ \E n \in NodeIds(parts) : \E a \in NodeAt(parts, n).accesses : a.storage = s
       \/ s \in content

(* register_fragment_resources, validate_node_resources: a merged storage access  *)
(* names the storage itself, which the fragment must have declared too.         *)
NodesRegistered(parts) ==
  \A n \in NodeIds(parts) : \A a \in NodeAt(parts, n).accesses :
    a.resource \in parts[n[1]].resources

Prepared(parts, graphOrders, given, targets) ==
  LET seeds   == UsableSeeds(parts, given)
      edges   == Ordered(parts, graphOrders)
      order   == NodeOrder(parts, edges.edges)
      content == PreparedContent(parts, seeds)
      run     == Simulated(parts, order, seeds, content)
  IN IF /\ \A o \in ToSet(graphOrders) : Resolves(parts, o[1]) /\ Resolves(parts, o[2])
        /\ NodesRegistered(parts)
        /\ TargetsParticipate(parts, targets, content)
        /\ UniqueExports(parts) /\ ImportsBound(parts) /\ BoundaryIntents(parts)
        /\ CrossingsTied(parts)
        /\ edges.valid
        /\ Len(order) = Cardinality(NodeIds(parts))
        /\ FragmentsOrdered(parts)
        /\ FragmentsInitialized(parts, seeds, content)
        /\ run.valid
     THEN [state |-> "prepared", parts |-> parts, order |-> order, seeds |-> seeds,
           orders |-> graphOrders, content |-> content, final |-> run.cells,
           preserved |-> Preserved(parts, seeds)]
     ELSE [state |-> "rejected"]

(* Fragments are immutable and may be used in many graphs, also twice in one.    *)
(* Preparation keeps nothing, so one at a time is looked at.                    *)
PrepareFragments(choice, graphOrders, seeds, targets) ==
  /\ ~ Open /\ graph.state = "none"
  /\ graph' = Prepared([i \in DOMAIN choice |-> fragments[choice[i]]], graphOrders, seeds, targets)
  /\ UNCHANGED fragments

Compositions == UNION {[1 .. n -> DOMAIN fragments] : n \in DOMAIN Author}
Endpoints    == (DOMAIN fragments) \X (1 .. MaxNodes)
\* Orders between fragments; AddOrder tries those inside one.
GraphOrders  == {<<>>} \cup {<<o>> : o \in {p \in Endpoints \X Endpoints : p[1][1] # p[2][1]}}

GraphInit == fragments = <<>> /\ graph = NoGraph

(* What the author of the open fragment works with.                             *)
Desk == Author[Len(fragments)]

GraphNext ==
  \/ StartFragment
  \/ Open /\ \E set \in Desk.declared : DeclareResources(set)
  \/ Open /\ \E i \in Desk.inputs : AddInput(i)
  \/ Open /\ \E i \in Desk.imports : AddImport(i)
  \/ Open /\ \E o \in Desk.outputs : AddOutput(o)
  \/ Open /\ \E w \in Desk.work : AddNode(w.op, w.extra)
  \/ Open /\ \E w \in Desk.work : AddOperation(w.op)
  \/ \E m, n \in 1 .. MaxNodes : AddOrder(m, n)
  \/ FinishFragment
  \/ \E choice \in Compositions, orders \in GraphOrders, given \in Reconstruction :
       PrepareFragments(choice, orders, given.seeds, given.targets)

GraphSpec == GraphInit /\ [][GraphNext]_graphVars

(***************************************************************************)
(* What the schedule promises, told from the programs and not from the edges.  *)
(***************************************************************************)
AllUses(node)        == Derived(node.op) \cup node.readable
TouchesFor(node, s, c) == {a \in node.accesses : a.storage = s /\ c \in CellsOf(a)}
WritesCell(node, s, c) == \E a \in TouchesFor(node, s, c) : Writes(a)

(* The writer a node's read of a cell is meant to see: the latest before it in    *)
(* its own fragment, else the last of the fragment it imports the storage from.  *)
LastOf(set) == CHOOSE k \in set : \A j \in set : j <= k

IntendedWriter(parts, n, s, c) ==
  LET own      == {l \in 1 .. n[2] - 1 : WritesCell(parts[n[1]].nodes[l], s, c)}
      producer == {i \in DOMAIN parts : <<i, n[1], s>> \in Relations(parts)}
      theirs   == {w \in producer \X (1 .. MaxNodes) :
                     w[2] \in DOMAIN parts[w[1]].nodes /\ WritesCell(NodeAt(parts, w), s, c)}
  IN IF own # {} THEN {<<n[1], LastOf(own)>>}
     ELSE {w \in theirs : \A v \in theirs : v[2] <= w[2]}

(* prepare_initial_content: the cells of its prepared storage that a submission   *)
(* of the graph uploads before the first node.                                 *)
Uploaded(content, s) ==
  IF s \in content THEN {c \in WholeCells(s) : TypeOf(s) = "texture" => c[1] = 0} ELSE {}

(* Scheduled at position k, what a read of the cell sees and whether it is        *)
(* defined.                                                                    *)
SeenWriter(g, k, s, c) ==
  LET earlier == {j \in 1 .. k - 1 : WritesCell(NodeAt(g.parts, g.order[j]), s, c)}
  IN IF earlier = {} THEN {} ELSE {g.order[LastOf(earlier)]}

DefinedAt(g, k, s, c) ==
  LET decides == {j \in 1 .. k - 1 :
                    c \in CellsIn(Effects(NodeAt(g.parts, g.order[j]).op)
                                  \cup Discards(NodeAt(g.parts, g.order[j]).op), s)}
  IN IF decides = {}
     THEN c \in InitialCells(g.parts, g.seeds)[s] \cup Uploaded(g.content, s)
     ELSE c \notin CellsIn(Discards(NodeAt(g.parts, g.order[LastOf(decides)]).op), s)

(* In a prepared graph every node that touches a cell comes after exactly the     *)
(* writer its program means: rescheduling the nodes of several fragments, with   *)
(* imports and explicit orders, never changes what is read or overwritten        *)
(* (infer_fragment_hazards, infer_cross_fragment_hazards, topological_node_order).*)
SchedulesKeepPrograms ==
  graph.state = "prepared" =>
    \A k \in DOMAIN graph.order :
      LET n == graph.order[k]
      IN \A a \in AllUses(NodeAt(graph.parts, n)) : \A c \in CellsOf(a) :
           SeenWriter(graph, k, a.storage, c) = IntendedWriter(graph.parts, n, a.storage, c)

(* Whatever a prepared graph reads is initialized at that point of the schedule,  *)
(* and the coverage it reports at the end is what its nodes leave behind         *)
(* (simulate_prepared_initialization).                                         *)
ScheduledReadsAreDefined ==
  graph.state = "prepared" =>
    /\ \A k \in DOMAIN graph.order :
         \A a \in NodeReads(NodeAt(graph.parts, graph.order[k])) : \A c \in CellsOf(a) :
           DefinedAt(graph, k, a.storage, c)
    /\ \A s \in GraphStorage(graph.parts) : \A c \in WholeCells(s) :
         c \in graph.final[s] <=> DefinedAt(graph, Len(graph.order) + 1, s, c)
=============================================================================
