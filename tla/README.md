# Formal models of RunenGPU

RunenGPU executes immutable work graphs on a GPU through WGPU.  Two things are
hard in it.  One is the bookkeeping around a device that answers late, fails at
any time and forgets everything when it is lost.  The other is a long chain of
contracts, from what an author declares to what the device is told, in which
each link trusts that the one before it was checked.  These modules model both.

`tlc -config X.cfg M` checks an instance, `tlapm M_proofs.tla` checks the
proofs about `M`.

## The system

| Component | State it keeps | Operations | Correct when |
|---|---|---|---|
| Execution owner (`backend/wgpu/execution.rs`) | lifecycle, ticket -> plan, submission records, staging counters, event queue, two identity counters | reserve, commit, release, accept, mark, complete, map, fail, sweep, shutdown, drop | budgets balance; each handle terminates once; physical order is identity order; shutdown closes |
| Retained-state authority (`execution/retained_continuity.rs`) | records, reconstruction obligations, reserved identities | coverage and reconstruction seeds, validate-and-reserve, mark, complete, fail, generation handoff | authority is exclusive; stale graphs are refused; lost contents are never used |
| Initial content (`resource_realization/records.rs`) | per storage: Unmaterialized, Queued, Completed | needs-materialization, mark queued, mark completed | prepared bytes are transferred once, before use |
| Execution planning and encoding (`backend/wgpu/execution.rs`, `execution/render.rs`) | none of its own | segmentation, preparation, staging, encoding | what is encoded is what was admitted |
| Graph initialization coverage (`api/graph/coverage.rs`, `initialization.rs`) | a symbolic coverage per storage | union, intersection, removal, containment; simulation of a schedule | coverage means exactly the defined cells; no scheduled read is undefined |
| Graph composition, hazards, order (`api/graph`) | the fragments of a graph | authoring, imports, explicit orders, hazards, topological order | the schedule keeps what each program means |
| Resource realization cache (`resource_realization`) | identity -> realization | lookup, insert, collect; lowering of descriptors | one identity, one storage, as long as its contents matter |
| Program, binding, pipeline realization | ready and in-flight maps | single-flight reserve, finish, abandon, collect | one owner per key; no waiter is left; one live record per key |
| Surfaces (`backend/wgpu/surface.rs`, `surface/execution.rs`) | configuration generation, active lease, its physical image | attach, configure, acquire, validate and pin, present, release, detach | the physical image belongs to the current lease; a lease is presented or abandoned once; a dropped image is released |
| Device health (`backend/wgpu/health.rs`) | most severe fault, secondary evidence | mark | terminal, and the most severe class wins |
| Context request (`api/context`, `adapter_mapping.rs`, `device_request.rs`) | the process's retry tokens | merge, enumerate, admit, rank, select, retry, request | a context keeps every demand; the choice is justified |
| Program analysis and layouts (`api/program`) | none | analysis, refinement, layouts, runtime binding sets | what a shader reaches is what was bound |
| Descriptors, accesses, formats (`api/resource.rs`, `api/texture_format.rs`, `api/access.rs`) | none | construction and admission | what is admitted can be executed |
| Ordinary helpers (`api/ordinary`) | none | a facade over the rest | |

Callers run on threads of their own.  They author fragments, prepare a graph,
turn it into a plan (`prepare_submission`, which awaits pipeline and program
realization), submit the plan and poll `progress`.  `submit_prepared` and
`progress` each hold `submission_order` from beginning to end; `inner` is a short
mutex below it.  WGPU calls back on completion and on mapping; a callback only
appends an event, and `progress` drains the events.  The health state is written
by WGPU observers at any moment.  The retained-state authority has three mutexes
of its own and is readable from any thread without the two above.  Surfaces have
one mutex for all records, which the destructor of an acquired image takes on
whatever thread drops it.

The hard behaviours are: plans and graphs that are stale when they are
submitted; failure after part of a submission was queued; answers that come
late, in any order or never; budgets returned by four different paths; device
generations replaced while graphs and tickets of the old one survive; images
dropped while another thread looks at them; shutdown racing all of it.  In the
pure part they are the seams: two descriptions of the same bytes that have to
agree, a fast path beside a general rule, a cache that answers for a request it
did not see, a schedule that is not the order anybody wrote.

## Modules

Concurrent part:

**RetainedContinuity** is the authority.  `graph` holds what callers prepared:
the work, which resources were seeded with a record (`consumed`), and the
coverage assumed at entry.  Coverage is a set of regions, so that a work is the
record of what it needs, gains and discards.  `Admissible` is
`validate_and_reserve`; `MarkedRecord`, `CompletedRecord` and `FailedRecord` are
the records the three transitions write; `Inherited` is the handoff to the next
device generation.  `Reserve`, `Mark`, `Settle`, `Fail` and `InstallGeneration`
are the bodies the execution owner calls; the actions `Accept`,
`MarkMayExecute`, `Complete`, `FailAfterAcceptance` and `ReplaceGeneration` add
the freest schedule under which the authority has to be right, whatever its
caller does.

**SubmissionContract** is what the holder of a `GpuSubmission` or `GpuReadback`
may rely on, without saying how: all handles of a submission are born in one
step, command buffers reach the queue by ascending identity and without mixing,
a handle becomes terminal once, and shutdown closes with the step that leaves no
handle open.  It has no budgets, tickets, events or locks.

**Execution** is the execution owner over the authority.  A caller's position
(`caller[c].pc`) follows `prepare_submission` and `submit_prepared`; `polling`
follows `progress`.  A critical section of `inner` is one step.  Between
`queue.submit` (`QueueSegment`) and the mark (`MarkSegment`) there is a step
boundary, as in the code.  `callbacks` and `events` are the two queues between
device and `progress`.  Three variables say what physically happened:
`lastWriter`, `filled` and `queueTail`; the code has no such fields, the
properties compare its bookkeeping with them.  `RetainedAuthority` states that
the execution owner implements `RetainedContinuity!Spec` by the identity mapping
on the shared variables, `HonoursContract` that it implements
`SubmissionContract!Spec` under the mapping that reads a handle's status out of
the records and the queueing submission out of the callers' positions.

**SingleFlight** is the realization of programs, layouts, bind groups and
pipelines.  A key is a complete request; `Home` says which registry serves it,
so the four families behind the one mutex of `program_binding_realization` and
the two of `pipeline_realization` are instances of one module.  `ready` and
`inFlight` are the two maps of a registry, `outcome` the cell waiters read,
`base` the records a record retains, `handles` what callers were given.  A
caller's position follows `realize_*`: reserve under the lock (`ReserveReady`,
`ReserveWaiter`, `ReserveOwner`, `ReserveFull`), `InFlight::wait` in three steps
(`Listen`, `Check`, `Park`), `scoped_create` (`Create`), and the end of an attempt
in three (`Conclude` under the lock, then `Announce` and `Notify`).  `Cancel` drops
a call where it awaits.  A pipeline layout's owner realizes its group layouts
from inside its own attempt (`outer`); a pipeline's caller presents handles that
are compared with the lookup first (`Recheck`).  `Retained` is
`Arc::strong_count > 1`.

**Surface** is the presentation surfaces of one context.  `records` is what the
surface mutex protects, `mutex` that mutex, `leases` the logical leases ever
allocated, `images` those whose physical image is alive, `owners` the strong
references to a lease: the caller's image, a submission that pinned it, or a
thread that upgraded the weak reference.  A call enters under the mutex, looks
for abandoned leases first (`ProbeAbandoned`; `ProbeOwned` and `DropProbe`: the
upgrade and the end of the temporary are two steps), does its work, and lets go of its references in the
order the code does; the last reference turns its thread to `dropping`, which
marks the lease, and `releasing`, which waits for the mutex.  `Execute`, `Pin`
and `Present` are the submission's side of it.

**Health** is what a device remembers of its faults: evidence of three classes,
of any length and in any order, one fault reported and the others told after it,
each labelled, in a text that ends at `MAX_BACKEND_EVIDENCE_CHARS`.

Pure part.  Each module is a small machine: a caller makes what the
constructors let it make, and whatever is admitted goes all the way to the
device.  The last variable of each says what the device was told, and the
properties compare it with what was declared at the beginning.

**Coverage** is the symbolic algebra: dense and strided buffer coverage,
intervals per mip and aspect, intervals of queries.  `defined` is the set of
cells it should mean.

**Graph** takes authored fragments through composition, hazard inference,
dependency edges, topological order and the simulation of initialization.
`IntendedWriter` and `SeenWriter` are the reference: who wrote a cell in the
program, and who did in the schedule.  `PreparedContent` selects what
`derive_prepared_initial_content` does: the prepared storages that an access
derived from a typed operation touches and no retained coverage stands for, not
those that are only declared or read by the caller's word; of a texture it
defines mip 0.  `Uploaded`, read from what a submission transfers
(`prepare_initial_content`), is the reference for that.

**Admission** merges descriptors, enumerates a machine's adapters tier by tier,
maps them to facts, admits, ranks, selects and requests a device, with the
retry tokens a strict request discloses.

**Formats** is the format table and what follows from it; **Resources** the
validity of descriptors and their lowering; **Transfers** (over both) every
upload, readback, copy, clear, query resolve and prepared content, byte by byte;
**Rendering** a render pass from pipeline state and draws to the pass WGPU
encodes; **Bindings** a shader from its parsed module to the bytes and texels
its dispatches reach through cached bind groups and dynamic offsets.

**MCContracts** explores these modules and Health one at a time: `subject` says
which, the other variables stay where they start.

**RetainedContinuity_proofs**, **SubmissionContract_proofs**, **Execution_proofs**,
**SingleFlight_proofs**, **Surface_proofs**, **Device_proofs** (Admission, Health,
Rendering, Bindings and Transfers) and **Preparation_proofs** (Coverage and Graph) hold the theorems;
**FiniteFolds** the induction over finite sets, the sums and the recursion over
numbers they need.

The operators whose comments call them faults (`...KeepingWrites`,
`...Unchecked` and so on) are what a plausible mistake would make of the
definition that follows them.  They are used in no specification; replacing the
definition by its fault must make the matching property fail.

## Runs

| Run | Instance | Shows |
|---|---|---|
| `retained_continuity` | two callers, two retained resources (one of two regions), three submissions, two generations | the authority's invariants and action properties |
| `execution_staging` | two callers, a prepared content, two works with readbacks and uploads, two submissions and tickets, one generation | budgets and records agree with the handles, and the execution owner implements `SubmissionContract` |
| `execution_retained` | two callers, a retained buffer and a collectable palette, two-segment work and its reconstruction, two submissions, two generations | it implements `RetainedContinuity`; tickets across generations; content seeded before use; continuity agrees with the storage |
| `execution_liveness` | one caller against progress, the device and shutdown | every accepted submission and readback terminates |
| `single_flight` | two callers; a layout, a pipeline layout over it, a bind group over it and a pipeline; room for two binding records and one pipeline | handles are the authoritative records, and one collection frees whole chains |
| `single_flight_waiters` | two callers; a pipeline layout over a layout | no lost wake-up, no circular wait |
| `surface` | two threads, one window, two configurations, two generations, two leases | who the physical image belongs to, at every moment |
| `contracts` | the pure modules, each on instances of its own | below |
| `retained_eviction`, `mark_after_submit`, `hollow_reconstruction`, `surface_release` | one caller; two threads for the last | disagreements with the documentation, below |

`contracts` asks, of the module each property belongs to:

- `CoverageIsExact`: after any sequence of unions, intersections and removals the
  symbolic coverage means exactly the cells it should, and containment answers
  accordingly, in both directions.
- `SchedulesKeepPrograms`: in every prepared graph of two authors each node finds
  under every cell the writer its program put there.
- `ScheduledReadsAreDefined`: whatever a prepared graph reads is initialized at
  that point, by what a submission uploads, retained coverage or earlier nodes, and
  its final coverage is what its nodes leave behind.
- `ContextKeepsEveryDemand`: the context gives each author whose descriptor was
  merged the required features and none of the disabled ones, the format roles,
  explicit minimum limits and alignments, on a backend and adapter class it accepts.
  The fallback and portability policies and permitted maxima are not part of it.
- `SelectionIsJustified`: no admissible adapter of an earlier tier was passed
  over, none of the same tier outranks the chosen one, a strict request settles
  no tie, and only a token disclosed for this very request names another.
- `WorstFaultIsReported`: the fault reported is the first of the worst class, and
  its secondary detail is the beginning of the story of the rest, in the order it was
  set aside: what the bound cuts is the end of it, never what was already told.
- `TransfersMoveExactly`: each byte of a region arrives where the caller's layout
  says, whatever staging did in between.
- `AdmittedTransfersStayInside`: nothing admitted breaks an internal assumption,
  the device's rules or the bounds of a buffer, staging buffer or mip level, and
  a buffer copy touches exactly what its access and its coverage claim.
- `FetchesStayBound`: every vertex, index and record the host fixes is fetched
  from the slice bound for it.
- `PassesAreCoherent`: an encoded pass has no hazard inside it and fits its
  pipelines.
- `BoundAsDeclared`: what a shader reaches through layouts, cached groups and
  dynamic offsets is what the caller bound, long enough, aligned and without
  overlap of what is written.

Bounds.  Two callers are the fewest that contend for a resource, a ticket and
the submission interval.  Two submissions per owner are enough for one to be in
flight, failed or established when the next is accepted; the authority alone
has three, for a stale graph between two others.  Two generations give one
handoff.  A work has at most two segments: the first ends at a Present, so
failure strikes before, between and after them.  Budgets are chosen so that
single works pass `validate_plan_policy` and pairs may not.  Callers are
interchangeable, hence symmetry in the runs without liveness.  Identities run
out and a context may be dropped, so those runs may stop.

In `single_flight` four keys compete for three places, so that requests join,
wait, collect and are refused; the chain pipeline, pipeline layout, layout is
the longest the code has.  Four attempts exist at once at most, which never
binds: an attempt's number is free again when nothing refers to it.

In `execution_retained` only the transient palette may be collected by the
cache.  Collecting the retained buffer is what `retained_eviction` does, with
the outcome described below.  `EstablishedByLastWriter` there exempts the
window between `queue.submit` and the mark, which `mark_after_submit` shows.

In `surface` two leases let one image be orphaned while its successor is out,
and two generations let a handle, a lease and a waiting caller be stale.  It may
stop: the device is lost, surfaces are retired for good, identities run out, and
two threads can reach the self-wait of `surface_release`.

In `contracts` the choices are enumerated, not random.  Coverage: six bytes, all
strided layouts that touch or just miss each other there, two mips, two layers.
Graphs: two authors of two nodes each, over a retained buffer that is passed on
and a two-plane texture, read partly through a view, and over a prepared retained
texture of two mips, copied from by one author and read by the caller's word by
another, with a seed that stands for its content or none; one explicit order, tried
between fragments and inside one.  Admission: nine demands, each of a
different kind, two merged at a time; four machines with twins, a weaker adapter,
an operator filter.  Health: four faults, details that are empty, fit, or are longer
than the bound of six marks, so that short stories fit and others are cut.  Transfers: every format moved whole, and ten textures
probed by region and with layouts that fit or miss by one step; alignments are
scaled down (8 for 256, 4 as it is, 16 for the query alignment).  Rendering and
bindings: draws, attachments, values and programs that are right, and each of
their parts wrong in one way.  A subject ends when its work is done or its bound
is reached, hence no deadlock check.

Fairness.  A thread inside `submit_prepared` or `progress` keeps running (weak
fairness).  `progress` is called again and again, and the mutex it waits for is
eventually given to it (strong fairness: submissions may take the same mutex
in between; `std::sync::Mutex` does not promise it, an application that polls
does in practice).  A device without a fault answers what was queued.  A
realization call is polled until it returns or is dropped, and backend creations
end (weak fairness per caller).  `CallsReturn` speaks of behaviours in which
calls are eventually no longer dropped: otherwise one caller may join another's
abandoned attempts for ever, which the code permits.  `surface_release` gives
every thread inside a surface call strong fairness, the mutex included, and the
image is still not released.  Nobody is obliged to prepare, submit, shut down or
drop anything, and no device has to fail.

That shutdown closes needs no property of its own: `ShutdownIsExact` says that an
owner that still shuts down has an open handle, `HonoursContract` that this
holds of `Execution`, and the two liveness properties that handles do not stay
open.

## Where code and documentation part

1. A retained resource that no plan holds loses its realization when the cache
   needs room (`resource_realization/registry.rs:67`), and stays `Established`
   with its coverage.  The next graph that relies on it reads fresh storage.
   `api/execution.rs:149` calls that state the current content.
2. `queue.submit` (`execution.rs:2853`) comes before the mark.  Another thread
   that asks in between is told the old content is established, where
   `api/execution.rs:153` promises `Unknown` once a write may execute.
3. Completing a reconstruction establishes its target without asking whether
   anything was written.  A direct dispatch of zero workgroups is declared a
   write, is skipped by the encoder, and so "reconstructs" nothing.
4. `release_abandoned_lease` (`surface.rs:399`) upgrades the weak owner of a lease
   under the surface mutex to see whether anybody is left.  If the caller drops
   its image before that temporary ends, the temporary is the last owner, and
   its destructor locks the mutex its own thread holds.  The image is never
   released, though `surface_acquisition.rs:363` says that dropping the marker
   asks for its release, and no later surface call returns.

## Proofs

Each module's proofs hold for any values of its constants that satisfy the named
assumptions in it.  TLC checked every strengthening on the run's instance before
it was proved.

`RetainedContinuity_proofs`: every reachable state of the authority satisfies
`IInv`, and from it follow the invariants and action properties the run checks.
The assumptions are `DescriptorAssumption`, `WorkAssumption` and
`NoGraphAssumption`.  None of the safety invariants is inductive alone.
`EntryStateStillCurrent` and `AcceptedWorkMeetsObligations` hold because a record
or obligation changes only through a submission that owns the resource, so they
need `ExclusiveAuthority`; `PendingWhileQueued` needs that submitted writes are
participants, and that submissions which are not open have none (in `TypeOK`);
`UnknownNeedsReconstruction` survives a completion only because the completing
submission was allowed to run, which is `AcceptedWorkMeetsObligations` again.
`IInv` is their conjunction with those facts.  Every action preserves it, one
step per action and conjunct.  `CoverageGrows` needs one fact more, `CoverageInv`:
what a graph assumes of a resource it was given no record of is what the
descriptor says, and a queued write leaves the failure-safe part of what its
graph assumed.

`SubmissionContract_proofs`: the type invariant, and that nothing is reported
successful while it is being queued (`QueueingIsNewest`), that shutdown and drop
are exact (`ShutdownIsExact`), that terminal handles are final and that the queue
follows identity order.  By `ContractHonoured` below they are promises of the
execution owner.

`Execution_proofs`: the owner implements both of its abstractions
(`AuthorityRefined`, `ContractHonoured`), records live as long as their handles
(`RecordsFollowHandles`), tickets are exclusive (`TicketsExclusive`) and prepared
contents precede their use (`ContentsBeforeUse`), for any number of callers,
resources and readbacks, any works and any policy.  The assumptions are
`PlanAssumption`, `IdentityAssumption`, `PolicyAssumption` and
`AuthorityAssumption`: a plan has at least one segment, which writes what its
graph declares, and uses finitely many resources; there are finitely many
readbacks, none of them named like the completion; identities and ticket numbers
start at 1; works and descriptors are what `RetainedContinuity` assumes of them.
`IInv` has six parts.
`Shaped`: the types the proofs need.  `Interval`: `submission_order` is held by
exactly the caller inside `submit_prepared` or the thread inside `progress`; all
else rests on it, since it is why a record does not end between a caller's
`queue.submit` and its mark.  `Equipped`: a caller inside the interval has an
accepted submission, a segment of its plan, and the last place on the queue.
`Planned`: an accepted plan transfers only contents it counted on.  `Recorded`:
`RecordsMatchHandles`, with the counter of pending readbacks exact, since its
saturating subtraction would otherwise hide a difference, and no identity at or
above the next one in use.  `Draining`: shutdown has emptied the slots and is
closed exactly without records.  Two more invariants stand on it.  `Ticketed`:
ticket numbers of an owner are below the next one and with one caller each, and
generations only grow while handles of earlier ones live, so a late drop never
meets a live slot.  `Seeding`: a content not counted as unmaterialized is in the
storage, and what an accepted plan relies on is there or among its transfers,
which are queued or in the hands of the one caller inside the interval.  For the
contract and the authority each step is mapped to a step or a stutter, one
lemma per kind of step.

Three results use the above.  *Inheritance*: since the owner implements the
authority, every invariant and action property proved of the authority holds of
the owner (`AuthorityInherited`, `AuthorityActionsInherited`); nothing is proved
twice.  *Budgets* (`BudgetsExact`, and `TypeCorrect`, whose byte counters need
it): the code adds at acceptance and subtracts, saturating, on four paths, so the
invariant `Charged` says that each counter is the sum of what the submissions
still held are charged, and that a submission is charged at least what the next
subtraction takes.  A counter is a sum over a set, so a step that changes one
submission's charge has to be the step that changes the sum by as much: that is
what `FiniteFolds` provides, from the recursive function behind the library's
folds and an induction over finite sets in which the property is a set and no
operator has to be instantiated.  *Continuity* (`EstablishedIsCurrent`): what the
authority calls established is what the last completed writer of the storage
left.  It is proved under two hypotheses, `RetainedIsKept` (no retained storage
is left to the cache's collection) and `TargetsAreWritten` (every explicit target
of a reconstruction is written by a segment).  The code checks neither; they are
exactly what the instances of `retained_eviction` and `hollow_reconstruction`
violate and the instance of `execution_retained` satisfies, so the theorem says
that those two are the only ways to a stale answer.  Its invariant `Provenance`
follows a written storage from `queue.submit` through the mark to completion: a
writer younger than the record's is still accepted, marked, and will settle.

`SingleFlight_proofs`: the type invariant, `HandlesAreAuthoritative` and
`PassesAreComplete`, for any callers, keys, families, registries, bounds and number
of attempts.  `KeyAssumption` says what requests nest and present;
`FamilyAssumption` that a family is collected after those that retain it in the
same registry, which is the order of `collect_lookup_only`, and that chains have at
most two steps.  The inductive invariant `Inv` joins what is known of the maps
with what each call has in hand.  `Distinct`: an attempt belongs to one key and to
one owner, and a key in flight is not ready.  `Authoritative`: a record is built on
the records the lookup has for what it retains, and handles are what the lookup
returns.  `Fits`: an owner at each point of its call still has the reservation it
made, the nested record it got, and the handles it presented; a waiter that reads
"Ready" finds the record of its attempt in the lookup.  A collection between
`Conclude` and `Announce` shows why the parts need each other: the record is kept
because the call that announces it refers to it, which is `Fits`, and what it was
built on is kept because it retains it, which is `Authoritative`.
`PassesAreComplete` looks into the pass: the fold over the families is a sequence
of growing sets (`StagesExist`); a record its family's turn left behind was
retained then, by a root or by a record that its own, earlier turn had left
(`LeftRetained`); since chains are short, a root is at most two steps away.  It
needs `Retaining`: only records in the lookup, and one about to be put there,
retain anything.

`Device_proofs`: `ContextKeepsEveryDemand` and `SelectionIsJustified`, for any
demands, any number of authors and requests, and any hosts.  `DemandAssumption`
says what the builders of a descriptor can make, `MachineAssumption` that a host
has finitely many adapters and that what they report are numbers,
`BaselineAssumption` that the backend's fixed values are.  The inductive invariant
has three parts.  `Requesting`: the request covers every demand merged so far,
where `Covers` orders descriptors by what they ask for.  A merge covers both sides
(`MergeCovers`, one lemma per field that is combined) and covering is transitive,
so that the order of the authors does not matter; a retry changes only fields that
no demand's guarantee depends on.  `Choosing`: the adapter is the choice of its
tier, and the tiers before it admit nobody.  There is a choice because being ahead
in rank is irreflexive and transitive (`AheadIsOrder`), so that among finitely many
adapters somebody is first (`SomebodyIsFirst`); the tokens of a tier reach each of
its adapters (`SeenAre`), so that nobody admissible was overlooked; tiers have no
backend in common (`TiersApart`), so that the chosen facts tell the tier.
`Keeping`: a context has a device that keeps the request, since a budget is at
least the minimum asked for (`BudgetSuffices`) and the device was verified against
it; what covers a demand keeps it (`DemandKept`).

The same module, on faults: `WorstFaultIsReported`, for any bound, any lengths and any
number of faults, with the types as `HealthInv`.  The code cuts the secondary detail
at every observation; that this is the story cut once is `ToldOnce`, since cutting
either side of a concatenation before cutting the whole changes nothing (`CutFront`,
`CutEnd`).  One more evidence adds one observation to the story (`StoryGrows`), of the
old worst or of itself, whichever is not the worst afterwards (`WorstNext`).

The same module, on render passes: `FetchesStayBound` and `PassesAreCoherent`, for any
textures, buffers, pipelines, draws and attachments.  `RenderConstants` says what the
Rust types of these values already guarantee (sizes and offsets are not negative, a
vertex format is one of the list, lists are finite); everything else comes from the
constructors.  The inductive invariant `RenderInv` keeps what each constructor
accepted until the pass is lowered: draws were valid when they were made, the pass was
valid over exactly those draws.  What the properties say of the *native* pass then
has to be carried through the lowering:

- *Fetches.*  Layouts are found by position again (`LayoutsInPlace`: a slot that no
  layout names reads nothing, and no position past the highest slot is left out),
  slices by slot; the end of an attribute is at most the end of the largest
  (`EndCoversAttributes`), so the last element of a stepped range ends inside the
  slice (`FetchInside`), and `InputsAreFed` counts the attributes of an input: there
  is one because locations are distinct within a layout and across layouts.
- *Writes.*  Each cell the native pass writes is traced back to the one attachment use
  it is written through (`WriterOfCell`).  For a color or resolve target that needs
  that a color format has one plane (`ColorPlanes`); for depth and stencil, that an
  aspect the device has operations for is read-write in the pass and selects its own
  plane of the view (`PlaneOfAspect`), which `FormatClasses` shows for the whole
  format table.  Two writers of a cell, or a writer and a draw, are then two uses that
  meet, which the usage scope refused (`OneWriter`, `NoFeedback`).
- *Fit.*  The attachments of a pass have one size, sample count and view count
  (`ViewsAgree`), so what a draw was compared with is true of each of them.

And on dispatches: `BoundAsDeclared`, for any modules, entries, refinements, values, device
facts and number of submissions.  `BindingConstants` says what the WGSL front end and
the Rust types guarantee: an entry uses globals of its module, only storage buffers
and storage textures are stored to, only arrays are indexed, offsets and sizes are
natural numbers, alignments are positive.  The inductive invariant `BindingInv` keeps
that the program in use was analyzed, that the operation's values are valid for its
layout, that each cached bind group stands for the values of its request, and that
what was encoded is bound.  The last needs the one before it, since a dispatch may use
a group that an earlier operation realized, with other dynamic offsets:

- *Positions.*  Keys are unique in an analyzed layout (`ProgramsAreKeyed`), so the entry
  found at a group and a binding is the one declared there (`EntriesHavePositions`), and
  skipped groups hold none (`PositionsHoldEntries`).
- *Bind groups.*  A request keeps everything of a value but its dynamic offset, and that
  is what the native group does not contain (`StaticValuesMeanTheSame`).  So any value
  with the same request may use the group, whoever realized it
  (`RealizedGroupsMeanRequests`).  Were a static offset left out of the request too, two
  buffers' ranges would share a group; that is the mutant.
- *Dynamic offsets.*  The code lists them in the order of the bindings and the device
  deals them out to its dynamic entries in ascending order.  A place is listed at its
  count (`OffsetsAreRanked`), and the counts agree because a dynamic binding is no
  array: a group that mixes them is refused (`DynamicStandsAlone`,
  `OffsetsReachTheirBindings`).
- *Ranges and aliases.*  Offsets are aligned one by one and their sum is checked against
  the buffer (`MeaningInsideBuffer`); what is reached has the cells that the alias check
  compared (`MeaningHasTheCells`), and what the shader stores to is declared writable
  (`StoresAreDeclared`).

And on transfers: `TransfersMoveExactly` and `AdmittedTransfersStayInside`, for every
format of the table, any extents, mips, regions, layouts and contents and any
alignments.  `TransferConstants` says what the Rust types guarantee: numbers are
natural, an extent fits 32 bits, alignments are positive.  That a texture has at most
32 mips, hence a smallest level of one block, follows from the descriptor's admission
(`MipsAreFew`).  The inductive invariant `TransferInv` keeps that what is at hand was
admitted, that work was asked for on what is at hand (`TypedWork`) and admitted, and
that what moved is what the commands of the work move; the two properties are then
facts about admitted work:

- *Exactness.*  A block byte is named three ways: by its place in the region, by a line
  (block row and image) with a position in it, and by a number in a buffer.  Places and
  lines are in one-to-one correspondence (`PlacesHaveLines`, `LinesHavePlaces`), numbers
  and lines are where rows do not overlap, a division with remainder (`PlacesNest`,
  `PlacesPart`).  Staging rows are padded to the alignment, so they do not overlap
  (`StagingIsRoomy`), and joining host rows, staging and device along their lines gives
  what the caller means (`StagedMoves`); a direct copy has a layout that was admitted
  with the device's defaults for what is left out (`DirectMoves`); a prepared content is
  first cut to tight rows (`PreparedPlaces`).
- *Staying inside.*  A region ends inside the physical extent of its level, which whole
  blocks cover (`BlocksFit`, `CellsStayInside`); for compressed formats that includes the
  padding of a level smaller than a block.  A staging buffer holds its last row
  (`StagingsFit`); a direct copy touches exactly the bytes its initialization coverage
  claims, from the first to the last of its declared range (`LayoutsAreHonest`); source
  and destination of a copy between textures are apart (`TextureCopiesStay`).  Nothing
  preparation takes for granted fails (`AdmittedIsCoherent`): prepared rows lie in their
  content, and readbacks form a valid data layout since block sizes are powers of two.

`Preparation_proofs`, on coverage: `CoverageIsExact`, for resources of any size and
any strided layouts.  `SizeAssumption` says that sizes and layouts are natural
numbers.  The inductive invariant `CoverageMeans` is that the values are well made
and stand for the cells that are defined; each operation keeps both (`UnionIs`,
`IntersectIs`, `RemoveIs`), and containment of well-made values is inclusion of
their cells (`ContainsIs`).  What they rest on:

- *Intervals.*  A set of intervals is merged into exactly the runs of its cells
  (`MergedAreRuns`), and a run is inside another set of cells exactly when one of
  that set's runs holds it (`WithinIsExact`); that is why comparing interval by
  interval misses nothing, and why it needs intervals that do not touch.  Discards
  take one interval after the other, in any order (`CutIs`).
- *Grids.*  The fast paths divide an offset by the group's and by the segment's
  stride.  What divides is a sub-grid, segment by segment (`GridIsSubGrid`,
  `SubGridSound`), and a dense range that a fast path accepts lies in one segment,
  one gapless group or a layout without gaps (`GridDenseSound`); canonical forms
  keep the cells (`CanonicalIs`).  Fast paths are proved sound only, as they are
  meant: whatever they miss the sweep decides.
- *Pruning.*  Normalization drops what another value contains, all at once, so two
  values must never drop each other.  `FastIsHeavier` finds a number that strictly
  decreases from a value to one it makes superfluous, so that the heaviest value
  over a cell always stays (`PrunedKeeps`).

The same module, on graphs: `SchedulesKeepPrograms` and `ScheduledReadsAreDefined`, for any
descriptors, any number of authors, fragments composed in any way and any explicit
orders.  `DescriptorAssumption` says that a handle leads to its storage, that
boxes and aspects are such and that a texture has a mip 0; `AuthorAssumption` that requests are built per type of
resource, that there are finitely many authors, and that what a typed operation
derives reads or writes.  The inductive invariant `IInv` is that every authored
fragment is `Made` (each use of an operation, and each read its caller asked for,
stands in a normalized access of its node) together with the two properties: a
prepared graph is a value that later steps keep.  So the work is in one step, that
what `Prepared` returns has them.

- *Programs are kept.*  Two nodes that touch a cell of which one writes it have a
  hazard (`SharedCell`, `CellHazard`).  Inside a fragment that is an edge
  (`FragmentHazardEdges`); across fragments preparation would have refused it unless
  an import ties the two in one direction, and then it is an edge in that direction
  (`CrossHazardEdges`).  Explicit orders only add edges (`OrdersAdd`).  A topological
  order that is complete puts every node after its edges (`TopologicalIsSorted`,
  `SchedulePlaces`).  So all writers of a cell stand to each of its users as their
  programs say, and the latest before it is the intended one: the last of its own
  fragment (`LatestOwn`), else the last of the producer (`LatestImported`), of which
  there is one (`SeenIsIntended`).
- *Reads are defined.*  By induction along the schedule, the coverage before a node
  is what the latest effect or discard left of each cell (`RunIsDefined`), and a run
  that ends valid was valid at each node (`ValidThroughout`).  What the simulation takes
  for prepared content is what a submission uploads (`ContentIsUploaded`).

The folds over orders, schedules and nodes are recursive functions; that they exist
is `IterationExists` of `FiniteFolds`, and what they compute is shown by induction
along their numbers.

`Surface_proofs`: the type invariant and the four surface invariants.  The inductive invariant has three
parts.  Structure: the types, what a thread at each point of its call may hold,
that leases are allocated in order, and that the mutex is held by exactly the
thread that is inside.  Authority: `ImageAuthority` with `ConfigurationAgrees` (a
record differs from the backend's configuration only once a fault is noted) and
`AcquiredAsDescribed`; the second needs the first, since a lease is described by
the record and taken under the backend's configuration.  Holding: whoever owns a
lease is at a point of a call, or has the image, that says so (`OwnersAreHeld`),
and a thread that releases does so for a lease nobody owns
(`DroppingIsOrphaned`).  `PinnedStaysPresentable` needs all three: a pinned lease
stays current because the pinning thread holds the mutex, and active because it
owns it.  Steps that change the state in the same way share a lemma, so that one
step per action remains.

Model-checked only: liveness (`AcceptedTerminates`, `ReadbacksTerminate`,
`CallsReturn`, and the violated `DroppedImagesAreReleased`), which is out of the
prover's reach.  Every safety invariant and action property of the passing runs is
the subject of a theorem.  `EstablishedByLastWriter`
without the two hypotheses is no theorem: the runs that expect it violated show
constants for which it fails.

## What is abstracted, and what is left out

Concurrent part:

- In `Execution` plans are sizes and write sets; graph preparation is `Derive` and
  `ReadsInitialized` over regions.  What those stand for is checked in `Graph`
  and `Coverage`.
- `complete_readback_mapping` reads a record, maps without the lock and writes
  back.  It is one step here: whatever else changes a record in flight holds
  `submission_order`.
- Device poll does not call back by itself in the model: `FireCallback` happens
  at any time, also between the two drains.
- In `Execution` surfaces appear as a refusal before acceptance and a failing
  Present, and a device fault has no class.
- A backend creation ends well or badly; a pipeline layout nests one request,
  standing for the sequence of its group layouts.
- Both registries are modelled with the steps of `Notify`; the `watch` channel of
  pipelines has the same ones, subscribing once instead of each round.
- A pipeline's `ready_matches` always holds, since the lookup is by the same
  descriptor; a record in the pipeline cache keeps its layout alive like any
  other holder, though nobody may hold the pipeline.
- In `Surface` a configuration is a name its surface supports or not; a handle's
  affinity is fixed with its identity.
- In `Health` a label or a separator counts as one mark of a text, so that the bound
  falls between marks; trimming of white space and the gate that serializes error
  scopes are left out.

Contracts:

- `Graph`: labels and diagnostics are left out.  A node whose two accesses to one
  view merge to a storage read-write names the parent texture; preparation
  refuses it (`NodesRegistered`) where the fragment did not declare that texture.
- `Admission`: of twenty limits and five alignments one stands for each way they
  are treated.  Merging can take a baseline below what another author would get
  by default, so the property speaks of explicit minima.  A limit on multiview
  views without the feature is admitted and fails at the device.  A `Forbid`
  fallback policy admits no enumerated adapter, since native adapters report the
  fallback status as unknown.
- `Transfers`: WGPU's rule that depth and stencil copies start at multiples of
  four bytes lies outside the repository, as does what a device does with a copy
  that it accepts.  Sampler descriptors are not modelled.
- `Rendering`: runtime bindings are taken as validated (that is `Bindings`), surface
  views as current (that is `Surface`).  Clear values and blend constants are
  names.  WGPU's own rules on vertex-slice offsets and strip index formats lie
  outside the repository.
- `Bindings`: the WGSL parser and validator are external, a module is what they
  return.  Dispatches are encoded; draws use the same binding sets.  Stage inputs
  and outputs, specialization constants and compute timestamps are left out.

Not modelled: the typed lookup of the resource cache and its collection of views
before parents (sequential, no property depends on more than `Evict`); the
bounded diagnostics of both caches; debug groups; names and reports; the
ordinary helpers, a facade that keeps no state.

Hazards no property covers: the two critical sections of
`complete_readback_mapping` (`execution.rs:1030`), for the reason given above.
