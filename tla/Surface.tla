------------------------------- MODULE Surface -------------------------------
(***************************************************************************)
(* Presentation surfaces of one context (backend/wgpu/surface.rs,            *)
(* surface/execution.rs, surface/execution/retirement.rs and                 *)
(* api/surface_acquisition.rs): configuration generations, the one acquired  *)
(* image a surface may have out, and who may still use or present it.        *)
(*                                                                          *)
(* All records live under one mutex.  A lease is logical metadata; the       *)
(* physical image sits in the record, and lives as long as somebody owns     *)
(* the lease: the caller's acquired image, a submission that pinned it, or,  *)
(* for an instant, a thread that upgraded the record's weak reference to see *)
(* whether an owner is left.  The owner's destructor marks the lease and     *)
(* asks for the mutex to release the image, on whichever thread let go last. *)
(***************************************************************************)
EXTENDS Naturals, FiniteSets

CONSTANTS
  SurfaceId, Thread, Configuration, None,
  Supported,       \* surface -> configurations its capabilities admit
  MaxGeneration,   \* the last configuration generation
  MaxLease         \* bound on the leases ever allocated

Lease      == 1 .. MaxLease
Generation == 1 .. MaxGeneration
Image      == "image"

ASSUME SurfaceAssumption ==
  /\ Supported \in [SurfaceId -> SUBSET Configuration]
  /\ MaxGeneration \in Nat \ {0} /\ MaxLease \in Nat
  /\ None \notin Configuration \cup Thread /\ Image \notin Thread
  /\ None \notin Nat

(* The affinity of a handle is fixed with its identity: one of another context *)
(* or device is refused like one that is not registered here.                  *)
Handle == [id : SurfaceId, generation : Generation]

VARIABLES
  records,   \* surface -> [registered, generation, configuration, lease]
  native,    \* surface -> configuration of the backend's surface
  leases,    \* lease -> [surface, generation, disposition, described, taken]
  images,    \* leases whose physical image is alive
  owners,    \* lease -> the strong references to its owner
  mutex,     \* thread that holds the surface mutex, or None
  calls,     \* thread -> the call it is in
  fault      \* a terminal device fault is recorded

vars == <<records, native, leases, images, owners, mutex, calls, fault>>

-----------------------------------------------------------------------------
(* Helpers *)

Idle == [at |-> "idle", goal |-> "none", handle |-> None, asked |-> None,
         lease |-> None, todo |-> {}, uses |-> {}, presents |-> {}]
At(t, at) == calls[t].at = at
Goto(t, at) == calls' = [calls EXCEPT ![t].at = at]

Unallocated == [surface |-> None, generation |-> 0, disposition |-> "None",
                described |-> None, taken |-> None]
Allocated == {l \in Lease : leases[l].disposition # "None"}
LeaseOf(s) == records[s].lease

(* validate_surface_affinity, the lookup and validate_surface_generation       *)
ValidHandle(h) ==
  /\ records[h.id].registered
  /\ records[h.id].generation = h.generation

(* compare_exchange from Active                                                *)
Abandoned(l) ==
  [leases EXCEPT ![l].disposition = IF @ = "Active" THEN "Abandoned" ELSE @]

(* The record gives up its lease, whose physical image goes with it            *)
TakeLease(s) ==
  /\ records' = [records EXCEPT ![s].lease = None]
  /\ images' = images \ {LeaseOf(s)}
AbandonLease(s) ==
  IF LeaseOf(s) = None
  THEN UNCHANGED <<records, images, leases>>
  ELSE TakeLease(s) /\ leases' = Abandoned(LeaseOf(s))

(* validate_lease: the lease is the active one of a current record             *)
ValidLease(l) ==
  LET s == leases[l].surface
  IN /\ records[s].registered
     /\ records[s].generation = leases[l].generation
     /\ leases[l].disposition = "Active"
     /\ LeaseOf(s) = l

(* Fault: the counter runs past its end                                        *)
NextGenerationUnchecked(s) ==
  IF records[s].configuration = None THEN records[s].generation
  ELSE records[s].generation + 1

(* The generation of the next successful configuration, 0 when exhausted       *)
NextGeneration(s) ==
  IF records[s].configuration = None THEN records[s].generation
  ELSE IF records[s].generation = MaxGeneration THEN 0
       ELSE records[s].generation + 1

-----------------------------------------------------------------------------
Init ==
  /\ records = [s \in SurfaceId |-> [registered |-> FALSE, generation |-> 1,
                                     configuration |-> None, lease |-> None]]
  /\ native = [s \in SurfaceId |-> None]
  /\ leases = [l \in Lease |-> Unallocated]
  /\ images = {}
  /\ owners = [l \in Lease |-> {}]
  /\ mutex = None
  /\ calls = [t \in Thread |-> Idle]
  /\ fault = FALSE

(* attach_surface, and request_for_surface for the first one.  A detached      *)
(* identity is never allocated again: its generation stays behind at 0.        *)
Attach(s) ==
  /\ ~fault /\ mutex = None
  /\ ~records[s].registered /\ records[s].generation = 1
  /\ records' = [records EXCEPT ![s].registered = TRUE]
  /\ UNCHANGED <<native, leases, images, owners, mutex, calls, fault>>

(* detach_surface: independent of the device's health                          *)
Detach(h) ==
  /\ mutex = None /\ ValidHandle(h)
  /\ records' = [records EXCEPT ![h.id] =
       [registered |-> FALSE, generation |-> 0, configuration |-> None,
        lease |-> None]]
  /\ images' = images \ {LeaseOf(h.id)}
  /\ leases' = IF LeaseOf(h.id) = None THEN leases ELSE Abandoned(LeaseOf(h.id))
  /\ UNCHANGED <<native, owners, mutex, calls, fault>>

(* Every other call looks at the device's health before it asks for the mutex  *)
Begin(t, call) ==
  /\ At(t, "idle") /\ ~fault
  /\ calls' = [calls EXCEPT ![t] = [call EXCEPT !.at = "entering"]]
  /\ UNCHANGED <<records, native, leases, images, owners, mutex, fault>>

BeginConfigure(t, h, c) ==
  Begin(t, [Idle EXCEPT !.goal = "configure", !.handle = h, !.asked = c])
BeginAcquire(t, h) == Begin(t, [Idle EXCEPT !.goal = "acquire", !.handle = h])

(* prepare_work validates each surface resource of a graph                     *)
BeginValidate(t, l) ==
  l \in Allocated /\ Begin(t, [Idle EXCEPT !.goal = "validate", !.lease = l])

(* submit_prepared, of a plan that uses some leases and presents some of them  *)
BeginExecute(t, uses, presents) ==
  /\ uses \subseteq Allocated /\ uses # {} /\ presents \subseteq uses
  /\ Begin(t, [Idle EXCEPT !.goal = "execute", !.uses = uses,
                           !.presents = presents])

-----------------------------------------------------------------------------
(* configure: one critical section.  The generation is found before anything   *)
(* changes; a fault noticed after the backend's call leaves the record as it   *)
(* was, without its lease.                                                     *)
ConfigureFails(t) ==
  LET s == calls[t].handle.id
  IN /\ At(t, "entering") /\ calls[t].goal = "configure" /\ mutex = None
     /\ \/ ~ValidHandle(calls[t].handle)
        \/ calls[t].asked \notin Supported[s]
        \/ NextGeneration(s) = 0
     /\ calls' = [calls EXCEPT ![t] = Idle]
     /\ UNCHANGED <<records, native, leases, images, owners, mutex, fault>>

(* Fault: the acquired image survives the configuration it was taken under     *)
ReconfiguredKeepingLease(s, c, broken) ==
  IF broken THEN records[s]
  ELSE [records[s] EXCEPT !.configuration = c, !.generation = NextGeneration(s)]

Reconfigured(s, c, broken) ==
  IF broken THEN [records[s] EXCEPT !.lease = None]
  ELSE [records[s] EXCEPT !.lease = None, !.configuration = c,
                          !.generation = NextGeneration(s)]

Configure(t) ==
  LET s == calls[t].handle.id
      c == calls[t].asked
  IN /\ At(t, "entering") /\ calls[t].goal = "configure" /\ mutex = None
     /\ ValidHandle(calls[t].handle)
     /\ c \in Supported[s] /\ NextGeneration(s) # 0
     /\ \E broken \in {fault, TRUE} :
          /\ fault' = broken
          /\ native' = [native EXCEPT ![s] = c]
          /\ records' = [records EXCEPT ![s] = Reconfigured(s, c, broken)]
     /\ images' = images \ {LeaseOf(s)}
     /\ leases' = IF LeaseOf(s) = None THEN leases ELSE Abandoned(LeaseOf(s))
     /\ calls' = [calls EXCEPT ![t] = Idle]
     /\ UNCHANGED <<owners, mutex>>

-----------------------------------------------------------------------------
(* The other calls first release what nobody owns any more, under the mutex:   *)
(* acquire on its surface, validate_execution_lease on the surface of the      *)
(* lease, execution_lease_guard on all of them.                                *)
Probed(t) ==
  CASE calls[t].goal = "acquire"  -> {calls[t].handle.id}
    [] calls[t].goal = "validate" -> {leases[calls[t].lease].surface}
    [] OTHER -> SurfaceId

Enter(t) ==
  /\ At(t, "entering") /\ mutex = None
  /\ calls[t].goal # "configure"
  /\ calls[t].goal = "acquire" => ValidHandle(calls[t].handle)
  /\ mutex' = t
  /\ calls' = [calls EXCEPT ![t].at = "probing",
                            ![t].todo = {s \in Probed(t) : LeaseOf(s) # None}]
  /\ UNCHANGED <<records, native, leases, images, owners, fault>>

EnterFails(t) ==
  /\ At(t, "entering") /\ mutex = None
  /\ calls[t].goal = "acquire" /\ ~ValidHandle(calls[t].handle)
  /\ calls' = [calls EXCEPT ![t] = Idle]
  /\ UNCHANGED <<records, native, leases, images, owners, mutex, fault>>

(* release_abandoned_lease: the weak reference upgrades, or the lease goes     *)
ProbeAbandoned(t, s) ==
  /\ At(t, "probing") /\ s \in calls[t].todo
  /\ owners[LeaseOf(s)] = {}
  /\ AbandonLease(s)
  /\ calls' = [calls EXCEPT ![t].todo = @ \ {s}]
  /\ UNCHANGED <<native, owners, mutex, fault>>

ProbeOwned(t, s) ==
  /\ At(t, "probing") /\ s \in calls[t].todo
  /\ owners[LeaseOf(s)] # {}
  /\ owners' = [owners EXCEPT ![LeaseOf(s)] = @ \cup {t}]
  /\ calls' = [calls EXCEPT ![t].at = "upgraded", ![t].todo = @ \ {s},
                            ![t].lease = LeaseOf(s)]
  /\ UNCHANGED <<records, native, leases, images, mutex, fault>>

(* The temporary reference goes; if it became the last one, its destructor    *)
(* runs here, with the mutex held                                              *)
DropProbe(t) ==
  /\ At(t, "upgraded")
  /\ LET l == calls[t].lease
     IN /\ owners' = [owners EXCEPT ![l] = @ \ {t}]
        /\ Goto(t, IF owners[l] = {t} THEN "dropping" ELSE "probing")
  /\ UNCHANGED <<records, native, leases, images, mutex, fault>>

Entered(t, goal) == At(t, "probing") /\ calls[t].todo = {} /\ calls[t].goal = goal
Leave(t) == mutex' = None /\ calls' = [calls EXCEPT ![t] = Idle]

-----------------------------------------------------------------------------
(* acquire, after the probe.  The backend may have no image to give; health is *)
(* looked at again once it has, because the caller may have waited for the     *)
(* mutex.  Lease identities are never used again.                              *)
AcquireFails(t) ==
  /\ Entered(t, "acquire") /\ Leave(t)
  /\ UNCHANGED <<records, native, leases, images, owners, fault>>

(* The logical texture and view describe the record's configuration, the       *)
(* physical image is of the backend's.                                         *)
Acquired(s) ==
  [surface |-> s, generation |-> records[s].generation, disposition |-> "Active",
   described |-> records[s].configuration, taken |-> native[s]]

(* Fault: health is looked at before the wait for the mutex only               *)
StillHealthyUnseen == TRUE

StillHealthy == ~fault

AcquireImage(t) ==
  LET s == calls[t].handle.id
      l == Cardinality(Allocated) + 1
  IN /\ Entered(t, "acquire") /\ Leave(t)
     /\ records[s].configuration # None
     /\ LeaseOf(s) = None
     /\ StillHealthy /\ l \in Lease
     /\ leases' = [leases EXCEPT ![l] = Acquired(s)]
     /\ records' = [records EXCEPT ![s].lease = l]
     /\ images' = images \cup {l}
     /\ owners' = [owners EXCEPT ![l] = {Image}]
     /\ UNCHANGED <<native, fault>>

EndValidate(t) ==
  /\ Entered(t, "validate") /\ Leave(t)
  /\ UNCHANGED <<records, native, leases, images, owners, fault>>

-----------------------------------------------------------------------------
(* Execution under the guard: every use is validated and its owner pinned,     *)
(* then the work is accepted and encoded, then Present consumes images.        *)
Pinned(t) == {l \in calls[t].uses : t \in owners[l]}

(* Fault: the validation at preparation is trusted                            *)
PinAsPrepared(t, l) ==
  /\ Entered(t, "execute") /\ l \in calls[t].uses \ Pinned(t)
  /\ ~fault /\ owners[l] # {}
  /\ owners' = [owners EXCEPT ![l] = @ \cup {t}]
  /\ UNCHANGED <<records, native, leases, images, mutex, calls, fault>>

Pin(t, l) ==
  /\ Entered(t, "execute") /\ l \in calls[t].uses \ Pinned(t)
  /\ ~fault /\ ValidLease(l) /\ owners[l] # {}
  /\ owners' = [owners EXCEPT ![l] = @ \cup {t}]
  /\ UNCHANGED <<records, native, leases, images, mutex, calls, fault>>

Present(t, l) ==
  /\ Entered(t, "execute") /\ Pinned(t) = calls[t].uses
  /\ l \in calls[t].presents
  /\ ~fault /\ ValidLease(l)
  /\ TakeLease(leases[l].surface)
  /\ leases' = [leases EXCEPT ![l].disposition = "Presented"]
  /\ calls' = [calls EXCEPT ![t].presents = @ \ {l}]
  /\ UNCHANGED <<native, owners, mutex, fault>>

(* A rejection, a failure to encode or submit, or the end of the work: the     *)
(* guard's mutex is unlocked before its pinned owners are dropped.             *)
Unlock(t) ==
  /\ Entered(t, "execute")
  /\ mutex' = None
  /\ calls' = [calls EXCEPT ![t] =
       IF Pinned(t) = {} THEN Idle
       ELSE [Idle EXCEPT !.at = "unpinning", !.uses = Pinned(t)]]
  /\ UNCHANGED <<records, native, leases, images, owners, fault>>

Unpin(t, l) ==
  /\ At(t, "unpinning") /\ l \in calls[t].uses
  /\ owners' = [owners EXCEPT ![l] = @ \ {t}]
  /\ LET rest == calls[t].uses \ {l}
     IN calls' = [calls EXCEPT ![t] =
          IF owners[l] = {t}
          THEN [Idle EXCEPT !.at = "dropping", !.lease = l, !.uses = rest]
          ELSE IF rest = {} THEN Idle
               ELSE [Idle EXCEPT !.at = "unpinning", !.uses = rest]]
  /\ UNCHANGED <<records, native, leases, images, mutex, fault>>

-----------------------------------------------------------------------------
(* Fault: no destructor runs with the last reference                           *)
DropImageSilently(t, l) ==
  /\ At(t, "idle") /\ Image \in owners[l]
  /\ owners' = [owners EXCEPT ![l] = @ \ {Image}]
  /\ UNCHANGED <<records, native, leases, images, mutex, calls, fault>>

(* The caller drops or abandons an acquired image, on any thread               *)
DropImage(t, l) ==
  /\ At(t, "idle") /\ Image \in owners[l]
  /\ owners' = [owners EXCEPT ![l] = @ \ {Image}]
  /\ calls' = IF owners[l] = {Image}
              THEN [calls EXCEPT ![t] = [Idle EXCEPT !.at = "dropping", !.lease = l]]
              ELSE calls
  /\ UNCHANGED <<records, native, leases, images, mutex, fault>>

(* GpuSurfaceLeaseOwner::drop: mark, then release under the mutex              *)
MarkAbandoned(t) ==
  /\ At(t, "dropping")
  /\ leases' = Abandoned(calls[t].lease)
  /\ Goto(t, "releasing")
  /\ UNCHANGED <<records, native, images, owners, mutex, fault>>

Release(t) ==
  LET l == calls[t].lease
      s == leases[l].surface
  IN /\ At(t, "releasing") /\ mutex = None
     /\ IF /\ records[s].registered
           /\ records[s].generation = leases[l].generation
           /\ LeaseOf(s) = l
        THEN TakeLease(s)
        ELSE UNCHANGED <<records, images>>
     /\ calls' = [calls EXCEPT ![t] =
          IF calls[t].uses = {} THEN Idle
          ELSE [Idle EXCEPT !.at = "unpinning", !.uses = calls[t].uses]]
     /\ UNCHANGED <<native, leases, owners, mutex, fault>>

Fault ==
  /\ ~fault /\ fault' = TRUE
  /\ UNCHANGED <<records, native, leases, images, owners, mutex, calls>>

-----------------------------------------------------------------------------
(* What a call does once it began, without its caller's choice                 *)
CallStep(t) ==
  \/ ConfigureFails(t) \/ Configure(t) \/ Enter(t) \/ EnterFails(t)
  \/ \E s \in SurfaceId : ProbeAbandoned(t, s) \/ ProbeOwned(t, s)
  \/ DropProbe(t) \/ AcquireFails(t) \/ AcquireImage(t) \/ EndValidate(t)
  \/ \E l \in Lease : Pin(t, l) \/ Present(t, l) \/ Unpin(t, l)
  \/ Unlock(t) \/ MarkAbandoned(t) \/ Release(t)

CallerStep(t) ==
  \/ \E h \in Handle, c \in Configuration : BeginConfigure(t, h, c)
  \/ \E h \in Handle : BeginAcquire(t, h)
  \/ \E l \in Lease : BeginValidate(t, l) \/ DropImage(t, l)
  \/ \E uses \in SUBSET Lease : \E presents \in SUBSET uses :
       BeginExecute(t, uses, presents)

Next ==
  \/ \E s \in SurfaceId : Attach(s)
  \/ \E h \in Handle : Detach(h)
  \/ \E t \in Thread : CallStep(t) \/ CallerStep(t)
  \/ Fault

Spec == Init /\ [][Next]_vars

(* A thread inside a call keeps running, and the mutex goes to a thread that   *)
(* finds it free again and again.                                              *)
FairSpec == Spec /\ \A t \in Thread : SF_vars(CallStep(t))

-----------------------------------------------------------------------------
(* Properties *)

Record == [registered : BOOLEAN, generation : 0 .. MaxGeneration,
           configuration : Configuration \cup {None}, lease : Lease \cup {None}]
LeaseRecord == [surface : SurfaceId \cup {None}, generation : 0 .. MaxGeneration,
                disposition : {"None", "Active", "Abandoned", "Presented"},
                described : Configuration \cup {None},
                taken : Configuration \cup {None}]

SurfaceTypeOK ==
  /\ records \in [SurfaceId -> Record]
  /\ native \in [SurfaceId -> Configuration \cup {None}]
  /\ leases \in [Lease -> LeaseRecord]
  /\ images \subseteq Lease
  /\ owners \in [Lease -> SUBSET (Thread \cup {Image})]
  /\ mutex \in Thread \cup {None}
  /\ fault \in BOOLEAN

(* A thread waits for the mutex it holds itself                                *)
SelfBlocked(t) == At(t, "releasing") /\ mutex = t

(* A physical image is alive exactly while it is the active lease of a         *)
(* registered surface and of its current generation: none outlives a           *)
(* reconfiguration, a retirement or a Present, and no surface has two.         *)
ImageAuthority ==
  /\ images = {LeaseOf(s) : s \in SurfaceId} \ {None}
  /\ \A s \in SurfaceId : LeaseOf(s) # None =>
       /\ records[s].registered
       /\ leases[LeaseOf(s)].surface = s
       /\ leases[LeaseOf(s)].generation = records[s].generation
       /\ leases[LeaseOf(s)].disposition # "Presented"

(* The logical texture of an acquired image describes the configuration its    *)
(* physical image was taken under, though a device fault can leave a record    *)
(* behind the backend's configuration while a caller waits for the mutex.      *)
AcquiredAsDescribed ==
  \A l \in Allocated : leases[l].described = leases[l].taken

(* What a submission pinned stays presentable until it presents it or lets go  *)
(* of the guard, whatever callers and other threads drop meanwhile.            *)
PinnedStaysPresentable ==
  \A t \in Thread : Entered(t, "execute") =>
    \A l \in Pinned(t) :
      \/ ValidLease(l) /\ l \in images
      \/ leases[l].disposition = "Presented" /\ l \notin calls[t].presents

(* An image nobody owns has a thread on its way to release it.                 *)
OrphansHaveAReleaser ==
  \A l \in images : owners[l] = {} =>
    \E t \in Thread : calls[t].at \in {"dropping", "releasing"} /\ calls[t].lease = l

(* Dropping the last owner asks the owning surface state to release the        *)
(* physical image: it is released.                                             *)
DroppedImagesAreReleased ==
  \A l \in Lease : (l \in images /\ owners[l] = {}) ~> (l \notin images)
=============================================================================
