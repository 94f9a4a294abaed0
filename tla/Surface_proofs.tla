---------------------------- MODULE Surface_proofs ----------------------------
(***************************************************************************)
(* Leases and physical images, for any surfaces, threads, configurations and *)
(* bounds.                                                                   *)
(***************************************************************************)
EXTENDS Surface, FiniteSetTheorems, TLAPS

Call == [at : {"idle", "entering", "probing", "upgraded", "unpinning", "dropping",
               "releasing"},
         goal : {"none", "configure", "acquire", "validate", "execute"},
         handle : Handle \cup {None}, asked : Configuration \cup {None},
         lease : Lease \cup {None}, todo : SUBSET SurfaceId,
         uses : SUBSET Lease, presents : SUBSET Lease]

(* What a call knows fits what it was begun for                              *)
Fits(c, allocated) ==
  /\ c.goal \in {"configure", "acquire"} => c.handle \in Handle
  /\ c.goal = "configure" => c.asked \in Configuration
  /\ c.goal = "validate" => c.lease \in allocated
  /\ c.at \in {"upgraded", "dropping", "releasing"} => c.lease \in allocated
  /\ c.uses \subseteq allocated /\ c.presents \subseteq c.uses

CallsTyped ==
  calls \in [Thread -> Call] /\ \A t \in Thread : Fits(calls[t], Allocated)

(* Lease identities are given out one after another                          *)
LeasesInOrder ==
  /\ \E n \in 0 .. MaxLease : Allocated = 1 .. n
  /\ \A l \in Allocated : leases[l].surface \in SurfaceId
  /\ \A s \in SurfaceId : LeaseOf(s) # None => LeaseOf(s) \in Allocated
  /\ \A l \in Lease : owners[l] # {} => l \in Allocated

(* Whoever looks for owners holds the mutex, so what it looked up stays so     *)
MutexIsHeld ==
  \A t \in Thread : calls[t].at \in {"probing", "upgraded"} =>
    /\ mutex = t
    /\ calls[t].goal = "acquire" => ValidHandle(calls[t].handle)
    /\ \A s \in calls[t].todo : LeaseOf(s) # None

Structure == SurfaceTypeOK /\ CallsTyped /\ LeasesInOrder /\ MutexIsHeld

(* The fields of a surface's record, and the records an update leaves        *)
LEMMA RecordFields ==
  ASSUME records \in [SurfaceId -> Record], NEW s \in SurfaceId
  PROVE  /\ records[s].registered \in BOOLEAN
         /\ records[s].generation \in 0 .. MaxGeneration
         /\ records[s].configuration \in Configuration \cup {None}
         /\ LeaseOf(s) \in Lease \cup {None}
BY DEF Record, LeaseOf

(* A step writes fields of a record, each of its own kind                     *)
LEMMA RecordUpdates ==
  ASSUME records \in [SurfaceId -> Record], NEW s
  PROVE  /\ [records EXCEPT ![s].registered = TRUE] \in [SurfaceId -> Record]
         /\ \A l \in Lease \cup {None} :
              [records EXCEPT ![s].lease = l] \in [SurfaceId -> Record]
BY DEF Record

(* Abandoning a lease changes its disposition, if it was active, and nothing     *)
(* else of any lease.                                                          *)
LEMMA AbandonedLeases ==
  ASSUME leases \in [Lease -> LeaseRecord], NEW l \in Lease
  PROVE  /\ Abandoned(l) \in [Lease -> LeaseRecord]
         /\ \A k \in Lease :
              /\ Abandoned(l)[k].surface = leases[k].surface
              /\ Abandoned(l)[k].generation = leases[k].generation
              /\ Abandoned(l)[k].described = leases[k].described
              /\ Abandoned(l)[k].taken = leases[k].taken
              /\ Abandoned(l)[k].disposition =
                   IF k = l /\ leases[k].disposition = "Active" THEN "Abandoned"
                   ELSE leases[k].disposition
              /\ k # l => Abandoned(l)[k] = leases[k]
BY DEF LeaseRecord, Abandoned

(* No lease is allocated and nobody is in a call.                               *)
LEMMA StructureStarts == Init => Structure
<1> SUFFICES ASSUME Init PROVE Structure
  OBVIOUS
<1> USE SurfaceAssumption
<1>1. SurfaceTypeOK
  <2>1. 0 \in 0 .. MaxGeneration /\ 1 \in 0 .. MaxGeneration
    OBVIOUS
  <2>2. Unallocated \in LeaseRecord
    BY <2>1 DEF LeaseRecord, Unallocated
  <2>3. [registered |-> FALSE, generation |-> 1, configuration |-> None, lease |-> None]
          \in Record
    BY <2>1 DEF Record
  <2> QED BY <2>2, <2>3 DEF Init, SurfaceTypeOK
<1>2. Allocated = {}
  BY DEF Init, Allocated, Unallocated
<1>3. CallsTyped
  <2>1. Idle \in Call /\ Fits(Idle, {})
    BY DEF Call, Fits, Idle
  <2> QED BY <1>2, <2>1 DEF Init, CallsTyped
<1>4. 0 \in 0 .. MaxLease /\ Allocated = 1 .. 0
  BY <1>2
<1>5. LeasesInOrder
  BY <1>2, <1>4 DEF Init, LeasesInOrder, LeaseOf
<1>6. MutexIsHeld
  BY DEF Init, MutexIsHeld, Idle
<1> QED BY <1>1, <1>3, <1>5, <1>6 DEF Structure

(* Every step keeps the types of the variables.                                 *)
LEMMA TypesKept == Structure /\ [Next]_vars => SurfaceTypeOK'
<1> SUFFICES ASSUME Structure, [Next]_vars PROVE SurfaceTypeOK'
  OBVIOUS
<1> USE SurfaceAssumption DEF Structure
<1>1. ASSUME UNCHANGED vars PROVE SurfaceTypeOK'
  BY <1>1 DEF vars, SurfaceTypeOK
<1>2. ASSUME NEW s \in SurfaceId, Attach(s) PROVE SurfaceTypeOK'
  BY <1>2, RecordUpdates DEF SurfaceTypeOK, Attach
<1>3. ASSUME NEW h \in Handle, Detach(h) PROVE SurfaceTypeOK'
  <2>1. h.id \in SurfaceId
    BY DEF Handle
  <2>2. LeaseOf(h.id) \in Lease \cup {None}
    BY <2>1, RecordFields DEF SurfaceTypeOK
  <2>3. [registered |-> FALSE, generation |-> 0, configuration |-> None, lease |-> None]
          \in Record
    BY DEF Record
  <2> QED BY <1>3, <2>1, <2>2, <2>3, AbandonedLeases DEF SurfaceTypeOK, Detach
<1>4. ASSUME Fault PROVE SurfaceTypeOK'
  BY <1>4 DEF SurfaceTypeOK, Fault
<1>5. ASSUME NEW t \in Thread, CallerStep(t) PROVE SurfaceTypeOK'
  <2>1. CASE UNCHANGED <<records, native, leases, images, owners, mutex, fault>>
    BY <2>1 DEF SurfaceTypeOK
  <2>2. ASSUME NEW l \in Lease, DropImage(t, l) PROVE SurfaceTypeOK'
    BY <2>2 DEF SurfaceTypeOK, DropImage
  <2> QED BY <1>5, <2>1, <2>2 DEF CallerStep, BeginConfigure, BeginAcquire, BeginValidate,
             BeginExecute, Begin
<1>6. ASSUME NEW t \in Thread, CallStep(t) PROVE SurfaceTypeOK'
  <2>1. CASE ConfigureFails(t) \/ Enter(t) \/ EnterFails(t)
    BY <2>1 DEF SurfaceTypeOK, ConfigureFails, Enter, EnterFails
  <2>2. CASE Configure(t)
    <3> DEFINE s == calls[t].handle.id
               c == calls[t].asked
    <3>1. s \in SurfaceId /\ c \in Configuration
      BY <2>2 DEF Configure, CallsTyped, Fits, Handle
    <3>2. NextGeneration(s) \in 0 .. MaxGeneration
      BY <3>1, RecordFields DEF SurfaceTypeOK, NextGeneration
    <3>3. LeaseOf(s) \in Lease \cup {None}
      BY <3>1, RecordFields DEF SurfaceTypeOK
    <3>4. /\ leases' = (IF LeaseOf(s) = None THEN leases ELSE Abandoned(LeaseOf(s)))
          /\ native' = [native EXCEPT ![s] = c]
          /\ images' = images \ {LeaseOf(s)}
          /\ owners' = owners /\ mutex' = mutex
      BY <2>2 DEF Configure
    <3>5. PICK broken \in {fault, TRUE} :
            fault' = broken /\ records' = [records EXCEPT ![s] = Reconfigured(s, c, broken)]
      BY <2>2 DEF Configure
    <3>6. Reconfigured(s, c, broken) \in Record
      <4>1. records[s] \in Record
        BY <3>1 DEF SurfaceTypeOK
      <4> HIDE DEF s, c
      <4> QED BY <3>1, <3>2, <4>1 DEF Record, Reconfigured
    <3> HIDE DEF s, c
    <3> QED BY <3>1, <3>3, <3>4, <3>5, <3>6, AbandonedLeases DEF SurfaceTypeOK
  <2>3. ASSUME NEW s \in SurfaceId, ProbeAbandoned(t, s) PROVE SurfaceTypeOK'
    <3>1. LeaseOf(s) \in Lease \cup {None}
      BY RecordFields DEF SurfaceTypeOK
    <3>2. UNCHANGED <<native, owners, mutex, fault>>
      BY <2>3 DEF ProbeAbandoned
    <3>3. CASE LeaseOf(s) = None
      BY <2>3, <3>2, <3>3 DEF SurfaceTypeOK, ProbeAbandoned, AbandonLease
    <3>4. CASE LeaseOf(s) # None
      <4>1. /\ leases' = Abandoned(LeaseOf(s)) /\ images' = images \ {LeaseOf(s)}
            /\ records' = [records EXCEPT ![s].lease = None]
        BY <2>3, <3>4 DEF ProbeAbandoned, AbandonLease, TakeLease
      <4> QED BY <3>1, <3>2, <3>4, <4>1, AbandonedLeases, RecordUpdates DEF SurfaceTypeOK
    <3> QED BY <3>3, <3>4
  <2>4. ASSUME NEW s \in SurfaceId, ProbeOwned(t, s) PROVE SurfaceTypeOK'
    BY <2>4 DEF SurfaceTypeOK, ProbeOwned, LeaseOf
  <2>5. CASE DropProbe(t)
    BY <2>5 DEF SurfaceTypeOK, DropProbe, Goto
  <2>6. CASE AcquireFails(t) \/ EndValidate(t) \/ Unlock(t)
    BY <2>6 DEF SurfaceTypeOK, AcquireFails, EndValidate, Leave, Unlock
  <2>7. CASE AcquireImage(t)
    <3> DEFINE s == calls[t].handle.id
               l == Cardinality(Allocated) + 1
    <3>1. s \in SurfaceId /\ l \in Lease
      BY <2>7 DEF AcquireImage, CallsTyped, Fits, Entered, Handle
    <3>2. Acquired(s) \in LeaseRecord
      BY <3>1, RecordFields DEF SurfaceTypeOK, Acquired, LeaseRecord
    <3>3. /\ leases' = [leases EXCEPT ![l] = Acquired(s)]
          /\ records' = [records EXCEPT ![s].lease = l]
          /\ images' = images \cup {l} /\ owners' = [owners EXCEPT ![l] = {Image}]
          /\ native' = native /\ fault' = fault /\ mutex' = None
      BY <2>7 DEF AcquireImage, Leave
    <3> HIDE DEF s, l
    <3> QED BY <3>1, <3>2, <3>3, RecordUpdates DEF SurfaceTypeOK
  <2>8. ASSUME NEW l \in Lease, Pin(t, l) PROVE SurfaceTypeOK'
    BY <2>8 DEF SurfaceTypeOK, Pin
  <2>9. ASSUME NEW l \in Lease, Present(t, l) PROVE SurfaceTypeOK'
    <3>1. /\ images' \subseteq images /\ native' = native /\ owners' = owners
          /\ mutex' = mutex /\ fault' = fault
          /\ records' = [records EXCEPT ![leases[l].surface].lease = None]
          /\ leases' = [leases EXCEPT ![l].disposition = "Presented"]
      BY <2>9 DEF Present, TakeLease
    <3>2. leases' \in [Lease -> LeaseRecord]
      BY <3>1 DEF SurfaceTypeOK, LeaseRecord
    <3> QED BY <3>1, <3>2, RecordUpdates DEF SurfaceTypeOK
  <2>10. ASSUME NEW l \in Lease, Unpin(t, l) PROVE SurfaceTypeOK'
    BY <2>10 DEF SurfaceTypeOK, Unpin
  <2>11. CASE MarkAbandoned(t)
    <3>1. calls[t].lease \in Lease
      BY <2>11 DEF CallsTyped, Fits, MarkAbandoned, At, Allocated
    <3> QED BY <2>11, <3>1, AbandonedLeases DEF SurfaceTypeOK, MarkAbandoned, Goto
  <2>12. CASE Release(t)
    <3>1. images' \subseteq images /\ UNCHANGED <<native, leases, owners, mutex, fault>>
      BY <2>12 DEF Release, TakeLease
    <3> DEFINE s == leases[calls[t].lease].surface
    <3>2. records' = records \/ records' = [records EXCEPT ![s].lease = None]
      BY <2>12 DEF Release, TakeLease
    <3> HIDE DEF s
    <3>3. [records EXCEPT ![s].lease = None] \in [SurfaceId -> Record]
      BY RecordUpdates DEF SurfaceTypeOK
    <3>4. records' \in [SurfaceId -> Record]
      BY <3>2, <3>3 DEF SurfaceTypeOK
    <3> QED BY <3>1, <3>4 DEF SurfaceTypeOK
  <2> QED BY <1>6, <2>1, <2>2, <2>3, <2>4, <2>5, <2>6, <2>7, <2>8, <2>9, <2>10, <2>11,
             <2>12 DEF CallStep
<1> QED BY <1>1, <1>2, <1>3, <1>4, <1>5, <1>6 DEF Next

(* The next lease is the one after those allocated.                           *)
LEMMA NextLease ==
  ASSUME LeasesInOrder
  PROVE  /\ Cardinality(Allocated) + 1 \notin Allocated
         /\ Cardinality(Allocated) + 1 \in Lease =>
              Cardinality(Allocated) + 1 \in 1 .. MaxLease
              /\ Allocated \cup {Cardinality(Allocated) + 1} = 1 .. Cardinality(Allocated) + 1
<1>1. PICK n \in 0 .. MaxLease : Allocated = 1 .. n
  BY DEF LeasesInOrder
<1>2. Cardinality(1 .. n) = n
  BY <1>1, FS_Interval
<1>3. Cardinality(Allocated) = n /\ n \in Nat
  BY <1>1, <1>2, SurfaceAssumption
<1> QED BY <1>1, <1>3 DEF Lease

(* An allocated lease keeps its identity: what it is of never changes, and a    *)
(* new one is the next.                                                        *)
LeasesGrow ==
  /\ \/ Allocated' = Allocated
     \/ /\ \E t \in Thread : AcquireImage(t)
        /\ Cardinality(Allocated) + 1 \in Lease
        /\ Allocated' = Allocated \cup {Cardinality(Allocated) + 1}
        /\ leases'[Cardinality(Allocated) + 1].surface \in SurfaceId
  /\ \A l \in Allocated :
       /\ leases'[l].surface = leases[l].surface
       /\ leases'[l].generation = leases[l].generation
       /\ leases'[l].described = leases[l].described
       /\ leases'[l].taken = leases[l].taken

(* Only acquire allocates; every other step keeps the identities it found.       *)
LEMMA LeasesKept == Structure /\ [Next]_vars => LeasesGrow
<1> SUFFICES ASSUME Structure, [Next]_vars PROVE LeasesGrow
  OBVIOUS
<1> USE SurfaceAssumption DEF Structure
<1>1. CASE leases' = leases
  BY <1>1 DEF LeasesGrow, Allocated
<1>2. ASSUME NEW l \in Lease, leases' = Abandoned(l) PROVE LeasesGrow
  BY <1>2, AbandonedLeases DEF SurfaceTypeOK, LeasesGrow, Allocated
<1>3. ASSUME NEW l \in Allocated, leases' = [leases EXCEPT ![l].disposition = "Presented"]
      PROVE  LeasesGrow
  BY <1>3 DEF SurfaceTypeOK, LeaseRecord, LeasesGrow, Allocated
<1>4. ASSUME NEW s \in SurfaceId, LeaseOf(s) # None
      PROVE  LeaseOf(s) \in Lease
  BY <1>4 DEF LeasesInOrder, Allocated
<1>5. ASSUME NEW h \in Handle, Detach(h) PROVE LeasesGrow
  <2>1. h.id \in SurfaceId
    BY DEF Handle
  <2> QED BY <1>1, <1>2, <1>4, <1>5, <2>1 DEF Detach
<1>6. ASSUME NEW t \in Thread, CallStep(t) PROVE LeasesGrow
  <2> USE DEF CallsTyped, Fits
  <2>1. CASE Configure(t)
    <3>1. calls[t].handle.id \in SurfaceId
      BY <2>1 DEF Configure, Handle
    <3> QED BY <1>1, <1>2, <1>4, <2>1, <3>1 DEF Configure
  <2>2. ASSUME NEW s \in SurfaceId, ProbeAbandoned(t, s) PROVE LeasesGrow
    BY <1>1, <1>2, <1>4, <2>2 DEF ProbeAbandoned, AbandonLease
  <2>3. CASE AcquireImage(t)
    <3> DEFINE n == Cardinality(Allocated) + 1
               s == calls[t].handle.id
    <3>1. s \in SurfaceId /\ n \in Lease /\ leases' = [leases EXCEPT ![n] = Acquired(s)]
      BY <2>3 DEF AcquireImage, Entered, Handle
    <3>2. n \notin Allocated
      BY NextLease
    <3>3. Acquired(s).disposition = "Active" /\ Acquired(s).surface = s
      BY DEF Acquired
    <3> HIDE DEF n, s
    <3>4. Allocated' = Allocated \cup {n} /\ leases'[n].surface = s
      BY <3>1, <3>3 DEF SurfaceTypeOK, Allocated
    <3>5. \A l \in Allocated : leases'[l] = leases[l]
      BY <3>1, <3>2 DEF SurfaceTypeOK, Allocated
    <3> QED BY <2>3, <3>1, <3>4, <3>5 DEF LeasesGrow, n
  <2>4. ASSUME NEW l \in Lease, Present(t, l) PROVE LeasesGrow
    <3>1. l \in Allocated
      BY <2>4 DEF Present
    <3> QED BY <1>3, <2>4, <3>1 DEF Present
  <2>5. CASE MarkAbandoned(t)
    <3>1. calls[t].lease \in Lease
      BY <2>5 DEF MarkAbandoned, At, Allocated
    <3> QED BY <1>2, <2>5, <3>1 DEF MarkAbandoned
  <2> QED BY <1>1, <1>6, <2>1, <2>2, <2>3, <2>4, <2>5
          DEF CallStep, ConfigureFails, Enter, EnterFails, ProbeOwned, DropProbe, AcquireFails,
              EndValidate, Pin, Unpin, Unlock, Release
<1> QED BY <1>1, <1>5, <1>6 DEF Next, vars, Attach, Fault, CallerStep, BeginConfigure,
           BeginAcquire, BeginValidate, BeginExecute, Begin, DropImage

(* A step is of one thread at most.                                           *)
LEMMA CallsKept == Structure /\ [Next]_vars => CallsTyped'
<1> SUFFICES ASSUME Structure, [Next]_vars PROVE CallsTyped'
  OBVIOUS
<1> USE DEF Structure
<1>1. Allocated \subseteq Allocated' /\ Allocated \subseteq Lease
  BY LeasesKept DEF LeasesGrow, Allocated
<1>2. \A u \in Thread : calls[u] \in Call /\ Fits(calls[u], Allocated')
  BY <1>1 DEF CallsTyped, Fits
<1>3. CASE calls' = calls
  BY <1>2, <1>3 DEF CallsTyped
<1>4. ASSUME NEW t \in Thread, NEW c \in Call, Fits(c, Allocated'),
             calls' = [calls EXCEPT ![t] = c]
      PROVE  CallsTyped'
  BY <1>2, <1>4 DEF CallsTyped
<1>5. Idle \in Call /\ Fits(Idle, Allocated')
  BY DEF Call, Fits, Idle
<1>6. ASSUME NEW t \in Thread, CallerStep(t) PROVE CallsTyped'
  <2>1. ASSUME NEW c \in Call, Fits(c, Allocated'), Begin(t, c) PROVE CallsTyped'
    <3>1. [c EXCEPT !.at = "entering"] \in Call
          /\ Fits([c EXCEPT !.at = "entering"], Allocated')
      BY <2>1 DEF Call, Fits
    <3> QED BY <1>4, <2>1, <3>1 DEF Begin
  <2>2. ASSUME NEW h \in Handle, NEW c \in Configuration, BeginConfigure(t, h, c)
        PROVE  CallsTyped'
    <3> DEFINE b == [Idle EXCEPT !.goal = "configure", !.handle = h, !.asked = c]
    <3>1. b \in Call /\ Fits(b, Allocated')
      BY DEF Call, Fits, Idle
    <3> QED BY <2>1, <2>2, <3>1 DEF BeginConfigure
  <2>3. ASSUME NEW h \in Handle, BeginAcquire(t, h) PROVE CallsTyped'
    <3> DEFINE b == [Idle EXCEPT !.goal = "acquire", !.handle = h]
    <3>1. b \in Call /\ Fits(b, Allocated')
      BY DEF Call, Fits, Idle
    <3> QED BY <2>1, <2>3, <3>1 DEF BeginAcquire
  <2>4. ASSUME NEW l \in Lease, BeginValidate(t, l) PROVE CallsTyped'
    <3> DEFINE b == [Idle EXCEPT !.goal = "validate", !.lease = l]
    <3>1. b \in Call /\ Fits(b, Allocated')
      BY <1>1, <2>4 DEF Call, Fits, Idle, BeginValidate
    <3> QED BY <2>1, <2>4, <3>1 DEF BeginValidate
  <2>5. ASSUME NEW uses \in SUBSET Lease, NEW presents \in SUBSET uses,
               BeginExecute(t, uses, presents)
        PROVE  CallsTyped'
    <3> DEFINE b == [Idle EXCEPT !.goal = "execute", !.uses = uses, !.presents = presents]
    <3>1. b \in Call /\ Fits(b, Allocated')
      BY <1>1, <2>5 DEF Call, Fits, Idle, BeginExecute
    <3> QED BY <2>1, <2>5, <3>1 DEF BeginExecute
  <2>6. ASSUME NEW l \in Lease, DropImage(t, l) PROVE CallsTyped'
    <3> DEFINE b == [Idle EXCEPT !.at = "dropping", !.lease = l]
    <3>1. l \in Allocated
      BY <2>6 DEF LeasesInOrder, DropImage
    <3>2. b \in Call /\ Fits(b, Allocated')
      BY <1>1, <3>1 DEF Call, Fits, Idle
    <3> QED BY <1>3, <1>4, <2>6, <3>2 DEF DropImage
  <2> QED BY <1>6, <2>2, <2>3, <2>4, <2>5, <2>6 DEF CallerStep
<1>7. ASSUME NEW t \in Thread, CallStep(t) PROVE CallsTyped'
  <2> DEFINE c == calls[t]
  <2> USE DEF CallsTyped
  <2>1. c \in Call /\ Fits(c, Allocated')
    BY <1>2
  <2>2. CASE ConfigureFails(t) \/ Configure(t) \/ EnterFails(t) \/ AcquireFails(t)
             \/ AcquireImage(t) \/ EndValidate(t)
    BY <1>4, <1>5, <2>2 DEF ConfigureFails, Configure, EnterFails, AcquireFails, AcquireImage,
                         EndValidate, Leave
  <2>3. CASE Enter(t)
    <3> DEFINE todo == {s \in Probed(t) : LeaseOf(s) # None}
    <3>1. Probed(t) \subseteq SurfaceId
      <4>1. c.goal = "acquire" => c.handle.id \in SurfaceId
        BY <2>1 DEF Fits, Handle
      <4>2. c.goal = "validate" => leases[c.lease].surface \in SurfaceId
        BY DEF Fits, LeasesInOrder
      <4> QED BY <4>1, <4>2 DEF Probed
    <3>2. calls' = [calls EXCEPT ![t] = [c EXCEPT !.at = "probing", !.todo = todo]]
      BY <2>3 DEF Enter
    <3> HIDE DEF c
    <3>3. [c EXCEPT !.at = "probing", !.todo = todo] \in Call
          /\ Fits([c EXCEPT !.at = "probing", !.todo = todo], Allocated')
      BY <2>1, <3>1 DEF Call, Fits
    <3> QED BY <1>4, <3>2, <3>3
  <2>4. ASSUME NEW s \in SurfaceId, ProbeAbandoned(t, s) PROVE CallsTyped'
    <3>1. calls' = [calls EXCEPT ![t] = [c EXCEPT !.todo = @ \ {s}]]
      BY <2>4 DEF ProbeAbandoned
    <3> HIDE DEF c
    <3>2. [c EXCEPT !.todo = @ \ {s}] \in Call /\ Fits([c EXCEPT !.todo = @ \ {s}], Allocated')
      BY <2>1 DEF Call, Fits
    <3> QED BY <1>4, <3>1, <3>2
  <2>5. ASSUME NEW s \in SurfaceId, ProbeOwned(t, s) PROVE CallsTyped'
    <3> DEFINE d == [c EXCEPT !.at = "upgraded", !.todo = @ \ {s}, !.lease = LeaseOf(s)]
    <3>1. calls' = [calls EXCEPT ![t] = d]
      BY <2>5 DEF ProbeOwned
    <3>2. LeaseOf(s) \in Allocated
      <4>1. LeaseOf(s) # None
        BY <2>5 DEF ProbeOwned, MutexIsHeld, At
      <4> QED BY <4>1 DEF LeasesInOrder
    <3> HIDE DEF c
    <3>3. d \in Call /\ Fits(d, Allocated')
      BY <1>1, <2>1, <3>2 DEF Call, Fits
    <3> QED BY <1>4, <3>1, <3>3
  <2>6. CASE DropProbe(t) \/ MarkAbandoned(t)
    <3>1. PICK at \in {"probing", "dropping", "releasing"} :
            /\ calls' = [calls EXCEPT ![t] = [c EXCEPT !.at = at]]
            /\ c.at \in {"upgraded", "dropping"}
      BY <2>6 DEF DropProbe, MarkAbandoned, Goto, At
    <3> HIDE DEF c
    <3>2. [c EXCEPT !.at = at] \in Call /\ Fits([c EXCEPT !.at = at], Allocated')
      BY <2>1, <3>1 DEF Call, Fits
    <3> QED BY <1>4, <3>1, <3>2
  <2>7. ASSUME NEW l \in Lease, Pin(t, l) PROVE CallsTyped'
    BY <1>3, <2>7 DEF Pin
  <2>8. ASSUME NEW l \in Lease, Present(t, l) PROVE CallsTyped'
    <3>1. calls' = [calls EXCEPT ![t] = [c EXCEPT !.presents = @ \ {l}]]
      BY <2>8 DEF Present
    <3> HIDE DEF c
    <3>2. [c EXCEPT !.presents = @ \ {l}] \in Call
          /\ Fits([c EXCEPT !.presents = @ \ {l}], Allocated')
      BY <2>1 DEF Call, Fits
    <3> QED BY <1>4, <3>1, <3>2
  <2>9. CASE Unlock(t)
    <3> DEFINE d == [Idle EXCEPT !.at = "unpinning", !.uses = Pinned(t)]
    <3>1. calls' = [calls EXCEPT ![t] = IF Pinned(t) = {} THEN Idle ELSE d]
      BY <2>9 DEF Unlock
    <3>2. Pinned(t) \subseteq c.uses
      BY DEF Pinned
    <3> HIDE DEF c
    <3>3. d \in Call /\ Fits(d, Allocated')
      BY <2>1, <3>2 DEF Call, Fits, Idle
    <3> QED BY <1>4, <1>5, <3>1, <3>3
  <2>10. ASSUME NEW l \in Lease, Unpin(t, l) PROVE CallsTyped'
    <3> DEFINE rest == c.uses \ {l}
               d == [Idle EXCEPT !.at = "dropping", !.lease = l, !.uses = rest]
               e == [Idle EXCEPT !.at = "unpinning", !.uses = rest]
    <3>1. calls' = [calls EXCEPT ![t] =
                     IF owners[l] = {t} THEN d ELSE IF rest = {} THEN Idle ELSE e]
      BY <2>10 DEF Unpin
    <3>2. l \in c.uses
      BY <2>10 DEF Unpin
    <3> HIDE DEF c
    <3>3. d \in Call /\ Fits(d, Allocated')
      BY <2>1, <3>2 DEF Call, Fits, Idle
    <3>4. e \in Call /\ Fits(e, Allocated')
      BY <2>1, <3>2 DEF Call, Fits, Idle
    <3> QED BY <1>4, <1>5, <3>1, <3>3, <3>4
  <2>11. CASE Release(t)
    <3> DEFINE d == [Idle EXCEPT !.at = "unpinning", !.uses = c.uses]
    <3>1. calls' = [calls EXCEPT ![t] = IF c.uses = {} THEN Idle ELSE d]
      BY <2>11 DEF Release
    <3> HIDE DEF c
    <3>2. d \in Call /\ Fits(d, Allocated')
      BY <2>1 DEF Call, Fits, Idle
    <3> QED BY <1>4, <1>5, <3>1, <3>2
  <2> QED BY <1>7, <2>2, <2>3, <2>4, <2>5, <2>6, <2>7, <2>8, <2>9, <2>10, <2>11
          DEF CallStep
<1> QED BY <1>3, <1>6, <1>7 DEF Next, vars, Attach, Detach, Fault

(* Only acquire gives a record a lease, and an owner to one that had none.       *)
LEMMA OrderKept == Structure /\ [Next]_vars => LeasesInOrder'
<1> SUFFICES ASSUME Structure, [Next]_vars PROVE LeasesInOrder'
  OBVIOUS
<1> USE SurfaceAssumption DEF Structure
<1>1. LeasesGrow
  BY LeasesKept
<1>2. Allocated \subseteq Allocated' /\ Allocated \subseteq Lease
  BY <1>1 DEF LeasesGrow, Allocated
<1>3. \E n \in 0 .. MaxLease : Allocated' = 1 .. n
  <2>1. CASE Allocated' = Allocated
    BY <2>1 DEF LeasesInOrder
  <2>2. CASE Allocated' # Allocated
    <3> DEFINE n == Cardinality(Allocated) + 1
    <3>1. n \in 1 .. MaxLease /\ Allocated' = 1 .. n
      BY <1>1, <2>2, NextLease DEF LeasesGrow
    <3> HIDE DEF n
    <3> QED BY <3>1
  <2> QED BY <2>1, <2>2
<1>4. \A l \in Allocated' : leases'[l].surface \in SurfaceId
  BY <1>1 DEF LeasesGrow, LeasesInOrder
<1>5. ASSUME NEW t \in Thread, AcquireImage(t) PROVE LeasesInOrder'
  <2> DEFINE n == Cardinality(Allocated) + 1
             s == calls[t].handle.id
  <2>1. /\ n \in Lease /\ leases' = [leases EXCEPT ![n] = Acquired(s)]
        /\ records' = [records EXCEPT ![s].lease = n]
        /\ owners' = [owners EXCEPT ![n] = {Image}]
    BY <1>5 DEF AcquireImage
  <2>2. leases'[n].disposition = "Active"
    BY <2>1 DEF SurfaceTypeOK, Acquired
  <2>3. n \in Allocated'
    BY <2>1, <2>2 DEF Allocated
  <2> HIDE DEF n, s
  <2>4. \A r \in SurfaceId : LeaseOf(r)' \in {LeaseOf(r), n}
    BY <2>1 DEF SurfaceTypeOK, LeaseOf, Record
  <2>5. \A l \in Lease : l = n \/ owners'[l] = owners[l]
    BY <2>1 DEF SurfaceTypeOK
  <2> QED BY <1>2, <1>3, <1>4, <2>3, <2>4, <2>5 DEF LeasesInOrder
<1>6. CASE /\ \A s \in SurfaceId : LeaseOf(s)' \in {LeaseOf(s), None}
           /\ \A l \in Lease : owners[l] = {} => owners'[l] = {}
  BY <1>2, <1>3, <1>4, <1>6 DEF LeasesInOrder
<1>7. CASE owners' = owners /\ records' = records
  BY <1>6, <1>7 DEF LeaseOf
<1>8. ASSUME NEW s, records' = [records EXCEPT ![s].lease = None] \/ records' = records
      PROVE  \A r \in SurfaceId : LeaseOf(r)' \in {LeaseOf(r), None}
  BY <1>8 DEF SurfaceTypeOK, LeaseOf, Record
<1>9. ASSUME NEW t \in Thread, CallStep(t), ~AcquireImage(t) PROVE LeasesInOrder'
  <2>1. CASE Configure(t)
    <3> DEFINE s == calls[t].handle.id
               c == calls[t].asked
    <3>1. PICK broken \in {fault, TRUE} : records' = [records EXCEPT ![s] = Reconfigured(s, c, broken)]
      BY <2>1 DEF Configure
    <3>2. s \in SurfaceId => Reconfigured(s, c, broken).lease = None
      BY DEF SurfaceTypeOK, Record, Reconfigured
    <3>3. owners' = owners
      BY <2>1 DEF Configure
    <3> HIDE DEF s, c
    <3> QED BY <1>6, <3>1, <3>2, <3>3 DEF SurfaceTypeOK, LeaseOf
  <2>2. ASSUME NEW s \in SurfaceId, ProbeAbandoned(t, s) PROVE LeasesInOrder'
    BY <1>6, <1>8, <2>2 DEF ProbeAbandoned, AbandonLease, TakeLease
  <2>3. ASSUME NEW s \in SurfaceId, ProbeOwned(t, s) PROVE LeasesInOrder'
    BY <1>6, <2>3 DEF ProbeOwned, LeaseOf, SurfaceTypeOK
  <2>4. CASE DropProbe(t)
    BY <1>6, <2>4 DEF DropProbe, LeaseOf, SurfaceTypeOK
  <2>5. ASSUME NEW l \in Lease, Pin(t, l) \/ Unpin(t, l) PROVE LeasesInOrder'
    BY <1>6, <2>5 DEF Pin, Unpin, LeaseOf, SurfaceTypeOK
  <2>6. ASSUME NEW l \in Lease, Present(t, l) PROVE LeasesInOrder'
    BY <1>6, <1>8, <2>6 DEF Present, TakeLease
  <2>7. CASE Release(t)
    <3>1. owners' = owners /\ (records' = [records EXCEPT ![leases[calls[t].lease].surface].lease = None]
                               \/ records' = records)
      BY <2>7 DEF Release, TakeLease
    <3> QED BY <1>6, <1>8, <3>1
  <2> QED BY <1>7, <1>9, <2>1, <2>2, <2>3, <2>4, <2>5, <2>6, <2>7
          DEF CallStep, ConfigureFails, Enter, EnterFails, AcquireFails, EndValidate, Unlock,
              MarkAbandoned
<1>10. ASSUME NEW h \in Handle, Detach(h) PROVE LeasesInOrder'
  <2>1. \A s \in SurfaceId : LeaseOf(s)' \in {LeaseOf(s), None}
    BY <1>10 DEF Detach, SurfaceTypeOK, LeaseOf
  <2> QED BY <1>6, <1>10, <2>1 DEF Detach
<1>11. ASSUME NEW s \in SurfaceId, Attach(s) PROVE LeasesInOrder'
  BY <1>6, <1>11 DEF Attach, SurfaceTypeOK, LeaseOf, Record
<1>12. ASSUME NEW t \in Thread, NEW l \in Lease, DropImage(t, l) PROVE LeasesInOrder'
  BY <1>6, <1>12 DEF DropImage, SurfaceTypeOK, LeaseOf
<1> QED BY <1>5, <1>7, <1>9, <1>10, <1>11, <1>12
        DEF Next, vars, Fault, CallerStep, BeginConfigure, BeginAcquire, BeginValidate,
            BeginExecute, Begin

(* Only a thread that finds the mutex free looks for owners.                    *)
LEMMA MutexKept == Structure /\ [Next]_vars => MutexIsHeld'
<1> SUFFICES ASSUME Structure, [Next]_vars PROVE MutexIsHeld'
  OBVIOUS
<1> USE SurfaceAssumption DEF Structure
<1>1. CASE UNCHANGED <<records, mutex, calls>>
  BY <1>1 DEF MutexIsHeld, ValidHandle, LeaseOf
<1>2. ASSUME NEW t \in Thread, UNCHANGED <<records, mutex>>,
             \A u \in Thread \ {t} : calls'[u] = calls[u],
             calls'[t].at \notin {"probing", "upgraded"} \/
               /\ calls[t].at \in {"probing", "upgraded"}
               /\ calls'[t].goal = calls[t].goal /\ calls'[t].handle = calls[t].handle
               /\ calls'[t].todo \subseteq calls[t].todo
      PROVE  MutexIsHeld'
  BY <1>2 DEF MutexIsHeld, ValidHandle, LeaseOf
<1>3. ASSUME mutex = None \/ mutex' = None,
             \A u \in Thread : calls'[u].at \in {"probing", "upgraded"} => calls'[u] = calls[u],
             \A u \in Thread : mutex = u => calls'[u].at \notin {"probing", "upgraded"}
      PROVE  MutexIsHeld'
  BY <1>3 DEF MutexIsHeld
<1>4. \A u \in Thread : mutex = None => calls[u].at \notin {"probing", "upgraded"}
  BY DEF MutexIsHeld
<1>5. ASSUME NEW t \in Thread, CallerStep(t) PROVE MutexIsHeld'
  <2>1. ASSUME NEW l \in Lease, DropImage(t, l) PROVE MutexIsHeld'
    BY <1>1, <1>2, <2>1 DEF DropImage, Idle, CallsTyped
  <2>2. ASSUME NEW l \in Lease, BeginValidate(t, l) PROVE MutexIsHeld'
    BY <1>2, <2>2 DEF BeginValidate, Begin, Idle, CallsTyped
  <2>3. ASSUME NEW h \in Handle, BeginAcquire(t, h) PROVE MutexIsHeld'
    BY <1>2, <2>3 DEF BeginAcquire, Begin, Idle, CallsTyped
  <2>4. ASSUME NEW h \in Handle, NEW c \in Configuration, BeginConfigure(t, h, c)
        PROVE  MutexIsHeld'
    BY <1>2, <2>4 DEF BeginConfigure, Begin, Idle, CallsTyped
  <2>5. ASSUME NEW uses \in SUBSET Lease, NEW presents \in SUBSET uses,
               BeginExecute(t, uses, presents)
        PROVE  MutexIsHeld'
    BY <1>2, <2>5 DEF BeginExecute, Begin, Idle, CallsTyped
  <2> QED BY <1>5, <2>1, <2>2, <2>3, <2>4, <2>5 DEF CallerStep
<1>6. ASSUME NEW t \in Thread, CallStep(t) PROVE MutexIsHeld'
  <2> USE DEF CallsTyped
  <2>1. CASE ConfigureFails(t) \/ Configure(t) \/ EnterFails(t)
    <3>1. mutex = None /\ calls' = [calls EXCEPT ![t] = Idle]
      BY <2>1 DEF ConfigureFails, Configure, EnterFails
    <3> QED BY <1>3, <1>4, <3>1 DEF Idle
  <2>2. CASE AcquireFails(t) \/ AcquireImage(t) \/ EndValidate(t)
    BY <1>3, <2>2 DEF AcquireFails, AcquireImage, EndValidate, Entered, Leave, Idle, At, MutexIsHeld
  <2>3. CASE Unlock(t)
    BY <1>3, <2>3 DEF Unlock, Entered, Idle, At, MutexIsHeld
  <2>4. CASE Enter(t)
    <3>1. /\ mutex = None /\ mutex' = t /\ records' = records
          /\ \A u \in Thread \ {t} : calls'[u] = calls[u]
          /\ calls'[t].goal = calls[t].goal /\ calls'[t].handle = calls[t].handle
          /\ calls'[t].todo = {s \in Probed(t) : LeaseOf(s) # None}
          /\ calls[t].goal = "acquire" => ValidHandle(calls[t].handle)
      BY <2>4 DEF Enter, Call
    <3> QED BY <1>4, <3>1 DEF MutexIsHeld, ValidHandle, LeaseOf
  <2>5. ASSUME NEW s \in SurfaceId, ProbeAbandoned(t, s) PROVE MutexIsHeld'
    <3>1. /\ \A u \in Thread \ {t} : calls'[u] = calls[u]
          /\ calls[t].at = "probing"
          /\ calls'[t].goal = calls[t].goal /\ calls'[t].handle = calls[t].handle
          /\ calls'[t].todo = calls[t].todo \ {s} /\ mutex' = mutex
      BY <2>5 DEF ProbeAbandoned, At, Call
    <3>2. \A r \in SurfaceId :
            /\ records'[r].registered = records[r].registered
            /\ records'[r].generation = records[r].generation
            /\ r # s => LeaseOf(r)' = LeaseOf(r)
      BY <2>5 DEF ProbeAbandoned, AbandonLease, TakeLease, LeaseOf, SurfaceTypeOK, Record
    <3>3. \A u \in Thread : calls'[u].at \in {"probing", "upgraded"} => u = t
      BY <3>1 DEF MutexIsHeld
    <3>4. calls[t].goal = "acquire" => calls[t].handle.id \in SurfaceId
      BY DEF Fits, Handle
    <3>5. calls[t].todo \subseteq SurfaceId
      BY DEF Call
    <3> QED BY <3>1, <3>2, <3>3, <3>4, <3>5 DEF MutexIsHeld, ValidHandle
  <2>6. ASSUME NEW s \in SurfaceId, ProbeOwned(t, s) PROVE MutexIsHeld'
    BY <1>2, <2>6 DEF ProbeOwned, At, Call
  <2>7. CASE DropProbe(t)
    BY <1>2, <2>7 DEF DropProbe, Goto, At, Call
  <2>8. ASSUME NEW l \in Lease, Pin(t, l) PROVE MutexIsHeld'
    BY <1>1, <2>8 DEF Pin
  <2>9. ASSUME NEW l \in Lease, Present(t, l) PROVE MutexIsHeld'
    <3>1. /\ \A u \in Thread \ {t} : calls'[u] = calls[u]
          /\ calls[t].at = "probing" /\ calls[t].goal = "execute" /\ calls[t].todo = {}
          /\ calls'[t].goal = "execute" /\ calls'[t].todo = {} /\ mutex' = mutex
      BY <2>9 DEF Present, Entered, At, Call
    <3>2. \A u \in Thread : calls'[u].at \in {"probing", "upgraded"} => u = t
      BY <3>1 DEF MutexIsHeld
    <3> QED BY <3>1, <3>2 DEF MutexIsHeld
  <2>10. ASSUME NEW l \in Lease, Unpin(t, l) PROVE MutexIsHeld'
    BY <1>2, <2>10 DEF Unpin, Idle
  <2>11. CASE MarkAbandoned(t)
    BY <1>2, <2>11 DEF MarkAbandoned, Goto, Call
  <2>12. CASE Release(t)
    BY <1>3, <1>4, <2>12 DEF Release, Idle, At
  <2> QED BY <1>6, <2>1, <2>2, <2>3, <2>4, <2>5, <2>6, <2>7, <2>8, <2>9, <2>10, <2>11,
             <2>12 DEF CallStep
<1>7. CASE (\E s \in SurfaceId : Attach(s)) \/ (\E h \in Handle : Detach(h))
  BY <1>3, <1>4, <1>7 DEF Attach, Detach
<1> QED BY <1>1, <1>5, <1>6, <1>7 DEF Next, vars, Fault

(* Structure: what the properties below rest on, of types and identities.      *)
LEMMA StructureInvariant == Spec => []Structure
<1>1. Structure /\ [Next]_vars => Structure'
  BY TypesKept, CallsKept, OrderKept, MutexKept DEF Structure
<1> QED BY <1>1, StructureStarts, PTL DEF Spec

-----------------------------------------------------------------------------
(* Images and configurations                                                 *)

(* While the device is healthy a record and the backend agree: a fault can     *)
(* only leave the record behind.                                              *)
ConfigurationAgrees ==
  ~fault => \A s \in SurfaceId : records[s].configuration \in {None, native[s]}

Authority == ImageAuthority /\ ConfigurationAgrees /\ AcquiredAsDescribed

(* No image is alive at first.                                                 *)
LEMMA AuthorityStarts == Init => Authority
<1>1. Init => Allocated = {}
  BY DEF Init, Allocated, Unallocated
<1> QED BY <1>1 DEF Init, Authority, ImageAuthority, ConfigurationAgrees,
                    AcquiredAsDescribed, LeaseOf

(* What gives up the lease of one surface gives up its image with it.          *)
LEMMA ImageTaken ==
  ASSUME Structure, ImageAuthority, NEW s \in SurfaceId,
         LeaseOf(s)' = None, images' = images \ {LeaseOf(s)},
         \A r \in SurfaceId \ {s} : records'[r] = records[r],
         \A l \in Allocated : l # LeaseOf(s) => leases'[l] = leases[l]
  PROVE  ImageAuthority'
<1>1. \A r \in SurfaceId \ {s} :
        /\ LeaseOf(r)' = LeaseOf(r)
        /\ LeaseOf(r) # None => LeaseOf(r) # LeaseOf(s) /\ LeaseOf(r) \in Allocated
  BY DEF ImageAuthority, LeaseOf, Structure, LeasesInOrder
<1>2. images' = {LeaseOf(r)' : r \in SurfaceId} \ {None}
  BY <1>1 DEF ImageAuthority
<1> QED BY <1>1, <1>2 DEF ImageAuthority

(* Every path that ends a lease ends its image, and only acquire begins one.     *)
LEMMA ImagesKept == Structure /\ ImageAuthority /\ [Next]_vars => ImageAuthority'
<1> SUFFICES ASSUME Structure, ImageAuthority, [Next]_vars PROVE ImageAuthority'
  OBVIOUS
<1> USE SurfaceAssumption
<1> SurfaceTypeOK /\ LeasesInOrder /\ MutexIsHeld
  BY DEF Structure
<1>1. CASE UNCHANGED <<records, images, leases>>
  BY <1>1 DEF ImageAuthority, LeaseOf
<1>2. \A l \in Lease : l \notin Allocated => \A s \in SurfaceId : LeaseOf(s) # l
  BY DEF LeasesInOrder, Lease
<1>3. ASSUME NEW s \in SurfaceId, Attach(s) PROVE ImageAuthority'
  <2>1. LeaseOf(s) = None
    BY <1>3 DEF Attach, ImageAuthority
  <2>2. \A r \in SurfaceId :
          /\ LeaseOf(r)' = LeaseOf(r)
          /\ r # s => records'[r] = records[r]
    BY <1>3 DEF Attach, SurfaceTypeOK, LeaseOf, Record
  <2>3. {LeaseOf(r)' : r \in SurfaceId} = {LeaseOf(r) : r \in SurfaceId}
    BY <2>2
  <2> QED BY <1>3, <2>1, <2>2, <2>3 DEF Attach, ImageAuthority
<1>4. ASSUME NEW s \in SurfaceId, LeaseOf(s)' = None, images' = images \ {LeaseOf(s)},
             \A r \in SurfaceId \ {s} : records'[r] = records[r],
             leases' = IF LeaseOf(s) = None THEN leases ELSE Abandoned(LeaseOf(s))
      PROVE  ImageAuthority'
  <2>1. LeaseOf(s) # None => LeaseOf(s) \in Lease
    BY DEF LeasesInOrder, Allocated
  <2>2. \A l \in Allocated : l # LeaseOf(s) => leases'[l] = leases[l]
    BY <1>4, <2>1, AbandonedLeases DEF SurfaceTypeOK, Allocated
  <2> QED BY <1>4, <2>2, ImageTaken
<1>5. ASSUME NEW s \in SurfaceId, TakeLease(s)
      PROVE  /\ LeaseOf(s)' = None /\ images' = images \ {LeaseOf(s)}
             /\ \A r \in SurfaceId \ {s} : records'[r] = records[r]
  BY <1>5 DEF TakeLease, SurfaceTypeOK, LeaseOf, Record
<1>6. ASSUME NEW h \in Handle, Detach(h) PROVE ImageAuthority'
  <2>1. h.id \in SurfaceId
    BY DEF Handle
  <2>2. LeaseOf(h.id)' = None /\ \A r \in SurfaceId \ {h.id} : records'[r] = records[r]
    BY <1>6, <2>1 DEF Detach, LeaseOf, SurfaceTypeOK
  <2> QED BY <1>4, <1>6, <2>1, <2>2 DEF Detach
<1>7. ASSUME NEW t \in Thread, CallStep(t) PROVE ImageAuthority'
  <2>0. Fits(calls[t], Allocated)
    BY DEF Structure, CallsTyped
  <2>1. CASE Configure(t)
    <3>1. PICK s \in SurfaceId, c \in Configuration : s = calls[t].handle.id /\ c = calls[t].asked
      BY <2>0, <2>1 DEF Configure, Fits, Handle
    <3>2. PICK broken \in {fault, TRUE} : records' = [records EXCEPT ![s] = Reconfigured(s, c, broken)]
      BY <2>1, <3>1 DEF Configure
    <3>3. Reconfigured(s, c, broken).lease = None
      BY <3>1 DEF SurfaceTypeOK, Record, Reconfigured
    <3>4. /\ images' = images \ {LeaseOf(s)}
          /\ leases' = IF LeaseOf(s) = None THEN leases ELSE Abandoned(LeaseOf(s))
      BY <2>1, <3>1 DEF Configure
    <3>5. LeaseOf(s)' = None /\ \A r \in SurfaceId \ {s} : records'[r] = records[r]
      BY <3>1, <3>2, <3>3 DEF SurfaceTypeOK, LeaseOf
    <3> QED BY <1>4, <3>1, <3>4, <3>5
  <2>2. ASSUME NEW s \in SurfaceId, ProbeAbandoned(t, s) PROVE ImageAuthority'
    BY <1>1, <1>4, <1>5, <2>2 DEF ProbeAbandoned, AbandonLease
  <2>3. CASE AcquireImage(t)
    <3>0. PICK s \in SurfaceId, n \in {Cardinality(Allocated) + 1} : s = calls[t].handle.id
      BY <2>0, <2>3 DEF AcquireImage, Entered, Fits, Handle
    <3>1. /\ s \in SurfaceId /\ n \in Lease /\ n \notin Allocated
          /\ leases' = [leases EXCEPT ![n] = Acquired(s)]
          /\ records' = [records EXCEPT ![s].lease = n]
          /\ images' = images \cup {n} /\ LeaseOf(s) = None
      BY <2>3, <3>0, NextLease DEF AcquireImage
    <3>2. records[s].registered
      BY <2>3, <3>0 DEF AcquireImage, Entered, At, MutexIsHeld, ValidHandle
    <3>3. n # None
      BY <3>1 DEF Lease
    <3>4. /\ LeaseOf(s)' = n
          /\ records'[s].registered /\ records'[s].generation = records[s].generation
          /\ \A r \in SurfaceId \ {s} : records'[r] = records[r]
      BY <3>1, <3>2 DEF SurfaceTypeOK, LeaseOf, Record
    <3>5. /\ leases'[n] = Acquired(s)
          /\ \A l \in Lease : l # n => leases'[l] = leases[l]
      BY <3>1 DEF SurfaceTypeOK
    <3>6. /\ Acquired(s).surface = s /\ Acquired(s).generation = records[s].generation
          /\ Acquired(s).disposition # "Presented"
      BY DEF Acquired
    <3>7. \A r \in SurfaceId \ {s} : LeaseOf(r)' = LeaseOf(r) /\ LeaseOf(r) # n
            /\ (LeaseOf(r) # None => LeaseOf(r) \in Lease)
      BY <1>2, <3>1, <3>4 DEF LeaseOf, LeasesInOrder, Allocated
    <3>8. images' = {LeaseOf(r)' : r \in SurfaceId} \ {None}
      BY <3>1, <3>3, <3>4, <3>7 DEF ImageAuthority
    <3>9. ASSUME NEW r \in SurfaceId \ {s}, LeaseOf(r)' # None
          PROVE  /\ records'[r].registered
                 /\ leases'[LeaseOf(r)'].surface = r
                 /\ leases'[LeaseOf(r)'].generation = records'[r].generation
                 /\ leases'[LeaseOf(r)'].disposition # "Presented"
      <4>1. LeaseOf(r)' = LeaseOf(r) /\ leases'[LeaseOf(r)] = leases[LeaseOf(r)]
        BY <3>5, <3>7, <3>9
      <4> QED BY <3>4, <3>9, <4>1 DEF ImageAuthority
    <3> QED BY <3>4, <3>5, <3>6, <3>8, <3>9 DEF ImageAuthority
  <2>4. ASSUME NEW l \in Lease, Present(t, l) PROVE ImageAuthority'
    <3>1. PICK s \in SurfaceId : s = leases[l].surface /\ LeaseOf(s) = l /\ TakeLease(s)
      BY <2>0, <2>4 DEF Present, ValidLease, LeasesInOrder, Fits
    <3>2. \A k \in Allocated : k # l => leases'[k] = leases[k]
      BY <2>4 DEF Present, SurfaceTypeOK, Allocated
    <3> QED BY <1>5, <3>1, <3>2, ImageTaken
  <2>5. CASE MarkAbandoned(t)
    <3>1. calls[t].lease \in Lease
      BY <2>0, <2>5 DEF MarkAbandoned, At, Allocated, Fits
    <3>2. \A l \in Lease :
            /\ leases'[l].surface = leases[l].surface
            /\ leases'[l].generation = leases[l].generation
            /\ leases[l].disposition # "Presented" => leases'[l].disposition # "Presented"
      BY <2>5, <3>1, AbandonedLeases DEF MarkAbandoned, SurfaceTypeOK
    <3>3. \A s \in SurfaceId : LeaseOf(s) # None => LeaseOf(s) \in Lease
      BY DEF LeasesInOrder, Allocated
    <3> QED BY <2>5, <3>2, <3>3 DEF MarkAbandoned, ImageAuthority, LeaseOf
  <2>6. CASE Release(t)
    <3>1. PICK s \in SurfaceId : s = leases[calls[t].lease].surface
      BY <2>0, <2>6 DEF Release, At, LeasesInOrder, Fits
    <3>2. TakeLease(s) \/ UNCHANGED <<records, images>>
      BY <2>6, <3>1 DEF Release
    <3>3. leases' = leases
      BY <2>6 DEF Release
    <3> QED BY <1>1, <1>5, <3>1, <3>2, <3>3, ImageTaken
  <2> QED BY <1>1, <1>7, <2>1, <2>2, <2>3, <2>4, <2>5, <2>6
          DEF CallStep, ConfigureFails, Enter, EnterFails, ProbeOwned, DropProbe, AcquireFails,
              EndValidate, Pin, Unpin, Unlock
<1> QED BY <1>1, <1>3, <1>6, <1>7
        DEF Next, vars, Fault, CallerStep, BeginConfigure, BeginAcquire, BeginValidate,
            BeginExecute, Begin, DropImage

(* A record and the backend change together unless the device fails between.     *)
LEMMA ConfigurationsKept ==
  Structure /\ ConfigurationAgrees /\ AcquiredAsDescribed /\ [Next]_vars
    => ConfigurationAgrees' /\ AcquiredAsDescribed'
<1> SUFFICES ASSUME Structure, ConfigurationAgrees, AcquiredAsDescribed, [Next]_vars
             PROVE  ConfigurationAgrees' /\ AcquiredAsDescribed'
  OBVIOUS
<1> SurfaceTypeOK
  BY DEF Structure
<1>1. LeasesGrow
  BY LeasesKept
<1>2. ASSUME Allocated' = Allocated PROVE AcquiredAsDescribed'
  BY <1>1, <1>2 DEF LeasesGrow, AcquiredAsDescribed
<1>3. ASSUME NEW t \in Thread, AcquireImage(t) PROVE AcquiredAsDescribed'
  <2> DEFINE n == Cardinality(Allocated) + 1
             s == calls[t].handle.id
  <2>1. /\ s \in SurfaceId /\ n \in Lease /\ leases' = [leases EXCEPT ![n] = Acquired(s)]
        /\ records[s].configuration # None /\ ~fault
    BY <1>3 DEF AcquireImage, StillHealthy, Entered, Handle, Structure, CallsTyped, Fits
  <2> HIDE DEF n, s
  <2>2. Acquired(s).described = Acquired(s).taken
    BY <2>1 DEF Acquired, ConfigurationAgrees
  <2>3. \A l \in Lease : leases'[l] = IF l = n THEN Acquired(s) ELSE leases[l]
    BY <2>1 DEF SurfaceTypeOK
  <2>4. \A l \in Allocated' : leases'[l] = Acquired(s) \/ (l \in Allocated /\ leases'[l] = leases[l])
    BY <2>3 DEF Allocated
  <2> QED BY <2>2, <2>4 DEF AcquiredAsDescribed
<1>4. AcquiredAsDescribed'
  BY <1>1, <1>2, <1>3 DEF LeasesGrow
<1>5. ASSUME UNCHANGED <<records, native>>, fault => fault' PROVE ConfigurationAgrees'
  BY <1>5 DEF ConfigurationAgrees
<1>6. ASSUME NEW s, UNCHANGED <<native, fault>>,
             \/ records' = [records EXCEPT ![s].registered = TRUE]
             \/ \E l : records' = [records EXCEPT ![s].lease = l]
      PROVE  ConfigurationAgrees'
  BY <1>6 DEF SurfaceTypeOK, Record, ConfigurationAgrees
<1>7. ASSUME NEW h \in Handle, Detach(h) PROVE ConfigurationAgrees'
  BY <1>7 DEF Detach, SurfaceTypeOK, ConfigurationAgrees
<1>8. ASSUME NEW t \in Thread, CallStep(t) PROVE ConfigurationAgrees'
  <2>1. CASE Configure(t)
    <3> DEFINE s == calls[t].handle.id
               c == calls[t].asked
    <3>1. s \in SurfaceId
      BY <2>1 DEF Configure, Handle, Structure, CallsTyped, Fits
    <3>2. PICK broken \in {fault, TRUE} :
            fault' = broken /\ records' = [records EXCEPT ![s] = Reconfigured(s, c, broken)]
      BY <2>1 DEF Configure
    <3>3. native' = [native EXCEPT ![s] = c]
      BY <2>1 DEF Configure
    <3>4. ~broken => Reconfigured(s, c, broken).configuration = c
      BY <3>1 DEF SurfaceTypeOK, Record, Reconfigured
    <3> HIDE DEF s, c
    <3>5. ~broken => records'[s].configuration = c /\ native'[s] = c
      BY <3>1, <3>2, <3>3, <3>4 DEF SurfaceTypeOK
    <3>6. \A r \in SurfaceId \ {s} : records'[r] = records[r] /\ native'[r] = native[r]
      BY <3>1, <3>2, <3>3 DEF SurfaceTypeOK
    <3>7. fault => fault'
      BY <3>2
    <3> QED BY <3>2, <3>5, <3>6, <3>7 DEF ConfigurationAgrees
  <2>2. CASE \/ \E s \in SurfaceId : ProbeAbandoned(t, s)
             \/ \E l \in Lease : Present(t, l)
             \/ Release(t) \/ AcquireImage(t)
    <3>1. UNCHANGED <<native, fault>>
      BY <2>2 DEF ProbeAbandoned, AcquireImage, Present, Release
    <3>2. records' = records \/ \E s, l : records' = [records EXCEPT ![s].lease = l]
      BY <2>2 DEF ProbeAbandoned, AbandonLease, AcquireImage, Present, Release, TakeLease
    <3> QED BY <1>5, <1>6, <3>1, <3>2
  <2> QED BY <1>5, <1>8, <2>1, <2>2
          DEF CallStep, ConfigureFails, Enter, EnterFails, ProbeOwned, DropProbe, AcquireFails,
              EndValidate, Pin, Unpin, Unlock, MarkAbandoned
<1>9. ASSUME NEW s \in SurfaceId, Attach(s) PROVE ConfigurationAgrees'
  BY <1>6, <1>9 DEF Attach
<1>10. ASSUME NEW t \in Thread, CallerStep(t) PROVE ConfigurationAgrees'
  BY <1>5, <1>10 DEF CallerStep, BeginConfigure, BeginAcquire, BeginValidate, BeginExecute,
                     Begin, DropImage
<1>11. CASE Fault \/ UNCHANGED vars
  BY <1>4, <1>5, <1>11 DEF Fault, vars
<1> QED BY <1>4, <1>7, <1>8, <1>9, <1>10, <1>11 DEF Next

(* Images, configurations and descriptions agree in every reachable state.       *)
LEMMA AuthorityInvariant == Spec => []Authority
<1>1. Structure /\ Authority /\ [Next]_vars => Authority'
  BY ImagesKept, ConfigurationsKept DEF Authority
<1> QED BY <1>1, AuthorityStarts, StructureInvariant, PTL DEF Spec

-----------------------------------------------------------------------------
(* Owners                                                                    *)

(* A thread owns a lease for as long as it looks at it, or from the time it    *)
(* pinned it until it unpins it.                                              *)
Holds(t, l) ==
  \/ At(t, "upgraded") /\ calls[t].lease = l
  \/ Entered(t, "execute") /\ l \in calls[t].uses
  \/ calls[t].at \in {"unpinning", "dropping", "releasing"} /\ l \in calls[t].uses

Releases(t, l) == calls[t].at \in {"dropping", "releasing"} /\ calls[t].lease = l

OwnersAreHeld == \A t \in Thread, l \in Lease : t \in owners[l] => Holds(t, l)

(* No owner comes back once the last one is gone                              *)
DroppingIsOrphaned == \A t \in Thread, l \in Lease : Releases(t, l) => owners[l] = {}

Holding == OwnersAreHeld /\ DroppingIsOrphaned

(* An owner is added where one is left, and removed by the thread that holds it. *)
LEMMA HoldingKept == Structure /\ Holding /\ [Next]_vars => Holding'
<1> SUFFICES ASSUME Structure, Holding, [Next]_vars PROVE Holding'
  OBVIOUS
<1> USE SurfaceAssumption
<1> /\ owners \in [Lease -> SUBSET (Thread \cup {Image})] /\ calls \in [Thread -> Call]
    /\ OwnersAreHeld /\ DroppingIsOrphaned
  BY DEF Structure, SurfaceTypeOK, CallsTyped, Holding
<1>1. CASE UNCHANGED <<owners, calls>>
  BY <1>1 DEF Holding, OwnersAreHeld, DroppingIsOrphaned, Holds, Releases, At, Entered
(* A step of thread t, by what it does to the owners and to its call            *)
<1>2. ASSUME NEW t \in Thread, \A u \in Thread \ {t} : calls'[u] = calls[u],
             \A l \in Lease : \A u \in Thread \ {t} : u \in owners'[l] => u \in owners[l],
             \A l \in Lease : t \in owners'[l] => Holds(t, l)',
             \A l \in Lease : owners[l] = {} => owners'[l] = {} \/ l \notin Allocated,
             \A l \in Lease : Releases(t, l)' => owners'[l] = {}
      PROVE  Holding'
  <2>1. \A u \in Thread \ {t} : \A l \in Lease :
          (Holds(u, l)' <=> Holds(u, l)) /\ (Releases(u, l)' <=> Releases(u, l))
    BY <1>2 DEF Holds, Releases, At, Entered
  <2>2. \A u \in Thread, l \in Lease : Releases(u, l) => l \in Allocated
    BY DEF Releases, Structure, CallsTyped, Fits
  <2>3. OwnersAreHeld'
    BY <1>2, <2>1 DEF OwnersAreHeld
  <2>4. DroppingIsOrphaned'
    BY <1>2, <2>1, <2>2 DEF DroppingIsOrphaned
  <2> QED BY <2>3, <2>4 DEF Holding
(* ... when the thread owned nothing and does not now                          *)
<1>3. ASSUME NEW t \in Thread, \A l \in Lease : ~Holds(t, l), owners' = owners,
             \A u \in Thread \ {t} : calls'[u] = calls[u],
             calls'[t].at \notin {"dropping", "releasing"}
      PROVE  Holding'
  BY <1>2, <1>3 DEF OwnersAreHeld, Releases
<1>4. ASSUME NEW t \in Thread, CallerStep(t) PROVE Holding'
  <2>1. At(t, "idle")
    BY <1>4 DEF CallerStep, BeginConfigure, BeginAcquire, BeginValidate, BeginExecute, Begin,
                DropImage
  <2>2. \A l \in Lease : ~Holds(t, l) /\ t \notin owners[l]
    BY <2>1 DEF Holds, At, Entered, OwnersAreHeld
  <2>4. ASSUME NEW l \in Lease, BeginValidate(t, l) PROVE Holding'
    BY <1>3, <2>2, <2>4 DEF BeginValidate, Begin, Idle
  <2>5. ASSUME NEW h \in Handle, BeginAcquire(t, h) PROVE Holding'
    BY <1>3, <2>2, <2>5 DEF BeginAcquire, Begin, Idle
  <2>6. ASSUME NEW h \in Handle, NEW c \in Configuration, BeginConfigure(t, h, c)
        PROVE  Holding'
    BY <1>3, <2>2, <2>6 DEF BeginConfigure, Begin, Idle
  <2>7. ASSUME NEW uses \in SUBSET Lease, NEW presents \in SUBSET uses,
               BeginExecute(t, uses, presents)
        PROVE  Holding'
    BY <1>3, <2>2, <2>7 DEF BeginExecute, Begin, Idle
  <2>8. ASSUME NEW l \in Lease, DropImage(t, l) PROVE Holding'
    <3>1. \A k \in Lease : owners'[k] = IF k = l THEN owners[l] \ {Image} ELSE owners[k]
      BY <2>8 DEF DropImage
    <3>2. \A u \in Thread \ {t} : calls'[u] = calls[u]
      BY <2>8 DEF DropImage
    <3>3. \A k \in Lease : Releases(t, k)' => owners'[k] = {}
      BY <2>1, <2>8, <3>1 DEF DropImage, Releases, Idle, At
    <3> QED BY <1>2, <2>2, <3>1, <3>2, <3>3
  <2> QED BY <1>4, <2>4, <2>5, <2>6, <2>7, <2>8 DEF CallerStep
<1>5. ASSUME NEW t \in Thread, CallStep(t) PROVE Holding'
  <2>1. ASSUME calls[t].at \in {"entering", "probing"}, ~Entered(t, "execute")
        PROVE  \A l \in Lease : ~Holds(t, l) /\ t \notin owners[l]
    BY <2>1 DEF Holds, At, OwnersAreHeld
  <2>2. CASE ConfigureFails(t) \/ Configure(t) \/ EnterFails(t)
    <3>1. /\ calls[t].at = "entering" /\ calls' = [calls EXCEPT ![t] = Idle]
          /\ owners' = owners
      BY <2>2 DEF ConfigureFails, Configure, EnterFails, At
    <3> QED BY <1>3, <2>1, <3>1 DEF Idle, Entered, At
  <2>3. CASE AcquireFails(t) \/ EndValidate(t)
    <3>1. /\ calls[t].at = "probing" /\ ~Entered(t, "execute")
          /\ calls' = [calls EXCEPT ![t] = Idle] /\ owners' = owners
      BY <2>3 DEF AcquireFails, EndValidate, Entered, At, Leave
    <3> QED BY <1>3, <2>1, <3>1 DEF Idle
  <2>4. CASE Enter(t)
    BY <1>3, <2>1, <2>4 DEF Enter, Entered, At, Call
  <2>5. ASSUME NEW s \in SurfaceId, ProbeAbandoned(t, s) PROVE Holding'
    BY <1>3, <2>1, <2>5 DEF ProbeAbandoned, Entered, At, Call
  <2>6. ASSUME NEW s \in SurfaceId, ProbeOwned(t, s) PROVE Holding'
    <3>1. \A l \in Lease : t \notin owners[l]
      BY <2>1, <2>6 DEF ProbeOwned, Entered, At
    <3>2. /\ calls'[t].at = "upgraded" /\ calls'[t].lease = LeaseOf(s)
          /\ \A u \in Thread \ {t} : calls'[u] = calls[u]
      BY <2>6 DEF ProbeOwned, Call
    <3>3. \A l \in Lease : owners'[l] = IF l = LeaseOf(s) THEN owners[l] \cup {t} ELSE owners[l]
      BY <2>6 DEF ProbeOwned
    <3>4. owners[LeaseOf(s)] # {}
      BY <2>6 DEF ProbeOwned
    <3>5. \A l \in Lease : t \in owners'[l] => Holds(t, l)'
      <4>1. \A l \in Lease : t \in owners'[l] => l = LeaseOf(s)
        BY <3>1, <3>3
      <4> QED BY <3>2, <4>1 DEF Holds, At
    <3>6. \A l \in Lease : ~Releases(t, l)'
      BY <3>2 DEF Releases
    <3> QED BY <1>2, <3>2, <3>3, <3>4, <3>5, <3>6
  <2>7. CASE DropProbe(t)
    <3>1. PICK k : k = calls[t].lease
      OBVIOUS
    <3>2. At(t, "upgraded")
      BY <2>7 DEF DropProbe
    <3>3. \A l \in Lease : owners'[l] = IF l = k THEN owners[l] \ {t} ELSE owners[l]
      BY <2>7, <3>1 DEF DropProbe
    <3>4. \A l \in Lease : t \in owners[l] => l = k
      BY <3>1, <3>2 DEF OwnersAreHeld, Holds, At, Entered
    <3>5. /\ \A u \in Thread \ {t} : calls'[u] = calls[u]
          /\ calls'[t].lease = k
          /\ calls'[t].at = IF owners[k] = {t} THEN "dropping" ELSE "probing"
      BY <2>7, <3>1 DEF DropProbe, Goto, Call
    <3>6. \A l \in Lease : t \notin owners'[l]
      BY <3>3, <3>4
    <3>7. \A l \in Lease : Releases(t, l)' => owners'[l] = {}
      BY <3>3, <3>5 DEF Releases
    <3> QED BY <1>2, <3>3, <3>5, <3>6, <3>7
  <2>8. CASE AcquireImage(t)
    <3>1. /\ calls[t].at = "probing" /\ ~Entered(t, "execute")
          /\ calls' = [calls EXCEPT ![t] = Idle]
      BY <2>8 DEF AcquireImage, Entered, At, Leave
    <3>2. PICK n \in Lease : owners' = [owners EXCEPT ![n] = {Image}] /\ n \notin Allocated
      BY <2>8, NextLease DEF AcquireImage, Structure
    <3>3. \A l \in Lease : owners'[l] = IF l = n THEN {Image} ELSE owners[l]
      BY <3>2
    <3>4. \A l \in Lease : t \notin owners'[l] /\ ~Releases(t, l)'
      BY <2>1, <3>1, <3>3 DEF Releases, Idle
    <3> QED BY <1>2, <3>1, <3>2, <3>3, <3>4
  <2>9. ASSUME NEW l \in Lease, Pin(t, l) PROVE Holding'
    <3>1. /\ Entered(t, "execute") /\ l \in calls[t].uses /\ owners[l] # {} /\ calls' = calls
          /\ owners' = [owners EXCEPT ![l] = @ \cup {t}]
      BY <2>9 DEF Pin
    <3>2. \A k \in Lease : owners'[k] = IF k = l THEN owners[k] \cup {t} ELSE owners[k]
      BY <3>1
    <3>3. \A k \in Lease : (Holds(t, k)' <=> Holds(t, k)) /\ ~Releases(t, k)'
      BY <3>1 DEF Holds, Releases, At, Entered
    <3>4. Holds(t, l)
      BY <3>1 DEF Holds
    <3> QED BY <1>2, <3>1, <3>2, <3>3, <3>4 DEF OwnersAreHeld
  <2>10. ASSUME NEW l \in Lease, Present(t, l) PROVE Holding'
    <3>1. /\ owners' = owners /\ \A u \in Thread \ {t} : calls'[u] = calls[u]
          /\ Entered(t, "execute") /\ calls'[t].at = calls[t].at
          /\ calls'[t].goal = calls[t].goal /\ calls'[t].todo = calls[t].todo
          /\ calls'[t].uses = calls[t].uses
      BY <2>10 DEF Present, Call
    <3>2. \A k \in Lease : (Holds(t, k)' <=> Holds(t, k)) /\ ~Releases(t, k)'
      BY <3>1 DEF Holds, Releases, At, Entered
    <3> QED BY <1>2, <3>1, <3>2 DEF OwnersAreHeld
  <2>11. CASE Unlock(t)
    <3>1. Entered(t, "execute") /\ owners' = owners
      BY <2>11 DEF Unlock
    <3>2. \A k \in Lease : t \in owners[k] => k \in Pinned(t)
      BY <3>1 DEF OwnersAreHeld, Holds, Entered, At, Pinned
    <3>3. /\ \A u \in Thread \ {t} : calls'[u] = calls[u]
          /\ \/ Pinned(t) = {} /\ calls'[t].at = "idle"
             \/ calls'[t].at = "unpinning" /\ calls'[t].uses = Pinned(t)
      BY <2>11 DEF Unlock, Idle
    <3>4. \A k \in Lease : (t \in owners[k] => Holds(t, k)') /\ ~Releases(t, k)'
      BY <3>2, <3>3 DEF Holds, Releases
    <3> QED BY <1>2, <3>1, <3>3, <3>4
  <2>12. ASSUME NEW l \in Lease, Unpin(t, l) PROVE Holding'
    <3>1. /\ calls[t].at = "unpinning" /\ l \in calls[t].uses
          /\ owners' = [owners EXCEPT ![l] = @ \ {t}]
      BY <2>12 DEF Unpin, At
    <3>2. \A k \in Lease : owners'[k] = IF k = l THEN owners[k] \ {t} ELSE owners[k]
      BY <3>1
    <3>3. \A k \in Lease : t \in owners'[k] => k \in calls[t].uses \ {l}
      BY <3>1, <3>2 DEF OwnersAreHeld, Holds, At, Entered
    <3>4. /\ \A u \in Thread \ {t} : calls'[u] = calls[u]
          /\ \/ /\ calls'[t].at \in {"dropping", "unpinning"}
                /\ calls'[t].uses = calls[t].uses \ {l}
                /\ calls'[t].at = "dropping" => calls'[t].lease = l /\ owners[l] = {t}
             \/ calls[t].uses \ {l} = {} /\ calls'[t].at = "idle"
      BY <2>12 DEF Unpin, Idle
    <3>5. \A k \in Lease : t \in owners'[k] => Holds(t, k)'
      BY <3>3, <3>4 DEF Holds
    <3>6. \A k \in Lease : Releases(t, k)' => owners'[k] = {}
      BY <3>2, <3>4 DEF Releases
    <3> QED BY <1>2, <3>2, <3>4, <3>5, <3>6
  <2>13. CASE MarkAbandoned(t)
    <3>1. /\ owners' = owners /\ \A u \in Thread \ {t} : calls'[u] = calls[u]
          /\ calls[t].at = "dropping" /\ calls'[t].at = "releasing"
          /\ calls'[t].lease = calls[t].lease /\ calls'[t].uses = calls[t].uses
      BY <2>13 DEF MarkAbandoned, Goto, At, Call
    <3>2. \A k \in Lease : (Holds(t, k) => Holds(t, k)') /\ (Releases(t, k)' => Releases(t, k))
      BY <3>1 DEF Holds, Releases, At, Entered
    <3> QED BY <1>2, <3>1, <3>2 DEF OwnersAreHeld, DroppingIsOrphaned
  <2>14. CASE Release(t)
    <3>1. /\ owners' = owners /\ \A u \in Thread \ {t} : calls'[u] = calls[u]
          /\ calls[t].at = "releasing"
          /\ \/ calls[t].uses = {} /\ calls'[t].at = "idle"
             \/ calls'[t].at = "unpinning" /\ calls'[t].uses = calls[t].uses
      BY <2>14 DEF Release, At, Idle
    <3>2. \A k \in Lease : (Holds(t, k) => Holds(t, k)') /\ ~Releases(t, k)'
      BY <3>1 DEF Holds, Releases, At, Entered
    <3> QED BY <1>2, <3>1, <3>2 DEF OwnersAreHeld
  <2> QED BY <1>5, <2>2, <2>3, <2>4, <2>5, <2>6, <2>7, <2>8, <2>9, <2>10, <2>11, <2>12, <2>13,
             <2>14 DEF CallStep
<1> QED BY <1>1, <1>4, <1>5 DEF Next, vars, Attach, Detach, Fault

(* Nothing is owned at first.                                                  *)
LEMMA HoldingStarts == Init => Holding
BY DEF Init, Holding, OwnersAreHeld, DroppingIsOrphaned, Releases, Idle

(* Owners are held and orphans stay orphans in every reachable state.            *)
LEMMA HoldingInvariant == Spec => []Holding
BY HoldingStarts, HoldingKept, StructureInvariant, PTL DEF Spec

(* A step changes the call of its own thread only, and one on its way to        *)
(* release a lease goes on until it released it.                              *)
LEMMA OneThread ==
  ASSUME Structure, NEW t \in Thread, CallStep(t) \/ CallerStep(t)
  PROVE  /\ \A u \in Thread \ {t} : calls'[u] = calls[u]
         /\ \A l \in Lease : Releases(t, l) => Releases(t, l)' \/ Release(t)
<1> calls \in [Thread -> Call]
  BY DEF Structure, CallsTyped
<1>1. ASSUME CallerStep(t)
      PROVE  /\ \A u \in Thread \ {t} : calls'[u] = calls[u]
             /\ calls[t].at = "idle"
  BY <1>1 DEF CallerStep, BeginConfigure, BeginAcquire, BeginValidate, BeginExecute, Begin,
              DropImage, At
<1>2. ASSUME CallStep(t) PROVE \A u \in Thread \ {t} : calls'[u] = calls[u]
  <2>1. CASE ConfigureFails(t) \/ Configure(t) \/ Enter(t) \/ EnterFails(t)
    BY <2>1 DEF ConfigureFails, Configure, Enter, EnterFails
  <2>2. CASE \E s \in SurfaceId : ProbeAbandoned(t, s) \/ ProbeOwned(t, s)
    BY <2>2 DEF ProbeAbandoned, ProbeOwned
  <2>3. CASE DropProbe(t) \/ AcquireFails(t) \/ AcquireImage(t) \/ EndValidate(t)
    BY <2>3 DEF DropProbe, AcquireFails, AcquireImage, EndValidate, Leave, Goto
  <2>4. CASE \E l \in Lease : Pin(t, l) \/ Present(t, l) \/ Unpin(t, l)
    BY <2>4 DEF Pin, Present, Unpin
  <2>5. CASE Unlock(t) \/ MarkAbandoned(t) \/ Release(t)
    BY <2>5 DEF Unlock, MarkAbandoned, Release, Goto
  <2> QED BY <1>2, <2>1, <2>2, <2>3, <2>4, <2>5 DEF CallStep
<1>3. ASSUME CallStep(t), calls[t].at \in {"dropping", "releasing"}
      PROVE  MarkAbandoned(t) \/ Release(t)
  BY <1>3 DEF CallStep, ConfigureFails, Configure, Enter, EnterFails, ProbeAbandoned, ProbeOwned,
              DropProbe, AcquireFails, AcquireImage, EndValidate, Pin, Present, Unpin, Unlock,
              Entered, At
<1>4. ASSUME MarkAbandoned(t), NEW l \in Lease, Releases(t, l) PROVE Releases(t, l)'
  BY <1>4 DEF MarkAbandoned, Goto, Releases, Call
<1> QED BY <1>1, <1>2, <1>3, <1>4 DEF Releases

(* The step that drops the last owner puts its thread on the way to release.     *)
LEMMA OrphansKept ==
  Structure /\ ImageAuthority /\ OrphansHaveAReleaser /\ [Next]_vars => OrphansHaveAReleaser'
<1> SUFFICES ASSUME Structure, ImageAuthority, OrphansHaveAReleaser, [Next]_vars,
                    NEW l \in images', owners'[l] = {}
             PROVE  \E t \in Thread : Releases(t, l)'
  BY DEF OrphansHaveAReleaser, Releases
<1> /\ owners \in [Lease -> SUBSET (Thread \cup {Image})] /\ calls \in [Thread -> Call]
    /\ images \subseteq Lease
  BY DEF Structure, SurfaceTypeOK, CallsTyped
<1>0. l \in Lease
  BY TypesKept DEF SurfaceTypeOK
<1>1. l \in images
  <2>1. ASSUME NEW t \in Thread, AcquireImage(t) PROVE l \in images
    BY <1>0, <2>1 DEF AcquireImage
  <2>2. ASSUME NEW t \in Thread, CallStep(t), ~AcquireImage(t) PROVE images' \subseteq images
    <3>1. CASE images' = images
      BY <3>1
    <3>2. CASE Configure(t) \/ Release(t)
      BY <3>2 DEF Configure, Release, TakeLease
    <3>3. CASE \E s \in SurfaceId : ProbeAbandoned(t, s)
      BY <3>3 DEF ProbeAbandoned, AbandonLease, TakeLease
    <3>4. CASE \E k \in Lease : Present(t, k)
      BY <3>4 DEF Present, TakeLease
    <3> QED BY <2>2, <3>1, <3>2, <3>3, <3>4
            DEF CallStep, ConfigureFails, Enter, EnterFails, ProbeOwned, DropProbe, AcquireFails,
                EndValidate, Pin, Unpin, Unlock, MarkAbandoned
  <2>3. ASSUME NEW h \in Handle, Detach(h) PROVE images' \subseteq images
    BY <2>3 DEF Detach
  <2>4. images' = images => l \in images
    OBVIOUS
  <2> QED BY <2>1, <2>2, <2>3, <2>4
          DEF Next, vars, Attach, Fault, CallerStep, BeginConfigure, BeginAcquire,
              BeginValidate, BeginExecute, Begin, DropImage
(* A lease whose image is released is taken from its record                     *)
<1>2. ASSUME NEW t \in Thread, Release(t), calls[t].lease = l PROVE FALSE
  <2>1. PICK s \in SurfaceId : LeaseOf(s) = l /\ l # None
    BY <1>1 DEF ImageAuthority
  <2>2. records[s].registered /\ leases[l].surface = s /\ leases[l].generation = records[s].generation
    BY <2>1 DEF ImageAuthority
  <2>3. images' = images \ {l}
    BY <1>2, <2>1, <2>2 DEF Release, TakeLease
  <2> QED BY <2>3
<1>3. CASE owners[l] = {}
  <2>1. PICK u \in Thread : Releases(u, l)
    BY <1>1, <1>3 DEF OrphansHaveAReleaser, Releases
  <2>2. CASE calls' = calls
    BY <2>1, <2>2 DEF Releases
  <2>3. ASSUME NEW t \in Thread, CallStep(t) \/ CallerStep(t) PROVE Releases(u, l)'
    BY <1>0, <1>2, <2>1, <2>3, OneThread DEF Releases
  <2> QED BY <2>1, <2>2, <2>3 DEF Next, vars, Attach, Detach, Fault
<1>4. CASE owners[l] # {}
  <2>1. ASSUME NEW t \in Thread, NEW k \in Lease, DropImage(t, k) PROVE Releases(t, l)'
    <3>1. l = k /\ owners[l] = {Image}
      BY <1>0, <1>4, <2>1 DEF DropImage
    <3> QED BY <2>1, <3>1 DEF DropImage, Releases, Idle
  <2>2. ASSUME NEW t \in Thread, DropProbe(t) PROVE Releases(t, l)'
    <3>1. PICK k : k = calls[t].lease
      OBVIOUS
    <3>2. owners' = [owners EXCEPT ![k] = @ \ {t}]
      BY <2>2, <3>1 DEF DropProbe
    <3>3. l = k /\ owners[l] = {t}
      BY <1>0, <1>4, <3>2
    <3> QED BY <2>2, <3>1, <3>3 DEF DropProbe, Releases, Goto, Call
  <2>3. ASSUME NEW t \in Thread, NEW k \in Lease, Unpin(t, k) PROVE Releases(t, l)'
    <3>1. owners' = [owners EXCEPT ![k] = @ \ {t}]
      BY <2>3 DEF Unpin
    <3>2. l = k /\ owners[l] = {t}
      BY <1>0, <1>4, <3>1
    <3> QED BY <2>3, <3>2 DEF Unpin, Releases, Idle
  <2>4. ASSUME NEW t \in Thread, NEW s \in SurfaceId, ProbeOwned(t, s) PROVE FALSE
    BY <1>0, <1>4, <2>4 DEF ProbeOwned
  <2>5. ASSUME NEW t \in Thread, NEW k \in Lease, Pin(t, k) PROVE FALSE
    BY <1>0, <1>4, <2>5 DEF Pin
  <2>6. ASSUME NEW t \in Thread, AcquireImage(t) PROVE FALSE
    BY <1>0, <1>4, <2>6 DEF AcquireImage
  <2>7. owners' # owners
    BY <1>4
  <2> QED BY <2>1, <2>2, <2>3, <2>4, <2>5, <2>6, <2>7
          DEF Next, vars, Attach, Detach, Fault, CallerStep, BeginConfigure, BeginAcquire,
              BeginValidate, BeginExecute, Begin, CallStep, ConfigureFails, Configure, Enter,
              EnterFails, ProbeAbandoned, AcquireFails, EndValidate, Present, Unlock,
              MarkAbandoned, Release
<1> QED BY <1>3, <1>4

(* While t holds the mutex only t can end a lease it pinned: another thread can   *)
(* only mark a lease that has no owner left.                                   *)
LEMMA PinnedKept ==
  Structure /\ ImageAuthority /\ Holding /\ PinnedStaysPresentable /\ [Next]_vars
    => PinnedStaysPresentable'
<1> DEFINE Presentable(t, l) ==
      \/ ValidLease(l) /\ l \in images
      \/ leases[l].disposition = "Presented" /\ l \notin calls[t].presents
<1> SUFFICES ASSUME Structure, ImageAuthority, Holding, PinnedStaysPresentable, [Next]_vars,
                    NEW t \in Thread, Entered(t, "execute")', NEW l \in Pinned(t)'
             PROVE  Presentable(t, l)'
  BY DEF PinnedStaysPresentable
<1> USE SurfaceAssumption
<1> /\ records \in [SurfaceId -> Record] /\ leases \in [Lease -> LeaseRecord]
    /\ owners \in [Lease -> SUBSET (Thread \cup {Image})] /\ calls \in [Thread -> Call]
    /\ LeasesInOrder
  BY DEF Structure, SurfaceTypeOK, CallsTyped
<1>1. l \in Lease /\ t \in owners'[l] /\ l \in calls'[t].uses /\ mutex' = t
  <2>1. CallsTyped' /\ MutexIsHeld'
    BY CallsKept, MutexKept
  <2> QED BY <2>1 DEF CallsTyped, Call, Pinned, MutexIsHeld, Entered, At
<1>2. ASSUME Entered(t, "execute"), l \in Pinned(t) PROVE Presentable(t, l)
  BY <1>2 DEF PinnedStaysPresentable
<1>3. ASSUME calls[t].at \in {"entering", "probing"}, ~Entered(t, "execute") PROVE t \notin owners[l]
  BY <1>1, <1>3 DEF Holding, OwnersAreHeld, Holds, At
(* Nobody else touches a record while t holds the mutex                         *)
<1>4. ASSUME UNCHANGED <<records, images>>, calls'[t] = calls[t], t \in owners[l],
             leases'[l] = leases[l]
      PROVE  Presentable(t, l)'
  <2>1. Entered(t, "execute") /\ l \in Pinned(t)
    BY <1>1, <1>4 DEF Entered, At, Pinned
  <2>2. Presentable(t, l)
    BY <1>2, <2>1
  <2>3. ValidLease(l)' <=> ValidLease(l)
    BY <1>4 DEF ValidLease, LeaseOf
  <2> QED BY <1>4, <2>2, <2>3
<1>5. ASSUME NEW u \in Thread \ {t}, CallStep(u) PROVE Presentable(t, l)'
  <2>1. calls'[t] = calls[t]
    BY <1>5, OneThread
  <2>2. mutex = t
    BY <2>1 DEF Structure, MutexIsHeld, Entered, At
  <2>3. calls[u].at \notin {"probing", "upgraded"}
    BY <1>5, <2>2 DEF Structure, MutexIsHeld
  <2>4. CASE MarkAbandoned(u)
    <3>1. calls[u].lease \in Lease /\ owners[calls[u].lease] = {} /\ owners' = owners
      BY <1>5, <2>4 DEF MarkAbandoned, At, Structure, CallsTyped, Fits, Allocated, Holding,
                       DroppingIsOrphaned, Releases
    <3>2. leases' = Abandoned(calls[u].lease) /\ UNCHANGED <<records, images>>
      BY <2>4 DEF MarkAbandoned
    <3>3. calls[u].lease # l
      BY <1>1, <3>1
    <3>4. leases'[l] = leases[l]
      BY <1>1, <3>1, <3>2, <3>3, AbandonedLeases
    <3> QED BY <1>1, <1>4, <2>1, <3>1, <3>2, <3>4
  <2>5. ASSUME NEW k \in Lease, Unpin(u, k) PROVE Presentable(t, l)'
    <3>1. UNCHANGED <<records, images, leases>> /\ t \in owners[l]
      BY <1>1, <1>5, <2>5 DEF Unpin
    <3> QED BY <1>4, <2>1, <3>1
  <2> QED BY <1>5, <2>2, <2>3, <2>4, <2>5
          DEF CallStep, ConfigureFails, Configure, Enter, EnterFails, ProbeAbandoned, ProbeOwned,
              DropProbe, AcquireFails, AcquireImage, EndValidate, Pin, Present, Unlock, Release,
              Entered, At
<1>6. ASSUME NEW u \in Thread, CallerStep(u) PROVE Presentable(t, l)'
  <2>1. UNCHANGED <<records, images, leases>>
    BY <1>6 DEF CallerStep, BeginConfigure, BeginAcquire, BeginValidate, BeginExecute, Begin,
                DropImage
  <2>2. t \in owners[l]
    <3>1. ASSUME NEW k \in Lease, DropImage(u, k) PROVE t \in owners[l]
      BY <1>1, <3>1 DEF DropImage
    <3>2. CASE owners' = owners
      BY <1>1, <3>2
    <3> QED BY <1>6, <3>1, <3>2 DEF CallerStep, BeginConfigure, BeginAcquire, BeginValidate,
                                   BeginExecute, Begin
  <2>3. calls[t].at # "idle"
    BY <2>2, <1>1 DEF Holding, OwnersAreHeld, Holds, At, Entered
  <2>4. calls[u].at = "idle"
    BY <1>6 DEF CallerStep, BeginConfigure, BeginAcquire, BeginValidate, BeginExecute, Begin,
                DropImage, At
  <2>5. t \in Thread \ {u}
    BY <2>3, <2>4
  <2>6. calls'[t] = calls[t]
    BY <1>6, <2>5, OneThread
  <2>7. leases'[l] = leases[l]
    BY <2>1
  <2> QED BY <1>4, <2>1, <2>2, <2>6, <2>7
<1>7. ASSUME CallStep(t) PROVE Presentable(t, l)'
  <2>1. CASE Enter(t)
    BY <1>1, <1>3, <1>7, <2>1 DEF Enter, Entered, At
  <2>2. ASSUME NEW s \in SurfaceId, ProbeAbandoned(t, s) PROVE FALSE
    BY <1>1, <1>3, <2>2 DEF ProbeAbandoned, Entered, At
  <2>3. ASSUME NEW s \in SurfaceId, ProbeOwned(t, s) PROVE FALSE
    BY <2>3 DEF ProbeOwned, Entered, At, Call
  <2>4. CASE DropProbe(t)
    <3>1. PICK k : k = calls[t].lease
      OBVIOUS
    <3>2. At(t, "upgraded") /\ owners' = [owners EXCEPT ![k] = @ \ {t}]
      BY <2>4, <3>1 DEF DropProbe
    <3>3. t \in owners[l] /\ l # k
      BY <1>1, <3>2
    <3> QED BY <1>1, <3>1, <3>2, <3>3 DEF Holding, OwnersAreHeld, Holds, At, Entered
  <2>5. ASSUME NEW k \in Lease, Pin(t, k) PROVE Presentable(t, l)'
    <3>1. /\ UNCHANGED <<records, images, leases, calls>> /\ ValidLease(k)
          /\ owners' = [owners EXCEPT ![k] = @ \cup {t}] /\ k \in calls[t].uses
      BY <2>5 DEF Pin
    <3>2. CASE t \in owners[l]
      BY <1>4, <3>1, <3>2
    <3>3. CASE t \notin owners[l]
      <4>1. l = k
        BY <1>1, <3>1, <3>3
      <4>2. l \in images
        <5>1. l \in Allocated /\ leases[l].surface \in SurfaceId /\ LeaseOf(leases[l].surface) = l
          BY <3>1, <4>1 DEF ValidLease, Allocated, LeasesInOrder
        <5>2. l # None
          BY <1>1 DEF Lease
        <5> QED BY <5>1, <5>2 DEF ImageAuthority
      <4>3. ValidLease(l)'
        BY <3>1, <4>1 DEF ValidLease, LeaseOf
      <4> QED BY <3>1, <4>2, <4>3
    <3> QED BY <3>2, <3>3
  <2>6. ASSUME NEW k \in Lease, Present(t, k) PROVE Presentable(t, l)'
    <3>1. PICK s \in SurfaceId : s = leases[k].surface
      <4>1. k \in calls[t].presents
        BY <2>6 DEF Present
      <4> QED BY <4>1 DEF Structure, CallsTyped, Fits, LeasesInOrder
    <3>2. /\ Entered(t, "execute") /\ LeaseOf(s) = k /\ owners' = owners
          /\ records' = [records EXCEPT ![s].lease = None] /\ images' = images \ {k}
          /\ leases' = [leases EXCEPT ![k].disposition = "Presented"]
          /\ calls' = [calls EXCEPT ![t].presents = @ \ {k}]
      BY <2>6, <3>1 DEF Present, ValidLease, TakeLease
    <3>3. calls'[t].uses = calls[t].uses /\ calls'[t].presents = calls[t].presents \ {k}
      BY <3>2 DEF Call
    <3>4. Presentable(t, l)
      BY <1>1, <1>2, <3>2, <3>3 DEF Pinned
    <3>5. CASE l = k
      <4>1. leases'[l].disposition = "Presented"
        BY <1>1, <3>2, <3>5 DEF LeaseRecord
      <4> QED BY <3>3, <3>5, <4>1
    <3>6. CASE l # k
      <4>1. leases'[l] = leases[l]
        BY <1>1, <3>2, <3>6
      <4>2. \A r \in SurfaceId \ {s} : records'[r] = records[r]
        BY <3>2
      <4>3. ValidLease(l) => leases[l].surface \in SurfaceId \ {s}
        BY <1>1, <3>2, <3>6 DEF ValidLease, LeasesInOrder, Allocated
      <4>4. ValidLease(l) => ValidLease(l)'
        BY <4>1, <4>2, <4>3 DEF ValidLease, LeaseOf
      <4> QED BY <3>2, <3>3, <3>4, <3>6, <4>1, <4>4
    <3> QED BY <3>5, <3>6
  <2>7. ASSUME calls' = [calls EXCEPT ![t] = Idle] PROVE FALSE
    BY <2>7 DEF Entered, At, Idle
  <2>8. CASE Unlock(t)
    BY <2>8 DEF Unlock, Entered, At, Idle
  <2>9. ASSUME NEW k \in Lease, Unpin(t, k) PROVE FALSE
    BY <2>9 DEF Unpin, Entered, At, Idle
  <2>10. CASE MarkAbandoned(t)
    BY <2>10 DEF MarkAbandoned, Goto, Entered, At, Call
  <2>11. CASE Release(t)
    BY <2>11 DEF Release, Entered, At, Idle
  <2> QED BY <1>7, <2>1, <2>2, <2>3, <2>4, <2>5, <2>6, <2>7, <2>8, <2>9, <2>10, <2>11
          DEF CallStep, ConfigureFails, Configure, EnterFails, AcquireFails, AcquireImage, EndValidate,
              Leave
<1>8. ASSUME NEW s \in SurfaceId, Attach(s) PROVE Presentable(t, l)'
  BY <1>1, <1>8 DEF Attach
<1>9. ASSUME NEW h \in Handle, Detach(h) PROVE Presentable(t, l)'
  BY <1>1, <1>9 DEF Detach
<1>10. CASE Fault \/ UNCHANGED vars
  <2>1. UNCHANGED <<records, images, leases, calls, owners>>
    BY <1>10 DEF Fault, vars
  <2> QED BY <1>1, <1>4, <2>1
<1> QED BY <1>5, <1>6, <1>7, <1>8, <1>9, <1>10 DEF Next

-----------------------------------------------------------------------------
(* The theorems                                                              *)

(* Registrations, images, leases and calls stay what surface.rs can store, for *)
(* any threads, surfaces and numbers of generations.                         *)
THEOREM SurfaceTypeCorrect == Spec => []SurfaceTypeOK
BY StructureInvariant, PTL DEF Structure

(* An image lives exactly as the active lease of a registered surface in its   *)
(* current generation, whatever callers and threads do (TakeLease and every    *)
(* path that ends a lease in surface.rs).                                      *)
THEOREM ImagesAreAuthoritative == Spec => []ImageAuthority
BY AuthorityInvariant, PTL DEF Authority

(* An acquired image's logical texture describes the configuration its        *)
(* physical image was taken under, though the device may fail while a caller    *)
(* waits for the mutex (the second look at health in acquire).                *)
THEOREM ImagesAreAsDescribed == Spec => []AcquiredAsDescribed
BY AuthorityInvariant, PTL DEF Authority

(* What a submission pinned stays presentable until it presents it or lets go  *)
(* of the guard (execution_lease_guard and pin_execution_lease).               *)
THEOREM PinsHold == Spec => []PinnedStaysPresentable
<1>1. Init => PinnedStaysPresentable
  BY DEF Init, PinnedStaysPresentable, Entered, At, Idle
<1>2. Authority => ImageAuthority
  BY DEF Authority
<1> QED BY <1>1, <1>2, PinnedKept, StructureInvariant, AuthorityInvariant, HoldingInvariant,
           PTL DEF Spec

(* An image nobody owns has a thread on its way to release it: no path drops    *)
(* the last owner without its destructor (GpuSurfaceLeaseOwner::drop).          *)
THEOREM OrphansAreReleased == Spec => []OrphansHaveAReleaser
<1>1. Init => OrphansHaveAReleaser
  BY DEF Init, OrphansHaveAReleaser
<1>2. Authority => ImageAuthority
  BY DEF Authority
<1> QED BY <1>1, <1>2, OrphansKept, StructureInvariant, AuthorityInvariant, PTL DEF Spec
=============================================================================
