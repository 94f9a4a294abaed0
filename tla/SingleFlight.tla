----------------------------- MODULE SingleFlight -----------------------------
(***************************************************************************)
(* Single-flight realization of programs, layouts, bind groups and          *)
(* pipelines (backend/wgpu/program_binding_realization and                  *)
(* pipeline_realization): equal requests share one record, one caller       *)
(* creates it, the others wait for the outcome of its attempt.              *)
(*                                                                          *)
(* A key is a complete request.  The families of program and binding keys   *)
(* live under one mutex and one record bound, each pipeline family under    *)
(* its own; a critical section of either is one step.  A caller is a task   *)
(* awaiting one call; it may drop the call wherever it awaits.  The record  *)
(* an attempt creates goes by the number of the attempt.                    *)
(***************************************************************************)
EXTENDS Naturals, Sequences, FiniteSets, FiniteSetsExt, SequencesExt

CONSTANTS
  Caller, Key, NoKey,
  Home,            \* key -> the registry that serves it
  MaxRecords,      \* registry -> bound on its ready and in-flight records
  Families,        \* the order in which families of keys are collected
  Nested,          \* key -> key its owner realizes for itself, or NoKey
  Given,           \* key -> keys whose handles the caller presents
  Rechecked,       \* keys whose presented handles are compared with the lookup
  BindGroups,      \* keys whose records retain resources
  MaxAttempt       \* bound on the attempts and records that exist at once

Registry == {Home[k] : k \in Key}
Attempt  == 1 .. MaxAttempt
None     == 0

(* A nested key is plain: it neither nests nor presents anything itself.     *)
ASSUME KeyAssumption ==
  /\ NoKey \notin Key /\ MaxAttempt \in Nat
  /\ MaxRecords \in [Registry -> Nat \ {0}]
  /\ Families \in Seq(SUBSET Key)
  /\ UNION {Families[i] : i \in DOMAIN Families} = Key
  /\ Nested \in [Key -> Key \cup {NoKey}]
  /\ Given \in [Key -> SUBSET Key]
  /\ Rechecked \subseteq Key
  /\ BindGroups \subseteq Key
  /\ \A k \in Key : Nested[k] # NoKey =>
       Nested[Nested[k]] = NoKey /\ Given[Nested[k]] = {}

(* What retains comes before what it retains, in its registry                 *)
(* (collect_lookup_only); chains have at most two steps, from pipeline to      *)
(* pipeline layout to layout.                                                *)
Retains(k, d) == d \in Given[k] \cup ({Nested[k]} \ {NoKey})
ASSUME FamilyAssumption ==
  /\ \A k, d \in Key, i \in DOMAIN Families :
       Retains(k, d) /\ Home[k] = Home[d] /\ d \in Families[i] =>
         \E j \in 1 .. i - 1 : k \in Families[j]
  /\ \E rank \in [Key -> 0 .. 2] :
       \A k, d \in Key : Retains(k, d) => rank[d] < rank[k]

VARIABLES
  ready,       \* key -> record in the lookup, or None
  inFlight,    \* key -> attempt in flight, or None
  outcome,     \* attempt -> what waiters read of it
  base,        \* record -> the records it retains
  caller,      \* caller -> its call under way
  handles,     \* caller -> key -> record of a handle it holds, or None
  fault        \* a terminal device fault is recorded

vars == <<ready, inFlight, outcome, base, caller, handles, fault>>

-----------------------------------------------------------------------------
(* Helpers *)

Idle == [pc |-> "idle", key |-> NoKey, attempt |-> None, outer |-> NoKey,
         outerAttempt |-> None, groups |-> {}, result |-> "None",
         heard |-> FALSE]

At(c, pc) == caller[c].pc = pc
Goto(c, pc) == caller' = [caller EXCEPT ![c].pc = pc]
Found(c) == ready[caller[c].key]
Joined(c) == inFlight[caller[c].key]
HandlesOf(c) == {handles[c][k] : k \in Key} \ {None}
Presented(c, k) == {handles[c][d] : d \in Given[k]}

(* Something refers to the attempt, or to the record it created.             *)
Referenced(a) ==
  \/ \E k \in Key : a \in {ready[k], inFlight[k]}
  \/ \E c \in Caller : \/ a \in {caller[c].attempt, caller[c].outerAttempt}
                       \/ a \in caller[c].groups \cup HandlesOf(c)
  \/ \E b \in Attempt : a \in base[b]

(* The call lets go of its attempt, which ends with the last that refers to it *)
Forget(c) ==
  LET a == caller[c].attempt
  IN outcome' = IF a = None \/ \E d \in Caller \ {c} :
                     a \in {caller[d].attempt, caller[d].outerAttempt}
                THEN outcome ELSE [outcome EXCEPT ![a] = "Pending"]

(* Fault: what an attempt holds for its waiters is not counted               *)
RetainedByHandles(r, collected) ==
  \/ \E c \in Caller : r \in HandlesOf(c) \cup caller[c].groups
  \/ \E q \in Attempt \ collected : r \in base[q]

(* Arc::strong_count > 1 for a record in the lookup: a handle, a call that    *)
(* has it as its outcome, a waiter through its attempt, or another record.    *)
Retained(r, collected) ==
  \/ \E c \in Caller :
       \/ r \in HandlesOf(c) \cup caller[c].groups
       \/ /\ caller[c].attempt = r
          /\ caller[c].result = "Ready" \/ outcome[r] = "Ready"
  \/ \E q \in Attempt \ collected : r \in base[q]

(* collect_lookup_only of one family, after "collected" are gone             *)
Collect(registry, collected, family) ==
  collected \cup {ready[k] : k \in {f \in family :
    /\ Home[f] = registry
    /\ ready[f] # None
    /\ ~Retained(ready[f], collected)}}

(* Fault: parents are looked at before what retains them                     *)
LookupOnlyParentsFirst(registry) ==
  FoldLeft(LAMBDA gone, family : Collect(registry, gone, family), {},
           Reverse(Families))

(* collect_lookup_only of a registry: dependents before what they retain     *)
LookupOnly(registry) ==
  FoldLeft(LAMBDA gone, family : Collect(registry, gone, family), {}, Families)

Total(registry) ==
  Cardinality({k \in Key : Home[k] = registry /\ ready[k] # None})
    + Cardinality({k \in Key : Home[k] = registry /\ inFlight[k] # None})

(* ensure_capacity: the records it collects, and whether there is room then  *)
Collected(registry) ==
  IF Total(registry) >= MaxRecords[registry] THEN LookupOnly(registry) ELSE {}

Room(registry) ==
  Total(registry) - Cardinality(Collected(registry)) < MaxRecords[registry]

(* Fault: only a waiter that already sleeps is woken                         *)
ListensAsleep(c) == At(c, "asleep")

(* The caller's Notified exists: notify_waiters reaches it, awaited or not    *)
Listens(c) == caller[c].pc \in {"listening", "waiting", "asleep"}

(* Records leave the lookup, and with them what they retained                *)
Drop(gone) ==
  /\ ready' = [k \in Key |-> IF ready[k] \in gone THEN None ELSE ready[k]]
  /\ base' = [a \in Attempt |-> IF a \in gone THEN {} ELSE base[a]]

-----------------------------------------------------------------------------
Init ==
  /\ ready = [k \in Key |-> None]
  /\ inFlight = [k \in Key |-> None]
  /\ outcome = [a \in Attempt |-> "Pending"]
  /\ base = [a \in Attempt |-> {}]
  /\ caller = [c \in Caller |-> Idle]
  /\ handles = [c \in Caller |-> [k \in Key |-> None]]
  /\ fault = FALSE

(* realize_*: the caller presents handles of what the request builds on.  It *)
(* asks again only for what it has released.                                 *)
Request(c, k) ==
  /\ At(c, "idle")
  /\ handles[c][k] = None
  /\ None \notin Presented(c, k)
  /\ caller' = [caller EXCEPT ![c] = [Idle EXCEPT !.key = k,
       !.pc = IF k \in Rechecked THEN "checking" ELSE "requested"]]
  /\ UNCHANGED <<ready, inFlight, outcome, base, handles, fault>>

(* A presented handle has to be the one a request of its key returns now     *)
Recheck(c) ==
  /\ At(c, "checking")
  /\ ~fault
  /\ caller' = [caller EXCEPT ![c] =
       IF \A d \in Given[@.key] : ready[d] = handles[c][d]
       THEN [@ EXCEPT !.pc = "requested"]
       ELSE [@ EXCEPT !.pc = "returning", !.result = "Failed"]]
  /\ UNCHANGED <<ready, inFlight, outcome, base, handles, fault>>

(* ensure_available refuses                                                  *)
Unavailable(c) ==
  /\ caller[c].pc \in {"checking", "requested"}
  /\ fault
  /\ caller' = [caller EXCEPT ![c].pc = "returning", ![c].result = "Failed"]
  /\ UNCHANGED <<ready, inFlight, outcome, base, handles, fault>>

-----------------------------------------------------------------------------
(* reserve, one critical section after ensure_available.  The lookup is by   *)
(* complete request, so a ready record always matches its key.               *)

ReserveReady(c) ==
  /\ At(c, "requested")
  /\ ~fault
  /\ Found(c) # None
  /\ caller' = [caller EXCEPT ![c].pc = "returning", ![c].attempt = Found(c),
                              ![c].result = "Ready"]
  /\ UNCHANGED <<ready, inFlight, outcome, base, handles, fault>>

ReserveWaiter(c) ==
  /\ At(c, "requested")
  /\ ~fault
  /\ Found(c) = None
  /\ Joined(c) # None
  /\ caller' = [caller EXCEPT ![c].pc = "joined", ![c].attempt = Joined(c)]
  /\ UNCHANGED <<ready, inFlight, outcome, base, handles, fault>>

(* Nobody has it: the lookup-only records make room, whatever comes of it    *)
Vacant(c) ==
  /\ At(c, "requested")
  /\ ~fault
  /\ Found(c) = None
  /\ Joined(c) = None
  /\ Drop(Collected(Home[caller[c].key]))
  /\ UNCHANGED <<handles, fault>>

(* The owner of a nesting request goes on to request the nested key          *)
ReserveOwner(c) ==
  LET k == caller[c].key
      a == Min({b \in Attempt : ~Referenced(b)})
  IN /\ \E b \in Attempt : ~Referenced(b)
     /\ Vacant(c)
     /\ Room(Home[k])
     /\ inFlight' = [inFlight EXCEPT ![k] = a]
     /\ outcome' = [outcome EXCEPT ![a] = "Pending"]
     /\ caller' = [caller EXCEPT ![c] =
          IF Nested[k] = NoKey
          THEN [@ EXCEPT !.pc = "creating", !.attempt = a]
          ELSE [@ EXCEPT !.key = Nested[k], !.outer = k, !.outerAttempt = a]]

ReserveFull(c) ==
  /\ Vacant(c)
  /\ ~Room(Home[caller[c].key])
  /\ caller' = [caller EXCEPT ![c].pc = "returning", ![c].result = "Full"]
  /\ UNCHANGED <<inFlight, outcome>>

-----------------------------------------------------------------------------
(* InFlight::wait: create the Notified, read the outcome, await              *)

Listen(c) ==
  /\ At(c, "joined")
  /\ Goto(c, "listening")
  /\ UNCHANGED <<ready, inFlight, outcome, base, handles, fault>>

(* The waiter has its outcome and lets go of the attempt, or retries         *)
Resolve(c) ==
  caller' = [caller EXCEPT ![c] =
    CASE outcome[@.attempt] = "Ready" ->
           [@ EXCEPT !.pc = "returning", !.result = "Ready", !.heard = FALSE]
      [] outcome[@.attempt] = "Failed" ->
           [@ EXCEPT !.pc = "returning", !.result = "Failed",
                     !.attempt = None, !.heard = FALSE]
      [] outcome[@.attempt] = "Abandoned" ->
           [@ EXCEPT !.pc = "requested", !.attempt = None, !.heard = FALSE]]

Check(c) ==
  /\ At(c, "listening")
  /\ IF outcome[caller[c].attempt] = "Pending"
     THEN Goto(c, "waiting") /\ UNCHANGED outcome
     ELSE Resolve(c) /\ Forget(c)
  /\ UNCHANGED <<ready, inFlight, base, handles, fault>>

Park(c) ==
  /\ At(c, "waiting")
  /\ ~caller[c].heard
  /\ Goto(c, "asleep")
  /\ UNCHANGED <<ready, inFlight, outcome, base, handles, fault>>

(* Woken, it loops: a new Notified, and the outcome again                    *)
Wake(c) ==
  /\ caller[c].pc \in {"waiting", "asleep"}
  /\ caller[c].heard
  /\ caller' = [caller EXCEPT ![c].pc = "joined", ![c].heard = FALSE]
  /\ UNCHANGED <<ready, inFlight, outcome, base, handles, fault>>

-----------------------------------------------------------------------------
(* The owner *)

(* realize_*_owner: the scoped creation ends.  A fault recorded by then      *)
(* fails it; an internal error it reports is marked just before, as a        *)
(* DeviceFault.  The record takes over what it was built on.                 *)
Create(c, ok) ==
  LET a == caller[c].attempt
  IN /\ At(c, "creating")
     /\ ok => ~fault
     /\ base' = IF ok
                THEN [base EXCEPT ![a] =
                        caller[c].groups \cup Presented(c, caller[c].key)]
                ELSE base
     /\ caller' = [caller EXCEPT ![c].pc = "concluding", ![c].groups = {},
                     ![c].result = IF ok THEN "Ready" ELSE "Failed"]
     /\ UNCHANGED <<ready, inFlight, outcome, handles, fault>>

(* The critical section of finish, and of the owner's Drop                   *)
Conclude(c) ==
  LET k == caller[c].key
      a == caller[c].attempt
  IN /\ At(c, "concluding")
     /\ inFlight' = IF inFlight[k] = a
                    THEN [inFlight EXCEPT ![k] = None] ELSE inFlight
     /\ ready' = IF inFlight[k] = a /\ caller[c].result = "Ready"
                 THEN [ready EXCEPT ![k] = a] ELSE ready
     /\ Goto(c, "announcing")
     /\ UNCHANGED <<outcome, base, handles, fault>>

(* InFlight::complete, after the registry is unlocked: first the outcome,    *)
Announce(c) ==
  /\ At(c, "announcing")
  /\ outcome' = [outcome EXCEPT ![caller[c].attempt] = caller[c].result]
  /\ Goto(c, "notifying")
  /\ UNCHANGED <<ready, inFlight, base, handles, fault>>

(* then notify_waiters.                                                      *)
Notify(c) ==
  /\ At(c, "notifying")
  /\ caller' = [d \in Caller |->
       IF d = c THEN [caller[d] EXCEPT !.pc = "returning"]
       ELSE IF Listens(d) /\ caller[d].attempt = caller[c].attempt
       THEN [caller[d] EXCEPT !.heard = TRUE] ELSE caller[d]]
  /\ UNCHANGED <<ready, inFlight, outcome, base, handles, fault>>

(* Back in the outer owner: with the nested record it creates its own, with   *)
(* an error it fails, dropped it drops too.                                   *)
Unnest(call) ==
  [Idle EXCEPT
     !.key = call.outer, !.attempt = call.outerAttempt,
     !.pc = IF call.result = "Ready" THEN "creating" ELSE "concluding",
     !.groups = IF call.result = "Ready" THEN {call.attempt} ELSE {},
     !.result = CASE call.result = "Ready" -> "None"
                  [] call.result = "Abandoned" -> "Abandoned"
                  [] OTHER -> "Failed"]

(* Fault: the caller of a failed call keeps its attempt                      *)
ReturnKeepingAttempt(c) ==
  /\ At(c, "returning")
  /\ IF caller[c].outer # NoKey
     THEN caller' = [caller EXCEPT ![c] = Unnest(@)] /\ UNCHANGED handles
     ELSE /\ caller' = [caller EXCEPT ![c] =
               [Idle EXCEPT !.attempt = caller[c].attempt]]
          /\ handles' = IF caller[c].result = "Ready"
                        THEN [handles EXCEPT ![c][caller[c].key] =
                                caller[c].attempt]
                        ELSE handles
  /\ Forget(c)
  /\ UNCHANGED <<ready, inFlight, base, fault>>

Return(c) ==
  /\ At(c, "returning")
  /\ IF caller[c].outer # NoKey
     THEN caller' = [caller EXCEPT ![c] = Unnest(@)] /\ UNCHANGED handles
     ELSE /\ caller' = [caller EXCEPT ![c] = Idle]
          /\ handles' = IF caller[c].result = "Ready"
                        THEN [handles EXCEPT ![c][caller[c].key] =
                                caller[c].attempt]
                        ELSE handles
  /\ Forget(c)
  /\ UNCHANGED <<ready, inFlight, base, fault>>

(* The task drops the call where it awaits: an owner's reservation drops,    *)
(* a waiter just leaves, and so does an outer owner.                         *)
Cancel(c) ==
  /\ caller[c].pc \in {"asleep", "creating"}
  /\ caller' = [caller EXCEPT ![c] =
       CASE @.pc = "creating" ->
              [@ EXCEPT !.pc = "concluding", !.result = "Abandoned",
                        !.groups = {}]
         [] @.pc = "asleep" /\ @.outer # NoKey ->
              Unnest([@ EXCEPT !.result = "Abandoned"])
         [] OTHER -> Idle]
  /\ Forget(c)
  /\ UNCHANGED <<ready, inFlight, base, handles, fault>>

(* Drop of an opaque handle                                                  *)
Release(c, k) ==
  /\ At(c, "idle")
  /\ handles[c][k] # None
  /\ handles' = [handles EXCEPT ![c][k] = None]
  /\ UNCHANGED <<ready, inFlight, outcome, base, caller, fault>>

(* A resource registry out of room frees the groups that retain resources    *)
SweepBindGroups ==
  LET gone == UNION {Collect(g, {}, BindGroups) : g \in Registry}
  IN /\ gone # {}
     /\ Drop(gone)
     /\ UNCHANGED <<inFlight, outcome, caller, handles, fault>>

DeviceFault ==
  /\ ~fault
  /\ fault' = TRUE
  /\ UNCHANGED <<ready, inFlight, outcome, base, caller, handles>>

-----------------------------------------------------------------------------
CallStep(c) ==
  \/ Recheck(c) \/ Unavailable(c)
  \/ ReserveReady(c) \/ ReserveWaiter(c) \/ ReserveOwner(c) \/ ReserveFull(c)
  \/ Listen(c) \/ Check(c) \/ Park(c) \/ Wake(c)
  \/ \E ok \in BOOLEAN : Create(c, ok)
  \/ Conclude(c) \/ Announce(c) \/ Notify(c) \/ Return(c)

Next ==
  \/ \E c \in Caller : CallStep(c) \/ Cancel(c)
  \/ \E c \in Caller, k \in Key : Request(c, k) \/ Release(c, k)
  \/ SweepBindGroups \/ DeviceFault

(* A call under way is polled until it returns, or dropped.                  *)
Fairness == \A c \in Caller : WF_vars(CallStep(c))

Spec == Init /\ [][Next]_vars
FairSpec == Spec /\ Fairness

-----------------------------------------------------------------------------
(* Properties *)

CallState ==
  [pc : {"idle", "checking", "requested", "joined", "listening", "waiting",
         "asleep", "creating", "concluding", "announcing", "notifying",
         "returning"},
   key : Key \cup {NoKey}, attempt : Attempt \cup {None},
   outer : Key \cup {NoKey}, outerAttempt : Attempt \cup {None},
   groups : SUBSET Attempt,
   result : {"None", "Ready", "Failed", "Full", "Abandoned"}, heard : BOOLEAN]

(* Type invariant; an idle caller has no call.                               *)
TypeOK ==
  /\ ready \in [Key -> Attempt \cup {None}]
  /\ inFlight \in [Key -> Attempt \cup {None}]
  /\ outcome \in [Attempt -> {"Pending", "Ready", "Failed", "Abandoned"}]
  /\ base \in [Attempt -> SUBSET Attempt]
  /\ caller \in [Caller -> CallState]
  /\ \A c \in Caller : At(c, "idle") => caller[c] = Idle
  /\ handles \in [Caller -> [Key -> Attempt \cup {None}]]
  /\ fault \in BOOLEAN

(* A handle stays the authority for its key however long it is held and      *)
(* whatever is collected, fails or is dropped meanwhile, and so does all its *)
(* record was built on: execution never meets a handle the lookup does not   *)
(* know, and equal requests never yield different records.                   *)
HandlesStayAuthoritative ==
  /\ \A c \in Caller, k \in Key : handles[c][k] \in {None, ready[k]}
  /\ \A k \in Key : ready[k] # None =>
       base[ready[k]] =
         {ready[d] : d \in Given[k] \cup ({Nested[k]} \ {NoKey})} \ {None}
       /\ \A d \in Given[k] \cup ({Nested[k]} \ {NoKey}) : ready[d] # None

(* What callers, their calls and the records of other registries keep alive, *)
(* down the longest chain of the families: pipeline, pipeline layout, layout.*)
OfCallers ==
  UNION {HandlesOf(c) \cup caller[c].groups \cup {caller[c].attempt} :
           c \in Caller}
Elsewhere(registry) == {ready[k] : k \in {f \in Key : Home[f] # registry}}
Roots(registry) == OfCallers \cup Elsewhere(registry)
Below(records) == records \cup UNION {base[r] : r \in records \ {None}}
Live(registry) == Below(Below(Below(Roots(registry))))

(* One bounded pass is complete: after a collection, and so whenever a        *)
(* request is refused for capacity, every record left in that registry is     *)
(* alive, whole chains nobody holds being gone.                               *)
PressureOn(g) ==
  \E c \in Caller :
    /\ At(c, "requested") /\ Home[caller[c].key] = g
    /\ ~At(c, "requested")' \/ caller[c].key # caller'[c].key
    /\ \/ \E k \in Key : Home[k] = g /\ ready[k] # None /\ ready'[k] = None
       \/ caller'[c].result = "Full"
OnlyLiveRecordsSurvive ==
  [][\A g \in Registry : PressureOn(g) =>
       \A k \in Key : Home[k] = g /\ ready'[k] # None =>
                        ready'[k] \in Live(g)]_vars

(* Unless callers keep dropping calls, every call returns: no waiter sleeps   *)
(* through the end of an attempt, though it listens, reads and awaits in       *)
(* separate steps, and no owner waits for itself through a nested request.     *)
(* Under endless drops a waiter may join one abandoned attempt after another.  *)
CallsReturn ==
  <>[][\A c \in Caller : ~Cancel(c)]_vars =>
    \A c \in Caller : caller[c] # Idle ~> caller[c] = Idle
=============================================================================
