----------------------------- MODULE Device_proofs -----------------------------
(***************************************************************************)
(* What is asked of the device and given to it. A context keeps every      *)
(* demand and its adapter was chosen as documented, for any number of       *)
(* authors, any demands, hosts and retries. The device reports its worst    *)
(* fault and the beginning of the rest, for any evidence in any order. The   *)
(* render passes that reach it are coherent and fetch inside their buffers,  *)
(* for any textures,                                                         *)
(* buffers, draws and attachments. The dispatches that reach it are bound    *)
(* as their shaders and callers declare, for any modules, refinements,       *)
(* values and cached bind groups. The bytes that transfers move are the      *)
(* ones their callers mean and lie inside what they name, for any format,    *)
(* extent, region, layout and alignment.                                     *)
(***************************************************************************)
EXTENDS Bindings, Admission, Health, Rendering, Transfers, FiniteFolds, SequenceTheorems

-----------------------------------------------------------------------------
(* Merging *)

(* What r asks for is at least what d asks for                                *)
Covers(r, d) ==
  /\ \A f \in DOMAIN d.needs :
       d.needs[f] \in {"Required", "Disabled"} =>
         f \in DOMAIN r.needs /\ r.needs[f] = d.needs[f]
  /\ d.roles \subseteq r.roles
  /\ \A k \in DOMAIN d.limits :
       k \in DOMAIN r.limits /\ r.limits[k].minimum >= d.limits[k].minimum
  /\ \A k \in DOMAIN d.alignments :
       k \in DOMAIN r.alignments /\ r.alignments[k] <= d.alignments[k]
  /\ d.backends # {} => r.backends # {} /\ r.backends \subseteq d.backends
  /\ d.classes # {} => r.classes # {} /\ r.classes \subseteq d.classes

(* The larger and the smaller of two numbers                                  *)
LEMMA OfTwo ==
  \A a, b \in Nat :
    /\ Max({a, b}) = IF a >= b THEN a ELSE b
    /\ Min({a, b}) = IF a <= b THEN a ELSE b
BY SMT DEF Max, Min

(* Limits become tighter                                                     *)
LEMMA TighterLimits ==
  ASSUME NEW l \in [minimum : Nat, maximum : Nat], NEW r \in [minimum : Nat, maximum : Nat]
  PROVE  /\ TighterLimit(l, r) \in [minimum : Nat, maximum : Nat]
         /\ TighterLimit(l, r).minimum >= l.minimum
         /\ TighterLimit(l, r).minimum >= r.minimum
<1>1. {l.minimum, r.minimum, l.maximum, r.maximum} \subseteq Nat
  OBVIOUS
<1>2. PICK low, high : low = Max({l.minimum, r.minimum}) /\ high = Min({l.maximum, r.maximum})
  OBVIOUS
<1>3. low \in Nat /\ low >= l.minimum /\ low >= r.minimum /\ high \in Nat
  BY <1>1, <1>2, SMT DEF Max, Min
<1> QED BY <1>2, <1>3 DEF TighterLimit

(* and alignments finer.                                                     *)
LEMMA FinerAlignments ==
  ASSUME NEW l \in Nat, NEW r \in Nat
  PROVE  FinerAlignment(l, r) \in Nat /\ FinerAlignment(l, r) <= l /\ FinerAlignment(l, r) <= r
BY SMT DEF FinerAlignment, Min

(* Needs that do not conflict stay as strong as the stronger of both           *)
LEMMA MergedNeeds ==
  ASSUME NEW l \in Strength, NEW r \in Strength, MergedNeed(l, r) # "Conflict"
  PROVE  /\ MergedNeed(l, r) \in Strength
         /\ l \in {"Required", "Disabled"} => MergedNeed(l, r) = l
         /\ r \in {"Required", "Disabled"} => MergedNeed(l, r) = r
BY DEF MergedNeed, Strength

(* Allowlists become narrower                                                *)
LEMMA NarrowedLists ==
  ASSUME NEW l, NEW r, l # {} /\ r # {} => l \cap r # {}
  PROVE  /\ l # {} => Narrowed(l, r) # {} /\ Narrowed(l, r) \subseteq l
         /\ r # {} => Narrowed(l, r) # {} /\ Narrowed(l, r) \subseteq r
BY DEF Narrowed

(* A merge asks for all that either side asks for                             *)
LEMMA MergeCovers ==
  ASSUME NEW l, NEW r, IsDescriptor(l), IsDescriptor(r), Mergeable(l, r)
  PROVE  /\ IsDescriptor(Merge(l, r)) /\ WellFormed(Merge(l, r))
         /\ Covers(Merge(l, r), l) /\ Covers(Merge(l, r), r)
<1>1. PICK m : m = Merge(l, r)
  OBVIOUS
<1>2. WellFormed(m)
  BY <1>1 DEF Mergeable
<1>3. /\ m.needs = Combined(l.needs, r.needs, MergedNeed)
      /\ m.limits = Combined(l.limits, r.limits, TighterLimit)
      /\ m.alignments = Combined(l.alignments, r.alignments, FinerAlignment)
      /\ m.roles = l.roles \cup r.roles
      /\ m.backends = Narrowed(l.backends, r.backends)
      /\ m.classes = Narrowed(l.classes, r.classes)
      /\ m.strict = (l.strict \/ r.strict)
      /\ m.preference = Either(l.preference, r.preference, <<>>)
      /\ m.exact = Either(l.exact, r.exact, NoToken)
      /\ DOMAIN m = {"power", "strict", "fallback", "backends", "preference", "classes",
                     "portable", "exact", "needs", "limits", "roles", "alignments"}
  BY <1>1 DEF Merge
<1>4. /\ \A f \in DOMAIN m.needs : m.needs[f] \in Strength
      /\ DOMAIN m.needs = DOMAIN l.needs \cup DOMAIN r.needs
      /\ \A x \in {l, r} : \A f \in DOMAIN x.needs :
           x.needs[f] \in {"Required", "Disabled"} => m.needs[f] = x.needs[f]
  <2>1. \A f \in DOMAIN m.needs : m.needs[f] # "Conflict"
    BY <1>2 DEF WellFormed, DegradesTo
  <2>2. /\ DOMAIN m.needs = DOMAIN l.needs \cup DOMAIN r.needs
        /\ \A f \in DOMAIN m.needs : m.needs[f] =
             IF f \in DOMAIN l.needs \cap DOMAIN r.needs THEN MergedNeed(l.needs[f], r.needs[f])
             ELSE IF f \in DOMAIN l.needs THEN l.needs[f] ELSE r.needs[f]
    BY <1>3 DEF Combined, InBoth
  <2>3. \A x \in {l, r} : \A f \in DOMAIN x.needs : x.needs[f] \in Strength
    BY DEF IsDescriptor
  <2>4. ASSUME NEW f \in DOMAIN m.needs
        PROVE  /\ m.needs[f] \in Strength
               /\ \A x \in {l, r} : f \in DOMAIN x.needs /\ x.needs[f] \in {"Required", "Disabled"} =>
                    m.needs[f] = x.needs[f]
    BY <2>1, <2>2, <2>3, <2>4, MergedNeeds
  <2> QED BY <2>2, <2>4
<1>5. /\ DOMAIN m.limits \subseteq LimitKind
      /\ m.limits \in [DOMAIN m.limits -> [minimum : Nat, maximum : Nat]]
      /\ \A x \in {l, r} : \A k \in DOMAIN x.limits :
           k \in DOMAIN m.limits /\ m.limits[k].minimum >= x.limits[k].minimum
  <2>1. /\ DOMAIN m.limits = DOMAIN l.limits \cup DOMAIN r.limits
        /\ m.limits \in [DOMAIN m.limits -> {m.limits[k] : k \in DOMAIN m.limits}]
        /\ \A k \in DOMAIN m.limits : m.limits[k] =
             IF k \in DOMAIN l.limits \cap DOMAIN r.limits THEN TighterLimit(l.limits[k], r.limits[k])
             ELSE IF k \in DOMAIN l.limits THEN l.limits[k] ELSE r.limits[k]
    BY <1>3 DEF Combined, InBoth
  <2>2. \A x \in {l, r} : DOMAIN x.limits \subseteq LimitKind
          /\ \A k \in DOMAIN x.limits : x.limits[k] \in [minimum : Nat, maximum : Nat]
    BY DEF IsDescriptor
  <2>3. ASSUME NEW k \in DOMAIN m.limits
        PROVE  /\ m.limits[k] \in [minimum : Nat, maximum : Nat]
               /\ \A x \in {l, r} : k \in DOMAIN x.limits => m.limits[k].minimum >= x.limits[k].minimum
    BY <2>1, <2>2, <2>3, TighterLimits
  <2> QED BY <2>1, <2>2, <2>3
<1>6. /\ DOMAIN m.alignments \subseteq AlignmentKind
      /\ m.alignments \in [DOMAIN m.alignments -> Nat]
      /\ \A x \in {l, r} : \A k \in DOMAIN x.alignments :
           k \in DOMAIN m.alignments /\ m.alignments[k] <= x.alignments[k]
  <2>1. /\ DOMAIN m.alignments = DOMAIN l.alignments \cup DOMAIN r.alignments
        /\ m.alignments \in [DOMAIN m.alignments -> {m.alignments[k] : k \in DOMAIN m.alignments}]
        /\ \A k \in DOMAIN m.alignments : m.alignments[k] =
             IF k \in DOMAIN l.alignments \cap DOMAIN r.alignments
             THEN FinerAlignment(l.alignments[k], r.alignments[k])
             ELSE IF k \in DOMAIN l.alignments THEN l.alignments[k] ELSE r.alignments[k]
    BY <1>3 DEF Combined, InBoth
  <2>2. \A x \in {l, r} : DOMAIN x.alignments \subseteq AlignmentKind
          /\ \A k \in DOMAIN x.alignments : x.alignments[k] \in Nat
    BY DEF IsDescriptor
  <2>3. ASSUME NEW k \in DOMAIN m.alignments
        PROVE  /\ m.alignments[k] \in Nat
               /\ \A x \in {l, r} : k \in DOMAIN x.alignments => m.alignments[k] <= x.alignments[k]
    BY <2>1, <2>2, <2>3, FinerAlignments
  <2> QED BY <2>1, <2>2, <2>3
<1>7. \A x \in {l, r} :
        /\ x.backends # {} => m.backends # {} /\ m.backends \subseteq x.backends
        /\ x.classes # {} => m.classes # {} /\ m.classes \subseteq x.classes
  BY <1>3, NarrowedLists DEF Mergeable
<1>8. IsDescriptor(m)
  <2>1. m.needs \in [DOMAIN m.needs -> Strength]
    BY <1>3, <1>4 DEF Combined
  <2>2. IsFiniteSet(DOMAIN m.needs)
    <3>1. IsFiniteSet(DOMAIN l.needs) /\ IsFiniteSet(DOMAIN r.needs)
      BY DEF IsDescriptor
    <3>2. IsFiniteSet(DOMAIN l.needs \cup DOMAIN r.needs)
      BY <3>1, FS_Union
    <3> QED BY <1>4, <3>2
  <2>3. m.strict \in BOOLEAN /\ m.exact \in Nat /\ m.preference \in Seq(STRING)
    BY <1>3 DEF IsDescriptor, Either
  <2> QED BY <1>3, <1>5, <1>6, <2>1, <2>2, <2>3 DEF IsDescriptor
<1>9. \A x \in {l, r} : Covers(m, x)
  BY <1>3, <1>4, <1>5, <1>6, <1>7 DEF Covers
<1> QED BY <1>1, <1>2, <1>8, <1>9

(* What covers a merge covers what was merged                                 *)
LEMMA CoversOn ==
  ASSUME NEW r, NEW q, NEW d, IsDescriptor(r), IsDescriptor(q), IsDescriptor(d),
         Covers(r, q), Covers(q, d)
  PROVE  Covers(r, d)
<1>1. \A k \in DOMAIN d.limits : k \in DOMAIN r.limits /\ r.limits[k].minimum >= d.limits[k].minimum
  <2>1. SUFFICES ASSUME NEW k \in DOMAIN d.limits
                 PROVE  k \in DOMAIN r.limits /\ r.limits[k].minimum >= d.limits[k].minimum
    OBVIOUS
  <2>2. /\ k \in DOMAIN q.limits /\ q.limits[k].minimum >= d.limits[k].minimum
        /\ k \in DOMAIN r.limits /\ r.limits[k].minimum >= q.limits[k].minimum
    BY DEF Covers
  <2>3. {r.limits[k].minimum, q.limits[k].minimum, d.limits[k].minimum} \subseteq Nat
    <3>1. \A x \in [minimum : Nat, maximum : Nat] : x.minimum \in Nat
      OBVIOUS
    <3> QED BY <2>2, <3>1 DEF IsDescriptor
  <2> QED BY <2>2, <2>3
<1>2. \A k \in DOMAIN d.alignments : k \in DOMAIN r.alignments /\ r.alignments[k] <= d.alignments[k]
  BY DEF Covers, IsDescriptor
<1> QED BY <1>1, <1>2 DEF Covers

-----------------------------------------------------------------------------
(* Admission *)

IsFacts(facts) ==
  /\ facts.alignments \in [AlignmentKind -> Nat]
  /\ facts.class \in AdapterClass /\ facts.fallback \in {"Unknown", "Confirmed"}

(* A budget is a number no smaller than what is asked for                     *)
LEMMA BudgetSuffices ==
  ASSUME NEW d, IsDescriptor(d), WellFormed(d), NEW enabled, NEW k \in LimitKind
  PROVE  /\ Budget(d, enabled)[k] \in Nat
         /\ k \in DOMAIN d.limits => Budget(d, enabled)[k] >= d.limits[k].minimum
<1>1. BaselineOf(k, enabled) \in Nat
  BY BaselineAssumption DEF BaselineOf, LimitKind
<1>2. PICK limit : limit = At(d.limits, k, [minimum |-> 0, maximum |-> Unlimited])
  OBVIOUS
<1>3. /\ limit \in [minimum : Nat, maximum : Nat]
      /\ k \in DOMAIN d.limits => limit = d.limits[k]
  BY <1>2 DEF At, IsDescriptor, Unlimited
<1>4. k \in DOMAIN d.limits => limit.minimum <= limit.maximum
  BY <1>3 DEF WellFormed
<1>5. PICK needed : needed = Max({limit.minimum, BaselineOf(k, enabled)})
  OBVIOUS
<1>6. needed \in Nat /\ needed >= limit.minimum
  BY <1>1, <1>3, <1>5, SMT DEF Max
<1>7. Budget(d, enabled)[k] = Min({needed, limit.maximum})
  BY <1>2, <1>5 DEF Budget
<1>8. limit.minimum \in Nat /\ limit.maximum \in Nat
  BY <1>3
<1>9. /\ Min({needed, limit.maximum}) \in Nat
      /\ limit.minimum <= limit.maximum => Min({needed, limit.maximum}) >= limit.minimum
  BY <1>6, <1>8, SMT DEF Min
<1> QED BY <1>3, <1>4, <1>7, <1>9

(* What an author asked for is enabled, and the device has it                  *)
Kept(d, facts, device, enabled) ==
  /\ Needing(d, {"Required"}) \subseteq enabled
  /\ Needing(d, {"Disabled"}) \cap enabled = {}
  /\ \A f \in enabled : NativeOf(f) \subseteq device.features
  /\ \A r \in d.roles : r \in facts.roles /\ RoleFeature(r) \subseteq device.features
  /\ \A k \in DOMAIN d.limits : device.limits[k] >= d.limits[k].minimum
  /\ \A k \in DOMAIN d.alignments : device.alignments[k] <= d.alignments[k]
  /\ d.backends # {} => facts.backend \in d.backends
  /\ d.classes # {} => facts.class \in d.classes

(* What the backend created is a device                                       *)
LEMMA GrantedDevice ==
  ASSUME NEW d, NEW facts, NEW grant, IsDescriptor(d), WellFormed(d), IsFacts(facts)
  PROVE  /\ Granted(d, facts, grant).limits \in [LimitKind -> Nat]
         /\ Granted(d, facts, grant).alignments \in [AlignmentKind -> Nat]
<1>1. \A k \in LimitKind : Budget(d, Enabled(d, facts))[k] \in Nat
  BY BudgetSuffices
<1>2. \A k \in AlignmentKind : facts.alignments[k] \in Nat
  BY DEF IsFacts
<1>3. PICK device : device = Granted(d, facts, grant)
  OBVIOUS
<1>4. device.limits = [k \in LimitKind |-> IF grant = "lower limits" THEN 0
                                         ELSE Budget(d, Enabled(d, facts))[k]]
  BY <1>3 DEF Granted
<1>5. device.alignments =
        [k \in AlignmentKind |-> IF grant = "other alignment" /\ k = "DynamicOffset"
                                 THEN 2 * facts.alignments[k] ELSE facts.alignments[k]]
  BY <1>3 DEF Granted
<1>6. device.limits \in [LimitKind -> Nat]
  <2>1. \A k \in LimitKind : device.limits[k] \in {0, Budget(d, Enabled(d, facts))[k]}
    BY <1>4
  <2>2. \A k \in LimitKind : device.limits[k] \in Nat
    BY <1>1, <2>1
  <2>3. device.limits = [k \in LimitKind |-> device.limits[k]]
    BY <1>4
  <2> QED BY <2>2, <2>3
<1>7. device.alignments \in [AlignmentKind -> Nat]
  <2>1. \A k \in AlignmentKind :
          device.alignments[k] \in {2 * facts.alignments[k], facts.alignments[k]}
    BY <1>5
  <2>2. \A k \in AlignmentKind : device.alignments[k] \in Nat
    BY <1>2, <2>1
  <2>3. device.alignments = [k \in AlignmentKind |-> device.alignments[k]]
    BY <1>5
  <2> QED BY <2>2, <2>3
<1> QED BY <1>3, <1>6, <1>7

(* An admitted device of an admitted adapter keeps the request                  *)
LEMMA RequestKept ==
  ASSUME NEW d, NEW facts, NEW device, IsDescriptor(d), WellFormed(d), Admits(d, facts),
         device.limits \in [LimitKind -> Nat], device.alignments \in [AlignmentKind -> Nat],
         DeviceAdmitted(d, facts, device)
  PROVE  Kept(d, facts, device, Enabled(d, facts))
<1>1. /\ Needing(d, {"Required"}) \subseteq Enabled(d, facts)
      /\ Needing(d, {"Disabled"}) \cap Enabled(d, facts) = {}
      /\ \A r \in d.roles : r \in facts.roles
      /\ d.backends # {} => facts.backend \in d.backends
      /\ d.classes # {} => facts.class \in d.classes
  BY DEF Admits, CapabilitiesGranted
<1>2. RequestedFeatures(d, facts) \subseteq device.features
  BY DEF DeviceAdmitted
<1>3. /\ \A f \in Enabled(d, facts) : NativeOf(f) \subseteq device.features
      /\ \A r \in d.roles : RoleFeature(r) \subseteq device.features
  <2>1. \A f \in Enabled(d, facts) : NativeOf(f) \subseteq NativeFeatures(Enabled(d, facts))
    BY Zenon DEF NativeFeatures
  <2>2. \A r \in d.roles : RoleFeature(r) \subseteq RoleFeatures(d.roles)
    BY Zenon DEF RoleFeatures
  <2> QED BY <1>2, <2>1, <2>2 DEF RequestedFeatures
<1>4. ASSUME NEW k \in DOMAIN d.limits PROVE device.limits[k] >= d.limits[k].minimum
  <2>1. k \in LimitKind /\ d.limits[k].minimum \in Nat /\ device.limits[k] \in Nat
    BY <1>4 DEF IsDescriptor
  <2>2. Budget(d, Enabled(d, facts))[k] \in Nat
        /\ Budget(d, Enabled(d, facts))[k] >= d.limits[k].minimum
    BY <2>1, BudgetSuffices
  <2>3. PICK n : /\ n \in {0, device.limits[k]}
                 /\ n >= Budget(d, Enabled(d, facts))[k]
    BY <2>1 DEF DeviceAdmitted
  <2> QED BY <2>1, <2>2, <2>3
<1>5. \A k \in DOMAIN d.alignments : device.alignments[k] <= d.alignments[k]
  BY DEF DeviceAdmitted, IsDescriptor
<1> QED BY <1>1, <1>3, <1>4, <1>5 DEF Kept

(* and with it every demand it covers.                                        *)
LEMMA DemandKept ==
  ASSUME NEW r, NEW d, NEW facts, NEW device, IsDescriptor(r), IsDescriptor(d), Covers(r, d),
         device.limits \in [LimitKind -> Nat], device.alignments \in [AlignmentKind -> Nat],
         NEW enabled, Kept(r, facts, device, enabled)
  PROVE  Kept(d, facts, device, enabled)
<1>1. /\ Needing(d, {"Required"}) \subseteq Needing(r, {"Required"})
      /\ Needing(d, {"Disabled"}) \subseteq Needing(r, {"Disabled"})
  BY DEF Covers, Needing
<1>2. ASSUME NEW k \in DOMAIN d.limits PROVE device.limits[k] >= d.limits[k].minimum
  <2>1. k \in DOMAIN r.limits /\ r.limits[k].minimum >= d.limits[k].minimum
    BY <1>2 DEF Covers
  <2>2. r.limits[k].minimum \in Nat /\ d.limits[k].minimum \in Nat /\ device.limits[k] \in Nat
    <3>1. \A x \in [minimum : Nat, maximum : Nat] : x.minimum \in Nat
      OBVIOUS
    <3> QED BY <1>2, <2>1, <3>1 DEF IsDescriptor
  <2>3. device.limits[k] >= r.limits[k].minimum
    BY <2>1 DEF Kept
  <2> QED BY <2>1, <2>2, <2>3
<1>3. ASSUME NEW k \in DOMAIN d.alignments PROVE device.alignments[k] <= d.alignments[k]
  <2>1. k \in DOMAIN r.alignments /\ r.alignments[k] <= d.alignments[k]
    BY <1>3 DEF Covers
  <2>2. device.alignments[k] <= r.alignments[k]
    BY <2>1 DEF Kept
  <2>3. {r.alignments[k], d.alignments[k], device.alignments[k]} \subseteq Nat
    BY <1>3, <2>1 DEF IsDescriptor
  <2> QED BY <2>1, <2>2, <2>3
<1>4. /\ \A f \in d.roles : f \in facts.roles /\ RoleFeature(f) \subseteq device.features
      /\ d.backends # {} => facts.backend \in d.backends
      /\ d.classes # {} => facts.class \in d.classes
  BY DEF Kept, Covers
<1> QED BY <1>1, <1>2, <1>3, <1>4 DEF Kept

-----------------------------------------------------------------------------
(* Ranks *)

IsRank(x) == DOMAIN x = 1 .. 6 /\ \A i \in 1 .. 6 : x[i] \in Int

(* What is in a list has a place in it                                        *)
LEMMA IndexOfMember ==
  ASSUME NEW sequence, DOMAIN sequence \subseteq Int,
         NEW x, \E i \in DOMAIN sequence : sequence[i] = x
  PROVE  IndexIn(sequence, x) \in Int
<1>1. IndexIn(sequence, x) \in DOMAIN sequence
  BY Zenon DEF IndexIn
<1> QED BY <1>1

(* A candidate has a rank                                                    *)
LEMMA RankIsRank ==
  ASSUME NEW d, NEW facts, IsDescriptor(d), IsFacts(facts)
  PROVE  IsRank(Rank(d, facts))
<1>1. IndexIn(<<"ConfirmedNot", "Unknown", "Confirmed">>, facts.fallback) \in Int
  <2>1. PICK list : list = <<"ConfirmedNot", "Unknown", "Confirmed">>
    OBVIOUS
  <2>2. DOMAIN list \subseteq Int /\ list[2] = "Unknown" /\ list[3] = "Confirmed" /\ {2, 3} \subseteq DOMAIN list
    BY <2>1
  <2>3. \E i \in DOMAIN list : list[i] = facts.fallback
    BY <2>2 DEF IsFacts
  <2> QED BY <2>1, <2>2, <2>3, IndexOfMember
<1>2. IndexIn(<<"PortableBaseline", "DeclaredExtensions", "BackendSpecialized", "Unsupported">>,
              Portability(d, facts)) \in Int
  <2>1. PICK list :
          list = <<"PortableBaseline", "DeclaredExtensions", "BackendSpecialized", "Unsupported">>
    OBVIOUS
  <2>2. /\ DOMAIN list \subseteq Int /\ {1, 2, 3, 4} \subseteq DOMAIN list
        /\ list[1] = "PortableBaseline" /\ list[2] = "DeclaredExtensions"
        /\ list[3] = "BackendSpecialized" /\ list[4] = "Unsupported"
    BY <2>1
  <2>3. Portability(d, facts) \in {"PortableBaseline", "DeclaredExtensions", "BackendSpecialized", "Unsupported"}
    BY DEF Portability
  <2>4. \E i \in DOMAIN list : list[i] = Portability(d, facts)
    BY <2>2, <2>3
  <2> QED BY <2>1, <2>2, <2>4, IndexOfMember
<1>3. IndexIn(<<"Discrete", "Integrated", "Virtual", "Cpu", "Other", "UnknownClass">>,
              facts.class) \in Int
  <2>1. PICK list : list = <<"Discrete", "Integrated", "Virtual", "Cpu", "Other", "UnknownClass">>
    OBVIOUS
  <2>2. /\ DOMAIN list \subseteq Int /\ {1, 2, 3, 4, 5, 6} \subseteq DOMAIN list
        /\ list[1] = "Discrete" /\ list[2] = "Integrated" /\ list[3] = "Virtual"
        /\ list[4] = "Cpu" /\ list[5] = "Other" /\ list[6] = "UnknownClass"
    BY <2>1
  <2>3. facts.class \in AdapterClass
    BY DEF IsFacts
  <2>4. \E i \in DOMAIN list : list[i] = facts.class
    BY <2>2, <2>3 DEF AdapterClass
  <2> QED BY <2>1, <2>2, <2>4, IndexOfMember
<1>4. Cardinality(Degraded(d, facts)) \in Int
  <2>1. IsFiniteSet(DOMAIN d.needs) /\ Degraded(d, facts) \subseteq DOMAIN d.needs
    BY DEF IsDescriptor, Degraded, Preferred
  <2>2. IsFiniteSet(Degraded(d, facts))
    BY <2>1, FS_Subset
  <2> QED BY <2>2, FS_CardinalityType
<1>5. (IF facts.backend \in ToSet(d.preference) THEN IndexIn(d.preference, facts.backend) ELSE 255) \in Int
  <2>1. CASE facts.backend \notin ToSet(d.preference)
    BY <2>1
  <2>2. CASE facts.backend \in ToSet(d.preference)
    <3>1. \E i \in DOMAIN d.preference : d.preference[i] = facts.backend
      BY <2>2 DEF ToSet
    <3>2. DOMAIN d.preference \subseteq Int
      BY DEF IsDescriptor
    <3>3. IndexIn(d.preference, facts.backend) \in Int
      BY <3>1, <3>2, IndexOfMember
    <3> QED BY <2>2, <3>3
  <2> QED BY <2>1, <2>2
<1>6. /\ DOMAIN Rank(d, facts) = 1 .. 6
      /\ Rank(d, facts)[1] \in Int /\ Rank(d, facts)[2] \in Int /\ Rank(d, facts)[3] \in Int
      /\ Rank(d, facts)[4] \in Int /\ Rank(d, facts)[5] \in Int /\ Rank(d, facts)[6] \in Int
  BY <1>1, <1>2, <1>3, <1>4, <1>5 DEF Rank
<1>7. \A i \in 1 .. 6 : i \in {1, 2, 3, 4, 5, 6}
  OBVIOUS
<1> QED BY <1>6, <1>7 DEF IsRank

(* Being ahead is a strict order                                              *)
LEMMA AheadIsOrder ==
  ASSUME NEW x, NEW y, NEW z, IsRank(x), IsRank(y), IsRank(z)
  PROVE  ~ Ahead(x, x) /\ (Ahead(x, y) /\ Ahead(y, z) => Ahead(x, z))
<1>1. ~ Ahead(x, x)
  BY DEF Ahead, IsRank
<1>2. ASSUME Ahead(x, y), Ahead(y, z) PROVE Ahead(x, z)
  <2>1. PICK i \in 1 .. 6 : x[i] < y[i] /\ \A j \in 1 .. i - 1 : x[j] = y[j]
    BY <1>2 DEF Ahead, IsRank
  <2>2. PICK k \in 1 .. 6 : y[k] < z[k] /\ \A j \in 1 .. k - 1 : y[j] = z[j]
    BY <1>2 DEF Ahead, IsRank
  <2>3. PICK m \in 1 .. 6 : m \in {i, k} /\ m <= i /\ m <= k
    OBVIOUS
  <2>4. x[m] < z[m]
    BY <2>1, <2>2, <2>3 DEF IsRank
  <2>5. \A j \in 1 .. m - 1 : x[j] = z[j]
    BY <2>1, <2>2, <2>3
  <2> QED BY <2>4, <2>5 DEF Ahead, IsRank
<1> QED BY <1>1, <1>2

(* so that among finitely many somebody is first.                             *)
LEMMA SomebodyIsFirst ==
  ASSUME NEW S, IsFiniteSet(S), S # {}, NEW rank, \A t \in S : IsRank(rank[t])
  PROVE  \E t \in S : \A u \in S : ~ Ahead(rank[u], rank[t])
<1>1. PICK P : P = {T \in SUBSET S : T # {} => \E t \in T : \A u \in T : ~ Ahead(rank[u], rank[t])}
  OBVIOUS
<1>2. ASSUME NEW T \in SUBSET S, \A U \in SUBSET T : U # T => U \in P
      PROVE  T \in P
  <2>1. SUFFICES ASSUME T # {} PROVE \E t \in T : \A u \in T : ~ Ahead(rank[u], rank[t])
    BY <1>1
  <2>2. PICK x \in T : TRUE
    BY <2>1
  <2>3. T \ {x} \in P
    BY <1>2, <2>2
  <2>4. CASE T \ {x} = {}
    BY <2>2, <2>4, AheadIsOrder
  <2>5. CASE T \ {x} # {}
    <3>1. PICK t \in T \ {x} : \A u \in T \ {x} : ~ Ahead(rank[u], rank[t])
      BY <1>1, <2>3, <2>5
    <3>2. CASE Ahead(rank[x], rank[t])
      <4>1. \A u \in T : ~ Ahead(rank[u], rank[x])
        BY <2>2, <3>1, <3>2, AheadIsOrder
      <4> QED BY <2>2, <4>1
    <3>3. CASE ~ Ahead(rank[x], rank[t])
      BY <3>1, <3>3
    <3> QED BY <3>2, <3>3
  <2> QED BY <2>4, <2>5
<1>3. S \in P
  BY <1>2, FiniteInduction
<1> QED BY <1>1, <1>3

-----------------------------------------------------------------------------
(* Selection *)

(* t is a candidate nobody is ahead of, alone there if the request is strict  *)
IsBest(d, seen, t) ==
  /\ \A u \in DOMAIN seen :
       Admits(d, seen[u]) => ~ Ahead(Rank(d, seen[u]), Rank(d, seen[t]))
  /\ d.strict => \A u \in DOMAIN seen :
       Admits(d, seen[u]) /\ Rank(d, seen[u]) = Rank(d, seen[t]) => u = t

(* Who is chosen is admitted, and best unless a token named it; without a      *)
(* choice for want of adapters nobody is admitted                             *)
LEMMA SelectChooses ==
  ASSUME NEW d, IsDescriptor(d), NEW seen, IsFiniteSet(DOMAIN seen),
         \A t \in DOMAIN seen : IsFacts(seen[t])
  PROVE  /\ Select(d, seen).status = "selected" =>
              \E t \in DOMAIN seen :
                /\ Select(d, seen).facts = seen[t] /\ Admits(d, seen[t])
                /\ Select(d, seen).retries = retries
                /\ IF d.exact = NoToken THEN IsBest(d, seen, t) ELSE RetryBound(d, seen)
         /\ TriesNextTier(Select(d, seen).status) =>
              d.exact = NoToken /\ \A t \in DOMAIN seen : ~ Admits(d, seen[t])
         /\ Select(d, seen).status # "context"
<1>1. PICK admitted : admitted = {t \in DOMAIN seen : Admits(d, seen[t])}
  OBVIOUS
<1>2. PICK best : best = {t \in admitted : ~ \E u \in admitted : Ahead(Rank(d, seen[u]), Rank(d, seen[t]))}
  OBVIOUS
<1>3. PICK matching : matching = {t \in admitted : seen[t] = retries[d.exact].target}
  OBVIOUS
<1>4. PICK result : result = Select(d, seen)
  OBVIOUS
<1>5. CASE d.exact # NoToken
  <2>1. CASE ~ RetryBound(d, seen)
    <3>1. result = Refused("StaleToken")
      BY <1>4, <1>5, <2>1 DEF Select
    <3> QED BY <1>4, <3>1 DEF Refused, TriesNextTier
  <2>2. CASE RetryBound(d, seen)
    <3>1. result = IF matching = {} THEN Refused("StaleToken")
                   ELSE IF Cardinality(matching) > 1 THEN Refused("Ambiguous")
                   ELSE Chosen(retries[d.exact].target)
      BY <1>1, <1>3, <1>4, <1>5, <2>2 DEF Select
    <3>2. ~ TriesNextTier(result.status) /\ result.status # "context"
      BY <3>1 DEF Refused, Chosen, TriesNextTier
    <3>3. ASSUME result.status = "selected"
          PROVE  /\ matching # {} /\ result.facts = retries[d.exact].target
                 /\ result.retries = retries
      BY <3>1, <3>3 DEF Refused, Chosen
    <3> QED BY <1>1, <1>3, <1>4, <1>5, <2>2, <3>2, <3>3
  <2> QED BY <2>1, <2>2
<1>6. CASE d.exact = NoToken
  <2>1. result = IF DOMAIN seen = {} THEN Refused("NoAdapter")
                 ELSE IF admitted = {} THEN Refused("NoAdmissible")
                 ELSE IF Cardinality(best) > 1 /\ d.strict
                 THEN IF Cardinality(admitted) > RetryCapacity THEN Refused("TokensExhausted")
                      ELSE [Refused("Ambiguous") EXCEPT !.retries = Disclosed(d, seen, admitted)]
                 ELSE Chosen(CHOOSE f \in {seen[t] : t \in best} : TRUE)
    BY <1>1, <1>2, <1>4, <1>6 DEF Select
  <2>2. (TriesNextTier(result.status) => admitted = {}) /\ result.status # "context"
    BY <1>1, <2>1 DEF Refused, Chosen, TriesNextTier
  <2>3. ASSUME result.status = "selected"
        PROVE  /\ admitted # {} /\ ~ (Cardinality(best) > 1 /\ d.strict)
               /\ result.facts = CHOOSE f \in {seen[t] : t \in best} : TRUE
               /\ result.retries = retries
    BY <2>1, <2>3 DEF Refused, Chosen
  <2>4. IsFiniteSet(admitted) /\ IsFiniteSet(best)
    BY <1>1, <1>2, FS_Subset
  <2>5. ASSUME admitted # {} PROVE best # {}
    <3>1. PICK rank : rank = [t \in admitted |-> Rank(d, seen[t])]
      OBVIOUS
    <3>2. \A t \in admitted : rank[t] = Rank(d, seen[t]) /\ IsRank(rank[t])
      BY <1>1, <3>1, RankIsRank
    <3>3. \E t \in admitted : \A u \in admitted : ~ Ahead(rank[u], rank[t])
      BY <2>4, <2>5, <3>2, SomebodyIsFirst
    <3> QED BY <1>2, <3>2, <3>3
  <2>6. ASSUME result.status = "selected"
        PROVE  \E t \in DOMAIN seen : /\ result.facts = seen[t] /\ Admits(d, seen[t])
                                      /\ result.retries = retries /\ IsBest(d, seen, t)
    <3>1. best # {}
      BY <2>3, <2>5, <2>6
    <3>2. PICK t \in best : result.facts = seen[t]
      <4>1. PICK all : all = {seen[t] : t \in best}
        OBVIOUS
      <4>2. result.facts \in all
        BY <2>3, <2>6, <3>1, <4>1
      <4> QED BY <4>1, <4>2
    <3>3. t \in DOMAIN seen /\ Admits(d, seen[t])
      BY <1>1, <1>2
    <3>4. \A u \in DOMAIN seen : Admits(d, seen[u]) => ~ Ahead(Rank(d, seen[u]), Rank(d, seen[t]))
      BY <1>1, <1>2
    <3>5. ASSUME d.strict, NEW u \in DOMAIN seen, Admits(d, seen[u]),
                 Rank(d, seen[u]) = Rank(d, seen[t])
          PROVE  u = t
      <4>1. u \in best
        BY <1>1, <1>2, <3>4, <3>5
      <4>2. ~ (Cardinality(best) > 1)
        BY <2>3, <2>6, <3>5
      <4>3. u # t => Cardinality({u, t}) = 2
        <5>1. IsFiniteSet({t}) /\ Cardinality({t}) = 1 /\ {u, t} = {t} \cup {u}
          BY FS_Singleton
        <5>2. u # t => Cardinality({t} \cup {u}) = Cardinality({t}) + 1
          BY <5>1, FS_AddElement
        <5> QED BY <5>1, <5>2
      <4>4. Cardinality({u, t}) <= Cardinality(best) /\ Cardinality(best) \in Nat
        BY <2>4, <4>1, FS_Subset, FS_CardinalityType
      <4> QED BY <4>2, <4>3, <4>4
    <3>6. result.retries = retries
      BY <2>3, <2>6
    <3> QED BY <3>2, <3>3, <3>4, <3>5, <3>6 DEF IsBest
  <2> QED BY <1>1, <1>4, <1>6, <2>2, <2>6
<1> QED BY <1>5, <1>6

-----------------------------------------------------------------------------
(* Tiers *)

(* The elements of a finite set, listed                                       *)
LEMMA Listing ==
  ASSUME NEW S, IsFiniteSet(S)
  PROVE  /\ SetToSeq(S) \in [1 .. Cardinality(S) -> S]
         /\ \A x \in S : \E i \in 1 .. Cardinality(S) : SetToSeq(S)[i] = x
<1>1. Cardinality(S) \in Nat /\ ExistsBijection(1 .. Cardinality(S), S)
  BY FS_CardinalityType
<1>2. PICK I : I = 1 .. Cardinality(S)
  OBVIOUS
<1>3. \E f \in [I -> S] : IsInjective(f)
  BY <1>1, <1>2 DEF ExistsBijection, Bijection, Injection
<1>4. SetToSeq(S) \in [I -> S] /\ IsInjective(SetToSeq(S))
  BY <1>2, <1>3, Zenon DEF SetToSeq
<1>5. SetToSeq(S) \in Injection(I, S)
  BY <1>4 DEF Injection
<1>6. Cardinality(I) = Cardinality(S)
  BY <1>1, <1>2, FS_Interval
<1>7. SetToSeq(S) \in Surjection(I, S)
  BY <1>5, <1>6, FS_Injection
<1> QED BY <1>2, <1>4, <1>7 DEF Surjection

(* What a host offers is of the backends asked                                *)
LEMMA OfferedAre ==
  ASSUME NEW d, NEW machine \in Machine, NEW backends
  PROVE  /\ Offered(d, machine, backends) \subseteq machine.adapters
         /\ IsFiniteSet(Offered(d, machine, backends))
         /\ \A a \in Offered(d, machine, backends) : a.backend \in backends
<1>1. PICK enumerated : enumerated = {a \in machine.adapters : a.backend \in backends}
  OBVIOUS
<1>2. PICK software :
        software = {a \in enumerated : a.class = "Cpu" /\ (machine.window => a.presents)}
  OBVIOUS
<1>3. Offered(d, machine, backends) =
        IF d.fallback # "Require" THEN enumerated
        ELSE IF software = {} THEN {} ELSE {CHOOSE a \in software : TRUE}
  BY <1>1, <1>2, Zenon DEF Offered
<1>4. software # {} => (CHOOSE a \in software : TRUE) \in software
  OBVIOUS
<1>5. Offered(d, machine, backends) \subseteq enumerated
  BY <1>2, <1>3, <1>4
<1>6. IsFiniteSet(machine.adapters)
  BY MachineAssumption
<1> QED BY <1>1, <1>5, <1>6, FS_Subset

(* The facts of an adapter                                                   *)
LEMMA FactsAreFacts ==
  ASSUME NEW d, NEW machine \in Machine, NEW a \in machine.adapters
  PROVE  /\ IsFacts(ObservedFacts(d, machine, a))
         /\ ObservedFacts(d, machine, a).backend = a.backend
<1>1. a.alignment \in Nat /\ a.class \in AdapterClass /\ CopyOffset \in Nat
  BY MachineAssumption, BaselineAssumption
<1>2. PICK facts : facts = ObservedFacts(d, machine, a)
  OBVIOUS
<1>3. /\ facts.backend = a.backend /\ facts.class = a.class
      /\ facts.fallback = IF d.fallback = "Require" THEN "Confirmed" ELSE "Unknown"
      /\ facts.alignments = [k \in AlignmentKind |-> IF k = "CopyOffset" THEN CopyOffset ELSE a.alignment]
  BY <1>2 DEF ObservedFacts, FactsOf
<1>4. facts.alignments \in [AlignmentKind -> Nat]
  BY <1>1, <1>3
<1> QED BY <1>1, <1>2, <1>3, <1>4 DEF IsFacts

(* Each adapter offered is seen, under a token of its own                      *)
LEMMA SeenAre ==
  ASSUME NEW d, NEW machine \in Machine, NEW adapters \in SUBSET machine.adapters, NEW last \in Nat
  PROVE  /\ IsFiniteSet(DOMAIN Seen(d, machine, adapters, last))
         /\ \E who \in [DOMAIN Seen(d, machine, adapters, last) -> adapters] :
              /\ \A t \in DOMAIN Seen(d, machine, adapters, last) :
                   Seen(d, machine, adapters, last)[t] = ObservedFacts(d, machine, who[t])
              /\ \A a \in adapters :
                   \E t \in DOMAIN Seen(d, machine, adapters, last) : who[t] = a
<1>1. IsFiniteSet(adapters)
  BY MachineAssumption, FS_Subset
<1>2. PICK listed : listed = SetToSeq(adapters)
  OBVIOUS
<1>3. PICK n \in Nat : n = Cardinality(adapters)
  BY <1>1, FS_CardinalityType
<1>4. /\ listed \in [1 .. n -> adapters]
      /\ \A a \in adapters : \E i \in 1 .. n : listed[i] = a
  BY <1>1, <1>2, <1>3, Listing
<1>5. PICK T : T = {last + i : i \in 1 .. n}
  OBVIOUS
<1>6. Seen(d, machine, adapters, last) = [t \in T |-> ObservedFacts(d, machine, listed[t - last])]
  BY <1>2, <1>4, <1>5, Zenon DEF Seen
<1>7. T = (last + 1) .. (last + n)
  <2>1. \A i \in 1 .. n : last + i \in (last + 1) .. (last + n)
    OBVIOUS
  <2>2. ASSUME NEW t \in (last + 1) .. (last + n) PROVE t \in T
    <3>1. t - last \in 1 .. n /\ t = last + (t - last)
      OBVIOUS
    <3> QED BY <1>5, <3>1
  <2> QED BY <1>5, <2>1, <2>2
<1>8. IsFiniteSet(T)
  <2>1. last + 1 \in Int /\ last + n \in Int
    OBVIOUS
  <2>2. IsFiniteSet((last + 1) .. (last + n))
    BY <2>1, FS_Interval
  <2> QED BY <1>7, <2>2
<1>9. PICK who : who = [t \in T |-> listed[t - last]]
  OBVIOUS
<1>10. \A t \in T : t - last \in 1 .. n
  BY <1>3, <1>7
<1>11. who \in [T -> adapters] /\ \A t \in T : who[t] = listed[t - last]
  BY <1>4, <1>9, <1>10
<1>12. ASSUME NEW a \in adapters PROVE \E t \in T : who[t] = a
  <2>1. PICK i \in 1 .. n : listed[i] = a
    BY <1>4
  <2>2. last + i \in T /\ (last + i) - last = i
    BY <1>3, <1>7, <2>1
  <2> QED BY <1>11, <2>1, <2>2
<1>13. DOMAIN Seen(d, machine, adapters, last) = T
       /\ \A t \in T : Seen(d, machine, adapters, last)[t] = ObservedFacts(d, machine, who[t])
  BY <1>6, <1>11
<1> QED BY <1>8, <1>11, <1>12, <1>13

(* The admitted of a tier, and what makes one of them the choice               *)
AdmittedOf(d, machine, backends) ==
  {a \in Offered(d, machine, backends) : Admits(d, ObservedFacts(d, machine, a))}

RankOf(d, machine, a) == Rank(d, ObservedFacts(d, machine, a))

IsChoice(d, machine, backends, a) ==
  /\ a \in AdmittedOf(d, machine, backends)
  /\ d.exact = NoToken =>
       /\ \A b \in AdmittedOf(d, machine, backends) :
            ~ Ahead(RankOf(d, machine, b), RankOf(d, machine, a))
       /\ d.strict => \A b \in AdmittedOf(d, machine, backends) :
                        RankOf(d, machine, b) = RankOf(d, machine, a) => b = a
  /\ d.exact # NoToken => retries[d.exact].request = RetryIdentity(d)

(* A tier chooses so, and leaves the next its turn only if it admits nobody     *)
LEMMA TierChooses ==
  ASSUME NEW d, IsDescriptor(d), NEW machine \in Machine, NEW backends, NEW last \in Nat
  PROVE  /\ TierSelection(d, machine, backends, last).found.status = "selected" =>
              \E a \in machine.adapters :
                /\ IsChoice(d, machine, backends, a)
                /\ TierSelection(d, machine, backends, last).found.facts = ObservedFacts(d, machine, a)
                /\ TierSelection(d, machine, backends, last).found.retries = retries
         /\ TriesNextTier(TierSelection(d, machine, backends, last).found.status) =>
              AdmittedOf(d, machine, backends) = {}
         /\ TierSelection(d, machine, backends, last).found.status # "context"
         /\ TierSelection(d, machine, backends, last).tokens \in Nat
<1>1. PICK adapters : adapters = Offered(d, machine, backends)
  OBVIOUS
<1>2. adapters \in SUBSET machine.adapters /\ IsFiniteSet(adapters)
  BY <1>1, OfferedAre
<1>3. PICK seen : seen = Seen(d, machine, adapters, last)
  OBVIOUS
<1>4. PICK who \in [DOMAIN seen -> adapters] :
        /\ \A t \in DOMAIN seen : seen[t] = ObservedFacts(d, machine, who[t])
        /\ \A a \in adapters : \E t \in DOMAIN seen : who[t] = a
  BY <1>2, <1>3, SeenAre
<1>5. IsFiniteSet(DOMAIN seen) /\ \A t \in DOMAIN seen : IsFacts(seen[t])
  BY <1>2, <1>3, <1>4, SeenAre, FactsAreFacts
<1>6. PICK tier : tier = TierSelection(d, machine, backends, last)
  OBVIOUS
<1>7. /\ tier.found = IF d.fallback = "Require" /\ adapters = {} THEN Refused("NoAdapter")
                      ELSE Select(d, seen)
      /\ tier.tokens = last + Cardinality(adapters)
  BY <1>1, <1>3, <1>6, Zenon DEF TierSelection
<1>8. tier.tokens \in Nat
  BY <1>2, <1>7, FS_CardinalityType
<1>9. AdmittedOf(d, machine, backends) = {a \in adapters : Admits(d, ObservedFacts(d, machine, a))}
  BY <1>1 DEF AdmittedOf
<1>10. CASE d.fallback = "Require" /\ adapters = {}
  <2>1. tier.found.status = "NoAdapter"
    BY <1>7, <1>10 DEF Refused
  <2>2. AdmittedOf(d, machine, backends) = {}
    BY <1>9, <1>10
  <2> QED BY <1>6, <1>8, <2>1, <2>2
<1>11. CASE ~ (d.fallback = "Require" /\ adapters = {})
  <2>1. tier.found = Select(d, seen)
    BY <1>7, <1>11
  <2>2. ASSUME TriesNextTier(tier.found.status) PROVE AdmittedOf(d, machine, backends) = {}
    <3>1. \A t \in DOMAIN seen : ~ Admits(d, seen[t])
      BY <1>5, <2>1, <2>2, SelectChooses
    <3> QED BY <1>4, <1>9, <3>1
  <2>3. ASSUME tier.found.status = "selected"
        PROVE  \E a \in machine.adapters : /\ IsChoice(d, machine, backends, a)
                                           /\ tier.found.facts = ObservedFacts(d, machine, a)
                                           /\ tier.found.retries = retries
    <3>1. PICK t \in DOMAIN seen :
            /\ tier.found.facts = seen[t] /\ Admits(d, seen[t])
            /\ tier.found.retries = retries
            /\ IF d.exact = NoToken THEN IsBest(d, seen, t) ELSE RetryBound(d, seen)
      BY <1>5, <2>1, <2>3, SelectChooses
    <3>2. PICK a \in adapters : a = who[t]
      BY <1>4
    <3>3. tier.found.facts = ObservedFacts(d, machine, a) /\ a \in AdmittedOf(d, machine, backends)
      BY <1>4, <1>9, <3>1, <3>2
    <3>4. ASSUME d.exact = NoToken, NEW b \in AdmittedOf(d, machine, backends)
          PROVE  /\ ~ Ahead(RankOf(d, machine, b), RankOf(d, machine, a))
                 /\ d.strict /\ RankOf(d, machine, b) = RankOf(d, machine, a) => b = a
      <4>1. PICK u \in DOMAIN seen : who[u] = b
        BY <1>4, <1>9
      <4>2. /\ Rank(d, seen[u]) = RankOf(d, machine, b) /\ Admits(d, seen[u])
            /\ Rank(d, seen[t]) = RankOf(d, machine, a)
        BY <1>4, <1>9, <3>2, <4>1 DEF RankOf
      <4>3. IsBest(d, seen, t)
        BY <3>1, <3>4
      <4> QED BY <3>2, <4>1, <4>2, <4>3 DEF IsBest
    <3>5. d.exact # NoToken => retries[d.exact].request = RetryIdentity(d)
      BY <3>1 DEF RetryBound
    <3>6. IsChoice(d, machine, backends, a)
      BY <3>3, <3>4, <3>5 DEF IsChoice
    <3> QED BY <1>2, <3>1, <3>3, <3>6
  <2>4. tier.found.status # "context"
    BY <1>5, <2>1, SelectChooses
  <2> QED BY <1>6, <1>8, <2>2, <2>3, <2>4
<1> QED BY <1>10, <1>11

(* Tiers have no backend in common                                            *)
LEMMA TiersApart ==
  ASSUME NEW d, NEW operator
  PROVE  /\ DOMAIN Plan(d, operator) \in {1 .. 1, 1 .. 2}
         /\ Len(Plan(d, operator)) = 2 <=> 2 \in DOMAIN Plan(d, operator)
         /\ \A i, j \in DOMAIN Plan(d, operator) :
              Plan(d, operator)[i] \cap Plan(d, operator)[j] # {} => i = j
<1>1. PICK effective :
        effective = {b \in Native : /\ operator # {} => b \in operator
                                    /\ d.backends # {} => b \in d.backends}
  OBVIOUS
<1>2. PICK tiers : tiers = Plan(d, operator)
  OBVIOUS
<1>3. tiers = <<effective>> \/ tiers = <<effective \cap Primary, effective \ Primary>>
  BY <1>1, <1>2, Zenon DEF Plan
<1>4. CASE tiers = <<effective>>
  BY <1>2, <1>4
<1>5. CASE tiers = <<effective \cap Primary, effective \ Primary>>
  BY <1>2, <1>5
<1> QED BY <1>3, <1>4, <1>5

(* a is the choice of tier i, in the tiers before it nobody is admitted         *)
InTier(d, machine, i, a) ==
  /\ i \in DOMAIN Plan(d, machine.operator) /\ a \in machine.adapters
  /\ IsChoice(d, machine, Plan(d, machine.operator)[i], a)
  /\ \A j \in 1 .. i - 1 : AdmittedOf(d, machine, Plan(d, machine.operator)[j]) = {}

(* Who is selected is the choice of its tier                                   *)
LEMMA SelectionChooses ==
  ASSUME NEW d, IsDescriptor(d), NEW machine \in Machine, tokens \in Nat
  PROVE  /\ Selection(d, machine).found.status = "selected" =>
              \E i, a : /\ InTier(d, machine, i, a)
                        /\ Selection(d, machine).found.facts = ObservedFacts(d, machine, a)
                        /\ Selection(d, machine).found.retries = retries
         /\ Selection(d, machine).found.status # "context"
         /\ Selection(d, machine).tokens \in Nat
<1>1. PICK tiers : tiers = Plan(d, machine.operator)
  OBVIOUS
<1>2. PICK first : first = TierSelection(d, machine, tiers[1], tokens)
  OBVIOUS
<1>3. PICK result : result = Selection(d, machine)
  OBVIOUS
<1>4. /\ result = IF tiers[1] = {} THEN [found |-> Refused("NoAdapter"), tokens |-> tokens]
                  ELSE IF Len(tiers) = 2 /\ TriesNextTier(first.found.status)
                  THEN TierSelection(d, machine, tiers[2], first.tokens)
                  ELSE first
  BY <1>1, <1>2, <1>3, Zenon DEF Selection
<1>5. /\ 1 \in DOMAIN tiers
      /\ Len(tiers) = 2 <=> 2 \in DOMAIN tiers
      /\ DOMAIN tiers \subseteq Nat
  BY <1>1, TiersApart
<1>6. /\ first.tokens \in Nat /\ first.found.status # "context"
      /\ TriesNextTier(first.found.status) => AdmittedOf(d, machine, tiers[1]) = {}
      /\ first.found.status = "selected" =>
           \E a \in machine.adapters : /\ IsChoice(d, machine, tiers[1], a)
                                       /\ first.found.facts = ObservedFacts(d, machine, a)
                                       /\ first.found.retries = retries
  BY <1>2, TierChooses
<1>7. CASE tiers[1] = {}
  <2>1. result.found.status = "NoAdapter" /\ result.tokens = tokens
    BY <1>4, <1>7 DEF Refused
  <2> QED BY <1>3, <2>1
<1>8. CASE tiers[1] # {} /\ Len(tiers) = 2 /\ TriesNextTier(first.found.status)
  <2>1. result = TierSelection(d, machine, tiers[2], first.tokens)
    BY <1>4, <1>8
  <2>2. /\ result.tokens \in Nat /\ result.found.status # "context"
        /\ result.found.status = "selected" =>
             \E a \in machine.adapters : /\ IsChoice(d, machine, tiers[2], a)
                                         /\ result.found.facts = ObservedFacts(d, machine, a)
                                         /\ result.found.retries = retries
    BY <1>6, <2>1, TierChooses
  <2>3. \A j \in 1 .. 2 - 1 : AdmittedOf(d, machine, tiers[j]) = {}
    BY <1>6, <1>8
  <2>4. 2 \in DOMAIN tiers
    BY <1>5, <1>8
  <2>5. ASSUME result.found.status = "selected"
        PROVE  \E i, a : /\ InTier(d, machine, i, a)
                         /\ result.found.facts = ObservedFacts(d, machine, a)
                         /\ result.found.retries = retries
    <3>1. PICK a \in machine.adapters : /\ IsChoice(d, machine, tiers[2], a)
                                        /\ result.found.facts = ObservedFacts(d, machine, a)
                                        /\ result.found.retries = retries
      BY <2>2, <2>5
    <3>2. InTier(d, machine, 2, a)
      BY <1>1, <2>3, <2>4, <3>1 DEF InTier
    <3> QED BY <3>1, <3>2
  <2> QED BY <1>3, <2>2, <2>5
<1>9. CASE tiers[1] # {} /\ ~ (Len(tiers) = 2 /\ TriesNextTier(first.found.status))
  <2>1. result = first
    BY <1>4, <1>9
  <2>2. \A j \in 1 .. 1 - 1 : AdmittedOf(d, machine, tiers[j]) = {}
    OBVIOUS
  <2>3. ASSUME result.found.status = "selected"
        PROVE  \E i, a : /\ InTier(d, machine, i, a)
                         /\ result.found.facts = ObservedFacts(d, machine, a)
                         /\ result.found.retries = retries
    <3>1. PICK a \in machine.adapters : /\ IsChoice(d, machine, tiers[1], a)
                                        /\ result.found.facts = ObservedFacts(d, machine, a)
                                        /\ result.found.retries = retries
      BY <1>6, <2>1, <2>3
    <3>2. 1 \in DOMAIN Plan(d, machine.operator)
      BY <1>1, <1>5
    <3>3. IsChoice(d, machine, Plan(d, machine.operator)[1], a)
      BY <1>1, <3>1
    <3>4. \A j \in 1 .. 1 - 1 : AdmittedOf(d, machine, Plan(d, machine.operator)[j]) = {}
      BY <2>2
    <3>5. InTier(d, machine, 1, a)
      BY <3>2, <3>3, <3>4 DEF InTier
    <3> QED BY <3>1, <3>5
  <2>4. result.tokens \in Nat /\ result.found.status # "context"
    BY <1>6, <2>1
  <2> QED BY <1>3, <2>3, <2>4
<1> QED BY <1>7, <1>8, <1>9

-----------------------------------------------------------------------------
(* The inductive invariant *)

(* The request asks for all that was merged                                    *)
Requesting ==
  /\ IsDescriptor(request) /\ WellFormed(request)
  /\ tokens \in Nat
  /\ demands \in Seq(Demand)
  /\ \A i \in DOMAIN demands : Covers(request, demands[i])

(* A chosen adapter is the choice of its tier on the machine asked              *)
Choosing ==
  /\ DOMAIN outcome = {"status", "machine", "facts", "device", "enabled"}
  /\ outcome.status \in {"selected", "context"} =>
       /\ outcome.machine \in Machine
       /\ \E i, a : InTier(request, outcome.machine, i, a)
                    /\ outcome.facts = ObservedFacts(request, outcome.machine, a)

(* and a context has a device that keeps the request.                          *)
Keeping ==
  outcome.status = "context" =>
    /\ outcome.device.limits \in [LimitKind -> Nat]
    /\ outcome.device.alignments \in [AlignmentKind -> Nat]
    /\ Kept(request, outcome.facts, outcome.device, outcome.enabled)

IInv == Requesting /\ Choosing /\ Keeping

(* Nothing is chosen unless the status says so                                *)
LEMMA NothingChosen ==
  ASSUME NEW status, NEW machine, NEW facts, status \notin {"selected", "context"},
         outcome' = Outcome(status, machine, facts)
  PROVE  (Choosing /\ Keeping)'
BY DEF Outcome, Choosing, Keeping

(* Another author's demand is merged                                          *)
LEMMA MergeStep ==
  ASSUME IInv, NEW d \in Demand, MergeDemand(d)
  PROVE  IInv'
<1>1. /\ Mergeable(request, d) /\ request' = Merge(request, d)
      /\ demands' = Append(demands, d) /\ tokens' = tokens /\ outcome' = outcome
      /\ outcome.status = "none"
  BY DEF MergeDemand
<1>2. IsDescriptor(d) /\ IsDescriptor(request)
  BY DemandAssumption DEF IInv, Requesting
<1>3. /\ IsDescriptor(request') /\ WellFormed(request')
      /\ Covers(request', request) /\ Covers(request', d)
  BY <1>1, <1>2, MergeCovers
<1>4. demands' \in Seq(Demand)
  BY <1>1 DEF IInv, Requesting
<1>5. ASSUME NEW i \in DOMAIN demands' PROVE Covers(request', demands'[i])
  <2>1. demands \in Seq(Demand)
    BY DEF IInv, Requesting
  <2>2. CASE i \in DOMAIN demands
    <3>1. demands'[i] = demands[i] /\ demands[i] \in Demand
      BY <1>1, <2>1, <2>2
    <3>2. Covers(request, demands[i]) /\ IsDescriptor(demands[i])
      BY <2>2, <3>1, DemandAssumption DEF IInv, Requesting
    <3> QED BY <1>2, <1>3, <3>1, <3>2, CoversOn
  <2>3. CASE i \notin DOMAIN demands
    <3>1. demands'[i] = d
      BY <1>1, <1>5, <2>1, <2>3
    <3> QED BY <1>3, <3>1
  <2> QED BY <2>2, <2>3
<1>6. Requesting'
  BY <1>1, <1>3, <1>4, <1>5 DEF IInv, Requesting
<1>7. (Choosing /\ Keeping)'
  BY <1>1 DEF IInv, Choosing, Keeping
<1> QED BY <1>6, <1>7 DEF IInv

(* An adapter is selected, or the request refused                              *)
LEMMA SelectStep ==
  ASSUME IInv, NEW machine \in Machine, SelectAdapter(machine)
  PROVE  IInv'
<1>1. PICK result : result = Selection(request, machine)
  OBVIOUS
<1>2. /\ outcome' = Outcome(result.found.status, machine, result.found.facts)
      /\ tokens' = result.tokens /\ request' = request /\ demands' = demands
      /\ retries' = result.found.retries
  BY <1>1 DEF SelectAdapter
<1>3. IsDescriptor(request) /\ tokens \in Nat
  BY DEF IInv, Requesting
<1>4. result.tokens \in Nat /\ result.found.status # "context"
  BY <1>1, <1>3, SelectionChooses
<1>5. Requesting'
  BY <1>2, <1>4 DEF IInv, Requesting
<1>6. CASE result.found.status \notin {"selected", "context"}
  BY <1>2, <1>5, <1>6, NothingChosen DEF IInv
<1>8. CASE result.found.status = "selected"
  <2>1. PICK i, a : /\ InTier(request, machine, i, a)
                    /\ result.found.facts = ObservedFacts(request, machine, a)
                    /\ result.found.retries = retries
    BY <1>1, <1>3, <1>8, SelectionChooses
  <2>2. InTier(request, machine, i, a)'
    BY <1>2, <2>1 DEF InTier, IsChoice
  <2>3. /\ outcome'.machine = machine /\ outcome'.facts = ObservedFacts(request, machine, a)
        /\ outcome'.status = "selected"
        /\ DOMAIN outcome' = {"status", "machine", "facts", "device", "enabled"}
    BY <1>2, <1>8, <2>1 DEF Outcome
  <2>4. ObservedFacts(request, machine, a)' = ObservedFacts(request, machine, a)
    BY <1>2
  <2>5. Choosing' /\ Keeping'
    BY <2>2, <2>3, <2>4, <1>2 DEF Choosing, Keeping
  <2> QED BY <1>5, <2>5 DEF IInv
<1> QED BY <1>4, <1>6, <1>8

(* The device is created, or the request fails                                 *)
LEMMA CreateStep ==
  ASSUME IInv, NEW grant \in Grants, CreateDevice(grant)
  PROVE  IInv'
<1>1. PICK device : device = Granted(request, outcome.facts, grant)
  OBVIOUS
<1>2. /\ outcome.status = "selected"
      /\ outcome' = IF grant = "refused" \/ ~ DeviceAdmitted(request, outcome.facts, device)
                    THEN Outcome("DeviceFailed", <<>>, <<>>)
                    ELSE [outcome EXCEPT !.status = "context", !.device = device,
                                         !.enabled = Enabled(request, outcome.facts)]
      /\ UNCHANGED <<demands, request, tokens, retries>>
  BY <1>1 DEF CreateDevice
<1>3. Requesting'
  BY <1>2 DEF IInv, Requesting
<1>4. CASE outcome' = Outcome("DeviceFailed", <<>>, <<>>)
  BY <1>3, <1>4, NothingChosen DEF IInv
<1>5. CASE /\ DeviceAdmitted(request, outcome.facts, device)
           /\ outcome' = [outcome EXCEPT !.status = "context", !.device = device,
                                         !.enabled = Enabled(request, outcome.facts)]
  <2>1. DOMAIN outcome = {"status", "machine", "facts", "device", "enabled"}
    BY DEF IInv, Choosing
  <2>2. /\ DOMAIN outcome' = {"status", "machine", "facts", "device", "enabled"}
        /\ outcome'.machine = outcome.machine /\ outcome'.facts = outcome.facts
        /\ outcome'.device = device /\ outcome'.enabled = Enabled(request, outcome.facts)
    BY <1>5, <2>1
  <2>3. /\ outcome.machine \in Machine
        /\ \E i, a : InTier(request, outcome.machine, i, a)
                     /\ outcome.facts = ObservedFacts(request, outcome.machine, a)
    BY <1>2 DEF IInv, Choosing
  <2>4. PICK i, a : InTier(request, outcome.machine, i, a)
                    /\ outcome.facts = ObservedFacts(request, outcome.machine, a)
    BY <2>3
  <2>5. InTier(request, outcome.machine, i, a)'
    BY <1>2, <2>2, <2>4 DEF InTier, IsChoice
  <2>6. ObservedFacts(request, outcome.machine, a)' = outcome'.facts
    BY <1>2, <2>2, <2>4
  <2>7. Choosing'
    BY <2>2, <2>3, <2>5, <2>6 DEF Choosing
  <2>9. IsFacts(outcome.facts) /\ Admits(request, outcome.facts)
    <3>1. a \in outcome.machine.adapters
          /\ a \in AdmittedOf(request, outcome.machine, Plan(request, outcome.machine.operator)[i])
      BY <2>4 DEF InTier, IsChoice
    <3>2. Admits(request, outcome.facts)
      BY <2>4, <3>1 DEF AdmittedOf
    <3> QED BY <2>3, <2>4, <3>1, <3>2, FactsAreFacts
  <2>10. IsDescriptor(request) /\ WellFormed(request)
    BY DEF IInv, Requesting
  <2>11. device.limits \in [LimitKind -> Nat] /\ device.alignments \in [AlignmentKind -> Nat]
    BY <1>1, <2>9, <2>10, GrantedDevice
  <2>12. Kept(request, outcome.facts, device, Enabled(request, outcome.facts))
    BY <1>5, <2>9, <2>10, <2>11, RequestKept
  <2>13. Keeping'
    BY <1>2, <2>2, <2>11, <2>12 DEF Keeping
  <2> QED BY <1>3, <2>7, <2>13 DEF IInv
<1> QED BY <1>2, <1>4, <1>5

(* The caller asks again                                                     *)
LEMMA RetryStep ==
  ASSUME IInv, NEW token \in 0 .. tokens, NEW power, Retry(token, power)
  PROVE  IInv'
<1>1. /\ request' = [request EXCEPT !.exact = token, !.power = power]
      /\ outcome' = Outcome("none", <<>>, <<>>)
      /\ demands' = demands /\ tokens' = tokens
  BY DEF Retry, NoRequest
<1>2. PICK r : r = request'
  OBVIOUS
<1>3. IsDescriptor(request) /\ WellFormed(request) /\ tokens \in Nat /\ demands \in Seq(Demand)
  BY DEF IInv, Requesting
<1>4. /\ DOMAIN r = DOMAIN request /\ r.exact = token
      /\ r.strict = request.strict /\ r.preference = request.preference
      /\ r.needs = request.needs /\ r.limits = request.limits /\ r.alignments = request.alignments
      /\ r.roles = request.roles /\ r.backends = request.backends /\ r.classes = request.classes
  BY <1>1, <1>2, <1>3 DEF IsDescriptor
<1>5. IsDescriptor(r)
  BY <1>3, <1>4 DEF IsDescriptor
<1>6. WellFormed(r)
  BY <1>3, <1>4 DEF WellFormed
<1>7. \A i \in DOMAIN demands : Covers(r, demands[i])
  BY <1>4 DEF IInv, Requesting, Covers
<1>8. Requesting'
  BY <1>1, <1>2, <1>3, <1>5, <1>6, <1>7 DEF Requesting
<1>9. (Choosing /\ Keeping)'
  BY <1>1, NothingChosen
<1> QED BY <1>8, <1>9 DEF IInv

(* A descriptor asks for what it asks for                                      *)
LEMMA CoversItself ==
  ASSUME NEW d, IsDescriptor(d)
  PROVE  Covers(d, d)
<1>1. \A k \in DOMAIN d.limits : d.limits[k].minimum >= d.limits[k].minimum
  <2>1. \A x \in [minimum : Nat, maximum : Nat] : x.minimum \in Nat
    OBVIOUS
  <2> QED BY <2>1 DEF IsDescriptor
<1>2. \A k \in DOMAIN d.alignments : d.alignments[k] <= d.alignments[k]
  BY DEF IsDescriptor
<1> QED BY <1>1, <1>2 DEF Covers

(* A context request starts from one author's descriptor                     *)
LEMMA InitiallyKept ==
  ASSUME AdmissionInit
  PROVE  IInv
<1>1. PICK d \in Demand : WellFormed(d) /\ demands = <<d>> /\ request = d
  BY DEF AdmissionInit
<1>2. IsDescriptor(d) /\ Covers(d, d)
  BY DemandAssumption, CoversItself
<1>3. Requesting
  BY <1>1, <1>2 DEF AdmissionInit, Requesting, NoToken
<1>4. outcome = Outcome("none", <<>>, <<>>)
  BY DEF AdmissionInit, NoRequest
<1>5. Choosing /\ Keeping
  BY <1>4 DEF Outcome, Choosing, Keeping
<1> QED BY <1>3, <1>5 DEF IInv

-----------------------------------------------------------------------------
(* The theorems *)

(* The request asks for what every author asked for, who is selected is the     *)
(* choice of its tier, and a context has a device that keeps the request         *)
(* (GpuContextDescriptor::merge, select_candidate_inputs, admitted_device_facts). *)
THEOREM Invariance == AdmissionSpec => []IInv
<1>1. AdmissionInit => IInv
  BY InitiallyKept
<1>2. IInv /\ [AdmissionNext]_admissionVars => IInv'
  <2> SUFFICES ASSUME IInv, [AdmissionNext]_admissionVars PROVE IInv'
    OBVIOUS
  <2>1. CASE \E d \in Demand : MergeDemand(d)
    BY <2>1, MergeStep
  <2>2. CASE \E machine \in Machine : SelectAdapter(machine)
    BY <2>2, SelectStep
  <2>3. CASE \E grant \in Grants : CreateDevice(grant)
    BY <2>3, CreateStep
  <2>4. CASE \E token \in 0 .. tokens, power \in {request.power, "LowPower"} : Retry(token, power)
    BY <2>4, RetryStep
  <2>5. CASE UNCHANGED admissionVars
    <3>1. UNCHANGED <<demands, request, tokens, retries, outcome>>
      BY <2>5 DEF admissionVars
    <3>2. Requesting' /\ Keeping'
      BY <3>1 DEF IInv, Requesting, Keeping
    <3>3. Choosing'
      BY <3>1 DEF IInv, Choosing, InTier, IsChoice
    <3> QED BY <3>2, <3>3 DEF IInv
  <2> QED BY <2>1, <2>2, <2>3, <2>4, <2>5 DEF AdmissionNext
<1> QED BY <1>1, <1>2, PTL DEF AdmissionSpec

(* A context gives every author whose descriptor was merged the features,         *)
(* format roles, explicit minimum limits, alignments, backend and adapter class   *)
(* it asked for, and the device really has them.                                *)
THEOREM DemandsKept == AdmissionSpec => []ContextKeepsEveryDemand
<1>1. IInv => ContextKeepsEveryDemand
  <2> SUFFICES ASSUME IInv, outcome.status = "context", NEW i \in DOMAIN demands
               PROVE  Kept(demands[i], outcome.facts, outcome.device, outcome.enabled)
    BY DEF ContextKeepsEveryDemand, Kept
  <2>1. /\ IsDescriptor(request) /\ Covers(request, demands[i]) /\ demands[i] \in Demand
    BY DEF IInv, Requesting
  <2>2. IsDescriptor(demands[i])
    BY <2>1, DemandAssumption
  <2>3. /\ outcome.device.limits \in [LimitKind -> Nat]
        /\ outcome.device.alignments \in [AlignmentKind -> Nat]
        /\ Kept(request, outcome.facts, outcome.device, outcome.enabled)
    BY DEF IInv, Keeping
  <2> QED BY <2>1, <2>2, <2>3, DemandKept
<1> QED BY <1>1, Invariance, PTL

(* The tier of the chosen adapter is where its backend is                      *)
LEMMA TierOfChosen ==
  ASSUME NEW d, NEW machine \in Machine, NEW i, NEW a, InTier(d, machine, i, a)
  PROVE  (CHOOSE j \in DOMAIN Plan(d, machine.operator) :
            ObservedFacts(d, machine, a).backend \in Plan(d, machine.operator)[j]) = i
<1>1. PICK tiers : tiers = Plan(d, machine.operator)
  OBVIOUS
<1>2. PICK backend : backend = ObservedFacts(d, machine, a).backend
  OBVIOUS
<1>3. i \in DOMAIN tiers /\ a \in machine.adapters /\ a \in Offered(d, machine, tiers[i])
  BY <1>1 DEF InTier, IsChoice, AdmittedOf
<1>4. backend \in tiers[i]
  BY <1>2, <1>3, FactsAreFacts, OfferedAre
<1>5. \A j \in DOMAIN tiers : backend \in tiers[j] => j = i
  <2>1. \A j, k \in DOMAIN tiers : tiers[j] \cap tiers[k] # {} => j = k
    BY <1>1, TiersApart
  <2> QED BY <1>3, <1>4, <2>1
<1>6. (CHOOSE j \in DOMAIN tiers : backend \in tiers[j]) = i
  BY <1>3, <1>4, <1>5
<1> QED BY <1>1, <1>2, <1>6

(* No admissible adapter of an earlier tier was passed over, none of the same    *)
(* tier outranks the one chosen, a strict request never settles a tie, and only   *)
(* a token disclosed for this very request may name another.                   *)
THEOREM SelectionJustified == AdmissionSpec => []SelectionIsJustified
<1>1. IInv => SelectionIsJustified
  <2> SUFFICES ASSUME IInv, outcome.status \in {"selected", "context"}
               PROVE  SelectionIsJustified
    BY DEF SelectionIsJustified
  <2>1. PICK machine, facts : machine = outcome.machine /\ facts = outcome.facts
    OBVIOUS
  <2>2. machine \in Machine
    BY <2>1 DEF IInv, Choosing
  <2>3. PICK i, a : InTier(request, machine, i, a) /\ facts = ObservedFacts(request, machine, a)
    BY <2>1 DEF IInv, Choosing
  <2>4. PICK tiers : tiers = Plan(request, machine.operator)
    OBVIOUS
  <2>5. i = CHOOSE j \in DOMAIN tiers : facts.backend \in tiers[j]
    BY <2>2, <2>3, <2>4, TierOfChosen
  <2>6. /\ IsChoice(request, machine, tiers[i], a)
        /\ \A j \in 1 .. i - 1 : AdmittedOf(request, machine, tiers[j]) = {}
    BY <2>3, <2>4 DEF InTier
  <2>7. a \in AdmittedOf(request, machine, tiers[i])
    BY <2>6 DEF IsChoice
  <2>8. ASSUME request.exact = NoToken
        PROVE  /\ \A b \in AdmittedOf(request, machine, tiers[i]) :
                    ~ Ahead(Rank(request, ObservedFacts(request, machine, b)), Rank(request, facts))
               /\ request.strict =>
                    Cardinality({b \in AdmittedOf(request, machine, tiers[i]) :
                                   Rank(request, ObservedFacts(request, machine, b))
                                     = Rank(request, facts)}) = 1
    <3>1. \A b \in AdmittedOf(request, machine, tiers[i]) :
            ~ Ahead(Rank(request, ObservedFacts(request, machine, b)), Rank(request, facts))
      BY <2>3, <2>6, <2>8 DEF IsChoice, RankOf
    <3>2. ASSUME request.strict
          PROVE  {b \in AdmittedOf(request, machine, tiers[i]) :
                    Rank(request, ObservedFacts(request, machine, b)) = Rank(request, facts)} = {a}
      BY <2>3, <2>6, <2>7, <2>8, <3>2 DEF IsChoice, RankOf
    <3>3. Cardinality({a}) = 1
      BY FS_Singleton
    <3> QED BY <3>1, <3>2, <3>3
  <2>9. request.exact # NoToken => retries[request.exact].request = RetryIdentity(request)
    BY <2>6 DEF IsChoice
  <2> QED
    BY <2>1, <2>3, <2>4, <2>5, <2>6, <2>7, <2>8, <2>9 DEF SelectionIsJustified, AdmittedOf
<1> QED BY <1>1, Invariance, PTL

-----------------------------------------------------------------------------
(* The faults of the device *)

(* Every class is more severe than health, and no class is beyond loss.       *)
LEMMA SeverityOfClass ==
  /\ Severity("none") = 0
  /\ \A class \in Class : Severity(class) \in 1 .. 3
  /\ \A c, d \in Class : Severity(c) = Severity(d) => c = d
<1>1. Severity("none") = 0 /\ Severity("Validation") = 1
  BY DEF Severity
<1>2. Severity("OutOfMemory") = 2 /\ Severity("Lost") = 3
  BY DEF Severity
<1>3. \A class \in Class : class = "Validation" \/ class = "OutOfMemory" \/ class = "Lost"
  BY DEF Class
<1>4. \A class \in Class : Severity(class) \in 1 .. 3
  BY <1>1, <1>2, <1>3
<1>5. \A c, d \in Class : Severity(c) = Severity(d) => c = d
  BY <1>1, <1>2, <1>3
<1> QED BY <1>1, <1>4, <1>5

(* The cut of a text                                                          *)
KeptLength(n) == IF n <= MaxText THEN n ELSE MaxText

LEMMA BoundedText ==
  ASSUME NEW text \in Seq(TextMark)
  PROVE  /\ Bounded(text) \in Seq(TextMark)
         /\ Len(Bounded(text)) = KeptLength(Len(text))
         /\ \A k \in 1 .. KeptLength(Len(text)) : Bounded(text)[k] = text[k]
<1>1. Len(text) \in Nat /\ KeptLength(Len(text)) \in 0 .. Len(text)
  BY TextAssumption DEF KeptLength
<1>2. Bounded(text) = SubSeq(text, 1, KeptLength(Len(text)))
  BY DEF Bounded, KeptLength
<1>3. \A k \in 1 .. KeptLength(Len(text)) : text[k] \in TextMark
  BY <1>1
<1> QED BY <1>1, <1>2, <1>3

(* Texts of one length and the same marks are one text                        *)
LEMMA SameText ==
  ASSUME NEW a \in Seq(TextMark), NEW b \in Seq(TextMark), Len(a) = Len(b),
         \A k \in 1 .. Len(a) : a[k] = b[k]
  PROVE  a = b
OBVIOUS

(* Two texts put together                                                     *)
Whole(c, a, b) ==
  /\ c \in Seq(TextMark) /\ Len(c) = Len(a) + Len(b)
  /\ \A k \in 1 .. Len(a) + Len(b) : c[k] = IF k <= Len(a) THEN a[k] ELSE b[k - Len(a)]

LEMMA Concatenated ==
  ASSUME NEW a \in Seq(TextMark), NEW b \in Seq(TextMark)
  PROVE  Whole(a \o b, a, b)
BY ConcatProperties, Zenon DEF Whole

LEMMA Regrouped ==
  ASSUME NEW a \in Seq(TextMark), NEW b \in Seq(TextMark), NEW c \in Seq(TextMark)
  PROVE  (a \o b) \o c = a \o (b \o c)
BY ConcatAssociative

(* How a labelled observation follows a text                                   *)
Follows(s, sep, label, rest) ==
  /\ (s \o sep) \o (label \o rest) = s \o ((sep \o label) \o rest)
  /\ (s \o sep) \o (label \o rest) = (s \o (sep \o label)) \o rest

LEMMA LabelFollows ==
  ASSUME NEW s \in Seq(TextMark), NEW sep \in Seq(TextMark), NEW label \in Seq(TextMark),
         NEW rest \in Seq(TextMark)
  PROVE  Follows(s, sep, label, rest)
<1>1. PICK last : last = label \o rest
  OBVIOUS
<1>2. PICK before : before = sep \o label
  OBVIOUS
<1>3. last \in Seq(TextMark) /\ before \in Seq(TextMark)
  BY <1>1, <1>2, ConcatProperties
<1>4. (s \o sep) \o last = s \o (sep \o last)
  BY <1>3, Regrouped
<1>5. (sep \o label) \o rest = sep \o (label \o rest)
  BY Regrouped
<1>6. (s \o before) \o rest = s \o (before \o rest)
  BY <1>3, Regrouped
<1>7. s \o (sep \o last) = s \o (before \o rest)
  BY <1>1, <1>2, <1>5
<1>8. (s \o sep) \o (label \o rest) = s \o (sep \o last)
  BY <1>1, <1>4
<1> QED BY <1>2, <1>6, <1>7, <1>8, Zenon DEF Follows

(* What is cut from the front of a text does not show in the cut of the whole,  *)
(* nor what is cut from its end.                                              *)
LEMMA CutFront ==
  ASSUME NEW a \in Seq(TextMark), NEW b \in Seq(TextMark)
  PROVE  Bounded(Bounded(a) \o b) = Bounded(a \o b)
<1>1. /\ Bounded(a) \in Seq(TextMark) /\ Len(Bounded(a)) = KeptLength(Len(a))
      /\ \A k \in 1 .. KeptLength(Len(a)) : Bounded(a)[k] = a[k]
  BY BoundedText
<1>2. PICK c : c = Bounded(a) \o b /\ Whole(c, Bounded(a), b)
  BY <1>1, Concatenated
<1>3. PICK d : d = a \o b /\ Whole(d, a, b)
  BY Concatenated
<1>4. Len(a) \in Nat /\ Len(b) \in Nat /\ MaxText \in Nat
  BY TextAssumption
<1>5. Len(c) = KeptLength(Len(a)) + Len(b) /\ Len(d) = Len(a) + Len(b)
  BY <1>1, <1>2, <1>3 DEF Whole
<1>6. KeptLength(Len(c)) = KeptLength(Len(d))
  BY <1>4, <1>5 DEF KeptLength
<1>7. \A k \in 1 .. KeptLength(Len(c)) : c[k] = d[k]
  <2>1. CASE Len(a) <= MaxText
    <3>1. Bounded(a) = a
      BY <1>1, <2>1, SameText DEF KeptLength
    <3> QED BY <1>2, <1>3, <3>1
  <2>2. CASE Len(a) > MaxText
    <3>1. KeptLength(Len(a)) = MaxText /\ KeptLength(Len(c)) = MaxText
      BY <1>4, <1>5, <2>2 DEF KeptLength
    <3>2. ASSUME NEW k \in 1 .. MaxText PROVE c[k] = d[k]
      <4>1. k \in 1 .. Len(a) /\ k \in 1 .. Len(Bounded(a))
        BY <1>1, <1>4, <2>2, <3>1, <3>2
      <4>2. c[k] = Bounded(a)[k] /\ d[k] = a[k]
        BY <1>1, <1>2, <1>3, <1>4, <1>5, <3>1, <4>1 DEF Whole
      <4> QED BY <1>1, <3>1, <4>2
    <3> QED BY <3>1, <3>2
  <2> QED BY <1>4, <2>1, <2>2
<1>8. /\ Bounded(c) \in Seq(TextMark) /\ Bounded(d) \in Seq(TextMark)
      /\ Len(Bounded(c)) = KeptLength(Len(c)) /\ Len(Bounded(d)) = KeptLength(Len(d))
      /\ \A k \in 1 .. KeptLength(Len(c)) : Bounded(c)[k] = c[k]
      /\ \A k \in 1 .. KeptLength(Len(d)) : Bounded(d)[k] = d[k]
  BY <1>2, <1>3, BoundedText DEF Whole
<1>9. Bounded(c) = Bounded(d)
  BY <1>6, <1>7, <1>8, SameText
<1> QED BY <1>2, <1>3, <1>9

LEMMA CutEnd ==
  ASSUME NEW a \in Seq(TextMark), NEW b \in Seq(TextMark)
  PROVE  Bounded(a \o Bounded(b)) = Bounded(a \o b)
<1>1. /\ Bounded(b) \in Seq(TextMark) /\ Len(Bounded(b)) = KeptLength(Len(b))
      /\ \A k \in 1 .. KeptLength(Len(b)) : Bounded(b)[k] = b[k]
  BY BoundedText
<1>2. PICK c : c = a \o Bounded(b) /\ Whole(c, a, Bounded(b))
  BY <1>1, Concatenated
<1>3. PICK d : d = a \o b /\ Whole(d, a, b)
  BY Concatenated
<1>4. Len(a) \in Nat /\ Len(b) \in Nat /\ MaxText \in Nat
  BY TextAssumption
<1>5. Len(c) = Len(a) + KeptLength(Len(b)) /\ Len(d) = Len(a) + Len(b)
  BY <1>1, <1>2, <1>3 DEF Whole
<1>6. KeptLength(Len(c)) = KeptLength(Len(d)) /\ KeptLength(Len(c)) \in 0 .. Len(c) /\ KeptLength(Len(d)) \in 0 .. Len(d)
  BY <1>4, <1>5 DEF KeptLength
<1>7. ASSUME NEW k \in 1 .. KeptLength(Len(c)) PROVE c[k] = d[k]
  <2>1. k \in 1 .. Len(c) /\ k \in 1 .. Len(d) /\ k \in Nat
    BY <1>4, <1>5, <1>6, <1>7
  <2>2. CASE k <= Len(a)
    BY <1>1, <1>2, <1>3, <1>4, <1>5, <2>1, <2>2 DEF Whole
  <2>3. CASE k > Len(a)
    <3>1. k - Len(a) \in 1 .. KeptLength(Len(b)) /\ k - Len(a) \in 1 .. Len(b)
      BY <1>4, <1>5, <2>1, <2>3 DEF KeptLength
    <3>2. c[k] = Bounded(b)[k - Len(a)] /\ d[k] = b[k - Len(a)]
      BY <1>1, <1>2, <1>3, <1>4, <1>5, <2>1, <2>3 DEF Whole
    <3> QED BY <1>1, <3>1, <3>2
  <2> QED BY <1>4, <2>1, <2>2, <2>3
<1>8. /\ Bounded(c) \in Seq(TextMark) /\ Bounded(d) \in Seq(TextMark)
      /\ Len(Bounded(c)) = KeptLength(Len(c)) /\ Len(Bounded(d)) = KeptLength(Len(d))
      /\ \A k \in 1 .. KeptLength(Len(c)) : Bounded(c)[k] = c[k]
      /\ \A k \in 1 .. KeptLength(Len(d)) : Bounded(d)[k] = d[k]
  BY <1>2, <1>3, BoundedText DEF Whole
<1>9. Bounded(c) = Bounded(d)
  BY <1>6, <1>7, <1>8, SameText
<1> QED BY <1>2, <1>3, <1>9

Label == {Additional, LowerPrecedence}

LEMMA Labels == Label \subseteq Seq(TextMark) /\ Separator \in Seq(TextMark) /\ <<>> \notin Label
BY DEF Label, Additional, LowerPrecedence, Separator, TextMark

LEMMA Texts ==
  ASSUME NEW i \in Nat, NEW length \in Nat
  PROVE  Text(i, length) \in Seq(TextMark)
BY DEF Text, TextMark

LEMMA ContinuedAs ==
  ASSUME NEW story \in Seq(TextMark), story # <<>>, NEW label \in Seq(TextMark),
         NEW text \in Seq(TextMark), Separator \in Seq(TextMark)
  PROVE  /\ Continued(story, label \o text) = story \o ((Separator \o label) \o text)
         /\ Continued(story, label \o text) = (story \o (Separator \o label)) \o text
<1>1. Continued(story, label \o text) = (story \o Separator) \o (label \o text)
  BY DEF Continued
<1>2. Follows(story, Separator, label, text)
  BY LabelFollows
<1> QED BY <1>1, <1>2, Zenon DEF Follows

(* Told after what was cut, an observation that was cut itself: the same as     *)
(* the cut of all of it.                                                       *)
LEMMA ToldOnce ==
  ASSUME NEW story \in Seq(TextMark), NEW label \in Label, NEW text \in Seq(TextMark)
  PROVE  /\ Continued(story, label \o text) \in Seq(TextMark)
         /\ AppendSecondary(Bounded(story), label \o Bounded(text))
              = Bounded(Continued(story, label \o text))
<1>1. label \in Seq(TextMark) /\ Separator \in Seq(TextMark) /\ Bounded(text) \in Seq(TextMark)
  BY Labels, BoundedText
<1>2. /\ Bounded(story) \in Seq(TextMark) /\ Len(Bounded(story)) = KeptLength(Len(story))
  BY BoundedText
<1>3. CASE story = <<>>
  <2>1. Len(story) = 0 /\ Len(Bounded(story)) = 0
    BY <1>2, <1>3, TextAssumption DEF KeptLength
  <2>2. Bounded(story) = <<>>
    BY <1>2, <2>1
  <2>3. Bounded(label \o Bounded(text)) = Bounded(label \o text)
    BY <1>1, CutEnd
  <2>4. label \o text \in Seq(TextMark)
    BY <1>1, ConcatProperties
  <2> QED BY <1>3, <2>2, <2>3, <2>4 DEF Continued, AppendSecondary
<1>4. CASE story # <<>>
  <2>1. Len(story) > 0 /\ Len(Bounded(story)) > 0
    BY <1>2, <1>4, TextAssumption DEF KeptLength
  <2>2. Bounded(story) # <<>>
    BY <2>1
  <2>3. PICK before : before = Separator \o label
    OBVIOUS
  <2>4. before \in Seq(TextMark)
    BY <1>1, <2>3, ConcatProperties
  <2>5. PICK rest : rest = before \o Bounded(text)
    OBVIOUS
  <2>6. PICK long : long = story \o before
    OBVIOUS
  <2>7. rest \in Seq(TextMark) /\ long \in Seq(TextMark) /\ long \o text \in Seq(TextMark)
    <3>1. rest \in Seq(TextMark) /\ long \in Seq(TextMark)
      BY <1>1, <2>4, <2>5, <2>6, ConcatProperties
    <3> QED BY <3>1, ConcatProperties
  <2>8. Continued(story, label \o text) = long \o text
    <3>1. Continued(story, label \o text) = (story \o (Separator \o label)) \o text
      BY <1>1, <1>4, ContinuedAs, Zenon
    <3> QED BY <2>3, <2>6, <3>1, Zenon
  <2>9. Continued(Bounded(story), label \o Bounded(text)) = Bounded(story) \o rest
    BY <1>1, <1>2, <2>2, <2>3, <2>5, ContinuedAs
  <2>10. story \o (before \o Bounded(text)) = (story \o before) \o Bounded(text)
    BY <1>1, <2>4, Regrouped
  <2>11. Bounded(Bounded(story) \o rest) = Bounded(story \o rest)
    BY <2>7, CutFront
  <2>12. Bounded(long \o Bounded(text)) = Bounded(long \o text)
    BY <2>7, CutEnd
  <2> QED BY <2>5, <2>6, <2>7, <2>8, <2>9, <2>10, <2>11, <2>12 DEF AppendSecondary
<1> QED BY <1>3, <1>4

(* The evidence at a position                                                 *)
LEMMA EvidenceAt ==
  ASSUME NEW seen \in Seq(Evidence)
  PROVE  /\ Len(seen) \in Nat
         /\ \A k \in 1 .. Len(seen) : /\ seen[k].class \in Class /\ seen[k].length \in Nat
                                      /\ Severity(seen[k].class) \in 1 .. 3
<1>1. Len(seen) \in Nat /\ \A k \in 1 .. Len(seen) : seen[k] \in Evidence
  OBVIOUS
<1>2. \A k \in 1 .. Len(seen) : seen[k].class \in Class /\ seen[k].length \in Nat
  BY <1>1, TextAssumption DEF Evidence
<1> QED BY <1>1, <1>2, SeverityOfClass

(* The worst of the first n is the only one, and the worst of one more is it or *)
(* the new one.                                                               *)
LEMMA WorstIs ==
  ASSUME NEW seen \in Seq(Evidence), NEW n \in 1 .. Len(seen), NEW i \in 1 .. n, Worst(seen, n, i)
  PROVE  WorstOf(seen, n) = i
<1>1. PICK w : w = WorstOf(seen, n)
  OBVIOUS
<1>2. w \in 1 .. n /\ Worst(seen, n, w)
  BY <1>1, Zenon DEF WorstOf
<1>3. Severity(seen[i].class) \in 1 .. 3 /\ Severity(seen[w].class) \in 1 .. 3
  BY <1>2, EvidenceAt
<1>4. w = i
  BY <1>2, <1>3 DEF Worst
<1> QED BY <1>1, <1>4

LEMMA WorstNext ==
  ASSUME NEW seen \in Seq(Evidence), NEW n \in 1 .. Len(seen), n + 1 \in 1 .. Len(seen),
         NEW i \in 1 .. n, Worst(seen, n, i)
  PROVE  IF Severity(seen[n + 1].class) > Severity(seen[i].class)
         THEN Worst(seen, n + 1, n + 1) ELSE Worst(seen, n + 1, i)
<1>1. \A j \in 1 .. n + 1 : Severity(seen[j].class) \in 1 .. 3
  BY EvidenceAt
<1>2. \A j \in 1 .. n + 1 : j \in 1 .. n \/ j = n + 1
  OBVIOUS
<1>3. \A j \in 1 .. n : Severity(seen[j].class) <= Severity(seen[i].class)
  BY <1>1 DEF Worst
<1>4. CASE Severity(seen[n + 1].class) > Severity(seen[i].class)
  <2>1. \A j \in 1 .. n : Severity(seen[j].class) < Severity(seen[n + 1].class)
    BY <1>1, <1>3, <1>4
  <2> QED BY <1>2, <1>4, <2>1 DEF Worst
<1>5. CASE ~(Severity(seen[n + 1].class) > Severity(seen[i].class))
  <2>1. \/ Severity(seen[n + 1].class) < Severity(seen[i].class)
        \/ Severity(seen[n + 1].class) = Severity(seen[i].class) /\ i <= n + 1
    BY <1>1, <1>5
  <2> QED BY <1>2, <1>5, <2>1 DEF Worst
<1> QED BY <1>4, <1>5

LEMMA WorstExists ==
  ASSUME NEW seen \in Seq(Evidence), NEW n \in 1 .. Len(seen)
  PROVE  WorstOf(seen, n) \in 1 .. n /\ Worst(seen, n, WorstOf(seen, n))
<1>1. PICK P : P = {m \in Nat : m + 1 <= Len(seen) => \E i \in 1 .. m + 1 : Worst(seen, m + 1, i)}
  OBVIOUS
<1>2. Len(seen) \in Nat
  OBVIOUS
<1>3. 0 \in P
  <2>1. 1 <= Len(seen) => Worst(seen, 1, 1)
    BY DEF Worst
  <2> QED BY <1>1, <2>1
<1>4. ASSUME NEW m \in Nat, m \in P PROVE m + 1 \in P
  <2>1. SUFFICES ASSUME (m + 1) + 1 <= Len(seen)
                 PROVE  \E i \in 1 .. (m + 1) + 1 : Worst(seen, (m + 1) + 1, i)
    BY <1>1
  <2>2. PICK k \in Nat : k = m + 1
    OBVIOUS
  <2>3. k \in 1 .. Len(seen) /\ k + 1 \in 1 .. Len(seen)
    BY <1>2, <2>1, <2>2
  <2>4. PICK i \in 1 .. k : Worst(seen, k, i)
    BY <1>1, <1>4, <2>1, <2>2, <2>3
  <2>5. Worst(seen, k + 1, k + 1) \/ Worst(seen, k + 1, i)
    BY <2>3, <2>4, WorstNext
  <2>6. i \in 1 .. k + 1 /\ k + 1 \in 1 .. k + 1
    BY <2>2
  <2> QED BY <2>2, <2>5, <2>6
<1>5. n - 1 \in P /\ (n - 1) + 1 = n /\ n <= Len(seen)
  BY <1>2, <1>3, <1>4, NumberInduction
<1>6. \E i \in 1 .. n : Worst(seen, n, i)
  BY <1>1, <1>5
<1> QED BY <1>6, Zenon DEF WorstOf

(* What is set aside is an earlier or the new evidence, under a label.          *)
LEMMA ObservationIs ==
  ASSUME NEW seen \in Seq(Evidence), NEW n \in 2 .. Len(seen)
  PROVE  /\ Aside(seen, n) \in 1 .. n
         /\ \E label \in Label : Observation(seen, n) = label \o Text(Aside(seen, n), seen[Aside(seen, n)].length)
         /\ Observation(seen, n) \in Seq(TextMark)
<1>1. n \in 1 .. Len(seen) /\ n - 1 \in 1 .. Len(seen)
  BY EvidenceAt
<1>2. WorstOf(seen, n) \in 1 .. n /\ WorstOf(seen, n - 1) \in 1 .. n - 1
  BY <1>1, WorstExists
<1>3. PICK i : i = Aside(seen, n) /\ i \in 1 .. n
  BY <1>2 DEF Aside
<1>4. PICK label \in Label :
        label = IF seen[i].class = seen[WorstOf(seen, n)].class THEN Additional ELSE LowerPrecedence
  BY DEF Label
<1>5. Observation(seen, n) = label \o Text(i, seen[i].length)
  BY <1>3, <1>4, Zenon DEF Observation
<1>6. i \in Nat /\ seen[i].length \in Nat
  BY <1>1, <1>3, EvidenceAt
<1>7. Text(i, seen[i].length) \in Seq(TextMark) /\ label \in Seq(TextMark)
  BY <1>6, Texts, Labels
<1>8. label \o Text(i, seen[i].length) \in Seq(TextMark)
  BY <1>7, ConcatProperties
<1> QED BY <1>3, <1>5, <1>8

(* The telling, evidence by evidence                                          *)
IsTold(seen, f) ==
  /\ f[0] = <<>>
  /\ \A n \in 1 .. Len(seen) : f[n] = IF n <= 1 THEN <<>> ELSE Continued(f[n - 1], Observation(seen, n))

LEMMA ToldExists ==
  ASSUME NEW seen \in Seq(Evidence)
  PROVE  \E f \in [0 .. Len(seen) -> Seq(TextMark)] : IsTold(seen, f) /\ Story(seen) = f[Len(seen)]
<1>1. PICK n \in Nat : n = Len(seen)
  BY EvidenceAt
<1>2. PICK V : V = Seq(TextMark)
  OBVIOUS
<1>3. <<>> \in V /\ Separator \in V
  BY <1>2, Labels
<1>4. ASSUME NEW k \in 1 .. n, k > 1, NEW story \in V PROVE Continued(story, Observation(seen, k)) \in V
  <2>1. PICK next \in V : next = Observation(seen, k)
    BY <1>1, <1>2, <1>4, ObservationIs
  <2>2. story \o Separator \in V
    BY <1>2, <1>3, ConcatProperties
  <2>3. story \o Separator \o next \in V
    BY <1>2, <2>2, ConcatProperties
  <2> QED BY <2>1, <2>3 DEF Continued
<1>5. PICK step : step = [p \in Nat \X V |-> IF p[1] \in 2 .. n
                                             THEN Continued(p[2], Observation(seen, p[1])) ELSE <<>>]
  OBVIOUS
<1>6. step \in [Nat \X V -> V]
  BY <1>3, <1>4, <1>5
<1>7. PICK f \in [0 .. n -> V] : IsIteration(n, <<>>, step, f)
  BY <1>3, <1>6, IterationExists
<1>8. f = [k \in 0 .. n |-> IF k = 0 THEN <<>> ELSE step[<<k, f[k - 1]>>]]
  BY <1>7, Zenon DEF IsIteration
<1>9. \A k \in 0 .. n : k # 0 =>
        step[<<k, f[k - 1]>>] = IF k <= 1 THEN <<>> ELSE Continued(f[k - 1], Observation(seen, k))
  <2>1. \A k \in 0 .. n : k # 0 => <<k, f[k - 1]>> \in Nat \X V /\ (k \in 2 .. n <=> ~(k <= 1))
    OBVIOUS
  <2> QED BY <1>5, <2>1
<1>10. f = [k \in 0 .. n |-> IF k <= 1 THEN <<>> ELSE Continued(f[k - 1], Observation(seen, k))]
  <2>1. \A k \in 0 .. n : (IF k = 0 THEN <<>> ELSE step[<<k, f[k - 1]>>])
                            = IF k <= 1 THEN <<>> ELSE Continued(f[k - 1], Observation(seen, k))
    BY <1>9
  <2> QED BY <1>8, <2>1, Zenon
<1>11. PICK g : g = CHOOSE h : h = [k \in 0 .. n |->
                      IF k <= 1 THEN <<>> ELSE Continued(h[k - 1], Observation(seen, k))]
  OBVIOUS
<1>12. g = [k \in 0 .. n |-> IF k <= 1 THEN <<>> ELSE Continued(g[k - 1], Observation(seen, k))]
  BY <1>10, <1>11, Zenon
<1>13. Story(seen) = g[n]
  BY <1>1, <1>11, Zenon DEF Story
<1>14. g[0] = <<>> /\ \A k \in 1 .. n : g[k] = IF k <= 1 THEN <<>> ELSE Continued(g[k - 1], Observation(seen, k))
  BY <1>12
<1>15. IsTold(seen, g)
  BY <1>1, <1>14 DEF IsTold
<1>16. PICK P : P = {k \in Nat : k <= n => g[k] \in V}
  OBVIOUS
<1>17. 0 \in P
  BY <1>3, <1>14, <1>16
<1>18. ASSUME NEW k \in Nat, k \in P PROVE k + 1 \in P
  <2>1. SUFFICES ASSUME k + 1 <= n PROVE g[k + 1] \in V
    BY <1>16
  <2>2. g[k] \in V /\ k + 1 \in 1 .. n /\ (k + 1) - 1 = k
    BY <1>16, <1>18, <2>1
  <2>3. CASE k + 1 <= 1
    BY <1>3, <1>14, <2>2, <2>3
  <2>4. CASE k + 1 > 1
    <3>1. Continued(g[k], Observation(seen, k + 1)) \in V
      BY <1>4, <2>2, <2>4
    <3>2. g[k + 1] = Continued(g[k], Observation(seen, k + 1))
      BY <1>14, <2>2, <2>4
    <3> QED BY <3>1, <3>2
  <2> QED BY <2>2, <2>3, <2>4
<1>19. \A k \in 0 .. n : g[k] \in V
  <2>1. \A k \in Nat : k \in P
    BY <1>17, <1>18, NumberInduction
  <2> QED BY <1>16, <2>1
<1>20. g \in [0 .. n -> V]
  BY <1>12, <1>19
<1> QED BY <1>1, <1>2, <1>13, <1>15, <1>20

(* More evidence leaves what was told as it was.                              *)
Extends(seen, longer) ==
  /\ longer \in Seq(Evidence) /\ Len(longer) = Len(seen) + 1
  /\ \A k \in 1 .. Len(seen) : longer[k] = seen[k]

LEMMA WorstKept ==
  ASSUME NEW seen \in Seq(Evidence), NEW longer, Extends(seen, longer), NEW n \in 1 .. Len(seen)
  PROVE  /\ WorstOf(longer, n) = WorstOf(seen, n) /\ WorstOf(seen, n) \in 1 .. n
         /\ Worst(longer, n, WorstOf(seen, n))
<1>1. PICK w : w = WorstOf(seen, n) /\ w \in 1 .. n /\ Worst(seen, n, w)
  BY WorstExists
<1>2. Len(seen) \in Nat /\ \A j \in 1 .. n : longer[j] = seen[j]
  BY EvidenceAt DEF Extends
<1>3. Worst(longer, n, w)
  BY <1>1, <1>2 DEF Worst
<1>4. longer \in Seq(Evidence) /\ n \in 1 .. Len(longer)
  BY <1>2 DEF Extends
<1>5. WorstOf(longer, n) = w
  BY <1>1, <1>3, <1>4, WorstIs
<1> QED BY <1>1, <1>3, <1>5

LEMMA ObservationKept ==
  ASSUME NEW seen \in Seq(Evidence), NEW longer, Extends(seen, longer), NEW n \in 2 .. Len(seen)
  PROVE  Observation(longer, n) = Observation(seen, n)
<1>1. n \in 1 .. Len(seen) /\ n - 1 \in 1 .. Len(seen)
  BY EvidenceAt
<1>2. /\ WorstOf(longer, n) = WorstOf(seen, n) /\ WorstOf(seen, n) \in 1 .. n
      /\ WorstOf(longer, n - 1) = WorstOf(seen, n - 1)
  BY <1>1, WorstKept
<1>3. Aside(longer, n) = Aside(seen, n)
  BY <1>2, Zenon DEF Aside
<1>4. Aside(seen, n) \in 1 .. n
  BY ObservationIs
<1>5. /\ longer[Aside(seen, n)] = seen[Aside(seen, n)]
      /\ longer[WorstOf(seen, n)] = seen[WorstOf(seen, n)]
  BY <1>1, <1>2, <1>4, EvidenceAt DEF Extends
<1> QED BY <1>2, <1>3, <1>5, Zenon DEF Observation

LEMMA StoryGrows ==
  ASSUME NEW seen \in Seq(Evidence), Len(seen) > 0, NEW longer, Extends(seen, longer)
  PROVE  /\ Story(seen) \in Seq(TextMark)
         /\ Story(longer) = Continued(Story(seen), Observation(longer, Len(seen) + 1))
<1>1. PICK n \in Nat : n = Len(seen) /\ n > 0
  BY EvidenceAt
<1>2. longer \in Seq(Evidence) /\ Len(longer) = n + 1
  BY <1>1 DEF Extends
<1>3. PICK f : f \in [0 .. n -> Seq(TextMark)] /\ IsTold(seen, f) /\ Story(seen) = f[n]
  BY <1>1, ToldExists
<1>4. PICK g : IsTold(longer, g) /\ Story(longer) = g[n + 1]
  BY <1>2, ToldExists
<1>5. f[0] = <<>> /\ \A k \in 1 .. n : f[k] = IF k <= 1 THEN <<>> ELSE Continued(f[k - 1], Observation(seen, k))
  BY <1>1, <1>3 DEF IsTold
<1>6. g[0] = <<>> /\ \A k \in 1 .. n + 1 : g[k] = IF k <= 1 THEN <<>> ELSE Continued(g[k - 1], Observation(longer, k))
  BY <1>2, <1>4 DEF IsTold
<1>7. \A k \in 1 .. n : k > 1 => Observation(longer, k) = Observation(seen, k)
  <2>1. \A k \in 1 .. n : k > 1 => k \in 2 .. Len(seen)
    BY <1>1
  <2> QED BY <2>1, ObservationKept
<1>8. PICK P : P = {k \in Nat : k <= n => g[k] = f[k]}
  OBVIOUS
<1>9. 0 \in P
  BY <1>5, <1>6, <1>8
<1>10. ASSUME NEW k \in Nat, k \in P PROVE k + 1 \in P
  <2>1. SUFFICES ASSUME k + 1 <= n PROVE g[k + 1] = f[k + 1]
    BY <1>8
  <2>2. g[k] = f[k] /\ k + 1 \in 1 .. n /\ k + 1 \in 1 .. n + 1 /\ (k + 1) - 1 = k
    BY <1>8, <1>10, <2>1
  <2>3. CASE k + 1 <= 1
    BY <1>5, <1>6, <2>2, <2>3
  <2>4. CASE k + 1 > 1
    <3>1. Observation(longer, k + 1) = Observation(seen, k + 1)
      BY <1>7, <2>2, <2>4
    <3>2. /\ g[k + 1] = Continued(g[k], Observation(longer, k + 1))
          /\ f[k + 1] = Continued(f[k], Observation(seen, k + 1))
      BY <1>5, <1>6, <2>2, <2>4
    <3> QED BY <2>2, <3>1, <3>2
  <2> QED BY <2>2, <2>3, <2>4
<1>11. g[n] = f[n]
  <2>1. n \in P
    BY <1>9, <1>10, NumberInduction
  <2> QED BY <1>8, <2>1
<1>12. g[n + 1] = Continued(g[n], Observation(longer, n + 1))
  BY <1>1, <1>6
<1>13. f[n] \in Seq(TextMark)
  BY <1>3
<1> QED BY <1>1, <1>3, <1>4, <1>11, <1>12, <1>13

LEMMA StoryOfOne ==
  ASSUME NEW seen \in Seq(Evidence), Len(seen) = 1
  PROVE  Story(seen) = <<>> /\ WorstOf(seen, 1) = 1
<1>1. PICK f : IsTold(seen, f) /\ Story(seen) = f[1]
  BY ToldExists
<1>2. f[1] = <<>>
  BY <1>1 DEF IsTold
<1>3. WorstOf(seen, 1) \in 1 .. 1
  BY WorstExists
<1> QED BY <1>1, <1>2, <1>3

(* WorstFaultIsReported says nothing of a device without evidence; the first *)
(* step needs it to be healthy then.                                         *)
HealthInv ==
  /\ HealthTypeOK
  /\ WorstFaultIsReported
  /\ evidence = <<>> => fault = [class |-> "none", detail |-> <<>>] /\ secondary = <<>>

LEMMA HealthStarts == HealthInit => HealthInv
<1>1. SUFFICES ASSUME HealthInit PROVE HealthInv
  OBVIOUS
<1>2. fault = [class |-> "none", detail |-> <<>>] /\ secondary = <<>> /\ evidence = <<>>
  BY <1>1 DEF HealthInit
<1>3. <<>> \in Seq(TextMark) /\ <<>> \in Seq(Evidence)
  OBVIOUS
<1>4. HealthTypeOK
  BY <1>2, <1>3 DEF HealthTypeOK
<1> QED BY <1>2, <1>4 DEF HealthInv, WorstFaultIsReported

(* One more evidence                                                          *)
LEMMA AppendedEvidence ==
  ASSUME NEW seen \in Seq(Evidence), NEW e \in Evidence
  PROVE  /\ Extends(seen, Append(seen, e)) /\ Append(seen, e)[Len(seen) + 1] = e
         /\ Append(seen, e) \in Seq(Evidence) /\ Len(Append(seen, e)) = Len(seen) + 1
         /\ Append(seen, e) # <<>>
BY DEF Extends

(* The fault and the text that some evidence amounts to                       *)
Reports(f, text, seen) ==
  /\ f = [class |-> seen[WorstOf(seen, Len(seen))].class,
          detail |-> Bounded(Text(WorstOf(seen, Len(seen)), seen[WorstOf(seen, Len(seen))].length))]
  /\ text = Bounded(Story(seen))

(* Evidence on a device that has a fault                                      *)
LEMMA FurtherEvidence ==
  ASSUME NEW seen \in Seq(Evidence), NEW n \in Nat, n = Len(seen), n > 0,
         NEW f, NEW text, Reports(f, text, seen),
         NEW e \in Evidence, NEW longer, longer = Append(seen, e),
         NEW detail, detail = Bounded(Text(n + 1, e.length))
  PROVE  IF Severity(e.class) > Severity(f.class)
         THEN Reports([class |-> e.class, detail |-> detail],
                      AppendSecondary(text, LowerPrecedence \o f.detail), longer)
         ELSE Reports(f, AppendSecondary(text,
                (IF e.class = f.class THEN Additional ELSE LowerPrecedence) \o detail), longer)
<1>1. /\ Extends(seen, longer) /\ longer[n + 1] = e /\ longer \in Seq(Evidence)
      /\ Len(longer) = n + 1
  BY AppendedEvidence
<1>2. n \in 1 .. Len(seen) /\ n \in 1 .. Len(longer) /\ n + 1 \in 1 .. Len(longer) /\ n + 1 \in 2 .. Len(longer)
  BY <1>1
<1>3. PICK w : w = WorstOf(seen, n)
  OBVIOUS
<1>4. w \in 1 .. n /\ WorstOf(longer, n) = w /\ Worst(longer, n, w) /\ longer[w] = seen[w]
  BY <1>1, <1>2, <1>3, WorstKept DEF Extends
<1>5. /\ f = [class |-> longer[w].class, detail |-> Bounded(Text(w, longer[w].length))]
      /\ text = Bounded(Story(seen))
  BY <1>3, <1>4 DEF Reports
<1>6. f.class = longer[w].class /\ f.detail = Bounded(Text(w, longer[w].length))
  BY <1>5
<1>7. /\ Story(seen) \in Seq(TextMark)
      /\ Story(longer) = Continued(Story(seen), Observation(longer, n + 1))
  BY <1>1, StoryGrows
<1>8. e.class \in Class /\ e.length \in Nat /\ longer[w].class \in Class /\ longer[w].length \in Nat
  BY <1>1, <1>2, <1>4, EvidenceAt
<1>9. Text(w, longer[w].length) \in Seq(TextMark) /\ Text(n + 1, e.length) \in Seq(TextMark)
  <2>1. w \in Nat /\ n + 1 \in Nat
    BY <1>4
  <2>2. Text(w, longer[w].length) \in Seq(TextMark)
    BY <1>8, <2>1, Texts
  <2> QED BY <1>8, <2>1, <2>2, Texts
<1>10. CASE Severity(e.class) > Severity(f.class)
  <2>1. Worst(longer, n + 1, n + 1)
    BY <1>1, <1>2, <1>4, <1>6, <1>10, WorstNext
  <2>2. WorstOf(longer, n + 1) = n + 1
    BY <1>1, <1>2, <2>1, WorstIs
  <2>3. Aside(longer, n + 1) = w
    BY <1>4, <2>2 DEF Aside
  <2>4. longer[w].class # e.class
    <3>1. Severity(e.class) \in 1 .. 3
      BY <1>8, SeverityOfClass
    <3>2. SUFFICES ASSUME longer[w].class = e.class PROVE FALSE
      OBVIOUS
    <3>3. f.class = e.class
      BY <1>6, <3>2, Zenon
    <3>4. Severity(f.class) = Severity(e.class)
      BY <3>3, Zenon
    <3> QED BY <1>10, <3>1, <3>4
  <2>5. Observation(longer, n + 1) = LowerPrecedence \o Text(w, longer[w].length)
    BY <1>1, <2>2, <2>3, <2>4, Zenon DEF Observation
  <2>6. LowerPrecedence \in Label
    BY DEF Label
  <2>7. AppendSecondary(Bounded(Story(seen)), LowerPrecedence \o Bounded(Text(w, longer[w].length)))
          = Bounded(Continued(Story(seen), LowerPrecedence \o Text(w, longer[w].length)))
    BY <1>7, <1>9, <2>6, ToldOnce
  <2>8. AppendSecondary(text, LowerPrecedence \o f.detail) = Bounded(Story(longer))
    BY <1>5, <1>6, <1>7, <2>5, <2>7, Zenon
  <2>9. Reports([class |-> e.class, detail |-> detail],
                AppendSecondary(text, LowerPrecedence \o f.detail), longer)
    BY <1>1, <2>2, <2>8, Zenon DEF Reports
  <2> QED BY <1>10, <2>9
<1>11. CASE ~(Severity(e.class) > Severity(f.class))
  <2>1. Worst(longer, n + 1, w)
    BY <1>1, <1>2, <1>4, <1>6, <1>11, WorstNext
  <2>2. w \in 1 .. n + 1 /\ w # n + 1
    BY <1>4
  <2>3. WorstOf(longer, n + 1) = w
    BY <1>1, <1>2, <2>1, <2>2, WorstIs
  <2>4. Aside(longer, n + 1) = n + 1
    BY <2>2, <2>3 DEF Aside
  <2>5. PICK label : label = IF e.class = f.class THEN Additional ELSE LowerPrecedence
    OBVIOUS
  <2>6. label \in Label
    BY <2>5 DEF Label
  <2>7. Observation(longer, n + 1) = label \o Text(n + 1, e.length)
    BY <1>1, <1>6, <2>3, <2>4, <2>5, Zenon DEF Observation
  <2>8. AppendSecondary(Bounded(Story(seen)), label \o Bounded(Text(n + 1, e.length)))
          = Bounded(Continued(Story(seen), label \o Text(n + 1, e.length)))
    BY <1>7, <1>9, <2>6, ToldOnce
  <2>9. AppendSecondary(text, label \o detail) = Bounded(Story(longer))
    BY <1>5, <1>7, <2>7, <2>8, Zenon
  <2>10. Reports(f, AppendSecondary(text, label \o detail), longer)
    BY <1>1, <1>5, <2>3, <2>9, Zenon DEF Reports
  <2> QED BY <1>11, <2>5, <2>10
<1> QED BY <1>10, <1>11

(* Texts stay texts                                                           *)
LEMMA TextsStay ==
  ASSUME NEW f, NEW text, NEW seen \in Seq(Evidence), Len(seen) > 0, Reports(f, text, seen)
  PROVE  f \in [class : Class \cup {"none"}, detail : Seq(TextMark)] /\ text \in Seq(TextMark)
<1>1. PICK n \in Nat : n = Len(seen) /\ n \in 1 .. Len(seen)
  BY EvidenceAt
<1>2. PICK w : w = WorstOf(seen, n) /\ w \in 1 .. n
  BY <1>1, WorstExists
<1>3. seen[w].class \in Class /\ seen[w].length \in Nat /\ w \in Nat
  BY <1>1, <1>2, EvidenceAt
<1>4. Bounded(Text(w, seen[w].length)) \in Seq(TextMark)
  BY <1>3, Texts, BoundedText
<1>5. f = [class |-> seen[w].class, detail |-> Bounded(Text(w, seen[w].length))]
  BY <1>1, <1>2, Zenon DEF Reports
<1>6. Story(seen) \in Seq(TextMark)
  <2>1. PICK g : g \in [0 .. n -> Seq(TextMark)] /\ Story(seen) = g[n]
    BY <1>1, ToldExists
  <2> QED BY <1>1, <2>1
<1>7. text \in Seq(TextMark)
  BY <1>6, BoundedText DEF Reports
<1> QED BY <1>3, <1>4, <1>5, <1>7

LEMMA HealthStep == HealthInv /\ [HealthNext]_healthVars => HealthInv'
<1>1. CASE UNCHANGED healthVars
  BY <1>1 DEF healthVars, HealthInv, HealthTypeOK, WorstFaultIsReported
<1>2. ASSUME HealthInv, NEW class \in Class, NEW length \in TextLength, MarkFault(class, length)
      PROVE  HealthInv'
  <2>1. evidence \in Seq(Evidence)
    BY <1>2 DEF HealthInv, HealthTypeOK
  <2>2. PICK n \in Nat : n = Len(evidence)
    BY <2>1, EvidenceAt
  <2>3. PICK e : e = [class |-> class, length |-> length]
    OBVIOUS
  <2>4. e \in Evidence /\ e.class = class /\ e.length = length
    BY <1>2, <2>3 DEF Evidence
  <2>5. PICK incoming : incoming = [class |-> class, detail |-> Bounded(Text(n + 1, length))]
    OBVIOUS
  <2>6. PICK longer : longer = Append(evidence, e)
    OBVIOUS
  <2>7. evidence' = longer
    BY <1>2, <2>3, <2>6, Zenon DEF MarkFault
  <2>8. longer \in Seq(Evidence) /\ Len(longer) = n + 1 /\ longer # <<>> /\ longer[n + 1] = e
    BY <2>1, <2>2, <2>4, <2>6, AppendedEvidence
  <2>9. \/ fault.class = "none" /\ fault' = incoming /\ secondary' = <<>>
        \/ /\ fault.class # "none" /\ Severity(class) > Severity(fault.class)
           /\ fault' = incoming
           /\ secondary' = AppendSecondary(secondary, LowerPrecedence \o fault.detail)
        \/ /\ fault.class # "none" /\ Severity(class) <= Severity(fault.class)
           /\ secondary' = AppendSecondary(secondary,
                (IF class = fault.class THEN Additional ELSE LowerPrecedence) \o incoming.detail)
           /\ fault' = fault
    BY <1>2, <2>2, <2>5, Zenon DEF MarkFault
  <2>10. Reports(fault', secondary', longer)
    <3>1. CASE evidence = <<>>
      <4>1. n = 0 /\ fault.class = "none"
        BY <1>2, <2>2, <3>1 DEF HealthInv
      <4>2. fault' = incoming /\ secondary' = <<>>
        BY <2>9, <4>1
      <4>3. Len(longer) = 1 /\ longer[1] = e
        BY <2>8, <4>1
      <4>4. Story(longer) = <<>> /\ WorstOf(longer, 1) = 1
        BY <2>8, <4>3, StoryOfOne
      <4>5. Bounded(<<>>) = <<>>
        <5>1. <<>> \in Seq(TextMark) /\ Len(<<>>) = 0
          OBVIOUS
        <5>2. PICK none \in Seq(TextMark) : none = <<>> /\ Len(none) = 0
          BY <5>1
        <5>3. Bounded(none) \in Seq(TextMark) /\ Len(Bounded(none)) = KeptLength(0)
          BY <5>2, BoundedText
        <5>4. KeptLength(0) = 0
          BY TextAssumption DEF KeptLength
        <5>5. Bounded(none) = <<>>
          BY <5>3, <5>4
        <5> QED BY <5>2, <5>5, Zenon
      <4>6. fault' = [class |-> longer[1].class, detail |-> Bounded(Text(1, longer[1].length))]
        BY <2>4, <2>5, <4>1, <4>2, <4>3
      <4> QED BY <4>2, <4>3, <4>4, <4>5, <4>6, Zenon DEF Reports
    <3>2. CASE evidence # <<>>
      <4>1. n > 0 /\ n \in 1 .. Len(evidence)
        BY <2>1, <2>2, <3>2
      <4>2. Reports(fault, secondary, evidence)
        BY <1>2, <3>2, Zenon DEF HealthInv, WorstFaultIsReported, Reports
      <4>3. PICK w : w \in 1 .. n /\ w = WorstOf(evidence, n)
        BY <2>1, <2>2, <4>1, WorstExists
      <4>4. fault.class \in Class
        <5>1. fault.class = evidence[w].class
          BY <2>2, <4>2, <4>3 DEF Reports
        <5> QED BY <2>1, <2>2, <4>3, <5>1, EvidenceAt
      <4>5. fault.class # "none" /\ Severity(class) \in Nat /\ Severity(fault.class) \in Nat
        BY <1>2, <4>4, SeverityOfClass DEF Class
      <4>6. PICK detail : detail = Bounded(Text(n + 1, e.length))
        OBVIOUS
      <4>7. incoming = [class |-> e.class, detail |-> detail] /\ incoming.detail = detail
        BY <2>4, <2>5, <4>6
      <4>8. IF Severity(e.class) > Severity(fault.class)
            THEN Reports([class |-> e.class, detail |-> detail],
                         AppendSecondary(secondary, LowerPrecedence \o fault.detail), longer)
            ELSE Reports(fault, AppendSecondary(secondary,
                   (IF e.class = fault.class THEN Additional ELSE LowerPrecedence) \o detail), longer)
        BY <2>1, <2>2, <2>4, <2>6, <4>1, <4>2, <4>6, FurtherEvidence
      <4>9. CASE Severity(class) > Severity(fault.class)
        <5>1. ~(Severity(class) <= Severity(fault.class))
          BY <4>5, <4>9
        <5>2. /\ fault' = incoming
              /\ secondary' = AppendSecondary(secondary, LowerPrecedence \o fault.detail)
          BY <2>9, <4>5, <5>1, Zenon
        <5> QED BY <2>4, <4>7, <4>8, <4>9, <5>2, Zenon
      <4>10. CASE ~(Severity(class) > Severity(fault.class))
        <5>1. /\ fault' = fault
              /\ secondary' = AppendSecondary(secondary,
                   (IF class = fault.class THEN Additional ELSE LowerPrecedence) \o incoming.detail)
          BY <2>9, <4>5, <4>10, Zenon
        <5> QED BY <2>4, <4>7, <4>8, <4>10, <5>1, Zenon
      <4> QED BY <4>9, <4>10
    <3> QED BY <3>1, <3>2
  <2>11. fault' \in [class : Class \cup {"none"}, detail : Seq(TextMark)] /\ secondary' \in Seq(TextMark)
    BY <2>8, <2>10, TextsStay
  <2>12. HealthTypeOK'
    BY <2>7, <2>8, <2>11 DEF HealthTypeOK
  <2>13. WorstFaultIsReported'
    BY <2>7, <2>10, Zenon DEF WorstFaultIsReported, Reports
  <2> QED BY <2>7, <2>8, <2>12, <2>13 DEF HealthInv
<1> QED BY <1>1, <1>2 DEF HealthNext

(* The fault reported is of the worst class seen and the first of that class,  *)
(* and the secondary detail is the beginning of the story of the rest, cut at   *)
(* the bound, however much evidence came and in whatever order                 *)
(* (WgpuDeviceHealth::mark_fault, append_secondary, bounded).                  *)
THEOREM WorstFaultReported == HealthSpec => []WorstFaultIsReported
<1>1. HealthInv => WorstFaultIsReported
  BY DEF HealthInv
<1> QED BY <1>1, HealthStarts, HealthStep, PTL DEF HealthSpec


LEMMA ImageIsFinite ==
  ASSUME NEW S, IsFiniteSet(S), NEW f, f \in [S -> {f[x] : x \in S}]
  PROVE  IsFiniteSet({f[x] : x \in S})
<1>1. f \in Surjection(S, {f[x] : x \in S})
  BY DEF Surjection
<1> QED BY <1>1, FS_Surjection

-----------------------------------------------------------------------------
(* Vertex input *)

LEMMA SizesAreNumbers ==
  ASSUME NEW f \in VertexFormat
  PROVE  VertexSize(f) \in Nat
<1>1. f[2] \in {8, 16, 32} /\ f[3] \in {1, 2, 3, 4}
  <2>1. CASE f \in {"Uint", "Sint", "Unorm", "Snorm"} \X {8, 16} \X {1, 2, 4}
    BY <2>1
  <2>2. CASE f \in {"Float"} \X {16} \X {1, 2, 4}
    BY <2>2
  <2>3. CASE f \in {"Float", "Uint", "Sint"} \X {32} \X (1 .. 4)
    <3>0. \A A, B, C : f \in A \X B \X C => f[2] \in B /\ f[3] \in C
      OBVIOUS
    <3>1. f[2] \in {32} /\ f[3] \in 1 .. 4
      BY <2>3, <3>0, Zenon
    <3>2. f[3] = 1 \/ f[3] = 2 \/ f[3] = 3 \/ f[3] = 4
      BY <3>1
    <3> QED BY <3>1, <3>2
  <2>4. CASE f = <<"Unorm10_10_10_2", 8, 4>> \/ f = <<"Unorm8x4Bgra", 8, 4>>
    BY <2>4
  <2> QED BY <2>1, <2>2, <2>3, <2>4 DEF VertexFormat
<1>2. f[2] * f[3] \in Nat
  BY <1>1
<1>3. \A n \in Nat : n \div 8 \in Nat
  OBVIOUS
<1> QED BY <1>2, <1>3 DEF VertexSize

(* A position past the highest slot                                            *)
LEMMA PositionsCover ==
  ASSUME NEW S \in SUBSET Nat, IsFiniteSet(S)
  PROVE  Positions(S) \in Nat /\ \A n \in S : n \in 0 .. Positions(S) - 1
<1>1. CASE S = {}
  BY <1>1 DEF Positions
<1>2. CASE S # {}
  <2>1. Max(S) \in S /\ \A n \in S : Max(S) >= n
    BY <1>2, GreatestIsMax
  <2>2. PICK k : k = CHOOSE n \in S : \A m \in S : m <= n
    OBVIOUS
  <2>3. \E n \in S : \A m \in S : m <= n
    BY <2>1
  <2>4. k \in S /\ \A m \in S : m <= k
    BY <2>2, <2>3
  <2>5. Positions(S) = 1 + k
    BY <1>2, <2>2 DEF Positions
  <2> QED BY <2>4, <2>5
<1> QED BY <1>1, <1>2

LEMMA EndCoversAttributes ==
  ASSUME NEW l, TypedLayout(l), ValidVertexLayout(l), NEW a \in l.attributes
  PROVE  AttributeEnd(l) \in Nat /\ a.offset + VertexSize(a.format) <= AttributeEnd(l)
<1>1. PICK S : S = {b.offset + VertexSize(b.format) : b \in l.attributes}
  OBVIOUS
<1>2. \A b \in l.attributes : b.offset \in Nat /\ VertexSize(b.format) \in Nat
  BY SizesAreNumbers DEF TypedLayout
<1>3. S \in SUBSET Nat /\ S # {}
  BY <1>1, <1>2
<1>4. IsFiniteSet(S)
  <2>1. IsFiniteSet(l.attributes)
    BY DEF TypedLayout
  <2>2. PICK f : f = [b \in l.attributes |-> b.offset + VertexSize(b.format)]
    OBVIOUS
  <2>3. S = {f[b] : b \in l.attributes} /\ f \in [l.attributes -> {f[b] : b \in l.attributes}]
    BY <1>1, <2>2
  <2> QED BY <2>1, <2>3, ImageIsFinite
<1>5. Max(S) \in S /\ \A n \in S : Max(S) >= n
  BY <1>3, <1>4, GreatestIsMax
<1>6. \E n \in S : \A b \in l.attributes : b.offset + VertexSize(b.format) <= n
  <2>1. \A b \in l.attributes : b.offset + VertexSize(b.format) \in S
    BY <1>1
  <2> QED BY <1>3, <1>5, <2>1
<1>7. AttributeEnd(l) = CHOOSE n \in S : \A b \in l.attributes : b.offset + VertexSize(b.format) <= n
  BY <1>1 DEF AttributeEnd
<1>8. AttributeEnd(l) \in S /\ \A b \in l.attributes : b.offset + VertexSize(b.format) <= AttributeEnd(l)
  BY <1>6, <1>7
<1> QED BY <1>3, <1>8

-----------------------------------------------------------------------------
(* One draw *)

(* A layout is at its slot, and nothing is read from other positions             *)
LEMMA LayoutsInPlace ==
  ASSUME NEW s, ValidVertexInput(s.vertex), IsFiniteSet(s.vertex), \A l \in s.vertex : TypedLayout(l)
  PROVE  /\ \A l \in s.vertex : l.slot \in DOMAIN NativeLayouts(s) /\ NativeLayouts(s)[l.slot] = l
         /\ {n \in DOMAIN NativeLayouts(s) : NativeLayouts(s)[n].attributes # {}} = Slots(s.vertex)
<1>1. PICK S : S = Slots(s.vertex)
  OBVIOUS
<1>2. S \in SUBSET Nat /\ IsFiniteSet(S)
  <2>1. S = {l.slot : l \in s.vertex}
    BY <1>1 DEF Slots
  <2>2. \A l \in s.vertex : l.slot \in Nat
    BY DEF TypedLayout
  <2>3. IsFiniteSet(S)
    <3>1. PICK f : f = [l \in s.vertex |-> l.slot]
      OBVIOUS
    <3>2. S = {f[l] : l \in s.vertex} /\ f \in [s.vertex -> {f[l] : l \in s.vertex}]
      BY <2>1, <3>1
    <3> QED BY <3>2, ImageIsFinite
  <2> QED BY <2>1, <2>2, <2>3
<1>3. PICK P \in Nat : P = Positions(S) /\ \A n \in S : n \in 0 .. P - 1
  BY <1>2, PositionsCover
<1>4. PICK N : N = NativeLayouts(s)
  OBVIOUS
<1>5. /\ DOMAIN N = 0 .. P - 1
      /\ \A n \in 0 .. P - 1 : N[n] = IF n \in S THEN CHOOSE l \in s.vertex : l.slot = n
                                       ELSE [slot |-> n, stride |-> 0, step |-> "Vertex", attributes |-> {}]
  BY <1>1, <1>3, <1>4 DEF NativeLayouts
<1>6. ASSUME NEW l \in s.vertex PROVE l.slot \in S /\ l.slot \in DOMAIN N /\ N[l.slot] = l
  <2>1. l.slot \in S
    BY <1>1 DEF Slots
  <2>2. PICK k : k = CHOOSE m \in s.vertex : m.slot = l.slot
    OBVIOUS
  <2>3. k \in s.vertex /\ k.slot = l.slot
    BY <2>2
  <2>4. k = l
    BY <2>3 DEF ValidVertexInput
  <2> QED BY <1>3, <1>5, <2>1, <2>2, <2>4
<1>7. ASSUME NEW n \in DOMAIN N PROVE N[n].attributes # {} <=> n \in S
  <2>1. CASE n \in S
    <3>1. PICK l \in s.vertex : l.slot = n
      BY <1>1, <2>1 DEF Slots
    <3>2. N[n] = l /\ l.attributes # {}
      BY <1>6, <3>1 DEF ValidVertexInput, ValidVertexLayout
    <3> QED BY <2>1, <3>2
  <2>2. CASE n \notin S
    BY <1>5, <2>2
  <2> QED BY <2>1, <2>2
<1>8. S \subseteq DOMAIN N
  BY <1>3, <1>5
<1> QED BY <1>1, <1>4, <1>6, <1>7, <1>8

(* What the accepted span says of each element                                 *)
LEMMA FetchInside ==
  ASSUME NEW l, TypedLayout(l), ValidVertexLayout(l), NEW a \in l.attributes,
         NEW b, TypedSlice(b), ValidSlice(b, "Vertex"),
         NEW end \in Nat, SteppedSpan(l, end) <= b.size, NEW e \in Nat, e < end
  PROVE  LET start == NativeSlice(b).from + (e * l.stride) + a.offset
         IN  InSlice(NativeSlice(b), start, start + VertexSize(a.format))
<1>1. /\ l.stride \in Nat /\ a.offset \in Nat /\ VertexSize(a.format) \in Nat
      /\ AttributeEnd(l) \in Nat /\ a.offset + VertexSize(a.format) <= AttributeEnd(l)
  BY EndCoversAttributes, SizesAreNumbers DEF TypedLayout
<1>2. /\ b.offset \in Nat /\ b.size \in Nat /\ Stream[b.buffer].size \in Nat
      /\ b.offset + b.size <= Stream[b.buffer].size
  BY DEF TypedSlice, ValidSlice
<1>3. PICK m, t, v, o, z \in Nat : /\ m = end - 1 /\ t = l.stride /\ v = VertexSize(a.format)
                                   /\ o = a.offset /\ z = AttributeEnd(l)
  BY <1>1
<1>4. m * t + z <= b.size
  BY <1>3 DEF SteppedSpan
<1>5. e * t \in Nat /\ m * t \in Nat /\ e * t <= m * t
  <2>1. PICK k \in Nat : m = e + k
    <3>1. m - e \in Nat /\ m = e + (m - e)
      BY <1>3
    <3> QED BY <3>1
  <2>2. e * t \in Nat /\ k * t \in Nat /\ m * t = e * t + k * t
    BY <2>1
  <2> QED BY <2>2
<1>6. PICK x, y \in Nat : x = e * t /\ y = m * t
  BY <1>5
<1>7. NativeSlice(b).buffer = b.buffer /\ NativeSlice(b).from = b.offset /\ NativeSlice(b).to = b.offset + b.size
  BY DEF NativeSlice
<1>8. /\ b.offset <= b.offset + x + o
      /\ b.offset + x + o + v <= b.offset + b.size
      /\ b.offset + x + o + v <= Stream[b.buffer].size
  <2>1. x <= y /\ y + z <= b.size /\ o + v <= z
    BY <1>1, <1>3, <1>4, <1>5, <1>6
  <2> QED BY <1>2, <2>1
<1> QED BY <1>3, <1>6, <1>7, <1>8 DEF InSlice

(* Each shader input comes from one attribute of one slot                      *)
LEMMA InputsAreFed ==
  ASSUME NEW s, ValidVertexInput(s.vertex), IsFiniteSet(s.vertex), \A l \in s.vertex : TypedLayout(l),
         NEW input \in Interface(s), NEW read, read = Slots(s.vertex)
  PROVE  Cardinality({x \in UNION {{n} \X NativeLayouts(s)[n].attributes : n \in read} :
                        <<x[2].location, FetchedType(x[2].format)>> = input}) = 1
<1>1. PICK N : N = NativeLayouts(s)
  OBVIOUS
<1>2. /\ \A l \in s.vertex : N[l.slot] = l
      /\ \A n \in read : \E l \in s.vertex : l.slot = n
  BY <1>1, LayoutsInPlace DEF Slots
<1>3. PICK C : C = {x \in UNION {{n} \X N[n].attributes : n \in read} :
                      <<x[2].location, FetchedType(x[2].format)>> = input}
  OBVIOUS
<1>4. \A x : x \in C <=> /\ \E n \in read : \E a \in N[n].attributes : x = <<n, a>>
                         /\ <<x[2].location, FetchedType(x[2].format)>> = input
  BY <1>3
<1>50. PICK l \in s.vertex : \E a \in l.attributes : input = <<a.location, FetchedType(a.format)>>
  BY DEF Interface, AllAttributes
<1>5. PICK a \in l.attributes : input = <<a.location, FetchedType(a.format)>>
  BY <1>50
<1>6. <<l.slot, a>> \in C
  <2>1. l.slot \in read /\ N[l.slot] = l
    BY <1>2 DEF Slots
  <2> QED BY <1>4, <1>5, <2>1
<1>7. ASSUME NEW x \in C PROVE x = <<l.slot, a>>
  <2>0. PICK n \in read : \E b \in N[n].attributes : x = <<n, b>>
    BY <1>4
  <2>1. PICK b \in N[n].attributes : x = <<n, b>>
    BY <2>0
  <2>2. b.location = a.location
    BY <1>4, <1>5, <2>1
  <2>3. PICK k \in s.vertex : k.slot = n /\ N[n] = k /\ b \in k.attributes
    BY <1>2, <2>1
  <2>4. k = l
    BY <2>2, <2>3 DEF ValidVertexInput
  <2>5. b = a
    BY <2>2, <2>3, <2>4 DEF ValidVertexInput, ValidVertexLayout, DistinctLocations
  <2> QED BY <2>1, <2>3, <2>4, <2>5
<1>8. C = {<<l.slot, a>>}
  BY <1>6, <1>7
<1>9. Cardinality(C) = 1
  BY <1>8, FS_Singleton
<1> QED BY <1>1, <1>3, <1>9

(* What FetchesStayBound says of one draw: its layouts, those that read, its      *)
(* slices, index and command                                                   *)
FetchesWell(inputs, layouts, read, slices, index, command) ==
  /\ DOMAIN slices = read
  /\ \A input \in inputs :
        Cardinality({x \in UNION {{n} \X layouts[n].attributes : n \in read} :
                        <<x[2].location, FetchedType(x[2].format)>> = input}) = 1
  /\ \A n \in read : \A a \in layouts[n].attributes, e \in FixedElements(command, layouts[n].step) :
        LET start == slices[n].from + (e * layouts[n].stride) + a.offset
        IN  InSlice(slices[n], start, start + VertexSize(a.format))
  /\ command.kind = "Indexed" =>
        \A x \in index, e \in command.elements :
            LET start == x.slice.from + (e * IndexSize(x.format))
            IN  InSlice(x.slice, start, start + IndexSize(x.format))
  /\ command.kind = "Indirect" =>
        command.at + (IF command.indexed THEN 20 ELSE 16) <= Stream[command.buffer].size
  /\ (index # {}) = (command.kind = "Indexed" \/ (command.kind = "Indirect" /\ command.indexed))

FetchesBound(inputs, d) ==
  FetchesWell(inputs, d.pipeline.layouts, {n \in DOMAIN d.pipeline.layouts : d.pipeline.layouts[n].attributes # {}},
              d.slices, d.index, d.command)

LEMMA RangesHold ==
  ASSUME NEW r, r \in [first : Nat, count : Nat], ValidDrawRange(r)
  PROVE  RangeEnd(r) \in Nat /\ \A e \in r.first .. RangeEnd(r) - 1 : e \in Nat /\ e < RangeEnd(r)
BY DEF ValidDrawRange, RangeEnd

LEMMA IndicesInside ==
  ASSUME NEW x, TypedSlice(x), x.format \in {"Uint16", "Uint32"}, ValidIndexBinding(x),
         NEW end \in Nat, end * IndexSize(x.format) <= x.size, NEW e \in Nat, e < end
  PROVE  LET start == NativeSlice(x).from + (e * IndexSize(x.format))
         IN  InSlice(NativeSlice(x), start, start + IndexSize(x.format))
<1>1. /\ x.offset \in Nat /\ x.size \in Nat /\ Stream[x.buffer].size \in Nat
      /\ x.offset + x.size <= Stream[x.buffer].size
  BY DEF TypedSlice, ValidSlice, ValidIndexBinding
<1>2. NativeSlice(x).buffer = x.buffer /\ NativeSlice(x).from = x.offset /\ NativeSlice(x).to = x.offset + x.size
  BY DEF NativeSlice
<1>3. CASE IndexSize(x.format) = 2
  BY <1>1, <1>2, <1>3 DEF InSlice
<1>4. CASE IndexSize(x.format) = 4
  BY <1>1, <1>2, <1>4 DEF InSlice
<1> QED BY <1>3, <1>4 DEF IndexSize

LEMMA DrawStaysBound ==
  ASSUME NEW d, TypedDraw(d), ValidDraw(d)
  PROVE  FetchesBound(d.pipeline.program.vertex[d.pipeline.vertex].inputs, NativeDraw(d))
<1>1. PICK s : s = d.pipeline.state
  OBVIOUS
<1>2. /\ ValidVertexInput(s.vertex) /\ IsFiniteSet(s.vertex) /\ \A l \in s.vertex : TypedLayout(l)
      /\ \A l \in s.vertex : ValidVertexLayout(l)
      /\ d.pipeline.program.vertex[d.pipeline.vertex].inputs = Interface(s)
  BY <1>1 DEF ValidDraw, ValidPipeline, ValidState, ValidVertexInput, TypedDraw
<1>3. PICK N, C, I, T : /\ N = NativeLayouts(s) /\ T = [slot \in Slots(d.vertex) |-> NativeSlice(CHOOSE b \in d.vertex : b.slot = slot)]
                        /\ I = {[slice |-> NativeSlice(x), format |-> x.format] : x \in d.index}
                        /\ C = IF d.intent.kind = "Indirect"
                               THEN [kind |-> "Indirect", indexed |-> d.intent.indexed,
                                     buffer |-> d.intent.record.buffer, at |-> d.intent.record.offset]
                               ELSE [kind |-> d.intent.kind,
                                     elements |-> d.intent.elements.first .. RangeEnd(d.intent.elements) - 1,
                                     instances |-> d.intent.instances.first .. RangeEnd(d.intent.instances) - 1]
  OBVIOUS
<1>4. PICK n : n = NativeDraw(d)
  OBVIOUS
<1>5. n.pipeline.layouts = N /\ n.slices = T /\ n.index = I /\ n.command = C
  BY <1>1, <1>3, <1>4, Zenon DEF NativeDraw
<1>6. PICK read : read = {m \in DOMAIN N : N[m].attributes # {}}
  OBVIOUS
<1>7. read = Slots(s.vertex) /\ \A l \in s.vertex : N[l.slot] = l
  BY <1>2, <1>3, <1>6, LayoutsInPlace
<1>8. Slots(s.vertex) = Slots(d.vertex) /\ \A b, c \in d.vertex : b.slot = c.slot => b = c
  BY <1>1 DEF ValidDraw
<1>9. DOMAIN T = read
  BY <1>3, <1>7, <1>8
<1>10. \A b \in d.vertex : TypedSlice(b) /\ ValidSlice(b, "Vertex")
  BY DEF ValidDraw, TypedDraw
<1>11. ASSUME NEW b \in d.vertex PROVE T[b.slot] = NativeSlice(b)
  <2>1. PICK c : c = CHOOSE x \in d.vertex : x.slot = b.slot
    OBVIOUS
  <2>2. c \in d.vertex /\ c.slot = b.slot
    BY <2>1
  <2>3. c = b
    BY <1>8, <2>2
  <2>4. b.slot \in Slots(d.vertex)
    BY DEF Slots
  <2> QED BY <1>3, <2>1, <2>3, <2>4
<1>12. C.kind = d.intent.kind /\ d.intent.kind \in {"Direct", "Indexed", "Indirect"}
  BY <1>3 DEF TypedDraw, TypedIntent
<1>15. SUFFICES FetchesWell(Interface(s), N, read, T, I, C)
  BY <1>2, <1>4, <1>5, <1>6 DEF FetchesBound
<1>13. CASE d.intent.kind = "Indirect"
  <2>1. PICK r, x : r = d.intent.record /\ x = d.intent.indexed
    OBVIOUS
  <2>2. C = [kind |-> "Indirect", indexed |-> x, buffer |-> r.buffer, at |-> r.offset]
    BY <1>3, <1>13, <2>1
  <2>3. /\ x \in BOOLEAN /\ r.offset \in Nat /\ r.size \in Nat /\ Stream[r.buffer].size \in Nat
        /\ r.size = (IF x THEN 20 ELSE 16) /\ r.offset + r.size <= Stream[r.buffer].size
    BY <1>13, <2>1 DEF TypedDraw, TypedIntent, TypedSlice, ValidDraw, ValidIntent, ValidSlice, RecordSize
  <2>4. C.at + (IF C.indexed THEN 20 ELSE 16) <= Stream[C.buffer].size
    BY <2>2, <2>3
  <2>5. \A step : FixedElements(C, step) = {}
    BY <1>12, <1>13 DEF FixedElements
  <2>6. (I # {}) = C.indexed
    <3>1. d.index # {} <=> x
      BY <1>13, <2>1 DEF ValidDraw, IsIndexed
    <3>2. I # {} <=> d.index # {}
      BY <1>3
    <3> QED BY <2>2, <2>3, <3>1, <3>2
  <2>7. \A input \in Interface(s) :
          Cardinality({x_1 \in UNION {{m} \X N[m].attributes : m \in read} :
                         <<x_1[2].location, FetchedType(x_1[2].format)>> = input}) = 1
    BY <1>2, <1>3, <1>7, InputsAreFed
  <2>8. (I # {}) = (C.kind = "Indexed" \/ (C.kind = "Indirect" /\ C.indexed))
    BY <1>12, <1>13, <2>6
  <2> QED BY <1>9, <1>12, <1>13, <1>15, <2>4, <2>5, <2>7, <2>8 DEF FetchesWell
<1>14. CASE d.intent.kind # "Indirect"
  <2>1. PICK E, F : E = d.intent.elements /\ F = d.intent.instances
    OBVIOUS
  <2>2. C = [kind |-> d.intent.kind, elements |-> E.first .. RangeEnd(E) - 1,
             instances |-> F.first .. RangeEnd(F) - 1]
    BY <1>3, <1>14, <2>1
  <2>3. /\ RangeEnd(E) \in Nat /\ \A e \in C.elements : e \in Nat /\ e < RangeEnd(E)
        /\ RangeEnd(F) \in Nat /\ \A e \in C.instances : e \in Nat /\ e < RangeEnd(F)
    <3>1. E \in [first : Nat, count : Nat] /\ F \in [first : Nat, count : Nat]
      BY <1>14, <2>1 DEF TypedDraw, TypedIntent
    <3>2. ValidDrawRange(E) /\ ValidDrawRange(F)
      BY <1>14, <2>1 DEF ValidDraw, ValidIntent
    <3> QED BY <2>2, <3>1, <3>2, RangesHold
  <2>4. ASSUME NEW m \in read, NEW a \in N[m].attributes, NEW e \in FixedElements(C, N[m].step)
        PROVE  LET start == T[m].from + (e * N[m].stride) + a.offset
               IN  InSlice(T[m], start, start + VertexSize(a.format))
    <3>1. PICK l \in s.vertex : l.slot = m /\ N[m] = l
      BY <1>7 DEF Slots
    <3>2. PICK b \in d.vertex : b.slot = m
      BY <1>7, <1>8 DEF Slots
    <3>3. \E end \in KnownEnds(l, d.intent) : end \in Nat /\ e \in Nat /\ e < end
      <4>1. CASE l.step = "Instance"
        BY <1>12, <1>14, <2>1, <2>3, <3>1, <4>1 DEF FixedElements, KnownEnds
      <4>2. CASE l.step # "Instance" /\ d.intent.kind = "Direct"
        BY <1>12, <1>14, <2>1, <2>3, <3>1, <4>2 DEF FixedElements, KnownEnds
      <4>3. CASE l.step # "Instance" /\ d.intent.kind # "Direct"
        BY <1>12, <1>14, <3>1, <4>3 DEF FixedElements
      <4> QED BY <4>1, <4>2, <4>3
    <3>4. PICK end \in KnownEnds(l, d.intent) : end \in Nat /\ e \in Nat /\ e < end
      BY <3>3
    <3>5. SteppedSpan(l, end) <= b.size
      BY <1>1, <3>1, <3>2, <3>4 DEF ValidDraw
    <3>6. T[m] = NativeSlice(b)
      BY <1>11, <3>2
    <3> QED BY <1>2, <1>10, <3>1, <3>4, <3>5, <3>6, FetchInside
  <2>5. ASSUME d.intent.kind = "Indexed", NEW x \in I, NEW e \in C.elements
        PROVE  LET start == x.slice.from + (e * IndexSize(x.format))
               IN  InSlice(x.slice, start, start + IndexSize(x.format))
    <3>1. PICK y \in d.index : x = [slice |-> NativeSlice(y), format |-> y.format]
      BY <1>3
    <3>2. TypedSlice(y) /\ y.format \in {"Uint16", "Uint32"} /\ ValidIndexBinding(y)
      BY DEF TypedDraw, ValidDraw
    <3>3. RangeEnd(E) * IndexSize(y.format) <= y.size
      BY <2>1, <2>5 DEF ValidDraw
    <3>4. x.slice = NativeSlice(y) /\ x.format = y.format
      BY <3>1
    <3> QED BY <2>3, <3>2, <3>3, <3>4, IndicesInside
  <2>6. (I # {}) = (C.kind = "Indexed")
    <3>1. d.index # {} <=> d.intent.kind = "Indexed"
      BY <1>14 DEF ValidDraw, IsIndexed
    <3>2. I # {} <=> d.index # {}
      BY <1>3
    <3> QED BY <1>12, <3>1, <3>2
  <2>7. \A input \in Interface(s) :
          Cardinality({x_1 \in UNION {{m} \X N[m].attributes : m \in read} :
                         <<x_1[2].location, FetchedType(x_1[2].format)>> = input}) = 1
    BY <1>2, <1>3, <1>7, InputsAreFed
  <2>8. C.kind # "Indirect" /\ (C.kind = "Indexed" <=> d.intent.kind = "Indexed")
    BY <1>12, <1>14
  <2>9. (I # {}) = (C.kind = "Indexed" \/ (C.kind = "Indirect" /\ C.indexed))
    BY <2>6, <2>8
  <2>10. /\ C.kind = "Indexed" =>
               \A x \in I, e \in C.elements :
                  LET start == x.slice.from + (e * IndexSize(x.format))
                  IN  InSlice(x.slice, start, start + IndexSize(x.format))
         /\ C.kind = "Indirect" => C.at + (IF C.indexed THEN 20 ELSE 16) <= Stream[C.buffer].size
         /\ \A m \in read : \A a \in N[m].attributes, e \in FixedElements(C, N[m].step) :
               LET start == T[m].from + (e * N[m].stride) + a.offset
               IN  InSlice(T[m], start, start + VertexSize(a.format))
    BY <2>4, <2>5, <2>8, Zenon
  <2> QED BY <1>9, <2>7, <2>9, <2>10, <1>15, Zenon DEF FetchesWell
<1> QED BY <1>13, <1>14

-----------------------------------------------------------------------------
(* The format table                                                           *)

(* Rows of texels, of blocks and of planes                                    *)
TexelRows(table) == \A f \in DOMAIN table : table[f][1] \in {1, 2, 4, 8, 16}
BlockRows(table) ==
  \A f \in DOMAIN table : {table[f][1], table[f][2]} \subseteq {4, 5, 6, 8, 10, 12} /\ table[f][3] \in {8, 16}
PlaneRows(table) ==
  \A f \in DOMAIN table : /\ table[f][1] \in {"Depth", "Stencil", "DepthStencil"}
                          /\ table[f][2] \in {0, 2, 4} /\ table[f][3] \in {0, 1}

(* Blocks that differ in their encoding alone have one shape                  *)
PairsShape(table) ==
  \A f \in DOMAIN table \cap DOMAIN SrgbOf :
    /\ SrgbOf[f] \in DOMAIN table
    /\ table[SrgbOf[f]][1] = table[f][1] /\ table[SrgbOf[f]][2] = table[f][2]

(* What the rows of two tables beside each other have in common               *)
LEMMA TablesJoin ==
  ASSUME NEW upper, NEW lower
  PROVE  /\ TexelRows(upper) /\ TexelRows(lower) => TexelRows(BothTables(upper, lower))
         /\ BlockRows(upper) /\ BlockRows(lower) => BlockRows(BothTables(upper, lower))
         /\ PairsShape(upper) /\ PairsShape(lower) /\ DOMAIN upper \cap DOMAIN lower = {}
            => PairsShape(BothTables(upper, lower))
<1>1. PICK both : both = BothTables(upper, lower)
  OBVIOUS
<1>2. /\ DOMAIN both = DOMAIN upper \cup DOMAIN lower
      /\ \A f \in DOMAIN upper : both[f] = upper[f]
      /\ \A f \in DOMAIN lower : f \notin DOMAIN upper => both[f] = lower[f]
  BY <1>1 DEF BothTables
<1>3. TexelRows(upper) /\ TexelRows(lower) => TexelRows(both)
  BY <1>2 DEF TexelRows
<1>4. BlockRows(upper) /\ BlockRows(lower) => BlockRows(both)
  BY <1>2 DEF BlockRows
<1>5. PairsShape(upper) /\ PairsShape(lower) /\ DOMAIN upper \cap DOMAIN lower = {} => PairsShape(both)
  BY <1>2 DEF PairsShape
<1> QED BY <1>1, <1>2, <1>3, <1>4, <1>5

(* The rows of every texel, block and plane format                            *)
LEMMA TableRows == TexelRows(TexelFormats) /\ BlockRows(BlockFormats) /\ PlaneRows(PlaneFormats)
<1>1. TexelRows(ByteFormats) /\ TexelRows(WordFormats) /\ TexelRows(PackedFormats) /\ TexelRows(WideFormats)
  BY DEF TexelRows, ByteFormats, WordFormats, PackedFormats, WideFormats
<1>2. BlockRows(BcFormats) /\ BlockRows(BcLateFormats) /\ BlockRows(EtcFormats)
  BY DEF BlockRows, BcFormats, BcLateFormats, EtcFormats
<1>3. BlockRows(AstcSmallFormats) /\ BlockRows(AstcMiddleFormats) /\ BlockRows(AstcLargeFormats)
  BY DEF BlockRows, AstcSmallFormats, AstcMiddleFormats, AstcLargeFormats
<1>4. PlaneRows(PlaneFormats)
  BY DEF PlaneRows, PlaneFormats
<1> QED BY <1>1, <1>2, <1>3, <1>4, TablesJoin DEF TexelFormats, BlockFormats, AstcFormats

(* Partners in the block tables                                               *)
LEMMA TablesPair ==
  /\ PairsShape(BlockFormats)
  /\ DOMAIN BlockFormats \cap DOMAIN PlaneFormats = {}
  /\ \A f \in DOMAIN SrgbOf : f \notin DOMAIN BlockFormats
                              => /\ {f, SrgbOf[f]} \cap DOMAIN BlockFormats = {}
  /\ "None" \notin DOMAIN TexelFormats \cup DOMAIN BlockFormats \cup DOMAIN PlaneFormats
<1>1. PairsShape(BcFormats) /\ PairsShape(BcLateFormats) /\ PairsShape(EtcFormats)
  BY DEF PairsShape, BcFormats, BcLateFormats, EtcFormats, SrgbOf
<1>2. PairsShape(AstcSmallFormats) /\ PairsShape(AstcMiddleFormats) /\ PairsShape(AstcLargeFormats)
  BY DEF PairsShape, AstcSmallFormats, AstcMiddleFormats, AstcLargeFormats, SrgbOf
<1>3. /\ DOMAIN BcFormats \cap DOMAIN BcLateFormats = {}
      /\ (DOMAIN BcFormats \cup DOMAIN BcLateFormats) \cap DOMAIN EtcFormats = {}
  BY DEF BcFormats, BcLateFormats, EtcFormats
<1>4. /\ DOMAIN AstcMiddleFormats \cap DOMAIN AstcLargeFormats = {}
      /\ DOMAIN AstcSmallFormats \cap (DOMAIN AstcMiddleFormats \cup DOMAIN AstcLargeFormats) = {}
  BY DEF AstcSmallFormats, AstcMiddleFormats, AstcLargeFormats
<1>5. (DOMAIN BcFormats \cup DOMAIN BcLateFormats \cup DOMAIN EtcFormats)
        \cap (DOMAIN AstcSmallFormats \cup DOMAIN AstcMiddleFormats \cup DOMAIN AstcLargeFormats) = {}
  BY DEF BcFormats, BcLateFormats, EtcFormats, AstcSmallFormats, AstcMiddleFormats, AstcLargeFormats
<1>6. DOMAIN BlockFormats = DOMAIN BcFormats \cup DOMAIN BcLateFormats \cup DOMAIN EtcFormats
                            \cup DOMAIN AstcSmallFormats \cup DOMAIN AstcMiddleFormats \cup DOMAIN AstcLargeFormats
  BY DEF BlockFormats, AstcFormats, BothTables
<1>7. PairsShape(BlockFormats)
  <2>1. PairsShape(AstcFormats) /\ DOMAIN AstcFormats = DOMAIN AstcSmallFormats \cup DOMAIN AstcMiddleFormats
                                                        \cup DOMAIN AstcLargeFormats
    <3>1. PICK lower : lower = BothTables(AstcMiddleFormats, AstcLargeFormats)
      OBVIOUS
    <3>2. DOMAIN lower = DOMAIN AstcMiddleFormats \cup DOMAIN AstcLargeFormats
      BY <3>1 DEF BothTables
    <3>3. PairsShape(lower)
      BY <1>2, <1>4, <3>1, TablesJoin
    <3>4. PairsShape(AstcFormats)
      BY <1>2, <1>4, <3>1, <3>2, <3>3, TablesJoin DEF AstcFormats
    <3>5. DOMAIN AstcFormats = DOMAIN AstcSmallFormats \cup DOMAIN lower
      BY <3>1 DEF AstcFormats, BothTables
    <3> QED BY <3>2, <3>4, <3>5
  <2>2. PairsShape(BothTables(BcFormats, BcLateFormats)) /\ PairsShape(BothTables(EtcFormats, AstcFormats))
    BY <1>1, <1>3, <1>5, <2>1, TablesJoin
  <2>3. DOMAIN BothTables(BcFormats, BcLateFormats) \cap DOMAIN BothTables(EtcFormats, AstcFormats) = {}
    BY <1>3, <1>5, <2>1 DEF BothTables
  <2> QED BY <2>2, <2>3, TablesJoin DEF BlockFormats
<1>8. DOMAIN BlockFormats \cap DOMAIN PlaneFormats = {} /\ "None" \notin DOMAIN BlockFormats \cup DOMAIN PlaneFormats
  BY <1>6 DEF BcFormats, BcLateFormats, EtcFormats, AstcSmallFormats, AstcMiddleFormats, AstcLargeFormats, PlaneFormats
<1>9. "None" \notin DOMAIN TexelFormats
  <2>1. DOMAIN TexelFormats = DOMAIN ByteFormats \cup DOMAIN WordFormats \cup DOMAIN PackedFormats \cup DOMAIN WideFormats
    BY DEF TexelFormats, BothTables
  <2> QED BY <2>1 DEF ByteFormats, WordFormats, PackedFormats, WideFormats
<1>10. ASSUME NEW f \in DOMAIN SrgbOf, f \notin DOMAIN BlockFormats
       PROVE  SrgbOf[f] \notin DOMAIN BlockFormats
  <2>1. f \in {"Rgba8Unorm", "Bgra8Unorm"}
    BY <1>6, <1>10 DEF SrgbOf, BcFormats, BcLateFormats, EtcFormats, AstcSmallFormats, AstcMiddleFormats, AstcLargeFormats
  <2>2. SrgbOf[f] \in {"Rgba8UnormSrgb", "Bgra8UnormSrgb"}
    BY <2>1 DEF SrgbOf
  <2> QED BY <1>6, <2>2 DEF BcFormats, BcLateFormats, EtcFormats, AstcSmallFormats, AstcMiddleFormats, AstcLargeFormats
<1> QED BY <1>7, <1>8, <1>9, <1>10

(* What every format has                                                      *)
LEMMA FormatRows ==
  ASSUME NEW f \in Format
  PROVE  /\ Semantics[f].class \in {"Color", "Depth", "Stencil", "DepthStencil"}
         /\ {Semantics[f].width, Semantics[f].height} \subseteq {1, 4, 5, 6, 8, 10, 12}
         /\ Semantics[f].color \in {0, 1, 2, 4, 8, 16}
         /\ Semantics[f].depth \in {0, 2, 4} /\ Semantics[f].stencil \in {0, 1}
         /\ f \in DOMAIN BlockFormats => /\ Semantics[f].width = BlockFormats[f][1]
                                         /\ Semantics[f].height = BlockFormats[f][2]
         /\ f \notin DOMAIN BlockFormats => Semantics[f].width = 1 /\ Semantics[f].height = 1
<1>1. f \in DOMAIN TexelFormats \cup DOMAIN BlockFormats \cup DOMAIN PlaneFormats
  BY DEF Format, Semantics
<1>2. CASE f \in DOMAIN PlaneFormats
  <2>1. PICK t, row : t = PlaneFormats[f] /\ row = Semantics[f] /\ row = PlaneRow(f, t)
    BY <1>1, <1>2 DEF Semantics
  <2>2. row.class = t[1] /\ row.width = 1 /\ row.height = 1 /\ row.color = 0 /\ row.depth = t[2] /\ row.stencil = t[3]
    BY <2>1 DEF PlaneRow, Row
  <2> QED BY <1>2, <2>1, <2>2, TableRows, TablesPair DEF PlaneRows
<1>3. CASE f \in DOMAIN BlockFormats /\ f \notin DOMAIN PlaneFormats
  <2>1. PICK t, row : t = BlockFormats[f] /\ row = Semantics[f] /\ row = BlockRow(f, t)
    BY <1>1, <1>3 DEF Semantics
  <2>2. row.class = "Color" /\ row.width = t[1] /\ row.height = t[2] /\ row.color = t[3] /\ row.depth = 0 /\ row.stencil = 0
    BY <2>1 DEF BlockRow, Row
  <2> QED BY <1>3, <2>1, <2>2, TableRows DEF BlockRows
<1>4. CASE f \notin DOMAIN BlockFormats /\ f \notin DOMAIN PlaneFormats
  <2>1. PICK t, row : t = TexelFormats[f] /\ row = Semantics[f] /\ row = TexelRow(f, t)
    BY <1>1, <1>4 DEF Semantics
  <2>2. row.class = "Color" /\ row.width = 1 /\ row.height = 1 /\ row.color = t[1] /\ row.depth = 0 /\ row.stencil = 0
    BY <2>1 DEF TexelRow, Row
  <2> QED BY <1>1, <1>4, <2>1, <2>2, TableRows DEF TexelRows
<1> QED BY <1>2, <1>3, <1>4

(* Formats that copy into each other have blocks of one shape                 *)
LEMMA CompatibleBlocks ==
  ASSUME NEW f \in Format, NEW g \in Format, CopyCompatible(f, g)
  PROVE  Semantics[f].width = Semantics[g].width /\ Semantics[f].height = Semantics[g].height
<1>1. ASSUME NEW h \in DOMAIN SrgbOf, h \in Format, SrgbOf[h] \in Format
      PROVE  Semantics[h].width = Semantics[SrgbOf[h]].width /\ Semantics[h].height = Semantics[SrgbOf[h]].height
  <2>1. CASE h \in DOMAIN BlockFormats
    <3>1. PICK e : e = SrgbOf[h]
      OBVIOUS
    <3>2. e \in DOMAIN BlockFormats /\ BlockFormats[e][1] = BlockFormats[h][1] /\ BlockFormats[e][2] = BlockFormats[h][2]
      BY <1>1, <2>1, <3>1, TablesPair DEF PairsShape
    <3> QED BY <1>1, <2>1, <3>1, <3>2, FormatRows
  <2>2. CASE h \notin DOMAIN BlockFormats
    <3>1. SrgbOf[h] \notin DOMAIN BlockFormats
      BY <1>1, <2>2, TablesPair
    <3> QED BY <1>1, <2>2, <3>1, FormatRows
  <2> QED BY <2>1, <2>2
<1>2. CASE f = g
  BY <1>2
<1>3. CASE Semantics[f].pair = g
  <2>1. PICK class, width, height, color, depth, stencil, scalar, components :
          Semantics[f] = Row(f, class, width, height, color, depth, stencil, scalar, components)
    <3>1. Semantics[f] = IF f \in DOMAIN PlaneFormats THEN PlaneRow(f, PlaneFormats[f])
                         ELSE IF f \in DOMAIN BlockFormats THEN BlockRow(f, BlockFormats[f])
                         ELSE TexelRow(f, TexelFormats[f])
      BY DEF Format, Semantics
    <3> QED BY <3>1, Zenon DEF PlaneRow, BlockRow, TexelRow
  <2>2. Semantics[f].pair = IF \E h \in DOMAIN SrgbOf : SrgbOf[h] = f THEN CHOOSE h \in DOMAIN SrgbOf : SrgbOf[h] = f
                            ELSE IF f \in DOMAIN SrgbOf THEN SrgbOf[f] ELSE "None"
    BY <2>1 DEF Row
  <2>3. g # "None"
    BY TablesPair DEF Format, Semantics
  <2>4. (g \in DOMAIN SrgbOf /\ SrgbOf[g] = f) \/ (f \in DOMAIN SrgbOf /\ SrgbOf[f] = g)
    BY <1>3, <2>2, <2>3
  <2> QED BY <1>1, <2>4
<1> QED BY <1>2, <1>3 DEF CopyCompatible

-----------------------------------------------------------------------------
(* Planes *)

LEMMA FormatClasses ==
  ASSUME NEW f \in Format
  PROVE  Semantics[f].class \in {"Color", "Depth", "Stencil", "DepthStencil"}
BY FormatRows

LEMMA ColorPlanes ==
  ASSUME NEW f \in Format, ~IsDepth(f), ~IsStencil(f), NEW a, SupportsAspect(f, a)
  PROVE  AspectPlanes(f, a) = {"Color"}
<1>1. Semantics[f].class = "Color"
  BY FormatClasses DEF IsDepth, IsStencil
<1>2. ClassAspects("Color") = {"Color"}
  BY DEF ClassAspects
<1>3. Supports("Color", a)
  BY <1>1 DEF SupportsAspect
<1>4. AspectOf("Color", a) = "Color"
  <2>1. (CHOOSE x \in {"Color"} : TRUE) = "Color"
    OBVIOUS
  <2> QED BY <1>2, <1>3, <2>1 DEF AspectOf, Supports
<1> QED BY <1>1, <1>4 DEF AspectPlanes, FormatAspect

LEMMA PlaneOfAspect ==
  ASSUME NEW f \in Format, NEW a, SupportsAspect(f, a), NEW b \in {"DepthOnly", "StencilOnly"},
         AspectPlanes(f, a) \cap AspectPlanes(f, b) # {}
  PROVE  AspectPlanes(f, a) \cap AspectPlanes(f, b) = {b}
<1>1. PICK c \in {"Color", "Depth", "Stencil", "DepthStencil"} : c = Semantics[f].class
  BY FormatClasses
<1>2. /\ ClassAspects("Color") = {"Color"} /\ ClassAspects("Depth") = {"DepthOnly"}
      /\ ClassAspects("Stencil") = {"StencilOnly"} /\ ClassAspects("DepthStencil") = {"DepthOnly", "StencilOnly"}
  BY DEF ClassAspects
<1>3. /\ AspectPlanes(f, b) = IF AspectOf(c, b) = "All" THEN {"DepthOnly", "StencilOnly"} ELSE {AspectOf(c, b)}
      /\ AspectPlanes(f, a) = IF AspectOf(c, a) = "All" THEN {"DepthOnly", "StencilOnly"} ELSE {AspectOf(c, a)}
  BY <1>1 DEF AspectPlanes, FormatAspect
<1>4. Supports(c, a)
  BY <1>1 DEF SupportsAspect
<1>5. AspectOf(c, b) = b \/ AspectOf(c, b) = "None"
  BY DEF AspectOf
<1>6. AspectOf(c, a) # "None"
  <2>1. CASE a = "All" /\ c = "DepthStencil"
    BY <1>4, <2>1 DEF AspectOf
  <2>2. CASE a = "All" /\ c # "DepthStencil"
    <3>1. PICK x : x = CHOOSE y \in ClassAspects(c) : TRUE
      OBVIOUS
    <3>2. \E y : y \in ClassAspects(c)
      BY <1>2, <2>2
    <3>3. x \in ClassAspects(c)
      BY <3>1, <3>2
    <3>4. AspectOf(c, a) = x
      BY <1>4, <2>2, <3>1 DEF AspectOf
    <3> QED BY <1>2, <2>2, <3>3, <3>4
  <2>3. CASE a # "All"
    <3>1. AspectOf(c, a) = a /\ a \in ClassAspects(c)
      BY <1>4, <2>3 DEF AspectOf, Supports
    <3> QED BY <1>2, <3>1
  <2> QED BY <2>1, <2>2, <2>3
<1>7. "None" \notin AspectPlanes(f, a)
  BY <1>3, <1>6
<1>8. AspectPlanes(f, b) = {b}
  <2>1. AspectOf(c, b) # "None"
    <3>1. SUFFICES ASSUME AspectOf(c, b) = "None" PROVE FALSE
      OBVIOUS
    <3>2. AspectPlanes(f, b) = {"None"}
      BY <1>3, <3>1
    <3> QED BY <1>7, <3>2
  <2> QED BY <1>3, <1>5, <2>1
<1> QED BY <1>8

-----------------------------------------------------------------------------
(* What a pass writes *)

Cells(v, planes) == {v.texture} \X {v.mip} \X (v.layer .. v.layer + v.layers - 1) \X planes

DepthPlanes(z) == When(z.depth # {}, "DepthOnly") \cup When(z.stencil # {}, "StencilOnly")

WrittenColors(n)   == UNION {{<<"color", i>>} \X Cells(n.colors[i].view, {"Color"}) : i \in DOMAIN n.colors}
WrittenResolves(n) == UNION {{<<"resolve", i>>} \X (UNION {Cells(v, {"Color"}) : v \in n.colors[i].resolve}) :
                               i \in DOMAIN n.colors}
WrittenDepths(n)   == UNION {{<<"depth", 0>>} \X Cells(z.view, DepthPlanes(z)) : z \in n.depth}

LEMMA WrittenSplits == \A n : Written(n) = WrittenColors(n) \cup WrittenResolves(n) \cup WrittenDepths(n)
BY Zenon DEF Written, WrittenColors, WrittenResolves, WrittenDepths, Cells, DepthPlanes

ColorAttachmentUses(p) == UNION {{<<"color", i>>} \X ColorUses(p.colors[i]) : i \in DOMAIN p.colors}
DepthAttachmentUses(p) == UNION {{<<"depth", 0>>} \X DepthUses(z) : z \in p.depth}

LEMMA AttachmentUsesSplit == \A p : AttachmentUses(p) = ColorAttachmentUses(p) \cup DepthAttachmentUses(p)
BY Zenon DEF AttachmentUses, ColorAttachmentUses, DepthAttachmentUses

LEMMA WrittenParts ==
  ASSUME NEW n, NEW w \in Written(n)
  PROVE  \/ \E i \in DOMAIN n.colors : w \in {<<"color", i>>} \X Cells(n.colors[i].view, {"Color"})
         \/ \E i \in DOMAIN n.colors : \E v \in n.colors[i].resolve : w \in {<<"resolve", i>>} \X Cells(v, {"Color"})
         \/ \E z \in n.depth : w \in {<<"depth", 0>>} \X Cells(z.view, DepthPlanes(z))
<1>1. w \in WrittenColors(n) \/ w \in WrittenResolves(n) \/ w \in WrittenDepths(n)
  BY WrittenSplits
<1>2. CASE w \in WrittenColors(n)
  BY <1>2, Zenon DEF WrittenColors
<1>3. CASE w \in WrittenResolves(n)
  <2>1. PICK i \in DOMAIN n.colors :
          w \in {<<"resolve", i>>} \X (UNION {Cells(v, {"Color"}) : v \in n.colors[i].resolve})
    BY <1>3, Zenon DEF WrittenResolves
  <2>2. w = <<w[1], w[2]>> /\ w[1] = <<"resolve", i>> /\ w[2] \in UNION {Cells(v, {"Color"}) : v \in n.colors[i].resolve}
    BY <2>1
  <2>3. PICK v \in n.colors[i].resolve : w[2] \in Cells(v, {"Color"})
    BY <2>2
  <2>4. w \in {<<"resolve", i>>} \X Cells(v, {"Color"})
    BY <2>2, <2>3
  <2> QED BY <2>4
<1>4. CASE w \in WrittenDepths(n)
  BY <1>4, Zenon DEF WrittenDepths
<1> QED BY <1>1, <1>2, <1>3, <1>4, Zenon

(* A cell of a view lies in its use of an aspect whose planes it covers           *)
LEMMA CellsInUse ==
  ASSUME NEW v, TypedView(v), ValidAttachmentView(v), NEW kind, NEW aspect, NEW planes,
         planes = AspectPlanes(Parent(v).format, v.aspect) \cap AspectPlanes(Parent(v).format, aspect),
         NEW c \in Cells(v, planes)
  PROVE  /\ ViewUse(kind, v, aspect).kind = kind
         /\ ViewUse(kind, v, aspect).on = <<"texture", c[1]>>
         /\ c[2] \in ViewUse(kind, v, aspect).mips /\ c[3] \in ViewUse(kind, v, aspect).layers
         /\ c[4] \in ViewUse(kind, v, aspect).planes
<1>1. c[1] = v.texture /\ c[2] = v.mip /\ c[3] \in v.layer .. v.layer + v.layers - 1 /\ c[4] \in planes
  <2>1. \A A, B, C, D : c \in A \X B \X C \X D => c[1] \in A /\ c[2] \in B /\ c[3] \in C /\ c[4] \in D
    OBVIOUS
  <2>2. c[1] \in {v.texture} /\ c[2] \in {v.mip} /\ c[3] \in v.layer .. v.layer + v.layers - 1 /\ c[4] \in planes
    BY <2>1, Zenon DEF Cells
  <2> QED BY <2>2
<1>2. v.mip \in Nat /\ v.mips = 1
  BY DEF TypedView, ValidAttachmentView
<1>3. v.mip \in v.mip .. v.mip + v.mips - 1
  BY <1>2
<1> QED BY <1>1, <1>3 DEF ViewUse

ReachesCell(u, c) ==
  /\ u.on = <<"texture", c[1]>> /\ c[2] \in u.mips /\ c[3] \in u.layers /\ c[4] \in u.planes
  /\ UsageClass(u.kind) = "Attachment"

(* A writer is the attachment of the use it writes through, or its resolve target  *)
Writer(use) == IF use[2].kind = "Resolve" THEN <<"resolve", use[1][2]>> ELSE use[1]

ValidAttachments(p) ==
  /\ \A i \in DOMAIN p.colors : /\ ValidColor(p.colors[i]) /\ TypedView(p.colors[i].view)
                                /\ \A v \in p.colors[i].resolve : TypedView(v)
  /\ \A z \in p.depth : /\ ValidDepthAttachment(z) /\ TypedView(z.view)
                        /\ \A state \in z.depth \cup z.stencil : state.access \in DOMAIN DepthKind

LEMMA AttachmentKinds ==
  /\ UsageClass("ColorAttachment") = "Attachment" /\ UsageClass("Resolve") = "Attachment"
  /\ UsageClass("DepthReadWrite") = "Attachment"
BY DEF UsageClass

LEMMA ColorWriters ==
  ASSUME NEW p, ValidAttachments(p), NEW i \in DOMAIN p.colors,
         NEW c \in Cells(p.colors[i].view, {"Color"})
  PROVE  \E use \in AttachmentUses(p) : use = <<use[1], use[2]>> /\ ReachesCell(use[2], c) /\ Writer(use) = <<"color", i>>
<1>1. PICK v : v = p.colors[i].view
  OBVIOUS
<1>2. TypedView(v) /\ ValidAttachmentView(v) /\ ColorUsable(v)
  BY <1>1 DEF ValidAttachments, ValidColor
<1>3. Parent(v).format \in Format /\ SupportsAspect(Parent(v).format, v.aspect)
  BY <1>2 DEF TypedView, ValidAttachmentView, ValidView
<1>4. AspectPlanes(Parent(v).format, v.aspect) = {"Color"}
  BY <1>2, <1>3, ColorPlanes DEF ColorUsable
<1>5. PICK u : u = ViewUse("ColorAttachment", v, v.aspect)
  OBVIOUS
<1>6. ReachesCell(u, c) /\ u.kind = "ColorAttachment"
  <2>1. {"Color"} = AspectPlanes(Parent(v).format, v.aspect) \cap AspectPlanes(Parent(v).format, v.aspect)
    BY <1>4
  <2>2. c \in Cells(v, {"Color"})
    BY <1>1
  <2> QED BY <1>2, <1>5, <2>1, <2>2, CellsInUse, AttachmentKinds DEF ReachesCell
<1>7. u \in ColorUses(p.colors[i])
  BY <1>1, <1>5 DEF ColorUses
<1>8. PICK use : use = <<<<"color", i>>, u>>
  OBVIOUS
<1>9. use \in AttachmentUses(p)
  <2>1. use \in {<<"color", i>>} \X ColorUses(p.colors[i])
    BY <1>7, <1>8
  <2>2. use \in ColorAttachmentUses(p)
    BY <2>1, Zenon DEF ColorAttachmentUses
  <2> QED BY <2>2, AttachmentUsesSplit
<1>10. use = <<use[1], use[2]>> /\ use[2] = u /\ Writer(use) = <<"color", i>>
  BY <1>6, <1>8 DEF Writer
<1> QED BY <1>6, <1>9, <1>10

LEMMA ResolveWriters ==
  ASSUME NEW p, ValidAttachments(p), NEW i \in DOMAIN p.colors, NEW v \in p.colors[i].resolve,
         NEW c \in Cells(v, {"Color"})
  PROVE  \E use \in AttachmentUses(p) : use = <<use[1], use[2]>> /\ ReachesCell(use[2], c) /\ Writer(use) = <<"resolve", i>>
<1>2. TypedView(v) /\ ValidAttachmentView(v) /\ ColorUsable(v)
  BY DEF ValidAttachments, ValidColor, ValidResolve
<1>3. Parent(v).format \in Format /\ SupportsAspect(Parent(v).format, v.aspect)
  BY <1>2 DEF TypedView, ValidAttachmentView, ValidView
<1>4. AspectPlanes(Parent(v).format, v.aspect) = {"Color"}
  BY <1>2, <1>3, ColorPlanes DEF ColorUsable
<1>5. PICK u : u = ViewUse("Resolve", v, v.aspect)
  OBVIOUS
<1>6. ReachesCell(u, c) /\ u.kind = "Resolve"
  <2>1. {"Color"} = AspectPlanes(Parent(v).format, v.aspect) \cap AspectPlanes(Parent(v).format, v.aspect)
    BY <1>4
  <2> QED BY <1>2, <1>5, <2>1, CellsInUse, AttachmentKinds DEF ReachesCell
<1>7. u \in ColorUses(p.colors[i])
  BY <1>5 DEF ColorUses
<1>8. PICK use : use = <<<<"color", i>>, u>>
  OBVIOUS
<1>9. use \in AttachmentUses(p)
  <2>1. use \in {<<"color", i>>} \X ColorUses(p.colors[i])
    BY <1>7, <1>8
  <2>2. use \in ColorAttachmentUses(p)
    BY <2>1, Zenon DEF ColorAttachmentUses
  <2> QED BY <2>2, AttachmentUsesSplit
<1>10. use = <<use[1], use[2]>> /\ use[2] = u /\ use[1] = <<"color", i>>
  BY <1>8
<1>11. Writer(use) = <<"resolve", i>>
  BY <1>6, <1>10 DEF Writer
<1> QED BY <1>6, <1>9, <1>10, <1>11

(* An aspect the device writes has a use that writes it                          *)
LEMMA AspectWriters ==
  ASSUME NEW p, ValidAttachments(p), NEW z \in p.depth, NEW aspect \in {"DepthOnly", "StencilOnly"},
         NEW states, states = IF aspect = "DepthOnly" THEN z.depth ELSE z.stencil,
         Operations(states) # {}, NEW c \in Cells(z.view, {aspect})
  PROVE  \E use \in AttachmentUses(p) : use = <<use[1], use[2]>> /\ ReachesCell(use[2], c) /\ Writer(use) = <<"depth", 0>>
<1>1. PICK v : v = z.view
  OBVIOUS
<1>2. TypedView(v) /\ ValidAttachmentView(v)
  BY <1>1 DEF ValidAttachments, ValidDepthAttachment
<1>3. Parent(v).format \in Format /\ SupportsAspect(Parent(v).format, v.aspect)
  BY <1>2 DEF TypedView, ValidAttachmentView, ValidView
<1>4. PICK state \in states : state.access = "ReadWrite"
  BY DEF Operations
<1>5. ViewUse("", v, aspect).planes # {}
  <2>1. CASE aspect = "DepthOnly"
    BY <1>1, <1>4, <2>1 DEF ValidAttachments, ValidDepthAttachment
  <2>2. CASE aspect = "StencilOnly"
    BY <1>1, <1>4, <2>2 DEF ValidAttachments, ValidDepthAttachment
  <2> QED BY <2>1, <2>2
<1>6. {aspect} = AspectPlanes(Parent(v).format, v.aspect) \cap AspectPlanes(Parent(v).format, aspect)
  <2>1. AspectPlanes(Parent(v).format, v.aspect) \cap AspectPlanes(Parent(v).format, aspect) # {}
    BY <1>5 DEF ViewUse
  <2> QED BY <1>3, <2>1, PlaneOfAspect
<1>7. PICK u : u = ViewUse("DepthReadWrite", v, aspect)
  OBVIOUS
<1>8. ReachesCell(u, c) /\ u.kind = "DepthReadWrite"
  BY <1>1, <1>2, <1>6, <1>7, CellsInUse, AttachmentKinds DEF ReachesCell
<1>9. u \in DepthUses(z)
  <2>1. DepthKind[state.access] = "DepthReadWrite"
    BY <1>4 DEF DepthKind
  <2>2. CASE aspect = "DepthOnly"
    BY <1>1, <1>4, <1>7, <2>1, <2>2 DEF DepthUses
  <2>3. CASE aspect = "StencilOnly"
    BY <1>1, <1>4, <1>7, <2>1, <2>3 DEF DepthUses
  <2> QED BY <2>2, <2>3
<1>10. PICK use : use = <<<<"depth", 0>>, u>>
  OBVIOUS
<1>11. use \in AttachmentUses(p)
  <2>1. use \in {<<"depth", 0>>} \X DepthUses(z)
    BY <1>9, <1>10
  <2>2. use \in DepthAttachmentUses(p)
    BY <2>1, Zenon DEF DepthAttachmentUses
  <2> QED BY <2>2, AttachmentUsesSplit
<1>12. use = <<use[1], use[2]>> /\ use[2] = u /\ Writer(use) = <<"depth", 0>>
  BY <1>8, <1>10 DEF Writer
<1> QED BY <1>8, <1>11, <1>12

LEMMA CellParts ==
  ASSUME NEW v, NEW planes, NEW c
  PROVE  c \in Cells(v, planes) <=>
            /\ c = <<c[1], c[2], c[3], c[4]>> /\ c[1] = v.texture /\ c[2] = v.mip
            /\ c[3] \in v.layer .. v.layer + v.layers - 1 /\ c[4] \in planes
<1>1. PICK T, M, L : T = {v.texture} /\ M = {v.mip} /\ L = v.layer .. v.layer + v.layers - 1
  OBVIOUS
<1>2. Cells(v, planes) = T \X M \X L \X planes
  BY <1>1, Zenon DEF Cells
<1>3. c \in T \X M \X L \X planes
      <=> c = <<c[1], c[2], c[3], c[4]>> /\ c[1] \in T /\ c[2] \in M /\ c[3] \in L /\ c[4] \in planes
  BY SMT
<1> QED BY <1>1, <1>2, <1>3

(* Each cell the encoded pass writes is written through one of its attachment uses   *)
LEMMA WriterOfCell ==
  ASSUME NEW p, ValidAttachments(p), NEW w \in Written(NativePass(p))
  PROVE  /\ w = <<w[1], w[2]>>
         /\ \E use \in AttachmentUses(p) : /\ use = <<use[1], use[2]>> /\ ReachesCell(use[2], w[2])
                                           /\ Writer(use) = w[1]
<1>1. PICK n : n = NativePass(p)
  OBVIOUS
<1>2. /\ n.colors = p.colors
      /\ n.depth = {[view |-> z.view, depth |-> Operations(z.depth), stencil |-> Operations(z.stencil)] : z \in p.depth}
  BY <1>1 DEF NativePass
<1>3. CASE \E i \in DOMAIN n.colors : w \in {<<"color", i>>} \X Cells(n.colors[i].view, {"Color"})
  <2>1. PICK i \in DOMAIN p.colors : w \in {<<"color", i>>} \X Cells(p.colors[i].view, {"Color"})
    BY <1>2, <1>3
  <2>2. w = <<w[1], w[2]>> /\ w[1] = <<"color", i>> /\ w[2] \in Cells(p.colors[i].view, {"Color"})
    BY <2>1
  <2> QED BY <2>2, ColorWriters
<1>4. CASE \E i \in DOMAIN n.colors : \E v \in n.colors[i].resolve : w \in {<<"resolve", i>>} \X Cells(v, {"Color"})
  <2>1. PICK i \in DOMAIN p.colors : \E v \in p.colors[i].resolve : w \in {<<"resolve", i>>} \X Cells(v, {"Color"})
    BY <1>2, <1>4
  <2>2. PICK v \in p.colors[i].resolve : w \in {<<"resolve", i>>} \X Cells(v, {"Color"})
    BY <2>1
  <2>3. w = <<w[1], w[2]>> /\ w[1] = <<"resolve", i>> /\ w[2] \in Cells(v, {"Color"})
    BY <2>2
  <2> QED BY <2>3, ResolveWriters
<1>5. CASE \E y \in n.depth : w \in {<<"depth", 0>>} \X Cells(y.view, DepthPlanes(y))
  <2>1. PICK y \in n.depth : w \in {<<"depth", 0>>} \X Cells(y.view, DepthPlanes(y))
    BY <1>5
  <2>2. PICK z \in p.depth : y = [view |-> z.view, depth |-> Operations(z.depth), stencil |-> Operations(z.stencil)]
    BY <1>2
  <2>3. y.view = z.view /\ y.depth = Operations(z.depth) /\ y.stencil = Operations(z.stencil)
    BY <2>2
  <2>4. w = <<w[1], w[2]>> /\ w[1] = <<"depth", 0>> /\ w[2] \in Cells(z.view, DepthPlanes(y))
    BY <2>1, <2>3
  <2>5. PICK aspect : aspect = w[2][4] /\ aspect \in DepthPlanes(y) /\ w[2] \in Cells(z.view, {aspect})
    BY <2>4, CellParts
  <2>6. CASE aspect = "DepthOnly"
    <3>1. Operations(z.depth) # {}
      BY <2>3, <2>5, <2>6 DEF DepthPlanes, When
    <3> QED BY <2>4, <2>5, <2>6, <3>1, AspectWriters
  <2>7. CASE aspect = "StencilOnly"
    <3>1. Operations(z.stencil) # {}
      BY <2>3, <2>5, <2>7 DEF DepthPlanes, When
    <3> QED BY <2>4, <2>5, <2>7, <3>1, AspectWriters
  <2>8. aspect = "DepthOnly" \/ aspect = "StencilOnly"
    BY <2>5 DEF DepthPlanes, When
  <2> QED BY <2>6, <2>7, <2>8
<1> QED BY <1>1, <1>3, <1>4, <1>5, WrittenParts

-----------------------------------------------------------------------------
(* The usage scope *)

DrawUsesOf(p)  == UNION {{<<"draw", 0>>} \X DrawUses(p.draws[i]) : i \in DOMAIN p.draws}
UsedByDraws(p) == UNION {DrawUses(p.draws[i]) : i \in DOMAIN p.draws}

LEMMA ScopeHolds ==
  ASSUME NEW p, ValidScope(p),
         NEW u \in AttachmentUses(p) \cup DrawUsesOf(p), NEW w \in AttachmentUses(p) \cup DrawUsesOf(p),
         u # w, Meets(u[2], w[2])
  PROVE  UsageClass(u[2].kind) = UsageClass(w[2].kind) /\ UsageClass(u[2].kind) # "Attachment"
BY Zenon DEF ValidScope, DrawUsesOf

LEMMA DrawsInScope ==
  ASSUME NEW p, NEW u \in UsedByDraws(p)
  PROVE  \E use \in DrawUsesOf(p) : use = <<<<"draw", 0>>, u>> /\ use[1] = <<"draw", 0>> /\ use[2] = u
<1>1. PICK i \in DOMAIN p.draws : u \in DrawUses(p.draws[i])
  BY DEF UsedByDraws
<1>2. PICK use : use = <<<<"draw", 0>>, u>>
  OBVIOUS
<1>3. use[1] = <<"draw", 0>> /\ use[2] = u
  BY <1>2
<1>4. use \in {<<"draw", 0>>} \X DrawUses(p.draws[i])
  BY <1>1, <1>2
<1>5. use \in DrawUsesOf(p)
  BY <1>4, Zenon DEF DrawUsesOf
<1> QED BY <1>2, <1>3, <1>5

LEMMA AttachmentTags ==
  ASSUME NEW p, NEW use \in AttachmentUses(p)
  PROVE  use[1][1] \in {"color", "depth"}
<1>1. CASE use \in ColorAttachmentUses(p)
  <2>1. PICK i \in DOMAIN p.colors : use \in {<<"color", i>>} \X ColorUses(p.colors[i])
    BY <1>1, Zenon DEF ColorAttachmentUses
  <2> QED BY <2>1
<1>2. CASE use \in DepthAttachmentUses(p)
  <2>1. PICK z \in p.depth : use \in {<<"depth", 0>>} \X DepthUses(z)
    BY <1>2, Zenon DEF DepthAttachmentUses
  <2> QED BY <2>1
<1> QED BY <1>1, <1>2, AttachmentUsesSplit

LEMMA OneWriter ==
  ASSUME NEW p, ValidAttachments(p), ValidScope(p),
         NEW a \in Written(NativePass(p)), NEW b \in Written(NativePass(p)), a[2] = b[2]
  PROVE  a = b
<1>1. a = <<a[1], a[2]>> /\ b = <<b[1], b[2]>>
  BY WriterOfCell
<1>2. PICK u \in AttachmentUses(p) : ReachesCell(u[2], a[2]) /\ Writer(u) = a[1]
  BY WriterOfCell
<1>3. PICK w \in AttachmentUses(p) : ReachesCell(w[2], a[2]) /\ Writer(w) = b[1]
  BY WriterOfCell
<1>4. Meets(u[2], w[2])
  BY <1>2, <1>3 DEF Meets, ReachesCell
<1>5. UsageClass(u[2].kind) = "Attachment"
  BY <1>2 DEF ReachesCell
<1>6. u = w
  BY <1>4, <1>5, ScopeHolds
<1> QED BY <1>1, <1>2, <1>3, <1>6

LEMMA NoFeedback ==
  ASSUME NEW p, ValidAttachments(p), ValidScope(p), NEW w \in Written(NativePass(p)),
         NEW u \in UsedByDraws(p), u.on = <<"texture", u.on[2]>>
  PROVE  w[2] \notin Touched(u)
<1>1. SUFFICES ASSUME w[2] \in Touched(u) PROVE FALSE
  OBVIOUS
<1>2. PICK c : c = w[2]
  OBVIOUS
<1>3. c[1] = u.on[2] /\ c[2] \in u.mips /\ c[3] \in u.layers /\ c[4] \in u.planes
  <2>1. \A A, B, C, D : c \in A \X B \X C \X D => c[1] \in A /\ c[2] \in B /\ c[3] \in C /\ c[4] \in D
    OBVIOUS
  <2>2. c[1] \in {u.on[2]} /\ c[2] \in u.mips /\ c[3] \in u.layers /\ c[4] \in u.planes
    BY <1>1, <1>2, <2>1, Zenon DEF Touched
  <2> QED BY <2>2
<1>4. PICK a \in AttachmentUses(p) : ReachesCell(a[2], c)
  BY <1>2, WriterOfCell
<1>5. PICK use \in DrawUsesOf(p) : use[1] = <<"draw", 0>> /\ use[2] = u
  BY DrawsInScope
<1>6. Meets(a[2], use[2])
  BY <1>3, <1>4, <1>5 DEF Meets, ReachesCell
<1>7. a # use
  BY <1>5, AttachmentTags
<1> QED BY <1>4, <1>6, <1>7, ScopeHolds DEF ReachesCell

LEMMA StorageAlone ==
  ASSUME NEW p, ValidScope(p), NEW u \in UsedByDraws(p), NEW w \in UsedByDraws(p),
         u.kind \in {"StorageWrite", "StorageReadWrite"}, Meets(u, w)
  PROVE  w.kind \in {"StorageRead", "StorageWrite", "StorageReadWrite"}
<1>1. CASE u = w
  BY <1>1
<1>2. CASE u # w
  <2>1. PICK a \in DrawUsesOf(p) : a[2] = u
    BY DrawsInScope
  <2>2. PICK b \in DrawUsesOf(p) : b[2] = w
    BY DrawsInScope
  <2>3. UsageClass(u.kind) = UsageClass(w.kind)
    BY <1>2, <2>1, <2>2, ScopeHolds
  <2>4. UsageClass(u.kind) = "Storage"
    BY DEF UsageClass
  <2> QED BY <2>3, <2>4 DEF UsageClass
<1> QED BY <1>1, <1>2

-----------------------------------------------------------------------------
(* What the attachments of a pass share *)

LEMMA SharedFacts ==
  ASSUME NEW p, IsFiniteSet(Views(p)), Cardinality({Fact(v) : v \in Views(p)}) = 1, NEW v \in Views(p)
  PROVE  Fact(v) = Signature(p)
<1>1. PICK S : S = {Fact(x) : x \in Views(p)}
  OBVIOUS
<1>2. IsFiniteSet(S)
  <2>1. PICK f : f = [x \in Views(p) |-> Fact(x)]
    OBVIOUS
  <2>2. S = {f[x] : x \in Views(p)} /\ f \in [Views(p) -> {f[x] : x \in Views(p)}]
    BY <1>1, <2>1
  <2> QED BY <2>2, ImageIsFinite
<1>3. PICK fact : S = {fact}
  BY <1>1, <1>2, FS_Singleton
<1>4. PICK y : y = CHOOSE x \in Views(p) : TRUE
  OBVIOUS
<1>5. y \in Views(p) /\ Signature(p) = Fact(y)
  BY <1>4 DEF Signature
<1>6. Fact(v) \in S /\ Fact(y) \in S
  BY <1>1, <1>5
<1> QED BY <1>3, <1>5, <1>6

LEMMA ViewsAreFinite ==
  ASSUME NEW p, p.colors \in Seq({p.colors[i] : i \in DOMAIN p.colors}), IsFiniteSet(p.depth)
  PROVE  IsFiniteSet(Views(p))
<1>1. PICK A, B : A = {p.colors[i].view : i \in DOMAIN p.colors} /\ B = {z.view : z \in p.depth}
  OBVIOUS
<1>2. IsFiniteSet(A)
  <2>1. DOMAIN p.colors = 1 .. Len(p.colors) /\ Len(p.colors) \in Nat
    OBVIOUS
  <2>2. IsFiniteSet(DOMAIN p.colors)
    <3>1. \A n \in Nat : IsFiniteSet(1 .. n)
      BY FS_Interval
    <3> QED BY <2>1, <3>1
  <2>3. PICK f : f = [i \in DOMAIN p.colors |-> p.colors[i].view]
    OBVIOUS
  <2>4. A = {f[i] : i \in DOMAIN p.colors} /\ f \in [DOMAIN p.colors -> {f[i] : i \in DOMAIN p.colors}]
    BY <1>1, <2>3
  <2> QED BY <2>2, <2>4, ImageIsFinite
<1>3. IsFiniteSet(B)
  <2>1. PICK f : f = [z \in p.depth |-> z.view]
    OBVIOUS
  <2>2. B = {f[z] : z \in p.depth} /\ f \in [p.depth -> {f[z] : z \in p.depth}]
    BY <1>1, <2>1
  <2> QED BY <2>2, ImageIsFinite
<1> QED BY <1>1, <1>2, <1>3, FS_Union DEF Views

(* An operation the constructor accepted, with the draws made until then            *)
AcceptedPass(p, made) ==
  /\ p.colors \in ColorChoice /\ p.depth \in DepthChoice /\ p.draws = made
  /\ \A i \in DOMAIN p.colors : ValidColor(p.colors[i])
  /\ \A z \in p.depth : ValidDepthAttachment(z)
  /\ ValidPass(p)

AcceptedDraws(made) == made \in Seq(DrawChoice) /\ \A i \in DOMAIN made : ValidDraw(made[i])

LEMMA AcceptedAttachments ==
  ASSUME NEW p, NEW made, AcceptedPass(p, made)
  PROVE  ValidAttachments(p) /\ p.colors \in Seq({p.colors[i] : i \in DOMAIN p.colors}) /\ IsFiniteSet(p.depth)
BY RenderConstants DEF AcceptedPass, ValidAttachments

(* The views of an accepted pass agree on size, samples and view mask               *)
LEMMA ViewsAgree ==
  ASSUME NEW p, NEW made, AcceptedPass(p, made), NEW v \in Views(p)
  PROVE  /\ MipExtent(Parent(v), v.mip).width = Signature(p).width
         /\ MipExtent(Parent(v), v.mip).height = Signature(p).height
         /\ Parent(v).samples = Signature(p).samples
         /\ ViewMask(IF v.layers = 1 THEN 0 ELSE v.layers) = ViewMask(Signature(p).views)
<1>1. Fact(v) = Signature(p)
  BY AcceptedAttachments, ViewsAreFinite, SharedFacts DEF AcceptedPass, ValidPass
<1>2. /\ Fact(v).width = MipExtent(Parent(v), v.mip).width /\ Fact(v).height = MipExtent(Parent(v), v.mip).height
      /\ Fact(v).samples = Parent(v).samples /\ Fact(v).views = IF Layered(v) THEN v.layers ELSE 0
  BY DEF Fact
<1>3. ValidAttachmentView(v)
  BY DEF Views, AcceptedPass, ValidColor, ValidDepthAttachment
<1>4. (IF v.layers = 1 THEN 0 ELSE v.layers) = (IF Layered(v) THEN v.layers ELSE 0)
  BY <1>3 DEF ValidAttachmentView, Layered
<1> QED BY <1>1, <1>2, <1>4

(* An aspect a pipeline writes is one the device has operations for                 *)
LEMMA WritesHaveOperations ==
  ASSUME NEW p, NEW made, AcceptedPass(p, made), NEW d, DepthParity(p, d), NEW z \in p.depth,
         NEW x \in d.pipeline.state.depthStencil
  PROVE  /\ (\E part \in x.depth : part.write) => Operations(z.depth) # {}
         /\ (\E part \in x.stencil : MayWriteStencil(part)) => Operations(z.stencil) # {}
<1>1. \A state \in z.depth \cup z.stencil : state.access = "ReadOnly" \/ state.access = "ReadWrite"
  BY AcceptedAttachments DEF ValidAttachments, DepthKind
<1>2. ASSUME NEW part \in x.depth, part.write PROVE Operations(z.depth) # {}
  <2>1. PICK state \in z.depth : TRUE
    BY <1>2 DEF DepthParity
  <2>2. state.access = "ReadWrite"
    BY <1>1, <1>2, <2>1 DEF DepthParity
  <2> QED BY <2>1, <2>2 DEF Operations
<1>3. ASSUME NEW part \in x.stencil, MayWriteStencil(part) PROVE Operations(z.stencil) # {}
  <2>1. PICK state \in z.stencil : TRUE
    BY <1>3 DEF DepthParity
  <2>2. state.access = "ReadWrite"
    BY <1>1, <1>3, <2>1 DEF DepthParity
  <2> QED BY <2>1, <2>2 DEF Operations
<1> QED BY <1>2, <1>3

-----------------------------------------------------------------------------
(* The encoded pass *)

LEMMA TargetsAreList ==
  ASSUME NEW d, TypedDraw(d)
  PROVE  Len(Targets(d.pipeline.state)) \in Nat
         /\ DOMAIN Targets(d.pipeline.state) = 1 .. Len(Targets(d.pipeline.state))
<1>1. PICK s, t : s = d.pipeline.state /\ t = Targets(s)
  OBVIOUS
<1>2. CASE s.output = {}
  <2>1. t = <<>>
    BY <1>1, <1>2 DEF Targets
  <2> QED BY <1>1, <2>1
<1>3. CASE s.output # {}
  <2>1. t = CHOOSE targets \in s.output : TRUE
    BY <1>1, <1>3 DEF Targets
  <2>2. t \in s.output
    BY <1>3, <2>1
  <2>3. t \in Seq({t[i] : i \in DOMAIN t})
    BY <1>1, <2>2 DEF TypedDraw
  <2> QED BY <1>1, <2>3
<1> QED BY <1>2, <1>3

(* What PassesAreCoherent says of a draw that reached the encoded pass               *)
DrawFits(p, d, n) ==
  /\ d.pipeline.views = n.views
  /\ Len(Targets(d.pipeline.state)) = Len(n.colors)
  /\ \A k \in DOMAIN n.colors :
        /\ Targets(d.pipeline.state)[k].format = EffectiveFormat(n.colors[k].view)
        /\ d.pipeline.state.samples = Parent(n.colors[k].view).samples
  /\ (d.pipeline.state.depthStencil = {}) = (n.depth = {})
  /\ \A z \in n.depth, x \in d.pipeline.state.depthStencil :
        /\ (\E part \in x.depth : part.write) => z.depth # {}
        /\ (\E part \in x.stencil : MayWriteStencil(part)) => z.stencil # {}
  /\ \A v \in Views(p) :
        /\ d.scissor.x + d.scissor.width <= MipExtent(Parent(v), v.mip).width
        /\ d.scissor.y + d.scissor.height <= MipExtent(Parent(v), v.mip).height

LEMMA DrawsFit ==
  ASSUME NEW p, NEW made, AcceptedPass(p, made), NEW d, TypedDraw(d), MatchesPass(p, d), DepthParity(p, d)
  PROVE  DrawFits(p, NativeDraw(d), NativePass(p))
<1>1. PICK s, N, n : s = d.pipeline.state /\ N = NativeDraw(d) /\ n = NativePass(p)
  OBVIOUS
<1>2. N.pipeline.state = s /\ N.pipeline.views = ViewMask(s.views) /\ N.scissor = d.scissor
  BY <1>1 DEF NativeDraw
<1>3. /\ n.colors = p.colors /\ n.views = ViewMask(Signature(p).views)
      /\ n.depth = {[view |-> z.view, depth |-> Operations(z.depth), stencil |-> Operations(z.stencil)] : z \in p.depth}
  BY <1>1 DEF NativePass
<1>4. /\ [i \in DOMAIN Targets(s) |-> Targets(s)[i].format] = [i \in DOMAIN p.colors |-> EffectiveFormat(p.colors[i].view)]
      /\ {z.format : z \in s.depthStencil} = {EffectiveFormat(z.view) : z \in p.depth}
      /\ s.samples = Signature(p).samples /\ s.views = Signature(p).views
      /\ d.scissor.x + d.scissor.width <= Signature(p).width
      /\ d.scissor.y + d.scissor.height <= Signature(p).height
  BY <1>1, Zenon DEF MatchesPass
<1>5. N.pipeline.views = n.views
  BY <1>2, <1>3, <1>4
<1>6. Len(Targets(s)) = Len(n.colors)
  <2>1. DOMAIN Targets(s) = DOMAIN p.colors
    <3>1. PICK f, g : /\ f = [i \in DOMAIN Targets(s) |-> Targets(s)[i].format]
                      /\ g = [i \in DOMAIN p.colors |-> EffectiveFormat(p.colors[i].view)]
      OBVIOUS
    <3>2. DOMAIN f = DOMAIN Targets(s) /\ DOMAIN g = DOMAIN p.colors /\ f = g
      BY <1>4, <3>1
    <3> QED BY <3>2
  <2>2. Len(Targets(s)) \in Nat /\ DOMAIN Targets(s) = 1 .. Len(Targets(s))
    BY <1>1, TargetsAreList
  <2>3. Len(p.colors) \in Nat /\ DOMAIN p.colors = 1 .. Len(p.colors)
    BY AcceptedAttachments
  <2>4. \A a, b \in Nat : 1 .. a = 1 .. b => a = b
    OBVIOUS
  <2> QED BY <1>3, <2>1, <2>2, <2>3, <2>4
<1>7. ASSUME NEW k \in DOMAIN n.colors
      PROVE  Targets(s)[k].format = EffectiveFormat(n.colors[k].view) /\ s.samples = Parent(n.colors[k].view).samples
  <2>1. PICK f, g : /\ f = [i \in DOMAIN Targets(s) |-> Targets(s)[i].format]
                    /\ g = [i \in DOMAIN p.colors |-> EffectiveFormat(p.colors[i].view)]
    OBVIOUS
  <2>2. f = g /\ k \in DOMAIN p.colors
    BY <1>3, <1>4, <2>1
  <2>3. k \in DOMAIN g /\ k \in DOMAIN f
    BY <2>1, <2>2
  <2>4. f[k] = Targets(s)[k].format /\ g[k] = EffectiveFormat(p.colors[k].view)
    BY <2>1, <2>3
  <2>5. p.colors[k].view \in Views(p)
    BY <2>2 DEF Views
  <2>6. Parent(p.colors[k].view).samples = Signature(p).samples
    BY <2>5, ViewsAgree
  <2> QED BY <1>3, <1>4, <2>2, <2>4, <2>6
<1>8. (s.depthStencil = {}) = (n.depth = {})
  <2>1. s.depthStencil = {} <=> p.depth = {}
    BY <1>4
  <2>2. n.depth = {} <=> p.depth = {}
    BY <1>3
  <2> QED BY <2>1, <2>2
<1>9. ASSUME NEW z \in n.depth, NEW x \in s.depthStencil
      PROVE  /\ (\E part \in x.depth : part.write) => z.depth # {}
             /\ (\E part \in x.stencil : MayWriteStencil(part)) => z.stencil # {}
  <2>1. PICK y \in p.depth : z = [view |-> y.view, depth |-> Operations(y.depth), stencil |-> Operations(y.stencil)]
    BY <1>3
  <2>2. z.depth = Operations(y.depth) /\ z.stencil = Operations(y.stencil)
    BY <2>1
  <2> QED BY <1>1, <2>2, WritesHaveOperations
<1>10. ASSUME NEW v \in Views(p)
       PROVE  /\ N.scissor.x + N.scissor.width <= MipExtent(Parent(v), v.mip).width
              /\ N.scissor.y + N.scissor.height <= MipExtent(Parent(v), v.mip).height
  BY <1>2, <1>4, ViewsAgree
<1>11. DrawFits(p, N, n)
  <2>1. PICK t : t = N.pipeline.state
    OBVIOUS
  <2>2. t = s
    BY <1>2, <2>1
  <2>3. /\ Len(Targets(t)) = Len(n.colors)
        /\ \A k \in DOMAIN n.colors :
              Targets(t)[k].format = EffectiveFormat(n.colors[k].view) /\ t.samples = Parent(n.colors[k].view).samples
        /\ (t.depthStencil = {}) = (n.depth = {})
        /\ \A z \in n.depth, x \in t.depthStencil :
              /\ (\E part \in x.depth : part.write) => z.depth # {}
              /\ (\E part \in x.stencil : MayWriteStencil(part)) => z.stencil # {}
    BY <1>6, <1>7, <1>8, <1>9, <2>2
  <2> QED BY <1>5, <1>10, <2>1, <2>3, Zenon DEF DrawFits
<1> QED BY <1>1, <1>11

CoherentPass(p, n) ==
  LET used == UNION {DrawUses(p.draws[i]) : i \in DOMAIN p.draws}
      textureUses == {u \in used : u.on[1] = "texture"}
      written == Written(n)
  IN  /\ \A a, b \in written : a[2] = b[2] => a = b
      /\ \A u \in textureUses : Touched(u) \cap {w[2] : w \in written} = {}
      /\ \A u, w \in used : u.on = w.on /\ u.kind \in {"StorageWrite", "StorageReadWrite"} /\ Meets(u, w)
            => w.kind \in {"StorageRead", "StorageWrite", "StorageReadWrite"}
      /\ \A v \in Views(p) : /\ MipExtent(Parent(v), v.mip).width = Signature(p).width
                             /\ ViewMask(IF v.layers = 1 THEN 0 ELSE v.layers) = n.views
      /\ \A i \in DOMAIN n.draws : DrawFits(p, n.draws[i], n)

LEMMA DrawUsesAreTyped ==
  ASSUME NEW p, NEW made, AcceptedPass(p, made), AcceptedDraws(made), NEW u \in UsedByDraws(p), u.on[1] = "texture"
  PROVE  u.on = <<"texture", u.on[2]>>
<1>1. PICK i \in DOMAIN made : u \in DrawUses(made[i])
  BY DEF UsedByDraws, AcceptedPass
<1>2. PICK d : d = made[i]
  OBVIOUS
<1>3. TypedDraw(d)
  BY <1>1, <1>2, RenderConstants DEF AcceptedDraws
<1>4. CASE u \in d.bound.uses
  <2>1. u.on \in ({"buffer"} \X DOMAIN Stream) \cup ({"texture"} \X DOMAIN Canvas)
    BY <1>3, <1>4 DEF TypedDraw
  <2> QED BY <2>1
<1>5. CASE u \notin d.bound.uses
  <2>1. \E kind, slice : u = BufferUse(kind, slice)
    BY <1>1, <1>2, <1>5, Zenon DEF DrawUses
  <2>2. u.on[1] = "buffer"
    BY <2>1 DEF BufferUse
  <2> QED BY <2>2
<1> QED BY <1>4, <1>5

LEMMA AcceptedIsCoherent ==
  ASSUME NEW p, NEW made, AcceptedPass(p, made), AcceptedDraws(made)
  PROVE  CoherentPass(p, NativePass(p))
<1>1. PICK n, written, used : n = NativePass(p) /\ written = Written(n) /\ used = UsedByDraws(p)
  OBVIOUS
<1>2. ValidAttachments(p) /\ ValidScope(p)
  BY AcceptedAttachments DEF AcceptedPass, ValidPass
<1>3. \A a, b \in written : a[2] = b[2] => a = b
  BY <1>1, <1>2, OneWriter
<1>4. ASSUME NEW u \in used, u.on[1] = "texture"
      PROVE  Touched(u) \cap {w[2] : w \in written} = {}
  <2>1. \A w \in written : w[2] \notin Touched(u)
    BY <1>1, <1>2, <1>4, NoFeedback, DrawUsesAreTyped
  <2> QED BY <2>1
<1>5. ASSUME NEW u \in used, NEW w \in used, u.kind \in {"StorageWrite", "StorageReadWrite"}, Meets(u, w)
      PROVE  w.kind \in {"StorageRead", "StorageWrite", "StorageReadWrite"}
  BY <1>1, <1>2, <1>5, StorageAlone
<1>6. n.views = ViewMask(Signature(p).views) /\ n.draws = [i \in DOMAIN p.draws |-> NativeDraw(p.draws[i])]
  BY <1>1 DEF NativePass
<1>7. \A v \in Views(p) : /\ MipExtent(Parent(v), v.mip).width = Signature(p).width
                          /\ ViewMask(IF v.layers = 1 THEN 0 ELSE v.layers) = n.views
  BY <1>6, ViewsAgree
<1>8. ASSUME NEW i \in DOMAIN n.draws PROVE DrawFits(p, n.draws[i], n)
  <2>1. i \in DOMAIN made /\ p.draws = made /\ n.draws[i] = NativeDraw(made[i])
    BY <1>6, <1>8 DEF AcceptedPass
  <2>2. TypedDraw(made[i])
    BY <2>1, RenderConstants DEF AcceptedDraws
  <2>3. MatchesPass(p, made[i]) /\ DepthParity(p, made[i])
    BY <2>1 DEF AcceptedPass, ValidPass
  <2> QED BY <1>1, <2>1, <2>2, <2>3, DrawsFit
<1>9. \A u \in {x \in used : x.on[1] = "texture"} : Touched(u) \cap {w[2] : w \in written} = {}
  BY <1>4
<1>10. \A u, w \in used : u.on = w.on /\ u.kind \in {"StorageWrite", "StorageReadWrite"} /\ Meets(u, w)
            => w.kind \in {"StorageRead", "StorageWrite", "StorageReadWrite"}
  BY <1>5
<1>11. CoherentPass(p, n)
  <2>1. /\ \A a, b \in Written(n) : a[2] = b[2] => a = b
        /\ \A u \in {x \in UsedByDraws(p) : x.on[1] = "texture"} : Touched(u) \cap {w[2] : w \in Written(n)} = {}
        /\ \A u, w \in UsedByDraws(p) : u.on = w.on /\ u.kind \in {"StorageWrite", "StorageReadWrite"} /\ Meets(u, w)
              => w.kind \in {"StorageRead", "StorageWrite", "StorageReadWrite"}
    BY <1>1, <1>3, <1>9, <1>10
  <2> QED BY <1>7, <1>8, <2>1, Zenon DEF CoherentPass, UsedByDraws
<1> QED BY <1>1, <1>11

-----------------------------------------------------------------------------
(* The recording *)

(* Draws are valid when made, a pass is what its constructor accepted, and the       *)
(* native pass is its lowering                                                      *)
RenderInv ==
  /\ phase \in {"recording", "composed", "refused", "encoded"}
  /\ AcceptedDraws(draws)
  /\ phase # "recording" => AcceptedPass(pass, draws)
  /\ phase = "encoded" => native = NativePass(pass)

LEMMA RenderInvInit == RenderInit => RenderInv
<1>1. ASSUME RenderInit PROVE RenderInv
  <2>1. draws = <<>> /\ draws \in Seq(DrawChoice) /\ DOMAIN draws = {}
    BY <1>1 DEF RenderInit
  <2> QED BY <1>1, <2>1 DEF RenderInit, RenderInv, AcceptedDraws
<1> QED BY <1>1

LEMMA RenderInvNext == RenderInv /\ [RenderNext]_renderVars => RenderInv'
<1> SUFFICES ASSUME RenderInv, [RenderNext]_renderVars PROVE RenderInv'
  OBVIOUS
<1>1. CASE \E d \in DrawChoice : Draw(d)
  <2>1. PICK d \in DrawChoice : Draw(d)
    BY <1>1
  <2>2. draws \in Seq(DrawChoice) /\ draws' = Append(draws, d) /\ ValidDraw(d) /\ phase = "recording" /\ phase' = phase
    BY <2>1 DEF Draw, RenderInv, AcceptedDraws
  <2>3. draws' \in Seq(DrawChoice)
    BY <2>2
  <2>4. ASSUME NEW i \in DOMAIN draws' PROVE ValidDraw(draws'[i])
    <3>1. i \in 1 .. Len(draws) + 1
      BY <2>2, <2>4
    <3>2. CASE i \in DOMAIN draws
      <4>1. draws'[i] = draws[i]
        BY <2>2, <3>2
      <4> QED BY <3>2, <4>1 DEF RenderInv, AcceptedDraws
    <3>3. CASE i \notin DOMAIN draws
      <4>1. i = Len(draws) + 1
        BY <2>2, <3>1, <3>3
      <4>2. draws'[i] = d
        BY <2>2, <4>1
      <4> QED BY <2>2, <4>2
    <3> QED BY <3>2, <3>3
  <2>5. AcceptedDraws(draws)'
    BY <2>3, <2>4 DEF AcceptedDraws
  <2> QED BY <2>2, <2>5 DEF RenderInv
<1>2. CASE \E colors \in ColorChoice, depth \in DepthChoice, timestamps \in TimestampChoice :
             Compose(colors, depth, timestamps)
  <2>1. PICK colors \in ColorChoice, depth \in DepthChoice, timestamps \in TimestampChoice :
          Compose(colors, depth, timestamps)
    BY <1>2
  <2>2. PICK p : p = [colors |-> colors, depth |-> depth, timestamps |-> timestamps, draws |-> draws]
    OBVIOUS
  <2>3. /\ phase' = "composed" /\ pass' = p /\ draws' = draws
        /\ \A i \in DOMAIN colors : ValidColor(colors[i])
        /\ \A z \in depth : ValidDepthAttachment(z)
        /\ ValidPass(p)
    BY <2>1, <2>2, Zenon DEF Compose
  <2>4. AcceptedPass(p, draws)
    BY <2>2, <2>3 DEF AcceptedPass
  <2>5. AcceptedPass(pass', draws') /\ AcceptedDraws(draws')
    BY <2>3, <2>4 DEF RenderInv
  <2> QED BY <2>3, <2>5 DEF RenderInv
<1>3. CASE Submit
  <2>1. PICK ready : ready = (Admitted(pass) /\ Prepares(pass))
    OBVIOUS
  <2>2. Finish(ready)
    BY <1>3, <2>1, Zenon DEF Submit
  <2>3. /\ phase = "composed" /\ phase' \in {"encoded", "refused"}
        /\ phase' = "encoded" => native' = NativePass(pass)
        /\ draws' = draws /\ pass' = pass
    BY <2>2 DEF Finish
  <2>4. AcceptedPass(pass', draws') /\ AcceptedDraws(draws') /\ NativePass(pass') = NativePass(pass)
    BY <2>3 DEF RenderInv
  <2> QED BY <2>3, <2>4 DEF RenderInv
<1>4. CASE UNCHANGED renderVars
  BY <1>4 DEF renderVars, RenderInv
<1> QED BY <1>1, <1>2, <1>3, <1>4 DEF RenderNext

LEMMA RenderInvHolds == RenderSpec => []RenderInv
BY RenderInvInit, RenderInvNext, PTL DEF RenderSpec

(* Of every pass that reaches the device, each fetch the host fixes stays in the      *)
(* slice bound for it and in its buffer, and each shader input is fed once             *)
(* (validate_stepped_range, validate_indexed_range, lower_vertex_buffers).             *)
THEOREM FetchesAreBound == RenderSpec => []FetchesStayBound
<1>1. RenderInv => FetchesStayBound
  <2>1. SUFFICES ASSUME RenderInv, phase = "encoded", NEW i \in DOMAIN native.draws
                 PROVE  FetchesBound(pass.draws[i].pipeline.program.vertex[pass.draws[i].pipeline.vertex].inputs,
                                     native.draws[i])
    BY Zenon DEF FetchesStayBound, FetchesBound, FetchesWell
  <2>2. AcceptedPass(pass, draws) /\ AcceptedDraws(draws) /\ native = NativePass(pass)
    BY <2>1 DEF RenderInv
  <2>3. pass.draws = draws /\ native.draws = [k \in DOMAIN pass.draws |-> NativeDraw(pass.draws[k])]
    BY <2>2 DEF AcceptedPass, NativePass
  <2>4. PICK d : d = pass.draws[i]
    OBVIOUS
  <2>5. native.draws[i] = NativeDraw(d) /\ d \in DrawChoice /\ ValidDraw(d)
    BY <2>1, <2>2, <2>3, <2>4 DEF AcceptedDraws
  <2>6. TypedDraw(d)
    BY <2>5, RenderConstants
  <2> QED BY <2>4, <2>5, <2>6, DrawStaysBound
<1> QED BY <1>1, RenderInvHolds, PTL

(* Of every pass that reaches the device, what an attachment writes is written        *)
(* through that attachment alone and used by no draw, storage writes are alone, and     *)
(* every pipeline fits the attachments (GpuRenderOperation::new,                       *)
(* validate_render_pass_usage_scope, encode_render_operation).                         *)
THEOREM EncodedPassesAreCoherent == RenderSpec => []PassesAreCoherent
<1>1. RenderInv => PassesAreCoherent
  <2>1. SUFFICES ASSUME RenderInv, phase = "encoded" PROVE CoherentPass(pass, native)
    BY Zenon DEF PassesAreCoherent, CoherentPass, DrawFits
  <2> QED BY <2>1, AcceptedIsCoherent DEF RenderInv
<1> QED BY <1>1, RenderInvHolds, PTL

-----------------------------------------------------------------------------
(* Positions *)

(* A layout has one declaration a key                                         *)
Keyed(layout) ==
  /\ IsFiniteSet(layout)
  /\ \A d \in layout : d.key \in Nat \X Nat
  /\ \A d, e \in layout : d.key = e.key => d = e

(* Pairs of numbers are what their parts are                                  *)
LEMMA Pairs ==
  \A a, b \in Nat \X Nat : a[1] = b[1] /\ a[2] = b[2] => a = b
OBVIOUS

(* Every group has a position                                                *)
LEMMA GroupsHavePositions ==
  ASSUME NEW layout, Keyed(layout), NEW d \in layout
  PROVE  d.key[1] \in 0 .. GroupSlots(layout) - 1
<1>1. GroupsOf(layout) \in SUBSET Nat /\ GroupsOf(layout) # {}
  BY DEF GroupsOf, Keyed
<1>2. IsFiniteSet(GroupsOf(layout))
  <2>1. PICK f : f = [e \in layout |-> e.key[1]]
    OBVIOUS
  <2>2. GroupsOf(layout) = {f[e] : e \in layout} /\ f \in [layout -> {f[e] : e \in layout}]
    BY <2>1 DEF GroupsOf
  <2> QED BY <2>2, ImageIsFinite DEF Keyed
<1>3. PICK n \in GroupsOf(layout) : \A i \in GroupsOf(layout) : i <= n
  <2>1. Max(GroupsOf(layout)) \in GroupsOf(layout) /\ \A i \in GroupsOf(layout) : Max(GroupsOf(layout)) >= i
    BY <1>1, <1>2, GreatestIsMax
  <2> QED BY <1>1, <2>1
<1>4. PICK top : top = CHOOSE m \in GroupsOf(layout) : \A i \in GroupsOf(layout) : i <= m
  OBVIOUS
<1>5. top \in GroupsOf(layout) /\ \A i \in GroupsOf(layout) : i <= top
  BY <1>3, <1>4
<1>6. GroupSlots(layout) = 1 + top
  BY <1>4 DEF GroupSlots
<1>7. d.key[1] \in GroupsOf(layout)
  BY DEF GroupsOf
<1> QED BY <1>1, <1>5, <1>6, <1>7

(* A declaration has its entry at its position                                *)
LEMMA EntriesHavePositions ==
  ASSUME NEW layout, Keyed(layout), NEW d \in layout
  PROVE  /\ d.key[2] \in DOMAIN PositionalLayouts(layout)[d.key[1]]
         /\ PositionalLayouts(layout)[d.key[1]][d.key[2]] = NativeEntry(d)
<1>1. PICK group : group = GroupLayout(layout, d.key[1])
  OBVIOUS
<1>2. PositionalLayouts(layout)[d.key[1]] = NativeGroupLayout(group)
  BY <1>1, GroupsHavePositions DEF PositionalLayouts
<1>3. d \in group /\ \A e \in group : e \in layout /\ e.key[1] = d.key[1]
  BY <1>1 DEF GroupLayout
<1>4. \A e \in group : e.key[2] = d.key[2] => e = d
  BY <1>3, Pairs DEF Keyed
<1>5. (CHOOSE e \in group : e.key[2] = d.key[2]) = d
  BY <1>3, <1>4
<1>6. d.key[2] \in {e.key[2] : e \in group}
  BY <1>3
<1>7. NativeGroupLayout(group)[d.key[2]] = NativeEntry(d) /\ DOMAIN NativeGroupLayout(group) = {e.key[2] : e \in group}
  BY <1>5, <1>6 DEF NativeGroupLayout
<1> QED BY <1>2, <1>6, <1>7

(* and a position holds the entry of one                                      *)
LEMMA PositionsHoldEntries ==
  ASSUME NEW layout, Keyed(layout), NEW n \in 0 .. GroupSlots(layout) - 1
  PROVE  DOMAIN PositionalLayouts(layout)[n] = {d.key[2] : d \in GroupLayout(layout, n)}
BY DEF PositionalLayouts, NativeGroupLayout

-----------------------------------------------------------------------------
(* Groups and their values *)

(* group gives each value of V as its native resources                        *)
MeansValues(V, group) ==
  \A v \in V : group[v.key[2]] = [i \in DOMAIN v.resources |-> NativeResource(v.resources[i])]

(* The static part of a value means what the value means                      *)
LEMMA StaticValuesMeanTheSame ==
  ASSUME NEW v, TypedValue(v)
  PROVE  /\ StaticValue(v).key = v.key
         /\ DOMAIN StaticValue(v).resources = DOMAIN v.resources
         /\ [i \in DOMAIN StaticValue(v).resources |-> NativeResource(StaticValue(v).resources[i])]
              = [i \in DOMAIN v.resources |-> NativeResource(v.resources[i])]
<1>1. DOMAIN v = {"key", "resources"}
  <2>1. v = [key |-> v.key, resources |-> v.resources]
    BY DEF TypedValue
  <2> QED BY <2>1
<1>2. /\ StaticValue(v).key = v.key
      /\ StaticValue(v).resources =
           [i \in DOMAIN v.resources |-> IF v.resources[i].kind = "Buffer"
                                         THEN [v.resources[i] EXCEPT !.dynamic = {}] ELSE v.resources[i]]
  BY <1>1 DEF StaticValue
<1>3. ASSUME NEW i \in DOMAIN v.resources
      PROVE  NativeResource(StaticValue(v).resources[i]) = NativeResource(v.resources[i])
  <2>1. PICK r : r = v.resources[i] /\ TypedResource(r)
    BY <1>3 DEF TypedValue
  <2>2. CASE r.kind = "Buffer"
    <3>1. r = [kind |-> r.kind, buffer |-> r.buffer, offset |-> r.offset, size |-> r.size, dynamic |-> r.dynamic]
      BY <2>1, <2>2 DEF TypedResource
    <3>2. PICK s : s = [r EXCEPT !.dynamic = {}]
      OBVIOUS
    <3>3. s.kind = r.kind /\ s.buffer = r.buffer /\ s.offset = r.offset /\ s.size = r.size
      BY <3>1, <3>2
    <3>4. StaticValue(v).resources[i] = s
      BY <1>2, <1>3, <2>1, <2>2, <3>2
    <3> QED BY <2>1, <2>2, <3>3, <3>4 DEF NativeResource
  <2>3. CASE r.kind # "Buffer"
    BY <1>2, <1>3, <2>1, <2>3
  <2> QED BY <2>2, <2>3
<1> QED BY <1>2, <1>3

(* A group made of values of its own gives each of them                        *)
LEMMA NativeGroupsMeanValues ==
  ASSUME NEW V, \A v, w \in V : v.key[2] = w.key[2] => v = w
  PROVE  MeansValues(V, NativeGroup(V))
<1>1. ASSUME NEW v \in V
      PROVE  NativeGroup(V)[v.key[2]] = [i \in DOMAIN v.resources |-> NativeResource(v.resources[i])]
  <2>1. (CHOOSE x \in V : x.key[2] = v.key[2]) = v
    OBVIOUS
  <2>2. v.key[2] \in {x.key[2] : x \in V}
    OBVIOUS
  <2> QED BY <2>1, <2>2 DEF NativeGroup
<1> QED BY <1>1 DEF MeansValues

(* The values bound to a layout are found by their keys                       *)
LEMMA ValuesByKey ==
  ASSUME NEW layout, NEW values, ValidValues(layout, values), NEW d \in layout
  PROVE  \E v \in values : v.key = d.key /\ ResourcesAt(values, d.key) = v.resources
<1>1. PICK v \in values : v.key = d.key
  BY DEF ValidValues
<1>2. (CHOOSE x \in values : x.key = d.key) = v
  BY <1>1 DEF ValidValues
<1> QED BY <1>1, <1>2 DEF ResourcesAt

(* Cached groups mean the values they were requested for                       *)
GroupsMeanRequests(groups) == \A asked \in DOMAIN groups : MeansValues(asked[2], groups[asked])

(* and go on doing so, whatever was cached before                             *)
LEMMA RealizedGroupsMeanRequests ==
  ASSUME NEW p, NEW o, Keyed(p.layout), ValidValues(p.layout, o.values), \A v \in o.values : TypedValue(v),
         GroupsMeanRequests(bindGroups)
  PROVE  GroupsMeanRequests(Realized(p, o))
<1>1. SUFFICES ASSUME NEW asked \in DOMAIN Realized(p, o)
               PROVE  MeansValues(asked[2], Realized(p, o)[asked])
  BY DEF GroupsMeanRequests
<1>2. CASE asked \in DOMAIN bindGroups
  BY <1>1, <1>2 DEF Realized, GroupsMeanRequests
<1>3. CASE asked \notin DOMAIN bindGroups
  <2>1. PICK n : n = CHOOSE i \in GroupsOf(p.layout) : GroupRequest(p.layout, o.values, i) = asked
    OBVIOUS
  <2>2. \E i \in GroupsOf(p.layout) : GroupRequest(p.layout, o.values, i) = asked
    BY <1>1, <1>3 DEF Realized, RealizedGroups
  <2>3. GroupRequest(p.layout, o.values, n) = asked
    BY <2>1, <2>2
  <2>4. PICK V : V = GroupValues(o.values, n)
    OBVIOUS
  <2>5. Realized(p, o)[asked] = NativeGroup(V)
    BY <1>1, <1>3, <2>1, <2>4 DEF Realized
  <2>6. V \subseteq o.values /\ \A v \in V : v.key[1] = n
    BY <2>4 DEF GroupValues
  <2>7. \A v \in V : v.key \in Nat \X Nat
    BY <2>6 DEF ValidValues, Keyed
  <2>8. \A v, w \in V : v.key[2] = w.key[2] => v = w
    <3>1. \A v, w \in V : v.key[2] = w.key[2] => v.key = w.key
      BY <2>6, <2>7, Pairs
    <3> QED BY <2>6, <3>1 DEF ValidValues
  <2>9. MeansValues(V, NativeGroup(V))
    BY <2>8, NativeGroupsMeanValues
  <2>10. asked[2] = {StaticValue(v) : v \in V}
    BY <2>3, <2>4 DEF GroupRequest
  <2>11. ASSUME NEW s \in asked[2]
         PROVE  NativeGroup(V)[s.key[2]] = [i \in DOMAIN s.resources |-> NativeResource(s.resources[i])]
    <3>1. PICK v \in V : s = StaticValue(v)
      BY <2>10, <2>11
    <3>2. TypedValue(v)
      BY <2>6
    <3> QED BY <2>9, <3>1, <3>2, StaticValuesMeanTheSame DEF MeansValues
  <2> QED BY <2>5, <2>11 DEF MeansValues
<1> QED BY <1>2, <1>3

-----------------------------------------------------------------------------
(* Dynamic offsets *)

(* A place among finitely many is counted within them, and alone at its count *)
LEMMA PlacesAreRanked ==
  ASSUME NEW places \in SUBSET (Nat \X Nat), IsFiniteSet(places), NEW at \in places
  PROVE  /\ Cardinality(PlacesUpTo(places, at)) \in 1 .. Cardinality(places)
         /\ \A p \in places : Cardinality(PlacesUpTo(places, p)) = Cardinality(PlacesUpTo(places, at)) => p = at
<1>1. ASSUME NEW p \in places
      PROVE  IsFiniteSet(PlacesUpTo(places, p)) /\ PlacesUpTo(places, p) \subseteq places /\ p \in PlacesUpTo(places, p)
  <2>1. PlacesUpTo(places, p) \subseteq places /\ p \in PlacesUpTo(places, p)
    BY DEF PlacesUpTo
  <2> QED BY <2>1, FS_Subset
<1>2. Cardinality(PlacesUpTo(places, at)) \in 1 .. Cardinality(places)
  <2>1. /\ Cardinality(PlacesUpTo(places, at)) \in Nat /\ Cardinality(places) \in Nat
        /\ Cardinality(PlacesUpTo(places, at)) <= Cardinality(places)
    BY <1>1, FS_CardinalityType, FS_Subset
  <2>2. Cardinality(PlacesUpTo(places, at)) # 0
    BY <1>1, FS_EmptySet
  <2> QED BY <2>1, <2>2
<1>3. ASSUME NEW p \in places, NEW q \in places, p[1] < q[1] \/ (p[1] = q[1] /\ p[2] < q[2])
      PROVE  Cardinality(PlacesUpTo(places, p)) # Cardinality(PlacesUpTo(places, q))
  <2>1. PlacesUpTo(places, p) \subseteq PlacesUpTo(places, q) /\ q \notin PlacesUpTo(places, p)
    BY <1>3 DEF PlacesUpTo
  <2>2. PlacesUpTo(places, p) # PlacesUpTo(places, q)
    BY <1>1, <2>1
  <2> QED BY <1>1, <2>1, <2>2, FS_Subset
<1>4. ASSUME NEW p \in places, p # at
      PROVE  Cardinality(PlacesUpTo(places, p)) # Cardinality(PlacesUpTo(places, at))
  <2>1. \/ p[1] < at[1] \/ (p[1] = at[1] /\ p[2] < at[2])
        \/ at[1] < p[1] \/ (at[1] = p[1] /\ at[2] < p[2])
    BY <1>4
  <2> QED BY <1>3, <2>1
<1> QED BY <1>2, <1>4

(* Its offset is listed at its count                                          *)
LEMMA OffsetsAreRanked ==
  ASSUME NEW layout, NEW values, NEW n, NEW places, places = DynamicPlaces(layout, values, n),
         places \in SUBSET (Nat \X Nat), IsFiniteSet(places), NEW at \in places
  PROVE  DynamicOffsets(layout, values, n)[Cardinality(PlacesUpTo(places, at))]
           = UseOffset(ResourcesAt(values, <<n, at[1]>>)[at[2]])
<1>1. PICK k : k = Cardinality(PlacesUpTo(places, at))
  OBVIOUS
<1>2. k \in 1 .. Cardinality(places) /\ \A p \in places : Cardinality(PlacesUpTo(places, p)) = k => p = at
  BY <1>1, PlacesAreRanked
<1>3. (CHOOSE p \in places : Cardinality(PlacesUpTo(places, p)) = k) = at
  BY <1>1, <1>2
<1> QED BY <1>1, <1>2, <1>3 DEF DynamicOffsets

(* Resources bound to a declaration are as it declares them                    *)
LEMMA BoundToDeclaration ==
  ASSUME NEW layout, NEW values, ValidValues(layout, values), NEW d \in layout
  PROVE  /\ Len(ResourcesAt(values, d.key)) = IF d.count = 0 THEN 1 ELSE d.count
         /\ \A i \in DOMAIN ResourcesAt(values, d.key) : ValidResource(d, ResourcesAt(values, d.key)[i])
BY DEF ValidValues

(* Only buffers are bound with dynamic offsets                                *)
OnlyBuffersMove(layout) == \A d \in layout : d.dynamic \in BOOLEAN /\ (d.dynamic => d.class \in BufferClasses)

(* A dynamic binding of a group the device takes stands for one resource        *)
LEMMA DynamicStandsAlone ==
  ASSUME NEW layout, NEW values, ValidValues(layout, values), \A v \in values : TypedValue(v),
         NEW d \in layout, d.dynamic, LowersGroupLayout(GroupLayout(layout, d.key[1]))
  PROVE  DOMAIN ResourcesAt(values, d.key) = {1}
<1>1. d \in GroupLayout(layout, d.key[1])
  BY DEF GroupLayout
<1>2. d.count = 0
  BY <1>1 DEF LowersGroupLayout
<1>3. PICK v \in values : v.key = d.key /\ ResourcesAt(values, d.key) = v.resources
  BY ValuesByKey
<1>4. Len(v.resources) = 1 /\ DOMAIN v.resources = 1 .. Len(v.resources)
  BY <1>2, <1>3, BoundToDeclaration DEF TypedValue
<1> QED BY <1>3, <1>4

(* The device uses each resource at the offset bound with it                    *)
LEMMA OffsetsReachTheirBindings ==
  ASSUME NEW layout, Keyed(layout), OnlyBuffersMove(layout),
         NEW values, ValidValues(layout, values), \A v \in values : TypedValue(v),
         NEW d \in layout, LowersGroupLayout(GroupLayout(layout, d.key[1])),
         NEW x, x.layouts = PositionalLayouts(layout),
         x.sets[d.key[1]].offsets = DynamicOffsets(layout, values, d.key[1]),
         NEW i \in DOMAIN ResourcesAt(values, d.key), NEW r, r = ResourcesAt(values, d.key)[i], r.kind = "Buffer"
  PROVE  DeviceOffset(x, d.key[1], d.key[2]) = UseOffset(r)
<1>1. PICK n, b : n = d.key[1] /\ b = d.key[2] /\ n \in Nat /\ b \in Nat /\ d.key = <<n, b>>
  BY DEF Keyed
<1>2. PICK D : D = {e \in GroupLayout(layout, n) : e.dynamic}
  OBVIOUS
<1>3. PICK dynamic : dynamic = {j \in DOMAIN x.layouts[n] : x.layouts[n][j].dynamic}
  OBVIOUS
<1>4. n \in 0 .. GroupSlots(layout) - 1
  BY <1>1, GroupsHavePositions
<1>5. \A e \in GroupLayout(layout, n) : /\ e \in layout /\ e.key[1] = n /\ e.key = <<n, e.key[2]>> /\ e.key[2] \in Nat
                                        /\ x.layouts[n][e.key[2]].dynamic = e.dynamic
  <2>1. ASSUME NEW e \in GroupLayout(layout, n)
        PROVE  /\ e \in layout /\ e.key[1] = n /\ e.key = <<n, e.key[2]>> /\ e.key[2] \in Nat
               /\ x.layouts[n][e.key[2]].dynamic = e.dynamic
    <3>1. e \in layout /\ e.key[1] = n /\ e.key \in Nat \X Nat
      BY DEF GroupLayout, Keyed
    <3>2. x.layouts[n][e.key[2]] = NativeEntry(e)
      BY <3>1, EntriesHavePositions
    <3>3. e.dynamic \in BOOLEAN /\ (e.dynamic => e.class \in BufferClasses)
      BY <3>1 DEF OnlyBuffersMove
    <3>4. NativeEntry(e).dynamic = (e.class \in BufferClasses /\ e.dynamic)
      BY DEF NativeEntry
    <3> QED BY <3>1, <3>2, <3>3, <3>4
  <2> QED BY <2>1
<1>6. dynamic = {e.key[2] : e \in D}
  <2>1. DOMAIN x.layouts[n] = {e.key[2] : e \in GroupLayout(layout, n)}
    BY <1>4, PositionsHoldEntries
  <2> QED BY <1>2, <1>3, <1>5, <2>1
<1>7. d \in GroupLayout(layout, n) /\ ValidResource(d, r)
  BY <1>1, BoundToDeclaration DEF GroupLayout
<1>8. d.dynamic = (r.dynamic # {})
  <2>1. d.class \in BufferClasses
    BY <1>7 DEF ValidResource, BufferClasses
  <2> QED BY <1>7, <2>1 DEF ValidResource, ValidBufferValue, BufferClasses
<1>9. DeviceOffset(x, n, b) = IF b \in dynamic THEN x.sets[n].offsets[Cardinality({j \in dynamic : j <= b})] ELSE 0
  BY <1>3 DEF DeviceOffset
<1>10. CASE ~d.dynamic
  <2>1. b \notin dynamic
    BY <1>1, <1>3, <1>5, <1>7, <1>10
  <2> QED BY <1>1, <1>8, <1>9, <1>10, <2>1 DEF UseOffset
<1>11. CASE d.dynamic
  <2>1. d \in D /\ b \in dynamic
    BY <1>1, <1>2, <1>6, <1>7, <1>11
  <2>2. PICK places : places = DynamicPlaces(layout, values, n)
    OBVIOUS
  <2>3. \A e \in D : DOMAIN ResourcesAt(values, e.key) = {1}
    BY <1>1, <1>2, <1>5, DynamicStandsAlone
  <2>4. places = {<<e.key[2], 1>> : e \in D}
    <3>1. places = UNION {{<<e.key[2], j>> : j \in DOMAIN ResourcesAt(values, e.key)} : e \in D}
      BY <1>2, <2>2 DEF DynamicPlaces
    <3> QED BY <2>3, <3>1
  <2>5. places = {<<j, 1>> : j \in dynamic} /\ dynamic \subseteq Nat
    BY <1>2, <1>5, <1>6, <2>4
  <2>6. IsFiniteSet(dynamic)
    <3>1. IsFiniteSet(D)
      <4>1. D \subseteq layout
        BY <1>2, <1>5
      <4> QED BY <4>1, FS_Subset DEF Keyed
    <3>2. PICK f : f = [e \in D |-> e.key[2]]
      OBVIOUS
    <3>3. dynamic = {f[e] : e \in D} /\ f \in [D -> {f[e] : e \in D}]
      BY <1>6, <3>2
    <3> QED BY <3>1, <3>3, ImageIsFinite
  <2>7. ASSUME NEW J \in SUBSET dynamic
        PROVE  IsFiniteSet({<<j, 1>> : j \in J}) /\ Cardinality({<<j, 1>> : j \in J}) = Cardinality(J)
    <3>1. IsFiniteSet(J)
      BY <2>6, FS_Subset
    <3>2. PICK f : f = [j \in J |-> <<j, 1>>]
      OBVIOUS
    <3>3. f \in Bijection(J, {<<j, 1>> : j \in J})
      <4>1. PICK T : T = {<<j, 1>> : j \in J}
        OBVIOUS
      <4>2. \A j \in J : f[j] = <<j, 1>>
        BY <3>2
      <4>3. f \in [J -> T]
        BY <3>2, <4>1
      <4>4. \A j, k \in J : f[j] = f[k] => j = k
        BY <4>2
      <4>5. \A t \in T : \E j \in J : f[j] = t
        BY <4>1, <4>2
      <4>6. f \in Injection(J, T)
        BY <4>3, <4>4, Zenon DEF Injection, IsInjective
      <4>7. f \in Surjection(J, T)
        BY <4>3, <4>5 DEF Surjection
      <4> QED BY <4>1, <4>6, <4>7 DEF Bijection
    <3>4. ExistsBijection(J, {<<j, 1>> : j \in J})
      BY <3>3 DEF ExistsBijection
    <3> QED BY <3>1, <3>4, FS_Bijection
  <2>8. places \in SUBSET (Nat \X Nat) /\ IsFiniteSet(places) /\ <<b, 1>> \in places
    <3>1. IsFiniteSet({<<j, 1>> : j \in dynamic})
      BY <2>7
    <3> QED BY <2>1, <2>5, <3>1
  <2>9. PlacesUpTo(places, <<b, 1>>) = {<<j, 1>> : j \in {k \in dynamic : k <= b}}
    BY <1>1, <2>5 DEF PlacesUpTo
  <2>10. Cardinality(PlacesUpTo(places, <<b, 1>>)) = Cardinality({j \in dynamic : j <= b})
    BY <2>7, <2>9
  <2>11. x.sets[n].offsets[Cardinality({j \in dynamic : j <= b})] = UseOffset(ResourcesAt(values, <<n, b>>)[1])
    <3>1. PICK at : at = <<b, 1>> /\ at \in places
      BY <2>8
    <3>2. DynamicOffsets(layout, values, n)[Cardinality(PlacesUpTo(places, at))]
            = UseOffset(ResourcesAt(values, <<n, at[1]>>)[at[2]])
      BY <2>2, <2>8, <3>1, OffsetsAreRanked
    <3>3. x.sets[n].offsets = DynamicOffsets(layout, values, n)
      BY <1>1
    <3>4. Cardinality(PlacesUpTo(places, at)) = Cardinality({j \in dynamic : j <= b})
      BY <2>10, <3>1
    <3> QED BY <3>1, <3>2, <3>3, <3>4
  <2>12. i = 1
    BY <2>1, <2>3
  <2> QED BY <1>1, <1>9, <2>1, <2>11, <2>12
<1> QED BY <1>1, <1>10, <1>11

(* The hypotheses above for every binding of a dispatch at once                  *)
CarriesOffsets(x, layout, values) ==
  /\ Keyed(layout) /\ OnlyBuffersMove(layout)
  /\ ValidValues(layout, values) /\ \A v \in values : TypedValue(v)
  /\ x.layouts = PositionalLayouts(layout)
  /\ \A n \in GroupsOf(layout) : /\ LowersGroupLayout(GroupLayout(layout, n))
                                 /\ x.sets[n].offsets = DynamicOffsets(layout, values, n)

(* Every buffer of such a dispatch is used at the offset bound with it           *)
LEMMA OffsetsReachBuffers ==
  ASSUME NEW x, NEW layout, NEW values, CarriesOffsets(x, layout, values), NEW d \in layout,
         NEW i \in DOMAIN ResourcesAt(values, d.key), ResourcesAt(values, d.key)[i].kind = "Buffer"
  PROVE  DeviceOffset(x, d.key[1], d.key[2]) = UseOffset(ResourcesAt(values, d.key)[i])
<1>1. d.key[1] \in GroupsOf(layout)
  BY DEF GroupsOf
<1>2. /\ LowersGroupLayout(GroupLayout(layout, d.key[1]))
      /\ x.sets[d.key[1]].offsets = DynamicOffsets(layout, values, d.key[1])
  BY <1>1 DEF CarriesOffsets
<1>3. /\ Keyed(layout) /\ OnlyBuffersMove(layout) /\ x.layouts = PositionalLayouts(layout)
      /\ ValidValues(layout, values) /\ \A v \in values : TypedValue(v)
  BY DEF CarriesOffsets
<1>4. PICK n \in GroupsOf(layout) : n = d.key[1]
  BY <1>1
<1> QED BY <1>2, <1>3, <1>4, OffsetsReachTheirBindings

-----------------------------------------------------------------------------
(* Programs *)

(* A program's layout is keyed, its dynamic bindings are buffers, and each global *)
(* a selected entry uses has a declaration                                     *)
LEMMA ProgramsAreKeyed ==
  ASSUME NEW c, TypedChoice(c), ValidProgram(c)
  PROVE  /\ Keyed(LayoutOf(c)) /\ OnlyBuffersMove(LayoutOf(c))
         /\ \A e \in EntriesOf(c) : \A k \in e.uses :
              /\ k \in UsedKeys(c) /\ e.stage \in UsingStages(c, k)
              /\ Declaration(c, k) \in LayoutOf(c)
         /\ \A k \in UsedKeys(c) : Declaration(c, k).key = k /\ ValidBinding(c, k)
<1>1. \A k \in UsedKeys(c) : Declaration(c, k).key = k /\ ValidBinding(c, k)
  BY DEF Declaration, ValidProgram
<1>2. IsFiniteSet(LayoutOf(c))
  <2>1. IsFiniteSet(UsedKeys(c))
    <3>1. UsedKeys(c) \subseteq DOMAIN c.module.globals
      BY DEF UsedKeys
    <3> QED BY <3>1, FS_Subset DEF TypedChoice, TypedModule
  <2>2. PICK f : f = [k \in UsedKeys(c) |-> Declaration(c, k)]
    OBVIOUS
  <2>3. LayoutOf(c) = {f[k] : k \in UsedKeys(c)} /\ f \in [UsedKeys(c) -> {f[k] : k \in UsedKeys(c)}]
    BY <2>2 DEF LayoutOf
  <2> QED BY <2>1, <2>3, ImageIsFinite
<1>3. Keyed(LayoutOf(c))
  <2>1. \A d \in LayoutOf(c) : d.key \in UsedKeys(c) /\ d = Declaration(c, d.key)
    BY <1>1 DEF LayoutOf
  <2>2. UsedKeys(c) \subseteq Nat \X Nat
    BY DEF UsedKeys, TypedChoice, TypedModule
  <2> QED BY <1>2, <2>1, <2>2 DEF Keyed
<1>4. OnlyBuffersMove(LayoutOf(c))
  <2>1. ASSUME NEW k \in UsedKeys(c)
        PROVE  LET d == Declaration(c, k) IN d.dynamic \in BOOLEAN /\ (d.dynamic => d.class \in BufferClasses)
    <3>1. PICK g, p : g = c.module.globals[k] /\ p = PolicyOf(c, k)
      OBVIOUS
    <3>2. ValidPolicy(g, p)
      BY <1>1, <3>1 DEF ValidBinding
    <3>3. Declaration(c, k).dynamic = p.dynamic /\ Declaration(c, k).class = BindingClass(g)
      BY <3>1 DEF Declaration
    <3>4. p.dynamic \in BOOLEAN
      BY <3>1 DEF PolicyOf, NoPolicy, TypedChoice
    <3>5. CASE BindingClass(g) \notin BufferClasses \cup {"SampledTexture", "Sampler"}
      <4>1. p = [NoPolicy EXCEPT !.visibility = p.visibility]
        BY <3>2, <3>5 DEF ValidPolicy
      <4>2. p.dynamic = FALSE
        BY <4>1 DEF NoPolicy
      <4> QED BY <3>3, <4>2
    <3>6. CASE BindingClass(g) \in {"SampledTexture", "Sampler"}
      BY <3>2, <3>3, <3>4, <3>6 DEF ValidPolicy, BufferClasses
    <3> QED BY <3>3, <3>4, <3>5, <3>6
  <2> QED BY <2>1 DEF LayoutOf, OnlyBuffersMove
<1>5. ASSUME NEW e \in EntriesOf(c), NEW k \in e.uses
      PROVE  /\ k \in UsedKeys(c) /\ e.stage \in UsingStages(c, k)
             /\ Declaration(c, k) \in LayoutOf(c)
  <2>1. e.stage \in UsingStages(c, k)
    BY <1>5 DEF UsingStages
  <2>2. k \in DOMAIN c.module.globals
    BY <1>5 DEF EntriesOf, TypedChoice, TypedModule
  <2> QED BY <2>1, <2>2 DEF UsedKeys, LayoutOf
<1> QED BY <1>1, <1>3, <1>4, <1>5

(* A module's features hold what its text needs, what its arrays need and what     *)
(* indexing them takes                                                        *)
LEMMA ModulesNeedTheirFeatures ==
  ASSUME NEW m, TypedModule(m), ValidModule(m)
  PROVE  /\ m.needs \cup {NonUniformFeature[BindingClass(m.globals[k])] : k \in m.nonUniform} \subseteq ModuleFeatures(m)
         /\ \A k \in ArrayKeys(m) : ArrayFeatures(BindingClass(m.globals[k])) \subseteq ModuleFeatures(m)
<1>1. m.needs \subseteq ParsedProfile(m)
  <2>1. PICK parses : parses = {p \in SUBSET OptionalFeatures : m.needs \subseteq p}
    OBVIOUS
  <2>2. \A p \in parses : ProfileRank(p) \in Nat
    BY DEF ProfileRank
  <2>3. parses # {}
    BY <2>1 DEF TypedModule
  <2>4. PICK ranks : ranks = {ProfileRank(p) : p \in parses}
    OBVIOUS
  <2>5. PICK least \in ranks : \A n \in ranks : least <= n
    <3>1. ranks \in SUBSET Nat /\ ranks # {}
      BY <2>2, <2>3, <2>4
    <3> QED BY <3>1, LeastNumber
  <2>6. \E p \in parses : \A q \in parses : ProfileRank(p) <= ProfileRank(q)
    BY <2>4, <2>5
  <2>7. ParsedProfile(m) = CHOOSE p \in parses : \A q \in parses : ProfileRank(p) <= ProfileRank(q)
    BY <2>1 DEF ParsedProfile
  <2>8. ParsedProfile(m) \in parses
    BY <2>6, <2>7
  <2> QED BY <2>1, <2>8
<1>2. m.nonUniform \cap ArrayKeys(m) = m.nonUniform
  BY DEF TypedModule
<1> QED BY <1>1, <1>2 DEF ModuleFeatures

(* What is written through a declaration of a program is declared so             *)
LEMMA StoresAreDeclared ==
  ASSUME NEW c, TypedChoice(c), NEW k \in UsedKeys(c), c.module.globals[k].access \cap {"Store", "Atomic"} # {}
  PROVE  MayWrite(Declaration(c, k))
<1>1. PICK g : g = c.module.globals[k]
  OBVIOUS
<1>2. BindingClass(g) \in {"StorageBuffer", "StorageTexture"}
  BY <1>1 DEF TypedChoice, TypedModule, UsedKeys
<1>3. AccessOf(g) # "ReadOnly"
  BY <1>1 DEF AccessOf
<1>4. Declaration(c, k).class = BindingClass(g) /\ Declaration(c, k).access = AccessOf(g)
  BY <1>1 DEF Declaration
<1> QED BY <1>2, <1>3, <1>4 DEF MayWrite

-----------------------------------------------------------------------------
(* What a resource means *)

(* A resource reaches the cells bound with it                                  *)
LEMMA MeaningHasTheCells ==
  ASSUME NEW r, TypedResource(r)
  PROVE  CellsReached(Meaning(r)) = CellsBound(r) /\ Meaning(r).kind = r.kind
<1>1. CASE r.kind = "Buffer"
  <2>1. PICK n : n = NativeResource(r)
    OBVIOUS
  <2>2. n = [kind |-> "Buffer", buffer |-> r.buffer, offset |-> r.offset, size |-> r.size]
    BY <1>1, <2>1 DEF NativeResource
  <2>3. PICK e : e = Meaning(r)
    OBVIOUS
  <2>4. e = [n EXCEPT !.offset = EffectiveOffset(r)]
    BY <1>1, <2>1, <2>3 DEF Meaning
  <2>5. e.kind = "Buffer" /\ e.buffer = r.buffer /\ e.size = r.size /\ e.offset = EffectiveOffset(r)
    BY <2>2, <2>4
  <2> QED BY <1>1, <2>3, <2>5 DEF CellsReached, CellsBound
<1>2. CASE r.kind = "View"
  <2>1. PICK e : e = Meaning(r)
    OBVIOUS
  <2>2. e = [kind |-> "View", view |-> r.view]
    BY <1>2, <2>1 DEF Meaning, NativeResource
  <2>3. e.kind = "View" /\ e.view = r.view
    BY <2>2
  <2> QED BY <1>2, <2>1, <2>3 DEF CellsReached, CellsBound
<1>3. CASE r.kind = "Sampler"
  <2>1. PICK e : e = Meaning(r)
    OBVIOUS
  <2>2. e = [kind |-> "Sampler", sampler |-> r.sampler]
    BY <1>3, <2>1 DEF Meaning, NativeResource
  <2>3. e.kind = "Sampler"
    BY <2>2
  <2> QED BY <1>3, <2>1, <2>3 DEF CellsReached, CellsBound
<1> QED BY <1>1, <1>2, <1>3 DEF TypedResource

(* An admitted buffer is used inside its bounds, aligned and long enough           *)
LEMMA MeaningInsideBuffer ==
  ASSUME NEW r, TypedResource(r), NEW d, ValidResource(d, r), AdmittedResource(d, r), NEW g,
         d.class = BindingClass(g), d.compiler = g.size
  PROVE  InsideBuffer(Meaning(r), g.size,
             IF g.space = "Uniform" THEN BindingLimits.uniformAlignment ELSE BindingLimits.storageAlignment)
<1>1. SUFFICES ASSUME r.kind = "Buffer"
               PROVE  InsideBuffer(Meaning(r), g.size,
                         IF g.space = "Uniform" THEN BindingLimits.uniformAlignment ELSE BindingLimits.storageAlignment)
  BY MeaningHasTheCells DEF InsideBuffer
<1>2. PICK alignment : alignment = IF g.space = "Uniform" THEN BindingLimits.uniformAlignment
                                   ELSE BindingLimits.storageAlignment
  OBVIOUS
<1>3. alignment \in Nat /\ alignment # 0
  BY <1>2, BindingConstants
<1>4. d.class \in BufferClasses
  BY <1>1 DEF ValidResource, BufferClasses
<1>5. (g.space = "Uniform") <=> d.class = "UniformBuffer"
  BY <1>4 DEF BindingClass, BufferClasses
<1>6. AlignedTo(r, alignment)
  <2>1. CASE d.class = "UniformBuffer"
    BY <1>2, <1>5, <2>1 DEF AdmittedResource
  <2>2. CASE d.class = "StorageBuffer"
    BY <1>2, <1>5, <2>2 DEF AdmittedResource
  <2> QED BY <1>4, <2>1, <2>2 DEF BufferClasses
<1>7. {r.offset, r.size} \cup r.dynamic \subseteq Nat
  BY <1>1 DEF TypedResource
<1>8. PICK n : n = UseOffset(r)
  OBVIOUS
<1>9. n \in Nat /\ n % alignment = 0
  <2>1. CASE r.dynamic = {}
    <3>1. n = 0
      BY <1>8, <2>1 DEF UseOffset
    <3> QED BY <1>3, <3>1
  <2>2. CASE r.dynamic # {}
    <3>1. n = CHOOSE i \in r.dynamic : TRUE
      BY <1>8, <2>2 DEF UseOffset
    <3>2. n \in r.dynamic
      BY <2>2, <3>1
    <3> QED BY <1>6, <1>7, <3>2 DEF AlignedTo
  <2> QED BY <2>1, <2>2
<1>10. r.offset \in Nat /\ r.offset % alignment = 0
  BY <1>6, <1>7 DEF AlignedTo
<1>11. EffectiveOffset(r) = r.offset + n /\ EffectiveOffset(r) % alignment = 0
  BY <1>3, <1>8, <1>9, <1>10, MultiplesAdd DEF EffectiveOffset
<1>12. EffectiveOffset(r) + r.size <= BoundBuffer[r.buffer].size /\ r.size >= g.size
  BY <1>1, <1>4 DEF ValidResource, ValidBufferValue
<1>13. PICK m : m = NativeResource(r)
  OBVIOUS
<1>14. m = [kind |-> "Buffer", buffer |-> r.buffer, offset |-> r.offset, size |-> r.size]
  BY <1>1, <1>13 DEF NativeResource
<1>15. PICK e : e = Meaning(r)
  OBVIOUS
<1>16. e = [m EXCEPT !.offset = EffectiveOffset(r)]
  BY <1>1, <1>13, <1>15 DEF Meaning
<1>17. e.buffer = r.buffer /\ e.size = r.size /\ e.offset = EffectiveOffset(r)
  BY <1>14, <1>16
<1> QED BY <1>2, <1>11, <1>12, <1>15, <1>17 DEF InsideBuffer

-----------------------------------------------------------------------------
(* The dispatch *)

(* What is encoded of an operation the device admits and prepares is as declared     *)
LEMMA EncodedIsBound ==
  ASSUME NEW c, TypedChoice(c), ValidProgram(c), NEW p, p = ProgramOf(c), NEW o,
         ValidValues(p.layout, o.values), \A v \in o.values : TypedValue(v), GroupsMeanRequests(bindGroups),
         AdmittedOperation(p, o), PreparedOperation(p, o)
  PROVE  DispatchIsBound(EncodedDispatch(p, o))
<1>1. PICK x, L, V, G : /\ x = EncodedDispatch(p, o) /\ L = p.layout /\ V = o.values /\ G = c.module.globals
  OBVIOUS
<1>2. /\ L = LayoutOf(c) /\ p.module = c.module /\ p.entries = EntriesOf(c) /\ p.features = ProgramFeatures(c)
  BY <1>1 DEF ProgramOf
<1>3. /\ x.program = p /\ x.values = V /\ x.layouts = PositionalLayouts(L) /\ DOMAIN x.sets = GroupsOf(L)
      /\ \A n \in GroupsOf(L) : /\ x.sets[n].group = Realized(p, o)[GroupRequest(L, V, n)]
                                /\ x.sets[n].offsets = DynamicOffsets(L, V, n)
  BY <1>1 DEF EncodedDispatch
<1>4. PICK used : used = UNION {e.uses : e \in EntriesOf(c)}
  OBVIOUS
<1>5. Keyed(L) /\ OnlyBuffersMove(L)
  BY <1>2, ProgramsAreKeyed
<1>6. \A e \in EntriesOf(c) : \A k \in e.uses : e.stage \in UsingStages(c, k)
  BY ProgramsAreKeyed
<1>7. ASSUME NEW k \in used
      PROVE  /\ k \in UsedKeys(c) /\ k \in Nat \X Nat /\ k[1] \in GroupsOf(L)
             /\ Declaration(c, k) \in L /\ Declaration(c, k).key = k /\ ValidBinding(c, k)
  <2>1. k \in UsedKeys(c) /\ Declaration(c, k) \in L
    BY <1>2, <1>4, <1>7, ProgramsAreKeyed
  <2>2. Declaration(c, k).key = k /\ ValidBinding(c, k)
    BY <2>1, ProgramsAreKeyed
  <2> QED BY <1>5, <2>1, <2>2 DEF Keyed, GroupsOf
<1>8. \A n \in GroupsOf(L) : LowersGroupLayout(GroupLayout(L, n)) /\ n \in RealizedGroups(p, o)
  BY <1>1 DEF PreparedOperation, PreparesPipeline
<1>9. ASSUME NEW k \in used
      PROVE  x.sets[k[1]].group[k[2]] = [i \in DOMAIN ResourcesAt(V, k) |-> NativeResource(ResourcesAt(V, k)[i])]
  <2>1. PICK n : n = k[1] /\ n \in GroupsOf(L)
    BY <1>7, <1>9
  <2>2. PICK ask : ask = GroupRequest(L, V, n)
    OBVIOUS
  <2>3. ask \in DOMAIN Realized(p, o)
    BY <1>1, <1>8, <2>1, <2>2 DEF Realized
  <2>4. MeansValues(ask[2], Realized(p, o)[ask])
    BY <1>1, <1>5, <2>3, RealizedGroupsMeanRequests DEF GroupsMeanRequests
  <2>5. PICK v \in V : v.key = k /\ ResourcesAt(V, k) = v.resources
    BY <1>1, <1>7, <1>9, ValuesByKey
  <2>6. StaticValue(v) \in ask[2]
    BY <2>1, <2>2, <2>5 DEF GroupRequest, GroupValues
  <2>7. TypedValue(v)
    BY <1>1, <2>5
  <2>8. x.sets[n].group = Realized(p, o)[ask]
    BY <1>3, <2>1, <2>2
  <2>9. Realized(p, o)[ask][k[2]] = [i \in DOMAIN v.resources |-> NativeResource(v.resources[i])]
    BY <2>4, <2>5, <2>6, <2>7, StaticValuesMeanTheSame DEF MeansValues
  <2> QED BY <2>1, <2>5, <2>8, <2>9
<1>10. PICK places : places = UNION {{<<k, i>> : i \in DOMAIN x.sets[k[1]].group[k[2]]} : k \in used}
  OBVIOUS
<1>11. ASSUME NEW at \in places
       PROVE  LET k == at[1] r == ResourcesAt(V, at[1])[at[2]]
              IN  /\ k \in used /\ at[2] \in DOMAIN ResourcesAt(V, at[1]) /\ at = <<at[1], at[2]>>
                  /\ TypedResource(r) /\ ValidResource(Declaration(c, k), r) /\ AdmittedResource(Declaration(c, k), r)
                  /\ Reached(x, k, at[2]) = Meaning(r)
                  /\ <<<<Declaration(c, k), at[2]>>, r>> \in Elements(L, V)
  <2>0. PICK k \in used : \E i \in DOMAIN x.sets[k[1]].group[k[2]] : at = <<k, i>>
    BY <1>10, <1>11
  <2>1. PICK i \in DOMAIN x.sets[k[1]].group[k[2]] : at = <<k, i>>
    BY <2>0
  <2>2. i \in DOMAIN ResourcesAt(V, k)
    BY <1>9, <2>1
  <2>3. PICK d, r : d = Declaration(c, k) /\ r = ResourcesAt(V, k)[i] /\ d \in L /\ d.key = k
    BY <1>7
  <2>4. TypedResource(r)
    <3>1. PICK v \in V : v.key = k /\ ResourcesAt(V, k) = v.resources
      BY <1>1, <2>3, ValuesByKey
    <3>2. TypedValue(v)
      BY <1>1, <3>1
    <3> QED BY <2>2, <2>3, <3>1, <3>2 DEF TypedValue
  <2>5. ValidResource(d, r)
    BY <1>1, <2>2, <2>3, BoundToDeclaration
  <2>6. <<<<d, i>>, r>> \in Elements(L, V)
    BY <2>2, <2>3 DEF Elements
  <2>7. AdmittedResource(d, r)
    <3>1. \A e \in Elements(L, V) : AdmittedResource(e[1][1], e[2])
      BY <1>1 DEF AdmittedOperation
    <3> QED BY <2>6, <3>1
  <2>8. x.sets[k[1]].group[k[2]][i] = NativeResource(r)
    BY <1>9, <2>2, <2>3
  <2>9. Reached(x, k, i) = Meaning(r)
    <3>1. CASE r.kind = "Buffer"
      <4>1. PICK m : m = NativeResource(r)
        OBVIOUS
      <4>2. m = [kind |-> "Buffer", buffer |-> r.buffer, offset |-> r.offset, size |-> r.size]
        BY <3>1, <4>1 DEF NativeResource
      <4>3. m.kind = "Buffer" /\ m.offset = r.offset
        BY <4>2
      <4>4. DeviceOffset(x, k[1], k[2]) = UseOffset(r)
        <5>1. CarriesOffsets(x, L, V)
          BY <1>1, <1>3, <1>5, <1>8 DEF CarriesOffsets
        <5>2. d \in L /\ i \in DOMAIN ResourcesAt(V, d.key) /\ ResourcesAt(V, d.key)[i].kind = "Buffer"
          BY <2>2, <2>3, <3>1
        <5>3. DeviceOffset(x, d.key[1], d.key[2]) = UseOffset(ResourcesAt(V, d.key)[i])
          BY <5>1, <5>2, OffsetsReachBuffers
        <5> QED BY <2>3, <5>3
      <4>5. Reached(x, k, i) = [m EXCEPT !.offset = m.offset + DeviceOffset(x, k[1], k[2])]
        BY <2>8, <4>1, <4>3 DEF Reached
      <4>6. Meaning(r) = [m EXCEPT !.offset = EffectiveOffset(r)]
        BY <3>1, <4>1 DEF Meaning
      <4> QED BY <4>3, <4>4, <4>5, <4>6 DEF EffectiveOffset
    <3>2. CASE r.kind # "Buffer"
      <4>1. NativeResource(r).kind # "Buffer"
        BY <2>4, <3>2 DEF NativeResource, TypedResource
      <4> QED BY <2>8, <3>2, <4>1 DEF Reached, Meaning
    <3> QED BY <3>1, <3>2
  <2> QED BY <2>1, <2>2, <2>3, <2>4, <2>5, <2>6, <2>7, <2>9
<1>12. ASSUME NEW e \in EntriesOf(c), NEW k \in e.uses
       PROVE  LET entry == x.layouts[k[1]][k[2]]
              IN  /\ e.stage \in entry.visibility
                  /\ entry.count = G[k].count
                  /\ entry.class \in BufferClasses /\ entry.type.readOnly => G[k].access \cap {"Store", "Atomic"} = {}
  <2>1. PICK d : d = Declaration(c, k)
    OBVIOUS
  <2>2. k \in used
    BY <1>4, <1>12
  <2>3. x.layouts[k[1]][k[2]] = NativeEntry(d)
    BY <1>3, <1>5, <1>7, <2>1, <2>2, EntriesHavePositions
  <2>4. e.stage \in VisibilityOf(c, k)
    BY <1>6, <1>7, <1>12, <2>2 DEF ValidBinding
  <2>5. /\ d.visibility = VisibilityOf(c, k) /\ d.count = G[k].count /\ d.class = BindingClass(G[k])
        /\ d.access = AccessOf(G[k])
    BY <1>1, <2>1 DEF Declaration
  <2>6. /\ NativeEntry(d).visibility = d.visibility /\ NativeEntry(d).count = d.count
        /\ NativeEntry(d).class = d.class
    BY DEF NativeEntry
  <2>7. d.class \in BufferClasses => (NativeEntry(d).type.readOnly = (d.class = "UniformBuffer" \/ d.access = "ReadOnly"))
    <3>1. ASSUME d.class \in BufferClasses
          PROVE  NativeEntry(d).type = [readOnly |-> d.class = "UniformBuffer" \/ d.access = "ReadOnly", minimum |-> d.host]
      BY <3>1 DEF NativeEntry, BufferClasses
    <3> QED BY <3>1
  <2>8. G[k].access \cap {"Store", "Atomic"} # {} => d.class # "UniformBuffer" /\ d.access # "ReadOnly"
    BY <1>1, <1>7, <2>1, <2>2, StoresAreDeclared DEF MayWrite
  <2> QED BY <2>3, <2>4, <2>5, <2>6, <2>7, <2>8
<1>13. ASSUME NEW n \in DOMAIN x.layouts \ DOMAIN x.sets
       PROVE  DOMAIN x.layouts[n] = {}
  <2>1. n \in 0 .. GroupSlots(L) - 1
    BY <1>3, <1>13 DEF PositionalLayouts
  <2>2. GroupLayout(L, n) = {}
    BY <1>3, <1>13 DEF GroupLayout, GroupsOf
  <2>3. DOMAIN PositionalLayouts(L)[n] = {d.key[2] : d \in GroupLayout(L, n)}
    BY <1>5, <2>1, PositionsHoldEntries
  <2> QED BY <1>3, <2>2, <2>3
<1>14. ASSUME NEW at \in places
       PROVE  InsideBuffer(Reached(x, at[1], at[2]), G[at[1]].size,
                 IF G[at[1]].space = "Uniform" THEN BindingLimits.uniformAlignment ELSE BindingLimits.storageAlignment)
  <2>1. PICK d, r, g : d = Declaration(c, at[1]) /\ r = ResourcesAt(V, at[1])[at[2]] /\ g = G[at[1]]
    OBVIOUS
  <2>2. d.class = BindingClass(g) /\ d.compiler = g.size
    BY <1>1, <2>1 DEF Declaration
  <2>3. /\ TypedResource(r) /\ ValidResource(d, r) /\ AdmittedResource(d, r)
        /\ Reached(x, at[1], at[2]) = Meaning(r)
    BY <1>11, <1>14, <2>1
  <2>4. InsideBuffer(Meaning(r), g.size,
            IF g.space = "Uniform" THEN BindingLimits.uniformAlignment ELSE BindingLimits.storageAlignment)
    BY <2>2, <2>3, MeaningInsideBuffer
  <2> QED BY <2>1, <2>3, <2>4
<1>15. ASSUME NEW a \in places, NEW b \in places, a # b,
              \/ G[a[1]].access \cap {"Store", "Atomic"} # {} \/ G[b[1]].access \cap {"Store", "Atomic"} # {}
       PROVE  CellsReached(Reached(x, a[1], a[2])) \cap CellsReached(Reached(x, b[1], b[2])) = {}
  <2>1. PICK d, r : d = Declaration(c, a[1]) /\ r = ResourcesAt(V, a[1])[a[2]]
    OBVIOUS
  <2>2. PICK e, s : e = Declaration(c, b[1]) /\ s = ResourcesAt(V, b[1])[b[2]]
    OBVIOUS
  <2>3. /\ a[1] \in used /\ TypedResource(r) /\ Reached(x, a[1], a[2]) = Meaning(r)
        /\ <<<<d, a[2]>>, r>> \in Elements(L, V) /\ a = <<a[1], a[2]>>
    BY <1>11, <1>15, <2>1
  <2>4. /\ b[1] \in used /\ TypedResource(s) /\ Reached(x, b[1], b[2]) = Meaning(s)
        /\ <<<<e, b[2]>>, s>> \in Elements(L, V) /\ b = <<b[1], b[2]>>
    BY <1>11, <1>15, <2>2
  <2>5. d.key = a[1] /\ e.key = b[1]
    BY <1>7, <2>1, <2>2, <2>3, <2>4
  <2>6. <<d, a[2]>> # <<e, b[2]>>
    BY <1>15, <2>3, <2>4, <2>5
  <2>7. MayWrite(d) \/ MayWrite(e)
    BY <1>1, <1>7, <1>15, <2>1, <2>2, <2>3, <2>4, StoresAreDeclared
  <2>8. NoWritableAlias(L, V)
    BY <1>1 DEF ValidValues
  <2>9. CellsBound(r) \cap CellsBound(s) = {}
    <3>1. \A u, w \in Elements(L, V) :
             u[1] # w[1] /\ (MayWrite(u[1][1]) \/ MayWrite(w[1][1])) => CellsBound(u[2]) \cap CellsBound(w[2]) = {}
      BY <2>8 DEF NoWritableAlias
    <3> QED BY <2>3, <2>4, <2>6, <2>7, <3>1
  <2> QED BY <2>3, <2>4, <2>9, MeaningHasTheCells
<1>16. /\ c.module.needs \cup {NonUniformFeature[BindingClass(G[k])] : k \in c.module.nonUniform} \subseteq Device.features
       /\ \A k \in ArrayKeys(c.module) : ArrayFeatures(BindingClass(G[k])) \subseteq Device.features
  <2>1. ModuleFeatures(c.module) \subseteq Device.features
    <3>1. p.features \subseteq Device.features
      BY DEF AdmittedOperation, DispatchFeatures
    <3>2. ModuleFeatures(c.module) \subseteq p.features
      BY <1>2 DEF ProgramFeatures
    <3> QED BY <3>1, <3>2
  <2>2. TypedModule(c.module) /\ ValidModule(c.module)
    BY DEF TypedChoice, ValidProgram
  <2>3. /\ c.module.needs \cup {NonUniformFeature[BindingClass(G[k])] : k \in c.module.nonUniform}
             \subseteq ModuleFeatures(c.module)
        /\ \A k \in ArrayKeys(c.module) : ArrayFeatures(BindingClass(G[k])) \subseteq ModuleFeatures(c.module)
    BY <1>1, <2>2, ModulesNeedTheirFeatures
  <2> QED BY <2>1, <2>3
<1>17. \A at \in places : Reached(x, at[1], at[2]) = Meaning(ResourcesAt(V, at[1])[at[2]])
  BY <1>11
<1>18. /\ x.program.module = c.module /\ x.program.entries = EntriesOf(c) /\ x.values = V
       /\ x.program.module.globals = G
  BY <1>1, <1>2, <1>3
<1>19. DispatchIsBound(x)
  <2>1. \A e \in x.program.entries : \A k \in e.uses :
           LET entry == x.layouts[k[1]][k[2]]
           IN  /\ e.stage \in entry.visibility
               /\ entry.count = G[k].count
               /\ entry.class \in BufferClasses /\ entry.type.readOnly => ~(G[k].access \cap {"Store", "Atomic"} # {})
    BY <1>12, <1>18
  <2>2. \A n \in DOMAIN x.layouts \ DOMAIN x.sets : DOMAIN x.layouts[n] = {}
    BY <1>13
  <2>3. \A at \in places :
          /\ Reached(x, at[1], at[2]) = Meaning(ResourcesAt(x.values, at[1])[at[2]])
          /\ InsideBuffer(Reached(x, at[1], at[2]), G[at[1]].size,
                 IF G[at[1]].space = "Uniform" THEN BindingLimits.uniformAlignment ELSE BindingLimits.storageAlignment)
    BY <1>14, <1>17, <1>18
  <2>4. \A a, b \in places :
          a # b /\ (G[a[1]].access \cap {"Store", "Atomic"} # {} \/ G[b[1]].access \cap {"Store", "Atomic"} # {})
          => CellsReached(Reached(x, a[1], a[2])) \cap CellsReached(Reached(x, b[1], b[2])) = {}
    BY <1>15
  <2>5. /\ x.program.module.needs \cup {NonUniformFeature[BindingClass(G[k])] : k \in x.program.module.nonUniform}
             \subseteq Device.features
        /\ \A k \in ArrayKeys(x.program.module) : ArrayFeatures(BindingClass(G[k])) \subseteq Device.features
    BY <1>16, <1>18
  <2>6. places = UNION {{<<k, i>> : i \in DOMAIN x.sets[k[1]].group[k[2]]} : k \in UNION {e.uses : e \in x.program.entries}}
    BY <1>4, <1>10, <1>18
  <2> QED BY <1>18, <2>1, <2>2, <2>3, <2>4, <2>5, <2>6, Zenon DEF DispatchIsBound
<1> QED BY <1>1, <1>19

-----------------------------------------------------------------------------
(* The invariant *)

(* Dispatches in order, each bound as declared                                   *)
BoundEach(made) == made \in Seq({made[i] : i \in DOMAIN made}) /\ \A i \in DOMAIN made : DispatchIsBound(made[i])

(* One more that is bound as declared leaves them so                              *)
LEMMA BoundDispatchesGrow ==
  ASSUME NEW made, BoundEach(made), NEW x, DispatchIsBound(x)
  PROVE  BoundEach(Append(made, x))
<1>1. PICK Dispatches : Dispatches = {made[i] : i \in DOMAIN made} \cup {x}
  OBVIOUS
<1>2. made \in Seq(Dispatches) /\ x \in Dispatches
  BY <1>1 DEF BoundEach
<1>3. PICK more : more = Append(made, x)
  OBVIOUS
<1>4. /\ more \in Seq(Dispatches)
      /\ DOMAIN more = DOMAIN made \cup {Len(made) + 1}
      /\ more[Len(made) + 1] = x
      /\ \A i \in DOMAIN made : more[i] = made[i]
  BY <1>2, <1>3
<1>5. \A i \in DOMAIN more : DispatchIsBound(more[i])
  BY <1>4 DEF BoundEach
<1>6. more \in Seq({more[i] : i \in DOMAIN more})
  <2>1. PICK n \in Nat : more \in [1 .. n -> Dispatches]
    <3>1. more \in [1 .. Len(more) -> Dispatches] /\ Len(more) \in Nat
      BY <1>4, LenProperties
    <3> QED BY <3>1
  <2>2. DOMAIN more = 1 .. n /\ more \in [1 .. n -> {more[i] : i \in DOMAIN more}]
    BY <2>1
  <2> QED BY <2>1, <2>2
<1> QED BY <1>3, <1>5, <1>6 DEF BoundEach

(* The program in use was admitted, the operation was made for it, cached bind     *)
(* groups mean their requests, and every dispatch encoded is bound as declared      *)
BindingInv ==
  /\ \A p \in program : \E c \in ProgramChoice : ValidProgram(c) /\ p = ProgramOf(c)
  /\ \A p, q \in program : p = q
  /\ \A p \in program, o \in operation : ValidValues(p.layout, o.values) /\ \A v \in o.values : TypedValue(v)
  /\ GroupsMeanRequests(bindGroups)
  /\ BoundEach(dispatches)

LEMMA BindingInvInit == BindingInit => BindingInv
<1>1. SUFFICES ASSUME BindingInit PROVE BindingInv
  OBVIOUS
<1>2. program = {} /\ operation = {} /\ bindGroups = << >> /\ dispatches = <<>>
  BY <1>1 DEF BindingInit
<1>3. GroupsMeanRequests(bindGroups) /\ BoundEach(dispatches)
  BY <1>2 DEF GroupsMeanRequests, BoundEach
<1> QED BY <1>2, <1>3 DEF BindingInv

LEMMA BindingInvNext == BindingInv /\ [BindingNext]_bindingVars => BindingInv'
<1> SUFFICES ASSUME BindingInv, [BindingNext]_bindingVars PROVE BindingInv'
  OBVIOUS
<1>1. bindGroups' = bindGroups => GroupsMeanRequests(bindGroups')
  BY DEF BindingInv
<1>2. BoundEach(dispatches)
  BY DEF BindingInv
<1>3. ASSUME NEW c \in ProgramChoice, AdmitProgram(c)
      PROVE  BindingInv'
  <2>1. /\ ValidProgram(c) /\ program' = {ProgramOf(c)} /\ operation' = {}
        /\ bindGroups' = bindGroups /\ dispatches' = dispatches
    BY <1>3 DEF AdmitProgram
  <2> QED BY <1>1, <1>2, <1>3, <2>1 DEF BindingInv
<1>4. ASSUME NEW p \in program, NEW values \in ValuesTried(p.layout), NEW intent \in DispatchChoice,
             MakeOperation(values, intent)
      PROVE  BindingInv'
  <2>1. /\ program' = program /\ operation' = {[values |-> values, intent |-> intent]}
        /\ bindGroups' = bindGroups /\ dispatches' = dispatches
        /\ \E q \in program : ValidValues(q.layout, values)
    BY <1>4 DEF MakeOperation
  <2>2. PICK c \in ProgramChoice : ValidProgram(c) /\ p = ProgramOf(c)
    BY <1>4 DEF BindingInv
  <2>3. p.layout = LayoutOf(c)
    BY <2>2 DEF ProgramOf
  <2>4. \A v \in values : TypedValue(v)
    BY <1>4, <2>2, <2>3, BindingConstants
  <2>5. ASSUME NEW q \in program', NEW o \in operation'
        PROVE  ValidValues(q.layout, o.values) /\ \A v \in o.values : TypedValue(v)
    <3>1. o.values = values
      BY <2>1, <2>5
    <3>2. ValidValues(q.layout, values)
      BY <2>1, <2>5 DEF BindingInv
    <3> QED BY <2>4, <3>1, <3>2
  <2> QED BY <1>1, <1>2, <2>1, <2>5 DEF BindingInv
<1>5. CASE SubmitOperation
  <2>1. PICK p \in program, o \in operation :
          /\ operation' = {} /\ program' = program
          /\ bindGroups' = IF AdmittedOperation(p, o) THEN Realized(p, o) ELSE bindGroups
          /\ dispatches' = IF AdmittedOperation(p, o) /\ PreparedOperation(p, o) /\ ~EncodesNothing(o.intent)
                           THEN Append(dispatches, EncodedDispatch(p, o)) ELSE dispatches
    BY <1>5, Zenon DEF SubmitOperation
  <2>2. PICK c \in ProgramChoice : ValidProgram(c) /\ p = ProgramOf(c)
    BY DEF BindingInv
  <2>3. TypedChoice(c)
    BY BindingConstants
  <2>4. /\ ValidValues(p.layout, o.values) /\ \A v \in o.values : TypedValue(v)
        /\ GroupsMeanRequests(bindGroups)
    BY DEF BindingInv
  <2>5. Keyed(p.layout)
    <3>1. p.layout = LayoutOf(c)
      BY <2>2 DEF ProgramOf
    <3> QED BY <2>2, <2>3, <3>1, ProgramsAreKeyed
  <2>6. GroupsMeanRequests(bindGroups')
    <3>1. GroupsMeanRequests(Realized(p, o))
      BY <2>4, <2>5, RealizedGroupsMeanRequests
    <3> QED BY <1>1, <2>1, <3>1
  <2>7. BoundEach(dispatches')
    <3>1. CASE AdmittedOperation(p, o) /\ PreparedOperation(p, o) /\ ~EncodesNothing(o.intent)
      <4>1. DispatchIsBound(EncodedDispatch(p, o))
        BY <2>2, <2>3, <2>4, <3>1, EncodedIsBound
      <4>2. dispatches' = Append(dispatches, EncodedDispatch(p, o))
        BY <2>1, <3>1
      <4> QED BY <4>1, <4>2, BoundDispatchesGrow DEF BindingInv
    <3>2. CASE ~(AdmittedOperation(p, o) /\ PreparedOperation(p, o) /\ ~EncodesNothing(o.intent))
      BY <1>2, <2>1, <3>2
    <3> QED BY <3>1, <3>2
  <2> QED BY <2>1, <2>6, <2>7 DEF BindingInv
<1>6. CASE UNCHANGED bindingVars
  <2>1. /\ program' = program /\ operation' = operation /\ bindGroups' = bindGroups /\ dispatches' = dispatches
    BY <1>6 DEF bindingVars
  <2> QED BY <1>1, <1>2, <2>1 DEF BindingInv
<1> QED BY <1>3, <1>4, <1>5, <1>6 DEF BindingNext

LEMMA BindingInvHolds == BindingSpec => []BindingInv
BY BindingInvInit, BindingInvNext, PTL DEF BindingSpec

(* Of every dispatch encoded, each global an entry uses lies in the layout at its     *)
(* position, and what the device reaches there is what the caller bound, inside its     *)
(* buffer, aligned and unshared when written, with every feature on the device          *)
(* (analyze_program, GpuRuntimeBindingSet::new, realize_validated_bind_group,           *)
(* checked_dynamic_offsets).                                                           *)
THEOREM DispatchesAreBound == BindingSpec => []BoundAsDeclared
<1>1. BindingInv => BoundAsDeclared
  <2>1. ASSUME BindingInv, NEW j \in DOMAIN dispatches
        PROVE  DispatchIsBound(dispatches[j])
    <3>1. BoundEach(dispatches)
      BY <2>1 DEF BindingInv
    <3> QED BY <2>1, <3>1 DEF BoundEach
  <2> QED BY <2>1 DEF BoundAsDeclared
<1> QED BY <1>1, BindingInvHolds, PTL

-----------------------------------------------------------------------------
(* Powers, rounding and places in rows, which the layouts of transfers use *)

(* The sizes of mip levels divide by a positive number                        *)
LEMMA PowersAreNumbers ==
  ASSUME NEW m \in 0 .. 31
  PROVE  2^m \in Nat \ {0}
<1>1. PICK p : p = [n \in 0 .. 31 |-> 2^n]
  OBVIOUS
<1>2. p[0] = 1 /\ p[1] = 2 /\ p[2] = 4 /\ p[3] = 8 /\ p[4] = 16 /\ p[5] = 32 /\ p[6] = 64 /\ p[7] = 128
      /\ p[8] = 256 /\ p[9] = 512 /\ p[10] = 1024 /\ p[11] = 2048 /\ p[12] = 4096 /\ p[13] = 8192
      /\ p[14] = 16384 /\ p[15] = 32768 /\ p[16] = 65536 /\ p[17] = 131072 /\ p[18] = 262144 /\ p[19] = 524288
      /\ p[20] = 1048576 /\ p[21] = 2097152 /\ p[22] = 4194304 /\ p[23] = 8388608 /\ p[24] = 16777216
      /\ p[25] = 33554432 /\ p[26] = 67108864 /\ p[27] = 134217728 /\ p[28] = 268435456 /\ p[29] = 536870912
      /\ p[30] = 1073741824 /\ p[31] = 2147483648
  BY <1>1, SMT
<1>3. m = 0 \/ m = 1 \/ m = 2 \/ m = 3 \/ m = 4 \/ m = 5 \/ m = 6 \/ m = 7 \/ m = 8 \/ m = 9 \/ m = 10 \/ m = 11
      \/ m = 12 \/ m = 13 \/ m = 14 \/ m = 15 \/ m = 16 \/ m = 17 \/ m = 18 \/ m = 19 \/ m = 20 \/ m = 21
      \/ m = 22 \/ m = 23 \/ m = 24 \/ m = 25 \/ m = 26 \/ m = 27 \/ m = 28 \/ m = 29 \/ m = 30 \/ m = 31
  BY SMT
<1>4. p[m] \in Nat \ {0}
  BY <1>2, <1>3, SMT
<1> QED BY <1>1, <1>4, SMT

(* A texture has no more levels than its largest extent has bits               *)
LEMMA MipsAreFew ==
  ASSUME NEW d, TypedTexture(d), ValidTexture(d)
  PROVE  d.mips \in 1 .. 32
<1>1. PICK e : e = d.extent
  OBVIOUS
<1>2. PICK largest : largest = IF d.dimension = "D3" /\ e.depth > e.width /\ e.depth > e.height THEN e.depth
                               ELSE IF e.width > e.height THEN e.width ELSE e.height
  OBVIOUS
<1>3. largest \in Nat \ {0} /\ \E bits \in 0 .. 32 : largest < 2^bits
  <2>1. largest \in {e.width, e.height, e.depth}
    BY <1>2
  <2>2. e.width > 0 /\ e.height > 0 /\ e.depth > 0
    BY <1>1 DEF ValidTexture, ValidExtent
  <2> QED BY <1>1, <2>1, <2>2 DEF TypedTexture, TypedExtent
<1>4. PICK S : S = {n \in Nat : n <= 32 /\ largest < 2^n}
  OBVIOUS
<1>5. PICK m \in S : \A n \in S : m <= n
  <2>1. S \in SUBSET Nat /\ S # {}
    BY <1>3, <1>4
  <2> QED BY <2>1, LeastNumber
<1>6. m \in 1 .. 32
  <2>1. 2^0 = 1
    OBVIOUS
  <2>2. m \in Nat /\ m <= 32 /\ largest < 2^m
    BY <1>4, <1>5
  <2>3. m # 0
    <3>1. largest \in Nat \ {0}
      BY <1>3
    <3>2. ~(largest < 1)
      BY <3>1
    <3> QED BY <2>1, <2>2, <3>2
  <2> QED BY <2>2, <2>3
<1>7. 2^(m - 1) <= largest
  <2>1. PICK k : k = m - 1
    OBVIOUS
  <2>2. k \in 0 .. 31
    BY <1>6, <2>1
  <2>3. 2^k \in Nat
    BY <2>2, PowersAreNumbers
  <2>4. k \notin S
    BY <1>5, <1>6, <2>1
  <2>5. ~(largest < 2^k)
    BY <1>4, <2>2, <2>4
  <2> QED BY <1>3, <2>1, <2>3, <2>5
<1>8. MaxMips(d.dimension, e) = CHOOSE n \in 1 .. 32 : 2^(n - 1) <= largest /\ largest < 2^n
  BY <1>2 DEF MaxMips
<1>9. MaxMips(d.dimension, e) \in 1 .. 32
  <2>1. \E n \in 1 .. 32 : 2^(n - 1) <= largest /\ largest < 2^n
    BY <1>4, <1>5, <1>6, <1>7
  <2> QED BY <1>8, <2>1
<1>10. d.mips \in 1 .. MaxMips(d.dimension, e)
  BY <1>1 DEF ValidTexture
<1> QED BY <1>9, <1>10

(* Aligning reaches the next multiple                                         *)
LEMMA AlignUpIs ==
  ASSUME NEW value \in Nat, NEW alignment \in Nat \ {0}
  PROVE  /\ AlignUp(value, alignment) \in Nat /\ AlignUp(value, alignment) >= value
         /\ AlignUp(value, alignment) % alignment = 0
<1>1. PICK q \in Nat, r \in Nat : q = value \div alignment /\ r = value % alignment /\ value = q * alignment + r /\ r < alignment
  BY Division
<1>2. CASE r = 0
  BY <1>1, <1>2 DEF AlignUp
<1>3. CASE r # 0
  <2>1. AlignUp(value, alignment) = value + (alignment - r)
    BY <1>1, <1>3 DEF AlignUp
  <2>2. value + (alignment - r) = (q + 1) * alignment
    BY <1>1
  <2>3. PICK n \in Nat : n = q + 1
    OBVIOUS
  <2>4. (n * alignment) % alignment = 0
    BY <2>3, Remainder
  <2> QED BY <1>1, <2>1, <2>2, <2>3, <2>4
<1> QED BY <1>2, <1>3

(* Blocks cover an extent, and whole blocks exactly                           *)
LEMMA BlocksCover ==
  ASSUME NEW extent \in Nat \ {0}, NEW block \in Nat \ {0}
  PROVE  /\ BlockCount(extent, block) \in Nat \ {0}
         /\ extent <= BlockCount(extent, block) * block
         /\ extent % block = 0 => BlockCount(extent, block) * block = extent
<1>1. PICK n \in Nat : n = extent + block - 1
  OBVIOUS
<1>2. PICK q \in Nat, r \in Nat : q = n \div block /\ r = n % block /\ n = q * block + r /\ r < block
  BY <1>1, Division
<1>3. q = BlockCount(extent, block)
  BY <1>1, <1>2 DEF BlockCount
<1>4. q # 0
  BY <1>1, <1>2, Products
<1>5. extent <= q * block
  BY <1>1, <1>2, Products
<1>6. ASSUME extent % block = 0
      PROVE  q * block = extent
  <2>1. PICK a \in Nat, b \in Nat : a = extent \div block /\ b = extent % block /\ extent = a * block + b /\ b < block
    BY Division
  <2>2. n = a * block + (block - 1)
    BY <1>1, <1>6, <2>1
  <2>3. PICK c \in Nat : c = block - 1
    OBVIOUS
  <2>4. n \div block = a
    BY <2>2, <2>3, Remainder
  <2> QED BY <1>2, <1>6, <2>1, <2>4
<1> QED BY <1>3, <1>4, <1>5, <1>6

(* A place within a place *)
LEMMA PlacesNest ==
  ASSUME NEW m \in Nat, NEW n \in Nat, NEW a \in 0 .. m - 1, NEW b \in 0 .. n - 1
  PROVE  a * n + b \in 0 .. m * n - 1
<1>1. a * n + n <= m * n /\ a * n \in Nat /\ m * n \in Nat
  BY Products
<1> QED BY <1>1

(* and back                                                                   *)
LEMMA PlacesPart ==
  \A m \in Nat, n \in Nat \ {0} : \A i \in 0 .. m * n - 1 :
    \E a \in 0 .. m - 1, b \in 0 .. n - 1 : i = a * n + b /\ a = i \div n /\ b = i % n
<1> TAKE m \in Nat, n \in Nat \ {0}
<1> TAKE i \in 0 .. m * n - 1
<1>1. PICK q \in Nat, r \in Nat : q = i \div n /\ r = i % n /\ i = q * n + r /\ r < n
  BY Division
<1>2. m * n \in Nat
  BY Products
<1>3. q < m
  <2>1. SUFFICES ASSUME m <= q PROVE FALSE
    OBVIOUS
  <2>2. m * n <= q * n
    BY <2>1, Products
  <2> QED BY <1>1, <1>2, <2>2
<1>4. q \in 0 .. m - 1 /\ r \in 0 .. n - 1
  BY <1>1, <1>3
<1> QED BY <1>1, <1>4, Zenon

(* A product of three regroups                                                *)
LEMMA Regroup ==
  ASSUME NEW a \in Nat, NEW b \in Nat, NEW c \in Nat, NEW d \in Nat
  PROVE  /\ (a * b + c) * d = a * (d * b) + c * d /\ a * b = b * a /\ a * b * c = a * (b * c)
         /\ (a * b + c) * d = a * (b * d) + c * d
         /\ {a * b, a * (b * c), (a * b + c) * d, a * b * c} \subseteq Nat
OBVIOUS

-----------------------------------------------------------------------------
(* Regions: blocks in three directions, and the bytes of a block *)

(* Regions of admitted textures that callers and prepared contents name       *)
TypedRegion(r) == TypedTexture(r.of) /\ ValidTexture(r.of) /\ TypedProbe(r)

(* An aspect stays what it selects                                            *)
LEMMA AspectsSettle ==
  ASSUME NEW class \in {"Color", "Depth", "Stencil", "DepthStencil"}, NEW aspect,
         AspectOf(class, aspect) \in {"Color", "DepthOnly", "StencilOnly"}
  PROVE  AspectOf(class, AspectOf(class, aspect)) = AspectOf(class, aspect)
<1>1. PICK A : A = ClassAspects(class)
  OBVIOUS
<1>2. A \in {{"Color"}, {"DepthOnly"}, {"StencilOnly"}, {"DepthOnly", "StencilOnly"}}
  BY <1>1 DEF ClassAspects
<1>3. AspectOf(class, aspect) \in A
  BY <1>1, <1>2 DEF AspectOf, Supports
<1> QED BY <1>1, <1>2, <1>3 DEF AspectOf, Supports

(* The blocks of a region in its three directions and their bytes             *)
Measured(r) ==
  /\ Wide(r) \in Nat \ {0} /\ High(r) \in Nat \ {0} /\ BlockBytes(r) \in {1, 2, 4, 8, 16}
  /\ r.extent.depth \in Nat \ {0}
  /\ RegionFootprint(r).row = Wide(r) * BlockBytes(r) /\ RegionFootprint(r).rows = High(r)
  /\ Wide(r) * BlockBytes(r) \in Nat \ {0} /\ High(r) * r.extent.depth \in Nat \ {0}
  /\ CopyBlockSize(r.of.format, r.aspect) = BlockBytes(r)

(* A region with a footprint is measured                                      *)
LEMMA RegionsMeasured ==
  ASSUME NEW r, TypedRegion(r), ValidRegion(r), RegionFootprint(r).known
  PROVE  Measured(r)
<1>1. PICK row : row = Semantics[r.of.format]
  OBVIOUS
<1>2. /\ row.class \in {"Color", "Depth", "Stencil", "DepthStencil"}
      /\ row.width \in Nat \ {0} /\ row.height \in Nat \ {0}
      /\ row.color \in {0, 1, 2, 4, 8, 16} /\ row.depth \in {0, 2, 4} /\ row.stencil \in {0, 1}
  BY <1>1, FormatRows DEF TypedRegion, TypedTexture
<1>3. PICK a, bytes : a = AspectOf(row.class, r.aspect) /\ bytes = BytesOf(row, r.aspect)
  OBVIOUS
<1>4. /\ RegionFootprint(r).known = (r.extent.width > 0 /\ r.extent.height > 0 /\ bytes > 0)
      /\ RegionFootprint(r).row = BlockCount(r.extent.width, row.width) * bytes
      /\ RegionFootprint(r).rows = BlockCount(r.extent.height, row.height)
  BY <1>1, <1>3 DEF RegionFootprint, Footprint, Texture
<1>5. /\ a = "Color" => bytes = row.color
      /\ a = "DepthOnly" => bytes = row.depth
      /\ a = "StencilOnly" => bytes = row.stencil
      /\ a \notin {"Color", "DepthOnly", "StencilOnly"} => bytes = 0
  BY <1>3 DEF BytesOf
<1>6. a \in {"Color", "DepthOnly", "StencilOnly"} /\ bytes \in {1, 2, 4, 8, 16}
  <2>1. bytes > 0
    BY <1>4
  <2>2. a \in {"Color", "DepthOnly", "StencilOnly"}
    BY <1>5, <2>1
  <2>3. bytes \in {0, 1, 2, 4, 8, 16}
    BY <1>2, <1>5, <2>2
  <2> QED BY <2>1, <2>2, <2>3
<1>7. BlockBytes(r) = bytes
  <2>1. Selected(r) = a
    BY <1>1, <1>3 DEF Selected, FormatAspect, Texture
  <2>2. AspectOf(row.class, a) = a
    BY <1>2, <1>3, <1>6, AspectsSettle
  <2>3. BytesOf(row, a) = bytes
    BY <1>5, <1>6, <2>2 DEF BytesOf
  <2> QED BY <1>1, <1>6, <2>1, <2>3 DEF BlockBytes, Texture
<1>8. /\ r.extent.width \in Nat \ {0} /\ r.extent.height \in Nat \ {0} /\ r.extent.depth \in Nat \ {0}
  BY DEF ValidRegion, TypedRegion, TypedProbe, TypedExtent
<1>9. /\ Wide(r) = BlockCount(r.extent.width, row.width) /\ Wide(r) \in Nat \ {0}
      /\ High(r) = BlockCount(r.extent.height, row.height) /\ High(r) \in Nat \ {0}
  BY <1>1, <1>2, <1>8, BlocksCover DEF Wide, High, Width, Height, Texture
<1>10. Wide(r) * BlockBytes(r) \in Nat \ {0} /\ High(r) * r.extent.depth \in Nat \ {0}
  <2>1. \A m, n \in Nat \ {0} : m * n \in Nat \ {0}
    BY Products
  <2> QED BY <1>6, <1>7, <1>8, <1>9, <2>1
<1>11. CopyBlockSize(r.of.format, r.aspect) = bytes
  BY <1>1, <1>3 DEF CopyBlockSize
<1> QED BY <1>4, <1>6, <1>7, <1>8, <1>9, <1>10, <1>11 DEF Measured

-----------------------------------------------------------------------------
(* Places within a region                                                     *)

LineOf(r, at) == at[3] * High(r) + at[2]
ByteOf(r, at) == at[1] * BlockBytes(r) + at[4]

(* Every block byte of a region has a line and a byte in that line            *)
LEMMA PlacesHaveLines ==
  ASSUME NEW r, Measured(r), NEW at \in BlockPlaces(r)
  PROVE  /\ at[1] \in 0 .. Wide(r) - 1 /\ at[2] \in 0 .. High(r) - 1
         /\ at[3] \in 0 .. r.extent.depth - 1 /\ at[4] \in 0 .. BlockBytes(r) - 1
         /\ LineOf(r, at) \in 0 .. High(r) * r.extent.depth - 1
         /\ ByteOf(r, at) \in 0 .. RegionFootprint(r).row - 1
<1>1. PICK w, h, d, b : w = Wide(r) /\ h = High(r) /\ d = r.extent.depth /\ b = BlockBytes(r)
  OBVIOUS
<1>2. w \in Nat /\ h \in Nat /\ d \in Nat /\ b \in Nat
  BY <1>1 DEF Measured
<1>3. at[1] \in 0 .. w - 1 /\ at[2] \in 0 .. h - 1 /\ at[3] \in 0 .. d - 1 /\ at[4] \in 0 .. b - 1
  BY <1>1 DEF BlockPlaces
<1>4. at[3] * h + at[2] \in 0 .. d * h - 1
  BY <1>2, <1>3, PlacesNest
<1>5. d * h = h * d
  BY <1>2, Regroup
<1>6. at[1] * b + at[4] \in 0 .. w * b - 1
  BY <1>2, <1>3, PlacesNest
<1>7. RegionFootprint(r).row = w * b
  BY <1>1 DEF Measured
<1> QED BY <1>1, <1>3, <1>4, <1>5, <1>6, <1>7 DEF LineOf, ByteOf

(* and every line and byte is that of a block byte                            *)
LEMMA LinesHavePlaces ==
  ASSUME NEW r, Measured(r), NEW z \in 0 .. r.extent.depth - 1, NEW y \in 0 .. High(r) - 1,
         NEW k \in 0 .. RegionFootprint(r).row - 1
  PROVE  \E at \in BlockPlaces(r) : at[3] = z /\ at[2] = y /\ ByteOf(r, at) = k
<1>1. PICK w, b : w = Wide(r) /\ b = BlockBytes(r)
  OBVIOUS
<1>2. w \in Nat /\ b \in Nat \ {0} /\ RegionFootprint(r).row = w * b
  BY <1>1 DEF Measured
<1>3. PICK x \in 0 .. w - 1, i \in 0 .. b - 1 : k = x * b + i
  <2>1. k \in 0 .. w * b - 1
    BY <1>2
  <2>2. PICK x \in 0 .. w - 1, i \in 0 .. b - 1 : k = x * b + i /\ x = k \div b /\ i = k % b
    BY <1>2, <2>1, PlacesPart, Zenon
  <2> QED BY <2>2
<1>4. <<x, y, z, i>> \in BlockPlaces(r)
  BY <1>1, <1>3 DEF BlockPlaces
<1>5. PICK at \in BlockPlaces(r) : at = <<x, y, z, i>>
  BY <1>4
<1> QED BY <1>1, <1>3, <1>5 DEF ByteOf

-----------------------------------------------------------------------------
(* Staging                                                                    *)

(* Staging layouts that have room for their rows                              *)
Roomy(s) == s.row \in Nat \ {0} /\ s.rows \in Nat \ {0} /\ s.pitch \in Nat /\ s.row <= s.pitch

StagedBytes(s) == {l * s.pitch + j : l \in 0 .. s.rows - 1, j \in 0 .. s.row - 1}

(* A staging byte carries the host byte of the same line                      *)
LEMMA StagedRowsAre ==
  ASSUME NEW s, Roomy(s), NEW line \in 0 .. s.rows - 1, NEW k \in 0 .. s.row - 1
  PROVE  /\ line * s.pitch + k \in DOMAIN StagedRows(s)
         /\ StagedRows(s)[line * s.pitch + k] = line * s.row + k
<1>1. PICK p, n : p = s.pitch /\ n = s.row
  OBVIOUS
<1>2. p \in Nat /\ n \in Nat /\ k < p /\ k \in Nat /\ line \in Nat
  BY <1>1 DEF Roomy
<1>3. PICK i \in Nat : i = line * p + k
  BY <1>2, Products
<1>4. i \div p = line /\ i % p = k
  BY <1>2, <1>3, Remainder
<1>5. PICK S : S = StagedBytes(s)
  OBVIOUS
<1>6. i \in S
  BY <1>1, <1>3, <1>5 DEF StagedBytes
<1>7. StagedRows(s) = [q \in S |-> ((q \div p) * n) + (q % p)]
  BY <1>1, <1>5 DEF StagedRows, StagedBytes
<1>8. StagedRows(s)[i] = ((i \div p) * n) + (i % p)
  BY <1>6, <1>7
<1> QED BY <1>1, <1>3, <1>4, <1>6, <1>7, <1>8

(* The staging of a region has room for its rows                              *)
LEMMA StagingIsRoomy ==
  ASSUME NEW r, Measured(r)
  PROVE  /\ Roomy(Staging(r))
         /\ Staging(r).row = RegionFootprint(r).row /\ Staging(r).rows = High(r) * r.extent.depth
         /\ Staging(r).imageRows = High(r)
         /\ Staging(r).pitched = (High(r) > 1 \/ r.extent.depth > 1)
         /\ ~Staging(r).pitched => Staging(r).pitch = RegionFootprint(r).row
         /\ Staging(r).pitched => Staging(r).pitch % RowAlignment = 0
         /\ Staging(r).length = AlignUp(Staging(r).pitch * (Staging(r).rows - 1) + Staging(r).row, BufferAlignment)
<1>1. PICK f, d, s : f = RegionFootprint(r) /\ d = r.extent.depth /\ s = Staging(r)
  OBVIOUS
<1>2. f.row \in Nat \ {0} /\ f.rows = High(r) /\ f.rows * d \in Nat \ {0}
  BY <1>1 DEF Measured
<1>3. /\ s.row = f.row /\ s.rows = f.rows * d /\ s.imageRows = f.rows /\ s.pitched = (f.rows > 1 \/ d > 1)
      /\ s.pitch = IF s.pitched THEN AlignUp(f.row, RowAlignment) ELSE f.row
      /\ s.length = AlignUp(s.pitch * (s.rows - 1) + s.row, BufferAlignment)
  BY <1>1 DEF Staging, StagingOf
<1>4. /\ AlignUp(f.row, RowAlignment) \in Nat /\ AlignUp(f.row, RowAlignment) >= f.row
      /\ AlignUp(f.row, RowAlignment) % RowAlignment = 0
  BY <1>2, TransferConstants, AlignUpIs
<1> QED BY <1>1, <1>2, <1>3, <1>4 DEF Roomy

(* The byte a device puts a block byte at, under a staging layout             *)
LEMMA StagedPlaces ==
  ASSUME NEW r, Measured(r)
  PROVE  DevicePairs(r, StagingLayout(r, Staging(r))) =
           {<<Cell(r, at), LineOf(r, at) * Staging(r).pitch + ByteOf(r, at)>> : at \in BlockPlaces(r)}
<1>1. PICK s, l, w, h, b, row, image :
        /\ s = Staging(r) /\ l = StagingLayout(r, s) /\ w = Wide(r) /\ h = High(r) /\ b = BlockBytes(r)
        /\ row = (IF l.rowBytes = 0 THEN w * b ELSE l.rowBytes)
        /\ image = (IF l.imageRows = 0 THEN h ELSE l.imageRows)
  OBVIOUS
<1>2. /\ l.offset = 0 /\ l.rowBytes = (IF s.pitched THEN s.pitch ELSE 0)
      /\ l.imageRows = IF r.extent.depth > 1 THEN s.imageRows ELSE 0
  BY <1>1 DEF StagingLayout
<1>3. s.pitch \in Nat \ {0} /\ s.imageRows = h /\ h \in Nat \ {0} /\ (~s.pitched => s.pitch = w * b)
  BY <1>1, StagingIsRoomy DEF Roomy, Measured
<1>4. row = s.pitch /\ image = h
  BY <1>1, <1>2, <1>3
<1>5. DevicePairs(r, l) =
        {<<Cell(r, at), l.offset + (at[3] * image + at[2]) * row + at[1] * b + at[4]>> : at \in BlockPlaces(r)}
  BY <1>1 DEF DevicePairs
<1>6. ASSUME NEW at \in BlockPlaces(r)
      PROVE  l.offset + (at[3] * image + at[2]) * row + at[1] * b + at[4] = LineOf(r, at) * s.pitch + ByteOf(r, at)
  <2>1. PICK line, x, i : line = LineOf(r, at) /\ x = at[1] * b /\ i = at[4]
    OBVIOUS
  <2>2. line \in Nat /\ x \in Nat /\ i \in Nat /\ ByteOf(r, at) = x + i
    <3>1. at[1] \in Nat /\ at[4] \in Nat /\ b \in Nat /\ line \in Nat
      BY <1>1, <2>1, PlacesHaveLines DEF Measured
    <3> QED BY <1>1, <2>1, <3>1, Products DEF ByteOf
  <2>3. PICK n \in Nat : n = line * s.pitch
    BY <1>3, <2>2, Products
  <2>4. (at[3] * image + at[2]) * row = n
    BY <1>1, <1>4, <2>1, <2>3 DEF LineOf
  <2> QED BY <1>1, <1>2, <2>1, <2>2, <2>3, <2>4
<1> QED BY <1>1, <1>5, <1>6

(* joined with the host rows                                                  *)
LEMMA StagedMoves ==
  ASSUME NEW r, Measured(r)
  PROVE  StagedPairs(r, Staging(r)) =
           {<<Cell(r, at), <<"host", LineOf(r, at) * RegionFootprint(r).row + ByteOf(r, at)>>>> : at \in BlockPlaces(r)}
<1>1. PICK s, pairs, host : s = Staging(r) /\ pairs = DevicePairs(r, StagingLayout(r, s)) /\ host = StagedRows(s)
  OBVIOUS
<1>2. StagedPairs(r, s) = {<<p[1], IF p[2] \in DOMAIN host THEN <<"host", host[p[2]]>> ELSE <<"padding", p[2]>>>> : p \in pairs}
  BY <1>1 DEF StagedPairs
<1>3. pairs = {<<Cell(r, at), LineOf(r, at) * s.pitch + ByteOf(r, at)>> : at \in BlockPlaces(r)}
  BY <1>1, StagedPlaces
<1>4. ASSUME NEW at \in BlockPlaces(r)
      PROVE  /\ LineOf(r, at) * s.pitch + ByteOf(r, at) \in DOMAIN host
             /\ host[LineOf(r, at) * s.pitch + ByteOf(r, at)] = LineOf(r, at) * RegionFootprint(r).row + ByteOf(r, at)
  <2>1. LineOf(r, at) \in 0 .. s.rows - 1 /\ ByteOf(r, at) \in 0 .. s.row - 1 /\ Roomy(s) /\ s.row = RegionFootprint(r).row
    BY <1>1, PlacesHaveLines, StagingIsRoomy
  <2> QED BY <1>1, <2>1, StagedRowsAre
<1>5. ASSUME NEW at \in BlockPlaces(r), NEW p, p = <<Cell(r, at), LineOf(r, at) * s.pitch + ByteOf(r, at)>>
      PROVE  <<p[1], IF p[2] \in DOMAIN host THEN <<"host", host[p[2]]>> ELSE <<"padding", p[2]>>>>
               = <<Cell(r, at), <<"host", LineOf(r, at) * RegionFootprint(r).row + ByteOf(r, at)>>>>
  BY <1>4, <1>5, Zenon
<1>6. StagedPairs(r, s) = {<<Cell(r, at), <<"host", LineOf(r, at) * RegionFootprint(r).row + ByteOf(r, at)>>>> : at \in BlockPlaces(r)}
  <2>1. ASSUME NEW q, q \in StagedPairs(r, s)
        PROVE  \E at \in BlockPlaces(r) : q = <<Cell(r, at), <<"host", LineOf(r, at) * RegionFootprint(r).row + ByteOf(r, at)>>>>
    <3>1. PICK p \in pairs : q = <<p[1], IF p[2] \in DOMAIN host THEN <<"host", host[p[2]]>> ELSE <<"padding", p[2]>>>>
      BY <1>2, <2>1, Zenon
    <3>2. PICK at \in BlockPlaces(r) : p = <<Cell(r, at), LineOf(r, at) * s.pitch + ByteOf(r, at)>>
      BY <1>3, <3>1, Zenon
    <3> QED BY <1>5, <3>1, <3>2, Zenon
  <2>2. ASSUME NEW at \in BlockPlaces(r)
        PROVE  <<Cell(r, at), <<"host", LineOf(r, at) * RegionFootprint(r).row + ByteOf(r, at)>>>> \in StagedPairs(r, s)
    <3>1. PICK p : p = <<Cell(r, at), LineOf(r, at) * s.pitch + ByteOf(r, at)>>
      OBVIOUS
    <3>2. p \in pairs
      BY <1>3, <3>1, Zenon
    <3> QED BY <1>2, <1>5, <3>1, <3>2, Zenon
  <2> QED BY <2>1, <2>2, Zenon
<1> QED BY <1>1, <1>6
-----------------------------------------------------------------------------
(* Direct copies and prepared contents                                        *)

TypedPitch(l) == l.offset \in Nat /\ l.rowBytes \in Nat /\ l.imageRows \in Nat

(* A layout admitted for a region leaves room for its rows and images          *)
LayoutCovers(r, l) ==
  /\ l.rowBytes # 0 /\ RegionFootprint(r).row <= l.rowBytes
  /\ r.extent.depth > 1 \/ l.imageRows # 0 => High(r) <= l.imageRows

(* The byte a device puts a block byte at is the one the caller means          *)
LEMMA DirectMoves ==
  ASSUME NEW r, Measured(r), NEW l, TypedPitch(l), LayoutCovers(r, l)
  PROVE  DirectPairs(r, l) =
           {<<Cell(r, at), BufferByte(Meant(r, at, l.offset, l.rowBytes, l.rowBytes * l.imageRows))>> :
              at \in BlockPlaces(r)}
<1>1. PICK m, w, h, d, b, row, image, o, n, g :
        /\ m = DirectLayout(l, r) /\ w = Wide(r) /\ h = High(r) /\ d = r.extent.depth /\ b = BlockBytes(r)
        /\ row = (IF m.rowBytes = 0 THEN w * b ELSE m.rowBytes)
        /\ image = (IF m.imageRows = 0 THEN h ELSE m.imageRows)
        /\ o = l.offset /\ n = l.rowBytes /\ g = l.imageRows
  OBVIOUS
<1>2. /\ m.offset = o
      /\ m.rowBytes = (IF h > 1 \/ d > 1 THEN n ELSE 0)
      /\ m.imageRows = IF d > 1 THEN g ELSE 0
  BY <1>1 DEF DirectLayout, Measured
<1>3. h \in Nat \ {0} /\ d \in Nat \ {0} /\ o \in Nat /\ n \in Nat \ {0} /\ g \in Nat /\ (d > 1 => h <= g)
      /\ w * b \in Nat \ {0} /\ w * b <= n /\ b \in Nat /\ w * b = RegionFootprint(r).row
  BY <1>1 DEF Measured, TypedPitch, LayoutCovers
<1>4. /\ h > 1 \/ d > 1 => row = n
      /\ d > 1 => image = g
  BY <1>1, <1>2, <1>3
<1>5. row \in Nat /\ image \in Nat
  BY <1>1, <1>2, <1>3
<1>6. DevicePairs(r, m) =
        {<<Cell(r, at), o + (at[3] * image + at[2]) * row + at[1] * b + at[4]>> : at \in BlockPlaces(r)}
  BY <1>1, <1>2 DEF DevicePairs
<1>7. ASSUME NEW at \in BlockPlaces(r)
      PROVE  o + (at[3] * image + at[2]) * row + at[1] * b + at[4] = Meant(r, at, o, n, n * g)
  <2>1. PICK x, y, z, i : x = at[1] /\ y = at[2] /\ z = at[3] /\ i = at[4]
    OBVIOUS
  <2>2. x \in Nat /\ y \in 0 .. h - 1 /\ z \in 0 .. d - 1 /\ i \in Nat
    BY <1>1, <1>3, <2>1, PlacesHaveLines
  <2>3. (z * image + y) * row = z * (n * g) + y * n
    <3>1. CASE d > 1
      <4>1. row = n /\ image = g
        BY <1>4, <3>1
      <4>2. y \in Nat /\ z \in Nat
        BY <1>3, <2>2
      <4>3. (z * g + y) * n = z * (n * g) + y * n
        BY <1>3, <4>2, Regroup
      <4> QED BY <4>1, <4>3
    <3>2. CASE d = 1
      <4>1. z = 0
        BY <2>2, <3>2
      <4>2. z * image = 0 /\ z * (n * g) = 0
        BY <1>3, <1>5, <4>1, Products
      <4>3. CASE h > 1
        BY <1>3, <1>4, <2>2, <4>2, <4>3, Products
      <4>4. CASE h = 1
        <5>1. y = 0
          BY <2>2, <4>4
        <5> QED BY <1>3, <1>5, <4>2, <5>1
      <4> QED BY <1>3, <4>3, <4>4
    <3> QED BY <1>3, <3>1, <3>2
  <2>4. PICK p, q, k : p = z * (n * g) /\ q = y * n /\ k = x * b
    OBVIOUS
  <2>5. p \in Nat /\ q \in Nat /\ k \in Nat
    BY <1>3, <2>2, <2>4, Regroup, Products
  <2>6. Meant(r, at, o, n, n * g) = o + p + q + k + i
    BY <1>1, <2>1, <2>4, Zenon DEF Meant
  <2>7. o + (at[3] * image + at[2]) * row + at[1] * b + at[4] = o + (p + q) + k + i
    BY <2>1, <2>3, <2>4, Zenon
  <2> QED BY <1>3, <2>2, <2>5, <2>6, <2>7
<1>8. DirectPairs(r, l) = {<<p[1], BufferByte(p[2])>> : p \in DevicePairs(r, m)}
  BY <1>1 DEF DirectPairs
<1>9. DevicePairs(r, m) = {<<Cell(r, at), Meant(r, at, o, n, n * g)>> : at \in BlockPlaces(r)}
  BY <1>6, <1>7
<1>10. DirectPairs(r, l) = {<<Cell(r, at), BufferByte(Meant(r, at, o, n, n * g))>> : at \in BlockPlaces(r)}
  <2>1. ASSUME NEW q, q \in DirectPairs(r, l)
        PROVE  \E at \in BlockPlaces(r) : q = <<Cell(r, at), BufferByte(Meant(r, at, o, n, n * g))>>
    BY <1>8, <1>9, <2>1
  <2>2. ASSUME NEW at \in BlockPlaces(r)
        PROVE  <<Cell(r, at), BufferByte(Meant(r, at, o, n, n * g))>> \in DirectPairs(r, l)
    <3>1. PICK p : p = <<Cell(r, at), Meant(r, at, o, n, n * g)>>
      OBVIOUS
    <3> QED BY <1>8, <1>9, <3>1
  <2> QED BY <2>1, <2>2, Zenon
<1> QED BY <1>1, <1>10, Zenon

(* A byte of a tight layout                                                   *)
LEMMA TightPlaces ==
  ASSUME NEW r, Measured(r), NEW at \in BlockPlaces(r)
  PROVE  LET row == Wide(r) * BlockBytes(r)
         IN  Meant(r, at, 0, row, row * High(r)) = LineOf(r, at) * row + ByteOf(r, at)
<1>1. PICK h, b, n : h = High(r) /\ b = BlockBytes(r) /\ n = Wide(r) * BlockBytes(r)
  OBVIOUS
<1>2. h \in Nat /\ b \in Nat /\ n \in Nat
  BY <1>1 DEF Measured
<1>3. PICK x, y, z, i : x = at[1] /\ y = at[2] /\ z = at[3] /\ i = at[4]
  OBVIOUS
<1>4. x \in Nat /\ y \in Nat /\ z \in Nat /\ i \in Nat
  BY <1>1, <1>2, <1>3, PlacesHaveLines
<1>5. (z * h + y) * n = z * (n * h) + y * n
  BY <1>2, <1>4, Regroup
<1>6. PICK p, q, k : p = z * (n * h) /\ q = y * n /\ k = x * b
  OBVIOUS
<1>7. p \in Nat /\ q \in Nat /\ k \in Nat
  BY <1>2, <1>4, <1>6, Regroup, Products
<1>8. Meant(r, at, 0, n, n * h) = 0 + p + q + k + i
  BY <1>1, <1>3, <1>6, Zenon DEF Meant
<1>9. LineOf(r, at) * n + ByteOf(r, at) = (p + q) + (k + i)
  BY <1>1, <1>3, <1>5, <1>6, Zenon DEF LineOf, ByteOf
<1> QED BY <1>1, <1>4, <1>7, <1>8, <1>9

(* Prepared contents and the region they fill                                 *)
PreparedFor(p, r) ==
  /\ Footprint(p.format, "All", p.extent.width, p.extent.height) = RegionFootprint(r)
  /\ p.extent.depth = r.extent.depth
  /\ p.rowBytes \in Nat /\ p.imageRows \in Nat

(* The prepared byte that becomes a block byte is the one the caller means     *)
LEMMA PreparedPlaces ==
  ASSUME NEW r, Measured(r), NEW p, PreparedFor(p, r), NEW at \in BlockPlaces(r)
  PROVE  LET i == LineOf(r, at) * RegionFootprint(r).row + ByteOf(r, at)
         IN  /\ i \in DOMAIN PreparedRows(p)
             /\ PreparedRows(p)[i] = Meant(r, at, 0, p.rowBytes, p.rowBytes * p.imageRows)
<1>1. PICK n, h, d, b, f, line, k, i, image, m, g :
        /\ n = RegionFootprint(r).row /\ h = High(r) /\ d = r.extent.depth /\ b = BlockBytes(r)
        /\ f = RegionFootprint(r) /\ line = LineOf(r, at) /\ k = ByteOf(r, at)
        /\ m = p.rowBytes /\ g = p.imageRows
        /\ i = line * n + k
        /\ image = IF p.extent.depth > 1 THEN m * g ELSE 0
  OBVIOUS
<1>2. /\ n \in Nat \ {0} /\ h \in Nat \ {0} /\ d \in Nat \ {0} /\ b \in Nat /\ h * d \in Nat
      /\ f.row = n /\ f.rows = h /\ m \in Nat /\ g \in Nat
      /\ line \in 0 .. h * d - 1 /\ k \in 0 .. n - 1
  BY <1>1, PlacesHaveLines DEF Measured, PreparedFor
<1>3. PICK x, y, z, j : x = at[1] /\ y = at[2] /\ z = at[3] /\ j = at[4]
  OBVIOUS
<1>4. x \in Nat /\ y \in 0 .. h - 1 /\ z \in 0 .. d - 1 /\ j \in Nat
  BY <1>1, <1>2, <1>3, PlacesHaveLines
<1>5. line = z * h + y /\ k = x * b + j
  BY <1>1, <1>3 DEF LineOf, ByteOf
<1>6. PreparedRows(p) = [q \in 0 .. f.row * f.rows * d - 1 |->
         (((q \div n) \div h) * image) + (((q \div n) % h) * m) + (q % n)]
  BY <1>1, <1>2 DEF PreparedRows, TightLength, PreparedFor
<1>7. i \in 0 .. f.row * f.rows * d - 1
  <2>1. i \in 0 .. (h * d) * n - 1
    BY <1>1, <1>2, PlacesNest
  <2>2. (h * d) * n = n * h * d
    <3>1. h \in Nat /\ d \in Nat /\ n \in Nat
      BY <1>2
    <3> QED BY <3>1
  <2> QED BY <1>2, <2>1, <2>2
<1>8. i \div n = line /\ i % n = k
  <2>1. line \in Nat /\ k \in Nat /\ n \in Nat /\ k < n
    BY <1>2
  <2>2. (line * n + k) % n = k /\ (line * n + k) \div n = line
    BY <2>1, Remainder
  <2> QED BY <1>1, <2>2, Zenon
<1>9. line \div h = z /\ line % h = y
  BY <1>2, <1>4, <1>5, Remainder
<1>10. PreparedRows(p)[i] = (z * image) + (y * m) + k
  BY <1>6, <1>7, <1>8, <1>9, Zenon
<1>11. z * image = z * (m * g)
  <2>1. CASE d > 1
    BY <1>1, <2>1 DEF PreparedFor
  <2>2. CASE d = 1
    <3>1. z = 0 /\ image = 0
      BY <1>1, <1>4, <2>2 DEF PreparedFor
    <3>2. 0 * (m * g) = 0
      BY <1>2, Products
    <3> QED BY <3>1, <3>2
  <2> QED BY <1>2, <2>1, <2>2
<1>12. PICK u, v, t : u = z * (m * g) /\ v = y * m /\ t = x * b
  OBVIOUS
<1>13. u \in Nat /\ v \in Nat /\ t \in Nat
  BY <1>2, <1>4, <1>12, Regroup, Products
<1>14. Meant(r, at, 0, m, m * g) = 0 + u + v + t + j
  BY <1>1, <1>3, <1>12, Zenon DEF Meant
<1>15. PreparedRows(p)[i] = Meant(r, at, 0, m, m * g)
  BY <1>4, <1>5, <1>10, <1>11, <1>12, <1>13, <1>14
<1> QED BY <1>1, <1>6, <1>7, <1>15
-----------------------------------------------------------------------------
(* Work on resources at hand                                                  *)

WorkKinds == {"Initial", "Upload", "Readback", "Zero", "BufferToBuffer", "BufferToTexture", "TextureToBuffer",
              "TextureToTexture", "Resolve"}

(* Work names the resources at hand, in numbers                               *)
TypedWork(w, ts, b) ==
  /\ w.kind \in WorkKinds
  /\ w.kind \in {"Initial", "Upload", "Readback"} => w.target \in {"texture", "buffer"}
  /\ \A r \in WorkRegions(w) : TypedRegion(r) /\ r.texture \in 1 .. 2 /\ r.of = ts[r.texture]
  /\ UsesBuffer(w) => w.buffer = b
  /\ w.kind \in {"BufferToTexture", "TextureToBuffer"} => TypedPitch(w.layout)
  /\ \A range \in CopiedRanges(w) : range.offset \in Nat /\ range.size \in Nat
  /\ w.kind = "Initial" /\ w.target = "texture" => ValidTexture(w.of)
  /\ w.kind = "Initial" /\ w.target = "buffer" => ValidBuffer(b)
  /\ w.kind = "Upload" /\ w.target = "buffer" => w.payload \in Nat
  /\ w.kind = "Resolve" => w.first \in Nat /\ w.count \in Nat /\ w.offset \in Nat

(* A first level holds the whole of a texture                                 *)
LEMMA InitialIsValid ==
  ASSUME NEW w, TypedTexture(w.of), ValidTexture(w.of), w.of.initial = "prepared"
  PROVE  /\ TypedRegion(InitialRegion(w)) /\ ValidRegion(InitialRegion(w)) /\ RegionFootprint(InitialRegion(w)).known
         /\ PreparedFor(w.of.prepared, InitialRegion(w)) /\ ValidPrepared(w.of.prepared)
<1>1. PICK d, p, r, row, e : d = w.of /\ p = d.prepared /\ r = InitialRegion(w) /\ row = Semantics[d.format] /\ e = d.extent
  OBVIOUS
<1>2. /\ r.texture = w.texture /\ r.of = d /\ r.mip = 0 /\ r.aspect = "All"
      /\ r.origin.x = 0 /\ r.origin.y = 0 /\ r.origin.z = 0 /\ r.extent = e
  BY <1>1 DEF InitialRegion
<1>3. /\ e.width \in Nat \ {0} /\ e.height \in Nat \ {0} /\ e.depth \in Nat \ {0}
      /\ d.dimension = "D1" => e.height = 1 /\ e.depth = 1
  BY <1>1 DEF ValidTexture, ValidExtent, TypedTexture, TypedExtent
<1>4. d.samples = 1 /\ ValidPrepared(p) /\ p.format = d.format /\ p.extent = d.extent /\ 0 < d.mips
  <2>1. 0 < d.mips
    BY <1>1, MipsAreFew
  <2> QED BY <1>1, <2>1 DEF ValidTexture
<1>5. RegionFootprint(r) = Footprint(p.format, "All", p.extent.width, p.extent.height) /\ RegionFootprint(r).known
  <2>1. RegionFootprint(r) = Footprint(p.format, "All", p.extent.width, p.extent.height)
    BY <1>1, <1>2, <1>4 DEF RegionFootprint, Texture
  <2>2. Footprint(p.format, "All", p.extent.width, p.extent.height).known
    BY <1>4 DEF ValidPrepared
  <2> QED BY <2>1, <2>2
<1>6. PreparedFor(p, r)
  BY <1>1, <1>2, <1>4, <1>5 DEF PreparedFor, TypedTexture
<1>7. TypedRegion(r)
  <2>1. TypedTexture(r.of) /\ ValidTexture(r.of)
    BY <1>1, <1>2
  <2>2. TypedExtent(r.extent)
    BY <1>1, <1>2 DEF TypedTexture
  <2>3. {r.mip, r.origin.x, r.origin.y, r.origin.z} \subseteq Nat
    BY <1>2
  <2> QED BY <2>1, <2>2, <2>3 DEF TypedRegion, TypedProbe
<1>8. /\ row.width \in Nat \ {0} /\ row.height \in Nat \ {0}
      /\ e.width % row.width = 0 /\ e.height % row.height = 0
  <2>1. {row.width, row.height} \subseteq {1, 4, 5, 6, 8, 10, 12}
    BY <1>1, FormatRows DEF TypedTexture
  <2>2. CASE row.width # 1 \/ row.height # 1
    <3>1. IsCompressed(d.format)
      BY <1>1, <2>2 DEF IsCompressed
    <3> QED BY <1>1, <2>1, <3>1 DEF ValidTexture
  <2>3. CASE row.width = 1 /\ row.height = 1
    BY <1>3, <2>3
  <2> QED BY <2>1, <2>2, <2>3
<1>9. PICK m : m = MipExtent(d, 0)
  OBVIOUS
<1>10. m.width = e.width /\ m.height = e.height /\ m.depth = e.depth
  <2>1. /\ m.width  = IF e.width \div 2^0 = 0 THEN 1 ELSE e.width \div 2^0
        /\ m.height = IF e.height \div 2^0 = 0 THEN 1 ELSE e.height \div 2^0
        /\ m.depth  = IF d.dimension = "D3" THEN IF e.depth \div 2^0 = 0 THEN 1 ELSE e.depth \div 2^0
                       ELSE IF d.dimension = "D2" THEN e.depth ELSE 1
    BY <1>1, <1>9 DEF MipExtent, ArrayLayers
  <2>2. 2^0 = 1
    OBVIOUS
  <2>3. e.width \div 1 = e.width /\ e.height \div 1 = e.height /\ e.depth \div 1 = e.depth
    BY <1>3
  <2>4. d.dimension \in {"D1", "D2", "D3"}
    BY <1>1 DEF TypedTexture
  <2> QED BY <1>3, <2>1, <2>2, <2>3, <2>4
<1>11. PICK h : h = PhysicalExtent(d, 0)
  OBVIOUS
<1>12. h.width = BlockCount(e.width, row.width) * row.width /\ h.height = BlockCount(e.height, row.height) * row.height
  <2>1. /\ "width" \in DOMAIN m /\ "height" \in DOMAIN m
    BY <1>9 DEF MipExtent
  <2> QED BY <1>1, <1>9, <1>10, <1>11, <2>1 DEF PhysicalExtent, Width, Height
<1>13. h.width = e.width /\ h.height = e.height
  BY <1>3, <1>8, <1>12, BlocksCover
<1>14. FormatAspect(d.format, "All") # "None"
  <2>1. BytesOf(row, "All") > 0
    BY <1>1, <1>2, <1>5 DEF RegionFootprint, Footprint, Texture
  <2>2. AspectOf(row.class, "All") # "None"
    BY <2>1 DEF BytesOf
  <2> QED BY <1>1, <2>2 DEF FormatAspect
<1>15. 0 % row.width = 0 /\ 0 % row.height = 0
  BY <1>8
<1>16. ValidRegion(r)
  BY <1>1, <1>2, <1>3, <1>4, <1>8, <1>9, <1>10, <1>11, <1>13, <1>14, <1>15 DEF ValidRegion, Texture, Width, Height
<1> QED BY <1>1, <1>4, <1>5, <1>6, <1>7, <1>16

(* Regions that admitted work stages or copies                                *)
LEMMA WorkIsMeasured ==
  ASSUME NEW w, NEW ts, NEW b, TypedWork(w, ts, b), ValidWork(w), w.kind # "TextureToTexture", NEW r \in WorkRegions(w)
  PROVE  /\ Measured(r) /\ ValidRegion(r) /\ TypedRegion(r)
         /\ w.kind = "Initial" => r = InitialRegion(w) /\ PreparedFor(w.of.prepared, r) /\ ValidPrepared(w.of.prepared)
                                  /\ w.target = "texture"
         /\ w.kind # "Initial" => r = w.region
         /\ w.kind \in {"Upload", "Readback"} => w.target = "texture"
         /\ w.kind \in {"BufferToTexture", "TextureToBuffer"} =>
               TypedPitch(w.layout) /\ LayoutCovers(w.region, w.layout)
         /\ w.kind \in {"Initial", "Upload", "Readback", "BufferToTexture", "TextureToBuffer"}
<1>1. w.kind \in WorkKinds
  BY DEF TypedWork
<1>2. CASE w.kind = "Initial"
  <2>1. w.target = "texture" /\ r = InitialRegion(w)
    BY <1>2 DEF WorkRegions, TypedWork
  <2>2. w.of.initial = "prepared" /\ ValidTexture(w.of)
    BY <1>2, <2>1 DEF ValidWork, TypedWork
  <2>3. TypedTexture(w.of)
    <3>1. TypedRegion(r) /\ r.of = w.of
      BY <2>1 DEF TypedWork, InitialRegion
    <3> QED BY <3>1 DEF TypedRegion
  <2> QED BY <1>2, <2>1, <2>2, <2>3, InitialIsValid, RegionsMeasured
<1>3. CASE w.kind \in {"Upload", "Readback"}
  <2>1. w.target = "texture" /\ r = w.region
    BY <1>3 DEF WorkRegions, TypedWork
  <2>2. ValidRegion(r) /\ RegionFootprint(r).known
    BY <1>3, <2>1 DEF ValidWork
  <2>3. TypedRegion(r)
    BY DEF TypedWork
  <2> QED BY <1>3, <2>1, <2>2, <2>3, RegionsMeasured
<1>4. CASE w.kind \in {"BufferToTexture", "TextureToBuffer"}
  <2>1. r = w.region /\ TypedPitch(w.layout)
    BY <1>4 DEF WorkRegions, TypedWork
  <2>2. ValidRegion(r) /\ \E usage : ValidLayout(w.buffer, w.layout, r, usage)
    BY <1>4, <2>1 DEF ValidWork
  <2>3. TypedRegion(r)
    BY DEF TypedWork
  <2>4. /\ RegionFootprint(r).known /\ w.layout.rowBytes > 0
        /\ ValidRows(RegionFootprint(r), r.extent.depth, w.layout.rowBytes, w.layout.imageRows)
    BY <2>2 DEF ValidLayout
  <2>5. Measured(r)
    BY <2>2, <2>3, <2>4, RegionsMeasured
  <2>6. LayoutCovers(r, w.layout)
    BY <2>1, <2>4, <2>5 DEF LayoutCovers, ValidRows, Measured, TypedPitch
  <2> QED BY <1>4, <2>1, <2>2, <2>3, <2>5, <2>6
<1>5. CASE w.kind \in {"Zero", "BufferToBuffer", "Resolve"}
  <2>1. WorkRegions(w) = {}
    BY <1>5 DEF WorkRegions
  <2> QED BY <2>1
<1> QED BY <1>1, <1>2, <1>3, <1>4, <1>5 DEF WorkKinds
PairsOf(B, f, g) == {<<f[at], g[at]>> : at \in B}

(* Pairs turned around                                                        *)
LEMMA PairsTurn ==
  ASSUME NEW B, NEW f, NEW g
  PROVE  Reversed(PairsOf(B, f, g)) = PairsOf(B, g, f)
<1>1. PICK S : S = PairsOf(B, f, g)
  OBVIOUS
<1>2. ASSUME NEW q, q \in {<<p[2], p[1]>> : p \in S}
      PROVE  q \in {<<g[at], f[at]>> : at \in B}
  <2>1. PICK p \in S : q = <<p[2], p[1]>>
    BY <1>2
  <2>2. PICK at \in B : p = <<f[at], g[at]>>
    BY <1>1 DEF PairsOf
  <2> QED BY <2>1, <2>2
<1>3. ASSUME NEW at \in B PROVE <<g[at], f[at]>> \in {<<p[2], p[1]>> : p \in S}
  <2>1. PICK p \in S : p = <<f[at], g[at]>>
    BY <1>1 DEF PairsOf
  <2> QED BY <2>1
<1> QED BY <1>1, <1>2, <1>3 DEF Reversed, PairsOf

(* The bytes moved are the bytes meant                                        *)
LEMMA MovesAsPromised ==
  ASSUME NEW w, NEW ts, NEW b, TypedWork(w, ts, b), ValidWork(w), w.kind # "TextureToTexture", WorkRegions(w) # {}
  PROVE  MovedBy(w) = Promised(w)
<1>1. PICK r \in WorkRegions(w) : TRUE
  OBVIOUS
<1>2. /\ Measured(r)
      /\ w.kind = "Initial" => r = InitialRegion(w) /\ PreparedFor(w.of.prepared, r) /\ w.target = "texture"
      /\ w.kind # "Initial" => r = w.region
      /\ w.kind \in {"Upload", "Readback"} => w.target = "texture"
      /\ w.kind \in {"BufferToTexture", "TextureToBuffer"} =>
            TypedPitch(w.layout) /\ LayoutCovers(w.region, w.layout)
      /\ w.kind \in {"Initial", "Upload", "Readback", "BufferToTexture", "TextureToBuffer"}
  BY WorkIsMeasured
<1>3. PICK n, B : n = Wide(r) * BlockBytes(r) /\ B = BlockPlaces(r)
  OBVIOUS
<1>4. RegionFootprint(r).row = n
  BY <1>2, <1>3 DEF Measured
<1>5. StagedPairs(r, Staging(r)) = {<<Cell(r, at), <<"host", Meant(r, at, 0, n, n * High(r))>>>> : at \in B}
  <2>1. \A at \in B : LineOf(r, at) * RegionFootprint(r).row + ByteOf(r, at) = Meant(r, at, 0, n, n * High(r))
    BY <1>2, <1>3, <1>4, TightPlaces
  <2> QED BY <1>2, <1>3, <2>1, StagedMoves
<1>6. CASE w.kind = "Upload"
  <2>1. MovedBy(w) = Reversed(StagedPairs(r, Staging(r)))
    BY <1>2, <1>6 DEF MovedBy
  <2>2. Promised(w) = {<<<<"host", Meant(r, at, 0, n, n * High(r))>>, Cell(r, at)>> : at \in B}
    BY <1>2, <1>3, <1>6 DEF Promised
  <2>3. PICK f, g : f = [at \in B |-> Cell(r, at)] /\ g = [at \in B |-> <<"host", Meant(r, at, 0, n, n * High(r))>>]
    OBVIOUS
  <2>4. StagedPairs(r, Staging(r)) = PairsOf(B, f, g) /\ Promised(w) = PairsOf(B, g, f)
    BY <1>5, <2>2, <2>3 DEF PairsOf
  <2> QED BY <2>1, <2>4, PairsTurn
<1>7. CASE w.kind = "Readback"
  <2>1. MovedBy(w) = StagedPairs(r, Staging(r))
    BY <1>2, <1>7 DEF MovedBy
  <2>2. Promised(w) = {<<Cell(r, at), <<"host", Meant(r, at, 0, n, n * High(r))>>>> : at \in B}
    BY <1>2, <1>3, <1>7 DEF Promised
  <2> QED BY <1>5, <2>1, <2>2
<1>8. CASE w.kind \in {"BufferToTexture", "TextureToBuffer"}
  <2>1. PICK l : l = w.layout
    OBVIOUS
  <2>2. DirectPairs(r, l) = {<<Cell(r, at), BufferByte(Meant(r, at, l.offset, l.rowBytes, l.rowBytes * l.imageRows))>> : at \in B}
    <3>1. TypedPitch(l) /\ LayoutCovers(r, l)
      BY <1>2, <1>8, <2>1
    <3> QED BY <1>2, <1>3, <3>1, DirectMoves
  <2>3. CASE w.kind = "TextureToBuffer"
    <3>1. MovedBy(w) = DirectPairs(r, l)
      BY <1>2, <2>1, <2>3 DEF MovedBy
    <3>2. Promised(w) = {<<Cell(r, at), BufferByte(Meant(r, at, l.offset, l.rowBytes, l.rowBytes * l.imageRows))>> : at \in B}
      BY <1>2, <1>3, <2>1, <2>3 DEF Promised
    <3> QED BY <2>2, <3>1, <3>2
  <2>4. CASE w.kind = "BufferToTexture"
    <3>1. MovedBy(w) = Reversed(DirectPairs(r, l))
      BY <1>2, <2>1, <2>4 DEF MovedBy
    <3>2. Promised(w) = {<<BufferByte(Meant(r, at, l.offset, l.rowBytes, l.rowBytes * l.imageRows)), Cell(r, at)>> : at \in B}
      BY <1>2, <1>3, <2>1, <2>4 DEF Promised
    <3>3. PICK f, g : /\ f = [at \in B |-> Cell(r, at)]
                      /\ g = [at \in B |-> BufferByte(Meant(r, at, l.offset, l.rowBytes, l.rowBytes * l.imageRows))]
      OBVIOUS
    <3>4. DirectPairs(r, l) = PairsOf(B, f, g) /\ Promised(w) = PairsOf(B, g, f)
      BY <2>2, <3>2, <3>3 DEF PairsOf
    <3> QED BY <3>1, <3>4, PairsTurn
  <2> QED BY <1>8, <2>3, <2>4
<1>9. CASE w.kind = "Initial"
  <2>1. PICK p, rows, S : p = w.of.prepared /\ rows = PreparedRows(p) /\ S = StagedPairs(r, Staging(r))
    OBVIOUS
  <2>2. MovedBy(w) = {<<IF q[2][1] = "host" THEN <<"host", rows[q[2][2]]>> ELSE q[2], q[1]>> : q \in S}
    BY <1>2, <1>9, <2>1 DEF MovedBy
  <2>3. Promised(w) = {<<<<"host", Meant(r, at, 0, p.rowBytes, p.rowBytes * p.imageRows)>>, Cell(r, at)>> : at \in B}
    BY <1>2, <1>3, <1>9, <2>1 DEF Promised
  <2>4. PICK I : I = [at \in B |-> LineOf(r, at) * RegionFootprint(r).row + ByteOf(r, at)]
    OBVIOUS
  <2>5. S = {<<Cell(r, at), <<"host", I[at]>>>> : at \in B}
    BY <1>2, <1>3, <2>1, <2>4, StagedMoves
  <2>6. \A at \in B : rows[I[at]] = Meant(r, at, 0, p.rowBytes, p.rowBytes * p.imageRows)
    BY <1>2, <1>3, <1>9, <2>1, <2>4, PreparedPlaces
  <2>7. ASSUME NEW at \in B, NEW q, q = <<Cell(r, at), <<"host", I[at]>>>>
        PROVE  <<IF q[2][1] = "host" THEN <<"host", rows[q[2][2]]>> ELSE q[2], q[1]>>
                 = <<<<"host", Meant(r, at, 0, p.rowBytes, p.rowBytes * p.imageRows)>>, Cell(r, at)>>
    BY <2>6, <2>7
  <2>8. ASSUME NEW t, t \in MovedBy(w) PROVE t \in Promised(w)
    <3>1. PICK q \in S : t = <<IF q[2][1] = "host" THEN <<"host", rows[q[2][2]]>> ELSE q[2], q[1]>>
      BY <2>2, <2>8, Zenon
    <3>2. PICK at \in B : q = <<Cell(r, at), <<"host", I[at]>>>>
      BY <2>5, <3>1, Zenon
    <3> QED BY <2>3, <2>7, <3>1, <3>2, Zenon
  <2>9. ASSUME NEW t, t \in Promised(w) PROVE t \in MovedBy(w)
    <3>1. PICK at \in B : t = <<<<"host", Meant(r, at, 0, p.rowBytes, p.rowBytes * p.imageRows)>>, Cell(r, at)>>
      BY <2>3, <2>9, Zenon
    <3>2. PICK q \in S : q = <<Cell(r, at), <<"host", I[at]>>>>
      BY <2>5
    <3> QED BY <2>2, <2>7, <3>1, <3>2, Zenon
  <2> QED BY <2>8, <2>9, Zenon
<1> QED BY <1>2, <1>6, <1>7, <1>8, <1>9

-----------------------------------------------------------------------------
(* Nothing taken for granted fails                                            *)

(* The prepared bytes lie in the prepared content                             *)
LEMMA PreparedStaysInside ==
  ASSUME NEW r, Measured(r), NEW p, PreparedFor(p, r), ValidPrepared(p), p.length \in Nat, NEW i \in DOMAIN PreparedRows(p)
  PROVE  PreparedRows(p)[i] < p.length
<1>1. PICK n, h, d, f, image, m, g :
        /\ n = RegionFootprint(r).row /\ h = High(r) /\ d = r.extent.depth
        /\ f = RegionFootprint(r) /\ m = p.rowBytes /\ g = p.imageRows
        /\ image = IF p.extent.depth > 1 THEN m * g ELSE 0
  OBVIOUS
<1>2. /\ n \in Nat \ {0} /\ h \in Nat \ {0} /\ d \in Nat \ {0} /\ h * d \in Nat
      /\ f.row = n /\ f.rows = h /\ m \in Nat /\ g \in Nat /\ p.extent.depth = d
  BY <1>1 DEF Measured, PreparedFor
<1>3. PreparedRows(p) = [q \in 0 .. n * h * d - 1 |->
         (((q \div n) \div h) * image) + (((q \div n) % h) * m) + (q % n)]
  BY <1>1, <1>2 DEF PreparedRows, TightLength, PreparedFor
<1>4. PICK c \in Nat : c = h * d
  BY <1>2
<1>5. i \in 0 .. c * n - 1
  <2>1. n * h * d = (h * d) * n
    <3>1. h \in Nat /\ d \in Nat /\ n \in Nat
      BY <1>2
    <3> QED BY <3>1
  <2> QED BY <1>3, <1>4, <2>1
<1>6. PICK line \in 0 .. c - 1, k \in 0 .. n - 1 : i = line * n + k /\ line = i \div n /\ k = i % n
  <2>1. c \in Nat /\ n \in Nat \ {0}
    BY <1>2, <1>4
  <2> QED BY <1>5, <2>1, PlacesPart, Zenon
<1>7. line \in 0 .. d * h - 1
  <2>1. h * d = d * h
    BY <1>2, Regroup
  <2> QED BY <1>4, <2>1
<1>8. PICK z \in 0 .. d - 1, y \in 0 .. h - 1 : line = z * h + y /\ z = line \div h /\ y = line % h
  <2>1. d \in Nat /\ h \in Nat \ {0}
    BY <1>2
  <2> QED BY <1>7, <2>1, PlacesPart, Zenon
<1>9. PreparedRows(p)[i] = (z * image) + (y * m) + k
  BY <1>3, <1>6, <1>8
<1>10. (d - 1) * m * g + (h - 1) * m + n <= p.length
  BY <1>1, <1>2 DEF ValidPrepared, LayoutSpan, PreparedFor
<1>11. z * image <= (d - 1) * m * g /\ z * image \in Nat /\ (d - 1) * m * g \in Nat
  <2>1. PICK a \in Nat : a = d - 1
    BY <1>2
  <2>2. a * m * g = a * (m * g) /\ a * (m * g) \in Nat /\ z \in Nat /\ z <= a
    BY <1>2, <2>1, Regroup
  <2>3. PICK e \in Nat : e = m * g
    BY <1>2, Products
  <2>4. CASE d > 1
    <3>1. image = e
      BY <1>1, <1>2, <2>3, <2>4
    <3>2. z * e \in Nat /\ z * e <= a * e
      BY <2>1, <2>2, <2>3, Products
    <3> QED BY <2>1, <2>2, <2>3, <3>1, <3>2
  <2>5. CASE d = 1
    <3>1. image = 0 /\ z = 0
      BY <1>1, <1>2, <2>5
    <3>2. z * image = 0
      BY <3>1
    <3> QED BY <2>1, <2>2, <3>2
  <2> QED BY <1>2, <2>4, <2>5
<1>12. y * m <= (h - 1) * m /\ y * m \in Nat /\ (h - 1) * m \in Nat
  <2>1. PICK a \in Nat : a = h - 1
    BY <1>2
  <2>2. y \in Nat /\ y <= a
    BY <2>1
  <2> QED BY <1>2, <2>1, <2>2, Products
<1>13. PICK s, t, u, v : s = z * image /\ t = y * m /\ u = (d - 1) * m * g /\ v = (h - 1) * m
  OBVIOUS
<1>14. PreparedRows(p)[i] = s + t + k /\ u + v + n <= p.length /\ s <= u /\ t <= v /\ k < n
       /\ {s, t, u, v, k} \subseteq Nat
  BY <1>2, <1>9, <1>10, <1>11, <1>12, <1>13
<1> QED BY <1>2, <1>14
(* As many numbers come before a number                                       *)
LEMMA FirstNumbers ==
  ASSUME NEW n \in Nat
  PROVE  IsFiniteSet(0 .. n - 1) /\ Cardinality(0 .. n - 1) = n
BY FS_Interval

(* A staging buffer carries as many host bytes as its rows have               *)
LEMMA StagedRowsCount ==
  ASSUME NEW s, Roomy(s), NEW n \in Nat, n = s.rows * s.row
  PROVE  Cardinality(DOMAIN StagedRows(s)) = n
<1>1. PICK p, w, h, S : p = s.pitch /\ w = s.row /\ h = s.rows /\ S = StagedBytes(s)
  OBVIOUS
<1>2. p \in Nat /\ w \in Nat \ {0} /\ h \in Nat /\ w <= p /\ n = h * w
  BY <1>1 DEF Roomy
<1>3. DOMAIN StagedRows(s) = S
  BY <1>1 DEF StagedRows, StagedBytes
<1>4. PICK F : F = [i \in 0 .. n - 1 |-> (i \div w) * p + (i % w)]
  OBVIOUS
<1>5. ASSUME NEW i \in 0 .. n - 1
      PROVE  \E l \in 0 .. h - 1, k \in 0 .. w - 1 : i = l * w + k /\ F[i] = l * p + k
  <2>1. i \in 0 .. h * w - 1 /\ h \in Nat /\ w \in Nat \ {0}
    BY <1>2
  <2>2. PICK l \in 0 .. h - 1, k \in 0 .. w - 1 : i = l * w + k /\ l = i \div w /\ k = i % w
    BY <2>1, PlacesPart, Zenon
  <2> QED BY <1>4, <2>2
<1>6. ASSUME NEW l \in 0 .. h - 1, NEW k \in 0 .. w - 1
      PROVE  /\ (l * p + k) \div p = l /\ (l * p + k) % p = k
             /\ l * w + k \in 0 .. n - 1 /\ F[l * w + k] = l * p + k
  <2>1. l \in Nat /\ k \in Nat /\ k < w /\ k < p /\ h \in Nat /\ w \in Nat
    BY <1>2
  <2>2. (l * p + k) \div p = l /\ (l * p + k) % p = k /\ (l * w + k) \div w = l /\ (l * w + k) % w = k
    BY <1>2, <2>1, Remainder
  <2>3. l * w + k \in 0 .. n - 1
    BY <1>2, <2>1, PlacesNest
  <2> QED BY <1>4, <2>2, <2>3, Zenon
<1>7. \A l \in 0 .. h - 1, k \in 0 .. w - 1 : l * p + k \in S
  BY <1>1 DEF StagedBytes
<1>8. F \in [0 .. n - 1 -> S]
  <2>1. \A i \in 0 .. n - 1 : F[i] \in S
    BY <1>5, <1>7
  <2> QED BY <1>4, <2>1
<1>9. F \in Injection(0 .. n - 1, S)
  <2>1. ASSUME NEW i \in 0 .. n - 1, NEW j \in 0 .. n - 1, F[i] = F[j] PROVE i = j
    <3>1. PICK l \in 0 .. h - 1, k \in 0 .. w - 1 : i = l * w + k /\ F[i] = l * p + k
      BY <1>5
    <3>2. PICK u \in 0 .. h - 1, v \in 0 .. w - 1 : j = u * w + v /\ F[j] = u * p + v
      BY <1>5
    <3>3. l * p + k = u * p + v
      BY <2>1, <3>1, <3>2
    <3>4. (l * p + k) \div p = l /\ (l * p + k) % p = k /\ (u * p + v) \div p = u /\ (u * p + v) % p = v
      BY <1>6
    <3>5. l = u /\ k = v
      BY <3>3, <3>4, Zenon
    <3> QED BY <3>1, <3>2, <3>5, Zenon
  <2> QED BY <1>8, <2>1 DEF Injection, IsInjective
<1>10. F \in Surjection(0 .. n - 1, S)
  <2>1. ASSUME NEW q \in S PROVE \E i \in 0 .. n - 1 : F[i] = q
    <3>1. PICK l \in 0 .. h - 1, k \in 0 .. w - 1 : q = l * p + k
      BY <1>1 DEF StagedBytes
    <3> QED BY <1>6, <3>1
  <2> QED BY <1>8, <2>1 DEF Surjection
<1>11. ExistsBijection(0 .. n - 1, S)
  BY <1>9, <1>10 DEF ExistsBijection, Bijection
<1>12. IsFiniteSet(0 .. n - 1) /\ Cardinality(0 .. n - 1) = n
  BY FirstNumbers
<1> QED BY <1>3, <1>11, <1>12, FS_Bijection

(* Powers of two among block sizes                                            *)
LEMMA BlockSizesArePowers ==
  ASSUME NEW b \in {1, 2, 4, 8, 16}
  PROVE  \E n \in 0 .. 31 : b = 2^n
<1>1. 1 = 2^0 /\ 2 = 2^1 /\ 4 = 2^2 /\ 8 = 2^3 /\ 16 = 2^4
  BY SMT
<1>2. 0 \in 0 .. 31 /\ 1 \in 0 .. 31 /\ 2 \in 0 .. 31 /\ 3 \in 0 .. 31 /\ 4 \in 0 .. 31
  BY SMT
<1> QED BY <1>1, <1>2, Zenon

(* Admitted work finds what preparation and encoding take for granted         *)
LEMMA AdmittedIsCoherent ==
  ASSUME NEW w, NEW ts, NEW b, TypedWork(w, ts, b), ValidWork(w)
  PROVE  Coherent(w)
<1>1. w.kind \in WorkKinds
  BY DEF TypedWork
<1>2. CASE w.kind = "Initial" /\ w.target = "texture"
  <2>1. PICK p, r, rows : p = w.of.prepared /\ r = InitialRegion(w) /\ rows = PreparedRows(p)
    OBVIOUS
  <2>2. r \in WorkRegions(w)
    BY <1>2, <2>1 DEF WorkRegions
  <2>3. Measured(r) /\ ValidRegion(r) /\ TypedRegion(r) /\ PreparedFor(p, r) /\ ValidPrepared(p)
    BY <1>2, <2>1, <2>2, WorkIsMeasured
  <2>4. RegionFootprint(r).known
    BY <2>3 DEF PreparedFor, ValidPrepared
  <2>5. p.length \in Nat
    <3>1. w.of.initial = "prepared"
      BY <1>2 DEF ValidWork
    <3>2. TypedTexture(w.of)
      BY <2>1, <2>3 DEF TypedRegion, InitialRegion
    <3> QED BY <2>1, <3>1, <3>2 DEF TypedTexture
  <2>6. \A i \in DOMAIN rows : rows[i] < p.length
    BY <2>1, <2>3, <2>5, PreparedStaysInside
  <2>7. PICK n : n = TightLength(RegionFootprint(r), r.extent.depth)
    OBVIOUS
  <2>8. DOMAIN rows = 0 .. n - 1
    BY <2>1, <2>3, <2>7 DEF PreparedRows, PreparedFor
  <2>9. n \in Nat
    <3>1. RegionFootprint(r).row \in Nat /\ RegionFootprint(r).rows \in Nat /\ r.extent.depth \in Nat
      BY <2>3 DEF Measured
    <3> QED BY <2>7, <3>1, Regroup DEF TightLength
  <2>10. Cardinality(DOMAIN rows) = n
    BY <2>8, <2>9, FirstNumbers
  <2> QED BY <1>2, <2>1, <2>3, <2>4, <2>6, <2>7, <2>10 DEF Coherent
<1>3. CASE w.kind = "Upload" /\ w.target = "texture"
  BY <1>3 DEF ValidWork, Coherent
<1>4. CASE w.kind = "Readback" /\ w.target = "texture"
  <2>1. PICK r, s : r = w.region /\ s = Staging(r)
    OBVIOUS
  <2>2. r \in WorkRegions(w)
    BY <1>4, <2>1 DEF WorkRegions
  <2>3. Measured(r)
    BY <1>4, <2>2, WorkIsMeasured
  <2>4. Roomy(s) /\ s.row = Wide(r) * BlockBytes(r)
    BY <2>1, <2>3, StagingIsRoomy DEF Measured
  <2>5. PICK m, n, l : m = s.row /\ n = s.rows /\ l = m * n
    OBVIOUS
  <2>6. m \in Nat \ {0} /\ n \in Nat \ {0}
    BY <2>4, <2>5 DEF Roomy
  <2>7. l \in Nat \ {0} /\ l = n * m
    <3>1. m <= m * n /\ m * n \in Nat
      BY <2>6, Products
    <3>2. m * n = n * m
      BY <2>6, Regroup
    <3> QED BY <2>5, <2>6, <3>1, <3>2
  <2>8. m % BlockBytes(r) = 0
    <3>1. PICK x \in Nat, B \in Nat \ {0} : x = Wide(r) /\ B = BlockBytes(r)
      BY <2>3 DEF Measured
    <3>2. (x * B + 0) % B = 0
      BY <3>1, Remainder
    <3>3. x * B + 0 = x * B
      BY <3>1, Products
    <3> QED BY <2>4, <2>5, <3>1, <3>2, <3>3
  <2>9. \E k \in 0 .. 31 : BlockBytes(r) = 2^k
    BY <2>3, BlockSizesArePowers DEF Measured
  <2>10. ValidDataLayout(l, BlockBytes(r), m, n)
    <3>1. l > 0 /\ n > 0 /\ m > 0 /\ m * n = l
      BY <2>5, <2>6, <2>7
    <3> QED BY <2>8, <2>9, <3>1, Zenon DEF ValidDataLayout
  <2>11. Cardinality(DOMAIN StagedRows(s)) = l
    BY <2>4, <2>5, <2>7, StagedRowsCount
  <2> QED BY <1>4, <2>1, <2>5, <2>10, <2>11 DEF Coherent
<1>5. CASE w.kind = "Readback" /\ w.target = "buffer"
  <2>1. PICK n : n = w.range.size
    OBVIOUS
  <2>2. n \in Nat \ {0}
    BY <1>5, <2>1 DEF ValidWork, BufferAllows, ValidRange, TypedWork, CopiedRanges
  <2>3. n % 1 = 0 /\ n * 1 = n
    BY <2>2
  <2>4. \E k \in 0 .. 31 : 1 = 2^k
    BY BlockSizesArePowers
  <2>5. ValidDataLayout(n, 1, n, 1)
    BY <2>2, <2>3, <2>4 DEF ValidDataLayout
  <2> QED BY <1>5, <2>1, <2>5 DEF Coherent
<1>6. CASE w.kind = "Initial" /\ w.target = "buffer"
  BY <1>6 DEF Coherent
<1>7. CASE w.kind = "Upload" /\ w.target = "buffer"
  BY <1>7 DEF Coherent
<1>8. CASE w.kind \notin {"Initial", "Upload", "Readback"}
  BY <1>8 DEF Coherent
<1> QED BY <1>2, <1>3, <1>4, <1>5, <1>6, <1>7, <1>8 DEF TypedWork
-----------------------------------------------------------------------------
(* Transfers over time                                                        *)

(* Resources at hand are typed and were admitted as descriptors               *)
AtHand(ts, b) ==
  /\ ts \in TextureChoice /\ b \in BufferChoice
  /\ \A k \in 1 .. 2 : ValidTexture(ts[k])
  /\ ValidBuffer(b) /\ ValidQuerySet(QueryDescriptor)

(* Admitted work names what is at hand, and what it moved is what its commands move *)
TransferInv ==
  /\ stage \in {"empty", "described", "requested", "refused", "done"}
  /\ stage # "empty" => AtHand(textures, buffer)
  /\ stage \in {"requested", "done"} => TypedWork(work, textures, buffer) /\ ValidWork(work)
  /\ stage = "done" => Realizable(work) /\ Encodable(work) /\ moved = MovedBy(work)

(* Work asked for is in numbers                                               *)
LEMMA RequestsAreTyped ==
  ASSUME AtHand(textures, buffer),
         NEW w \in BufferRequests \cup TextureRequests(UNION {Regions(t) : t \in 1 .. 2}), ValidWork(w)
  PROVE  TypedWork(w, textures, buffer)
<1>1. PICK rs : rs = UNION {Regions(t) : t \in 1 .. 2}
  OBVIOUS
<1>2. \A t \in 1 .. 2 : /\ TypedTexture(textures[t]) /\ ValidTexture(textures[t])
                         /\ \A r \in RegionsOf(textures[t]) : TypedProbe(r)
  BY TransferConstants DEF AtHand
<1>3. ASSUME NEW r \in rs
      PROVE  TypedRegion(r) /\ r.texture \in 1 .. 2 /\ r.of = textures[r.texture]
  <2>1. PICK t \in 1 .. 2 : r \in Regions(t)
    BY <1>1
  <2>2. PICK q \in RegionsOf(textures[t]) :
          r = [texture |-> t, of |-> textures[t], mip |-> q.mip, aspect |-> q.aspect, origin |-> q.origin, extent |-> q.extent]
    BY <2>1 DEF Regions
  <2>3. TypedTexture(textures[t]) /\ ValidTexture(textures[t]) /\ TypedProbe(q)
    BY <1>2
  <2>4. r.texture = t /\ r.of = textures[t] /\ r.mip = q.mip /\ r.origin = q.origin /\ r.extent = q.extent
    BY <2>2
  <2>5. TypedProbe(r)
    BY <2>3, <2>4 DEF TypedProbe
  <2> QED BY <2>3, <2>4, <2>5 DEF TypedRegion
<1>4. /\ \A range \in BufferRanges : range.offset \in Nat /\ range.size \in Nat
      /\ \A l \in Layouts : TypedPitch(l)
      /\ Offset \subseteq Nat
  BY TransferConstants DEF BufferRanges, Layouts, TypedPitch
<1>5. QueryDescriptor.count \in Nat /\ buffer.size \in Nat
  <2>1. QueryDescriptor.count \in 1 .. MaxQueries /\ MaxQueries \in Nat
    BY DEF AtHand, ValidQuerySet, MaxQueries
  <2>2. buffer \in BufferChoice
    BY DEF AtHand
  <2>3. buffer.size \in Nat
    BY <2>2, TransferConstants, Zenon
  <2>4. QueryDescriptor.count \in Nat
    <3>1. \A m \in Nat : \A n \in 1 .. m : n \in Nat
      OBVIOUS
    <3> QED BY <2>1, <3>1, Zenon
  <2> QED BY <2>3, <2>4
<1>6. CASE w \in BufferRequests
  <2>1. WorkRegions(w) = {}
    BY <1>6 DEF BufferRequests, WorkRegions
  <2>2. CASE w = [kind |-> "Initial", target |-> "buffer", buffer |-> buffer]
    <3>1. CopiedRanges(w) = {[offset |-> 0, size |-> buffer.size]}
      BY <2>2 DEF CopiedRanges
    <3>2. ValidBuffer(buffer)
      BY DEF AtHand
    <3> QED BY <1>5, <2>1, <2>2, <3>1, <3>2 DEF TypedWork, WorkKinds
  <2>3. CASE w \in {[kind |-> "Upload", target |-> "buffer", buffer |-> buffer, range |-> range, payload |-> range.size] :
                       range \in BufferRanges}
    <3>1. PICK range \in BufferRanges :
            w = [kind |-> "Upload", target |-> "buffer", buffer |-> buffer, range |-> range, payload |-> range.size]
      BY <2>3
    <3>2. CopiedRanges(w) = {range}
      BY <3>1 DEF CopiedRanges
    <3> QED BY <1>4, <2>1, <3>1, <3>2 DEF TypedWork, WorkKinds
  <2>4. CASE w \in [kind : {"Readback"}, target : {"buffer"}, buffer : {buffer}, range : BufferRanges]
    <3>1. CopiedRanges(w) = {w.range}
      BY <2>4 DEF CopiedRanges
    <3> QED BY <1>4, <2>1, <2>4, <3>1 DEF TypedWork, WorkKinds
  <2>5. CASE w \in [kind : {"Zero"}, buffer : {buffer}, range : BufferRanges]
    <3>1. CopiedRanges(w) = {w.range}
      BY <2>5 DEF CopiedRanges
    <3> QED BY <1>4, <2>1, <2>5, <3>1 DEF TypedWork, WorkKinds
  <2>6. CASE w \in [kind : {"BufferToBuffer"}, buffer : {buffer}, range : BufferRanges, to : BufferRanges]
    <3>1. CopiedRanges(w) = {w.range, w.to}
      BY <2>6 DEF CopiedRanges
    <3> QED BY <1>4, <2>1, <2>6, <3>1 DEF TypedWork, WorkKinds
  <2>7. CASE w \in [kind : {"Resolve"}, buffer : {buffer}, first : 0 .. QueryDescriptor.count,
                    count : 0 .. QueryDescriptor.count, offset : Offset]
    <3>1. CopiedRanges(w) = {}
      BY <2>7 DEF CopiedRanges
    <3>2. w.first \in Nat /\ w.count \in Nat /\ w.offset \in Nat
      <4>1. w.first \in 0 .. QueryDescriptor.count /\ w.count \in 0 .. QueryDescriptor.count /\ w.offset \in Offset
        BY <2>7
      <4>2. w.offset \in Nat
        BY <1>4, <4>1, Zenon
      <4>3. w.first \in Nat /\ w.count \in Nat
        BY <1>5, <4>1
      <4> QED BY <4>2, <4>3
    <3> QED BY <2>1, <2>7, <3>1, <3>2 DEF TypedWork, WorkKinds
  <2> QED BY <1>6, <2>2, <2>3, <2>4, <2>5, <2>6, <2>7 DEF BufferRequests
<1>7. CASE w \in TextureRequests(rs)
  <2>1. CopiedRanges(w) = {}
    BY <1>7 DEF TextureRequests, CopiedRanges
  <2>2. CASE w \in {[kind |-> "Initial", target |-> "texture", texture |-> t, of |-> textures[t]] : t \in 1 .. 2}
    <3>1. PICK t \in 1 .. 2 : w = [kind |-> "Initial", target |-> "texture", texture |-> t, of |-> textures[t]]
      BY <2>2
    <3>2. ValidTexture(textures[t]) /\ TypedTexture(textures[t])
      BY <1>2 DEF AtHand
    <3>3. WorkRegions(w) = {InitialRegion(w)}
      BY <3>1 DEF WorkRegions
    <3>4. w.of.initial = "prepared"
      BY <3>1 DEF ValidWork
    <3>5. TypedRegion(InitialRegion(w))
      BY <3>1, <3>2, <3>4, InitialIsValid
    <3>6. InitialRegion(w).texture = t /\ InitialRegion(w).of = textures[t]
      BY <3>1 DEF InitialRegion
    <3> QED BY <2>1, <3>1, <3>2, <3>3, <3>5, <3>6 DEF TypedWork, WorkKinds, UsesBuffer
  <2>3. CASE w \in {[kind |-> "Upload", target |-> "texture", region |-> region,
                     payload |-> TightLength(RegionFootprint(region), region.extent.depth)] : region \in rs}
    <3>1. w.kind = "Upload" /\ w.target = "texture" /\ w.region \in rs
      BY <2>3
    <3>2. WorkRegions(w) = {w.region}
      BY <3>1 DEF WorkRegions
    <3> QED BY <1>3, <2>1, <3>1, <3>2 DEF TypedWork, WorkKinds, UsesBuffer
  <2>4. CASE w \in [kind : {"Readback"}, target : {"texture"}, region : rs]
    <3>1. WorkRegions(w) = {w.region}
      BY <2>4 DEF WorkRegions
    <3> QED BY <1>3, <2>1, <2>4, <3>1 DEF TypedWork, WorkKinds, UsesBuffer
  <2>5. CASE w \in [kind : {"BufferToTexture", "TextureToBuffer"}, buffer : {buffer}, region : rs, layout : Layouts]
    <3>1. WorkRegions(w) = {w.region}
      BY <2>5 DEF WorkRegions
    <3> QED BY <1>3, <1>4, <2>1, <2>5, <3>1 DEF TypedWork, WorkKinds, UsesBuffer
  <2>6. CASE w \in [kind : {"TextureToTexture"}, region : rs, to : rs]
    <3>1. WorkRegions(w) = {w.region, w.to}
      BY <2>6 DEF WorkRegions
    <3> QED BY <1>3, <2>1, <2>6, <3>1 DEF TypedWork, WorkKinds, UsesBuffer
  <2> QED BY <1>7, <2>2, <2>3, <2>4, <2>5, <2>6 DEF TextureRequests
<1> QED BY <1>1, <1>6, <1>7

(* Every step keeps the invariant                                             *)
LEMMA TransferStep ==
  ASSUME TransferInv, [TransferNext]_transferVars
  PROVE  TransferInv'
<1>1. CASE Describe
  BY <1>1 DEF Describe, TransferInv, AtHand
<1>2. ASSUME NEW w \in BufferRequests \cup TextureRequests(UNION {Regions(t) : t \in 1 .. 2}),
             stage = "described", Request(w)
      PROVE  TransferInv'
  <2>1. AtHand(textures, buffer)
    BY <1>2 DEF TransferInv
  <2>2. /\ stage' = "requested" /\ work' = w /\ textures' = textures /\ buffer' = buffer /\ ValidWork(w)
    BY <1>2 DEF Request
  <2>3. TypedWork(w, textures, buffer)
    BY <2>1, <2>2, RequestsAreTyped
  <2>4. TypedWork(work', textures', buffer') /\ ValidWork(work') /\ AtHand(textures', buffer')
    BY <2>1, <2>2, <2>3
  <2> QED BY <2>2, <2>4 DEF TransferInv
<1>3. CASE RequestBufferWork
  BY <1>2, <1>3 DEF RequestBufferWork
<1>4. CASE RequestTextureWork
  BY <1>2, <1>4 DEF RequestTextureWork
<1>5. CASE Execute
  <2>1. TypedWork(work, textures, buffer) /\ ValidWork(work) /\ AtHand(textures, buffer)
    BY <1>5 DEF TransferInv, Execute
  <2>2. Coherent(work)
    BY <2>1, AdmittedIsCoherent
  <2>3. /\ work' = work /\ textures' = textures /\ buffer' = buffer
        /\ stage' = "refused" \/ (stage' = "done" /\ Realizable(work) /\ Encodable(work) /\ moved' = MovedBy(work))
    BY <1>5, <2>2 DEF Execute
  <2>4. TypedWork(work', textures', buffer') /\ ValidWork(work') /\ AtHand(textures', buffer')
    BY <2>1, <2>3
  <2>5. stage' = "done" => Realizable(work') /\ Encodable(work') /\ moved' = MovedBy(work')
    BY <2>3
  <2> QED BY <2>3, <2>4, <2>5 DEF TransferInv
<1>6. CASE UNCHANGED transferVars
  BY <1>6 DEF transferVars, TransferInv
<1> QED BY <1>1, <1>3, <1>4, <1>5, <1>6 DEF TransferNext

(* Every state of the transfers satisfies the invariant: what is at hand was  *)
(* described and admitted (TextureDescriptor::validate), what was asked for  *)
(* was admitted against it, and what moved is what its commands move.        *)
THEOREM TransfersKeepInv == TransferSpec => []TransferInv
<1>1. TransferInit => TransferInv
  BY DEF TransferInit, TransferInv
<1>2. TransferInv /\ [TransferNext]_transferVars => TransferInv'
  BY TransferStep
<1> QED BY <1>1, <1>2, PTL DEF TransferSpec

(* Every byte of the region a transfer names arrives where the caller means   *)
(* it, and no other byte does: uploads and readbacks through rows padded to    *)
(* the device's alignment (TextureStagingLayout), prepared contents with a     *)
(* pitch of their own (normalize_prepared_texture_payload), and direct copies  *)
(* by the caller's layout (wgpu_buffer_texture_copy_layout), for every         *)
(* format, extent, region, row pitch and alignment.                            *)
THEOREM TransfersAreExact == TransferSpec => []TransfersMoveExactly
<1>1. TransferInv => TransfersMoveExactly
  <2>1. ASSUME TransferInv, stage = "done", work.kind # "TextureToTexture", WorkRegions(work) # {}
        PROVE  moved = Promised(work)
    <3>1. TypedWork(work, textures, buffer) /\ ValidWork(work) /\ moved = MovedBy(work)
      BY <2>1 DEF TransferInv
    <3> QED BY <2>1, <3>1, MovesAsPromised
  <2> QED BY <2>1 DEF TransfersMoveExactly
<1> QED BY <1>1, TransfersKeepInv, PTL
-----------------------------------------------------------------------------
(* Cells lie inside their mip level                                           *)

(* Blocks of one direction                                                    *)
LEMMA BlocksFit ==
  ASSUME NEW block \in Nat \ {0}, NEW origin \in Nat, NEW extent \in Nat \ {0}, NEW count \in Nat,
         origin % block = 0, extent % block = 0, origin + extent <= count * block,
         NEW x \in 0 .. BlockCount(extent, block) - 1
  PROVE  origin \div block + x \in Nat /\ origin \div block + x < count
<1>1. PICK q \in Nat, r \in Nat : q = origin \div block /\ r = origin % block /\ origin = q * block + r /\ r < block
  BY Division
<1>2. PICK n \in Nat : n = BlockCount(extent, block) /\ n * block = extent
  BY BlocksCover
<1>3. r = 0 /\ q * block \in Nat /\ origin = q * block
  BY <1>1, Products
<1>4. q + n <= count
  <2>1. SUFFICES ASSUME count < q + n PROVE FALSE
    BY <1>1, <1>2
  <2>2. PICK s \in Nat : s = q + n
    BY <1>1, <1>2
  <2>3. count * block + block <= s * block
    BY <2>1, <2>2, Products
  <2>4. s * block = q * block + n * block
    BY <1>1, <1>2, <2>2
  <2>5. count * block \in Nat
    BY Products
  <2> QED BY <1>2, <1>3, <2>3, <2>4, <2>5
<1> QED BY <1>1, <1>2, <1>4

(* A level of a texture                                                       *)
LEMMA LevelsAreNumbers ==
  ASSUME NEW d, TypedTexture(d), ValidTexture(d), NEW mip \in Nat, mip < d.mips
  PROVE  LET level == MipExtent(d, mip)
         IN  level.width \in Nat \ {0} /\ level.height \in Nat \ {0} /\ level.depth \in Nat
<1>1. PICK m, e : m = 2^mip /\ e = d.extent
  OBVIOUS
<1>2. m \in Nat \ {0}
  <2>1. mip \in 0 .. 31
    BY MipsAreFew
  <2> QED BY <1>1, <2>1, PowersAreNumbers
<1>3. \A n \in Nat : n \div m \in Nat
  BY <1>2, Division
<1>4. e.width \in Nat /\ e.height \in Nat /\ e.depth \in Nat
  BY <1>1 DEF TypedTexture, TypedExtent
<1>5. PICK w, h, z : w = e.width \div m /\ h = e.height \div m /\ z = e.depth \div m
  OBVIOUS
<1>6. w \in Nat /\ h \in Nat /\ z \in Nat
  BY <1>3, <1>4, <1>5
<1>7. MipExtent(d, mip) = [width  |-> IF w = 0 THEN 1 ELSE w, height |-> IF h = 0 THEN 1 ELSE h,
                           depth  |-> IF d.dimension = "D3" THEN IF z = 0 THEN 1 ELSE z
                                      ELSE IF d.dimension = "D2" THEN e.depth ELSE 1]
  BY <1>1, <1>5 DEF MipExtent, ArrayLayers
<1> QED BY <1>4, <1>6, <1>7

(* A block of a region lies inside the level                                  *)
LEMMA CellsStayInside ==
  ASSUME NEW r, TypedRegion(r), ValidRegion(r), NEW at,
         at[1] \in 0 .. Wide(r) - 1, at[2] \in 0 .. High(r) - 1, at[3] \in 0 .. r.extent.depth - 1
  PROVE  LET q == Cell(r, at)
             level == MipExtent(r.of, r.mip)
         IN  /\ q[1] = "texture" /\ q[2] = r.texture /\ q[3] = r.mip
             /\ q[4] < BlockCount(level.width, Width(r.of))
             /\ q[5] < BlockCount(level.height, Height(r.of))
             /\ q[6] = r.origin.z + at[3] /\ q[6] < level.depth
<1>1. PICK d, level, h, w, t, e, o : /\ d = r.of /\ level = MipExtent(d, r.mip) /\ h = PhysicalExtent(d, r.mip)
                                  /\ w = Width(d) /\ t = Height(d) /\ e = r.extent /\ o = r.origin
  OBVIOUS
<1>2. w \in Nat \ {0} /\ t \in Nat \ {0}
  <2>1. {Semantics[d.format].width, Semantics[d.format].height} \subseteq {1, 4, 5, 6, 8, 10, 12}
    BY <1>1, FormatRows DEF TypedRegion, TypedTexture
  <2> QED BY <1>1, <2>1 DEF Width, Height
<1>3. /\ e.width \in Nat \ {0} /\ e.height \in Nat \ {0} /\ e.depth \in Nat \ {0}
      /\ o.x \in Nat /\ o.y \in Nat /\ o.z \in Nat /\ r.mip \in Nat /\ r.mip < d.mips
  BY <1>1 DEF ValidRegion, Texture, TypedRegion, TypedProbe, TypedExtent
<1>4. level.width \in Nat \ {0} /\ level.height \in Nat \ {0} /\ level.depth \in Nat
  <2>1. TypedTexture(d) /\ ValidTexture(d)
    BY <1>1 DEF TypedRegion
  <2> QED BY <1>1, <1>3, <2>1, LevelsAreNumbers
<1>5. PICK m, n : m = BlockCount(level.width, w) /\ n = BlockCount(level.height, t)
  OBVIOUS
<1>6. m \in Nat /\ n \in Nat
  BY <1>2, <1>4, <1>5, BlocksCover
<1>7. h.width = m * w /\ h.height = n * t
  <2>1. "width" \in DOMAIN level /\ "height" \in DOMAIN level
    BY <1>1 DEF MipExtent
  <2> QED BY <1>1, <1>5, <2>1 DEF PhysicalExtent
<1>8. /\ o.x % w = 0 /\ e.width % w = 0 /\ o.y % t = 0 /\ e.height % t = 0
      /\ o.x + e.width <= m * w /\ o.y + e.height <= n * t /\ o.z + e.depth <= level.depth
  BY <1>1, <1>7 DEF ValidRegion, Texture
<1>9. at[1] \in 0 .. BlockCount(e.width, w) - 1 /\ at[2] \in 0 .. BlockCount(e.height, t) - 1
  BY <1>1 DEF Wide, High, Texture
<1>10. o.x \div w + at[1] < m /\ o.y \div t + at[2] < n
  <2>1. PICK ox, oy, ew, eh, x, y : /\ ox = o.x /\ oy = o.y /\ ew = e.width /\ eh = e.height
                                  /\ x = at[1] /\ y = at[2]
    OBVIOUS
  <2>2. ox \div w + x < m
    BY <1>2, <1>3, <1>6, <1>8, <1>9, <2>1, BlocksFit
  <2>3. oy \div t + y < n
    BY <1>2, <1>3, <1>6, <1>8, <1>9, <2>1, BlocksFit
  <2> QED BY <2>1, <2>2, <2>3
<1>11. o.z + at[3] < level.depth
  BY <1>1, <1>3, <1>4, <1>8
<1>12. Cell(r, at) = <<"texture", r.texture, r.mip, o.x \div w + at[1], o.y \div t + at[2], o.z + at[3], at[4]>>
  BY <1>1 DEF Cell, Texture
<1> QED BY <1>1, <1>5, <1>10, <1>11, <1>12

-----------------------------------------------------------------------------
(* Staging and direct layouts                                                 *)

(* A staged copy is one the device takes, and fits its staging buffer         *)
LEMMA StagingsFit ==
  ASSUME NEW r, Measured(r)
  PROVE  StagingFits(r, Staging(r))
<1>1. PICK s, l : s = Staging(r) /\ l = StagingLayout(r, s)
  OBVIOUS
<1>2. /\ Roomy(s) /\ s.row = RegionFootprint(r).row /\ s.rows = High(r) * r.extent.depth
      /\ s.imageRows = High(r) /\ s.pitched = (High(r) > 1 \/ r.extent.depth > 1)
      /\ s.pitched => s.pitch % RowAlignment = 0
      /\ s.length = AlignUp(s.pitch * (s.rows - 1) + s.row, BufferAlignment)
  BY <1>1, StagingIsRoomy
<1>3. High(r) \in Nat \ {0} /\ r.extent.depth \in Nat \ {0}
  BY DEF Measured
<1>4. /\ l.rowBytes = (IF s.pitched THEN s.pitch ELSE 0)
      /\ l.imageRows = (IF r.extent.depth > 1 THEN s.imageRows ELSE 0)
  BY <1>1 DEF StagingLayout
<1>5. DeviceAccepts(r, l)
  <2>1. 0 % RowAlignment = 0
    <3>1. RowAlignment \in Nat \ {0}
      BY TransferConstants
    <3> QED BY <3>1
  <2>2. l.rowBytes % RowAlignment = 0
    BY <1>2, <1>4, <2>1
  <2>3. l.rowBytes = 0 => High(r) = 1 /\ r.extent.depth = 1
    <3>1. ASSUME High(r) > 1 \/ r.extent.depth > 1 PROVE l.rowBytes # 0
      <4>1. s.pitched
        BY <1>2, <3>1
      <4>2. l.rowBytes = s.pitch
        BY <1>4, <4>1
      <4> QED BY <1>2, <4>2 DEF Roomy
    <3> QED BY <1>3, <3>1
  <2>4. l.imageRows = 0 => r.extent.depth = 1
    BY <1>2, <1>3, <1>4
  <2> QED BY <2>2, <2>3, <2>4 DEF DeviceAccepts
<1>6. PICK p, w, c, n : p = s.pitch /\ w = s.row /\ c = s.rows - 1 /\ n = p * c + w
  OBVIOUS
<1>7. p \in Nat /\ w \in Nat \ {0} /\ c \in Nat
  BY <1>2, <1>6 DEF Roomy
<1>8. n \in Nat /\ c * p \in Nat /\ n = c * p + w
  <2>1. p * c = c * p /\ p * c \in Nat
    BY <1>7, Regroup
  <2> QED BY <1>6, <1>7, <2>1
<1>9. s.length \in Nat /\ n <= s.length /\ s.length % BufferAlignment = 0
  BY <1>2, <1>6, <1>8, TransferConstants, AlignUpIs
<1>10. ASSUME NEW q \in DevicePairs(r, l) PROVE q[2] < s.length
  <2>1. PICK at \in BlockPlaces(r) : q = <<Cell(r, at), LineOf(r, at) * p + ByteOf(r, at)>>
    BY <1>1, <1>6, StagedPlaces
  <2>2. LineOf(r, at) \in 0 .. c /\ ByteOf(r, at) \in 0 .. w - 1
    BY <1>1, <1>2, <1>6, PlacesHaveLines
  <2>3. LineOf(r, at) * p <= c * p /\ LineOf(r, at) * p \in Nat
    BY <1>7, <2>2, Products
  <2>4. q[2] = LineOf(r, at) * p + ByteOf(r, at)
    BY <2>1
  <2> QED BY <1>7, <1>8, <1>9, <2>2, <2>3, <2>4
<1> QED BY <1>1, <1>5, <1>9, <1>10 DEF StagingFits
(* The bytes of a direct copy are the tracked ones, from the first to the last of its range *)
LEMMA LayoutsAreHonest ==
  ASSUME NEW w, Measured(w.region), TypedPitch(w.layout), LayoutCovers(w.region, w.layout), NEW touched,
         touched = {Meant(w.region, at, w.layout.offset, w.layout.rowBytes, w.layout.rowBytes * w.layout.imageRows) :
                      at \in BlockPlaces(w.region)}
  PROVE  /\ LayoutIsHonest(w, touched)
         /\ LayoutRange(w.layout, w.region).offset \in Nat /\ LayoutRange(w.layout, w.region).size \in Nat
         /\ touched \subseteq Nat
<1>1. PICK r, l, h, d, b, f, o, n, g, c, e, i :
        /\ r = w.region /\ l = w.layout /\ h = High(r) /\ d = r.extent.depth /\ b = BlockBytes(r)
        /\ f = RegionFootprint(r).row /\ o = l.offset /\ n = l.rowBytes /\ g = l.imageRows
        /\ c = h - 1 /\ e = d - 1 /\ i = f - 1
  OBVIOUS
<1>2. /\ h \in Nat \ {0} /\ d \in Nat \ {0} /\ b \in Nat /\ f \in Nat \ {0} /\ RegionFootprint(r).rows = h
      /\ o \in Nat /\ n \in Nat /\ f <= n /\ g \in Nat /\ c \in Nat /\ e \in Nat /\ i \in Nat
  BY <1>1 DEF Measured, TypedPitch, LayoutCovers
<1>3. PICK group : group = IF d > 1 THEN n * g ELSE 0
  OBVIOUS
<1>4. group \in Nat
  BY <1>2, <1>3, Products
<1>5. TrackedLayout(l, r) = {o + z * group + y * n + k : z \in 0 .. d - 1, y \in 0 .. h - 1, k \in 0 .. f - 1}
  BY <1>1, <1>2, <1>3 DEF TrackedLayout
<1>6. ASSUME NEW at \in BlockPlaces(r)
      PROVE  /\ Meant(r, at, o, n, n * g) = o + at[3] * group + at[2] * n + ByteOf(r, at)
             /\ at[3] \in 0 .. d - 1 /\ at[2] \in 0 .. h - 1 /\ ByteOf(r, at) \in 0 .. f - 1
  <2>1. PICK x, y, z, j : x = at[1] /\ y = at[2] /\ z = at[3] /\ j = at[4]
    OBVIOUS
  <2>2. x \in Nat /\ y \in 0 .. h - 1 /\ z \in 0 .. d - 1 /\ j \in Nat /\ ByteOf(r, at) \in 0 .. f - 1
    BY <1>1, <1>2, <2>1, PlacesHaveLines
  <2>3. z * (n * g) = z * group
    <3>1. CASE d > 1
      BY <1>3, <3>1
    <3>2. CASE d = 1
      <4>1. z = 0 /\ n * g \in Nat
        BY <1>2, <2>2, <3>2, Products
      <4> QED BY <1>4, <4>1
    <3>3. d > 1 \/ d = 1
      BY <1>2
    <3> QED BY <3>1, <3>2, <3>3, Zenon
  <2>4. PICK p, q, k : p = z * group /\ q = y * n /\ k = x * b
    OBVIOUS
  <2>5. p \in Nat /\ q \in Nat /\ k \in Nat
    BY <1>2, <1>4, <2>2, <2>4, Products
  <2>6. Meant(r, at, o, n, n * g) = o + p + q + k + j
    BY <1>1, <2>1, <2>3, <2>4, Zenon DEF Meant
  <2>7. ByteOf(r, at) = k + j
    BY <1>1, <2>1, <2>4 DEF ByteOf
  <2> QED BY <1>2, <2>1, <2>2, <2>4, <2>5, <2>6, <2>7
<1>7. touched = TrackedLayout(l, r)
  <2>1. ASSUME NEW t \in touched PROVE t \in TrackedLayout(l, r)
    <3>1. PICK at \in BlockPlaces(r) : t = Meant(r, at, o, n, n * g)
      BY <1>1
    <3> QED BY <1>5, <1>6, <3>1
  <2>2. ASSUME NEW t \in TrackedLayout(l, r) PROVE t \in touched
    <3>1. PICK z \in 0 .. d - 1, y \in 0 .. h - 1, k \in 0 .. f - 1 : t = o + z * group + y * n + k
      BY <1>5
    <3>2. PICK at \in BlockPlaces(r) : at[3] = z /\ at[2] = y /\ ByteOf(r, at) = k
      BY <1>1, LinesHavePlaces
    <3>3. t = Meant(r, at, o, n, n * g)
      BY <1>6, <3>1, <3>2
    <3> QED BY <1>1, <3>3
  <2> QED BY <2>1, <2>2
<1>8. PICK range : range = LayoutRange(l, r)
  OBVIOUS
<1>9. PICK u, v : u = e * group /\ v = c * n
  OBVIOUS
<1>10. u \in Nat /\ v \in Nat
  BY <1>2, <1>4, <1>9, Products
<1>11. range.offset = o /\ range.size = u + v + f
  <2>1. PICK m : m = IF d > 1 THEN g ELSE 0
    OBVIOUS
  <2>2. range.offset = o /\ range.size = e * n * m + c * n + f
    BY <1>1, <1>2, <1>8, <2>1 DEF LayoutRange, LayoutSpan
  <2>3. e * n * m = u
    <3>1. e * n * m = e * (n * m)
      <4>1. m \in Nat
        BY <1>2, <2>1
      <4> QED BY <1>2, <4>1, Regroup
    <3>2. n * m = group
      BY <1>2, <1>3, <2>1
    <3> QED BY <1>9, <3>1, <3>2
  <2> QED BY <1>9, <2>2, <2>3
<1>12. ASSUME NEW z \in 0 .. d - 1, NEW y \in 0 .. h - 1, NEW k \in 0 .. f - 1, NEW t, t = o + z * group + y * n + k
       PROVE  t \in Nat /\ t < range.offset + range.size
  <2>1. z \in Nat /\ z <= e /\ y \in Nat /\ y <= c /\ k \in Nat /\ k < f
    BY <1>1, <1>2
  <2>2. PICK p, q : p = z * group /\ q = y * n
    OBVIOUS
  <2>3. p \in Nat /\ q \in Nat /\ p <= u /\ q <= v
    BY <1>2, <1>4, <1>9, <2>1, <2>2, Products
  <2> QED BY <1>2, <1>10, <1>11, <1>12, <2>1, <2>2, <2>3
<1>13. \A t \in touched : t \in Nat /\ t < range.offset + range.size
  <2> TAKE t \in touched
  <2>1. t \in TrackedLayout(l, r)
    BY <1>7
  <2>2. PICK z \in 0 .. d - 1, y \in 0 .. h - 1, k \in 0 .. f - 1 : t = o + z * group + y * n + k
    BY <1>5, <2>1
  <2> QED BY <1>12, <2>2
<1>14. \A z \in 0 .. d - 1, y \in 0 .. h - 1, k \in 0 .. f - 1 : o + z * group + y * n + k \in touched
  <2> TAKE z \in 0 .. d - 1, y \in 0 .. h - 1, k \in 0 .. f - 1
  <2>1. PICK at \in BlockPlaces(r) : at[3] = z /\ at[2] = y /\ ByteOf(r, at) = k
    BY <1>1, LinesHavePlaces
  <2>2. Meant(r, at, o, n, n * g) = o + z * group + y * n + k
    BY <1>6, <2>1
  <2>3. Meant(r, at, o, n, n * g) \in touched
    BY <1>1
  <2> QED BY <2>2, <2>3
<1>15. range.offset \in touched
  <2>1. 0 \in 0 .. d - 1 /\ 0 \in 0 .. h - 1 /\ 0 \in 0 .. f - 1
    BY <1>2
  <2>2. o + 0 * group + 0 * n + 0 = o
    BY <1>2, <1>4
  <2>3. o + 0 * group + 0 * n + 0 \in touched
    BY <1>14, <2>1, Zenon
  <2> QED BY <1>11, <2>2, <2>3
<1>16. range.offset + range.size - 1 \in touched
  <2>1. e \in 0 .. d - 1 /\ c \in 0 .. h - 1 /\ i \in 0 .. f - 1
    BY <1>1, <1>2
  <2>2. range.offset + range.size - 1 = o + e * group + c * n + i
    BY <1>1, <1>2, <1>9, <1>10, <1>11
  <2> QED BY <1>14, <2>1, <2>2, Zenon
<1>17. range.offset \in Nat /\ range.size \in Nat
  BY <1>2, <1>10, <1>11
<1> QED BY <1>1, <1>7, <1>8, <1>13, <1>15, <1>16, <1>17 DEF LayoutIsHonest

(* The device takes the row pitch and image height of a direct copy            *)
LEMMA DirectLayoutsFit ==
  ASSUME NEW r, Measured(r), NEW l, TypedPitch(l), LayoutCovers(r, l),
         \/ RegionFootprint(r).rows = 1 /\ r.extent.depth = 1
         \/ l.rowBytes % RowAlignment = 0
  PROVE  DeviceAccepts(r, DirectLayout(l, r))
<1>1. PICK m, h, d : m = DirectLayout(l, r) /\ h = High(r) /\ d = r.extent.depth
  OBVIOUS
<1>2. /\ m.rowBytes = (IF h > 1 \/ d > 1 THEN l.rowBytes ELSE 0)
      /\ m.imageRows = (IF d > 1 THEN l.imageRows ELSE 0)
      /\ h \in Nat \ {0} /\ d \in Nat \ {0} /\ RegionFootprint(r).rows = h
  BY <1>1 DEF DirectLayout, Measured
<1>3. l.rowBytes # 0 /\ (d > 1 => l.imageRows # 0)
  BY <1>1, <1>2 DEF LayoutCovers, TypedPitch
<1>4. 0 % RowAlignment = 0
  <2>1. RowAlignment \in Nat \ {0}
    BY TransferConstants
  <2> QED BY <2>1
<1>5. m.rowBytes % RowAlignment = 0
  <2>1. CASE h > 1 \/ d > 1
    BY <1>1, <1>2, <2>1
  <2>2. CASE ~(h > 1 \/ d > 1)
    BY <1>2, <1>4, <2>2
  <2> QED BY <2>1, <2>2
<1>6. (m.rowBytes = 0 => h = 1 /\ d = 1) /\ (m.imageRows = 0 => d = 1)
  BY <1>2, <1>3
<1> QED BY <1>1, <1>5, <1>6 DEF DeviceAccepts
-----------------------------------------------------------------------------
(* Where the bytes of admitted work come from and go to                       *)

InBuffer(q, b)  == \E i \in Nat : q = BufferByte(i) /\ i < b.size
(* The bytes of a copy between textures are counted by the blocks of its source *)
InLevel(q, r) ==
  \E at : /\ q = Cell(r, at) /\ at[1] \in 0 .. Wide(r) - 1
          /\ at[2] \in 0 .. High(r) - 1 /\ at[3] \in 0 .. r.extent.depth - 1

(* A place is what its first component says, and one on a device is inside its resource *)
PlaceIn(q, w, b) ==
  \/ InBuffer(q, b)
  \/ \E r \in WorkRegions(w) : InLevel(q, r)
  \/ q[1] \in {"host", "zero", "query"}

Stays(w, b) ==
  /\ \A p \in MovedBy(w) : PlaceIn(p[1], w, b) /\ PlaceIn(p[2], w, b)
  /\ {p[1] : p \in MovedBy(w)} \cap {p[2] : p \in MovedBy(w)} = {}

(* Moves between places of two kinds                                          *)
LEMMA KindsApart ==
  ASSUME NEW S, NEW x, NEW y, x # y, \A p \in S : p[1][1] = x /\ p[2][1] = y
  PROVE  {p[1] : p \in S} \cap {p[2] : p \in S} = {}
OBVIOUS

(* Work on the bytes of a buffer stays inside the range it names, and that in the buffer *)
LEMMA BufferWorkStays ==
  ASSUME NEW w, NEW ts, NEW b, TypedWork(w, ts, b), ValidWork(w), WorkRegions(w) = {}, b.size \in Nat
  PROVE  Stays(w, b)
<1>1. w.kind \in WorkKinds /\ (UsesBuffer(w) => w.buffer = b)
  BY DEF TypedWork
<1>2. ASSUME NEW range, range.offset \in Nat, range.size \in Nat, ValidRange(b, range), NEW i \in 0 .. range.size - 1
      PROVE  InBuffer(BufferByte(range.offset + i), b)
  <2>1. PICK n : n = range.offset + i
    OBVIOUS
  <2>2. n \in Nat /\ n < b.size
    BY <1>2, <2>1 DEF ValidRange
  <2> QED BY <2>1, <2>2 DEF InBuffer
<1>3. \A i : BufferByte(i)[1] = "buffer" /\ BufferByte(i)[2] = i
  BY DEF BufferByte
<1>4. CASE w.kind = "Initial"
  <2>1. w.target = "buffer" /\ w.buffer = b
    BY <1>1, <1>4 DEF WorkRegions, TypedWork, UsesBuffer
  <2>2. b.prepared = b.size
    BY <1>4, <2>1 DEF ValidWork, TypedWork, ValidBuffer
  <2>3. MovedBy(w) = {<<<<"host", i>>, BufferByte(i)>> : i \in 0 .. b.size - 1}
    BY <1>4, <2>1, <2>2 DEF MovedBy
  <2>4. \A i \in 0 .. b.size - 1 : InBuffer(BufferByte(i), b)
    BY DEF InBuffer
  <2>5. \A p \in MovedBy(w) : p[1][1] = "host" /\ p[2][1] = "buffer" /\ InBuffer(p[2], b)
    BY <1>3, <2>3, <2>4
  <2>6. {p[1] : p \in MovedBy(w)} \cap {p[2] : p \in MovedBy(w)} = {}
    BY <2>5, KindsApart
  <2> QED BY <2>5, <2>6 DEF Stays, PlaceIn
<1>5. CASE w.kind = "Upload"
  <2>1. w.target = "buffer" /\ w.buffer = b
    BY <1>1, <1>5 DEF WorkRegions, TypedWork, UsesBuffer
  <2>2. ValidRange(b, w.range) /\ w.payload = w.range.size
    BY <1>5, <2>1 DEF ValidWork, BufferAllows
  <2>3. w.range.offset \in Nat /\ w.range.size \in Nat
    BY <1>5, <2>1 DEF TypedWork, CopiedRanges
  <2>4. MovedBy(w) = {<<<<"host", i>>, BufferByte(w.range.offset + i)>> : i \in 0 .. w.range.size - 1}
    BY <1>5, <2>1, <2>2 DEF MovedBy
  <2>5. \A p \in MovedBy(w) : p[1][1] = "host" /\ p[2][1] = "buffer" /\ InBuffer(p[2], b)
    BY <1>2, <1>3, <2>2, <2>3, <2>4
  <2>6. {p[1] : p \in MovedBy(w)} \cap {p[2] : p \in MovedBy(w)} = {}
    BY <2>5, KindsApart
  <2> QED BY <2>5, <2>6 DEF Stays, PlaceIn
<1>6. CASE w.kind = "Readback"
  <2>1. w.target = "buffer" /\ w.buffer = b
    BY <1>1, <1>6 DEF WorkRegions, TypedWork, UsesBuffer
  <2>2. ValidRange(b, w.range)
    BY <1>6, <2>1 DEF ValidWork, BufferAllows
  <2>3. w.range.offset \in Nat /\ w.range.size \in Nat
    BY <1>6, <2>1 DEF TypedWork, CopiedRanges
  <2>4. MovedBy(w) = {<<BufferByte(w.range.offset + i), <<"host", i>>>> : i \in 0 .. w.range.size - 1}
    BY <1>6, <2>1 DEF MovedBy
  <2>5. \A p \in MovedBy(w) : p[1][1] = "buffer" /\ p[2][1] = "host" /\ InBuffer(p[1], b)
    BY <1>2, <1>3, <2>2, <2>3, <2>4
  <2>6. {p[1] : p \in MovedBy(w)} \cap {p[2] : p \in MovedBy(w)} = {}
    BY <2>5, KindsApart
  <2> QED BY <2>5, <2>6 DEF Stays, PlaceIn
<1>7. CASE w.kind = "Zero"
  <2>1. w.buffer = b
    BY <1>1, <1>7 DEF UsesBuffer
  <2>2. ValidRange(b, w.range)
    BY <1>7, <2>1 DEF ValidWork, BufferAllows
  <2>3. w.range.offset \in Nat /\ w.range.size \in Nat
    BY <1>7 DEF TypedWork, CopiedRanges
  <2>4. MovedBy(w) = {<<<<"zero">>, BufferByte(w.range.offset + i)>> : i \in 0 .. w.range.size - 1}
    BY <1>7 DEF MovedBy
  <2>5. \A p \in MovedBy(w) : p[1][1] = "zero" /\ p[2][1] = "buffer" /\ InBuffer(p[2], b)
    BY <1>2, <1>3, <2>2, <2>3, <2>4
  <2>6. {p[1] : p \in MovedBy(w)} \cap {p[2] : p \in MovedBy(w)} = {}
    BY <2>5, KindsApart
  <2> QED BY <2>5, <2>6 DEF Stays, PlaceIn
<1>8. CASE w.kind = "BufferToBuffer"
  <2>1. w.buffer = b
    BY <1>1, <1>8 DEF UsesBuffer
  <2>2. /\ ValidRange(b, w.range) /\ ValidRange(b, w.to) /\ w.range.size = w.to.size
        /\ w.range.offset + w.range.size <= w.to.offset \/ w.to.offset + w.to.size <= w.range.offset
    BY <1>8, <2>1 DEF ValidWork, BufferAllows
  <2>3. w.range.offset \in Nat /\ w.range.size \in Nat /\ w.to.offset \in Nat /\ w.to.size \in Nat
    BY <1>8 DEF TypedWork, CopiedRanges
  <2>4. PICK o, u, n : o = w.range.offset /\ u = w.to.offset /\ n = w.range.size
    OBVIOUS
  <2>5. MovedBy(w) = {<<BufferByte(o + i), BufferByte(u + i)>> : i \in 0 .. n - 1}
    BY <1>8, <2>4 DEF MovedBy
  <2>6. \A i \in 0 .. n - 1 : InBuffer(BufferByte(o + i), b) /\ InBuffer(BufferByte(u + i), b)
    BY <1>2, <2>2, <2>3, <2>4
  <2>7. ASSUME NEW p \in MovedBy(w), NEW q \in MovedBy(w) PROVE p[1] # q[2]
    <3>1. PICK i \in 0 .. n - 1 : p = <<BufferByte(o + i), BufferByte(u + i)>>
      BY <2>5
    <3>2. PICK j \in 0 .. n - 1 : q = <<BufferByte(o + j), BufferByte(u + j)>>
      BY <2>5
    <3>3. o + i # u + j
      BY <2>2, <2>3, <2>4
    <3>4. BufferByte(o + i) # BufferByte(u + j)
      BY <3>3 DEF BufferByte
    <3> QED BY <3>1, <3>2, <3>4
  <2>8. \A p \in MovedBy(w) : InBuffer(p[1], b) /\ InBuffer(p[2], b)
    BY <2>5, <2>6
  <2> QED BY <2>7, <2>8 DEF Stays, PlaceIn
<1>9. CASE w.kind = "Resolve"
  <2>1. w.buffer = b
    BY <1>1, <1>9 DEF UsesBuffer
  <2>2. w.offset + 8 * w.count <= b.size
    BY <1>9, <2>1 DEF ValidWork, BufferAllows, ValidRange
  <2>3. w.offset \in Nat /\ w.count \in Nat
    BY <1>9 DEF TypedWork
  <2>4. MovedBy(w) = {<<<<"query", w.first + q, k>>, BufferByte(w.offset + 8 * q + k)>> : q \in 0 .. w.count - 1, k \in 0 .. 7}
    BY <1>9 DEF MovedBy
  <2>5. ASSUME NEW p \in MovedBy(w) PROVE p[1][1] = "query" /\ p[2][1] = "buffer" /\ InBuffer(p[2], b)
    <3>1. PICK q \in 0 .. w.count - 1, k \in 0 .. 7 : p = <<<<"query", w.first + q, k>>, BufferByte(w.offset + 8 * q + k)>>
      BY <2>4
    <3>2. PICK n : n = w.offset + 8 * q + k
      OBVIOUS
    <3>3. n \in Nat /\ n < b.size
      BY <2>2, <2>3, <3>2
    <3> QED BY <1>3, <3>1, <3>2, <3>3 DEF InBuffer
  <2>6. {p[1] : p \in MovedBy(w)} \cap {p[2] : p \in MovedBy(w)} = {}
    BY <2>5, KindsApart
  <2> QED BY <2>5, <2>6 DEF Stays, PlaceIn
<1>10. w.kind \notin {"BufferToTexture", "TextureToBuffer", "TextureToTexture"}
  BY DEF WorkRegions
<1> QED BY <1>1, <1>4, <1>5, <1>6, <1>7, <1>8, <1>9, <1>10 DEF WorkKinds
(* Work between a texture and host or buffer bytes stays inside both          *)
LEMMA TextureWorkStays ==
  ASSUME NEW w, NEW ts, NEW b, TypedWork(w, ts, b), ValidWork(w), NEW r \in WorkRegions(w), w.kind # "TextureToTexture",
         b.size \in Nat
  PROVE  /\ Stays(w, b)
         /\ w.kind \in {"BufferToTexture", "TextureToBuffer"} =>
              \A touched : touched = {q[2] : q \in {s \in {p[1] : p \in MovedBy(w)} \cup {p[2] : p \in MovedBy(w)} :
                                                       s[1] = "buffer"}}
                          => LayoutIsHonest(w, touched)
<1>1. /\ Measured(r) /\ ValidRegion(r) /\ TypedRegion(r)
      /\ w.kind = "Initial" => r = InitialRegion(w) /\ PreparedFor(w.of.prepared, r) /\ w.target = "texture"
      /\ w.kind # "Initial" => r = w.region
      /\ w.kind \in {"Upload", "Readback"} => w.target = "texture"
      /\ w.kind \in {"BufferToTexture", "TextureToBuffer"} =>
            TypedPitch(w.layout) /\ LayoutCovers(w.region, w.layout)
      /\ w.kind \in {"Initial", "Upload", "Readback", "BufferToTexture", "TextureToBuffer"}
  BY WorkIsMeasured
<1>2. MovedBy(w) = Promised(w)
  BY MovesAsPromised
<1>3. ASSUME NEW at \in BlockPlaces(r)
      PROVE  InLevel(Cell(r, at), r) /\ Cell(r, at)[1] = "texture"
  <2>1. at[1] \in 0 .. Wide(r) - 1 /\ at[2] \in 0 .. High(r) - 1 /\ at[3] \in 0 .. r.extent.depth - 1
    BY <1>1, PlacesHaveLines
  <2>2. Cell(r, at)[1] = "texture"
    BY DEF Cell
  <2> QED BY <2>1, <2>2 DEF InLevel
<1>4. CASE w.kind \in {"Initial", "Upload", "Readback"}
  <2>1. CASE w.kind = "Initial"
    <3>1. PICK p : p = w.of.prepared
      OBVIOUS
    <3>2. MovedBy(w) = {<<<<"host", Meant(r, at, 0, p.rowBytes, p.rowBytes * p.imageRows)>>, Cell(r, at)>> : at \in BlockPlaces(r)}
      BY <1>1, <1>2, <2>1, <3>1 DEF Promised
    <3>3. \A q \in MovedBy(w) : q[1][1] = "host" /\ q[2][1] = "texture" /\ InLevel(q[2], r)
      BY <1>3, <3>2
    <3>4. {q[1] : q \in MovedBy(w)} \cap {q[2] : q \in MovedBy(w)} = {}
      BY <3>3, KindsApart
    <3> QED BY <1>4, <2>1, <3>3, <3>4 DEF Stays, PlaceIn
  <2>2. CASE w.kind = "Upload"
    <3>1. PICK n : n = Wide(r) * BlockBytes(r)
      OBVIOUS
    <3>2. MovedBy(w) = {<<<<"host", Meant(r, at, 0, n, n * High(r))>>, Cell(r, at)>> : at \in BlockPlaces(r)}
      BY <1>1, <1>2, <2>2, <3>1 DEF Promised
    <3>3. \A q \in MovedBy(w) : q[1][1] = "host" /\ q[2][1] = "texture" /\ InLevel(q[2], r)
      BY <1>3, <3>2
    <3>4. {q[1] : q \in MovedBy(w)} \cap {q[2] : q \in MovedBy(w)} = {}
      BY <3>3, KindsApart
    <3> QED BY <1>4, <2>2, <3>3, <3>4 DEF Stays, PlaceIn
  <2>3. CASE w.kind = "Readback"
    <3>1. PICK n : n = Wide(r) * BlockBytes(r)
      OBVIOUS
    <3>2. MovedBy(w) = {<<Cell(r, at), <<"host", Meant(r, at, 0, n, n * High(r))>>>> : at \in BlockPlaces(r)}
      BY <1>1, <1>2, <2>3, <3>1 DEF Promised
    <3>3. \A q \in MovedBy(w) : q[1][1] = "texture" /\ q[2][1] = "host" /\ InLevel(q[1], r)
      BY <1>3, <3>2
    <3>4. {q[1] : q \in MovedBy(w)} \cap {q[2] : q \in MovedBy(w)} = {}
      BY <3>3, KindsApart
    <3> QED BY <1>4, <2>3, <3>3, <3>4 DEF Stays, PlaceIn
  <2> QED BY <1>4, <2>1, <2>2, <2>3
<1>5. CASE w.kind \in {"BufferToTexture", "TextureToBuffer"}
  <2>1. PICK l, M : /\ l = w.layout
                    /\ M = [at \in BlockPlaces(r) |-> Meant(r, at, l.offset, l.rowBytes, l.rowBytes * l.imageRows)]
    OBVIOUS
  <2>2. PICK touched : touched = {M[at] : at \in BlockPlaces(r)}
    OBVIOUS
  <2>3. LayoutIsHonest(w, touched) /\ touched \subseteq Nat
        /\ LayoutRange(l, r).offset \in Nat /\ LayoutRange(l, r).size \in Nat
    <3>1. touched = {Meant(w.region, at, w.layout.offset, w.layout.rowBytes, w.layout.rowBytes * w.layout.imageRows) :
                      at \in BlockPlaces(w.region)}
      BY <1>1, <1>5, <2>1, <2>2
    <3>2. Measured(w.region) /\ TypedPitch(w.layout) /\ LayoutCovers(w.region, w.layout) /\ r = w.region
      BY <1>1, <1>5
    <3> QED BY <2>1, <3>1, <3>2, LayoutsAreHonest
  <2>4. \A t \in touched : t \in Nat /\ t < b.size
    <3>1. w.buffer = b
      BY <1>5 DEF TypedWork, UsesBuffer
    <3>2. ValidRange(b, LayoutRange(l, r))
      BY <1>1, <1>5, <2>1, <3>1 DEF ValidWork, ValidLayout, BufferAllows
    <3>3. PICK range : range = LayoutRange(l, r)
      OBVIOUS
    <3>4. \A t \in touched : t < range.offset + range.size
      BY <1>1, <1>5, <2>1, <2>3, <3>3 DEF LayoutIsHonest
    <3>5. range.offset + range.size <= b.size
      BY <3>2, <3>3 DEF ValidRange
    <3> QED BY <2>3, <3>3, <3>4, <3>5
  <2>5. \A at \in BlockPlaces(r) : InBuffer(BufferByte(M[at]), b)
    BY <2>2, <2>4 DEF InBuffer
  <2>6. \A i : BufferByte(i)[1] = "buffer" /\ BufferByte(i)[2] = i
    BY DEF BufferByte
  <2>7. CASE w.kind = "BufferToTexture"
    <3>1. MovedBy(w) = {<<BufferByte(M[at]), Cell(r, at)>> : at \in BlockPlaces(r)}
      BY <1>1, <1>2, <2>1, <2>7 DEF Promised
    <3>2. \A q \in MovedBy(w) : q[1][1] = "buffer" /\ q[2][1] = "texture" /\ InLevel(q[2], r) /\ InBuffer(q[1], b)
      BY <1>3, <2>5, <2>6, <3>1
    <3>3. {q[1] : q \in MovedBy(w)} \cap {q[2] : q \in MovedBy(w)} = {}
      BY <3>2, KindsApart
    <3>4. ASSUME NEW t
          PROVE  (t \in {q[2] : q \in {s \in {p[1] : p \in MovedBy(w)} \cup {p[2] : p \in MovedBy(w)} : s[1] = "buffer"}})
                   <=> t \in touched
      <4>1. ASSUME NEW p \in MovedBy(w), NEW s \in {p[1], p[2]}, s[1] = "buffer" PROVE s[2] \in touched
        <5>1. PICK at \in BlockPlaces(r) : p = <<BufferByte(M[at]), Cell(r, at)>>
          BY <3>1
        <5>2. s = BufferByte(M[at])
          BY <1>3, <4>1, <5>1
        <5> QED BY <2>2, <2>6, <5>2
      <4>2. ASSUME NEW at \in BlockPlaces(r)
            PROVE  \E p \in MovedBy(w) : p[1][1] = "buffer" /\ p[1][2] = M[at]
        <5>1. PICK p \in MovedBy(w) : p = <<BufferByte(M[at]), Cell(r, at)>>
          BY <3>1
        <5> QED BY <2>6, <5>1
      <4> QED BY <2>2, <4>1, <4>2
    <3> QED BY <1>5, <2>3, <3>2, <3>3, <3>4 DEF Stays, PlaceIn
  <2>8. CASE w.kind = "TextureToBuffer"
    <3>1. MovedBy(w) = {<<Cell(r, at), BufferByte(M[at])>> : at \in BlockPlaces(r)}
      BY <1>1, <1>2, <2>1, <2>8 DEF Promised
    <3>2. \A q \in MovedBy(w) : q[1][1] = "texture" /\ q[2][1] = "buffer" /\ InLevel(q[1], r) /\ InBuffer(q[2], b)
      BY <1>3, <2>5, <2>6, <3>1
    <3>3. {q[1] : q \in MovedBy(w)} \cap {q[2] : q \in MovedBy(w)} = {}
      BY <3>2, KindsApart
    <3>4. ASSUME NEW t
          PROVE  (t \in {q[2] : q \in {s \in {p[1] : p \in MovedBy(w)} \cup {p[2] : p \in MovedBy(w)} : s[1] = "buffer"}})
                   <=> t \in touched
      <4>1. ASSUME NEW p \in MovedBy(w), NEW s \in {p[1], p[2]}, s[1] = "buffer" PROVE s[2] \in touched
        <5>1. PICK at \in BlockPlaces(r) : p = <<Cell(r, at), BufferByte(M[at])>>
          BY <3>1
        <5>2. s = BufferByte(M[at])
          BY <1>3, <4>1, <5>1
        <5> QED BY <2>2, <2>6, <5>2
      <4>2. ASSUME NEW at \in BlockPlaces(r)
            PROVE  \E p \in MovedBy(w) : p[2][1] = "buffer" /\ p[2][2] = M[at]
        <5>1. PICK p \in MovedBy(w) : p = <<Cell(r, at), BufferByte(M[at])>>
          BY <3>1
        <5> QED BY <2>6, <5>1
      <4> QED BY <2>2, <4>1, <4>2
    <3> QED BY <1>5, <2>3, <3>2, <3>3, <3>4 DEF Stays, PlaceIn
  <2> QED BY <1>5, <2>7, <2>8
<1> QED BY <1>1, <1>4, <1>5

(* A copy between textures stays inside both levels and off its own source     *)
LEMMA TextureCopiesStay ==
  ASSUME NEW w, NEW ts, NEW b, TypedWork(w, ts, b), ValidWork(w), w.kind = "TextureToTexture"
  PROVE  Stays(w, b)
<1>1. PICK r, u : r = w.region /\ u = w.to
  OBVIOUS
<1>2. /\ WorkRegions(w) = {r, u} /\ ValidRegion(r) /\ ValidRegion(u) /\ ValidTextureCopy(r, u)
      /\ TypedRegion(r) /\ TypedRegion(u) /\ r.of = ts[r.texture] /\ u.of = ts[u.texture]
  BY <1>1 DEF TypedWork, WorkRegions, ValidWork
<1>3. Wide(r) = Wide(u) /\ High(r) = High(u) /\ r.extent.depth = u.extent.depth
  <2>1. CopyCompatible(r.of.format, u.of.format) /\ r.extent = u.extent
    BY <1>2 DEF ValidTextureCopy, Texture
  <2>2. r.of.format \in Format /\ u.of.format \in Format
    BY <1>2 DEF TypedRegion, TypedTexture
  <2>3. Width(r.of) = Width(u.of) /\ Height(r.of) = Height(u.of)
    BY <2>1, <2>2, CompatibleBlocks DEF Width, Height
  <2> QED BY <2>1, <2>3 DEF Wide, High, Texture
<1>4. MovedBy(w) = {<<Cell(r, at), Cell(u, at)>> : at \in BlockPlaces(r)}
  BY <1>1 DEF MovedBy
<1>5. ASSUME NEW at \in BlockPlaces(r)
      PROVE  /\ at[1] \in 0 .. Wide(r) - 1 /\ at[2] \in 0 .. High(r) - 1 /\ at[3] \in 0 .. r.extent.depth - 1
             /\ InLevel(Cell(r, at), r) /\ InLevel(Cell(u, at), u)
  <2>1. at[1] \in 0 .. Wide(r) - 1 /\ at[2] \in 0 .. High(r) - 1 /\ at[3] \in 0 .. r.extent.depth - 1
    BY DEF BlockPlaces
  <2> QED BY <1>3, <2>1, Zenon DEF InLevel
<1>6. \A p \in MovedBy(w) : InLevel(p[1], r) /\ InLevel(p[2], u)
  BY <1>4, <1>5
<1>7. ASSUME NEW p \in MovedBy(w), NEW q \in MovedBy(w), p[1] = q[2] PROVE FALSE
  <2>1. PICK at \in BlockPlaces(r) : p[1] = Cell(r, at)
    BY <1>4
  <2>2. PICK to \in BlockPlaces(r) : q[2] = Cell(u, to)
    BY <1>4
  <2>3. /\ Cell(r, at)[2] = r.texture /\ Cell(r, at)[3] = r.mip /\ Cell(r, at)[6] = r.origin.z + at[3]
        /\ Cell(u, to)[2] = u.texture /\ Cell(u, to)[3] = u.mip /\ Cell(u, to)[6] = u.origin.z + to[3]
    BY DEF Cell
  <2>4. r.texture = u.texture /\ r.mip = u.mip /\ r.origin.z + at[3] = u.origin.z + to[3]
    BY <1>7, <2>1, <2>2, <2>3
  <2>5. RegionLayers(r) \cap RegionLayers(u) = {}
    BY <1>2, <2>4 DEF ValidTextureCopy
  <2>6. r.of = u.of
    BY <1>2, <2>4
  <2>7. at[3] \in 0 .. r.extent.depth - 1 /\ to[3] \in 0 .. u.extent.depth - 1
        /\ r.origin.z \in Nat /\ u.origin.z \in Nat /\ r.extent.depth \in Nat /\ u.extent.depth \in Nat
    BY <1>2, <1>3, <1>5 DEF TypedRegion, TypedProbe, TypedExtent
  <2>8. CASE r.of.dimension = "D2"
    <3>1. /\ RegionLayers(r) = r.origin.z .. r.origin.z + r.extent.depth - 1
          /\ RegionLayers(u) = u.origin.z .. u.origin.z + u.extent.depth - 1
      BY <2>6, <2>8 DEF RegionLayers, Texture
    <3>2. r.origin.z + at[3] \in RegionLayers(r) /\ r.origin.z + at[3] \in RegionLayers(u)
      <4>1. PICK x, y, i, j, d, e : /\ x = r.origin.z /\ y = u.origin.z /\ i = at[3] /\ j = to[3]
                                   /\ d = r.extent.depth /\ e = u.extent.depth
        OBVIOUS
      <4>2. x + i \in x .. x + d - 1 /\ x + i \in y .. y + e - 1
        BY <2>4, <2>7, <4>1
      <4> QED BY <3>1, <4>1, <4>2
    <3> QED BY <2>5, <3>2
  <2>9. CASE r.of.dimension # "D2"
    BY <2>5, <2>6, <2>9 DEF RegionLayers, Texture
  <2> QED BY <2>8, <2>9
<1> QED BY <1>2, <1>6, <1>7 DEF Stays, PlaceIn
(* The native usages a buffer transfer needs follow from the declared ones    *)
LEMMA UsagesSuffice ==
  ASSUME NEW w, NEW ts, NEW b, TypedWork(w, ts, b), ValidWork(w), UsesBuffer(w)
  PROVE  Needed(w).buffer \cup Needed(w).write \subseteq NativeBufferUsages(b)
<1>1. w.kind \in WorkKinds /\ w.buffer = b
  BY DEF TypedWork
<1>2. /\ "CopySource" \in b.usages => "COPY_SRC" \in NativeBufferUsages(b)
      /\ "CopyDestination" \in b.usages => "COPY_DST" \in NativeBufferUsages(b)
      /\ "QueryResolve" \in b.usages => "QUERY_RESOLVE" \in NativeBufferUsages(b)
  <2>1. /\ NativeBufferUsage("CopySource") = "COPY_SRC" /\ NativeBufferUsage("CopyDestination") = "COPY_DST"
        /\ NativeBufferUsage("QueryResolve") = "QUERY_RESOLVE"
    BY DEF NativeBufferUsage
  <2>2. \A u \in b.usages : NativeBufferUsage(u) \in NativeBufferUsages(b)
    BY DEF NativeBufferUsages
  <2> QED BY <2>1, <2>2, Zenon
<1>3. /\ Needed(w).buffer = (IF w.kind \in {"BufferToTexture", "Readback", "BufferToBuffer"} THEN {"COPY_SRC"} ELSE {})
      /\ Needed(w).write = (IF w.kind \in {"Initial", "Upload", "Zero", "BufferToBuffer", "TextureToBuffer"} THEN {"COPY_DST"}
                            ELSE IF w.kind = "Resolve" THEN {"QUERY_RESOLVE"} ELSE {})
  BY DEF Needed
<1>4. w.kind # "TextureToTexture" /\ (w.kind \in {"Initial", "Upload", "Readback"} => w.target = "buffer")
  BY DEF UsesBuffer
<1>5. CASE w.kind = "Initial"
  <2>1. "CopyDestination" \in b.usages
    BY <1>1, <1>4, <1>5 DEF ValidWork, TypedWork, ValidBuffer, ValidBufferMemory
  <2> QED BY <1>2, <1>3, <1>5, <2>1
<1>6. CASE w.kind \in {"Upload", "Zero", "TextureToBuffer"}
  <2>1. "CopyDestination" \in b.usages
    BY <1>1, <1>4, <1>6 DEF ValidWork, BufferAllows, ValidLayout
  <2> QED BY <1>2, <1>3, <1>6, <2>1
<1>7. CASE w.kind \in {"Readback", "BufferToTexture"}
  <2>1. "CopySource" \in b.usages
    BY <1>1, <1>4, <1>7 DEF ValidWork, BufferAllows, ValidLayout
  <2> QED BY <1>2, <1>3, <1>7, <2>1
<1>8. CASE w.kind = "BufferToBuffer"
  <2>1. "CopySource" \in b.usages /\ "CopyDestination" \in b.usages
    BY <1>1, <1>8 DEF ValidWork, BufferAllows
  <2> QED BY <1>2, <1>3, <1>8, <2>1
<1>9. CASE w.kind = "Resolve"
  <2>1. "QueryResolve" \in b.usages
    BY <1>1, <1>9 DEF ValidWork, BufferAllows
  <2> QED BY <1>2, <1>3, <1>9, <2>1
<1> QED BY <1>1, <1>4, <1>5, <1>6, <1>7, <1>8, <1>9 DEF WorkKinds

(* No admitted transfer fails what prepare_execution_plan takes for granted   *)
(* of it, has a layout the device refuses (buffer_layout,                      *)
(* wgpu_buffer_texture_copy_layout) or needs a usage its buffer lacks, and the  *)
(* bytes it touches lie inside the buffer, the staging buffer and the mip       *)
(* level; a direct copy touches just the bytes its tracked coverage claims,     *)
(* up to the end of its declared range.                                        *)
THEOREM TransfersStayInside == TransferSpec => []AdmittedTransfersStayInside
<1>1. TransferInv => AdmittedTransfersStayInside
  <2>1. ASSUME TransferInv, stage = "done",
               NEW places, places = {p[1] : p \in moved} \cup {p[2] : p \in moved},
               NEW touched, touched = {p[2] : p \in {q \in places : q[1] = "buffer"}}
        PROVE  /\ \A i \in touched : i < buffer.size
               /\ {p[1] : p \in moved} \cap {p[2] : p \in moved} = {}
               /\ UsesBuffer(work) =>
                     Needed(work).buffer \cup Needed(work).write \subseteq NativeBufferUsages(buffer)
               /\ work.kind \in {"BufferToTexture", "TextureToBuffer"} =>
                     /\ DeviceAccepts(work.region, DirectLayout(work.layout, work.region))
                     /\ LayoutIsHonest(work, touched)
               /\ work.kind \in {"Initial", "Upload", "Readback"} =>
                     \A region \in WorkRegions(work) : StagingFits(region, Staging(region))
               /\ \A p \in places : p[1] = "texture" =>
                     LET d == textures[p[2]] level == MipExtent(d, p[3])
                     IN  /\ p[4] < BlockCount(level.width, Width(d))
                         /\ p[5] < BlockCount(level.height, Height(d))
                         /\ p[6] < level.depth
    <3>1. TypedWork(work, textures, buffer) /\ ValidWork(work) /\ Encodable(work) /\ moved = MovedBy(work)
          /\ buffer.size \in Nat
      <4>1. AtHand(textures, buffer)
        BY <2>1 DEF TransferInv
      <4>2. buffer.size \in Nat
        BY <4>1, TransferConstants, Zenon DEF AtHand
      <4> QED BY <2>1, <4>2 DEF TransferInv
    <3>2. Stays(work, buffer)
      <4>1. CASE work.kind = "TextureToTexture"
        BY <3>1, <4>1, TextureCopiesStay
      <4>2. CASE work.kind # "TextureToTexture" /\ WorkRegions(work) = {}
        BY <3>1, <4>2, BufferWorkStays
      <4>3. CASE work.kind # "TextureToTexture" /\ WorkRegions(work) # {}
        <5>1. PICK r : r \in WorkRegions(work)
          BY <4>3
        <5> QED BY <3>1, <4>3, <5>1, TextureWorkStays
      <4> QED BY <4>1, <4>2, <4>3
    <3>3. \A q \in places : PlaceIn(q, work, buffer)
      BY <2>1, <3>1, <3>2 DEF Stays
    <3>4. ASSUME NEW q \in places, q[1] = "buffer" PROVE q[2] < buffer.size
      <4>1. \A r \in WorkRegions(work) : ~InLevel(q, r)
        BY <3>4 DEF InLevel, Cell
      <4>2. InBuffer(q, buffer)
        BY <3>3, <3>4, <4>1 DEF PlaceIn
      <4> QED BY <4>2 DEF InBuffer, BufferByte
    <3>5. ASSUME NEW p \in places, p[1] = "texture",
                 NEW d, d = textures[p[2]], NEW level, level = MipExtent(d, p[3])
          PROVE  /\ p[4] < BlockCount(level.width, Width(d)) /\ p[5] < BlockCount(level.height, Height(d))
                 /\ p[6] < level.depth
      <4>1. ~InBuffer(p, buffer)
        BY <3>5 DEF InBuffer, BufferByte
      <4>2. PICK r \in WorkRegions(work) : InLevel(p, r)
        BY <3>3, <3>5, <4>1 DEF PlaceIn
      <4>3. PICK at : /\ p = Cell(r, at) /\ at[1] \in 0 .. Wide(r) - 1
                      /\ at[2] \in 0 .. High(r) - 1 /\ at[3] \in 0 .. r.extent.depth - 1
        BY <4>2 DEF InLevel
      <4>4. TypedRegion(r) /\ r.of = textures[r.texture]
        BY <3>1 DEF TypedWork
      <4>5. ValidRegion(r)
        <5>1. CASE work.kind = "TextureToTexture"
          BY <3>1, <5>1 DEF WorkRegions, ValidWork
        <5>2. CASE work.kind # "TextureToTexture"
          BY <3>1, <5>2, WorkIsMeasured
        <5> QED BY <5>1, <5>2
      <4>6. /\ p[2] = r.texture /\ p[3] = r.mip
            /\ p[4] < BlockCount(MipExtent(r.of, r.mip).width, Width(r.of))
            /\ p[5] < BlockCount(MipExtent(r.of, r.mip).height, Height(r.of))
            /\ p[6] < MipExtent(r.of, r.mip).depth
        BY <4>3, <4>4, <4>5, CellsStayInside
      <4> QED BY <3>5, <4>4, <4>6, Zenon
    <3>6. ASSUME work.kind \in {"BufferToTexture", "TextureToBuffer"}
          PROVE  /\ DeviceAccepts(work.region, DirectLayout(work.layout, work.region))
                 /\ LayoutIsHonest(work, touched)
      <4>1. work.region \in WorkRegions(work) /\ work.kind # "TextureToTexture"
        BY <3>6 DEF WorkRegions
      <4>2. LayoutIsHonest(work, touched)
        BY <2>1, <3>1, <3>6, <4>1, TextureWorkStays
      <4>3. Measured(work.region) /\ TypedPitch(work.layout) /\ LayoutCovers(work.region, work.layout)
        BY <3>1, <3>6, <4>1, WorkIsMeasured
      <4>4. \/ RegionFootprint(work.region).rows = 1 /\ work.region.extent.depth = 1
            \/ work.layout.rowBytes % RowAlignment = 0
        BY <3>1, <3>6 DEF Encodable
      <4> QED BY <4>2, <4>3, <4>4, DirectLayoutsFit
    <3>7. ASSUME work.kind \in {"Initial", "Upload", "Readback"}, NEW region \in WorkRegions(work)
          PROVE  StagingFits(region, Staging(region))
      <4>1. Measured(region)
        BY <3>1, <3>7, WorkIsMeasured
      <4> QED BY <4>1, StagingsFit
    <3>8. UsesBuffer(work) => Needed(work).buffer \cup Needed(work).write \subseteq NativeBufferUsages(buffer)
      BY <3>1, UsagesSuffice
    <3>9. {p[1] : p \in moved} \cap {p[2] : p \in moved} = {}
      BY <3>1, <3>2 DEF Stays
    <3>10. \A i \in touched : i < buffer.size
      BY <2>1, <3>4
    <3> QED BY <3>5, <3>6, <3>7, <3>8, <3>9, <3>10
  <2>2. ASSUME TransferInv PROVE stage # "broken"
    BY <2>2 DEF TransferInv
  <2> QED BY <2>1, <2>2 DEF AdmittedTransfersStayInside
<1> QED BY <1>1, TransfersKeepInv, PTL
==============================================================================
