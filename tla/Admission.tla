------------------------------ MODULE Admission ------------------------------
(***************************************************************************)
(* How a context is requested (api/context/, api/capability.rs,              *)
(* backend/wgpu/adapter_mapping.rs, device_request.rs).                      *)
(*                                                                          *)
(* Independently authored descriptors are merged into one request.  Adapters  *)
(* are enumerated tier by tier, mapped to normalized facts, admitted, ranked  *)
(* and one is asked for a device.  A strict request that finds a tie           *)
(* discloses tokens, one of which a retry may name.                          *)
(*                                                                          *)
(* Of the twenty limits "Plain" stands for those with a fixed baseline, of    *)
(* the five alignments "DynamicOffset" for those the adapter decides and      *)
(* "CopyOffset" for those the backend fixes.                                 *)
(***************************************************************************)
EXTENDS Integers, FiniteSetsExt, SequencesExt

CONSTANTS
  Demand,          \* descriptors callers author
  Machine,         \* hosts: [adapters, operator, window]: the native adapters, told
                   \*   apart by their slot, the backends WGPU_BACKEND names, {} when
                   \*   unset, and whether a window's surface must be compatible
  PlainBaseline, ArrayBaseline, SamplerBaseline, MultiviewBaseline,
  CopyOffset,      \* the alignment the backend fixes for copies
  RetryCapacity,   \* MAX_RETAINED_CANDIDATE_RETRY_TOKENS
  MaxRequests, MaxDemands

LimitKind     == {"Plain", "ArrayElements", "SamplerElements", "MultiviewViews"}
AlignmentKind == {"DynamicOffset", "CopyOffset"}
Unlimited     == 999
NoToken       == 0
AdapterClass  == {"Discrete", "Integrated", "Virtual", "Cpu", "Other", "UnknownClass"}
Strength      == {"Required", "Disabled", "DisableInstrumentation", "ContinueWithoutFeature",
                  "SelectAlternativeWork"}

(* What the builders of a descriptor can make.                                 *)
IsDescriptor(d) ==
  /\ DOMAIN d = {"power", "strict", "fallback", "backends", "preference", "classes", "portable",
                 "exact", "needs", "limits", "roles", "alignments"}
  /\ d.strict \in BOOLEAN /\ d.exact \in Nat /\ d.preference \in Seq(STRING)
  /\ d.needs \in [DOMAIN d.needs -> Strength] /\ IsFiniteSet(DOMAIN d.needs)
  /\ DOMAIN d.limits \subseteq LimitKind
  /\ d.limits \in [DOMAIN d.limits -> [minimum : Nat, maximum : Nat]]
  /\ DOMAIN d.alignments \subseteq AlignmentKind /\ d.alignments \in [DOMAIN d.alignments -> Nat]

ASSUME DemandAssumption == \A d \in Demand : IsDescriptor(d)

(* A host has finitely many adapters; what they report is a number.            *)
ASSUME MachineAssumption ==
  \A machine \in Machine :
    /\ IsFiniteSet(machine.adapters)
    /\ \A a \in machine.adapters :
         a.limits \in [LimitKind -> Nat] /\ a.alignment \in Nat /\ a.class \in AdapterClass

ASSUME BaselineAssumption ==
  {PlainBaseline, ArrayBaseline, SamplerBaseline, MultiviewBaseline, CopyOffset,
   RetryCapacity} \subseteq Nat

VARIABLES
  demands,         \* the descriptors merged so far, each with the token it carries
  request,         \* their merge
  tokens,          \* the last candidate token allocated
  retries,         \* token -> the binding the process retains for it
  outcome,         \* what the last context request came to
  requested        \* number of requests made

admissionVars == <<demands, request, tokens, retries, outcome, requested>>

(***************************************************************************)
(* Features, formats and what they ask of the native device.                 *)
(***************************************************************************)
(* wgpu_features_for; a feature not listed needs none.                        *)
NativeOf(f) ==
  CASE f \in {"TimestampQuery", "IndirectFirstInstance", "TextureBindingArray", "BufferBindingArray",
              "StorageResourceBindingArray", "UniformBufferBindingArray", "ShaderF16", "ClipDistances",
              "PrimitiveIndex", "DualSourceBlending", "Multiview", "MultisampleArray",
              "DepthClipControl"} -> {f}
    [] f \in {"TextureBindingArrayNonUniformIndexing", "StorageBufferBindingArrayNonUniformIndexing"}
         -> {"SampledNonUniformIndexing"}
    [] f = "StorageTextureBindingArrayNonUniformIndexing" -> {"StorageTextureNonUniformIndexing"}
    [] OTHER -> {}

(* is_declared_extension                                                      *)
DeclaredExtension ==
  {"TimestampQuery", "StorageTexture", "IndirectExecution", "IndirectFirstInstance",
   "TextureBindingArray", "BufferBindingArray", "StorageResourceBindingArray",
   "UniformBufferBindingArray", "TextureBindingArrayNonUniformIndexing",
   "StorageBufferBindingArrayNonUniformIndexing", "StorageTextureBindingArrayNonUniformIndexing",
   "DualSourceBlending", "MultisampleArray", "Multiview", "ClipDistances", "PrimitiveIndex"}

(* preferred_degradation_is_valid                                             *)
DegradesTo(f) ==
  CASE f = "TimestampQuery" -> "DisableInstrumentation"
    [] f = "Presentation"   -> "ContinueWithoutFeature"
    [] OTHER                -> "SelectAlternativeWork"

(* normalized_features and the additions of adapter_facts: what the adapter can   *)
(* be trusted to support.                                                     *)
Baseline(a)     == a.compliant /\ ~ a.unknownFlags
MultiviewOf(a)  == IF "Multiview" \in a.features /\ a.limits["MultiviewViews"] >= 2
                   THEN Min({a.limits["MultiviewViews"], 31}) ELSE 0

RolesOf(a) ==
  {r \in a.roles :
     /\ r[1] \in {"Bc", "Etc2", "Astc"} =>
          /\ r[1] \in a.features
          /\ r[2] \notin {"StorageRead", "StorageWrite", "ColorAttachment", "Blendable", "DepthStencil"}
     /\ r[1] = "Depth32FloatStencil8" => r[1] \in a.features
     /\ r[1] = "Rg11b10Ufloat" /\ r[2] \in {"ColorAttachment", "Blendable"} => r[1] \in a.features}

NormalizedFeatures(a, presents) ==
  (IF Baseline(a) THEN {"RenderPipeline", "Copy"} ELSE {})
  \cup (IF a.unknownFlags THEN {} ELSE
          (a.flags \cap {"Compute", "DepthBiasClamp"})
          \cup {f \in {"IndirectExecution"} : {"Compute", "IndirectExecution"} \subseteq a.flags})
  \cup (a.features \cap {"IndirectFirstInstance", "DepthClipControl", "DualSourceBlending",
                         "TextureBindingArray", "BufferBindingArray", "StorageResourceBindingArray",
                         "ClipDistances", "PrimitiveIndex", "ShaderF16"})
  \cup {f \in {"TimestampQuery"} : a.backend # "Metal" /\ f \in a.features}
  \cup {f \in {"MultisampleArray"} : a.backend # "BrowserWebGpu" /\ f \in a.features}
  \cup {f \in {"TextureBindingArrayNonUniformIndexing"} :
          {"TextureBindingArray", "SampledNonUniformIndexing"} \subseteq a.features}
  \cup {f \in {"StorageBufferBindingArrayNonUniformIndexing"} :
          {"BufferBindingArray", "StorageResourceBindingArray", "SampledNonUniformIndexing"}
            \subseteq a.features}
  \cup {f \in {"StorageTextureBindingArrayNonUniformIndexing"} :
          {"TextureBindingArray", "StorageResourceBindingArray", "StorageTextureNonUniformIndexing"}
            \subseteq a.features}
  \cup {f \in {"StorageTexture"} :
          a.compliant /\ \E r \in RolesOf(a) : r[2] \in {"StorageRead", "StorageWrite"}}
  \cup {f \in {"DepthAttachment"} : a.compliant /\ <<"Depth32Float", "DepthStencil">> \in a.roles}
  \cup {f \in {"Multiview"} : MultiviewOf(a) >= 2}
  \cup {f \in {"Presentation"} : presents}

(* select_device_request_profile                                             *)
ProfileOf(a) ==
  CASE a.backend = "BrowserWebGpu"                -> "BrowserWebGpu"
    [] a.backend = "OpenGl" /\ ~ a.compliant       -> "DownlevelWebGl2"
    [] a.backend # "BrowserWebGpu" /\ a.compliant  -> "ModernPortable"
    [] OTHER                                       -> "Downlevel"

(* adapter_facts: all that admission and identity see of a native adapter.      *)
FactsOf(a, window, fallback) ==
  [backend |-> a.backend, class |-> a.class, vendor |-> a.vendor, fallback |-> fallback,
   software |-> a.class = "Cpu", features |-> NormalizedFeatures(a, window /\ a.presents),
   limits |-> [a.limits EXCEPT !["MultiviewViews"] = MultiviewOf(a)], roles |-> RolesOf(a),
   alignments |-> [k \in AlignmentKind |-> IF k = "CopyOffset" THEN CopyOffset ELSE a.alignment],
   profile |-> ProfileOf(a), profileSupported |-> a.profileSupported,
   hostRequired |-> window, hostCompatible |-> window /\ a.presents]

(***************************************************************************)
(* Descriptors.  needs maps a feature to "Required", "Disabled" or the        *)
(* fallback it is preferred with.                                            *)
(***************************************************************************)
Agree(left, right, none) == left = none \/ right = none \/ left = right
Either(left, right, none) == IF left = none THEN right ELSE left

(* merge_requirement                                                          *)
MergedNeed(left, right) ==
  CASE left = right -> left
    [] left # right /\ "Required" \in {left, right} /\ "Disabled" \notin {left, right} -> "Required"
    [] OTHER -> "Conflict"

At(function, key, default) == IF key \in DOMAIN function THEN function[key] ELSE default

InBoth(left, right) == DOMAIN left \cap DOMAIN right

Narrowed(left, right) ==
  IF left = {} THEN right ELSE IF right = {} THEN left ELSE left \cap right

(* A fault: the minimum required last stands.                                  *)
TighterLimitLast(left, right) ==
  [minimum |-> right.minimum, maximum |-> Min({left.maximum, right.maximum})]

(* require_limit and permit_limit; 0 is no minimum.                            *)
TighterLimit(left, right) ==
  [minimum |-> Max({left.minimum, right.minimum}), maximum |-> Min({left.maximum, right.maximum})]

(* require_alignment: the smaller of two.                                      *)
FinerAlignment(left, right) == Min({left, right})

(* What both ask for is combined, what one asks for is kept.                   *)
Combined(left, right, combine(_, _)) ==
  [x \in DOMAIN left \cup DOMAIN right |->
     IF x \in InBoth(left, right) THEN combine(left[x], right[x])
     ELSE IF x \in DOMAIN left THEN left[x] ELSE right[x]]

Merge(left, right) ==
  [power      |-> Either(left.power, right.power, "NoPreference"),
   strict     |-> left.strict \/ right.strict,
   fallback   |-> Either(left.fallback, right.fallback, "Allow"),
   backends   |-> Narrowed(left.backends, right.backends),
   preference |-> Either(left.preference, right.preference, <<>>),
   classes    |-> Narrowed(left.classes, right.classes),
   portable   |-> left.portable \/ right.portable,
   exact      |-> Either(left.exact, right.exact, NoToken),
   needs      |-> Combined(left.needs, right.needs, MergedNeed),
   limits     |-> Combined(left.limits, right.limits, TighterLimit),
   roles      |-> left.roles \cup right.roles,
   alignments |-> Combined(left.alignments, right.alignments, FinerAlignment)]

(* validate_descriptor_semantics                                              *)
WellFormed(d) ==
  /\ \A f \in DOMAIN d.needs : d.needs[f] \in {"Required", "Disabled", DegradesTo(f)}
  /\ \A k \in DOMAIN d.limits : d.limits[k].maximum # 0 /\ d.limits[k].minimum <= d.limits[k].maximum
  /\ \A k \in DOMAIN d.alignments : d.alignments[k] # 0
  /\ d.backends # {} => ToSet(d.preference) \subseteq d.backends

Mergeable(left, right) ==
  /\ Agree(left.power, right.power, "NoPreference")
  /\ Agree(left.fallback, right.fallback, "Allow")
  /\ Agree(left.preference, right.preference, <<>>)
  /\ Agree(left.exact, right.exact, NoToken)
  /\ left.backends # {} /\ right.backends # {} => left.backends \cap right.backends # {}
  /\ left.classes # {} /\ right.classes # {} => left.classes \cap right.classes # {}
  /\ WellFormed(Merge(left, right))

(* retry_identity: the request without its token.                              *)
RetryIdentity(d) == [d EXCEPT !.exact = NoToken]

(***************************************************************************)
(* Admission of one adapter.                                                 *)
(***************************************************************************)
Needing(d, strengths) == {f \in DOMAIN d.needs : d.needs[f] \in strengths}
Preferred(d) == {f \in DOMAIN d.needs : d.needs[f] \notin {"Required", "Disabled"}}

(* requested_enabled_features                                                 *)
Enabled(d, facts) == (Needing(d, {"Required"}) \cup Preferred(d)) \cap facts.features

(* GpuCapabilityAdmission::evaluate                                           *)
CapabilitiesGranted(d, facts) ==
  /\ Needing(d, {"Required"}) \subseteq Enabled(d, facts)
  /\ Needing(d, {"Disabled"}) \cap Enabled(d, facts) = {}

Degraded(d, facts) == Preferred(d) \ Enabled(d, facts)

(* effective_workload_budget: a permitted maximum lowers even the baseline.     *)
BaselineOf(kind, enabled) ==
  CASE kind = "Plain"           -> PlainBaseline
    [] kind = "ArrayElements"   -> IF enabled \cap {"TextureBindingArray", "BufferBindingArray"} # {}
                                   THEN ArrayBaseline ELSE 0
    [] kind = "SamplerElements" -> IF "TextureBindingArray" \in enabled THEN SamplerBaseline ELSE 0
    [] kind = "MultiviewViews"  -> IF "Multiview" \in enabled THEN MultiviewBaseline ELSE 0

Budget(d, enabled) ==
  [k \in LimitKind |->
     LET limit == At(d.limits, k, [minimum |-> 0, maximum |-> Unlimited])
     IN Min({Max({limit.minimum, BaselineOf(k, enabled)}), limit.maximum})]

(* is_declared_format_role_extension, derive_portability                        *)
DeclaredRole(r) ==
  \/ r[1] = "Depth32FloatStencil8"
  \/ r = <<"Rg11b10Ufloat", "ColorAttachment">>
  \/ r[1] = "Float32" /\ r[2] \in {"Filterable", "Blendable"}
  \/ r[1] = "Bgra8Unorm" /\ r[2] \in {"StorageRead", "StorageWrite"}

Portability(d, facts) ==
  CASE facts.backend = "Unknown" -> "Unsupported"
    [] facts.backend # "Unknown" /\ Cardinality(d.backends) = 1 -> "BackendSpecialized"
    [] facts.backend # "Unknown" /\ Cardinality(d.backends) # 1
         /\ (Enabled(d, facts) \cap DeclaredExtension # {} \/ \E r \in d.roles : DeclaredRole(r))
         -> "DeclaredExtensions"
    [] OTHER -> "PortableBaseline"

(* evaluate_validated_candidate                                               *)
Admits(d, facts) ==
  /\ facts.hostRequired => facts.hostCompatible
  /\ d.backends # {} => facts.backend \in d.backends
  /\ d.classes # {} => facts.class \in d.classes
  /\ d.fallback = "Require" => facts.fallback = "Confirmed"
  /\ d.fallback = "Forbid" => facts.fallback \notin {"Confirmed", "Unknown"} /\ ~ facts.software
  /\ facts.profileSupported
  /\ CapabilitiesGranted(d, facts)
  /\ \A r \in d.roles : r \in facts.roles
                        /\ (r[2] = "Blendable" => <<r[1], "ColorAttachment">> \in facts.roles)
  /\ \A k \in DOMAIN d.alignments : facts.alignments[k] <= d.alignments[k]
  /\ \A k \in LimitKind : facts.limits[k] >= Budget(d, Enabled(d, facts))[k]
  /\ Portability(d, facts) # "Unsupported"
  /\ d.portable => Portability(d, facts) = "PortableBaseline"

(***************************************************************************)
(* Selection.                                                                *)
(***************************************************************************)
IndexIn(sequence, x) == CHOOSE i \in DOMAIN sequence : sequence[i] = x

(* candidate_rank                                                             *)
Rank(d, facts) ==
  <<IndexIn(<<"ConfirmedNot", "Unknown", "Confirmed">>, facts.fallback),
    IF \/ d.power = "HighPerformance" /\ facts.class = "Discrete"
       \/ d.power = "LowPower" /\ facts.class = "Integrated" THEN 0
    ELSE CASE facts.class = "Discrete" -> 1 [] facts.class = "Integrated" -> 2 [] OTHER -> 3,
    Cardinality(Degraded(d, facts)),
    IndexIn(<<"PortableBaseline", "DeclaredExtensions", "BackendSpecialized", "Unsupported">>,
            Portability(d, facts)),
    IndexIn(<<"Discrete", "Integrated", "Virtual", "Cpu", "Other", "UnknownClass">>, facts.class),
    IF facts.backend \in ToSet(d.preference) THEN IndexIn(d.preference, facts.backend) ELSE 255>>

Ahead(left, right) ==
  \E i \in DOMAIN left : left[i] < right[i] /\ \A j \in 1 .. i - 1 : left[j] = right[j]

(* canonical_candidate_set: the keys seen, with their multiplicity.             *)
CandidateSet(seen) ==
  [key \in {seen[t] : t \in DOMAIN seen} |-> Cardinality({t \in DOMAIN seen : seen[t] = key})]

Chosen(facts)     == [status |-> "selected", facts |-> facts, retries |-> retries]
Refused(category) == [status |-> category, facts |-> <<>>, retries |-> retries]

(* retain_candidate_retry_bindings: the newest tokens stay.                     *)
NewestTokens(bindings) ==
  [t \in {u \in DOMAIN bindings :
            Cardinality({v \in DOMAIN bindings : v > u}) < RetryCapacity} |-> bindings[t]]

Disclosed(d, seen, admitted) ==
  NewestTokens([t \in admitted \cup DOMAIN retries |->
                  IF t \in admitted
                  THEN [request |-> RetryIdentity(d), candidates |-> CandidateSet(seen), target |-> seen[t]]
                  ELSE retries[t]])

(* A fault: a token is good for any request over the same adapters.             *)
RetryBoundLoosely(d, seen) ==
  d.exact \in DOMAIN retries /\ retries[d.exact].candidates = CandidateSet(seen)

RetryBound(d, seen) ==
  /\ d.exact \in DOMAIN retries
  /\ retries[d.exact].request = RetryIdentity(d)
  /\ retries[d.exact].candidates = CandidateSet(seen)

(* select_candidate_inputs: seen maps the token of each candidate to its facts.  *)
(* Among equals with different facts a fixed order of facts decides.            *)
Select(d, seen) ==
  LET admitted == {t \in DOMAIN seen : Admits(d, seen[t])}
      best     == {t \in admitted : ~ \E u \in admitted : Ahead(Rank(d, seen[u]), Rank(d, seen[t]))}
      matching == {t \in admitted : seen[t] = retries[d.exact].target}
  IN CASE d.exact # NoToken /\ ~ RetryBound(d, seen) -> Refused("StaleToken")
       [] d.exact # NoToken /\ RetryBound(d, seen) ->
            IF matching = {} THEN Refused("StaleToken")
            ELSE IF Cardinality(matching) > 1 THEN Refused("Ambiguous")
            ELSE Chosen(retries[d.exact].target)
       [] d.exact = NoToken ->
            IF DOMAIN seen = {} THEN Refused("NoAdapter")
            ELSE IF admitted = {} THEN Refused("NoAdmissible")
            ELSE IF Cardinality(best) > 1 /\ d.strict
            THEN IF Cardinality(admitted) > RetryCapacity THEN Refused("TokensExhausted")
                 ELSE [Refused("Ambiguous") EXCEPT !.retries = Disclosed(d, seen, admitted)]
            ELSE Chosen(CHOOSE f \in {seen[t] : t \in best} : TRUE)

(***************************************************************************)
(* The backend.                                                              *)
(***************************************************************************)
Primary == {"Vulkan", "Metal", "Direct3D12"}
Native  == Primary \cup {"OpenGl"}

(* native_backend_plan_for: OpenGl is asked only when nothing better is admitted.  *)
Plan(d, operator) ==
  LET effective == {b \in Native : /\ operator # {} => b \in operator
                                   /\ d.backends # {} => b \in d.backends}
  IN IF operator # {} \/ "OpenGl" \in ToSet(d.preference) \/ d.strict THEN <<effective>>
     ELSE IF effective \subseteq Primary \/ effective \cap Primary = {} THEN <<effective>>
     ELSE <<effective \cap Primary, effective \ Primary>>

(* requested_features                                                         *)
RoleFeature(r) ==
  CASE r[1] \in {"Bc", "Etc2", "Astc", "Depth32FloatStencil8"} -> {r[1]}
    [] r[1] = "Float32" /\ r[2] \in {"Filterable", "Blendable"} -> {r[2]}
    [] r[1] = "Bgra8Unorm" /\ r[2] \in {"StorageRead", "StorageWrite"} -> {"Bgra8UnormStorage"}
    [] r = <<"Rg11b10Ufloat", "ColorAttachment">> -> {r[1]}
    [] OTHER -> {}

NativeFeatures(enabled) == UNION {NativeOf(f) : f \in enabled}
RoleFeatures(roles)     == UNION {RoleFeature(r) : r \in roles}
RequestedFeatures(d, facts) == NativeFeatures(Enabled(d, facts)) \cup RoleFeatures(d.roles)

(* The device the backend answers with: what was asked for, or less.            *)
Granted(d, facts, grant) ==
  [features |-> IF grant = "fewer features" THEN {} ELSE RequestedFeatures(d, facts),
   limits   |-> [k \in LimitKind |-> IF grant = "lower limits" THEN 0
                                     ELSE Budget(d, Enabled(d, facts))[k]],
   alignments |-> [k \in AlignmentKind |-> IF grant = "other alignment" /\ k = "DynamicOffset"
                                           THEN 2 * facts.alignments[k] ELSE facts.alignments[k]]]

(* A fault: the created device is trusted to have the features asked of it.     *)
DeviceAdmittedUnverified(d, facts, device) ==
  \A k \in LimitKind : device.limits[k] >= Budget(d, Enabled(d, facts))[k]

(* verify_requested_features, check_limits, map_device_limits and                *)
(* admitted_device_facts: without the feature the device has no multiview.      *)
DeviceAdmitted(d, facts, device) ==
  LET wanted == RequestedFeatures(d, facts)
      actual == [device.limits EXCEPT !["MultiviewViews"] = IF "Multiview" \in wanted THEN @ ELSE 0]
  IN /\ wanted \subseteq device.features
     /\ \A k \in LimitKind : actual[k] >= Budget(d, Enabled(d, facts))[k]
     /\ \A k \in AlignmentKind :
          /\ device.alignments[k] = facts.alignments[k]
          /\ k \in DOMAIN d.alignments => device.alignments[k] <= d.alignments[k]

(* select_backend_adapter: every adapter of the tier is enumerated, but a         *)
(* required fallback adapter is picked by the backend.                          *)
Offered(d, machine, backends) ==
  LET enumerated == {a \in machine.adapters : a.backend \in backends}
      software   == {a \in enumerated : a.class = "Cpu" /\ (machine.window => a.presents)}
  IN IF d.fallback # "Require" THEN enumerated
     ELSE IF software = {} THEN {} ELSE {CHOOSE a \in software : TRUE}

ObservedFacts(d, machine, a) ==
  FactsOf(a, machine.window, IF d.fallback = "Require" THEN "Confirmed" ELSE "Unknown")

(* The facts of the adapters offered, each under a token of its own.             *)
Seen(d, machine, adapters, last) ==
  LET listed == SetToSeq(adapters)
  IN [t \in {last + i : i \in DOMAIN listed} |-> ObservedFacts(d, machine, listed[t - last])]

TierSelection(d, machine, backends, last) ==
  LET adapters == Offered(d, machine, backends)
  IN [found  |-> IF d.fallback = "Require" /\ adapters = {} THEN Refused("NoAdapter")
                 ELSE Select(d, Seen(d, machine, adapters, last)),
      tokens |-> last + Cardinality(adapters)]

(* native_tier_fallback_allowed                                               *)
TriesNextTier(status) == status \in {"NoAdapter", "NoAdmissible"}

(* request_headless, and the same plan for a window, up to the device request.    *)
Selection(d, machine) ==
  LET tiers == Plan(d, machine.operator)
      first == TierSelection(d, machine, tiers[1], tokens)
  IN IF tiers[1] = {} THEN [found |-> Refused("NoAdapter"), tokens |-> tokens]
     ELSE IF Len(tiers) = 2 /\ TriesNextTier(first.found.status)
     THEN TierSelection(d, machine, tiers[2], first.tokens)
     ELSE first

(***************************************************************************)
(* Actions.                                                                  *)
(***************************************************************************)
Outcome(status, machine, facts) ==
  [status |-> status, machine |-> machine, facts |-> facts, device |-> <<>>, enabled |-> {}]
NoRequest == Outcome("none", <<>>, <<>>)

AdmissionInit ==
  /\ \E d \in {e \in Demand : WellFormed(e)} : demands = <<d>> /\ request = d
  /\ tokens = NoToken /\ retries = [t \in {} |-> NoToken]
  /\ outcome = NoRequest /\ requested = 0

(* GpuContextDescriptor::merge with another author's request.                  *)
MergeDemand(d) ==
  /\ outcome.status = "none" /\ requested = 0 /\ Len(demands) < MaxDemands
  /\ Mergeable(request, d)
  /\ demands' = Append(demands, d) /\ request' = Merge(request, d)
  /\ UNCHANGED <<tokens, retries, outcome, requested>>

(* Selection up to the await of request_device.                                *)
SelectAdapter(machine) ==
  LET result == Selection(request, machine)
  IN /\ outcome.status = "none" /\ requested < MaxRequests
     /\ requested' = requested + 1
     /\ outcome' = Outcome(result.found.status, machine, result.found.facts)
     /\ tokens' = result.tokens
     /\ retries' = result.found.retries
     /\ UNCHANGED <<demands, request>>

(* The backend answers; what it created is verified before it becomes a context.  *)
CreateDevice(grant) ==
  /\ outcome.status = "selected"
  /\ LET device == Granted(request, outcome.facts, grant)
     IN outcome' =
          IF grant = "refused" \/ ~ DeviceAdmitted(request, outcome.facts, device)
          THEN Outcome("DeviceFailed", <<>>, <<>>)
          ELSE [outcome EXCEPT !.status = "context", !.device = device,
                               !.enabled = Enabled(request, outcome.facts)]
  /\ UNCHANGED <<demands, request, tokens, retries, requested>>

(* The caller asks again: with a token or none, and perhaps another preference.   *)
Retry(token, power) ==
  /\ outcome.status \notin {"none", "selected", "context"} /\ requested < MaxRequests
  /\ request' = [request EXCEPT !.exact = token, !.power = power] /\ outcome' = NoRequest
  /\ UNCHANGED <<demands, tokens, retries, requested>>

Grants == {"asked", "refused", "fewer features", "lower limits", "other alignment"}

AdmissionNext ==
  \/ \E d \in Demand : MergeDemand(d)
  \/ \E machine \in Machine : SelectAdapter(machine)
  \/ \E grant \in Grants : CreateDevice(grant)
  \/ \E token \in 0 .. tokens, power \in {request.power, "LowPower"} : Retry(token, power)

AdmissionSpec == AdmissionInit /\ [][AdmissionNext]_admissionVars

(***************************************************************************)
(* Properties.                                                               *)
(***************************************************************************)
(* A context gives every author whose descriptor was merged the features it       *)
(* requires and none it disabled, the roles of formats, explicit minimum limits   *)
(* and alignments it asked for, on a backend and adapter class it accepts, and    *)
(* the device really has them (GpuContextDescriptor::merge,                      *)
(* evaluate_validated_candidate, admitted_device_facts).  The fallback and        *)
(* portability policies and the permitted maxima are not part of the promise.     *)
ContextKeepsEveryDemand ==
  outcome.status = "context" =>
    \A i \in DOMAIN demands :
      LET d == demands[i]  device == outcome.device
      IN /\ Needing(d, {"Required"}) \subseteq outcome.enabled
         /\ Needing(d, {"Disabled"}) \cap outcome.enabled = {}
         /\ \A f \in outcome.enabled : NativeOf(f) \subseteq device.features
         /\ \A r \in d.roles : r \in outcome.facts.roles /\ RoleFeature(r) \subseteq device.features
         /\ \A k \in DOMAIN d.limits : device.limits[k] >= d.limits[k].minimum
         /\ \A k \in DOMAIN d.alignments : device.alignments[k] <= d.alignments[k]
         /\ d.backends # {} => outcome.facts.backend \in d.backends
         /\ d.classes # {} => outcome.facts.class \in d.classes

(* Whatever the order of enumeration and the tiers: no admissible adapter of an  *)
(* earlier tier was passed over, none of the same tier outranks the one chosen,   *)
(* and a strict request never settles a tie.  Only a token the process disclosed  *)
(* for this very request over these very adapters may name another               *)
(* (select_candidate_inputs, native_backend_plan_for).                         *)
SelectionIsJustified ==
  outcome.status \in {"selected", "context"} =>
    LET machine == outcome.machine
        tiers   == Plan(request, machine.operator)
        Admitted(i) == {a \in Offered(request, machine, tiers[i]) :
                          Admits(request, ObservedFacts(request, machine, a))}
        Standing(a) == Rank(request, ObservedFacts(request, machine, a))
        chosen  == CHOOSE i \in DOMAIN tiers : outcome.facts.backend \in tiers[i]
        mine    == Rank(request, outcome.facts)
    IN IF request.exact = NoToken
       THEN /\ \A i \in 1 .. chosen - 1 : Admitted(i) = {}
            /\ \A a \in Admitted(chosen) : ~ Ahead(Standing(a), mine)
            /\ request.strict => Cardinality({a \in Admitted(chosen) : Standing(a) = mine}) = 1
       ELSE /\ retries[request.exact].request = RetryIdentity(request)
            /\ \E a \in Admitted(chosen) : ObservedFacts(request, machine, a) = outcome.facts
=============================================================================
