--------------------------- MODULE MCSingleFlight ---------------------------
(* Callers realize a bind group and a pipeline over one bind-group layout,    *)
(* in registries too small for everything at once; and, to wait for each      *)
(* other, only a pipeline layout over a bind-group layout.                    *)
EXTENDS SingleFlight, TLC

CONSTANTS c1, c2, layout, pipelineLayout, bindGroup, pipeline

TwoCallers == {c1, c2}
Keys == {layout, pipelineLayout, bindGroup, pipeline}
Layouts == {layout, pipelineLayout}

InRegistries ==
  [k \in Key |-> IF k = pipeline THEN "pipelines" ELSE "bindings"]
Bounds == "bindings" :> 2 @@ "pipelines" :> 1
OneBound == "bindings" :> 2
DependentsFirst == <<{bindGroup}, {pipelineLayout}, {layout}, {pipeline}>>
LayoutsOnly == <<{pipelineLayout}, {layout}>>
LayoutInPipelineLayout ==
  [k \in Key |-> IF k = pipelineLayout THEN layout ELSE NoKey]
Dependencies ==
  [k \in Key |-> CASE k = bindGroup -> {layout}
                    [] k = pipeline -> {pipelineLayout}
                    [] OTHER -> {}]
Pipelines == {pipeline}
Groups == {bindGroup}
Nothing == {}
Symmetry == Permutations(TwoCallers)
=============================================================================
