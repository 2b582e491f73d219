------------------------- MODULE MCComponentPipeline -------------------------
(* Instances of ComponentPipeline for TLC.                                  *)
EXTENDS ComponentPipeline, TLC

CONSTANTS api, web

NoDeps == [c \in Components |-> {}]

(* web depends on api.                                                      *)
Chain == [parts |-> {api, web}, native |-> {}, archived |-> FALSE,
          deps |-> [NoDeps EXCEPT ![web] = {api}]]
(* api and web are independent.                                             *)
Pair == [Chain EXCEPT !.deps = NoDeps]
(* api alone.                                                               *)
Single == [Pair EXCEPT !.parts = {api}]
(* api is a part of the platform itself, which only the owner may deploy.   *)
Native == [Pair EXCEPT !.native = {api}]
Archived == [Single EXCEPT !.archived = TRUE]

NativeConfigs == {Native}
PairConfigs == {Pair}
SingleConfigs == {Single}
(* A profile that grows from one component to two, or is archived.          *)
GrowingConfigs == {Single, Chain, Archived}

(* Nothing is known of an artifact but whether it is another one.          *)
ArtifactSymmetry == Permutations(Artifacts)

(* What is explored: two runs of a profile that grows, with one artifact,  *)
(* where access may be withdrawn during the first; and three runs of the   *)
(* profile as it was saved first, with two artifacts and nobody's access   *)
(* withdrawn.                                                              *)
Built   == {j.output : j \in jobs} \ {None}
Growing == ~Exists(3) /\ clock <= 2 /\ Cardinality(Built) <= 1 /\ (permitted = Users \/ ~Exists(2))
Lasting == profile.revision <= 1 /\ profile.config \in {None, Single} /\ permitted = Users
GrowingOrLasting == Growing \/ Lasting
==============================================================================
