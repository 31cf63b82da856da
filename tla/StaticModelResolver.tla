------------------------ MODULE StaticModelResolver ------------------------
(***************************************************************************)
(* Which models look at a frame (inference/resolver/static.py): the        *)
(* configuration names models, alone or in a group for a use case, lists   *)
(* the models of each zone and the zones of each camera.  All of it is     *)
(* built when the application starts; what does not fit together is an     *)
(* error then.                                                             *)
(*                                                                         *)
(* A configuration is [models, zones, cameras].  A model is [useCase,      *)
(* path, confidence, presence], a group [useCase, subs] with a function of *)
(* such models without a use case; device, image size and tracker are left *)
(* out.  A zone names a model <<name>> or <<group, name>>.                 *)
(***************************************************************************)
EXTENDS Integers, Sequences, SequencesExt, FiniteSets

CONSTANT NoPresence   (* presence_confidence_threshold is None *)

Certain == 100        (* confidences in percent *)

(* ModelSpec; its path is normalised. *)
ModelSpec(useCase, m) ==
  [useCase |-> useCase, path |-> m.path, confidence |-> m.confidence, presence |-> m.presence]

ValidSpec(s) ==
  /\ s.confidence \in 0..Certain
  /\ s.presence # NoPresence => s.presence \in 0..s.confidence

IsGroup(m) == "subs" \in DOMAIN m

(* _build_specs *)
ModelNames(models) ==
  {<<n>> : n \in {m \in DOMAIN models : ~IsGroup(models[m])}}
  \cup UNION {{<<n, sub>> : sub \in DOMAIN models[n].subs} :
                n \in {m \in DOMAIN models : IsGroup(models[m])}}

BuildSpecs(models) ==
  [name \in ModelNames(models) |->
     LET m == models[name[1]] IN
     IF IsGroup(m) THEN ModelSpec(m.useCase, m.subs[name[2]]) ELSE ModelSpec(m.useCase, m)]

(* Mutant: a zone keeps all its models. *)
KeepAll(specs) == specs

(* A zone has one model of each path, the first. *)
FirstOfEachPath(specs) ==
  LET firsts == {i \in DOMAIN specs : \A j \in 1..(i - 1) : specs[j].path # specs[i].path}
      Nth(n) == CHOOSE i \in firsts : Cardinality({j \in firsts : j < i}) = n - 1
  IN  [n \in 1..Cardinality(firsts) |-> specs[Nth(n)]]

(* _build_zone_models *)
ZoneModels(c, zone) ==
  FirstOfEachPath([i \in DOMAIN c.zones[zone] |-> BuildSpecs(c.models)[c.zones[zone][i]]])

(* The constructor raises nothing. *)
Builds(c) ==
  /\ DOMAIN c.models # {} /\ DOMAIN c.cameras # {} /\ DOMAIN c.zones # {}
  /\ \A name \in ModelNames(c.models) : ValidSpec(BuildSpecs(c.models)[name])
  /\ \A zone \in DOMAIN c.zones : ToSet(c.zones[zone]) \subseteq ModelNames(c.models)

(* zones_for_camera, resolve: unknown names are errors. *)
ZonesForCamera(c, camera) == c.cameras[camera]

Resolves(c, camera, zone) == camera \in DOMAIN c.cameras /\ zone \in DOMAIN c.zones

Resolve(c, camera, zone) == ZoneModels(c, zone)
=============================================================================
