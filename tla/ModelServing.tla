---------------------------- MODULE ModelServing ----------------------------
(***************************************************************************)
(* The models from the configuration to the frames: lifespan() in main.py  *)
(* builds the resolver and gets every model of every zone of the camera    *)
(* from the registry before any worker is started; then the inference      *)
(* engine, which serves the first zone alone, asks the resolver and the    *)
(* registry anew for each frame (inference/engine.py).                     *)
(*                                                                         *)
(* Unconfigured stands for the registry on its own, asked by any thread    *)
(* for any model, as tests/inference/test_registry.py does.                *)
(***************************************************************************)
EXTENDS ModelRegistry, StaticModelResolver

CONSTANTS
  Configs,        (* configurations considered                   *)
  Unconfigured,
  main,           (* the thread of lifespan()                    *)
  Camera,         (* stream.camera_id                            *)
  DefaultZone     (* "handwash_zone"                             *)

(* What a configuration names is a specification, if the constructor of the *)
(* resolver accepts it, and the registry knows it by its path.              *)
ASSUME ServingConfigOK ==
  /\ main \in Threads /\ Unconfigured \notin Configs
  /\ \A s \in Specs : PathOf[s] = s.path
  /\ \A c \in Configs :
       /\ \A camera \in DOMAIN c.cameras : c.cameras[camera] \in Seq(STRING)
       /\ \A zone \in DOMAIN c.zones : c.zones[zone] \in Seq(Seq(STRING))
       /\ Builds(c) => \A name \in ModelNames(c.models) : BuildSpecs(c.models)[name] \in Specs

Workers == Threads \ {main}

VARIABLES
  config,
  phase,     (* "new", "loading", "serving" or "failed" *)
  zonesLeft, (* zones whose models are still to be got  *)
  todo       (* thread -> specs it is still to get      *)

serving == <<config, phase, zonesLeft, todo>>

----------------------------------------------------------------------------
Zones == ZonesForCamera(config, Camera)

(* The engine's zone *)
EngineZone == IF Zones = <<>> THEN DefaultZone ELSE Head(Zones)

(* An error ends the application. *)
Construct ==
  /\ phase = "new"
  /\ IF Builds(config) /\ Camera \in DOMAIN config.cameras
     THEN phase' = "loading" /\ zonesLeft' = Zones
     ELSE phase' = "failed" /\ UNCHANGED zonesLeft
  /\ UNCHANGED <<config, todo, vars>>

(* The models of one zone have been got: those of the next.                 *)
NextZone ==
  /\ phase = "loading" /\ at[main] = "out" /\ todo[main] = <<>> /\ zonesLeft # <<>>
  /\ IF Resolves(config, Camera, Head(zonesLeft))
     THEN /\ todo' = [todo EXCEPT ![main] = Resolve(config, Camera, Head(zonesLeft))]
          /\ zonesLeft' = Tail(zonesLeft) /\ UNCHANGED phase
     ELSE phase' = "failed" /\ UNCHANGED <<zonesLeft, todo>>
  /\ UNCHANGED <<config, vars>>

StartWorkers ==
  /\ phase = "loading" /\ at[main] = "out" /\ todo[main] = <<>> /\ zonesLeft = <<>>
  /\ phase' = "serving" /\ UNCHANGED <<config, zonesLeft, todo, vars>>

(* process() of the engine: the models for a frame. *)
Frame(t) ==
  /\ phase = "serving" /\ at[t] = "out" /\ todo[t] = <<>>
  /\ Resolves(config, Camera, EngineZone)
  /\ todo' = [todo EXCEPT ![t] = Resolve(config, Camera, EngineZone)]
  /\ UNCHANGED <<config, phase, zonesLeft, vars>>

(* The next of them, whatever has become of the last: _run_model.           *)
NextModel(t) ==
  /\ todo[t] # <<>> /\ Ask(t, Head(todo[t]))
  /\ todo' = [todo EXCEPT ![t] = Tail(@)] /\ UNCHANGED <<config, phase, zonesLeft>>

(* A model that cannot be loaded at the start ends the application. *)
Get(t) ==
  \/ Proceed(t) /\ UNCHANGED serving
  \/ /\ LoadFails(t)
     /\ IF t = main THEN phase' = "failed" /\ todo' = [todo EXCEPT ![main] = <<>>]
        ELSE UNCHANGED <<phase, todo>>
     /\ UNCHANGED <<config, zonesLeft>>

(* The registry is closed after the worker was joined, or the join gave up. *)
CloseRegistry == (phase = "serving" \/ config = Unconfigured) /\ Close /\ UNCHANGED serving

AskAnything(t) ==
  /\ config = Unconfigured /\ \E s \in Specs : Ask(t, s)
  /\ UNCHANGED serving

ServingInit ==
  /\ Init /\ config \in Configs \cup {Unconfigured}
  /\ phase = (IF config = Unconfigured THEN "registry" ELSE "new")
  /\ zonesLeft = <<>> /\ todo = [t \in Threads |-> <<>>]

ServingNext ==
  \/ Construct \/ NextZone \/ StartWorkers \/ CloseRegistry
  \/ \E t \in Threads : NextModel(t) \/ Get(t)
  \/ \E t \in Workers : Frame(t) \/ AskAnything(t)

ServingSpec ==
  ServingInit /\ [][ServingNext]_<<vars, serving>>
  /\ \A t \in Threads : WF_<<vars, serving>>(Get(t))

----------------------------------------------------------------------------
(* Properties *)

(* The registry knows a model by its path alone, so whoever loads a path    *)
(* first decides on the thresholds and the use case of all its detections   *)
(* (registry.py:75).  Still the engine always works with the specification  *)
(* its zone configures: a zone has each path once, and the first zone is    *)
(* loaded first.  And it never waits for a model while frames pile up,      *)
(* unless the camera has no zones or the registry was closed.               *)
ServedAsConfigured ==
  config \in Configs =>
    \A t \in Workers :
      /\ at[t] = "out" /\ got[t] # NoSpec => got[t] = wants[t]
      /\ at[t] = "load" => closed \/ Zones = <<>>
=============================================================================
