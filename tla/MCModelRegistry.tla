--------------------------- MODULE MCModelRegistry ---------------------------
(* Specifications of two paths, two of them of one path, in configurations  *)
(* that share the path between zones, repeat it in a zone, give the camera  *)
(* no zone, or do not fit together.                                         *)
EXTENDS ModelServing

CONSTANTS yolo, hands

Model(path, confidence, presence) ==
  [path |-> path, confidence |-> confidence, presence |-> presence]

Models ==
  [washing |-> [useCase |-> "washing",
                subs |-> [person |-> Model(yolo, 25, 25), hand |-> Model(hands, 50, 25)]],
   people  |-> [useCase |-> "counting", path |-> yolo, confidence |-> 60, presence |-> NoPresence]]

Broken == [people |-> [useCase |-> "counting", path |-> yolo, confidence |-> 25, presence |-> 50]]

person == <<"washing", "person">>
hand   == <<"washing", "hand">>
people == <<"people">>

Config(models, zones, ofCamera) ==
  [models |-> models, zones |-> zones, cameras |-> [cam |-> ofCamera]]

MCConfigs ==
  {Config(Models, [a |-> <<person, hand>>, b |-> <<people>>], <<"a", "b">>),
   Config(Models, [a |-> <<people, person, hand>>], <<"a">>),
   Config(Models, [a |-> <<hand>>], <<>>),
   Config(Models, [a |-> <<people, <<"nobody">>>>], <<"a">>),
   Config(Models, [a |-> <<people>>], <<"a", "b">>),
   Config(Broken, [a |-> <<people>>], <<"a">>)}

MCSpecs == {BuildSpecs(Models)[n] : n \in ModelNames(Models)}
MCPathOf == [s \in MCSpecs |-> s.path]
=============================================================================
