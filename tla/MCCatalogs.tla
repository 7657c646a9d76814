------------------------------- MODULE MCCatalogs -------------------------------
(***************************************************************************)
(* Role files and templates for TLC: roles that are sound but for one,     *)
(* templates written by hand and specs of others.                          *)
(***************************************************************************)
EXTENDS Catalogs

RolesInOrder == <<"executor", "planner", "verifier">>
SpoiltRoles == {{"planner"}}

Edge(condition) == [from |-> "planner", to |-> "end", condition |-> condition]
TemplateOf(name, nodes, policies, condition) ==
  [name |-> name, start |-> "planner", max |-> 3, policies |-> policies, nodes |-> nodes,
   edges |-> {Edge(condition)}]

\* Nodes written by hand: with all fields, with a preset only, with neither.
Plain(id) == [id |-> id, preset |-> NoFile, full |-> TRUE]
ByPreset(preset) == [id |-> preset, preset |-> preset, full |-> FALSE]
Bare(id) == [id |-> id, preset |-> NoFile, full |-> FALSE]

ByHand ==
  {TemplateOf("k1", <<Plain("planner")>>, TRUE, "always"),
   TemplateOf("k2", <<ByPreset("planner"), Plain("other")>>, TRUE, "exists"),
   TemplateOf("k2", <<ByPreset("planner"), ByPreset("executor")>>, TRUE, "always"),
   TemplateOf("k1", <<ByPreset("planner"), ByPreset("ghost")>>, TRUE, "always"),
   TemplateOf("k2", <<Bare("planner")>>, TRUE, "always"),
   TemplateOf("k1", <<ByPreset("planner"), Plain("planner")>>, TRUE, "always"),
   TemplateOf("k2", <<Plain("planner")>>, FALSE, "missing"),
   TemplateOf("k1", <<Plain("planner")>>, TRUE, "wrong")}

SpecOf(name, presets, max) ==
  [name |-> name, presets |-> presets, start |-> "planner", max |-> max, edges |-> {Edge("always")}]
TemplateSpecs ==
  {SpecOf("k1", <<"planner">>, 0), SpecOf("k2", <<"planner", "executor">>, 3)}
    \union {SpecOf("k1", presets, 3) :
              presets \in {<<"planner">>, <<"planner", "executor">>, <<"planner", "planner">>, <<"planner", "ghost">>}}
=============================================================================
