---------------------------- MODULE TemplateCatalog ----------------------------
(***************************************************************************)
(* The workflows directory: which templates the registry accepts           *)
(* (core/WorkflowTemplateValidator, which completes nodes from role        *)
(* presets; the demos' WorkflowLoader does not),                           *)
(* which file a name stands for (WorkflowTemplateRegistry), and the        *)
(* creation of a template from a spec (TemplateScaffolder,                 *)
(* TemplateCreateService), by several callers at once.                     *)
(*                                                                         *)
(* A template is [name, start, max, policies, nodes, edges], a node being  *)
(* [id, preset, full] and an edge [from, to, condition]: preset is the     *)
(* role it names or NoFile, id the one it has in the end, and full says    *)
(* that all fields of a node are there.  A file's key is its name without  *)
(* ".json".                                                                *)
(***************************************************************************)
EXTENDS Integers, Sequences

CONSTANTS
  FileKeys,     \* files of the directory, and names of templates
  HandWritten,  \* templates that somebody may have written by hand
  Specs,        \* template specs: [name, presets, start, max, edges]
  Presets,      \* the roles of the catalog
  Creators,
  NoFile, TornFile,
  MaxCreations  \* bound on creations

\* The node of a preset, with all that the role says.
NodeOf(preset) == [id |-> preset, preset |-> preset, full |-> TRUE]

\* TemplateScaffolder.scaffold; the name may be overridden.
ScaffoldOf(spec, name) ==
  [name |-> IF name = NoFile THEN spec.name ELSE name, start |-> spec.start, max |-> spec.max,
   policies |-> TRUE, nodes |-> [i \in 1 .. Len(spec.presets) |-> NodeOf(spec.presets[i])],
   edges |-> spec.edges]

\* NoFile and TornFile are values of their own: no template and no name.
ASSUME TemplateAssumption ==
  /\ NoFile # TornFile /\ NoFile \notin HandWritten /\ TornFile \notin HandWritten
  /\ \A spec \in Specs, name \in FileKeys \union {NoFile} : ScaffoldOf(spec, name) \notin {NoFile, TornFile}
  /\ "error" \notin FileKeys /\ MaxCreations \in Nat

VARIABLES
  dir,          \* file of each key
  creating,     \* of each creator: [at, key, name, force, spec, template]
  creations,
  crossedKeys   \* creations that ran beside another (history)

templateVars == <<dir, creating, creations, crossedKeys>>

WellFormed == {"always", "equals", "exists", "notExists", "in"}
NodesOf(t) == {t.nodes[i] : i \in 1 .. Len(t.nodes)}
Ids(t) == {n.id : n \in NodesOf(t)}

GraphIsSound(t) ==
  /\ t.max >= 1 /\ t.nodes # << >> /\ t.start \in Ids(t)
  /\ \A e \in t.edges : e.from \in Ids(t) /\ e.to \in Ids(t) \union {"end"}

\* Faulty variant: node ids are not compared with each other.
GraphAcceptedTwins(t) ==
  /\ GraphIsSound(t) /\ t.policies
  /\ \A e \in t.edges : e.condition \in WellFormed

\* parseTemplateHeader and validateResolvedTemplate
GraphAccepted(t) ==
  /\ GraphIsSound(t) /\ t.policies
  /\ \A i, j \in 1 .. Len(t.nodes) : t.nodes[i].id = t.nodes[j].id => i = j
  /\ \A e \in t.edges : e.condition \in WellFormed

Full(t) == \A n \in NodesOf(t) : n.full

\* WorkflowTemplateValidator.validate
ValidatorAccepts(t) == Full(t) /\ GraphAccepted(t)

\* WorkflowLoader lets ids repeat, and conditions and policies be missing, but looks up no
\* preset: a node has its fields or is refused.
LoaderAccepts(t) ==
  /\ Full(t) /\ GraphIsSound(t)
  /\ \A e \in t.edges : e.condition \in WellFormed \union {"missing"}

\* validateNodeWithPreset: a preset that is found fills in what is missing.
Completed(t) == \A n \in NodesOf(t) : IF n.preset = NoFile THEN n.full ELSE n.preset \in Presets

\* WorkflowTemplateValidator.validateWithRoleCatalog, where each lookup finds its role
Readable(f) == f # NoFile /\ f # TornFile /\ Completed(f) /\ GraphAccepted(f)

\* The nodes' roles are looked up at once, and of two lookups one may miss its role
\* (RoleCatalog): whoever reads the file then gets an error.
MayMissRole(f) ==
  /\ f # NoFile /\ f # TornFile
  /\ \E i, j \in 1 .. Len(f.nodes) : i # j /\ f.nodes[i].preset # NoFile /\ f.nodes[j].preset # NoFile

Listable == \A k \in FileKeys : dir[k] = NoFile \/ Readable(dir[k])
Named(name) == {k \in FileKeys : dir[k] # NoFile /\ dir[k].name = name}

\* resolveTemplatePath and load: a file of that name comes before a template of
\* that name, and only a search by name looks into the other files.  (With a missed
\* role the answer is an error, whatever is there.)
Resolve(key) ==
  IF dir[key] # NoFile THEN IF Readable(dir[key]) THEN key ELSE "error"
  ELSE IF ~Listable THEN "error"
  ELSE IF \E k \in FileKeys : Named(key) = {k} THEN CHOOSE k \in FileKeys : Named(key) = {k} ELSE "error"

-----------------------------------------------------------------------------
Creation(at, key, name, force, spec, template) ==
  [at |-> at, key |-> key, name |-> name, force |-> force, spec |-> spec, template |-> template]
NotCreating == Creation("idle", NoFile, NoFile, FALSE, NoFile, NoFile)
Busy == {c \in Creators : creating[c].at # "idle"}

TemplateInit ==
  /\ dir = [k \in FileKeys |-> NoFile]
  /\ creating = [c \in Creators |-> NotCreating]
  /\ creations = 0 /\ crossedKeys = FALSE

\* Before anything is created somebody may have put a file there.
WriteByHand(k, t) ==
  /\ creations = 0 /\ \A x \in FileKeys : dir[x] = NoFile
  /\ dir' = [dir EXCEPT ![k] = t]
  /\ UNCHANGED <<creating, creations, crossedKeys>>

\* TemplateCreateService.create: no force, no existing file.
StartCreate(c, k, name, force, spec) ==
  /\ c \notin Busy /\ creations < MaxCreations
  /\ creations' = creations + 1
  /\ crossedKeys' = (crossedKeys \/ Busy # {})
  /\ IF ~force /\ dir[k] # NoFile
     THEN UNCHANGED creating
     ELSE creating' = [creating EXCEPT ![c] = Creation("spec", k, name, force, spec, NoFile)]
  /\ UNCHANGED dir

Give_up(c) == creating' = [creating EXCEPT ![c] = NotCreating]

Scaffold(c) ==
  LET request == creating[c]
      template == ScaffoldOf(request.spec, request.name) IN
    /\ request.at = "spec"
    /\ IF (\A n \in NodesOf(template) : n.preset \in Presets) /\ ValidatorAccepts(template)
       THEN creating' = [creating EXCEPT ![c] =
                           Creation("names", @.key, @.name, @.force, @.spec, template)]
       ELSE Give_up(c)
    /\ UNCHANGED <<dir, creations, crossedKeys>>

\* Faulty variant: only the file that is written is looked at.
CheckNamesHere(c) ==
  /\ creating[c].at = "names"
  /\ creating' = [creating EXCEPT ![c].at = "write"]
  /\ UNCHANGED <<dir, creations, crossedKeys>>

\* assertNoNameConflict reads the whole directory, and throws with any of its files.  The
\* path is compared as it was spelled: the file itself may count as a conflict.
CheckNames(c) ==
  LET named == Named(creating[c].template.name) IN
    /\ creating[c].at = "names"
    /\ \/ Listable /\ named \subseteq {creating[c].key} /\ creating' = [creating EXCEPT ![c].at = "write"]
       \/ (Listable => named # {} \/ \E k \in FileKeys : MayMissRole(dir[k])) /\ Give_up(c)
    /\ UNCHANGED <<dir, creations, crossedKeys>>

WriteTemplate(c) ==
  /\ creating[c].at = "write"
  /\ dir' = [dir EXCEPT ![creating[c].key] = creating[c].template]
  /\ Give_up(c)
  /\ UNCHANGED <<creations, crossedKeys>>

\* The process dies in the write.
TearTemplate(c) ==
  /\ creating[c].at = "write"
  /\ dir' = [dir EXCEPT ![creating[c].key] = TornFile]
  /\ Give_up(c)
  /\ UNCHANGED <<creations, crossedKeys>>

TemplateNext ==
  \/ \E k \in FileKeys, t \in HandWritten : WriteByHand(k, t)
  \/ \E c \in Creators :
       \/ \E k \in FileKeys, name \in FileKeys \union {NoFile}, force \in BOOLEAN, spec \in Specs :
            StartCreate(c, k, name, force, spec)
       \/ Scaffold(c) \/ CheckNames(c) \/ WriteTemplate(c) \/ TearTemplate(c)

TemplateSpec == TemplateInit /\ [][TemplateNext]_templateVars
-----------------------------------------------------------------------------
(* Properties.                                                             *)

Whole == {k \in FileKeys : dir[k] # NoFile /\ dir[k] # TornFile}

\* Two files have the same name only if their creations crossed; then a search by the
\* name finds neither, unless a file is called so, and never one of them silently.  A name
\* that is found is the template's or the file's, and no two nodes of it share an id.
NamesStandForOne ==
  /\ \A j, k \in Whole : dir[j].name = dir[k].name /\ j # k => crossedKeys
  /\ \A key \in FileKeys : Resolve(key) # "error" =>
       LET found == dir[Resolve(key)] IN
         /\ Resolve(key) = key \/ (found.name = key /\ \A k \in Whole : dir[k].name = key => k = Resolve(key))
         /\ \A i, j \in 1 .. Len(found.nodes) : i # j => found.nodes[i].id # found.nodes[j].id

\* What create has written can be read back by the registry, whatever is beside it, and by
\* the loader too: the directory breaks only with a file that was written by hand or torn,
\* and only such a one is found by the registry and refused by the loader.
CreatedIsReadable ==
  \A k \in Whole : dir[k] \notin HandWritten =>
    Readable(dir[k]) /\ Resolve(k) = k /\ LoaderAccepts(dir[k])
=============================================================================
