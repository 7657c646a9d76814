-------------------------------- MODULE Catalogs --------------------------------
(***************************************************************************)
(* The two catalogs of names: roles, and the templates that are made of    *)
(* them.  A template is scaffolded from roles that were looked up before.  *)
(***************************************************************************)
EXTENDS RoleCatalog, TemplateCatalog

\* An existing role is missed only by a lookup that another one's reset hit; a template
\* name stands for one template unless creations crossed, and what create wrote can be
\* read back.
CatalogsAnswer == RolesAreFound /\ NamesStandForOne /\ CreatedIsReadable
=============================================================================
