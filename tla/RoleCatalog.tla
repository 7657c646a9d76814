------------------------------ MODULE RoleCatalog ------------------------------
(***************************************************************************)
(* The lookups of role presets on one RoleCatalog (core/RoleCatalog.ts).   *)
(* Its cache is set before the files are read and shared by all lookups:   *)
(* WorkflowTemplateValidator starts one for every node at once, the        *)
(* scaffolder one after the other.                                         *)
(***************************************************************************)
EXTENDS Integers, Sequences

CONSTANTS
  Lookups,
  RoleFiles,    \* the roles in the order of readdir
  BadFiles,     \* sets of roles whose file validateRole refuses, one of them in force
  NotCached

Roles == {RoleFiles[i] : i \in 1 .. Len(RoleFiles)}

\* There is a role file, and NotCached is a value of its own: no cache and no answer.
ASSUME RoleAssumption ==
  /\ RoleFiles \in Seq(Roles) /\ Len(RoleFiles) > 0
  /\ \A cached \in SUBSET Roles : NotCached # cached
  /\ NotCached \notin {"found", "not found", "error"}

VARIABLES
  badRoles, roleCache,
  lookup,       \* of each lookup: [at, role, next, result]
  resetsAfter   \* lookups whose cache another one has reset since (history)

roleVars == <<badRoles, roleCache, lookup, resetsAfter>>

Lookup(at, role, next, result) == [at |-> at, role |-> role, next |-> next, result |-> result]

RoleInit ==
  /\ badRoles = {} /\ roleCache = NotCached
  /\ lookup = [l \in Lookups |-> Lookup("idle", NotCached, 1, NotCached)]
  /\ resetsAfter = {}

\* The role files are what they are before the first lookup.
Spoil(bad) ==
  /\ \A l \in Lookups : lookup[l].at = "idle"
  /\ badRoles = {} /\ badRoles' = bad
  /\ UNCHANGED <<roleCache, lookup, resetsAfter>>

\* The nodes of a template ask in one tick, the presets of a spec in turn.
MayAsk == \/ \A l \in Lookups : lookup[l].at \in {"idle", "listing"}
          \/ \A l \in Lookups : lookup[l].at \in {"idle", "done"}

Found(role, cached) == IF role \in cached THEN "found" ELSE "not found"

Ask(l, role) ==
  /\ lookup[l].at = "idle" /\ MayAsk
  /\ lookup' = [lookup EXCEPT ![l] =
                 IF roleCache = NotCached THEN Lookup("listing", role, 1, NotCached)
                 ELSE Lookup("done", role, 1, Found(role, roleCache))]
  /\ UNCHANGED <<badRoles, roleCache, resetsAfter>>

Loading == {l \in Lookups : lookup[l].at = "reading"}

\* Faulty variant: the cache is made once, the readers after the first keep it.
ListedOnce(l) ==
  /\ lookup[l].at = "listing"
  /\ roleCache' = IF roleCache = NotCached THEN {} ELSE roleCache
  /\ lookup' = [lookup EXCEPT ![l].at = "reading", ![l].next = IF roleCache = NotCached THEN 1 ELSE Len(RoleFiles)]
  /\ UNCHANGED <<badRoles, resetsAfter>>

\* readdir is answered: every lookup that waited for it empties the cache.
Listed(l) ==
  /\ lookup[l].at = "listing"
  /\ roleCache' = {}
  /\ lookup' = [lookup EXCEPT ![l].at = "reading"]
  /\ resetsAfter' = resetsAfter \union Loading
  /\ UNCHANGED badRoles

\* The next file is read into whatever array is the cache by now.
ReadRole(l) ==
  LET role == RoleFiles[lookup[l].next] IN
    /\ lookup[l].at = "reading" /\ role \notin badRoles
    /\ roleCache' = roleCache \union {role}
    /\ lookup' = [lookup EXCEPT ![l] =
                   IF @.next < Len(RoleFiles) THEN Lookup("reading", @.role, @.next + 1, NotCached)
                   ELSE Lookup("done", @.role, @.next, Found(@.role, roleCache'))]
    /\ UNCHANGED <<badRoles, resetsAfter>>

\* A file that is no role makes the lookup throw; the cache stays as it is.
ReadBadRole(l) ==
  /\ lookup[l].at = "reading" /\ RoleFiles[lookup[l].next] \in badRoles
  /\ lookup' = [lookup EXCEPT ![l] = Lookup("done", @.role, @.next, "error")]
  /\ UNCHANGED <<badRoles, roleCache, resetsAfter>>

RoleNext ==
  \/ \E bad \in BadFiles : Spoil(bad)
  \/ \E l \in Lookups :
       \/ \E role \in Roles \union {NotCached} : Ask(l, role)
       \/ Listed(l) \/ ReadRole(l) \/ ReadBadRole(l)

RoleSpec == RoleInit /\ [][RoleNext]_roleVars
-----------------------------------------------------------------------------
\* With sound role files a role that exists is found, but by a lookup whose cache
\* another one emptied under it; whatever crossed, the cache that is left when all
\* lookups are done holds every role, and no lookup finds a role there is none of.
RolesAreFound ==
  /\ \A l \in Lookups :
       /\ lookup[l].result = "found" => lookup[l].role \in Roles
       /\ badRoles = {} /\ lookup[l].result = "not found" => lookup[l].role \notin Roles \/ l \in resetsAfter
  /\ badRoles = {} /\ roleCache # NotCached /\ (\A l \in Lookups : lookup[l].at \in {"idle", "done"})
       => roleCache = Roles
=============================================================================
