----------------------------- MODULE RoleEditor -----------------------------
(***************************************************************************)
(* The page on which an administrator edits what a role is granted, the    *)
(* gateway that reads the tenant's resources for it page by page, and the  *)
(* core, which replaces the grants of the role by what the page posts.     *)
(*                                                                         *)
(* A load is two reads that run side by side, of the resources (queryAll,  *)
(* one snapshot per page) and of the role; a later load overtakes it when  *)
(* another role is selected.  Other administrators change the resources    *)
(* and the grants at any time.                                             *)
(*                                                                         *)
(* The fields `of' and `free' are history: the role that was loaded, and   *)
(* the resources whose grants a save may change, because the user changed  *)
(* them on the page, somebody else changed them since they were read, or   *)
(* they were not in force all the time.                                    *)
(***************************************************************************)
EXTENDS Integers, Sequences, FiniteSets, SequencesExt

CONSTANTS
    Role,
    Administrators,  \* the administrator roles, which the page only shows
    Resource,        \* resources of the tenant's applications
    DataScope,       \* data scopes
    Personal,        \* the scope of a new grant
    PageSize,        \* rows of a page
    MaxPages,        \* the pages queryAll reads at most
    MaxLoads,        \* bound: loads in flight
    MaxActs,         \* bound: changes and saves by the user
    MaxChanges,      \* bound: changes by others
    None

ASSUME RoleEditorAssumption ==
    /\ Administrators \subseteq Role /\ IsFiniteSet(Resource) /\ Personal \in DataScope
    /\ PageSize \in Nat \ {0} /\ MaxPages \in Nat /\ MaxLoads \in Nat
    /\ MaxActs \in Nat /\ MaxChanges \in Nat
    /\ None \notin Role \cup DataScope \cup [Resource -> DataScope \cup {None}]

VARIABLES
    listing,  \* the active resources of the tenant's applications, as they are sorted
    granted,  \* the scope of each grant of each role, None for no grant
    page,     \* the page, and what is checked on it
    loads,    \* the loads of the mounted editor
    posted,   \* the save in flight
    acts,     \* the number of changes and saves by the user
    changes   \* the number of changes by others

roleEditorVars == <<listing, granted, page, loads, posted, acts, changes>>
core == <<listing, granted, changes>>

Grants == [Resource -> DataScope \cup {None}]
NoGrants == [x \in Resource |-> None]
Active == ToSet(listing)

NothingLoaded == [of |-> None, shown |-> {}, checked |-> {}, scope |-> NoGrants, free |-> {}]
NoPost == [state |-> "none", role |-> None, grants |-> NoGrants, free |-> {}]

NewLoad(r) == [role |-> r, current |-> TRUE, next |-> 1, rows |-> <<>>, listed |-> FALSE,
               grants |-> IF r = None THEN NoGrants ELSE None, free |-> Resource \ Active]

RoleEditorInit ==
    /\ listing \in SetToSeqs(Resource)
    /\ granted \in [Role -> Grants]
    /\ page = [role |-> None, tab |-> "resource", loading |-> TRUE, readonly |-> FALSE,
               saving |-> FALSE, content |-> NothingLoaded]
    /\ loads = {NewLoad(None)}
    /\ posted = NoPost
    /\ acts = 0 /\ changes = 0

-----------------------------------------------------------------------------
(* Loading: loadResources, queryAll.                                       *)

(* Another load begins: the version is counted on.                         *)
Load(r) ==
    /\ Cardinality(loads) < MaxLoads
    /\ loads' = {[l EXCEPT !.current = FALSE] : l \in loads} \cup {NewLoad(r)}

Proceed(l, m) == loads' = (loads \ {l}) \cup {m}

Page(n) == SubSeq(listing, (n - 1) * PageSize + 1, Min({n * PageSize, Len(listing)}))

(* Slip: every page is taken for the last.                                 *)
QueryFirstPage(l) ==
    /\ ~l.listed
    /\ Proceed(l, [l EXCEPT !.rows = @ \o Page(l.next), !.listed = TRUE])
    /\ UNCHANGED <<core, acts, page, posted>>

(* One page, in a snapshot of its own: the last one when as many rows were *)
(* read as there are; a failure when it is empty or one too many.          *)
QueryPage(l) ==
    LET rows == l.rows \o Page(l.next) IN
    /\ ~l.listed
    /\ \/ /\ Len(rows) >= Len(listing)
          /\ Proceed(l, [l EXCEPT !.rows = rows, !.listed = TRUE])
       \/ /\ Len(rows) < Len(listing)
          /\ Page(l.next) # <<>> /\ l.next < MaxPages
          /\ Proceed(l, [l EXCEPT !.rows = rows, !.next = @ + 1])
    /\ UNCHANGED <<core, acts, page, posted>>

(* queryRoleResources.                                                     *)
QueryRole(l) ==
    /\ l.grants = None
    /\ Proceed(l, [l EXCEPT !.grants = granted[l.role]])
    /\ UNCHANGED <<core, acts, page, posted>>

(* Either call fails; the page goes on waiting for a load.                 *)
LoadFails(l) ==
    /\ loads' = loads \ {l}
    /\ UNCHANGED <<core, acts, page, posted>>

Loaded(l) ==
    LET shown == ToSet(l.rows) IN
    [of |-> l.role, shown |-> shown, checked |-> {x \in shown : l.grants[x] # None},
     scope |-> l.grants, free |-> l.free]

Show(l) ==
    page' = [page EXCEPT !.loading = FALSE, !.content = Loaded(l),
                         !.readonly = l.role \in Administrators]

(* Slip: an overtaken load is shown.                                       *)
LateLoadArrives(l) ==
    /\ l.listed /\ l.grants # None
    /\ loads' = loads \ {l}
    /\ Show(l)
    /\ UNCHANGED <<core, acts, posted>>

(* Both calls have answered: shown unless the load was overtaken.          *)
LoadArrives(l) ==
    /\ l.listed /\ l.grants # None
    /\ loads' = loads \ {l}
    /\ IF l.current THEN Show(l) ELSE UNCHANGED page
    /\ UNCHANGED <<core, acts, posted>>

-----------------------------------------------------------------------------
(* The user.                                                               *)

(* A role is selected or, with None, no role.                              *)
SelectRole(r) ==
    /\ r # page.role
    /\ page' = [page EXCEPT !.role = r, !.loading = TRUE, !.content = NothingLoaded]
    /\ IF page.tab = "resource" THEN Load(r) ELSE UNCHANGED loads
    /\ UNCHANGED <<core, acts, posted>>

(* The other tab: the editor is unmounted, and nothing it still waits for  *)
(* reaches the page.                                                       *)
ShowUsers ==
    /\ page.tab = "resource"
    /\ page' = [page EXCEPT !.tab = "user"]
    /\ loads' = {}
    /\ UNCHANGED <<core, acts, posted>>

ShowResources ==
    /\ page.tab = "user"
    /\ page' = [page EXCEPT !.tab = "resource", !.loading = TRUE, !.content = NothingLoaded]
    /\ Load(page.role)
    /\ UNCHANGED <<core, acts, posted>>

Editable ==
    /\ page.tab = "resource" /\ page.role # None /\ ~page.readonly
    /\ \A l \in loads : ~l.current

Act == acts < MaxActs /\ acts' = acts + 1

(* Boxes are ticked, one by one or all of them.                            *)
UpdateSelection(keys) ==
    LET c == page.content IN
    /\ Editable
    /\ keys \subseteq c.shown /\ keys # c.checked
    /\ Act
    /\ page' = [page EXCEPT !.content =
         [c EXCEPT !.checked = keys,
                   !.scope = [x \in Resource |-> IF x \in keys /\ @[x] = None THEN Personal ELSE @[x]],
                   !.free = @ \cup (keys \ c.checked) \cup (c.checked \ keys)]]
    /\ UNCHANGED <<core, loads, posted>>

(* A scope is chosen for a resource and those below it that have one.      *)
ChooseScope(x, below, s) ==
    LET c == page.content IN
    /\ Editable
    /\ Act
    /\ x \in c.shown /\ below \subseteq {y \in c.shown \ {x} : c.scope[y] # None}
    /\ page' = [page EXCEPT !.content =
         [c EXCEPT !.scope = [y \in Resource |-> IF y \in below \cup {x} THEN s ELSE @[y]],
                   !.free = @ \cup below \cup {x}]]
    /\ UNCHANGED <<core, loads, posted>>

Savable ==
    /\ page.tab = "resource" /\ page.role # None
    /\ ~page.loading /\ ~page.readonly /\ ~page.saving

Submit ==
    /\ Savable /\ Act
    /\ LET c == page.content IN
       posted' = [state |-> "sent", role |-> page.role, free |-> c.free,
                  grants |-> [x \in Resource |-> IF x \in c.checked THEN c.scope[x] ELSE None]]
    /\ page' = [page EXCEPT !.saving = TRUE]
    /\ UNCHANGED <<core, loads>>

(* It has succeeded, was refused, or nobody knows.                         *)
SaveAnswers ==
    /\ posted.state # "none"
    /\ posted' = NoPost
    /\ page' = [page EXCEPT !.saving = FALSE]
    /\ UNCHANGED <<core, acts, loads>>

-----------------------------------------------------------------------------
(* The core and the other administrators.                                  *)

(* A change by others.  What has changed since it was read, a save may     *)
(* change again.                                                           *)
Others(inLoad(_), inPage, inPost) ==
    /\ changes < MaxChanges /\ changes' = changes + 1
    /\ loads' = {[l EXCEPT !.free = @ \cup inLoad(l)] : l \in loads}
    /\ page' = IF page.loading THEN page ELSE [page EXCEPT !.content.free = @ \cup inPage]
    /\ posted' = IF posted.state # "sent" THEN posted ELSE [posted EXCEPT !.free = @ \cup inPost]

ReadGrants(r, l) == l.role = r /\ l.grants # None

(* SetRoleResources: all grants of the role are replaced, if each of the   *)
(* new ones is of a resource in force.  A load under way may have read the *)
(* grants already.                                                         *)
SetRoleResources ==
    LET r == posted.role
        Anew == {x \in Resource : posted.grants[x] # granted[r][x]} IN
    /\ posted.state = "sent" /\ r \notin Administrators
    /\ \A x \in Resource \ Active : posted.grants[x] = None
    /\ granted' = [granted EXCEPT ![r] = posted.grants]
    /\ posted' = [NoPost EXCEPT !.state = "done"]
    /\ loads' = {IF ReadGrants(r, l) THEN [l EXCEPT !.free = @ \cup Anew] ELSE l : l \in loads}
    /\ page' = IF page.content.of = r THEN [page EXCEPT !.content.free = @ \cup Anew] ELSE page
    /\ UNCHANGED <<listing, acts, changes>>

(* Another administrator sets or takes one grant.                          *)
OthersGrant(r, x, s) ==
    LET If(b) == IF b THEN {x} ELSE {} IN
    /\ r \notin Administrators /\ x \in Active /\ s # granted[r][x]
    /\ granted' = [granted EXCEPT ![r][x] = s]
    /\ Others(LAMBDA l : If(ReadGrants(r, l)), If(page.content.of = r), If(posted.role = r))
    /\ UNCHANGED <<listing, acts>>

(* Resources are disabled, enabled, sorted anew, or taken from the tenant  *)
(* with their grants.                                                      *)
OthersChangeResources(rows) ==
    LET gone == Resource \ (Active \cap ToSet(rows)) IN
    /\ rows # listing
    /\ listing' = rows
    /\ \/ UNCHANGED granted
       \/ granted' = [r \in Role |-> [x \in Resource |->
                        IF x \in Active \ ToSet(rows) THEN None ELSE granted[r][x]]]
    /\ Others(LAMBDA l : IF l.next > 1 /\ ~l.listed THEN Resource ELSE gone, gone, gone)
    /\ UNCHANGED acts

-----------------------------------------------------------------------------
RoleEditorNext ==
    \/ \E l \in loads : QueryPage(l) \/ QueryRole(l) \/ LoadFails(l) \/ LoadArrives(l)
    \/ \E r \in Role \cup {None} : SelectRole(r)
    \/ ShowUsers \/ ShowResources
    \/ \E keys \in SUBSET Resource : UpdateSelection(keys)
    \/ \E x \in Resource, below \in SUBSET Resource, s \in DataScope : ChooseScope(x, below, s)
    \/ Submit \/ SetRoleResources \/ SaveAnswers
    \/ \E r \in Role, x \in Resource, s \in DataScope \cup {None} : OthersGrant(r, x, s)
    \/ \E X \in SUBSET Resource : \E rows \in SetToSeqs(X) : OthersChangeResources(rows)

RoleEditorSpec == RoleEditorInit /\ [][RoleEditorNext]_roleEditorVars

-----------------------------------------------------------------------------
(* Whenever the page can be saved, it holds what was loaded for the role   *)
(* it is saved to, and that role may be edited: not what an overtaken load *)
(* brings, nor what was on the page before a role or a tab was changed     *)
(* (docs/migration/foundation-acceptance.md:27, "角色资源在切换角色/页签时正确回填").  *)
SavesTheSelectedRole ==
    Savable => page.content.of = page.role /\ page.role \notin Administrators

(* A save takes or changes no grant that the user left alone, as long as   *)
(* nobody else changed it either, it was in force all along, and the list  *)
(* of resources did not change between two pages of it (pagination.go:10,  *)
(* "Full-replacement editors must load every page before allowing a        *)
(* save").                                                                 *)
SaveKeepsTheRest ==
    [][posted.state = "sent" /\ posted'.state = "done" =>
        \A x \in Resource \ posted.free : granted'[posted.role][x] = granted[posted.role][x]
      ]_roleEditorVars

=============================================================================
