-------------------------- MODULE RoleEditor_proofs --------------------------
(***************************************************************************)
(* What the page would save is what the core has, except for what the      *)
(* history calls free.  The same is true of what a load has read of the    *)
(* grants, and a load that goes on has read the first rows of the list as  *)
(* it is now, unless everything is free.                                   *)
(***************************************************************************)
EXTENDS RoleEditor, FiniteSetTheorems, SequenceTheorems, TLAPS

SomeRole == Role \cup {None}
LoadRecord == [role : SomeRole, current : BOOLEAN, next : Nat \ {0}, rows : Seq(Resource),
               listed : BOOLEAN, grants : Grants \cup {None}, free : SUBSET Resource]
Content == [of : SomeRole, shown : SUBSET Resource, checked : SUBSET Resource,
            scope : Grants, free : SUBSET Resource]

TypeOK ==
    /\ listing \in Seq(Resource)
    /\ granted \in [Role -> Grants]
    /\ page \in [role : SomeRole, tab : {"resource", "user"}, loading : BOOLEAN,
                 readonly : BOOLEAN, saving : BOOLEAN, content : Content]
    /\ loads \subseteq LoadRecord
    /\ posted \in [state : {"none", "sent", "done"}, role : SomeRole, grants : Grants,
                   free : SUBSET Resource]

(* The load that is not overtaken is of the role selected, and the page    *)
(* waits for it; what the page shows was loaded for the role selected.     *)
Follows ==
    /\ \A l \in loads : l.current => l.role = page.role /\ page.loading
    /\ \A l, m \in loads : l.current /\ m.current => l = m
    /\ page.tab = "user" => loads = {}
    /\ ~page.loading => /\ page.content.of = page.role
                        /\ page.readonly <=> page.role \in Administrators

Read(l) == (l.next - 1) * PageSize

(* What is read of the list, and of the grants.                            *)
Reads(l) ==
    /\ \A x \in Resource \ l.free : x \in Active
    /\ l.listed => \A x \in Resource \ l.free : x \in ToSet(l.rows)
    /\ ~l.listed /\ l.next = 1 => l.rows = <<>>
    /\ ~l.listed /\ l.free # Resource =>
          /\ Len(l.rows) = Read(l) /\ Read(l) <= Len(listing)
          /\ \A i \in 1..Len(l.rows) : l.rows[i] = listing[i]
    /\ l.role = None => l.grants # None
    /\ l.role # None /\ l.grants # None =>
          \A x \in Resource \ l.free : l.grants[x] = granted[l.role][x]

Posts(c) == [x \in Resource |-> IF x \in c.checked THEN c.scope[x] ELSE None]

Holds(c, r) == r # None => \A x \in Resource \ c.free : Posts(c)[x] = granted[r][x]

IInv ==
    /\ TypeOK /\ Follows
    /\ \A l \in loads : Reads(l)
    /\ \A x \in page.content.checked : page.content.scope[x] # None
    /\ ~page.loading => Holds(page.content, page.role)
    /\ posted.state = "sent" =>
          /\ posted.role \in Role
          /\ \A x \in Resource \ posted.free : posted.grants[x] = granted[posted.role][x]

-----------------------------------------------------------------------------
LEMMA ArrangedResources ==
    ASSUME NEW X \in SUBSET Resource, NEW rows \in SetToSeqs(X)
    PROVE  rows \in Seq(Resource)
<1>1. Cardinality(X) \in Nat
    BY RoleEditorAssumption, FS_Subset, FS_CardinalityType
<1>2. rows \in [1..Cardinality(X) -> Resource]
    BY DEF SetToSeqs
<1> QED
    BY <1>1, <1>2

LEMMA Types ==
    /\ NoGrants \in Grants
    /\ NothingLoaded \in Content
    /\ NoPost \in [state : {"none", "sent", "done"}, role : SomeRole, grants : Grants,
                   free : SUBSET Resource]
    /\ \A r \in SomeRole : NewLoad(r) \in LoadRecord
BY RoleEditorAssumption DEF NoGrants, Grants, NothingLoaded, NoPost, Content, SomeRole, NewLoad, LoadRecord

LEMMA NewLoadReads ==
    ASSUME TypeOK, NEW r \in SomeRole PROVE Reads(NewLoad(r))
BY RoleEditorAssumption, Types DEF Reads, NewLoad, Read, TypeOK, Grants, SomeRole

LEMMA InitEstablishes == RoleEditorInit => IInv
<1> SUFFICES ASSUME RoleEditorInit PROVE IInv
    OBVIOUS
<1>1. TypeOK
    BY Types, ArrangedResources DEF RoleEditorInit, TypeOK, SomeRole
<1>2. Follows
    BY DEF RoleEditorInit, Follows, NewLoad
<1>3. \A l \in loads : Reads(l)
    BY <1>1, NewLoadReads DEF RoleEditorInit, SomeRole
<1> QED
    BY <1>1, <1>2, <1>3 DEF RoleEditorInit, IInv, NothingLoaded, NoPost

-----------------------------------------------------------------------------
(* Loading.                                                                *)

LEMMA Smaller ==
    ASSUME NEW a \in Int, NEW b \in Int
    PROVE  /\ Min({a, b}) \in {a, b}
           /\ Min({a, b}) <= a /\ Min({a, b}) <= b
BY DEF Min

(* A load that goes on, or another that takes its place.                   *)
LEMMA ProceedKeeps ==
    ASSUME IInv, NEW l \in loads, NEW m \in LoadRecord, Proceed(l, m),
           m.role = l.role, m.current = l.current, Reads(m),
           UNCHANGED <<core, acts, page, posted>>
    PROVE  IInv'
<1>1. \A k \in loads' : Reads(k)'
    BY DEF Proceed, IInv, Reads, Read, core, Active
<1>2. TypeOK'
    BY DEF Proceed, IInv, TypeOK, core
<1>3. Follows'
    BY DEF Proceed, IInv, Follows, core
<1> QED
    BY <1>1, <1>2, <1>3 DEF IInv, Holds, Posts, core

(* The first rows of a list, and then the next ones up to the n-th.        *)
LEMMA FirstRows ==
    ASSUME NEW S, NEW list \in Seq(S), NEW first \in Seq(S), NEW n \in Nat,
           Len(first) <= n, n <= Len(list),
           \A i \in 1..Len(first) : first[i] = list[i]
    PROVE  LET rows == first \o SubSeq(list, Len(first) + 1, n)
           IN  /\ rows \in Seq(S) /\ Len(rows) = n
               /\ \A i \in 1..n : rows[i] = list[i]
<1> DEFINE next == SubSeq(list, Len(first) + 1, n)
<1>1. /\ next \in Seq(S) /\ Len(next) = n - Len(first)
      /\ \A i \in 1..(n - Len(first)) : next[i] = list[Len(first) + i]
    OBVIOUS
<1> HIDE DEF next
<1>2. /\ first \o next \in Seq(S) /\ Len(first \o next) = Len(first) + Len(next)
      /\ \A i \in 1..Len(first) + Len(next) :
            (first \o next)[i] = IF i <= Len(first) THEN first[i] ELSE next[i - Len(first)]
    BY <1>1, ConcatProperties
<1>3. Len(first) \in Nat /\ Len(first) + Len(next) = n
    BY <1>1
<1>4. ASSUME NEW i \in 1..n PROVE (first \o next)[i] = list[i]
    <2>1. CASE i <= Len(first)
        BY <1>2, <1>3, <2>1
    <2>2. CASE ~(i <= Len(first))
        <3>1. i - Len(first) \in 1..(n - Len(first)) /\ Len(first) + (i - Len(first)) = i
            BY <1>3, <2>2
        <3>2. (first \o next)[i] = next[i - Len(first)]
            BY <1>2, <1>3, <2>2
        <3> QED
            BY <1>1, <3>1, <3>2
    <2> QED
        BY <2>1, <2>2
<1> QED
    BY <1>2, <1>3, <1>4 DEF next

(* What a load has read when it reads the next page.                       *)
LEMMA PageFollows ==
    ASSUME IInv, NEW l \in loads, ~l.listed, l.free # Resource
    PROVE  LET rows == l.rows \o Page(l.next)
           IN  /\ Len(rows) <= Len(listing)
               /\ Len(rows) = l.next * PageSize \/ Len(rows) = Len(listing)
               /\ \A i \in 1..Len(rows) : rows[i] = listing[i]
<1>1. /\ l.next \in Nat \ {0} /\ listing \in Seq(Resource) /\ l.rows \in Seq(Resource)
      /\ Len(l.rows) = (l.next - 1) * PageSize /\ Len(l.rows) <= Len(listing)
      /\ \A i \in 1..Len(l.rows) : l.rows[i] = listing[i]
    BY DEF IInv, TypeOK, LoadRecord, Reads, Read
<1> DEFINE n == Min({l.next * PageSize, Len(listing)})
           rows == l.rows \o SubSeq(listing, Len(l.rows) + 1, n)
<1>2. /\ l.next * PageSize \in Nat /\ Len(l.rows) <= l.next * PageSize
      /\ l.next * PageSize \in Int /\ Len(listing) \in Int /\ Len(listing) \in Nat
    BY <1>1, RoleEditorAssumption
<1>3. n \in {l.next * PageSize, Len(listing)} /\ n <= Len(listing)
    BY <1>2, Smaller, Zenon
<1>4. l.rows \o Page(l.next) = rows
    BY <1>1 DEF Page
<1> HIDE DEF n
<1>5. n \in Nat /\ Len(l.rows) <= n
    BY <1>1, <1>2, <1>3
<1>6. Len(rows) = n /\ \A i \in 1..n : rows[i] = listing[i]
    <2> DEFINE first == l.rows
    <2>1. /\ first \in Seq(Resource) /\ listing \in Seq(Resource) /\ n \in Nat
          /\ Len(first) <= n /\ n <= Len(listing)
          /\ \A i \in 1..Len(first) : first[i] = listing[i]
        BY <1>1, <1>3, <1>5
    <2> HIDE DEF first
    <2>2. /\ Len(first \o SubSeq(listing, Len(first) + 1, n)) = n
          /\ \A i \in 1..n : (first \o SubSeq(listing, Len(first) + 1, n))[i] = listing[i]
        BY <2>1, FirstRows, Zenon
    <2> QED
        BY <2>2, Zenon DEF first
<1> HIDE DEF rows
<1> QED
    BY <1>3, <1>4, <1>6

LEMMA RowsType ==
    ASSUME IInv, NEW l \in loads PROVE l.rows \o Page(l.next) \in Seq(Resource)
<1>1. listing \in Seq(Resource) /\ l.rows \in Seq(Resource) /\ l.next \in Nat \ {0}
    BY DEF IInv, TypeOK, LoadRecord
<1> DEFINE k == (l.next - 1) * PageSize
           n == Min({l.next * PageSize, Len(listing)})
<1>2. /\ k \in Nat /\ l.next * PageSize \in Nat /\ Len(listing) \in Nat
      /\ l.next * PageSize \in Int /\ Len(listing) \in Int
    BY <1>1, RoleEditorAssumption
<1>3. n \in Nat /\ n <= Len(listing)
    <2>1. n \in {l.next * PageSize, Len(listing)} /\ n <= Len(listing)
        BY <1>2, Smaller, Zenon
    <2> QED
        BY <1>2, <2>1
<1>4. Page(l.next) = SubSeq(listing, k + 1, n)
    BY DEF Page
<1> HIDE DEF k, n
<1> QED
    BY <1>1, <1>2, <1>3, <1>4

LEMMA QueryPageKeeps ==
    ASSUME IInv, NEW l \in loads, QueryPage(l) PROVE IInv'
<1> DEFINE rows == l.rows \o Page(l.next)
<1>0. /\ l \in LoadRecord /\ Reads(l) /\ listing \in Seq(Resource) /\ ~l.listed
      /\ UNCHANGED <<core, acts, page, posted>>
    BY DEF IInv, TypeOK, QueryPage
<1>1. rows \in Seq(Resource)
    BY RowsType
<1>2. l.free # Resource =>
         /\ Len(rows) <= Len(listing)
         /\ Len(rows) = l.next * PageSize \/ Len(rows) = Len(listing)
         /\ \A i \in 1..Len(rows) : rows[i] = listing[i]
    BY <1>0, PageFollows, Zenon
<1> HIDE DEF rows
<1>3. CASE Len(rows) >= Len(listing) /\ Proceed(l, [l EXCEPT !.rows = rows, !.listed = TRUE])
    <2> DEFINE m == [l EXCEPT !.rows = rows, !.listed = TRUE]
    <2>1. m \in LoadRecord /\ m.role = l.role /\ m.current = l.current
        BY <1>0, <1>1 DEF LoadRecord
    <2>2. Len(rows) >= Len(listing)
        BY <1>3
    <2>3. ASSUME NEW x \in Resource \ l.free PROVE x \in ToSet(rows)
        <3>1. PICK i \in 1..Len(listing) : listing[i] = x
            BY <1>0, <2>3 DEF Reads, Active, ToSet
        <3>2. Len(rows) \in Nat /\ Len(listing) \in Nat /\ DOMAIN rows = 1..Len(rows)
            BY <1>0, <1>1
        <3>3. i \in 1..Len(rows) /\ rows[i] = listing[i]
            BY <1>2, <2>2, <3>2
        <3> QED
            BY <3>1, <3>2, <3>3 DEF ToSet
    <2>4. Reads(m)
        BY <1>0, <2>3 DEF Reads, LoadRecord
    <2> QED
        BY <1>0, <1>3, <2>1, <2>4, ProceedKeeps
<1>4. CASE /\ Len(rows) < Len(listing)
           /\ Proceed(l, [l EXCEPT !.rows = rows, !.next = l.next + 1])
    <2> DEFINE m == [l EXCEPT !.rows = rows, !.next = l.next + 1]
    <2>0. l.next + 1 \in Nat \ {0}
        BY <1>0 DEF LoadRecord
    <2>1. m \in LoadRecord /\ m.role = l.role /\ m.current = l.current
        BY <1>0, <1>1, <2>0 DEF LoadRecord
    <2>2. Len(rows) < Len(listing) /\ Len(rows) \in Nat /\ Len(listing) \in Nat
        BY <1>0, <1>1, <1>4
    <2>3. l.free # Resource => Len(rows) = l.next * PageSize
        BY <1>2, <2>2
    <2>4. Read(m) = l.next * PageSize /\ m.next # 1
        BY <1>0 DEF Read, LoadRecord
    <2>5. Reads(m)
        BY <1>0, <1>1, <1>2, <2>2, <2>3, <2>4 DEF Reads, LoadRecord
    <2> QED
        BY <1>0, <1>4, <2>1, <2>5, ProceedKeeps
<1> QED
    BY <1>3, <1>4 DEF QueryPage, rows

LEMMA QueryRoleKeeps ==
    ASSUME IInv, NEW l \in loads, QueryRole(l) PROVE IInv'
<1> DEFINE m == [l EXCEPT !.grants = granted[l.role]]
<1>1. l \in LoadRecord /\ Reads(l) /\ l.role \in Role /\ granted[l.role] \in Grants
    BY DEF IInv, TypeOK, QueryRole, Reads, LoadRecord, SomeRole
<1>2. m \in LoadRecord /\ m.role = l.role /\ m.current = l.current
    BY <1>1 DEF LoadRecord
<1>3. m.next = l.next /\ m.rows = l.rows /\ m.listed = l.listed /\ m.free = l.free
      /\ m.grants = granted[l.role]
    BY <1>1 DEF LoadRecord
<1> HIDE DEF m
<1>4. Reads(m)
    <2>1. Read(m) = Read(l)
        BY <1>3 DEF Read
    <2> QED
        BY <1>1, <1>2, <1>3, <2>1 DEF Reads, QueryRole
<1> QED
    BY <1>2, <1>4, ProceedKeeps DEF QueryRole, m

LEMMA LoadFailsKeeps ==
    ASSUME IInv, NEW l \in loads, LoadFails(l) PROVE IInv'
<1>1. \A k \in loads' : Reads(k)'
    BY DEF LoadFails, IInv, Reads, Read, core, Active
<1>2. TypeOK' /\ Follows'
    BY DEF LoadFails, IInv, TypeOK, Follows, core
<1> QED
    BY <1>1, <1>2 DEF LoadFails, IInv, Holds, Posts, core

LEMMA LoadArrivesKeeps ==
    ASSUME IInv, NEW l \in loads, LoadArrives(l) PROVE IInv'
<1>0. /\ l \in LoadRecord /\ Reads(l) /\ l.listed /\ l.grants \in Grants /\ l.grants # None
      /\ loads' = loads \ {l} /\ UNCHANGED <<listing, granted, changes, acts, posted>>
    BY DEF IInv, TypeOK, LoadArrives, LoadRecord, core
<1>1. \A k \in loads' : Reads(k)'
    BY <1>0 DEF IInv, Reads, Read, Active
<1>2. CASE ~l.current
    <2>1. TypeOK' /\ Follows'
        BY <1>0, <1>2 DEF LoadArrives, IInv, TypeOK, Follows
    <2> QED
        BY <1>0, <1>1, <1>2, <2>1 DEF LoadArrives, IInv, Holds, Posts
<1>3. CASE l.current
    <2> DEFINE c == Loaded(l)
    <2>1. c \in Content /\ c.of = l.role /\ c.checked = {x \in ToSet(l.rows) : l.grants[x] # None}
          /\ c.scope = l.grants /\ c.free = l.free
        BY <1>0 DEF Loaded, Content, LoadRecord, ToSet
    <2>2. l.role = page.role /\ Show(l)
        BY <1>0, <1>3 DEF IInv, Follows, LoadArrives
    <2> DEFINE b == l.role \in Administrators
    <2> b \in BOOLEAN
        OBVIOUS
    <2>3. page' = [page EXCEPT !.loading = FALSE, !.content = c, !.readonly = b]
        BY <2>2 DEF Show
    <2> HIDE DEF c, b
    <2>4. /\ TypeOK'
          /\ page'.content = c /\ page'.role = page.role /\ page'.tab = page.tab
          /\ page'.loading = FALSE /\ page'.readonly = b
        BY <1>0, <2>1, <2>3 DEF IInv, TypeOK
    <2>5. Follows'
        BY <1>0, <1>3, <2>1, <2>2, <2>4 DEF IInv, Follows, b
    <2>6. ASSUME page.role # None, NEW x \in Resource \ c.free
          PROVE  Posts(c)[x] = granted[page.role][x]
        <3>1. x \in ToSet(l.rows) /\ l.grants[x] = granted[page.role][x]
            BY <1>0, <2>1, <2>2, <2>6 DEF Reads
        <3> QED
            BY <2>1, <2>6, <3>1 DEF Posts
    <2>7. Holds(page.content, page.role)'
        BY <1>0, <2>4, <2>6 DEF Holds, Posts
    <2> QED
        BY <1>0, <1>1, <2>1, <2>4, <2>5, <2>7 DEF IInv
<1> QED
    BY <1>0, <1>2, <1>3 DEF LoadRecord

-----------------------------------------------------------------------------
(* The user.                                                               *)

(* Whoever loads anew is the only one the page waits for.                  *)
LEMMA LoadKeeps ==
    ASSUME IInv, NEW r \in SomeRole, Load(r), UNCHANGED core
    PROVE  /\ loads' \subseteq LoadRecord
           /\ \A k \in loads' : Reads(k)'
           /\ \A k \in loads' : k.current => k = NewLoad(r)
           /\ NewLoad(r).role = r
<1> DEFINE Overtaken(l) == [l EXCEPT !.current = FALSE]
<1>1. ASSUME NEW l \in loads
      PROVE  Overtaken(l) \in LoadRecord /\ Reads(Overtaken(l)) /\ ~Overtaken(l).current
    <2>1. l \in LoadRecord /\ Reads(l)
        BY DEF IInv, TypeOK
    <2> QED
        BY <2>1 DEF Reads, Read, LoadRecord
<1>2. NewLoad(r) \in LoadRecord /\ Reads(NewLoad(r)) /\ NewLoad(r).role = r
    BY Types, NewLoadReads DEF IInv, NewLoad
<1>3. \A k \in loads' : k = NewLoad(r) \/ \E l \in loads : k = Overtaken(l)
    BY DEF Load
<1> HIDE DEF Overtaken
<1>4. \A k \in loads' : k \in LoadRecord /\ Reads(k) /\ (k.current => k = NewLoad(r))
    BY <1>1, <1>2, <1>3
<1>5. \A k \in loads' : Reads(k)'
    BY <1>4 DEF core, Reads, Read, Active
<1> QED
    BY <1>2, <1>4, <1>5

LEMMA SelectRoleKeeps ==
    ASSUME IInv, NEW r \in SomeRole, SelectRole(r) PROVE IInv'
<1>0. UNCHANGED <<listing, granted, changes, acts, posted>>
    BY DEF SelectRole, core
<1>1. /\ page' \in [role : SomeRole, tab : {"resource", "user"}, loading : BOOLEAN,
                    readonly : BOOLEAN, saving : BOOLEAN, content : Content]
      /\ page'.role = r /\ page'.loading /\ page'.content = NothingLoaded /\ page'.tab = page.tab
    BY Types DEF SelectRole, IInv, TypeOK
<1>2. loads' \subseteq LoadRecord /\ (\A k \in loads' : Reads(k)') /\ Follows'
    <2>1. CASE page.tab = "resource"
        BY <1>0, <1>1, <2>1, LoadKeeps DEF SelectRole, core, Follows
    <2>2. CASE page.tab = "user"
        BY <1>1, <2>2 DEF SelectRole, IInv, Follows
    <2> QED
        BY <2>1, <2>2 DEF IInv, TypeOK
<1> QED
    BY <1>0, <1>1, <1>2 DEF IInv, TypeOK, NothingLoaded

LEMMA TabKeeps ==
    ASSUME IInv, ShowUsers \/ ShowResources PROVE IInv'
<1>0. UNCHANGED <<listing, granted, changes, acts, posted>>
    BY DEF ShowUsers, ShowResources, core
<1>1. CASE ShowUsers
    <2>1. /\ page' \in [role : SomeRole, tab : {"resource", "user"}, loading : BOOLEAN,
                        readonly : BOOLEAN, saving : BOOLEAN, content : Content]
          /\ page'.role = page.role /\ page'.loading = page.loading
          /\ page'.content = page.content /\ page'.readonly = page.readonly /\ loads' = {}
        BY <1>1 DEF ShowUsers, IInv, TypeOK
    <2>2. TypeOK' /\ Follows'
        BY <1>0, <2>1 DEF IInv, TypeOK, Follows
    <2> QED
        BY <1>0, <2>1, <2>2 DEF IInv, Holds, Posts
<1>2. CASE ShowResources
    <2>1. /\ page' \in [role : SomeRole, tab : {"resource", "user"}, loading : BOOLEAN,
                        readonly : BOOLEAN, saving : BOOLEAN, content : Content]
          /\ page.role \in SomeRole /\ page'.role = page.role /\ page'.loading
          /\ page'.content = NothingLoaded /\ page'.tab = "resource"
        BY <1>2, Types DEF ShowResources, IInv, TypeOK
    <2>2. loads' \subseteq LoadRecord /\ (\A k \in loads' : Reads(k)') /\ Follows'
        BY <1>0, <1>2, <2>1, LoadKeeps DEF ShowResources, core, Follows
    <2> QED
        BY <1>0, <2>1, <2>2 DEF IInv, TypeOK, NothingLoaded
<1> QED
    BY <1>1, <1>2

(* What the user does changes what is posted only where it is free.        *)
LEMMA EditKeeps ==
    ASSUME IInv, NEW c \in Content, page' = [page EXCEPT !.content = c],
           UNCHANGED <<core, loads, posted>>,
           c.of = page.content.of,
           \A x \in c.checked : c.scope[x] # None,
           page.content.free \subseteq c.free,
           \A x \in Resource \ c.free : Posts(c)[x] = Posts(page.content)[x]
    PROVE  IInv'
<1>1. /\ TypeOK'
      /\ page'.content = c /\ page'.role = page.role /\ page'.tab = page.tab
      /\ page'.loading = page.loading /\ page'.readonly = page.readonly
    BY DEF IInv, TypeOK, core
<1>2. Follows'
    BY <1>1 DEF IInv, Follows
<1>3. \A k \in loads' : Reads(k)'
    BY DEF IInv, core, Reads, Read, Active
<1>4. ~page.loading => Holds(page.content, page.role)'
    <2>1. SUFFICES ASSUME Holds(page.content, page.role), page.role # None,
                          NEW x \in Resource \ c.free
                   PROVE  Posts(c)[x] = granted[page.role][x]
        BY <1>1 DEF IInv, Holds, Posts, core
    <2> QED
        BY <2>1 DEF Holds
<1> QED
    BY <1>1, <1>2, <1>3, <1>4 DEF IInv, core

LEMMA UpdateSelectionKeeps ==
    ASSUME IInv, NEW keys \in SUBSET Resource, UpdateSelection(keys) PROVE IInv'
<1> DEFINE p == page.content
           scope == [x \in Resource |-> IF x \in keys /\ p.scope[x] = None THEN Personal
                                                                        ELSE p.scope[x]]
           free == p.free \cup (keys \ p.checked) \cup (p.checked \ keys)
           c == [p EXCEPT !.checked = keys, !.scope = scope, !.free = free]
<1>1. p \in Content /\ page' = [page EXCEPT !.content = c] /\ UNCHANGED <<core, loads, posted>>
    BY DEF IInv, TypeOK, UpdateSelection
<1>2. scope \in Grants /\ free \subseteq Resource /\ \A x \in keys : scope[x] # None
    BY <1>1, RoleEditorAssumption DEF Content, Grants
<1>3. \A x \in Resource \ free : (x \in keys <=> x \in p.checked) /\ (x \in keys => scope[x] = p.scope[x])
    BY <1>1 DEF IInv
<1> HIDE DEF scope
<1>4. /\ c \in Content /\ c.of = p.of /\ c.checked = keys /\ c.scope = scope
      /\ c.free = free /\ p.free \subseteq free
    BY <1>1, <1>2 DEF Content
<1> HIDE DEF free, c
<1>5. \A x \in Resource \ c.free : Posts(c)[x] = Posts(p)[x]
    BY <1>3, <1>4 DEF Posts
<1> QED
    BY <1>1, <1>2, <1>4, <1>5, EditKeeps

LEMMA ChooseScopeKeeps ==
    ASSUME IInv, NEW x \in Resource, NEW below \in SUBSET Resource, NEW s \in DataScope,
           ChooseScope(x, below, s)
    PROVE  IInv'
<1> DEFINE p == page.content
           scope == [y \in Resource |-> IF y \in below \cup {x} THEN s ELSE p.scope[y]]
           free == p.free \cup below \cup {x}
           c == [p EXCEPT !.scope = scope, !.free = free]
<1>1. p \in Content /\ page' = [page EXCEPT !.content = c] /\ UNCHANGED <<core, loads, posted>>
    BY DEF IInv, TypeOK, ChooseScope
<1>2. scope \in Grants /\ free \subseteq Resource /\ \A y \in p.checked : scope[y] # None
    BY <1>1, RoleEditorAssumption DEF IInv, Content, Grants
<1>3. \A y \in Resource \ free : scope[y] = p.scope[y]
    OBVIOUS
<1> HIDE DEF scope
<1>4. /\ c \in Content /\ c.of = p.of /\ c.checked = p.checked /\ c.scope = scope
      /\ c.free = free /\ p.free \subseteq free
    BY <1>1, <1>2 DEF Content
<1> HIDE DEF free, c
<1>5. \A y \in Resource \ c.free : Posts(c)[y] = Posts(p)[y]
    BY <1>3, <1>4 DEF Posts
<1> QED
    BY <1>1, <1>2, <1>4, <1>5, EditKeeps

(* Of what the page holds, all that is not free is what the core has.      *)
LEMMA SubmitKeeps ==
    ASSUME IInv, Submit PROVE IInv'
<1> DEFINE c == page.content
<1>1. /\ c \in Content /\ page.role \in Role /\ ~page.loading
      /\ Posts(c) \in Grants /\ Holds(c, page.role)
      /\ UNCHANGED <<listing, granted, changes, loads>>
    BY DEF IInv, TypeOK, Submit, Savable, SomeRole, Content, Posts, Grants, core
<1>2. /\ posted' = [state |-> "sent", role |-> page.role, free |-> c.free, grants |-> Posts(c)]
      /\ page' = [page EXCEPT !.saving = TRUE]
    BY DEF Submit, Posts
<1> HIDE DEF c
<1>3. TypeOK' /\ Follows' /\ page'.content = page.content /\ page'.role = page.role
      /\ page'.loading = page.loading
    <2>1. /\ page' \in [role : SomeRole, tab : {"resource", "user"}, loading : BOOLEAN,
                        readonly : BOOLEAN, saving : BOOLEAN, content : Content]
          /\ page'.role = page.role /\ page'.loading = page.loading /\ page'.tab = page.tab
          /\ page'.content = page.content /\ page'.readonly = page.readonly
        BY <1>2 DEF IInv, TypeOK
    <2>2. posted' \in [state : {"none", "sent", "done"}, role : SomeRole, grants : Grants,
                       free : SUBSET Resource]
        BY <1>1, <1>2 DEF SomeRole, Content
    <2> QED
        BY <1>1, <2>1, <2>2 DEF IInv, TypeOK, Follows
<1>4. \A k \in loads' : Reads(k)'
    BY <1>1 DEF IInv, Reads, Read, Active
<1>5. /\ posted'.role \in Role
      /\ \A x \in Resource \ posted'.free : posted'.grants[x] = granted'[posted'.role][x]
    <2>1. posted'.role = page.role /\ posted'.free = c.free /\ posted'.grants = Posts(c)
        BY <1>2
    <2> QED
        BY <1>1, <2>1, RoleEditorAssumption DEF Holds
<1> QED
    BY <1>1, <1>3, <1>4, <1>5 DEF IInv, Holds, Posts

LEMMA SaveAnswersKeeps ==
    ASSUME IInv, SaveAnswers PROVE IInv'
<1>1. /\ UNCHANGED <<listing, granted, loads>>
      /\ page' \in [role : SomeRole, tab : {"resource", "user"}, loading : BOOLEAN,
                    readonly : BOOLEAN, saving : BOOLEAN, content : Content]
      /\ page'.role = page.role /\ page'.loading = page.loading /\ page'.tab = page.tab
      /\ page'.content = page.content /\ page'.readonly = page.readonly
    BY DEF IInv, TypeOK, SaveAnswers, core
<1>2. TypeOK' /\ Follows' /\ posted'.state # "sent"
    BY <1>1, Types DEF IInv, TypeOK, Follows, SaveAnswers, NoPost
<1>3. \A k \in loads' : Reads(k)'
    BY <1>1 DEF IInv, Reads, Read, Active
<1> QED
    BY <1>1, <1>2, <1>3 DEF IInv, Holds, Posts

-----------------------------------------------------------------------------
(* The core and the other administrators.                                  *)

(* What others change of what a load has read becomes free.                *)
LEMMA FreedReads ==
    ASSUME IInv, listing' \in Seq(Resource), NEW l \in loads, NEW X \in SUBSET Resource,
           \A x \in Resource \ (l.free \cup X) : x \in Active',
           l.role # None /\ l.grants # None =>
              \A x \in Resource \ (l.free \cup X) : granted'[l.role][x] = granted[l.role][x],
           listing' = listing \/ l.listed \/ l.next = 1 \/ X = Resource
    PROVE  /\ [l EXCEPT !.free = @ \cup X] \in LoadRecord
           /\ Reads([l EXCEPT !.free = @ \cup X])'
           /\ [l EXCEPT !.free = @ \cup X].role = l.role
           /\ [l EXCEPT !.free = @ \cup X].current = l.current
<1> DEFINE m == [l EXCEPT !.free = @ \cup X]
<1>1. l \in LoadRecord /\ Reads(l)
    BY DEF IInv, TypeOK
<1>2. /\ m \in LoadRecord /\ m.role = l.role /\ m.current = l.current /\ m.next = l.next
      /\ m.rows = l.rows /\ m.listed = l.listed /\ m.grants = l.grants /\ m.free = l.free \cup X
    BY <1>1 DEF LoadRecord
<1> HIDE DEF m
<1>3. Read(m) = Read(l) /\ (l.next = 1 => Read(l) = 0)
    BY <1>2, RoleEditorAssumption DEF Read
<1>4. ~l.listed /\ m.free # Resource =>
          /\ Len(l.rows) = Read(l) /\ Read(l) <= Len(listing')
          /\ \A i \in 1..Len(l.rows) : l.rows[i] = listing'[i]
    <2>1. CASE l.next = 1 /\ ~l.listed
        BY <1>1, <1>3, <2>1 DEF Reads
    <2>2. CASE listing' = listing /\ ~l.listed
        BY <1>1, <1>2, <2>2 DEF Reads, LoadRecord
    <2> QED
        BY <1>1, <1>2, <2>1, <2>2 DEF LoadRecord
<1>5. Reads(m)'
    BY <1>1, <1>2, <1>3, <1>4 DEF Reads
<1> QED
    BY <1>2, <1>5 DEF m

LEMMA ChangeKeeps ==
    ASSUME IInv, listing' \in Seq(Resource), granted' \in [Role -> Grants],
           NEW G, loads' = {G[l] : l \in loads},
           \A l \in loads : /\ G[l] \in LoadRecord /\ Reads(G[l])'
                            /\ G[l].role = l.role /\ G[l].current = l.current,
           NEW X \in SUBSET Resource, page' = [page EXCEPT !.content.free = @ \cup X],
           ~page.loading /\ page.role # None =>
              \A x \in Resource \ (page.content.free \cup X) :
                 granted'[page.role][x] = granted[page.role][x],
           posted' \in [state : {"none", "sent", "done"}, role : SomeRole, grants : Grants,
                        free : SUBSET Resource],
           posted'.state = "sent" =>
              /\ posted.state = "sent" /\ posted'.role = posted.role
              /\ posted'.grants = posted.grants /\ posted.free \subseteq posted'.free
              /\ \A x \in Resource \ posted'.free :
                    granted'[posted.role][x] = granted[posted.role][x]
    PROVE  IInv'
<1> DEFINE c == page.content
           d == [c EXCEPT !.free = @ \cup X]
<1>1. /\ d \in Content /\ d.of = c.of /\ d.checked = c.checked /\ d.scope = c.scope
      /\ d.free = c.free \cup X
    BY DEF IInv, TypeOK, Content
<1>2. /\ page' \in [role : SomeRole, tab : {"resource", "user"}, loading : BOOLEAN,
                    readonly : BOOLEAN, saving : BOOLEAN, content : Content]
      /\ page'.content = d /\ page'.role = page.role /\ page'.tab = page.tab
      /\ page'.loading = page.loading /\ page'.readonly = page.readonly
    <2>1. page' = [page EXCEPT !.content = d]
        OBVIOUS
    <2> HIDE DEF d
    <2> QED
        BY <1>1, <2>1 DEF IInv, TypeOK
<1> HIDE DEF d
<1>3. TypeOK' /\ Follows'
    <2>1. loads' \subseteq LoadRecord /\ \A k \in loads' : \E l \in loads : k = G[l]
        OBVIOUS
    <2>2. TypeOK'
        BY <1>2, <2>1 DEF IInv, TypeOK
    <2>3. Follows'
        <3>1. \A k \in loads' : k.current => k.role = page.role /\ page.loading
            BY <2>1 DEF IInv, Follows
        <3>2. \A k, m \in loads' : k.current /\ m.current => k = m
            BY <2>1 DEF IInv, Follows
        <3>3. page.tab = "user" => loads' = {}
            BY DEF IInv, Follows
        <3> QED
            BY <1>1, <1>2, <3>1, <3>2, <3>3 DEF IInv, Follows
    <2> QED
        BY <2>2, <2>3
<1>4. \A k \in loads' : Reads(k)'
    OBVIOUS
<1>5. ~page'.loading => Holds(page.content, page.role)'
    <2>1. ASSUME ~page.loading, page.role # None, NEW x \in Resource \ d.free
          PROVE  Posts(d)[x] = granted'[page.role][x]
        <3>1. Holds(c, page.role) /\ x \in Resource \ (c.free \cup X)
            BY <1>1, <2>1 DEF IInv
        <3>2. Posts(d)[x] = Posts(c)[x] /\ Posts(c)[x] = granted[page.role][x]
            BY <1>1, <2>1, <3>1 DEF Posts, Holds
        <3>3. granted'[page.role][x] = granted[page.role][x]
            BY <2>1, <3>1
        <3> QED
            BY <3>2, <3>3
    <2>2. ~page.loading => (page.role # None => \A x \in Resource \ d.free : Posts(d)[x] = granted'[page.role][x])
        BY <2>1
    <2>3. Posts(page'.content) = Posts(d)
        BY <1>2
    <2> QED
        BY <1>2, <2>2, <2>3, ZenonT(30) DEF Holds
<1>6. posted'.state = "sent" =>
          /\ posted'.role \in Role
          /\ \A x \in Resource \ posted'.free : posted'.grants[x] = granted'[posted'.role][x]
    BY DEF IInv
<1>7. \A x \in page'.content.checked : page'.content.scope[x] # None
    BY <1>1, <1>2 DEF IInv
<1> QED
    BY <1>3, <1>4, <1>5, <1>6, <1>7, ZenonT(30) DEF IInv

LEMMA SetRoleResourcesKeeps ==
    ASSUME IInv, SetRoleResources PROVE IInv'
<1>1. PICK r \in Role : r = posted.role
    BY DEF IInv, SetRoleResources
<1>2. PICK Anew \in SUBSET Resource : Anew = {x \in Resource : posted.grants[x] # granted[r][x]}
    OBVIOUS
<1>3. PICK G : G = [l \in loads |-> IF ReadGrants(r, l) THEN [l EXCEPT !.free = @ \cup Anew] ELSE l]
    OBVIOUS
<1>4. PICK X \in SUBSET Resource : X = IF page.content.of = r THEN Anew ELSE {}
    OBVIOUS
<1>5. /\ posted.grants \in Grants /\ listing' = listing /\ listing \in Seq(Resource)
      /\ granted \in [Role -> Grants] /\ granted' = [granted EXCEPT ![r] = posted.grants]
    BY <1>1 DEF IInv, TypeOK, SetRoleResources
<1>6. loads' = {G[l] : l \in loads}
    BY <1>1, <1>2, <1>3 DEF SetRoleResources
<1>7. /\ granted' \in [Role -> Grants]
      /\ \A q \in Role : \A x \in Resource : q # r \/ x \notin Anew => granted'[q][x] = granted[q][x]
    BY <1>2, <1>5
<1>8. page' = [page EXCEPT !.content.free = @ \cup X]
    <2>1. page' = IF page.content.of = r THEN [page EXCEPT !.content.free = @ \cup Anew] ELSE page
        BY <1>1, <1>2 DEF SetRoleResources
    <2>2. page = [page EXCEPT !.content.free = @ \cup {}]
        BY DEF IInv, TypeOK, Content
    <2> QED
        BY <1>4, <2>1, <2>2
<1>9. posted' \in [state : {"none", "sent", "done"}, role : SomeRole, grants : Grants,
                   free : SUBSET Resource]
      /\ posted'.state # "sent"
    BY Types DEF SetRoleResources, NoPost
<1>10. ASSUME NEW l \in loads
       PROVE  /\ G[l] \in LoadRecord /\ Reads(G[l])' /\ G[l].role = l.role /\ G[l].current = l.current
    <2>1. l \in LoadRecord /\ Reads(l)
        BY DEF IInv, TypeOK
    <2>2. \A x \in Resource \ l.free : x \in Active'
        BY <1>5, <2>1 DEF Reads, Active
    <2>3. CASE ReadGrants(r, l)
        <3> DEFINE m == [l EXCEPT !.free = @ \cup Anew]
        <3>1. /\ \A x \in Resource \ (l.free \cup Anew) : x \in Active'
              /\ \A x \in Resource \ (l.free \cup Anew) : granted'[l.role][x] = granted[l.role][x]
            BY <1>7, <2>2, <2>3 DEF ReadGrants
        <3>2. m \in LoadRecord /\ Reads(m)' /\ m.role = l.role /\ m.current = l.current
            BY <1>5, <3>1, FreedReads
        <3>3. G[l] = m
            BY <1>3, <2>3
        <3> HIDE DEF m
        <3> QED
            BY <3>2, <3>3
    <2>4. CASE ~ReadGrants(r, l)
        <3>1. l.grants # None => l.role # r
            BY <2>4 DEF ReadGrants
        <3>2. Reads(l)'
            BY <1>5, <1>7, <2>1, <3>1 DEF Reads, Read, Active, LoadRecord, SomeRole
        <3>3. G[l] = l
            BY <1>3, <2>4
        <3> QED
            BY <2>1, <3>2, <3>3
    <2> QED
        BY <2>3, <2>4
<1>11. ~page.loading /\ page.role # None =>
         \A x \in Resource \ (page.content.free \cup X) :
            granted'[page.role][x] = granted[page.role][x]
    BY <1>4, <1>7 DEF IInv, TypeOK, Follows, SomeRole
<1>12. listing' \in Seq(Resource) /\ granted' \in [Role -> Grants]
    BY <1>5, <1>7
<1> QED
    BY <1>6, <1>8, <1>9, <1>10, <1>11, <1>12, ChangeKeeps, Zenon

LEMMA OthersGrantKeeps ==
    ASSUME IInv, NEW r \in Role, NEW y \in Resource, NEW s \in DataScope \cup {None},
           OthersGrant(r, y, s)
    PROVE  IInv'
<1>1. PICK G : G = [l \in loads |->
                      [l EXCEPT !.free = @ \cup IF ReadGrants(r, l) THEN {y} ELSE {}]]
    OBVIOUS
<1>2. PICK X \in SUBSET Resource :
         X = IF ~page.loading /\ page.content.of = r THEN {y} ELSE {}
    OBVIOUS
<1>3. /\ listing' = listing /\ listing \in Seq(Resource)
      /\ granted \in [Role -> Grants] /\ granted' = [granted EXCEPT ![r][y] = s]
    BY DEF IInv, TypeOK, OthersGrant
<1>4. /\ granted' \in [Role -> Grants]
      /\ \A q \in Role : \A x \in Resource : q # r \/ x # y => granted'[q][x] = granted[q][x]
    BY <1>3 DEF Grants
<1>5. loads' = {G[l] : l \in loads}
    BY <1>1 DEF OthersGrant, Others
<1>6. page' = [page EXCEPT !.content.free = @ \cup X]
    <2>1. page' = IF page.loading THEN page
                  ELSE [page EXCEPT !.content.free = @ \cup IF page.content.of = r THEN {y} ELSE {}]
        BY DEF OthersGrant, Others
    <2>2. page = [page EXCEPT !.content.free = @ \cup {}]
        BY DEF IInv, TypeOK, Content
    <2> QED
        BY <1>2, <2>1, <2>2
<1>7. /\ posted' \in [state : {"none", "sent", "done"}, role : SomeRole, grants : Grants,
                      free : SUBSET Resource]
      /\ posted'.state = "sent" =>
            /\ posted.state = "sent" /\ posted'.role = posted.role
            /\ posted'.grants = posted.grants /\ posted.free \subseteq posted'.free
            /\ \A x \in Resource \ posted'.free :
                  granted'[posted.role][x] = granted[posted.role][x]
    <2>1. posted' = IF posted.state # "sent" THEN posted
                    ELSE [posted EXCEPT !.free = @ \cup IF posted.role = r THEN {y} ELSE {}]
        BY DEF OthersGrant, Others
    <2> QED
        BY <1>4, <2>1 DEF IInv, TypeOK
<1>8. ASSUME NEW l \in loads
      PROVE  /\ G[l] \in LoadRecord /\ Reads(G[l])' /\ G[l].role = l.role /\ G[l].current = l.current
    <2>1. PICK Y \in SUBSET Resource : Y = IF ReadGrants(r, l) THEN {y} ELSE {}
        OBVIOUS
    <2>2. l \in LoadRecord /\ Reads(l)
        BY DEF IInv, TypeOK
    <2>3. \A x \in Resource \ (l.free \cup Y) : x \in Active'
        BY <1>3, <2>2 DEF Reads, Active
    <2>4. l.role # None /\ l.grants # None =>
             \A x \in Resource \ (l.free \cup Y) : granted'[l.role][x] = granted[l.role][x]
        BY <1>4, <2>1, <2>2 DEF ReadGrants, LoadRecord, SomeRole
    <2>5. G[l] = [l EXCEPT !.free = @ \cup Y]
        BY <1>1, <2>1
    <2> DEFINE m == [l EXCEPT !.free = @ \cup Y]
    <2>6. m \in LoadRecord /\ Reads(m)' /\ m.role = l.role /\ m.current = l.current
        BY <1>3, <2>3, <2>4, FreedReads
    <2> HIDE DEF m
    <2> QED
        BY <2>5, <2>6 DEF m
<1>9. ~page.loading /\ page.role # None =>
         \A x \in Resource \ (page.content.free \cup X) :
            granted'[page.role][x] = granted[page.role][x]
    BY <1>2, <1>4 DEF IInv, TypeOK, Follows, SomeRole
<1>10. listing' \in Seq(Resource) /\ granted' \in [Role -> Grants]
    BY <1>3, <1>4
<1> QED
    BY <1>5, <1>6, <1>7, <1>8, <1>9, <1>10, ChangeKeeps, Zenon

LEMMA OthersChangeResourcesKeeps ==
    ASSUME IInv, NEW rows \in Seq(Resource), OthersChangeResources(rows)
    PROVE  IInv'
<1>1. PICK gone \in SUBSET Resource : gone = Resource \ (Active \cap ToSet(rows))
    OBVIOUS
<1>2. PICK G : G = [l \in loads |->
                      [l EXCEPT !.free = @ \cup IF l.next > 1 /\ ~l.listed THEN Resource ELSE gone]]
    OBVIOUS
<1>3. PICK X \in SUBSET Resource : X = IF ~page.loading THEN gone ELSE {}
    OBVIOUS
<1>4. /\ listing' = rows /\ Active' = ToSet(rows)
      /\ granted' \in [Role -> Grants]
      /\ \A q \in Role : \A x \in Resource \ gone : granted'[q][x] = granted[q][x]
    <2>1. listing' = rows /\ granted \in [Role -> Grants]
        BY DEF IInv, TypeOK, OthersChangeResources
    <2>2. CASE granted' = granted
        BY <2>1, <2>2 DEF Active
    <2>3. CASE granted' = [q \in Role |-> [x \in Resource |->
                             IF x \in Active \ ToSet(rows) THEN None ELSE granted[q][x]]]
        <3>1. granted' \in [Role -> Grants]
            BY <2>1, <2>3 DEF Grants
        <3>2. \A x \in Resource \ gone : x \in ToSet(rows)
            BY <1>1
        <3> QED
            BY <2>1, <2>3, <3>1, <3>2 DEF Active
    <2> QED
        BY <2>2, <2>3 DEF OthersChangeResources
<1>5. loads' = {G[l] : l \in loads}
    BY <1>1, <1>2 DEF OthersChangeResources, Others
<1>6. page' = [page EXCEPT !.content.free = @ \cup X]
    <2>1. page' = IF page.loading THEN page ELSE [page EXCEPT !.content.free = @ \cup gone]
        BY <1>1 DEF OthersChangeResources, Others
    <2>2. page = [page EXCEPT !.content.free = @ \cup {}]
        BY DEF IInv, TypeOK, Content
    <2> QED
        BY <1>3, <2>1, <2>2
<1>7. /\ posted' \in [state : {"none", "sent", "done"}, role : SomeRole, grants : Grants,
                      free : SUBSET Resource]
      /\ posted'.state = "sent" =>
            /\ posted.state = "sent" /\ posted'.role = posted.role
            /\ posted'.grants = posted.grants /\ posted.free \subseteq posted'.free
            /\ \A x \in Resource \ posted'.free :
                  granted'[posted.role][x] = granted[posted.role][x]
    <2>1. posted' = IF posted.state # "sent" THEN posted ELSE [posted EXCEPT !.free = @ \cup gone]
        BY <1>1 DEF OthersChangeResources, Others
    <2>2. posted \in [state : {"none", "sent", "done"}, role : SomeRole, grants : Grants,
                      free : SUBSET Resource]
          /\ (posted.state = "sent" => posted.role \in Role)
        BY DEF IInv, TypeOK
    <2>3. CASE posted.state # "sent"
        BY <2>1, <2>2, <2>3
    <2>4. CASE posted.state = "sent"
        <3>1. /\ posted' = [posted EXCEPT !.free = @ \cup gone]
              /\ posted'.role = posted.role /\ posted'.grants = posted.grants
              /\ posted'.free = posted.free \cup gone
            BY <2>1, <2>2, <2>4
        <3> QED
            BY <1>4, <2>2, <2>4, <3>1
    <2> QED
        BY <2>3, <2>4
<1>8. ASSUME NEW l \in loads
      PROVE  /\ G[l] \in LoadRecord /\ Reads(G[l])' /\ G[l].role = l.role /\ G[l].current = l.current
    <2>1. PICK Y \in SUBSET Resource : Y = IF l.next > 1 /\ ~l.listed THEN Resource ELSE gone
        OBVIOUS
    <2>2. l \in LoadRecord /\ Reads(l)
        BY DEF IInv, TypeOK
    <2>3. gone \subseteq Y /\ (l.listed \/ l.next = 1 \/ Y = Resource)
        BY <2>1, <2>2 DEF LoadRecord
    <2>4. \A x \in Resource \ (l.free \cup Y) : x \in Active'
        BY <1>1, <1>4, <2>3
    <2>5. l.role # None /\ l.grants # None =>
             \A x \in Resource \ (l.free \cup Y) : granted'[l.role][x] = granted[l.role][x]
        BY <1>4, <2>2, <2>3 DEF LoadRecord, SomeRole
    <2>6. G[l] = [l EXCEPT !.free = @ \cup Y]
        BY <1>2, <2>1
    <2> DEFINE m == [l EXCEPT !.free = @ \cup Y]
    <2>7. m \in LoadRecord /\ Reads(m)' /\ m.role = l.role /\ m.current = l.current
        BY <1>4, <2>3, <2>4, <2>5, FreedReads
    <2> HIDE DEF m
    <2> QED
        BY <2>6, <2>7 DEF m
<1>9. ~page.loading /\ page.role # None =>
         \A x \in Resource \ (page.content.free \cup X) :
            granted'[page.role][x] = granted[page.role][x]
    BY <1>3, <1>4 DEF IInv, TypeOK, SomeRole
<1>10. listing' \in Seq(Resource) /\ granted' \in [Role -> Grants]
    BY <1>4
<1> QED
    BY <1>5, <1>6, <1>7, <1>8, <1>9, <1>10, ChangeKeeps, Zenon

-----------------------------------------------------------------------------
(* The invariant is inductive.                                             *)
LEMMA NextKeeps ==
    ASSUME IInv, [RoleEditorNext]_roleEditorVars PROVE IInv'
<1>1. ASSUME NEW l \in loads, QueryPage(l) \/ QueryRole(l) \/ LoadFails(l) \/ LoadArrives(l)
      PROVE  IInv'
    BY <1>1, QueryPageKeeps, QueryRoleKeeps, LoadFailsKeeps, LoadArrivesKeeps
<1>2. ASSUME NEW r \in Role \cup {None}, SelectRole(r) PROVE IInv'
    BY <1>2, SelectRoleKeeps DEF SomeRole
<1>3. ASSUME NEW X \in SUBSET Resource, NEW rows \in SetToSeqs(X), OthersChangeResources(rows)
      PROVE  IInv'
    BY <1>3, ArrangedResources, OthersChangeResourcesKeeps
<1>4. CASE UNCHANGED roleEditorVars
    <2>1. TypeOK' /\ Follows'
        BY <1>4 DEF roleEditorVars, IInv, TypeOK, Follows
    <2>2. \A k \in loads' : Reads(k)'
        BY <1>4 DEF roleEditorVars, IInv, Reads, Read, Active
    <2> QED
        BY <1>4, <2>1, <2>2 DEF roleEditorVars, IInv, Holds, Posts
<1> QED
    BY <1>1, <1>2, <1>3, <1>4, TabKeeps, UpdateSelectionKeeps, ChooseScopeKeeps, SubmitKeeps,
       SaveAnswersKeeps, SetRoleResourcesKeeps, OthersGrantKeeps DEF RoleEditorNext

LEMMA Inductive == RoleEditorSpec => []IInv
BY InitEstablishes, NextKeeps, PTL DEF RoleEditorSpec

(* Whatever roles, resources and page size there are, and whatever others  *)
(* do: a page that can be saved holds what was loaded for the role it is   *)
(* saved to (resources.vue, index.vue).                                    *)
THEOREM OnlyTheSelectedRoleIsSaved == RoleEditorSpec => []SavesTheSelectedRole
<1>1. IInv => SavesTheSelectedRole
    BY DEF IInv, TypeOK, Follows, SavesTheSelectedRole, Savable
<1> QED
    BY <1>1, Inductive, PTL

(* A save keeps every grant that neither the user nor anybody else         *)
(* changed, of a resource that was in force all along, when the list did   *)
(* not change between two of its pages (pagination.go, grants.go).         *)
THEOREM WhatIsNotFreeIsKept == RoleEditorSpec => SaveKeepsTheRest
<1>1. ASSUME IInv, [RoleEditorNext]_roleEditorVars,
             posted.state = "sent", posted'.state = "done",
             NEW x \in Resource \ posted.free
      PROVE  granted'[posted.role][x] = granted[posted.role][x]
    <2>1. posted.grants[x] = granted[posted.role][x] /\ posted.role \in Role
        BY <1>1 DEF IInv
    <2>2. CASE SetRoleResources
        BY <2>1, <2>2 DEF SetRoleResources, IInv, TypeOK
    <2>3. CASE ~SetRoleResources
        <3>1. ASSUME NEW l \in loads, QueryPage(l) \/ QueryRole(l) \/ LoadFails(l) \/ LoadArrives(l)
              PROVE  posted' = posted
            BY <3>1 DEF QueryPage, QueryRole, LoadFails, LoadArrives
        <3>2. ASSUME NEW r, SelectRole(r) PROVE posted' = posted
            BY <3>2 DEF SelectRole
        <3>3. ASSUME ShowUsers \/ ShowResources PROVE posted' = posted
            BY <3>3 DEF ShowUsers, ShowResources
        <3>4. ASSUME NEW keys, UpdateSelection(keys) PROVE posted' = posted
            BY <3>4 DEF UpdateSelection
        <3>5. ASSUME NEW y, NEW below, NEW s, ChooseScope(y, below, s) PROVE posted' = posted
            BY <3>5 DEF ChooseScope
        <3>6. ASSUME Submit \/ SaveAnswers PROVE posted'.state \in {"sent", "none"}
            BY <3>6 DEF Submit, SaveAnswers, NoPost
        <3>7. ASSUME NEW r, NEW y, NEW s, OthersGrant(r, y, s) PROVE posted'.state = posted.state
            BY <1>1, <3>7 DEF OthersGrant, Others, IInv, TypeOK
        <3>8. ASSUME NEW rows, OthersChangeResources(rows) PROVE posted'.state = posted.state
            BY <1>1, <3>8 DEF OthersChangeResources, Others, IInv, TypeOK
        <3> QED
            BY <1>1, <2>3, <3>1, <3>2, <3>3, <3>4, <3>5, <3>6, <3>7, <3>8
               DEF RoleEditorNext, roleEditorVars
    <2> QED
        BY <2>2, <2>3
<1>2. IInv /\ [RoleEditorNext]_roleEditorVars =>
        [posted.state = "sent" /\ posted'.state = "done" =>
           \A x \in Resource \ posted.free : granted'[posted.role][x] = granted[posted.role][x]
         ]_roleEditorVars
    BY <1>1
<1> QED
    BY <1>2, Inductive, PTL DEF RoleEditorSpec, SaveKeepsTheRest

=============================================================================
