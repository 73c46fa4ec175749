------------------------ MODULE ProjectionImportsProofs ------------------------
(***************************************************************************)
(* Proofs about ProjectionImports, for any number of imports, any files    *)
(* and any database that imports have left behind.                         *)
(*                                                                         *)
(* The argument relates what an open import has done so far to the file it *)
(* reads and to the committed rows (TransactionOK): between two statements *)
(* a commit of another import may only change the positions of a player    *)
(* the import has read if that marks the reading as stale.  Of two open    *)
(* imports it says that no two of one source are past the update of its    *)
(* row (OneHolder) and that their sets are different (SetsApart).          *)
(***************************************************************************)
EXTENDS ProjectionImports, FunctionTheorems, FiniteSetTheorems, SequenceTheorems, TLAPS

-----------------------------------------------------------------------------
(* The inductive invariant.                                                *)

Valid == DOMAIN Jobs \ Invalid
Key(job, k) == <<Jobs[job].source, Players[job][k].id>>
EligibilityOf(E, p) == {e[2] : e \in {x \in E : x[1] = p}}
Merged(t, E) == (((E \ t.deleted) \cup t.added) \ t.obsolete) \cup t.queued
WrittenBy(t) == {t.ids[k] : k \in DOMAIN t.ids}

Early == {"find", "update", "insert", "deactivate", "set"}
Late == {"fetch", "write", "replace", "end"}
Working == Early \cup Late

\* The plan names players that exist, and those of known ids by their identity.
PlanOK(t, d) ==
  /\ DOMAIN t.plan = DOMAIN Players[t.job]
  /\ \A k \in DOMAIN t.plan :
       /\ t.plan[k].player \in (1 .. d.nextPlayer) \cup {None}
       /\ ~t.plan[k].isNew => /\ Key(t.job, k) \in DOMAIN d.identities
                              /\ d.identities[Key(t.job, k)] = t.plan[k].player

\* The rows persisted so far.
ProgressOK(t, d) ==
  /\ t.ids \in Seq(1 .. d.nextPlayer)
  /\ t.pc \in Early => t.ids = <<>>
  /\ t.pc \in {"fetch", "write"} => Len(t.ids) < Len(Players[t.job])
  /\ t.pc = "replace" => Len(t.ids) <= Len(Players[t.job])
  /\ t.pc = "end" => Len(t.ids) = Len(Players[t.job])
  /\ \A k \in DOMAIN t.ids : t.plan[k].player # None => t.ids[k] = t.plan[k].player
  /\ DOMAIN t.written \subseteq WrittenBy(t)

\* The import's own set is nobody else's, and no active set of its scope has
\* been left out of those it deactivates.
SetOK(t, d) ==
  /\ t.pc \in Early => t.set = None
  /\ t.pc \in Late => /\ t.set \in 1 .. d.nextSet
                      /\ \A s \in d.sets : s.id # t.set
                      /\ \A x \in d.projections : x.set # t.set
  /\ t.pc \in Late \cup {"set"} /\ Jobs[t.job].activate =>
       \A s \in d.sets : s.active /\ InScope(s, Jobs[t.job]) => s.id \in t.deactivated

\* The identities an import adds are those of its new rows, and new.
IdentitiesOK(t, d) ==
  /\ DOMAIN t.identities = {Key(t.job, k) : k \in {n \in DOMAIN t.ids : t.plan[n].isNew}}
  /\ \A k \in DOMAIN t.ids : t.plan[k].isNew => t.identities[Key(t.job, k)] = t.ids[k]
  /\ DOMAIN t.identities \cap DOMAIN d.identities = {}

\* The last row of a player decides the positions the import leaves him,
\* while its reading of them is not stale.
PositionsOK(t, d) ==
  /\ \A e \in t.deleted \cup t.added \cup t.obsolete \cup t.queued :
       e = <<e[1], e[2]>> /\ e[1] \in WrittenBy(t)
  /\ t.pc # "replace" => t.obsolete = {}
  /\ t.pc = "write" => t.queued = {}
  /\ \A k \in DOMAIN t.ids :
       (t.ids[k] \notin t.stale /\ \A n \in DOMAIN t.ids : k < n => t.ids[n] # t.ids[k])
         => EligibilityOf(Merged(t, d.eligibility), t.ids[k]) = Players[t.job][k].positions

IsTransaction(t) ==
  t = [pc |-> t.pc, job |-> t.job, plan |-> t.plan, deactivated |-> t.deactivated, set |-> t.set,
       ids |-> t.ids, seen |-> t.seen, written |-> t.written, identities |-> t.identities,
       obsolete |-> t.obsolete, deleted |-> t.deleted, added |-> t.added, queued |-> t.queued,
       stale |-> t.stale]

WorkOK(t, d) ==
  PlanOK(t, d) /\ ProgressOK(t, d) /\ SetOK(t, d) /\ IdentitiesOK(t, d) /\ PositionsOK(t, d)

TransactionOK(t, d) ==
  /\ IsTransaction(t)
  /\ t.pc \in Working \cup {"plan"} => t.job \in Valid
  /\ t.pc = "plan" => t = [Idle EXCEPT !.pc = "plan", !.job = t.job]
  /\ t.pc \in Working => WorkOK(t, d)
  /\ t.pc \notin Working => t.set = None
  /\ t.pc = "check" => Jobs[t.job].via # "csv"
  /\ t.pc # "active exists"

OneHolder ==
  \A i, j \in Importers : Holds(i) /\ Holds(j) /\ JobOf(i).source = JobOf(j).source => i = j

SetsApart ==
  \A i, j \in Importers : imp[i].set # None /\ imp[i].set = imp[j].set => i = j

LatestOK == DOMAIN db.players \subseteq DOMAIN latest /\ EligibilityIsLatest

IInv ==
  /\ IsDatabase(db)
  /\ imp = [i \in Importers |-> imp[i]]
  /\ \A i \in Importers : TransactionOK(imp[i], db)
  /\ OneHolder
  /\ SetsApart
  /\ LatestOK

-----------------------------------------------------------------------------
(* Files and mappings.                                                     *)

\* A file that passes the validation has rows, of different ids.
LEMMA ValidRows ==
  ASSUME NEW job \in Valid
  PROVE  /\ Len(Players[job]) \in Nat \ {0}
         /\ DOMAIN Players[job] = 1 .. Len(Players[job])
         /\ \A j, k \in DOMAIN Players[job] : Key(job, j) = Key(job, k) => j = k
<1> DEFINE rows == Players[job]
<1>1. PlayerIssues(rows) = {} /\ job \in DOMAIN Jobs
  BY DEF Valid, Invalid
<1>2. rows # <<>>
  BY <1>1 DEF PlayerIssues, If
<1>3. ~ \E i, j \in DOMAIN rows : i < j /\ rows[i].id = rows[j].id
  BY <1>1 DEF PlayerIssues, If
<1>4. Len(rows) \in Nat /\ rows = [k \in 1 .. Len(rows) |-> rows[k]]
  BY <1>1, JobsAssumption
<1> HIDE DEF rows
<1>5. DOMAIN rows = 1 .. Len(rows)
  BY <1>4
<1>6. Len(rows) # 0
  <2>1. rows \in Seq({rows[k] : k \in 1 .. Len(rows)})
    BY <1>4
  <2>2. QED
    BY <1>2, <2>1, EmptySeq
<1>7. \A j, k \in DOMAIN rows : rows[j].id = rows[k].id => j = k
  BY <1>3, <1>4, <1>5
<1>8. QED
  BY <1>4, <1>5, <1>6, <1>7 DEF Key, rows

\* A mapping that shadows another.
LEMMA OverIs ==
  ASSUME NEW f, NEW g
  PROVE  /\ \A x : x \in DOMAIN Over(f, g) <=> x \in DOMAIN f \/ x \in DOMAIN g
         /\ \A x \in DOMAIN f : Over(f, g)[x] = f[x]
         /\ \A x \in DOMAIN g \ DOMAIN f : Over(f, g)[x] = g[x]
BY DEF Over

LEMMA WithIs ==
  ASSUME NEW f, NEW key, NEW value
  PROVE  /\ \A x : x \in DOMAIN With(f, key, value) <=> x \in DOMAIN f \/ x = key
         /\ With(f, key, value)[key] = value
         /\ \A x \in DOMAIN f \ {key} : With(f, key, value)[x] = f[x]
BY DEF With

-----------------------------------------------------------------------------
(* Steps that leave the committed rows alone.                              *)

\* e is database d, but for numbers of players and sets that have been given
\* out.
Kept(d, e) ==
  /\ e = [sources |-> d.sources, players |-> d.players, eligibility |-> d.eligibility,
          identities |-> d.identities, sets |-> d.sets, projections |-> d.projections,
          nextPlayer |-> e.nextPlayer, nextSet |-> e.nextSet]
  /\ e.nextPlayer \in Nat /\ d.nextPlayer <= e.nextPlayer
  /\ e.nextSet \in Nat /\ d.nextSet <= e.nextSet

LEMMA KeptFields ==
  ASSUME NEW d, NEW e, Kept(d, e)
  PROVE  /\ e.sources = d.sources /\ e.players = d.players /\ e.eligibility = d.eligibility
         /\ e.identities = d.identities /\ e.sets = d.sets /\ e.projections = d.projections
<1>1. e = [sources |-> d.sources, players |-> d.players, eligibility |-> d.eligibility,
           identities |-> d.identities, sets |-> d.sets, projections |-> d.projections,
           nextPlayer |-> e.nextPlayer, nextSet |-> e.nextSet]
  BY DEF Kept
<1>2. QED
  BY <1>1

LEMMA KeptNumbers ==
  ASSUME NEW d, NEW e, IsDatabase(d), Kept(d, e)
  PROVE  1 .. d.nextPlayer \subseteq 1 .. e.nextPlayer /\ 1 .. d.nextSet \subseteq 1 .. e.nextSet
BY SMT DEF Kept, IsDatabase

LEMMA KeptIsDatabase ==
  ASSUME NEW d, NEW e, IsDatabase(d), Kept(d, e)
  PROVE  IsDatabase(e)
<1>1. /\ e.sources = d.sources /\ e.players = d.players /\ e.eligibility = d.eligibility
      /\ e.identities = d.identities /\ e.sets = d.sets /\ e.projections = d.projections
  BY KeptFields
<1>2. 1 .. d.nextPlayer \subseteq 1 .. e.nextPlayer /\ 1 .. d.nextSet \subseteq 1 .. e.nextSet
  BY KeptNumbers
<1>3. OneActive(e) /\ \A s \in e.sets : IsWhole(e, s)
  BY <1>1 DEF IsDatabase, OneActive, IsWhole
<1>4. e = [sources |-> e.sources, players |-> e.players, eligibility |-> e.eligibility,
           identities |-> e.identities, sets |-> e.sets, projections |-> e.projections,
           nextPlayer |-> e.nextPlayer, nextSet |-> e.nextSet]
  BY <1>1 DEF Kept
<1>5. QED
  BY <1>1, <1>2, <1>3, <1>4 DEF IsDatabase, Kept

LEMMA KeptTransaction ==
  ASSUME NEW d, NEW e, NEW t, IsDatabase(d), Kept(d, e), TransactionOK(t, d)
  PROVE  TransactionOK(t, e)
<1>1. /\ e.sources = d.sources /\ e.players = d.players /\ e.eligibility = d.eligibility
      /\ e.identities = d.identities /\ e.sets = d.sets /\ e.projections = d.projections
  BY KeptFields
<1>2. 1 .. d.nextPlayer \subseteq 1 .. e.nextPlayer /\ 1 .. d.nextSet \subseteq 1 .. e.nextSet
  BY KeptNumbers
<1>3. PlanOK(t, d) => PlanOK(t, e)
  BY <1>1, <1>2 DEF PlanOK
<1>4. ProgressOK(t, d) => ProgressOK(t, e)
  <2>1. t.ids \in Seq(1 .. d.nextPlayer) => t.ids \in Seq(1 .. e.nextPlayer)
    BY <1>2, SeqMonotonic
  <2>2. QED
    BY <2>1 DEF ProgressOK
<1>5. SetOK(t, d) => SetOK(t, e)
  BY <1>1, <1>2 DEF SetOK
<1>6. IdentitiesOK(t, d) => IdentitiesOK(t, e)
  BY <1>1 DEF IdentitiesOK
<1>7. PositionsOK(t, d) => PositionsOK(t, e)
  BY <1>1 DEF PositionsOK
<1>8. QED
  BY <1>3, <1>4, <1>5, <1>6, <1>7 DEF TransactionOK, WorkOK

\* One import goes on to t; what the others have done is not affected.
LEMMA StepKeepsIInv ==
  ASSUME IInv, NEW i \in Importers, NEW t, Become(i, t), Kept(db, db'), UNCHANGED <<latest, raced>>,
         TransactionOK(t, db'), OneHolder', SetsApart'
  PROVE  IInv'
<1>1. imp'[i] = t /\ \A j \in Importers \ {i} : imp'[j] = imp[j]
  BY DEF Become, IInv
<1>2. imp' = [j \in Importers |-> imp'[j]]
  BY DEF Become, IInv
<1>3. \A j \in Importers : TransactionOK(imp'[j], db')
  BY <1>1, KeptTransaction DEF IInv
<1>4. LatestOK'
  BY KeptFields DEF IInv, LatestOK, EligibilityIsLatest
<1>5. QED
  BY <1>2, <1>3, <1>4, KeptIsDatabase DEF IInv

\* A step that neither opens nor moves a transaction past its source.
LEMMA OneHolderKept ==
  ASSUME IInv, NEW i \in Importers, NEW t, Become(i, t),
         t.pc \in {"deactivate", "set"} \cup Late => Holds(i) /\ t.job = imp[i].job
  PROVE  OneHolder'
<1>1. imp'[i] = t /\ \A j \in Importers \ {i} : imp'[j] = imp[j]
  BY DEF Become, IInv
<1>2. \A j \in Importers : Holds(j)' => Holds(j) /\ imp'[j].job = imp[j].job
  BY <1>1 DEF Holds, Late
<1>3. QED
  BY <1>2 DEF IInv, OneHolder, JobOf

\* A step that gives no set a number.
LEMMA SetsApartKept ==
  ASSUME IInv, NEW i \in Importers, NEW t, Become(i, t), t.set \in {None, imp[i].set}
  PROVE  SetsApart'
<1>1. imp'[i] = t /\ \A j \in Importers \ {i} : imp'[j] = imp[j]
  BY DEF Become, IInv
<1>2. \A j \in Importers : imp'[j].set \in {None, imp[j].set}
  BY <1>1
<1>3. QED
  BY <1>2 DEF IInv, SetsApart

\* Nothing changed is a special case of numbers given out.
LEMMA SameIsKept == IInv /\ UNCHANGED db => Kept(db, db')
BY SMT DEF IInv, IsDatabase, Kept

\* An import that has done nothing, or nothing that is left.
Idles(t, how, job) == t = [Idle EXCEPT !.pc = how, !.job = job]

LEMMA IdleIs ==
  ASSUME NEW how, NEW job, NEW t, Idles(t, how, job)
  PROVE  /\ IsTransaction(t) /\ t.pc = how /\ t.job = job /\ t.set = None /\ t.ids = <<>>
         /\ t.obsolete = {} /\ t.deleted = {} /\ t.added = {} /\ t.queued = {} /\ t.stale = {}
BY DEF Idles, Idle, IsTransaction

LEMMA EndIs ==
  ASSUME NEW i, NEW how, End(i, how)
  PROVE  \E t : Become(i, t) /\ IsTransaction(t) /\ t.pc = how /\ t.job = imp[i].job /\ t.set = None
<1>1. PICK t : Idles(t, how, imp[i].job)
  BY DEF Idles
<1>2. Become(i, t)
  BY <1>1 DEF End, Idles
<1>3. QED
  BY <1>1, <1>2, IdleIs

\* A transaction that ends without effect, but for numbers given out.
LEMMA EndKeepsIInv ==
  ASSUME IInv, NEW i \in Importers, NEW how, End(i, how), Kept(db, db'), UNCHANGED <<latest, raced>>,
         how \notin Working \cup {"plan", "active exists"},
         how = "check" => JobOf(i).via # "csv"
  PROVE  IInv'
<1>1. PICK t : Become(i, t) /\ IsTransaction(t) /\ t.pc = how /\ t.job = imp[i].job /\ t.set = None
  BY EndIs
<1>2. TransactionOK(t, db')
  BY <1>1 DEF TransactionOK, JobOf
<1>3. OneHolder' /\ SetsApart'
  BY <1>1, OneHolderKept, SetsApartKept DEF Working, Early, Late
<1>4. QED
  BY <1>1, <1>2, <1>3, StepKeepsIInv

\* The start: only a file that passes the validation goes on to the plan.
LEMMA StartKeepsIInv ==
  ASSUME IInv, NEW i \in Importers, NEW name \in DOMAIN Jobs, Start(i, name)
  PROVE  IInv'
<1> DEFINE how == IF Jobs[name].via = "api" /\ db.sets # {} THEN "refused"
                  ELSE IF name \in Invalid THEN "rejected" ELSE "plan"
<1>1. PICK t : Idles(t, how, name)
  BY DEF Idles
<1>2. Become(i, t) /\ UNCHANGED <<db, latest, raced>>
  BY <1>1 DEF Start, Idles
<1>3. how = "plan" => name \in Valid
  BY DEF Valid
<1>4. how \in {"refused", "rejected", "plan"}
  OBVIOUS
<1> HIDE DEF how
<1>5. IsTransaction(t) /\ t.pc = how /\ t.job = name /\ t.set = None
  BY <1>1, IdleIs
<1>6. TransactionOK(t, db')
  BY <1>1, <1>3, <1>4, <1>5 DEF TransactionOK, Working, Early, Late, Idles
<1>7. OneHolder' /\ SetsApart'
  BY <1>2, <1>4, <1>5, OneHolderKept, SetsApartKept DEF Late
<1>8. QED
  BY <1>2, <1>6, <1>7, SameIsKept, StepKeepsIInv

\* Resolve names a player that exists, the identity's where the id is known.
LEMMA ResolveNames ==
  ASSUME IInv, NEW i \in Importers, NEW job, imp[i].job = job, NEW k \in DOMAIN Players[job]
  PROVE  /\ Resolve(i, Players[job][k]) \in (1 .. db.nextPlayer) \cup {None}
         /\ Known(i, Players[job][k]) =>
              /\ Key(job, k) \in DOMAIN db.identities
              /\ db.identities[Key(job, k)] = Resolve(i, Players[job][k])
<1> DEFINE row == Players[job][k]
<1>1. <<JobOf(i).source, row.id>> = Key(job, k)
  BY DEF JobOf, Key
<1>2. CASE Known(i, row)
  <2>1. Key(job, k) \in DOMAIN db.identities /\ Resolve(i, row) = db.identities[Key(job, k)]
    BY <1>1, <1>2 DEF Known, Resolve
  <2>2. QED
    BY <1>2, <2>1 DEF IInv, IsDatabase
<1>3. CASE ~Known(i, row)
  <2>1. Named(row) \subseteq 1 .. db.nextPlayer
    BY DEF Named, IInv, IsDatabase
  <2>2. Resolve(i, row) = IF Named(row) # {} THEN CHOOSE p \in Named(row) : TRUE ELSE None
    BY <1>3 DEF Resolve
  <2>3. QED
    BY <1>3, <2>1, <2>2
<1>4. QED
  BY <1>2, <1>3

\* A transaction that has persisted no row yet.
Fresh(t) ==
  /\ t.ids = <<>> /\ DOMAIN t.written = {} /\ DOMAIN t.identities = {}
  /\ t.obsolete = {} /\ t.deleted = {} /\ t.added = {} /\ t.queued = {}

LEMMA FreshIsOK ==
  ASSUME NEW t, NEW d, Fresh(t), t.pc \in Early \cup {"fetch"}, t.job \in Valid
  PROVE  ProgressOK(t, d) /\ IdentitiesOK(t, d) /\ PositionsOK(t, d) /\ WrittenBy(t) = {}
<1>1. <<>> \in Seq(1 .. d.nextPlayer) /\ DOMAIN t.ids = {} /\ Len(t.ids) = 0
  BY DEF Fresh
<1>2. 0 < Len(Players[t.job])
  BY ValidRows
<1>3. QED
  BY <1>1, <1>2 DEF Fresh, ProgressOK, IdentitiesOK, PositionsOK, WrittenBy, Early

LEMMA EarlyIsFresh ==
  ASSUME NEW t, NEW d, TransactionOK(t, d), t.pc \in Early
  PROVE  Fresh(t) /\ IsTransaction(t) /\ t.job \in Valid /\ PlanOK(t, d) /\ SetOK(t, d) /\ t.set = None
<1>1. /\ IsTransaction(t) /\ t.job \in Valid
      /\ PlanOK(t, d) /\ SetOK(t, d) /\ ProgressOK(t, d) /\ IdentitiesOK(t, d) /\ PositionsOK(t, d)
  BY DEF TransactionOK, WorkOK, Working
<1>2. t.ids = <<>> /\ DOMAIN t.ids = {} /\ WrittenBy(t) = {} /\ t.set = None
  BY <1>1 DEF ProgressOK, SetOK, WrittenBy
<1>3. DOMAIN t.written = {} /\ DOMAIN t.identities = {}
  BY <1>1, <1>2 DEF ProgressOK, IdentitiesOK
<1>4. t.obsolete = {} /\ t.deleted = {} /\ t.added = {} /\ t.queued = {}
  BY <1>1, <1>2 DEF PositionsOK
<1>5. QED
  BY <1>1, <1>2, <1>3, <1>4 DEF Fresh

LEMMA PlanKeepsIInv ==
  ASSUME IInv, NEW i \in Importers, Plan(i)
  PROVE  IInv'
<1> DEFINE job == imp[i].job
           row(k) == PlayersOf(i)[k]
           entry(k) == [player |-> Resolve(i, row(k)), isNew |-> ~Known(i, row(k))]
           plan == [k \in Rows(i) |-> entry(k)]
           next == [imp[i] EXCEPT !.pc = "find", !.plan = plan,
                                  !.seen = Nothing, !.written = Nothing, !.identities = Nothing]
<1>1. imp[i].pc = "plan" /\ UNCHANGED <<db, latest, raced>>
  BY DEF Plan
<1>2. job \in Valid /\ Idles(imp[i], "plan", job)
  BY <1>1 DEF IInv, TransactionOK, Idles
<1>3. CASE End(i, "ambiguous")
  BY <1>1, <1>3, EndKeepsIInv, SameIsKept DEF Working, Early, Late
<1>4. CASE Become(i, next)
  <2>1. \A k \in DOMAIN plan : (~plan[k].isNew => Known(i, row(k))) /\ plan[k].player = Resolve(i, row(k))
    <3> HIDE DEF row
    <3>1. \A k : (~entry(k).isNew => Known(i, row(k))) /\ entry(k).player = Resolve(i, row(k))
      OBVIOUS
    <3> HIDE DEF entry
    <3>2. QED
      BY <3>1, Zenon
  <2>2. DOMAIN plan = DOMAIN Players[job] /\ \A k \in DOMAIN plan : row(k) = Players[job][k]
    <3>1. DOMAIN plan = Rows(i)
      BY Zenon
    <3>2. QED
      BY <3>1 DEF Rows, PlayersOf
  <2>3. PICK t : t = next
    OBVIOUS
  <2>4. Become(i, t)
    BY <1>4, <2>3
  <2> HIDE DEF plan
  <2>5. /\ IsTransaction(t) /\ t.pc = "find" /\ t.job = job /\ t.plan = plan /\ t.set = None
        /\ Fresh(t)
    <3>1. /\ IsTransaction(imp[i]) /\ imp[i].ids = <<>> /\ imp[i].set = None
          /\ imp[i].obsolete = {} /\ imp[i].deleted = {} /\ imp[i].added = {} /\ imp[i].queued = {}
      BY <1>2, IdleIs
    <3>2. /\ IsTransaction(t) /\ t.pc = "find" /\ t.job = job /\ t.plan = plan /\ t.set = None
          /\ t.ids = <<>> /\ t.written = Nothing /\ t.identities = Nothing
          /\ t.obsolete = {} /\ t.deleted = {} /\ t.added = {} /\ t.queued = {}
      BY <2>3, <3>1 DEF IsTransaction
    <3>3. DOMAIN Nothing = {}
      BY DEF Nothing
    <3>4. QED
      BY <3>2, <3>3 DEF Fresh
  <2>6. \A k \in DOMAIN t.plan : Resolve(i, Players[job][k]) = t.plan[k].player
                                 /\ (~t.plan[k].isNew => Known(i, Players[job][k]))
    <3> HIDE DEF row
    <3>1. QED
      BY <2>1, <2>2, <2>5, Zenon
  <2>7. PlanOK(t, db)
    <3> HIDE DEF row
    <3>1. ASSUME NEW k \in DOMAIN t.plan
          PROVE  /\ t.plan[k].player \in (1 .. db.nextPlayer) \cup {None}
                 /\ ~t.plan[k].isNew => /\ Key(job, k) \in DOMAIN db.identities
                                        /\ db.identities[Key(job, k)] = t.plan[k].player
      <4>1. k \in DOMAIN Players[job] /\ imp[i].job = job
        BY <2>2, <2>5
      <4>2. Resolve(i, Players[job][k]) = t.plan[k].player
            /\ (~t.plan[k].isNew => Known(i, Players[job][k]))
        BY <2>6, <3>1
      <4> HIDE DEF job
      <4>3. QED
        BY <4>1, <4>2, ResolveNames
    <3>2. QED
      BY <2>2, <2>5, <3>1 DEF PlanOK
  <2>8. ProgressOK(t, db) /\ IdentitiesOK(t, db) /\ PositionsOK(t, db) /\ SetOK(t, db)
    <3>1. SetOK(t, db)
      BY <2>5 DEF SetOK, Early, Late
    <3>2. QED
      BY <1>2, <2>5, <3>1, FreshIsOK DEF Early
  <2>9. TransactionOK(t, db')
    BY <1>1, <1>2, <2>5, <2>7, <2>8 DEF TransactionOK, WorkOK, Working, Early
  <2>10. OneHolder' /\ SetsApart'
    BY <1>1, <2>4, <2>5, OneHolderKept, SetsApartKept DEF Late
  <2>11. QED
    BY <1>1, <2>4, <2>9, <2>10, SameIsKept, StepKeepsIInv
<1>5. QED
  BY <1>3, <1>4 DEF Plan

\* A step before the first row: only pc, the deactivated sets and the
\* import's own set change.
Moves(t, u, pc) ==
  /\ IsTransaction(t) /\ t.pc = pc /\ t.job = u.job /\ t.plan = u.plan /\ t.ids = u.ids
  /\ t.written = u.written /\ t.identities = u.identities
  /\ t.obsolete = u.obsolete /\ t.deleted = u.deleted /\ t.added = u.added /\ t.queued = u.queued

LEMMA MoveIsOK ==
  ASSUME NEW t, NEW u, NEW d, NEW e, NEW pc, TransactionOK(u, d), u.pc \in Early, IsDatabase(d), Kept(d, e),
         Moves(t, u, pc), pc \in Early \cup {"fetch"}, SetOK(t, e)
  PROVE  TransactionOK(t, e)
<1>1. Fresh(u) /\ u.job \in Valid /\ PlanOK(u, d)
  BY EarlyIsFresh
<1>2. /\ IsTransaction(t) /\ t.pc = pc /\ t.job = u.job /\ t.plan = u.plan /\ Fresh(t)
  BY <1>1 DEF Moves, Fresh
<1>3. PlanOK(t, e)
  BY <1>1, <1>2, KeptFields, KeptNumbers DEF PlanOK
<1>4. ProgressOK(t, e) /\ IdentitiesOK(t, e) /\ PositionsOK(t, e)
  BY <1>1, <1>2, FreshIsOK
<1>5. t.pc \in Working /\ t.pc \notin {"plan", "check", "active exists"}
  BY <1>2 DEF Working, Early, Late
<1>6. QED
  BY <1>1, <1>2, <1>3, <1>4, <1>5 DEF TransactionOK, WorkOK

LEMMA FindSourceKeepsIInv ==
  ASSUME IInv, NEW i \in Importers, FindSource(i)
  PROVE  IInv'
<1> DEFINE u == imp[i]
           pc == IF JobOf(i).source \in db.sources THEN "update" ELSE "insert"
<1>1. u.pc = "find" /\ UNCHANGED <<db, latest, raced>>
  BY DEF FindSource
<1>2. TransactionOK(u, db) /\ u.pc \in Early
  BY <1>1 DEF IInv, Early
<1>3. IsTransaction(u) /\ u.set = None
  BY <1>2, EarlyIsFresh
<1>4. PICK t : t = [u EXCEPT !.pc = pc]
  OBVIOUS
<1>5. Become(i, t)
  BY <1>4 DEF FindSource
<1>6. pc \in {"update", "insert"}
  OBVIOUS
<1> HIDE DEF pc, u
<1>7. Moves(t, u, pc) /\ t.set = None
  BY <1>3, <1>4 DEF Moves, IsTransaction
<1>8. SetOK(t, db)
  BY <1>6, <1>7 DEF SetOK, Moves, Late, Early
<1>9. Kept(db, db') /\ IsDatabase(db) /\ db' = db
  BY <1>1, SameIsKept DEF IInv
<1>10. TransactionOK(t, db')
  BY <1>2, <1>6, <1>7, <1>8, <1>9, MoveIsOK DEF Early
<1>11. OneHolder' /\ SetsApart'
  BY <1>5, <1>6, <1>7, OneHolderKept, SetsApartKept DEF Moves, Late
<1>12. QED
  BY <1>1, <1>5, <1>9, <1>10, <1>11, StepKeepsIInv

\* The import that takes a source has waited for the others of that source.
LEMMA TakeSourceKeepsIInv ==
  ASSUME IInv, NEW i \in Importers, TakeSource(i)
  PROVE  IInv'
<1> DEFINE u == imp[i]
           pc == IF JobOf(i).activate THEN "deactivate" ELSE "set"
<1>1. u.pc \in {"update", "insert"} /\ WaitsFor(i) = {} /\ UNCHANGED <<db, latest, raced>>
  BY DEF TakeSource, SourceTaken
<1>2. Kept(db, db') /\ IsDatabase(db) /\ db' = db
  BY <1>1, SameIsKept DEF IInv
<1>3. CASE End(i, "source exists")
  BY <1>1, <1>2, <1>3, EndKeepsIInv DEF Working, Early, Late
<1>4. CASE Become(i, [u EXCEPT !.pc = pc])
  <2>1. TransactionOK(u, db) /\ u.pc \in Early
    BY <1>1 DEF IInv, Early
  <2>2. IsTransaction(u) /\ u.set = None
    BY <2>1, EarlyIsFresh
  <2>3. PICK t : t = [u EXCEPT !.pc = pc]
    OBVIOUS
  <2>4. Become(i, t)
    BY <1>4, <2>3
  <2>5. pc \in {"deactivate", "set"} /\ (pc = "set" => ~Jobs[u.job].activate)
    BY DEF JobOf
  <2>6. \A j \in Importers \ {i} : Holds(j) => JobOf(j).source # JobOf(i).source
    BY <1>1 DEF WaitsFor, Others, Blocks, Holds, Open
  <2>7. imp'[i] = t /\ \A j \in Importers \ {i} : imp'[j] = imp[j]
    BY <2>4 DEF Become, IInv
  <2> HIDE DEF pc
  <2>8. Moves(t, u, pc) /\ t.set = None
    BY <2>2, <2>3 DEF Moves, IsTransaction
  <2>9. SetOK(t, db)
    BY <2>5, <2>8 DEF SetOK, Moves, Late
  <2>10. TransactionOK(t, db')
    <3> HIDE DEF u
    <3>1. QED
      BY <1>2, <2>1, <2>5, <2>8, <2>9, MoveIsOK DEF Early
  <2>11. OneHolder'
    <3>1. \A j \in Importers : imp'[j].job = imp[j].job /\ (j # i /\ Holds(j)' => Holds(j))
      BY <2>7, <2>8 DEF Holds, Moves
    <3>2. QED
      BY <2>6, <3>1 DEF IInv, OneHolder, JobOf
  <2>12. SetsApart'
    BY <2>4, <2>8, SetsApartKept
  <2>13. QED
    BY <1>1, <1>2, <2>4, <2>10, <2>11, <2>12, StepKeepsIInv
<1>5. QED
  BY <1>3, <1>4 DEF TakeSource, SourceTaken

\* What the UPDATE finds are all the active sets of the scope.
LEMMA DeactivateKeepsIInv ==
  ASSUME IInv, NEW i \in Importers, Deactivate(i)
  PROVE  IInv'
<1> DEFINE u == imp[i]
           ids == {s.id : s \in ActiveInScope(JobOf(i))}
<1>1. u.pc = "deactivate" /\ UNCHANGED <<db, latest, raced>>
  BY DEF Deactivate
<1>2. TransactionOK(u, db) /\ u.pc \in Early
  BY <1>1 DEF IInv, Early
<1>3. IsTransaction(u) /\ u.set = None
  BY <1>2, EarlyIsFresh
<1>4. PICK t : t = [u EXCEPT !.pc = "set", !.deactivated = ids]
  OBVIOUS
<1>5. Become(i, t)
  BY <1>4 DEF Deactivate
<1>6. \A s \in db.sets : s.active /\ InScope(s, Jobs[u.job]) => s.id \in ids
  BY DEF ActiveInScope, JobOf
<1>7. Holds(i)
  BY <1>1 DEF Holds
<1> HIDE DEF ids, u
<1>8. Moves(t, u, "set") /\ t.set = None /\ t.deactivated = ids
  BY <1>3, <1>4 DEF Moves, IsTransaction
<1>9. SetOK(t, db)
  BY <1>6, <1>8 DEF SetOK, Moves, Late
<1>10. Kept(db, db') /\ IsDatabase(db) /\ db' = db
  BY <1>1, SameIsKept DEF IInv
<1>11. TransactionOK(t, db')
  BY <1>2, <1>8, <1>9, <1>10, MoveIsOK DEF Early
<1>12. OneHolder' /\ SetsApart'
  BY <1>5, <1>7, <1>8, OneHolderKept, SetsApartKept DEF Moves, u
<1>13. QED
  BY <1>1, <1>5, <1>10, <1>11, <1>12, StepKeepsIInv

\* The import's set gets a number nobody has, and meets no other active set.
LEMMA InsertSetKeepsIInv ==
  ASSUME IInv, NEW i \in Importers, InsertSet(i)
  PROVE  IInv'
<1> DEFINE u == imp[i]
           new == db.nextSet + 1
<1>1. u.pc = "set" /\ db' = [db EXCEPT !.nextSet = new] /\ UNCHANGED <<latest, raced>>
  BY DEF InsertSet
<1>2. TransactionOK(u, db) /\ u.pc \in Early
  BY <1>1 DEF IInv, Early
<1>3. IsTransaction(u) /\ u.set = None /\ SetOK(u, db)
  BY <1>2, EarlyIsFresh
<1>4. Kept(db, db') /\ IsDatabase(db) /\ db'.nextSet = new
  BY <1>1, SMT DEF IInv, IsDatabase, Kept
<1>5. Jobs[u.job].activate => \A s \in ActiveInScope(JobOf(i)) : s.id \in u.deactivated
  BY <1>1, <1>3 DEF SetOK, ActiveInScope, JobOf
<1>6. Become(i, [u EXCEPT !.pc = "fetch", !.set = new])
  BY <1>5 DEF InsertSet, JobOf
<1>7. PICK t : t = [u EXCEPT !.pc = "fetch", !.set = new]
  OBVIOUS
<1>8. Become(i, t)
  BY <1>6, <1>7
<1>9. Holds(i)
  BY <1>1 DEF Holds
<1>10. imp'[i] = t /\ \A j \in Importers \ {i} : imp'[j] = imp[j]
  BY <1>8 DEF Become, IInv
<1>11. /\ new \in 1 .. db'.nextSet /\ new \notin 1 .. db.nextSet
       /\ \A s \in db.sets : s.id \in 1 .. db.nextSet
       /\ \A x \in db.projections : x.set \in 1 .. db.nextSet
  BY <1>4 DEF IsDatabase
<1> HIDE DEF new, u
<1>12. Moves(t, u, "fetch") /\ t.set = new /\ t.deactivated = u.deactivated
  BY <1>3, <1>7 DEF Moves, IsTransaction
<1>13. db'.sets = db.sets /\ db'.projections = db.projections
  BY <1>4, KeptFields
<1>14. SetOK(t, db')
  BY <1>1, <1>3, <1>11, <1>12, <1>13 DEF SetOK, Moves, Late, Early
<1>15. TransactionOK(t, db')
  BY <1>2, <1>4, <1>12, <1>14, MoveIsOK
<1>16. OneHolder'
  BY <1>8, <1>9, <1>12, OneHolderKept DEF Moves, u
<1>17. SetsApart'
  <2>1. ASSUME NEW j \in Importers \ {i}
        PROVE  imp[j].set # new
    <3>1. TransactionOK(imp[j], db)
      BY DEF IInv
    <3>2. imp[j].set \in (1 .. db.nextSet) \cup {None}
      BY <3>1 DEF TransactionOK, WorkOK, SetOK, Working
    <3>3. new # None
      BY <1>11, NoneAssumption
    <3>4. QED
      BY <1>11, <3>2, <3>3
  <2>2. QED
    BY <1>10, <1>12, <2>1 DEF SetsApart, IInv
<1>18. QED
  BY <1>1, <1>4, <1>8, <1>15, <1>16, <1>17, StepKeepsIInv

LEMMA DeadlockKeepsIInv ==
  ASSUME IInv, NEW i \in Importers, Deadlock(i)
  PROVE  IInv'
BY EndKeepsIInv, SameIsKept DEF Deadlock, Working, Early, Late

LEMMA KillKeepsIInv ==
  ASSUME IInv, NEW i \in Importers, Kill(i)
  PROVE  IInv'
BY EndKeepsIInv, SameIsKept DEF Kill, Working, Early, Late

\* Obsolete positions go and missing ones come: what is left of a player's
\* positions is what his row has, and nobody else's change.
Applies(old, new, p, R) ==
  /\ \A e \in old : e = <<e[1], e[2]>>
  /\ new = (old \ {<<p, q>> : q \in EligibilityOf(old, p) \ R})
           \cup {<<p, q>> : q \in R \ EligibilityOf(old, p)}

LEMMA RowDecides ==
  ASSUME NEW old, NEW new, NEW p, NEW R, Applies(old, new, p, R)
  PROVE  /\ EligibilityOf(new, p) = R
         /\ \A r : r # p => EligibilityOf(new, r) = EligibilityOf(old, r)
<1> DEFINE V == EligibilityOf(old, p)
           O == {<<p, q>> : q \in V \ R}
           M == {<<p, q>> : q \in R \ V}
<1>1. new = (old \ O) \cup M /\ \A e \in old : e = <<e[1], e[2]>>
  BY DEF Applies
<1>2. /\ \A e \in O \cup M : e = <<e[1], e[2]>> /\ e[1] = p
      /\ \A q : <<p, q>> \in O <=> q \in V \ R
      /\ \A q : <<p, q>> \in M <=> q \in R \ V
  OBVIOUS
<1> HIDE DEF O, M
<1>3. \A r, q : q \in EligibilityOf(old, r) <=> <<r, q>> \in old
  BY <1>1 DEF EligibilityOf
<1>4. \A e \in new : e = <<e[1], e[2]>>
  BY <1>1, <1>2
<1>5. \A r, q : q \in EligibilityOf(new, r) <=> <<r, q>> \in new
  BY <1>4 DEF EligibilityOf
<1>6. \A q : q \in V <=> <<p, q>> \in old
  BY <1>3
<1> HIDE DEF V
<1>7. EligibilityOf(new, p) = R
  <2>1. \A q : q \in EligibilityOf(new, p) <=> q \in R
    BY <1>1, <1>2, <1>5, <1>6
  <2> DEFINE S == EligibilityOf(new, p)
  <2> HIDE DEF S
  <2>2. S = R
    BY <2>1 DEF S
  <2>3. QED
    BY <2>2 DEF S
<1>8. ASSUME NEW r, r # p
      PROVE  EligibilityOf(new, r) = EligibilityOf(old, r)
  <2>1. ASSUME NEW q
        PROVE  <<r, q>> \notin O \cup M
    <3>1. <<r, q>>[1] = r
      OBVIOUS
    <3>2. QED
      BY <1>2, <1>8, <3>1
  <2> DEFINE S == EligibilityOf(new, r)
             T == EligibilityOf(old, r)
  <2>2. \A q : q \in S <=> q \in T
    BY <1>1, <1>3, <1>5, <2>1
  <2> HIDE DEF S, T
  <2>3. S = T
    BY <2>2
  <2>4. QED
    BY <2>3 DEF S, T
<1>9. QED
  BY <1>7, <1>8

-----------------------------------------------------------------------------
(* One row of the file.                                                    *)

\* What is known of an import that has inserted its set.
LEMMA LateIs ==
  ASSUME NEW t, NEW d, TransactionOK(t, d), t.pc \in Late
  PROVE  /\ IsTransaction(t) /\ t.job \in Valid
         /\ PlanOK(t, d) /\ ProgressOK(t, d) /\ SetOK(t, d) /\ IdentitiesOK(t, d) /\ PositionsOK(t, d)
         /\ Len(t.ids) \in Nat /\ DOMAIN t.ids = 1 .. Len(t.ids)
<1>1. /\ IsTransaction(t) /\ t.job \in Valid
      /\ PlanOK(t, d) /\ ProgressOK(t, d) /\ SetOK(t, d) /\ IdentitiesOK(t, d) /\ PositionsOK(t, d)
  BY DEF TransactionOK, WorkOK, Working
<1>2. t.ids \in Seq(1 .. d.nextPlayer)
  BY <1>1 DEF ProgressOK
<1>3. QED
  BY <1>1, <1>2

\* A step between two rows: the rows persisted so far stay, and so does what
\* becomes of the positions.
Passes(t, u, E) ==
  /\ IsTransaction(t) /\ t.job = u.job /\ t.plan = u.plan /\ t.set = u.set
  /\ t.deactivated = u.deactivated /\ t.ids = u.ids /\ t.written = u.written
  /\ t.identities = u.identities /\ t.stale = u.stale
  /\ t.deleted \cup t.added \cup t.obsolete \cup t.queued
       \subseteq u.deleted \cup u.added \cup u.obsolete \cup u.queued
  /\ t.obsolete = {} /\ (t.pc = "write" => t.queued = {})
  /\ Merged(t, E) = Merged(u, E)

LEMMA PassIsOK ==
  ASSUME NEW t, NEW u, NEW d, TransactionOK(u, d), u.pc \in Late, Passes(t, u, d.eligibility),
         t.pc \in {"fetch", "write", "end"},
         t.pc \in {"fetch", "write"} => Len(u.ids) < Len(Players[u.job]),
         t.pc = "end" => Len(u.ids) = Len(Players[u.job])
  PROVE  TransactionOK(t, d)
<1>1. /\ u.job \in Valid
      /\ PlanOK(u, d) /\ ProgressOK(u, d) /\ SetOK(u, d) /\ IdentitiesOK(u, d) /\ PositionsOK(u, d)
  BY LateIs
<1>2. PlanOK(t, d) /\ IdentitiesOK(t, d)
  BY <1>1 DEF Passes, PlanOK, IdentitiesOK
<1>3. ProgressOK(t, d)
  BY <1>1 DEF Passes, ProgressOK, WrittenBy, Early
<1>4. SetOK(t, d)
  BY <1>1 DEF Passes, SetOK, Early, Late
<1>5. PositionsOK(t, d)
  <2>1. WrittenBy(t) = WrittenBy(u)
    BY DEF Passes, WrittenBy
  <2>2. \A e \in t.deleted \cup t.added \cup t.obsolete \cup t.queued :
          e = <<e[1], e[2]>> /\ e[1] \in WrittenBy(t)
    BY <1>1, <2>1 DEF Passes, PositionsOK
  <2>3. QED
    BY <1>1, <2>2 DEF Passes, PositionsOK
<1>6. t.pc \in Working /\ t.pc \notin {"plan", "check", "active exists"}
  BY DEF Working, Late
<1>7. QED
  BY <1>1, <1>2, <1>3, <1>4, <1>5, <1>6 DEF TransactionOK, WorkOK, Passes

\* A transaction past its set stays so.
LEMMA LateKeepsIInv ==
  ASSUME IInv, NEW i \in Importers, imp[i].pc \in Late, NEW t, Become(i, t),
         t.job = imp[i].job, t.set = imp[i].set, TransactionOK(t, db'),
         Kept(db, db'), UNCHANGED <<latest, raced>>
  PROVE  IInv'
<1>1. Holds(i)
  BY DEF Holds, Late
<1>2. OneHolder' /\ SetsApart'
  BY <1>1, OneHolderKept, SetsApartKept
<1>3. QED
  BY <1>2, StepKeepsIInv

LEMMA FetchKeepsIInv ==
  ASSUME IInv, NEW i \in Importers, Fetch(i)
  PROVE  IInv'
<1> DEFINE u == imp[i]
           p == PlanAt(i).player
           seen == IF p = None \/ p \in DOMAIN u.seen THEN u.seen ELSE With(u.seen, p, db.players[p])
           added == u.added \cup u.queued
<1>1. u.pc = "fetch" /\ UNCHANGED <<db, latest, raced>>
  BY DEF Fetch
<1>2. Kept(db, db') /\ db' = db
  BY <1>1, SameIsKept
<1>3. CASE End(i, "position exists")
  BY <1>1, <1>2, <1>3, EndKeepsIInv DEF Working, Early, Late
<1>4. CASE Become(i, [u EXCEPT !.pc = "write", !.added = added, !.queued = {}, !.seen = seen])
  <2>1. TransactionOK(u, db) /\ u.pc \in Late
    BY <1>1 DEF IInv, Late
  <2>2. IsTransaction(u) /\ u.obsolete = {} /\ Len(u.ids) < Len(Players[u.job])
    BY <1>1, <2>1, LateIs DEF PositionsOK, ProgressOK
  <2>3. PICK t : t = [u EXCEPT !.pc = "write", !.added = added, !.queued = {}, !.seen = seen]
    OBVIOUS
  <2>4. Become(i, t)
    BY <1>4, <2>3
  <2> HIDE DEF seen, u
  <2>5. /\ IsTransaction(t) /\ t.pc = "write" /\ t.job = u.job /\ t.plan = u.plan /\ t.set = u.set
        /\ t.deactivated = u.deactivated /\ t.ids = u.ids /\ t.written = u.written
        /\ t.identities = u.identities /\ t.stale = u.stale
        /\ t.obsolete = u.obsolete /\ t.deleted = u.deleted /\ t.added = added /\ t.queued = {}
    BY <2>2, <2>3 DEF IsTransaction
  <2>6. Passes(t, u, db.eligibility)
    BY <2>2, <2>5 DEF Passes, Merged
  <2>7. TransactionOK(t, db')
    BY <1>2, <2>1, <2>2, <2>5, <2>6, PassIsOK
  <2>8. QED
    BY <1>1, <1>2, <2>1, <2>4, <2>5, <2>7, LateKeepsIInv DEF u
<1>5. QED
  BY <1>3, <1>4 DEF Fetch

LEMMA ReplacePositionsKeepsIInv ==
  ASSUME IInv, NEW i \in Importers, ReplacePositions(i)
  PROVE  IInv'
<1> DEFINE u == imp[i]
           pc == AfterRow(Len(u.ids), i)
           deleted == u.deleted \cup (u.obsolete \cap db.eligibility)
           added == u.added \ u.obsolete
<1>1. /\ u.pc = "replace" /\ UNCHANGED <<db, latest, raced>>
      /\ Become(i, [u EXCEPT !.pc = pc, !.deleted = deleted, !.added = added, !.obsolete = {}])
  BY DEF ReplacePositions
<1>2. Kept(db, db') /\ db' = db
  BY <1>1, SameIsKept
<1>3. TransactionOK(u, db) /\ u.pc \in Late
  BY <1>1 DEF IInv, Late
<1>4. IsTransaction(u) /\ u.job \in Valid /\ Len(u.ids) \in Nat /\ Len(u.ids) <= Len(Players[u.job])
  BY <1>1, <1>3, LateIs DEF ProgressOK
<1>5. Len(Players[u.job]) \in Nat
  BY <1>4, ValidRows
<1>6. pc = IF Len(u.ids) = Len(Players[u.job]) THEN "end" ELSE "fetch"
  BY DEF AfterRow, PlayersOf
<1>7. PICK t : t = [u EXCEPT !.pc = pc, !.deleted = deleted, !.added = added, !.obsolete = {}]
  OBVIOUS
<1>8. Become(i, t)
  BY <1>1, <1>7
<1> HIDE DEF pc, u
<1>9. /\ IsTransaction(t) /\ t.pc = pc /\ t.job = u.job /\ t.plan = u.plan /\ t.set = u.set
      /\ t.deactivated = u.deactivated /\ t.ids = u.ids /\ t.written = u.written
      /\ t.identities = u.identities /\ t.stale = u.stale
      /\ t.obsolete = {} /\ t.deleted = deleted /\ t.added = added /\ t.queued = u.queued
  BY <1>4, <1>7 DEF IsTransaction
<1>10. Passes(t, u, db.eligibility)
  <2>1. Merged(t, db.eligibility) = Merged(u, db.eligibility)
    BY <1>9 DEF Merged
  <2>2. QED
    BY <1>6, <1>9, <2>1 DEF Passes
<1>11. TransactionOK(t, db')
  BY <1>2, <1>3, <1>4, <1>5, <1>6, <1>9, <1>10, PassIsOK
<1>12. QED
  BY <1>1, <1>2, <1>3, <1>8, <1>9, <1>11, LateKeepsIInv DEF u

RowPlayer(i) == IF PlanAt(i).player = None THEN db.nextPlayer + 1 ELSE PlanAt(i).player
RowKey(i) == <<JobOf(i).source, RowAt(i).id>>

Persists(i, t) ==
  /\ IsTransaction(t) /\ t.job = imp[i].job /\ t.plan = imp[i].plan /\ t.set = imp[i].set
  /\ t.deactivated = imp[i].deactivated /\ t.stale = imp[i].stale
  /\ t.ids = Append(imp[i].ids, RowPlayer(i))
  /\ t.pc = IF Obsolete(i, RowPlayer(i)) # {} THEN "replace" ELSE AfterRow(Len(imp[i].ids) + 1, i)
  /\ DOMAIN t.written \subseteq DOMAIN imp[i].written \cup {RowPlayer(i)}
  /\ t.identities = IF PlanAt(i).isNew THEN With(imp[i].identities, RowKey(i), RowPlayer(i))
                    ELSE imp[i].identities
  /\ t.obsolete = Obsolete(i, RowPlayer(i))
  /\ t.deleted = imp[i].deleted /\ t.added = imp[i].added
  /\ t.queued = Missing(i, RowPlayer(i))

LEMMA WritePlayerIs ==
  ASSUME NEW i, WritePlayer(i), IsTransaction(imp[i])
  PROVE  /\ db' = [db EXCEPT !.nextPlayer = IF PlanAt(i).player = None THEN @ + 1 ELSE @]
         /\ UNCHANGED <<latest, raced>>
         /\ \/ End(i, "identity exists")
            \/ /\ PlanAt(i).isNew => RowKey(i) \notin DOMAIN db.identities
               /\ \E t : Become(i, t) /\ Persists(i, t)
<1> DEFINE u == imp[i]
           p == RowPlayer(i)
           pc == IF Obsolete(i, p) # {} THEN "replace" ELSE AfterRow(Len(u.ids) + 1, i)
           seen == With(u.seen, p, Values(RowAt(i)))
           written == IF PlanAt(i).player = None \/ Updates(i)
                      THEN With(u.written, p, Written(i, p, RowAt(i))) ELSE u.written
           identities == IF PlanAt(i).isNew THEN With(u.identities, RowKey(i), p) ELSE u.identities
           ids == Append(u.ids, p)
           obsolete == Obsolete(i, p)
           queued == Missing(i, p)
           next == [u EXCEPT !.pc = pc, !.ids = ids, !.seen = seen, !.written = written,
                             !.identities = identities, !.obsolete = obsolete, !.queued = queued]
<1>1. /\ db' = [db EXCEPT !.nextPlayer = IF PlanAt(i).player = None THEN @ + 1 ELSE @]
      /\ UNCHANGED <<latest, raced>>
      /\ \/ End(i, "identity exists")
         \/ ~(PlanAt(i).isNew /\ RowKey(i) \in DOMAIN db.identities) /\ Become(i, next)
  BY Zenon DEF WritePlayer, RowPlayer, RowKey
<1>2. PICK t : t = next
  OBVIOUS
<1>3. DOMAIN written \subseteq DOMAIN u.written \cup {p}
  <2> DEFINE value == Written(i, p, RowAt(i))
  <2>1. \A x \in DOMAIN With(u.written, p, value) : x \in DOMAIN u.written \/ x = p
    BY DEF With
  <2>2. CASE PlanAt(i).player = None \/ Updates(i)
    <3>1. written = With(u.written, p, value)
      BY <2>2
    <3> HIDE DEF written, value
    <3>2. QED
      BY <2>1, <3>1
  <2>3. CASE ~(PlanAt(i).player = None \/ Updates(i))
    BY <2>3
  <2>4. QED
    BY <2>2, <2>3
<1> HIDE DEF ids, pc, seen, written, identities, obsolete, queued
<1>4. /\ IsTransaction(t) /\ t.job = u.job /\ t.plan = u.plan /\ t.set = u.set
      /\ t.deactivated = u.deactivated /\ t.stale = u.stale /\ t.ids = ids /\ t.pc = pc
      /\ t.written = written /\ t.identities = identities
      /\ t.obsolete = obsolete /\ t.deleted = u.deleted /\ t.added = u.added /\ t.queued = queued
  BY <1>2 DEF IsTransaction
<1>5. Persists(i, t)
  BY <1>3, <1>4 DEF Persists, ids, pc, identities, obsolete, queued
<1>6. QED
  BY <1>1, <1>2, <1>5

\* The row an import is at, and the player it is for.
LEMMA RowIs ==
  ASSUME IInv, NEW i \in Importers, imp[i].pc = "write"
  PROVE  LET u == imp[i]
             k == Len(u.ids) + 1
         IN /\ k \in DOMAIN Players[u.job] /\ k \in DOMAIN u.plan
            /\ RowAt(i) = Players[u.job][k] /\ PlanAt(i) = u.plan[k] /\ RowKey(i) = Key(u.job, k)
            /\ PlanAt(i).player = None => RowPlayer(i) = db.nextPlayer + 1
            /\ PlanAt(i).player # None => RowPlayer(i) = PlanAt(i).player
                                          /\ RowPlayer(i) \in 1 .. db.nextPlayer
            /\ u.obsolete = {} /\ u.queued = {}
<1> DEFINE u == imp[i]
           k == Len(u.ids) + 1
<1>1. TransactionOK(u, db) /\ u.pc \in Late
  BY DEF IInv, Late
<1>2. /\ u.job \in Valid /\ Len(u.ids) \in Nat /\ PlanOK(u, db)
      /\ Len(u.ids) < Len(Players[u.job]) /\ u.obsolete = {} /\ u.queued = {}
  <2> HIDE DEF u
  <2>1. u.job \in Valid /\ Len(u.ids) \in Nat /\ PlanOK(u, db) /\ ProgressOK(u, db) /\ PositionsOK(u, db)
    BY <1>1, LateIs
  <2>2. QED
    BY <2>1 DEF ProgressOK, PositionsOK, u
<1>3. Len(Players[u.job]) \in Nat /\ DOMAIN Players[u.job] = 1 .. Len(Players[u.job])
  BY <1>2, ValidRows
<1>4. k \in DOMAIN Players[u.job]
  <2> HIDE DEF u
  <2>1. QED
    BY <1>2, <1>3
<1>5. k \in DOMAIN u.plan
  BY <1>2, <1>4 DEF PlanOK
<1>6. RowAt(i) = Players[u.job][k] /\ PlanAt(i) = u.plan[k] /\ RowKey(i) = Key(u.job, k)
  BY DEF RowAt, PlayersOf, PlanAt, RowKey, Key, JobOf
<1>7. PlanAt(i).player \in (1 .. db.nextPlayer) \cup {None}
  BY <1>2, <1>5, <1>6 DEF PlanOK
<1>8. QED
  BY <1>2, <1>4, <1>5, <1>6, <1>7 DEF RowPlayer

\* The ids of a transaction with one row more.
Appends(t, u, p, S) == u.ids \in Seq(S) /\ t.ids = Append(u.ids, p)

LEMMA OneMoreId ==
  ASSUME NEW t, NEW u, NEW p, NEW S, Appends(t, u, p, S)
  PROVE  /\ Len(t.ids) = Len(u.ids) + 1
         /\ \A k : k \in DOMAIN t.ids <=> k \in DOMAIN u.ids \/ k = Len(u.ids) + 1
         /\ \A k \in DOMAIN u.ids : t.ids[k] = u.ids[k] /\ k < Len(u.ids) + 1
         /\ t.ids[Len(u.ids) + 1] = p
         /\ \A x : x \in WrittenBy(t) <=> x \in WrittenBy(u) \/ x = p
<1>1. /\ Len(t.ids) = Len(u.ids) + 1 /\ Len(u.ids) \in Nat /\ DOMAIN u.ids = 1 .. Len(u.ids)
      /\ DOMAIN t.ids = 1 .. (Len(u.ids) + 1)
      /\ \A k \in DOMAIN u.ids : t.ids[k] = u.ids[k]
      /\ t.ids[Len(u.ids) + 1] = p
  <2>1. u.ids \in Seq(S) /\ t.ids = Append(u.ids, p)
    BY DEF Appends
  <2>2. QED
    BY <2>1
<1>2. DOMAIN t.ids = DOMAIN u.ids \cup {Len(u.ids) + 1}
  BY <1>1
<1>3. \A k \in DOMAIN u.ids : k < Len(u.ids) + 1
  BY <1>1
<1>4. WrittenBy(t) = WrittenBy(u) \cup {p}
  BY <1>1, <1>2 DEF WrittenBy
<1>5. QED
  BY <1>1, <1>2, <1>3, <1>4


\* One row more, its player's positions decided by what the import sees.
LEMMA RowTransactionOK ==
  ASSUME IInv, NEW i \in Importers, imp[i].pc = "write", NEW t, Persists(i, t),
         PlanAt(i).isNew => RowKey(i) \notin DOMAIN db.identities,
         Kept(db, db'), RowPlayer(i) \in 1 .. db'.nextPlayer
  PROVE  TransactionOK(t, db')
<1> DEFINE u == imp[i]
           p == RowPlayer(i)
           n == Len(u.ids) + 1
           rows == Players[u.job]
<1>1. /\ n \in DOMAIN rows /\ n \in DOMAIN u.plan
      /\ RowAt(i) = rows[n] /\ PlanAt(i) = u.plan[n] /\ RowKey(i) = Key(u.job, n)
      /\ PlanAt(i).player # None => p = PlanAt(i).player
      /\ u.obsolete = {} /\ u.queued = {}
  BY RowIs
<1>2. TransactionOK(u, db) /\ TransactionOK(u, db') /\ u.pc \in Late
  BY KeptTransaction DEF IInv, Late
<1>3. /\ IsTransaction(u) /\ u.job \in Valid
      /\ ProgressOK(u, db) /\ IdentitiesOK(u, db) /\ PositionsOK(u, db)
      /\ Len(u.ids) \in Nat /\ DOMAIN u.ids = 1 .. Len(u.ids)
  <2> HIDE DEF u
  <2>1. QED
    BY <1>2, LateIs
<1>4. PlanOK(u, db') /\ ProgressOK(u, db') /\ SetOK(u, db') /\ IdentitiesOK(u, db') /\ PositionsOK(u, db')
  <2> HIDE DEF u
  <2>1. QED
    BY <1>2, LateIs
<1>5. /\ IsTransaction(t) /\ t.job = u.job /\ t.plan = u.plan /\ t.set = u.set
      /\ t.deactivated = u.deactivated /\ t.stale = u.stale
      /\ t.ids = Append(u.ids, p)
      /\ t.pc = IF Obsolete(i, p) # {} THEN "replace" ELSE IF n = Len(rows) THEN "end" ELSE "fetch"
      /\ DOMAIN t.written \subseteq DOMAIN u.written \cup {p}
      /\ t.identities = IF PlanAt(i).isNew THEN With(u.identities, RowKey(i), p) ELSE u.identities
      /\ t.obsolete = Obsolete(i, p) /\ t.deleted = u.deleted /\ t.added = u.added
      /\ t.queued = Missing(i, p)
  BY DEF Persists, PlayersOf, AfterRow
<1>6. u.ids \in Seq(1 .. db'.nextPlayer)
  BY <1>4 DEF ProgressOK
<1>7. /\ Len(t.ids) = n
      /\ DOMAIN t.ids = DOMAIN u.ids \cup {n}
      /\ \A k \in DOMAIN u.ids : t.ids[k] = u.ids[k] /\ k < n
      /\ t.ids[n] = p
      /\ WrittenBy(t) = WrittenBy(u) \cup {p}
  <2>1. Appends(t, u, p, 1 .. db'.nextPlayer)
    BY <1>5, <1>6 DEF Appends
  <2> HIDE DEF u, p
  <2>2. /\ \A k : k \in DOMAIN t.ids <=> k \in DOMAIN u.ids \/ k = n
        /\ \A x : x \in WrittenBy(t) <=> x \in WrittenBy(u) \/ x = p
        /\ Len(t.ids) = n /\ t.ids[n] = p
        /\ \A k \in DOMAIN u.ids : t.ids[k] = u.ids[k] /\ k < n
    BY <2>1, OneMoreId
  <2>3. QED
    BY <2>2
<1>8. db'.eligibility = db.eligibility /\ db'.identities = db.identities
  BY KeptFields
<1>9. /\ Len(rows) \in Nat /\ DOMAIN rows = 1 .. Len(rows)
      /\ \A j, k \in DOMAIN rows : Key(u.job, j) = Key(u.job, k) => j = k
  BY <1>3, ValidRows
<1> HIDE DEF u, p, n, rows
<1>10. PlanOK(t, db')
  BY <1>4, <1>5 DEF PlanOK
<1>11. /\ t.pc \in {"replace", "end", "fetch"}
       /\ t.pc = "fetch" => n # Len(rows)
       /\ t.pc = "end" => n = Len(rows)
  BY <1>5
<1>12. ProgressOK(t, db')
  <2>1. t.ids \in Seq(1 .. db'.nextPlayer)
    BY <1>5, <1>6 DEF p
  <2>2. n \in Nat /\ n <= Len(rows)
    BY <1>1, <1>9
  <2>3. /\ t.pc = "fetch" => Len(t.ids) < Len(rows)
        /\ t.pc = "replace" => Len(t.ids) <= Len(rows)
        /\ t.pc = "end" => Len(t.ids) = Len(rows)
    <3> DEFINE m == Len(rows)
               l == Len(t.ids)
    <3>1. l = n /\ m \in Nat
      BY <1>7, <1>9
    <3>2. n \in Nat /\ n <= m /\ (t.pc = "fetch" => n # m) /\ (t.pc = "end" => n = m)
      BY <1>11, <2>2
    <3> HIDE DEF m, l
    <3>3. (t.pc = "fetch" => l < m) /\ (t.pc = "replace" => l <= m) /\ (t.pc = "end" => l = m)
      BY <3>1, <3>2
    <3>4. QED
      BY <3>3 DEF m, l
  <2>4. \A k \in DOMAIN t.ids : t.plan[k].player # None => t.ids[k] = t.plan[k].player
    BY <1>1, <1>3, <1>5, <1>7 DEF ProgressOK
  <2>5. DOMAIN t.written \subseteq WrittenBy(t)
    BY <1>3, <1>5, <1>7 DEF ProgressOK
  <2>6. QED
    BY <1>5, <1>11, <2>1, <2>3, <2>4, <2>5 DEF ProgressOK, rows, Early
<1>13. SetOK(t, db')
  BY <1>2, <1>4, <1>5, <1>11 DEF SetOK, Early, Late
<1>14. IdentitiesOK(t, db')
  <2>1. \A k \in DOMAIN u.ids : Key(u.job, k) # Key(u.job, n)
    <3>1. DOMAIN u.ids \subseteq DOMAIN rows
      BY <1>1, <1>3, <1>9 DEF n
    <3>2. QED
      BY <1>1, <1>7, <1>9, <3>1
  <2>2. CASE PlanAt(i).isNew
    <3>1. /\ \A x : x \in DOMAIN t.identities <=> x \in DOMAIN u.identities \/ x = Key(u.job, n)
          /\ t.identities[Key(u.job, n)] = p
          /\ \A x \in DOMAIN u.identities \ {Key(u.job, n)} : t.identities[x] = u.identities[x]
      <4>1. t.identities = With(u.identities, Key(u.job, n), p)
        BY <1>1, <1>5, <2>2
      <4>2. QED
        BY <4>1, WithIs
    <3>2. DOMAIN t.identities = {Key(t.job, k) : k \in {m \in DOMAIN t.ids : t.plan[m].isNew}}
      <4>1. {m \in DOMAIN t.ids : t.plan[m].isNew} = {m \in DOMAIN u.ids : u.plan[m].isNew} \cup {n}
        BY <1>1, <1>5, <1>7, <2>2
      <4>2. QED
        BY <1>3, <1>5, <3>1, <4>1 DEF IdentitiesOK
    <3>3. ASSUME NEW k \in DOMAIN t.ids, t.plan[k].isNew
          PROVE  t.identities[Key(t.job, k)] = t.ids[k]
      <4>1. CASE k = n
        BY <1>5, <1>7, <3>1, <4>1
      <4>2. CASE k \in DOMAIN u.ids
        <5>1. Key(u.job, k) \in DOMAIN u.identities \ {Key(u.job, n)}
          BY <1>3, <1>5, <2>1, <3>3, <4>2 DEF IdentitiesOK
        <5>2. u.identities[Key(u.job, k)] = u.ids[k]
          BY <1>3, <1>5, <3>3, <4>2 DEF IdentitiesOK
        <5>3. QED
          BY <1>5, <1>7, <3>1, <4>2, <5>1, <5>2
      <4>3. QED
        BY <1>7, <4>1, <4>2
    <3>4. DOMAIN t.identities \cap DOMAIN db'.identities = {}
      BY <1>1, <1>3, <1>8, <2>2, <3>1 DEF IdentitiesOK
    <3>5. QED
      BY <3>2, <3>3, <3>4 DEF IdentitiesOK
  <2>3. CASE ~PlanAt(i).isNew
    <3>1. t.identities = u.identities
      BY <1>5, <2>3
    <3>2. {m \in DOMAIN t.ids : t.plan[m].isNew} = {m \in DOMAIN u.ids : u.plan[m].isNew}
      BY <1>1, <1>5, <1>7, <2>3
    <3>3. QED
      BY <1>4, <1>5, <1>7, <2>3, <1>1, <3>1, <3>2 DEF IdentitiesOK
  <2>4. QED
    BY <2>2, <2>3
<1>15. PositionsOK(t, db')
  <2> DEFINE E == db.eligibility
             old == Merged(u, E)
             new == Merged(t, E)
             V == EligibilityOf(old, p)
  <2>1. \A e \in u.deleted \cup u.added \cup u.obsolete \cup u.queued :
          e = <<e[1], e[2]>> /\ e[1] \in WrittenBy(u)
    BY <1>3 DEF PositionsOK
  <2>2. old = (E \ u.deleted) \cup u.added
    BY <1>1 DEF Merged
  <2>3. \A e \in old : e = <<e[1], e[2]>>
    <3>1. \A e \in E : e = <<e[1], e[2]>>
      BY DEF IInv, IsDatabase
    <3> HIDE DEF E, old
    <3>2. QED
      BY <2>1, <2>2, <3>1
  <2>4. V = PositionsOf(i, p)
    BY <2>2 DEF PositionsOf, EligibilityOf, u
  <2>5. /\ Obsolete(i, p) = {<<p, q>> : q \in V \ rows[n].positions}
        /\ Missing(i, p) = {<<p, q>> : q \in rows[n].positions \ V}
    BY <1>1, <2>4 DEF Obsolete, Missing
  <2>6. new = (old \ Obsolete(i, p)) \cup Missing(i, p)
    BY <1>5, <2>2 DEF Merged
  <2>7. /\ EligibilityOf(new, p) = rows[n].positions
        /\ \A r : r # p => EligibilityOf(new, r) = EligibilityOf(old, r)
    <3> HIDE DEF old, new
    <3>1. Applies(old, new, p, rows[n].positions)
      BY <2>3, <2>5, <2>6 DEF Applies, V
    <3>2. QED
      BY <3>1, RowDecides
  <2>8. \A e \in t.deleted \cup t.added \cup t.obsolete \cup t.queued :
          e = <<e[1], e[2]>> /\ e[1] \in WrittenBy(t)
    <3>1. \A e \in Obsolete(i, p) \cup Missing(i, p) : e = <<e[1], e[2]>> /\ e[1] = p
      BY <2>5
    <3>2. QED
      BY <1>5, <1>7, <2>1, <3>1
  <2>9. (t.pc # "replace" => t.obsolete = {}) /\ t.pc # "write"
    BY <1>5
  <2>10. ASSUME NEW k \in DOMAIN t.ids, t.ids[k] \notin t.stale,
                \A m \in DOMAIN t.ids : k < m => t.ids[m] # t.ids[k]
         PROVE  EligibilityOf(new, t.ids[k]) = rows[k].positions
    <3>1. CASE k = n
      BY <1>7, <2>7, <3>1
    <3>2. CASE k \in DOMAIN u.ids
      <4>1. t.ids[k] = u.ids[k] /\ u.ids[k] # p
        BY <1>7, <2>10, <3>2
      <4>2. \A m \in DOMAIN u.ids : k < m => u.ids[m] # u.ids[k]
        BY <1>7, <2>10, <3>2
      <4>3. u.ids[k] \notin u.stale
        BY <1>5, <2>10, <4>1
      <4>4. EligibilityOf(old, u.ids[k]) = rows[k].positions
        BY <1>3, <3>2, <4>2, <4>3 DEF PositionsOK, rows
      <4>5. QED
        BY <2>7, <4>1, <4>4
    <3>3. QED
      BY <1>7, <3>1, <3>2
  <2>11. QED
    BY <1>5, <1>8, <2>8, <2>9, <2>10 DEF PositionsOK, rows
<1>16. t.pc \in Working /\ t.pc \notin {"plan", "check", "active exists"} /\ t.job \in Valid
  BY <1>3, <1>5, <1>11 DEF Working, Late
<1>17. QED
  BY <1>5, <1>10, <1>12, <1>13, <1>14, <1>15, <1>16 DEF TransactionOK, WorkOK

LEMMA WritePlayerKeepsIInv ==
  ASSUME IInv, NEW i \in Importers, WritePlayer(i)
  PROVE  IInv'
<1> DEFINE p == RowPlayer(i)
<1>1. imp[i].pc = "write"
  BY DEF WritePlayer
<1>2. /\ PlanAt(i).player = None => p = db.nextPlayer + 1
      /\ PlanAt(i).player # None => p \in 1 .. db.nextPlayer
  BY <1>1, RowIs
<1>3. TransactionOK(imp[i], db) /\ imp[i].pc \in Late
  BY <1>1 DEF IInv, Late
<1>4. IsTransaction(imp[i])
  BY <1>3, LateIs
<1>5. /\ db' = [db EXCEPT !.nextPlayer = IF PlanAt(i).player = None THEN @ + 1 ELSE @]
      /\ UNCHANGED <<latest, raced>>
      /\ \/ End(i, "identity exists")
         \/ /\ PlanAt(i).isNew => RowKey(i) \notin DOMAIN db.identities
            /\ \E t : Become(i, t) /\ Persists(i, t)
  BY <1>4, WritePlayerIs
<1> DEFINE next == IF PlanAt(i).player = None THEN db.nextPlayer + 1 ELSE db.nextPlayer
<1>6. Kept(db, db') /\ db'.nextPlayer = next
  <2>1. db' = [db EXCEPT !.nextPlayer = next]
    BY <1>5
  <2>2. next \in Nat /\ db.nextPlayer <= next
    BY DEF IInv, IsDatabase
  <2> HIDE DEF next
  <2>3. QED
    BY <2>1, <2>2, SMT DEF IInv, IsDatabase, Kept
<1>7. CASE End(i, "identity exists")
  BY <1>5, <1>6, <1>7, EndKeepsIInv DEF Working, Early, Late
<1>8. CASE /\ PlanAt(i).isNew => RowKey(i) \notin DOMAIN db.identities
           /\ \E t : Become(i, t) /\ Persists(i, t)
  <2>1. PICK t : Become(i, t) /\ Persists(i, t)
    BY <1>8
  <2>2. p \in 1 .. db'.nextPlayer
    BY <1>2, <1>6 DEF IInv, IsDatabase
  <2>3. TransactionOK(t, db')
    BY <1>1, <1>6, <1>8, <2>1, <2>2, RowTransactionOK
  <2>4. t.job = imp[i].job /\ t.set = imp[i].set
    BY <2>1 DEF Persists
  <2>5. QED
    BY <1>3, <1>5, <1>6, <2>1, <2>3, <2>4, LateKeepsIInv
<1>9. QED
  BY <1>5, <1>7, <1>8

-----------------------------------------------------------------------------
(* The commit.                                                             *)

\* A sequence of n ids that are n different players has none of them twice.
LEMMA NobodyTwice ==
  ASSUME NEW t, NEW n \in Nat, DOMAIN t.ids = 1 .. n, ~ (Cardinality(WrittenBy(t)) < n)
  PROVE  \A j, k \in 1 .. n : t.ids[j] = t.ids[k] => j = k
<1> DEFINE f == [k \in 1 .. n |-> t.ids[k]]
           S == WrittenBy(t)
<1>1. f \in [1 .. n -> S] /\ \A s \in S : \E k \in 1 .. n : f[k] = s
  BY DEF WrittenBy
<1> HIDE DEF S
<1>2. f \in Surjection(1 .. n, S)
  <2> HIDE DEF f
  <2>1. QED
    BY <1>1, Fun_IsSurj
<1>3. IsFiniteSet(1 .. n) /\ Cardinality(1 .. n) = n
  BY FS_Interval
<1>4. IsFiniteSet(S) /\ Cardinality(S) <= n /\ (Cardinality(S) = n => f \in Injection(1 .. n, S))
  <2> HIDE DEF f
  <2>1. QED
    BY <1>2, <1>3, FS_Surjection
<1>5. Cardinality(S) = n
  BY <1>4, FS_CardinalityType DEF S
<1>6. \A j, k \in 1 .. n : f[j] = f[k] => j = k
  <2> HIDE DEF f
  <2>1. QED
    BY <1>4, <1>5, Fun_InjectionProperties
<1>7. QED
  BY <1>6
LEMMA IfIs ==
  ASSUME NEW condition \in BOOLEAN, NEW code, NEW where, If(condition, code, where) = {}
  PROVE  ~condition
BY Zenon DEF If

\* Rounding to hundredths leaves a number within bounds that are hundredths.
LEMMA RoundingKeepsBounds ==
  ASSUME NEW a \in Int, a >= 0
  PROVE  /\ 10 * RoundHalfUp(a, 10) >= 0
         /\ a <= 82000 => 10 * RoundHalfUp(a, 10) <= 82000
         /\ a <= 60000 => 10 * RoundHalfUp(a, 10) <= 60000
BY DEF RoundHalfUp

\* What a CSV file has to pass covers what the table checks.
LEMMA CsvRowsPassChecks ==
  ASSUME NEW job \in Valid, Jobs[job].via = "csv", NEW k \in DOMAIN Players[job]
  PROVE  Checked(Players[job][k])
<1> DEFINE file == Jobs[job].file
           rows == ContentRows(file)
           row == rows[k]
<1>1. file.kind = "csv" /\ FileIssues(file) = {} /\ Players[job] = PlayersIn(file)
  <2>1. job \in DOMAIN Jobs /\ FileIssues(Jobs[job].file) = {}
    BY DEF Valid, Invalid
  <2>2. \A name \in DOMAIN Jobs : Jobs[name].via = "csv" => Jobs[name].file.kind = "csv"
    BY JobsAssumption
  <2>3. Players[job] = PlayersIn(Jobs[job].file)
    BY <2>1 DEF Players
  <2>4. QED
    BY <2>1, <2>2, <2>3
<1>2. CsvIssues(file) = {} /\ Players[job] = CsvPlayers(file)
  BY <1>1 DEF FileIssues, PlayersIn
<1>3. k \in DOMAIN rows /\ Players[job][k] = ProjectionPlayer(row)
  BY <1>2 DEF CsvPlayers
<1>4. RowIssues(row) = {}
  <2> DEFINE complete == SelectSeq(rows, Complete)
             found == UNION {RowIssues(rows[i]) : i \in DOMAIN rows} \cup DuplicateIssues(complete)
  <2>1. \/ MissingColumnIssues(file.columns) # {} /\ CsvIssues(file) = MissingColumnIssues(file.columns)
        \/ CsvIssues(file) = {<<"malformed_row", "">>}
        \/ CsvIssues(file) = found \cup If(complete = <<>> /\ found = {}, "empty_provider_rows", "")
    BY Zenon DEF CsvIssues
  <2>2. found = {}
    <3> HIDE DEF found, complete
    <3>1. QED
      BY <1>2, <2>1
  <2> HIDE DEF complete, rows
  <2>3. QED
    BY <1>3, <2>2
<1> HIDE DEF rows, row
<1>5. RequiredIssues(row) = {} /\ (Complete(row) => RangeIssues(row) = {})
  BY <1>4 DEF RowIssues
<1>6. RangeIssues_NoPairs(row) = {} /\ ~(row.stats.fgm.n > row.stats.fga.n) /\ ~(row.stats.ftm.n > row.stats.fta.n)
  BY <1>5 DEF Complete, RangeIssues, If
<1>7. /\ \A f \in NumericFields : ~(row.stats[f].n < 0)
      /\ ~(row.stats.games.n > 82000) /\ ~(row.stats.minutes_per_game.n > 60000) /\ ~(row.points.n < 0)
  <2>1. {OutOfRange(f) : f \in {g \in NumericFields : row.stats[g].n < 0}} = {}
    BY <1>6 DEF RangeIssues_NoPairs
  <2>2. ~(row.stats.games.n > 82000) /\ ~(row.stats.minutes_per_game.n > 60000) /\ ~(row.points.n < 0)
    <3> DEFINE many == row.stats.games.n > 82000
               long == row.stats.minutes_per_game.n > 60000
               negative == row.points.n < 0
    <3>1. /\ If(many, "value_out_of_range", "games") = {}
          /\ If(long, "value_out_of_range", "minutes_per_game") = {}
          /\ If(negative, "value_out_of_range", "points") = {}
      BY <1>6, SMT DEF RangeIssues_NoPairs
    <3>2. many \in BOOLEAN /\ long \in BOOLEAN /\ negative \in BOOLEAN
      BY SMT
    <3> HIDE DEF many, long, negative
    <3>3. ~many /\ ~long /\ ~negative
      BY <3>1, <3>2, IfIs, Zenon
    <3>4. QED
      BY <3>3, SMT DEF many, long, negative
  <2>3. ASSUME NEW f \in NumericFields, row.stats[f].n < 0
        PROVE  FALSE
    BY <2>1, <2>3
  <2>4. QED
    BY <2>2, <2>3
<1>8. {"games", "minutes_per_game", "fgm", "fga", "ftm", "fta"} \subseteq NumericFields
  BY DEF NumericFields, BaseFields
<1> DEFINE x == ProjectionPlayer(row)
<1>9. /\ \A f \in NumericFields : x.stats[f] = row.stats[f].n
      /\ x.points = row.points
  BY DEF ProjectionPlayer
<1> HIDE DEF x
<1>10. x.points.n \in Int /\ \A f \in NumericFields : x.stats[f] \in Int
  BY <1>3, JobsAssumption DEF x, Valid
<1> DEFINE kept == Stored(x.stats)
           rounds == {"games", "minutes_per_game"}
<1>11. /\ \A f \in NumericFields : x.stats[f] >= 0
       /\ x.stats["games"] <= 82000 /\ x.stats["minutes_per_game"] <= 60000 /\ x.points.n >= 0
       /\ x.stats["fgm"] <= x.stats["fga"] /\ x.stats["ftm"] <= x.stats["fta"]
  <2>1. \A f \in NumericFields : x.stats[f] >= 0
    BY <1>7, <1>9, <1>10
  <2>2. x.stats["games"] <= 82000 /\ x.stats["minutes_per_game"] <= 60000 /\ x.points.n >= 0
    BY <1>7, <1>8, <1>9, <1>10
  <2>3. x.stats["fgm"] <= x.stats["fga"] /\ x.stats["ftm"] <= x.stats["fta"]
    BY <1>6, <1>8, <1>9, <1>10
  <2>4. QED
    BY <2>1, <2>2, <2>3
<1>12. /\ \A f \in NumericFields \ rounds : kept[f] = x.stats[f]
       /\ \A f \in rounds : kept[f] = 10 * RoundHalfUp(x.stats[f], 10)
  BY <1>8 DEF Stored
<1> HIDE DEF kept
<1>13. \A f \in NumericFields : kept[f] >= 0
  <2>1. ASSUME NEW f \in rounds
        PROVE  kept[f] >= 0
    BY <1>8, <1>10, <1>11, <1>12, RoundingKeepsBounds
  <2>2. QED
    BY <1>11, <1>12, <2>1
<1>14. kept["games"] <= 82000 /\ kept["minutes_per_game"] <= 60000
  <2>1. kept["games"] <= 82000
    BY <1>8, <1>10, <1>11, <1>12, RoundingKeepsBounds
  <2>2. kept["minutes_per_game"] <= 60000
    BY <1>8, <1>10, <1>11, <1>12, RoundingKeepsBounds
  <2>3. QED
    BY <2>1, <2>2
<1>15. kept["fgm"] <= kept["fga"] /\ kept["ftm"] <= kept["fta"]
  <2>1. {"fgm", "fga", "ftm", "fta"} \subseteq NumericFields \ rounds
    BY <1>8
  <2>2. QED
    BY <1>11, <1>12, <2>1
<1>16. Checked(x)
  BY <1>11, <1>13, <1>14, <1>15 DEF Checked, kept
<1>17. QED
  BY <1>3, <1>16 DEF x

NewRows(i) ==
  {[set |-> imp[i].set, player |-> imp[i].ids[k], stats |-> Stored(PlayersOf(i)[k].stats)] : k \in Rows(i)}
NewSet(i) ==
  [id |-> imp[i].set, source |-> JobOf(i).source, season |-> JobOf(i).season,
   active |-> JobOf(i).activate, job |-> imp[i].job]
Off(i) == {s \in db.sets : s.id \in imp[i].deactivated}
SetsAfter(i) ==
  (db.sets \ Off(i)) \cup {[s EXCEPT !.active = FALSE] : s \in Off(i)} \cup {NewSet(i)}
Marked(i, j) == [imp[j] EXCEPT !.stale = @ \cup (Handled(i) \cap Handled(j))]

\* A commit that no constraint stops.
Commits(i) ==
  /\ IF Cardinality(Handled(i)) < Len(PlayersOf(i)) THEN FALSE ELSE TRUE
  /\ db' = [db EXCEPT
       !.sources = @ \cup {JobOf(i).source},
       !.players = Over(imp[i].written, @),
       !.identities = Over(imp[i].identities, @),
       !.eligibility = (@ \ imp[i].deleted) \cup imp[i].added \cup imp[i].queued,
       !.sets = SetsAfter(i),
       !.projections = @ \cup NewRows(i)]
  /\ latest' = Over([p \in Handled(i) |->
                       PlayersOf(i)[CHOOSE k \in Rows(i) : imp[i].ids[k] = p].positions], latest)
  /\ raced' = (raced \ Handled(i)) \cup (Handled(i) \cap imp[i].stale)
  /\ imp' = [j \in Importers |->
               IF j = i THEN [Idle EXCEPT !.pc = "committed", !.job = imp[i].job] ELSE Marked(i, j)]

LEMMA CommitIs ==
  ASSUME NEW i, Commit(i)
  PROVE  \/ /\ \/ End(i, "position exists") \/ End(i, "overflow") \/ End(i, "player twice")
               \/ End(i, "check") /\ ~ \A k \in Rows(i) : Checked(PlayersOf(i)[k])
            /\ UNCHANGED <<db, latest, raced>>
         \/ Commits(i)
BY Zenon DEF Commit, Commits, NewRows, NewSet, Off, SetsAfter, Marked

\* What is known of an import that has persisted every row.
LEMMA EndIsComplete ==
  ASSUME IInv, NEW i \in Importers, imp[i].pc = "end", NEW t, t = imp[i], NEW rows, rows = Players[t.job]
  PROVE  /\ t.job \in Valid /\ t.obsolete = {}
         /\ PlanOK(t, db) /\ ProgressOK(t, db) /\ SetOK(t, db) /\ IdentitiesOK(t, db) /\ PositionsOK(t, db)
         /\ t.set \in 1 .. db.nextSet
         /\ Rows(i) = DOMAIN rows /\ PlayersOf(i) = rows /\ Handled(i) = WrittenBy(t)
         /\ DOMAIN rows = 1 .. Len(rows) /\ Len(rows) \in Nat
         /\ DOMAIN t.ids = DOMAIN rows
         /\ \A k \in DOMAIN rows : t.ids[k] \in 1 .. db.nextPlayer
<1>1. TransactionOK(t, db) /\ t.pc \in Late
  BY DEF IInv, Late
<1>2. /\ t.job \in Valid
      /\ PlanOK(t, db) /\ ProgressOK(t, db) /\ SetOK(t, db) /\ IdentitiesOK(t, db) /\ PositionsOK(t, db)
      /\ DOMAIN t.ids = 1 .. Len(t.ids)
  BY <1>1, LateIs
<1>3. t.obsolete = {} /\ t.set \in 1 .. db.nextSet
  BY <1>1, <1>2 DEF PositionsOK, SetOK
<1>4. Rows(i) = DOMAIN rows /\ PlayersOf(i) = rows /\ Handled(i) = WrittenBy(t)
  BY DEF Rows, PlayersOf, Handled, WrittenBy
<1>5. DOMAIN rows = 1 .. Len(rows) /\ Len(rows) \in Nat
  BY <1>2, ValidRows
<1>6. t.ids \in Seq(1 .. db.nextPlayer) /\ Len(t.ids) = Len(rows)
  BY <1>2 DEF ProgressOK
<1>7. \A k \in 1 .. Len(rows) : t.ids[k] \in 1 .. db.nextPlayer
  BY <1>6, ElementOfSeq
<1>8. QED
  BY <1>2, <1>3, <1>4, <1>5, <1>6, <1>7

LEMMA CommitTakesEachOnce ==
  ASSUME IInv, NEW i \in Importers, imp[i].pc = "end", Commits(i), NEW t, t = imp[i]
  PROVE  \A j, k \in DOMAIN Players[t.job] : t.ids[j] = t.ids[k] => j = k
<1> DEFINE rows == Players[t.job]
           n == Len(rows)
<1>1. /\ DOMAIN rows = 1 .. n /\ n \in Nat /\ DOMAIN t.ids = DOMAIN rows
      /\ Handled(i) = WrittenBy(t) /\ PlayersOf(i) = rows
  BY EndIsComplete
<1>2. ~ (Cardinality(WrittenBy(t)) < n)
  BY <1>1 DEF Commits
<1> HIDE DEF rows, n
<1>3. \A j, k \in 1 .. n : t.ids[j] = t.ids[k] => j = k
  BY <1>1, <1>2, NobodyTwice
<1>4. QED
  BY <1>1, <1>3 DEF rows, n

LEMMA CommitFields ==
  ASSUME IInv, NEW i \in Importers, imp[i].pc = "end", Commits(i)
  PROVE  /\ db' = [sources |-> db'.sources, players |-> db'.players, eligibility |-> db'.eligibility,
                   identities |-> db'.identities, sets |-> db'.sets, projections |-> db'.projections,
                   nextPlayer |-> db'.nextPlayer, nextSet |-> db'.nextSet]
         /\ db'.players = Over(imp[i].written, db.players)
         /\ db'.identities = Over(imp[i].identities, db.identities)
         /\ db'.eligibility = Merged(imp[i], db.eligibility)
         /\ db'.sets = SetsAfter(i)
         /\ db'.projections = db.projections \cup NewRows(i)
         /\ db'.nextPlayer = db.nextPlayer /\ db'.nextSet = db.nextSet
<1> DEFINE A == db.sources \cup {JobOf(i).source}
           B == Over(imp[i].written, db.players)
           C == Over(imp[i].identities, db.identities)
           D == (db.eligibility \ imp[i].deleted) \cup imp[i].added \cup imp[i].queued
           E == db.projections \cup NewRows(i)
<1>1. db' = [db EXCEPT !.sources = A, !.players = B, !.identities = C, !.eligibility = D,
                       !.sets = SetsAfter(i), !.projections = E]
  BY DEF Commits
<1>2. db = [sources |-> db.sources, players |-> db.players, eligibility |-> db.eligibility,
            identities |-> db.identities, sets |-> db.sets, projections |-> db.projections,
            nextPlayer |-> db.nextPlayer, nextSet |-> db.nextSet]
  BY DEF IInv, IsDatabase
<1>3. D = Merged(imp[i], db.eligibility)
  <2>1. imp[i].obsolete = {}
    BY EndIsComplete
  <2>2. QED
    BY <2>1 DEF Merged
<1> HIDE DEF A, B, C, D, E
<1>4. /\ db' = [sources |-> db'.sources, players |-> db'.players, eligibility |-> db'.eligibility,
                identities |-> db'.identities, sets |-> db'.sets, projections |-> db'.projections,
                nextPlayer |-> db'.nextPlayer, nextSet |-> db'.nextSet]
      /\ db'.players = B /\ db'.identities = C /\ db'.eligibility = D /\ db'.sets = SetsAfter(i)
      /\ db'.projections = E /\ db'.nextPlayer = db.nextPlayer /\ db'.nextSet = db.nextSet
  BY <1>1, <1>2
<1>5. QED
  BY <1>3, <1>4 DEF B, C, E

\* The identities of the commit: the old ones, and one for every row.
LEMMA CommitIdentities ==
  ASSUME IInv, NEW i \in Importers, imp[i].pc = "end", Commits(i)
  PROVE  LET t == imp[i]
         IN /\ \A x \in DOMAIN db.identities :
                 x \in DOMAIN db'.identities /\ db'.identities[x] = db.identities[x]
            /\ \A k \in DOMAIN Players[t.job] :
                 Key(t.job, k) \in DOMAIN db'.identities /\ db'.identities[Key(t.job, k)] = t.ids[k]
            /\ \A x \in DOMAIN db'.identities :
                 /\ db'.identities[x] \in 1 .. db.nextPlayer
                 /\ x \in DOMAIN db.identities \/ \E k \in DOMAIN Players[t.job] : x = Key(t.job, k)
<1> DEFINE t == imp[i]
           rows == Players[t.job]
           old == db.identities
           new == db'.identities
<1>1. /\ PlanOK(t, db) /\ ProgressOK(t, db) /\ IdentitiesOK(t, db)
      /\ DOMAIN t.ids = DOMAIN rows /\ \A k \in DOMAIN rows : t.ids[k] \in 1 .. db.nextPlayer
  BY EndIsComplete
<1>2. /\ \A x \in DOMAIN old : old[x] \in 1 .. db.nextPlayer
      /\ new = Over(t.identities, old)
  BY CommitFields DEF IInv, IsDatabase
<1> HIDE DEF t, rows, old, new
<1>3. /\ \A x : x \in DOMAIN new <=> x \in DOMAIN t.identities \/ x \in DOMAIN old
      /\ \A x \in DOMAIN t.identities : new[x] = t.identities[x]
      /\ \A x \in DOMAIN old \ DOMAIN t.identities : new[x] = old[x]
  BY <1>2, OverIs
<1>4. \A x \in DOMAIN old : x \notin DOMAIN t.identities
  BY <1>1 DEF IdentitiesOK, old
<1>5. \A x \in DOMAIN old : x \in DOMAIN new /\ new[x] = old[x]
  BY <1>3, <1>4
<1>6. ASSUME NEW k \in DOMAIN rows
      PROVE  Key(t.job, k) \in DOMAIN new /\ new[Key(t.job, k)] = t.ids[k]
  <2>1. CASE t.plan[k].isNew
    <3>1. Key(t.job, k) \in DOMAIN t.identities /\ t.identities[Key(t.job, k)] = t.ids[k]
      BY <1>1, <2>1 DEF IdentitiesOK
    <3>2. QED
      BY <1>3, <3>1
  <2>2. CASE ~t.plan[k].isNew
    <3>1. Key(t.job, k) \in DOMAIN old /\ old[Key(t.job, k)] = t.plan[k].player
      BY <1>1, <2>2 DEF PlanOK, old, rows
    <3>2. t.plan[k].player # None
      BY <1>2, <3>1, NoneAssumption
    <3>3. t.ids[k] = t.plan[k].player
      BY <1>1, <3>2 DEF ProgressOK
    <3>4. QED
      BY <1>5, <3>1, <3>3
  <2>3. QED
    BY <2>1, <2>2
<1>7. ASSUME NEW x \in DOMAIN t.identities
      PROVE  t.identities[x] \in 1 .. db.nextPlayer /\ \E k \in DOMAIN rows : x = Key(t.job, k)
  <2>1. PICK k \in DOMAIN t.ids : t.plan[k].isNew /\ x = Key(t.job, k)
    BY <1>1 DEF IdentitiesOK
  <2>2. QED
    BY <1>1, <2>1 DEF IdentitiesOK
<1>8. QED
  BY <1>2, <1>3, <1>5, <1>6, <1>7 DEF t, rows, old, new
\* The sets of the commit: the old ones, some of them no longer active, and
\* the import's own.
Follows(s, u, off) ==
  /\ s.id = u.id /\ s.source = u.source /\ s.season = u.season /\ s.job = u.job
  /\ s = [id |-> s.id, source |-> s.source, season |-> s.season, active |-> s.active, job |-> s.job]
  /\ s.active => s = u /\ u \notin off
  /\ u \in off => s = [u EXCEPT !.active = FALSE]
  /\ u \notin off => s = u

LEMMA CommitSets ==
  ASSUME IInv, NEW i \in Importers
  PROVE  \A s \in SetsAfter(i) : s = NewSet(i) \/ \E u \in db.sets : Follows(s, u, Off(i))
<1> DEFINE D == Off(i)
           Down(u) == [u EXCEPT !.active = FALSE]
<1>1. \A u \in db.sets : u = [id |-> u.id, source |-> u.source, season |-> u.season,
                              active |-> u.active, job |-> u.job]
  BY DEF IInv, IsDatabase
<1>2. D \subseteq db.sets
  BY DEF Off
<1>3. \A s : s \in SetsAfter(i) <=> (s \in db.sets \ D) \/ (\E u \in D : s = Down(u)) \/ s = NewSet(i)
  BY DEF SetsAfter
<1> HIDE DEF D
<1>4. ASSUME NEW u \in db.sets
      PROVE  /\ Down(u).id = u.id /\ Down(u).source = u.source /\ Down(u).season = u.season
             /\ Down(u).job = u.job /\ Down(u).active = FALSE
             /\ Down(u) = [id |-> Down(u).id, source |-> Down(u).source, season |-> Down(u).season,
                           active |-> Down(u).active, job |-> Down(u).job]
  <2>1. PICK s : s = Down(u)
    OBVIOUS
  <2>2. u = [id |-> u.id, source |-> u.source, season |-> u.season, active |-> u.active, job |-> u.job]
    BY <1>1
  <2>3. /\ s.id = u.id /\ s.source = u.source /\ s.season = u.season
        /\ s.job = u.job /\ s.active = FALSE
        /\ s = [id |-> s.id, source |-> s.source, season |-> s.season,
                active |-> s.active, job |-> s.job]
    BY <2>1, <2>2
  <2>4. QED
    BY <2>1, <2>3
<1>5. ASSUME NEW s \in db.sets \ D
      PROVE  Follows(s, s, D)
  <2>1. s = [id |-> s.id, source |-> s.source, season |-> s.season, active |-> s.active, job |-> s.job]
    BY <1>1
  <2>2. QED
    BY <1>5, <2>1, Zenon DEF Follows
<1>6. ASSUME NEW u \in D
      PROVE  Follows(Down(u), u, D)
  <2>1. u \in db.sets
    BY <1>2
  <2>2. Down(u).active = FALSE
    BY <1>4, <2>1
  <2> HIDE DEF Down
  <2>3. QED
    BY <1>4, <2>1, <2>2, Zenon DEF Follows, Down
<1> HIDE DEF Down
<1>7. QED
  BY <1>2, <1>3, <1>5, <1>6 DEF D

LEMMA CommitLeavesOneActive ==
  ASSUME IInv, NEW i \in Importers, imp[i].pc = "end", db'.sets = SetsAfter(i)
  PROVE  OneActive(db')
<1> DEFINE S == SetsAfter(i)
           N == NewSet(i)
           job == JobOf(i)
<1>1. \A s \in S : s # N /\ s.active => s \in db.sets \ Off(i)
  BY CommitSets DEF Follows
<1>2. N.active = job.activate /\ N.source = job.source /\ N.season = job.season
  BY DEF NewSet
<1>3. job.activate => \A s \in db.sets : s.active /\ InScope(s, job) => s.id \in imp[i].deactivated
  <2>1. SetOK(imp[i], db)
    BY EndIsComplete
  <2>2. QED
    BY <2>1 DEF SetOK, Late, JobOf
<1>4. \A s \in S : s # N /\ s.active /\ N.active => ~InScope(s, job)
  BY <1>1, <1>2, <1>3 DEF Off
<1>5. \A s : (InScope(s, job) <=> InScope(s, N)) /\ (InScope(s, N) <=> InScope(N, s))
  BY <1>2 DEF InScope
<1>6. \A s, u \in db.sets : s.active /\ u.active /\ InScope(s, u) => s = u
  BY DEF IInv, IsDatabase, OneActive
<1> HIDE DEF S, N, job
<1>7. \A s, u \in S : s.active /\ u.active /\ InScope(s, u) => s = u
  BY <1>1, <1>4, <1>5, <1>6
<1>8. QED
  BY <1>7 DEF OneActive, S

\* The projections the commit adds are as many as its file has rows.
LEMMA CommitStores ==
  ASSUME IInv, NEW i \in Importers, imp[i].pc = "end", Commits(i), NEW t, t = imp[i]
  PROVE  /\ \A x \in NewRows(i) : x.set = t.set
         /\ \A x \in db.projections : x.set # t.set
         /\ Cardinality({x \in db'.projections : x.set = t.set}) = Len(Players[t.job])
<1> DEFINE rows == Players[t.job]
           n == Len(rows)
           g == [k \in 1 .. n |-> [set |-> t.set, player |-> t.ids[k], stats |-> Stored(rows[k].stats)]]
           S == NewRows(i)
<1>1. /\ n \in Nat /\ Rows(i) = DOMAIN rows /\ DOMAIN rows = 1 .. n /\ PlayersOf(i) = rows
      /\ SetOK(t, db)
  BY EndIsComplete
<1>2. \A j, k \in 1 .. n : t.ids[j] = t.ids[k] => j = k
  BY <1>1, CommitTakesEachOnce
<1>3. S = {g[k] : k \in 1 .. n}
  BY <1>1 DEF NewRows
<1>4. \A k \in 1 .. n : g[k].set = t.set /\ g[k].player = t.ids[k]
  OBVIOUS
<1>5. g = [k \in 1 .. n |-> g[k]]
  OBVIOUS
<1>6. db'.projections = db.projections \cup S
  BY CommitFields
<1>7. \A x \in db.projections : x.set # t.set
  BY <1>1 DEF SetOK, Late
<1> HIDE DEF n, g, S
<1>8. {x \in db'.projections : x.set = t.set} = S
  BY <1>3, <1>4, <1>6, <1>7
<1>9. g \in [1 .. n -> S]
  BY <1>3, <1>5
<1>10. (\A j, k \in 1 .. n : g[j] = g[k] => j = k) /\ \A x \in S : \E k \in 1 .. n : g[k] = x
  BY <1>2, <1>3, <1>4
<1>11. g \in Bijection(1 .. n, S)
  BY <1>9, <1>10, Fun_IsBij
<1>12. IsFiniteSet(1 .. n) /\ Cardinality(1 .. n) = n
  BY <1>1, FS_Interval
<1>13. Cardinality(S) = n
  BY <1>11, <1>12, FS_Bijection DEF ExistsBijection
<1>14. QED
  BY <1>3, <1>4, <1>7, <1>8, <1>13 DEF S, n

\* The set the import commits is whole, and the others stay so.
LEMMA CommitKeepsWhole ==
  ASSUME IInv, NEW i \in Importers, imp[i].pc = "end", Commits(i), NEW s \in SetsAfter(i)
  PROVE  IsWhole(db', s)
<1> DEFINE t == imp[i]
           ids == db'.identities
<1>1. /\ \A x \in DOMAIN db.identities : x \in DOMAIN ids /\ ids[x] = db.identities[x]
      /\ \A k \in DOMAIN Players[t.job] :
           Key(t.job, k) \in DOMAIN ids /\ ids[Key(t.job, k)] = t.ids[k]
  BY CommitIdentities
<1>2. db'.projections = db.projections \cup NewRows(i)
  BY CommitFields
<1>3. /\ \A x \in NewRows(i) : x.set = t.set
      /\ Cardinality({x \in db'.projections : x.set = t.set}) = Len(Players[t.job])
  BY CommitStores
<1>4. CASE s = NewSet(i)
  <2>1. s.source = Jobs[t.job].source /\ s.job = t.job /\ s.id = t.set
    BY <1>4 DEF NewSet, JobOf
  <2>2. ASSUME NEW k \in DOMAIN Players[t.job]
        PROVE  /\ <<s.source, Players[t.job][k].id>> \in DOMAIN ids
               /\ [set |-> s.id, player |-> ids[<<s.source, Players[t.job][k].id>>],
                   stats |-> Stored(Players[t.job][k].stats)] \in db'.projections
    <3>1. <<s.source, Players[t.job][k].id>> = Key(t.job, k)
      BY <2>1 DEF Key
    <3>2. [set |-> t.set, player |-> t.ids[k], stats |-> Stored(Players[t.job][k].stats)] \in NewRows(i)
      <4>1. k \in Rows(i) /\ PlayersOf(i) = Players[t.job]
        BY EndIsComplete
      <4>2. QED
        BY <4>1 DEF NewRows
    <3>3. QED
      BY <1>1, <1>2, <2>1, <3>1, <3>2
  <2>3. QED
    BY <1>3, <2>1, <2>2 DEF IsWhole
<1>5. CASE s # NewSet(i)
  <2>1. PICK u \in db.sets : s.id = u.id /\ s.source = u.source /\ s.job = u.job
    BY <1>5, CommitSets DEF Follows
  <2>2. IsWhole(db, u)
    BY DEF IInv, IsDatabase
  <2>3. s.id # t.set
    <3>1. SetOK(t, db)
      BY EndIsComplete
    <3>2. QED
      BY <2>1, <3>1 DEF SetOK, Late
  <2>4. {x \in db'.projections : x.set = s.id} = {x \in db.projections : x.set = u.id}
    BY <1>2, <1>3, <2>1, <2>3
  <2>5. ASSUME NEW k \in DOMAIN Players[s.job]
        PROVE  /\ <<s.source, Players[s.job][k].id>> \in DOMAIN ids
               /\ [set |-> s.id, player |-> ids[<<s.source, Players[s.job][k].id>>],
                   stats |-> Stored(Players[s.job][k].stats)] \in db'.projections
    <3> DEFINE key == <<u.source, Players[u.job][k].id>>
    <3>1. /\ key \in DOMAIN db.identities
          /\ [set |-> u.id, player |-> db.identities[key], stats |-> Stored(Players[u.job][k].stats)]
               \in db.projections
      BY <2>1, <2>2 DEF IsWhole
    <3>2. key = <<s.source, Players[s.job][k].id>>
      BY <2>1
    <3> HIDE DEF key
    <3>3. QED
      BY <1>1, <1>2, <2>1, <3>1, <3>2
  <2>6. QED
    BY <2>1, <2>2, <2>4, <2>5 DEF IsWhole
<1>6. QED
  BY <1>4, <1>5

LEMMA CommitIsDatabase ==
  ASSUME IInv, NEW i \in Importers, imp[i].pc = "end", Commits(i)
  PROVE  IsDatabase(db')
<1> DEFINE t == imp[i]
<1>1. /\ db' = [sources |-> db'.sources, players |-> db'.players, eligibility |-> db'.eligibility,
                identities |-> db'.identities, sets |-> db'.sets, projections |-> db'.projections,
                nextPlayer |-> db'.nextPlayer, nextSet |-> db'.nextSet]
      /\ db'.players = Over(t.written, db.players)
      /\ db'.eligibility = Merged(t, db.eligibility)
      /\ db'.sets = SetsAfter(i)
      /\ db'.projections = db.projections \cup NewRows(i)
      /\ db'.nextPlayer = db.nextPlayer /\ db'.nextSet = db.nextSet
  BY CommitFields
<1>2. /\ ProgressOK(t, db) /\ PositionsOK(t, db) /\ SetOK(t, db) /\ t.set \in 1 .. db.nextSet
      /\ WrittenBy(t) \subseteq 1 .. db.nextPlayer
  BY EndIsComplete DEF WrittenBy
<1>3. DOMAIN db'.players \subseteq 1 .. db.nextPlayer
  <2>1. \A p : p \in DOMAIN Over(t.written, db.players) <=> p \in DOMAIN t.written \/ p \in DOMAIN db.players
    BY OverIs
  <2>2. QED
    BY <1>1, <1>2, <2>1 DEF ProgressOK, IInv, IsDatabase
<1>4. \A e \in db'.eligibility : e = <<e[1], e[2]>> /\ e[1] \in 1 .. db.nextPlayer
  BY <1>1, <1>2 DEF Merged, PositionsOK, IInv, IsDatabase
<1>5. \A key \in DOMAIN db'.identities : db'.identities[key] \in 1 .. db.nextPlayer
  BY CommitIdentities
<1>6. NewSet(i).id = t.set /\ \A u \in db.sets : u.id # t.set /\ u.id \in 1 .. db.nextSet
  BY <1>2 DEF NewSet, SetOK, Late, IInv, IsDatabase
<1>7. /\ {s.id : s \in db'.sets} \subseteq 1 .. db.nextSet
      /\ \A s, u \in db'.sets : s.id = u.id => s = u
  <2>1. \A s \in SetsAfter(i) : s.id \in 1 .. db.nextSet
    BY <1>2, <1>6, CommitSets DEF Follows
  <2>2. ASSUME NEW s \in SetsAfter(i), NEW u \in SetsAfter(i), s.id = u.id
        PROVE  s = u
    <3>1. CASE s = NewSet(i) \/ u = NewSet(i)
      BY <1>6, <2>2, <3>1, CommitSets DEF Follows
    <3>2. CASE s # NewSet(i) /\ u # NewSet(i)
      <4>1. PICK v \in db.sets : Follows(s, v, Off(i))
        BY <3>2, CommitSets
      <4>2. PICK w \in db.sets : Follows(u, w, Off(i))
        BY <3>2, CommitSets
      <4>3. v = w
        BY <2>2, <4>1, <4>2 DEF Follows, IInv, IsDatabase
      <4>4. QED
        BY <4>1, <4>2, <4>3 DEF Follows
    <3>3. QED
      BY <3>1, <3>2
  <2>3. QED
    BY <1>1, <2>1, <2>2
<1>8. \A s \in db'.sets : s = [id |-> s.id, source |-> s.source, season |-> s.season,
                               active |-> s.active, job |-> s.job]
  <2>1. NewSet(i) = [id |-> NewSet(i).id, source |-> NewSet(i).source, season |-> NewSet(i).season,
                     active |-> NewSet(i).active, job |-> NewSet(i).job]
    BY DEF NewSet
  <2>2. QED
    BY <1>1, <2>1, CommitSets DEF Follows
<1>9. \A x \in db'.projections : x.set \in 1 .. db.nextSet
  <2>1. \A x \in NewRows(i) : x.set = t.set
    BY CommitStores
  <2>2. QED
    BY <1>1, <1>2, <2>1 DEF IInv, IsDatabase
<1>10. OneActive(db') /\ \A s \in db'.sets : IsWhole(db', s)
  BY <1>1, CommitLeavesOneActive, CommitKeepsWhole
<1>11. db.nextPlayer \in Nat /\ db.nextSet \in Nat
  BY DEF IInv, IsDatabase
<1>12. QED
  BY <1>1, <1>3, <1>4, <1>5, <1>7, <1>8, <1>9, <1>10, <1>11 DEF IsDatabase

\* Players the commit does not write keep their positions, in the database
\* and in what any other import sees of it.
LEMMA CommitKeepsPositions ==
  ASSUME IInv, NEW i \in Importers, imp[i].pc = "end", Commits(i), NEW p, p \notin WrittenBy(imp[i]), NEW u
  PROVE  /\ EligibilityOf(db'.eligibility, p) = EligibilityOf(db.eligibility, p)
         /\ EligibilityOf(Merged(u, db'.eligibility), p) = EligibilityOf(Merged(u, db.eligibility), p)
<1> DEFINE t == imp[i]
           E == db.eligibility
           F == db'.eligibility
<1>1. F = (((E \ t.deleted) \cup t.added) \ t.obsolete) \cup t.queued
  BY CommitFields DEF Merged
<1>2. \A e \in t.deleted \cup t.added \cup t.obsolete \cup t.queued : e[1] # p
  BY EndIsComplete DEF PositionsOK
<1> HIDE DEF t, E, F
<1>3. \A e : e[1] = p => (e \in F <=> e \in E)
  BY <1>1, <1>2
<1>4. {x \in F : x[1] = p} = {x \in E : x[1] = p}
  BY <1>3
<1>5. {x \in Merged(u, F) : x[1] = p} = {x \in Merged(u, E) : x[1] = p}
  BY <1>3 DEF Merged
<1>6. QED
  BY <1>4, <1>5 DEF EligibilityOf, E, F

\* What a commit leaves to another import.
MarkedAs(w, u, i, j) ==
  /\ IsTransaction(w) /\ w.pc = u.pc /\ w.job = u.job /\ w.plan = u.plan /\ w.set = u.set
  /\ w.deactivated = u.deactivated /\ w.ids = u.ids /\ w.written = u.written
  /\ w.identities = u.identities /\ w.obsolete = u.obsolete /\ w.deleted = u.deleted
  /\ w.added = u.added /\ w.queued = u.queued
  /\ w.stale = u.stale \cup (Handled(i) \cap Handled(j))

LEMMA MarkedIs ==
  ASSUME NEW i, NEW j, IsTransaction(imp[j])
  PROVE  MarkedAs(Marked(i, j), imp[j], i, j)
<1> DEFINE u == imp[j]
           stale == u.stale \cup (Handled(i) \cap Handled(j))
<1>1. PICK w : w = [u EXCEPT !.stale = stale]
  OBVIOUS
<1>2. w = Marked(i, j)
  BY <1>1 DEF Marked
<1> HIDE DEF u, stale
<1>3. /\ IsTransaction(w) /\ w.pc = u.pc /\ w.job = u.job /\ w.plan = u.plan /\ w.set = u.set
      /\ w.deactivated = u.deactivated /\ w.ids = u.ids /\ w.written = u.written
      /\ w.identities = u.identities /\ w.obsolete = u.obsolete /\ w.deleted = u.deleted
      /\ w.added = u.added /\ w.queued = u.queued /\ w.stale = stale
  BY <1>1 DEF IsTransaction, u
<1>4. QED
  BY <1>2, <1>3 DEF MarkedAs, stale, u

\* What another open import has done still fits the database: where it does
\* not, its reading is marked as stale.
LEMMA CommitKeepsOthers ==
  ASSUME IInv, NEW i \in Importers, imp[i].pc = "end", Commits(i), NEW j \in Importers, j # i
  PROVE  TransactionOK(imp'[j], db') /\ MarkedAs(imp'[j], imp[j], i, j)
<1> DEFINE u == imp[j]
           w == imp'[j]
<1>1. TransactionOK(u, db) /\ IsTransaction(u)
  BY DEF IInv, TransactionOK
<1>2. MarkedAs(w, u, i, j)
  <2>1. w = Marked(i, j)
    BY DEF Commits
  <2> HIDE DEF w
  <2>2. QED
    BY <1>1, <2>1, MarkedIs
<1>3. /\ db'.nextPlayer = db.nextPlayer /\ db'.nextSet = db.nextSet
      /\ db'.sets = SetsAfter(i) /\ db'.projections = db.projections \cup NewRows(i)
  BY CommitFields
<1>4. CASE u.pc \in Working
  <2>1. PlanOK(u, db) /\ ProgressOK(u, db) /\ SetOK(u, db) /\ IdentitiesOK(u, db) /\ PositionsOK(u, db)
    BY <1>1, <1>4 DEF TransactionOK, WorkOK
  <2> HIDE DEF w
  <2>2. PlanOK(w, db')
    <3>1. \A x \in DOMAIN db.identities : x \in DOMAIN db'.identities /\ db'.identities[x] = db.identities[x]
      BY CommitIdentities
    <3>2. QED
      BY <1>2, <1>3, <2>1, <3>1 DEF PlanOK, MarkedAs
  <2>3. WrittenBy(w) = WrittenBy(u)
    BY <1>2 DEF MarkedAs, WrittenBy
  <2>4. ProgressOK(w, db')
    BY <1>2, <1>3, <2>1, <2>3 DEF ProgressOK, MarkedAs
  <2>5. SetOK(w, db')
    <3>1. \A s \in SetsAfter(i) \ {NewSet(i)} : \E v \in db.sets :
            s.id = v.id /\ s.source = v.source /\ s.season = v.season /\ (s.active => v.active)
      BY CommitSets DEF Follows
    <3>2. NewSet(i).id = imp[i].set /\ NewSet(i).source = JobOf(i).source /\ imp[i].set # None
      <4>1. imp[i].set \in 1 .. db.nextSet
        BY EndIsComplete
      <4>2. imp[i].set # None
        BY <4>1, NoneAssumption DEF IInv, IsDatabase
      <4>3. QED
        BY <4>2 DEF NewSet
    <3>3. u.pc \in Late => /\ u.set \in 1 .. db.nextSet /\ u.set # imp[i].set
                           /\ \A s \in db.sets : s.id # u.set
                           /\ \A x \in db.projections : x.set # u.set
      <4>1. u.set # imp[i].set
        BY <3>2 DEF IInv, SetsApart
      <4>2. QED
        BY <2>1, <4>1 DEF SetOK
    <3>4. \A x \in NewRows(i) : x.set = imp[i].set
      BY DEF NewRows
    <3>5. u.pc \in Late => /\ \A s \in db'.sets : s.id # u.set
                           /\ \A x \in db'.projections : x.set # u.set
      BY <1>3, <3>1, <3>2, <3>3, <3>4
    <3>6. ASSUME u.pc \in Late \cup {"set"}, Jobs[u.job].activate, NEW s \in db'.sets,
                 s.active, InScope(s, Jobs[u.job])
          PROVE  s.id \in u.deactivated
      <4>1. Holds(i) /\ Holds(j)
        BY <3>6 DEF Holds, Late
      <4>2. JobOf(i).source # Jobs[u.job].source
        BY <4>1 DEF IInv, OneHolder, JobOf
      <4>3. s # NewSet(i)
        BY <3>2, <3>6, <4>2 DEF InScope
      <4>4. PICK v \in db.sets : /\ s.id = v.id /\ s.source = v.source /\ s.season = v.season
                                 /\ (s.active => v.active)
        BY <1>3, <3>1, <3>6, <4>3
      <4>5. v.active /\ InScope(v, Jobs[u.job])
        BY <3>6, <4>4 DEF InScope
      <4>6. QED
        BY <2>1, <3>6, <4>4, <4>5 DEF SetOK
    <3>7. u.pc \in Early => u.set = None
      BY <2>1 DEF SetOK
    <3>8. w.pc = u.pc /\ w.set = u.set /\ w.job = u.job /\ w.deactivated = u.deactivated
      BY <1>2 DEF MarkedAs
    <3> HIDE DEF u
    <3>9. QED
      BY <1>3, <3>3, <3>5, <3>6, <3>7, <3>8 DEF SetOK
  <2>6. IdentitiesOK(w, db')
    <3>1. ASSUME NEW x \in DOMAIN u.identities
          PROVE  x \notin DOMAIN db'.identities
      <4>1. PICK k \in DOMAIN u.ids : x = Key(u.job, k)
        BY <2>1 DEF IdentitiesOK
      <4>2. Holds(i) /\ Holds(j)
        <5>1. u.ids # <<>>
          BY <4>1
        <5>2. QED
          BY <1>4, <2>1, <5>1 DEF ProgressOK, Holds, Working, Early, Late
      <4>3. JobOf(i).source # JobOf(j).source
        BY <4>2 DEF IInv, OneHolder
      <4>4. \A n : Key(imp[i].job, n) # x
        BY <4>1, <4>3 DEF Key, JobOf
      <4>5. x \notin DOMAIN db.identities
        BY <2>1 DEF IdentitiesOK
      <4>6. QED
        BY <4>4, <4>5, CommitIdentities
    <3>2. QED
      BY <1>2, <2>1, <3>1 DEF IdentitiesOK, MarkedAs
  <2>7. PositionsOK(w, db')
    <3>1. ASSUME NEW k \in DOMAIN u.ids, u.ids[k] \notin w.stale
          PROVE  /\ u.ids[k] \notin u.stale
                 /\ EligibilityOf(Merged(w, db'.eligibility), u.ids[k])
                      = EligibilityOf(Merged(u, db.eligibility), u.ids[k])
      <4>1. u.ids[k] \notin u.stale /\ u.ids[k] \notin Handled(i) \cap Handled(j)
        BY <1>2, <3>1 DEF MarkedAs
      <4>2. u.ids[k] \notin WrittenBy(imp[i])
        BY <4>1 DEF Handled, WrittenBy
      <4>3. Merged(w, db'.eligibility) = Merged(u, db'.eligibility)
        BY <1>2 DEF Merged, MarkedAs
      <4>4. QED
        BY <4>1, <4>2, <4>3, CommitKeepsPositions
    <3>2. /\ \A e \in w.deleted \cup w.added \cup w.obsolete \cup w.queued :
               e = <<e[1], e[2]>> /\ e[1] \in WrittenBy(w)
          /\ (w.pc # "replace" => w.obsolete = {}) /\ (w.pc = "write" => w.queued = {})
      BY <1>2, <2>1, <2>3 DEF PositionsOK, MarkedAs
    <3>3. w.ids = u.ids /\ w.job = u.job
      BY <1>2 DEF MarkedAs
    <3>4. QED
      BY <2>1, <3>1, <3>2, <3>3 DEF PositionsOK
  <2>8. w.pc = u.pc /\ w.job = u.job /\ IsTransaction(w)
    BY <1>2 DEF MarkedAs
  <2>9. u.pc \notin {"plan", "check", "active exists"} /\ u.job \in Valid
    BY <1>1, <1>4 DEF TransactionOK, Working, Early, Late
  <2>10. TransactionOK(w, db')
    BY <1>4, <2>2, <2>4, <2>5, <2>6, <2>7, <2>8, <2>9 DEF TransactionOK, WorkOK
  <2>11. QED
    BY <1>2, <2>10 DEF w
<1>5. CASE u.pc \notin Working
  <2> HIDE DEF w
  <2>1. w.pc = u.pc /\ w.job = u.job /\ w.set = u.set /\ IsTransaction(w)
    BY <1>2 DEF MarkedAs
  <2>2. u.pc = "plan" => w = [Idle EXCEPT !.pc = "plan", !.job = w.job]
    <3>1. ASSUME u.pc = "plan"
          PROVE  w = u
      <4>1. u = [Idle EXCEPT !.pc = "plan", !.job = u.job]
        BY <1>1, <3>1 DEF TransactionOK
      <4>2. u.ids = <<>> /\ u.stale = {}
        <5>1. Idles(u, "plan", u.job)
          BY <4>1 DEF Idles
        <5> HIDE DEF u
        <5>2. QED
          BY <5>1, IdleIs
      <4>3. Handled(j) = {}
        BY <4>2 DEF Handled
      <4>4. w.stale = u.stale
        BY <1>2, <4>3 DEF MarkedAs
      <4>5. w.seen = u.seen
        <5>1. imp'[j] = Marked(i, j)
          BY DEF Commits
        <5>2. Marked(i, j).seen = imp[j].seen
          <6> DEFINE stale == imp[j].stale \cup (Handled(i) \cap Handled(j))
          <6>1. PICK x : x = [imp[j] EXCEPT !.stale = stale]
            OBVIOUS
          <6>2. x.seen = imp[j].seen
            BY <1>1, <6>1 DEF IsTransaction
          <6>3. QED
            BY <6>1, <6>2 DEF Marked
        <5>3. QED
          BY <5>1, <5>2 DEF w
      <4> HIDE DEF u
      <4>6. QED
        BY <1>1, <1>2, <4>4, <4>5 DEF MarkedAs, IsTransaction
    <3>2. QED
      BY <1>1, <2>1, <3>1 DEF TransactionOK
  <2>3. QED
    BY <1>1, <1>2, <1>5, <2>1, <2>2 DEF TransactionOK, w
<1>6. QED
  BY <1>4, <1>5

\* The import's players get the positions of their row, unless it read them
\* before another committed them; the others keep theirs.
LEMMA CommitIsLatest ==
  ASSUME IInv, NEW i \in Importers, imp[i].pc = "end", Commits(i)
  PROVE  LatestOK'
<1> DEFINE t == imp[i]
           rows == Players[t.job]
           given == [p \in WrittenBy(t) |-> PlayersOf(i)[CHOOSE k \in Rows(i) : t.ids[k] = p].positions]
<1>1. /\ ProgressOK(t, db) /\ PositionsOK(t, db)
      /\ Rows(i) = DOMAIN rows /\ PlayersOf(i) = rows /\ DOMAIN t.ids = DOMAIN rows
      /\ Handled(i) = WrittenBy(t) /\ DOMAIN rows = 1 .. Len(rows)
  BY EndIsComplete
<1>2. \A j, k \in DOMAIN rows : t.ids[j] = t.ids[k] => j = k
  BY CommitTakesEachOnce
<1>3. /\ raced' = (raced \ WrittenBy(t)) \cup (WrittenBy(t) \cap t.stale)
      /\ latest' = Over(given, latest)
  BY <1>1 DEF Commits
<1>4. db'.players = Over(t.written, db.players) /\ db'.eligibility = Merged(t, db.eligibility)
  BY CommitFields
<1>5. \A p : p \in DOMAIN db'.players => p \in WrittenBy(t) \/ p \in DOMAIN db.players
  <2>1. \A p : p \in DOMAIN Over(t.written, db.players) <=> p \in DOMAIN t.written \/ p \in DOMAIN db.players
    BY OverIs
  <2>2. QED
    BY <1>1, <1>4, <2>1 DEF ProgressOK
<1>6. /\ \A p : p \in DOMAIN latest' <=> p \in WrittenBy(t) \/ p \in DOMAIN latest
      /\ \A p \in WrittenBy(t) : latest'[p] = given[p]
      /\ \A p \in DOMAIN latest \ WrittenBy(t) : latest'[p] = latest[p]
  <2>1. DOMAIN given = WrittenBy(t)
    OBVIOUS
  <2> HIDE DEF given
  <2>2. QED
    BY <1>3, <2>1, OverIs
<1>7. ASSUME NEW k \in DOMAIN rows
      PROVE  t.ids[k] \in WrittenBy(t) /\ given[t.ids[k]] = rows[k].positions
  <2>1. t.ids[k] \in WrittenBy(t)
    BY <1>1 DEF WrittenBy
  <2>2. (CHOOSE j \in Rows(i) : t.ids[j] = t.ids[k]) = k
    <3> HIDE DEF rows, t
    <3>1. k \in Rows(i) /\ \A j \in Rows(i) : t.ids[j] = t.ids[k] <=> j = k
      BY <1>1, <1>2
    <3>2. QED
      BY <3>1
  <2>3. given[t.ids[k]] = PlayersOf(i)[k].positions
    BY <2>1, <2>2
  <2>4. QED
    BY <1>1, <2>1, <2>3
<1>8. \A p \in DOMAIN db.players : p \in DOMAIN latest
        /\ (p \notin raced => EligibilityOf(db.eligibility, p) = latest[p])
  BY DEF IInv, LatestOK, EligibilityIsLatest, EligibilityOf
<1> HIDE DEF given
<1>9. ASSUME NEW p \in DOMAIN db'.players, p \notin raced'
      PROVE  EligibilityOf(db'.eligibility, p) = latest'[p]
  <2>1. CASE p \in WrittenBy(t)
    <3>1. PICK k \in DOMAIN rows : p = t.ids[k]
      BY <1>1, <2>1 DEF WrittenBy
    <3>2. \A m \in DOMAIN t.ids : k < m => t.ids[m] # t.ids[k]
      <4>1. DOMAIN rows \subseteq Nat
        BY <1>1
      <4>2. QED
        BY <1>1, <1>2, <4>1
    <3>3. t.ids[k] \notin t.stale
      BY <1>3, <1>9, <2>1, <3>1
    <3>4. EligibilityOf(Merged(t, db.eligibility), t.ids[k]) = rows[k].positions
      BY <1>1, <3>2, <3>3 DEF PositionsOK
    <3>5. QED
      BY <1>4, <1>6, <1>7, <2>1, <3>1, <3>4
  <2>2. CASE p \notin WrittenBy(t)
    <3>1. p \in DOMAIN db.players /\ p \notin raced
      BY <1>3, <1>5, <1>9, <2>2
    <3>2. EligibilityOf(db'.eligibility, p) = EligibilityOf(db.eligibility, p)
      BY <2>2, CommitKeepsPositions
    <3>3. QED
      BY <1>6, <1>8, <2>2, <3>1, <3>2
  <2>3. QED
    BY <2>1, <2>2
<1>10. DOMAIN db'.players \subseteq DOMAIN latest'
  BY <1>5, <1>6, <1>8
<1>11. QED
  BY <1>9, <1>10 DEF LatestOK, EligibilityIsLatest, EligibilityOf

LEMMA CommitKeepsIInv ==
  ASSUME IInv, NEW i \in Importers, Commit(i)
  PROVE  IInv'
<1>1. imp[i].pc = "end" /\ imp[i].job \in Valid
  BY DEF Commit, IInv, TransactionOK, Working, Late
<1>2. CASE /\ End(i, "position exists") \/ End(i, "overflow") \/ End(i, "player twice")
           /\ UNCHANGED <<db, latest, raced>>
  BY <1>2, SameIsKept, EndKeepsIInv DEF Working, Early, Late
<1>3. CASE /\ End(i, "check") /\ ~ \A k \in Rows(i) : Checked(PlayersOf(i)[k])
           /\ UNCHANGED <<db, latest, raced>>
  <2>1. JobOf(i).via # "csv"
    BY <1>1, <1>3, CsvRowsPassChecks DEF Rows, PlayersOf, JobOf
  <2>2. QED
    BY <1>3, <2>1, SameIsKept, EndKeepsIInv DEF Working, Early, Late
<1>4. CASE Commits(i)
  <2>1. PICK t : Idles(t, "committed", imp[i].job)
    BY DEF Idles
  <2>2. imp'[i] = t /\ imp' = [j \in Importers |-> imp'[j]]
    BY <1>4, <2>1 DEF Commits, Idles
  <2>3. IsTransaction(t) /\ t.pc = "committed" /\ t.set = None
    BY <2>1, IdleIs
  <2>4. \A j \in Importers \ {i} : TransactionOK(imp'[j], db') /\ MarkedAs(imp'[j], imp[j], i, j)
    BY <1>1, <1>4, CommitKeepsOthers
  <2>5. \A j \in Importers : TransactionOK(imp'[j], db')
    BY <2>2, <2>3, <2>4 DEF TransactionOK, Working, Early, Late
  <2>6. OneHolder'
    <3>1. \A j \in Importers : Holds(j)' => Holds(j) /\ imp'[j].job = imp[j].job
      BY <2>2, <2>3, <2>4 DEF Holds, MarkedAs
    <3>2. QED
      BY <3>1 DEF IInv, OneHolder, JobOf
  <2>7. SetsApart'
    <3>1. \A j \in Importers : imp'[j].set \in {None, imp[j].set}
      BY <2>2, <2>3, <2>4 DEF MarkedAs
    <3>2. QED
      BY <3>1 DEF IInv, SetsApart
  <2>8. QED
    BY <1>1, <1>4, <2>2, <2>5, <2>6, <2>7, CommitIsDatabase, CommitIsLatest DEF IInv
<1>5. QED
  BY <1>2, <1>3, <1>4, CommitIs

-----------------------------------------------------------------------------
(* The theorems.                                                           *)

LEMMA InitIInv == Init => IInv
<1> SUFFICES ASSUME Init PROVE IInv
  OBVIOUS
<1>1. IsDatabase(db)
  BY StartsAssumption DEF Init
<1>2. imp = [i \in Importers |-> imp[i]] /\ \A i \in Importers : imp[i] = Idle
  BY DEF Init
<1>3. Idle.pc = "new" /\ Idle.set = None /\ IsTransaction(Idle)
  BY DEF Idle, IsTransaction
<1>4. \A i \in Importers : TransactionOK(imp[i], db)
  BY <1>2, <1>3 DEF TransactionOK, Working, Early, Late
<1>5. OneHolder /\ SetsApart
  BY <1>2, <1>3 DEF OneHolder, SetsApart, Holds
<1>6. LatestOK
  BY DEF Init, LatestOK, EligibilityIsLatest
<1>7. QED
  BY <1>1, <1>2, <1>4, <1>5, <1>6 DEF IInv

LEMMA NextIInv == IInv /\ [Next]_vars => IInv'
<1> SUFFICES ASSUME IInv, [Next]_vars PROVE IInv'
  OBVIOUS
<1>1. CASE UNCHANGED vars
  BY <1>1 DEF vars, IInv, OneHolder, SetsApart, LatestOK, EligibilityIsLatest, Holds, JobOf
<1>2. ASSUME NEW i \in Importers, NEW name \in DOMAIN Jobs, Start(i, name) PROVE IInv'
  BY <1>2, StartKeepsIInv
<1>3. ASSUME NEW i \in Importers, Plan(i) PROVE IInv'
  BY <1>3, PlanKeepsIInv
<1>4. ASSUME NEW i \in Importers, FindSource(i) PROVE IInv'
  BY <1>4, FindSourceKeepsIInv
<1>5. ASSUME NEW i \in Importers, TakeSource(i) PROVE IInv'
  BY <1>5, TakeSourceKeepsIInv
<1>6. ASSUME NEW i \in Importers, Deactivate(i) PROVE IInv'
  BY <1>6, DeactivateKeepsIInv
<1>7. ASSUME NEW i \in Importers, InsertSet(i) PROVE IInv'
  BY <1>7, InsertSetKeepsIInv
<1>8. ASSUME NEW i \in Importers, Fetch(i) PROVE IInv'
  BY <1>8, FetchKeepsIInv
<1>9. ASSUME NEW i \in Importers, WritePlayer(i) PROVE IInv'
  BY <1>9, WritePlayerKeepsIInv
<1>10. ASSUME NEW i \in Importers, ReplacePositions(i) PROVE IInv'
  BY <1>10, ReplacePositionsKeepsIInv
<1>11. ASSUME NEW i \in Importers, Commit(i) PROVE IInv'
  BY <1>11, CommitKeepsIInv
<1>12. ASSUME NEW i \in Importers, Deadlock(i) PROVE IInv'
  BY <1>12, DeadlockKeepsIInv
<1>13. ASSUME NEW i \in Importers, Kill(i) PROVE IInv'
  BY <1>13, KillKeepsIInv
<1>14. QED
  BY <1>1, <1>2, <1>3, <1>4, <1>5, <1>6, <1>7, <1>8, <1>9, <1>10, <1>11, <1>12, <1>13 DEF Next

\* The relation between open imports and committed rows holds of every
\* reachable state: what _build_plan and the persistence leave in the session
\* is what the file and the database allow, or its reading of the positions
\* is marked as overtaken by a commit (import_service.py:175-480).
THEOREM ImportsStayConsistent == Spec => []IInv
<1>1. QED
  BY InitIInv, NextIInv, PTL DEF Spec

\* Every committed projection set has exactly one projection for every row of
\* its file, of the player the source's identity of the row names, however
\* imports interleave, fail or are killed (_persist_projection_set).
THEOREM CommittedSetsAreWhole == Spec => []SetsAreWhole
<1>1. IInv => SetsAreWhole
  BY DEF IInv, IsDatabase, SetsAreWhole
<1>2. QED
  BY <1>1, ImportsStayConsistent, PTL

\* A player's positions are those of the last committed import that gave him
\* any, unless that import had read them before another one committed him,
\* whatever else was open, waited or failed (_persist_eligibilities).
THEOREM EligibilityFollowsImports == Spec => []EligibilityIsLatest
<1>1. IInv => EligibilityIsLatest
  BY DEF IInv, LatestOK
<1>2. QED
  BY <1>1, ImportsStayConsistent, PTL

\* No CSV import fails a CHECK, for any file: what the validation accepts
\* fits the constraints after the columns have rounded it.
THEOREM ChecksHold == Spec => []ChecksAreBackstops
<1>1. IInv => ChecksAreBackstops
  BY DEF IInv, ChecksAreBackstops, TransactionOK, JobOf
<1>2. QED
  BY <1>1, ImportsStayConsistent, PTL

\* No activation meets an active set it has not deactivated, between its
\* UPDATE and its commit, because the update of the source's row makes the
\* imports of a source take turns (_resolve_source).
THEOREM ActivationsHold == Spec => []ActivationsTakeTurns
<1>1. IInv => ActivationsTakeTurns
  BY DEF IInv, IsDatabase, ActivationsTakeTurns, TransactionOK
<1>2. QED
  BY <1>1, ImportsStayConsistent, PTL

=============================================================================
