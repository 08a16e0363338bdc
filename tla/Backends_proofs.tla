--------------------------- MODULE Backends_proofs ---------------------------
(***************************************************************************)
(* Garbage collection, for every sequence of calls on any data: what       *)
(* SQLite's tables keep unique, and that ORDER BY ... LIMIT 1 OFFSET n-1   *)
(* finds the n-th newest row.                                              *)
(***************************************************************************)
EXTENDS Backends, FiniteSetTheorems, TLAPS

(***************************************************************************)
(* The inductive invariant: what the rows W of the table and the rows A of *)
(* the last export have in common at time n.                               *)
(***************************************************************************)
\* The columns the argument is about.
Dated(r) == {"id", "prio", "created"} \subseteq DOMAIN r /\ r.prio \in Nat /\ r.created \in Nat

\* The primary key, and no two rows of one millisecond.
Keyed(W) == \A r, s \in W : r.id = s.id \/ r.created = s.created => r = s

Sound(W, A, n) ==
    /\ IsFiniteSet(W) /\ IsFiniteSet(A)
    /\ Keyed(W) /\ Keyed(A)
    /\ \A r \in W \cup A : Dated(r) /\ r.created < n
    /\ \A r \in W, a \in A : r.created = a.created => r.id = a.id

Exported == {x.row : x \in archive.sql}

Inv ==
    /\ focus \in Focuses /\ now \in Nat
    /\ "wf" \in DOMAIN sql
    /\ Sound(sql.wf, Exported, now)

\* G rewrites the rows hit of W in place, without touching what identifies them.
InPlace(W, V, hit, G) ==
    /\ hit \subseteq W /\ DOMAIN G = hit
    /\ V = (W \ hit) \cup {G[r] : r \in hit}
    /\ \A r \in hit : Dated(G[r]) /\ G[r].id = r.id /\ G[r].created = r.created

LEMMA ImageFinite ==
    ASSUME NEW I, IsFiniteSet(I), NEW G, G = [i \in I |-> G[i]]
    PROVE  IsFiniteSet({G[i] : i \in I})
<1> DEFINE T == {G[i] : i \in I}
<1>1. G \in Surjection(I, T)
  BY DEF Surjection
<1> QED
  BY <1>1, FS_Surjection

LEMMA SoundInPlace ==
    ASSUME NEW W, NEW A, NEW n \in Nat, Sound(W, A, n), NEW V, NEW hit, NEW G,
           G = [r \in hit |-> G[r]], InPlace(W, V, hit, G)
    PROVE  Sound(V, A, n)
<1>1. /\ hit \subseteq W
      /\ V = (W \ hit) \cup {G[r] : r \in hit}
      /\ \A r \in hit : Dated(G[r]) /\ G[r].id = r.id /\ G[r].created = r.created
  BY DEF InPlace
<1>3. IsFiniteSet(V)
  <2>1. IsFiniteSet(hit) /\ IsFiniteSet(W \ hit)
    BY <1>1, FS_Subset, FS_Difference DEF Sound
  <2>2. IsFiniteSet({G[r] : r \in hit})
    BY <2>1, ImageFinite
  <2> QED
    BY <1>1, <2>1, <2>2, FS_Union
\* Every row of V comes from one of W.
<1>4. \A v \in V : \E r \in W : /\ r.id = v.id /\ r.created = v.created
                                /\ r \notin hit => v = r
                                /\ r \in hit => v = G[r]
  BY <1>1
<1>5. Keyed(V)
  BY <1>4 DEF Sound, Keyed
<1>6. \A v \in V : Dated(v)
  BY <1>1 DEF Sound
<1> QED
  BY <1>3, <1>4, <1>5, <1>6 DEF Sound

LEMMA SoundLater ==
    ASSUME NEW W, NEW A, NEW n \in Nat, Sound(W, A, n)
    PROVE  Sound(W, A, n + 1)
<1>1. \A r \in W \cup A : r.created < n + 1
  BY DEF Sound, Dated
<1> QED
  BY <1>1 DEF Sound

LEMMA SoundInsert ==
    ASSUME NEW W, NEW A, NEW n \in Nat, Sound(W, A, n), NEW r, Dated(r), r.created = n,
           \A s \in W : s.id # r.id
    PROVE  Sound(W \cup {r}, A, n + 1)
<1>1. \A s \in W \cup A : s.created \in Nat /\ s.created < n
  BY DEF Sound, Dated
<1>2. \A s \in W \cup A : s.created # r.created
  BY <1>1
<1>3. IsFiniteSet(W \cup {r})
  BY FS_AddElement DEF Sound
<1>4. Keyed(W \cup {r})
  BY <1>2 DEF Sound, Keyed
<1>5. \A s \in (W \cup {r}) \cup A : s.created < n + 1
  BY <1>1
<1> QED
  BY <1>2, <1>3, <1>4, <1>5 DEF Sound

LEMMA SoundDelete ==
    ASSUME NEW W, NEW A, NEW n, Sound(W, A, n), NEW V \in SUBSET W
    PROVE  Sound(V, A, n)
<1>1. IsFiniteSet(V)
  BY FS_Subset DEF Sound
<1> QED
  BY <1>1 DEF Sound, Keyed

LEMMA SoundImport ==
    ASSUME NEW W, NEW A, NEW n, Sound(W, A, n), \A r \in W, a \in A : r.id # a.id
    PROVE  Sound(W \cup A, A, n)
<1>1. IsFiniteSet(W \cup A)
  BY FS_Union DEF Sound
<1>2. Keyed(W \cup A)
  BY DEF Sound, Keyed
<1>3. \A r \in W \cup A, a \in A : r.created = a.created => r.id = a.id
  BY DEF Sound, Keyed
<1> QED
  BY <1>1, <1>2, <1>3 DEF Sound

\* Each row of an export is a row of the table with other columns blanked.
LEMMA SoundExport ==
    ASSUME NEW W, NEW A, NEW n, Sound(W, A, n), NEW I, IsFiniteSet(I),
           NEW G, G = [i \in I |-> G[i]],
           \A i \in I : Dated(G[i]) /\ \E r \in W : r.id = i /\ G[i].id = i /\ G[i].created = r.created
    PROVE  Sound(W, {G[i] : i \in I}, n)
<1> DEFINE B == {G[i] : i \in I}
<1>1. \A b \in B : Dated(b)
  OBVIOUS
<1>2. IsFiniteSet(B)
  BY ImageFinite
<1>3. \A b \in B : \E r \in W : b = G[r.id] /\ r.id \in I /\ b.id = r.id /\ b.created = r.created
  OBVIOUS
<1> HIDE DEF B
<1>4. Keyed(B)
  BY <1>3 DEF Sound, Keyed
<1>5. \A r \in W, b \in B : r.created = b.created => r.id = b.id
  BY <1>3 DEF Sound, Keyed
<1>6. \A b \in B : b.created < n
  BY <1>3 DEF Sound
<1>7. Sound(W, B, n)
  BY <1>1, <1>2, <1>4, <1>5, <1>6 DEF Sound
<1> QED
  BY <1>7 DEF B

(***************************************************************************)
(* ORDER BY: how many rows come before a row is its place.                 *)
(***************************************************************************)
Linear(W, R) ==
    /\ \A x \in W : <<x, x>> \notin R
    /\ \A x, y \in W : x = y \/ <<x, y>> \in R \/ <<y, x>> \in R
    /\ \A x, y, z \in W : <<x, y>> \in R /\ <<y, z>> \in R => <<x, z>> \in R

Ahead(W, R, x) == {y \in W : <<y, x>> \in R}

\* A step forward in the order is a higher place.
LEMMA PlaceGrows ==
    ASSUME NEW W, IsFiniteSet(W), NEW R, Linear(W, R), NEW x \in W, NEW y \in W, <<x, y>> \in R
    PROVE  Cardinality(Ahead(W, R, x)) < Cardinality(Ahead(W, R, y))
<1>1. Ahead(W, R, x) \subseteq Ahead(W, R, y) /\ x \in Ahead(W, R, y) \ Ahead(W, R, x)
  BY DEF Linear, Ahead
<1>2. IsFiniteSet(Ahead(W, R, y))
  BY FS_Subset DEF Ahead
<1>3. /\ Cardinality(Ahead(W, R, x)) <= Cardinality(Ahead(W, R, y))
      /\ Cardinality(Ahead(W, R, x)) # Cardinality(Ahead(W, R, y))
  BY <1>1, <1>2, FS_Subset
<1>4. Cardinality(Ahead(W, R, x)) \in Nat /\ Cardinality(Ahead(W, R, y)) \in Nat
  BY <1>1, <1>2, FS_Subset, FS_CardinalityType
<1> QED
  BY <1>3, <1>4

\* Every place is taken.
LEMMA PlaceTaken ==
    ASSUME NEW W, IsFiniteSet(W), NEW R, Linear(W, R), NEW i \in 1..Cardinality(W)
    PROVE  \E x \in W : Cardinality(Ahead(W, R, x)) = i - 1
<1> DEFINE n == Cardinality(W)
           Place == [x \in W |-> Cardinality(Ahead(W, R, x))]
<1>0. n \in Nat /\ n >= 1
  BY FS_CardinalityType
<1>1. \A x \in W : Place[x] \in 0..(n - 1)
  <2> SUFFICES ASSUME NEW x \in W PROVE Place[x] \in 0..(n - 1)
    OBVIOUS
  <2>1. Ahead(W, R, x) \subseteq W /\ x \notin Ahead(W, R, x)
    BY DEF Linear, Ahead
  <2>2. /\ IsFiniteSet(Ahead(W, R, x)) /\ Cardinality(Ahead(W, R, x)) <= n
        /\ Cardinality(Ahead(W, R, x)) # n
    BY <2>1, FS_Subset
  <2>3. Cardinality(Ahead(W, R, x)) \in Nat
    BY <2>2, FS_CardinalityType
  <2> QED
    BY <1>0, <2>2, <2>3
<1>2. \A x, y \in W : Place[x] = Place[y] => x = y
  <2> SUFFICES ASSUME NEW x \in W, NEW y \in W, x # y PROVE Place[x] # Place[y]
    OBVIOUS
  <2>1. Place[x] \in Nat /\ Place[y] \in Nat
    BY <1>0, <1>1
  <2>2. CASE <<x, y>> \in R
    BY <2>1, <2>2, PlaceGrows
  <2>3. CASE <<y, x>> \in R
    BY <2>1, <2>3, PlaceGrows
  <2> QED
    BY <2>2, <2>3 DEF Linear
<1>3. Place \in Injection(W, 0..(n - 1))
  <2>1. Place \in [W -> 0..(n - 1)]
    BY <1>1
  <2> HIDE DEF Place, n
  <2> QED
    BY <2>1, <1>2 DEF Injection, IsInjective
<1>4. IsFiniteSet(0..(n - 1)) /\ Cardinality(0..(n - 1)) = n
  <2> HIDE DEF n
  <2>1. 0 \in Int /\ n - 1 \in Int
    BY <1>0
  <2>2. ~(0 > n - 1) /\ n - 1 - 0 + 1 = n
    BY <1>0
  <2> QED
    BY <2>1, <2>2, FS_Interval
<1>5. Place \in Surjection(W, 0..(n - 1))
  BY <1>3, <1>4, FS_Injection
<1>6. i - 1 \in 0..(n - 1)
  BY <1>0
<1>7. \E x \in W : Place[x] = i - 1
  BY <1>5, <1>6 DEF Surjection
<1> QED
  BY <1>7

\* Cardinality and Min as SqliteStore has them.
LEMMA SameCardinality == \A N : S!Cardinality(N) = Cardinality(N)
  BY DEF S!Cardinality, Cardinality

LEMMA SameMin == \A N : S!Min(N) = Min(N)
  BY DEF S!Min, Min

LEMMA MinBounds ==
    ASSUME NEW i \in Nat, NEW k \in Nat
    PROVE  /\ Min({i, k}) \in {i, k}
           /\ Min({i, k}) <= i /\ Min({i, k}) <= k
<1>1. \E m \in {i, k} : \A l \in {i, k} : m <= l
  OBVIOUS
<1> QED
  BY <1>1 DEF Min

(***************************************************************************)
(* The threshold: the listing resolve_gc_cutoff looks at.                  *)
(***************************************************************************)
Newer(W, x) == {s \in W : s.created > x.created}

\* The n-th newest row has n - 1 newer ones.
LEMMA NthExists ==
    ASSUME NEW W, IsFiniteSet(W), Keyed(W), \A r \in W : Dated(r), NEW i \in 1..Cardinality(W)
    PROVE  \E x \in W : Cardinality(Newer(W, x)) = i - 1
<1> DEFINE R == {p \in W \X W : p[1].created > p[2].created}
<1>1. Linear(W, R)
  BY DEF Linear, Keyed, Dated
<1>2. \A x \in W : Ahead(W, R, x) = Newer(W, x)
  BY DEF Ahead, Newer
<1> HIDE DEF R
<1> QED
  BY <1>1, <1>2, PlaceTaken

\* The page of NthNewest: nothing when there are fewer rows, else that row alone.
LEMMA NthListed ==
    ASSUME NEW db, IsFiniteSet(db.wf), Keyed(db.wf), \A r \in db.wf : Dated(r),
           NEW t \in Nat \ {0}
    PROVE  LET found == S!Page(db, NthNewest(t))
           IN \/ found = <<>>
              \/ found[1] \in db.wf /\ Cardinality(Newer(db.wf, found[1])) = t - 1
<1> DEFINE W == db.wf
           last == Min({t, Cardinality(W)})
<1>0. Cardinality(W) \in Nat
  BY FS_CardinalityType
<1> DEFINE f == NthNewest(t)
<1>1. /\ f.ids = {} /\ f.status = {} /\ f.queue = {} /\ f.version = {} /\ f.exec = {}
      /\ f.forked = {} /\ f.parent = {} /\ f.was = {} /\ f.hasParent = {}
      /\ f.queuesOnly = FALSE /\ f.start = 0 /\ f.end = 0 /\ f.after = 0 /\ f.before = 0
      /\ f.desc = TRUE /\ f.limit = 1 /\ f.offset = t - 1
  BY DEF NthNewest, NoFilter, NoTime
<1> HIDE DEF f
<1> DEFINE P == {r \in db.wf : S!push_list_filters(db, f, r)}
<1>2. P = W
  BY <1>1 DEF S!push_list_filters, S!NoTime
\* The listing's ORDER BY on this filter.
<1> DEFINE Before(x) == {y \in P : IF f.desc THEN y.created > x.created ELSE y.created < x.created}
           order == [i \in 1..S!Cardinality(P) |-> CHOOSE x \in P : S!Cardinality(Before(x)) = i - 1]
<1>3. (\A x : Before(x) = Newer(W, x)) /\ Len(order) = Cardinality(W)
  <2>1. \A x : Before(x) = Newer(W, x)
    BY <1>1, <1>2 DEF Newer
  <2>2. S!Cardinality(P) \in Nat /\ S!Cardinality(P) = Cardinality(W)
    BY <1>0, <1>2, SameCardinality
  <2> HIDE DEF P
  <2> QED
    BY <2>1, <2>2
<1>4. S!Page(db, f) = SubSeq(order, t, last)
  <2>2. S!Page(db, f) = SubSeq(order, f.offset + 1, S!Min({f.offset + f.limit, Len(order)}))
    BY DEF S!Page, S!Ordered
  <2>3. f.offset + 1 = t /\ f.offset + f.limit = t
    BY <1>1
  <2> QED
    BY <1>3, <2>2, <2>3, SameMin
<1>5. last \in {t, Cardinality(W)} /\ last <= t /\ last <= Cardinality(W)
  BY <1>0, MinBounds
<1> HIDE DEF P, Before, order, last
<1>6. CASE last < t
  BY <1>0, <1>2, <1>3, <1>4, <1>5, <1>6, SameCardinality DEF f, order
<1>7. CASE last = t
  <2>1. t \in 1..Cardinality(W)
    BY <1>0, <1>5, <1>7
  <2>2. \E x \in W : Cardinality(Before(x)) = t - 1
    BY <1>3, <2>1, NthExists
  <2>4. order[t] \in W /\ Cardinality(Before(order[t])) = t - 1
    BY <1>2, <2>1, <2>2, SameCardinality DEF order
  <2>3. SubSeq(order, t, last)[1] = order[t]
    BY <1>2, <1>3, <1>7, <2>1, SameCardinality DEF order
  <2> QED
    BY <1>3, <1>4, <2>3, <2>4 DEF f
<1> QED
  BY <1>0, <1>5, <1>6, <1>7

\* What garbage_collect deletes is older than the cutoff, or behind the n newest rows.
LEMMA GcSparesRows ==
    ASSUME Inv, NEW threshold \in Nat, NEW cutoff \in Nat,
           NEW r \in sql.wf \ S!garbage_collect(sql, cutoff, threshold).db.wf
    PROVE  /\ r.status \notin InFlight
           /\ r.created < cutoff \/ (threshold # NoLimit /\ r \notin Newest(threshold))
<1> DEFINE W == sql.wf
           newest == S!Page(sql, S!NthNewest(threshold))
           bound == S!resolve_gc_cutoff(newest, cutoff, threshold)
           old == {x.id : x \in {y \in W : y.created < bound /\ y.status \notin S!InFlight}}
<1>1. IsFiniteSet(W) /\ Keyed(W) /\ \A x \in W : Dated(x)
  BY DEF Inv, Sound
<1>2. threshold # 0 /\ S!garbage_collect(sql, cutoff, threshold).db = S!DeleteRows(sql, old)
  BY DEF S!garbage_collect, S!Reply, S!BadThreshold
<1>3. S!DeleteRows(sql, old).wf = {x \in W : x.id \notin old}
  BY DEF S!DeleteRows, Inv
<1>4. r \in W /\ r.created < bound /\ r.status \notin InFlight
  <2>1. r.id \in old
    BY <1>2, <1>3
  <2>2. PICK y \in W : y.id = r.id /\ y.created < bound /\ y.status \notin S!InFlight
    BY <2>1
  <2> QED
    BY <1>1, <2>2 DEF Keyed, InFlight, S!InFlight
<1>5. ASSUME ~(r.created < cutoff)
      PROVE  threshold # NoLimit /\ r \notin Newest(threshold)
  <2> HIDE DEF newest
  <2>1. threshold # NoLimit /\ newest # <<>> /\ bound = newest[1].created
    BY <1>4, <1>5 DEF S!resolve_gc_cutoff, S!NoLimit, NoLimit
  <2>2. newest = S!Page(sql, NthNewest(threshold))
    BY DEF newest, NthNewest, S!NthNewest, NoFilter, S!NoFilter, NoTime, S!NoTime, NoLimit, S!NoLimit
  <2>3. newest[1] \in W /\ Cardinality(Newer(W, newest[1])) = threshold - 1
    <3>1. threshold \in Nat \ {0}
      BY <1>2
    <3> QED
      BY <1>1, <2>1, <2>2, <3>1, NthListed
  <2>4. r.created < newest[1].created
    BY <1>4, <2>1
  <2>5. Newer(W, newest[1]) \cup {newest[1]} \subseteq Newer(W, r) /\ newest[1] \notin Newer(W, newest[1])
    BY <1>1, <1>4, <2>3, <2>4 DEF Newer, Dated
  <2>6. IsFiniteSet(Newer(W, r)) /\ IsFiniteSet(Newer(W, newest[1]))
    BY <1>1, FS_Subset DEF Newer
  <2>7. Cardinality(Newer(W, newest[1]) \cup {newest[1]}) = threshold
    <3>1. Cardinality(Newer(W, newest[1]) \cup {newest[1]}) = Cardinality(Newer(W, newest[1])) + 1
      BY <2>5, <2>6, FS_AddElement
    <3> QED
      BY <2>3, <3>1
  <2>8. threshold <= Cardinality(Newer(W, r)) /\ Cardinality(Newer(W, r)) \in Nat
    BY <2>5, <2>6, <2>7, FS_Subset, FS_CardinalityType
  <2> QED
    BY <2>1, <2>8 DEF Newest, Newer
<1> QED
  BY <1>4, <1>5

(***************************************************************************)
(* Every call keeps the invariant.                                         *)
(***************************************************************************)
LEMMA KeepsRewrite ==
    ASSUME Inv, focus' = focus, archive' = archive, now' = now,
           "wf" \in DOMAIN sql', NEW hit, NEW G, G = [r \in hit |-> G[r]],
           InPlace(sql.wf, sql'.wf, hit, G)
    PROVE  Inv'
<1>1. Sound(sql'.wf, Exported, now)
  BY SoundInPlace DEF Inv
<1>2. Exported' = Exported
  BY DEF Exported
<1> QED
  BY <1>1, <1>2 DEF Inv

LEMMA KeepsSame ==
    ASSUME Inv, focus' = focus, archive' = archive, now' = now \/ now' = now + 1,
           "wf" \in DOMAIN sql', sql'.wf = sql.wf
    PROVE  Inv'
<1>1. Exported' = Exported
  BY DEF Exported
<1>2. Sound(sql.wf, Exported, now + 1)
  BY SoundLater DEF Inv
<1> QED
  BY <1>1, <1>2 DEF Inv

LEMMA KeepsInsert ==
    ASSUME Inv, focus' = focus, archive' = archive, now' = now + 1,
           "wf" \in DOMAIN sql', NEW r, sql'.wf = sql.wf \cup {r}, Dated(r), r.created = now,
           \A s \in sql.wf : s.id # r.id
    PROVE  Inv'
<1>1. Exported' = Exported
  BY DEF Exported
<1>2. Sound(sql.wf \cup {r}, Exported, now + 1)
  BY SoundInsert DEF Inv
<1> QED
  BY <1>1, <1>2 DEF Inv

LEMMA KeepsDelete ==
    ASSUME Inv, focus' = focus, archive' = archive, now' = now,
           "wf" \in DOMAIN sql', sql'.wf \subseteq sql.wf
    PROVE  Inv'
<1>1. Exported' = Exported
  BY DEF Exported
<1>2. Sound(sql'.wf, Exported, now)
  BY SoundDelete DEF Inv
<1> QED
  BY <1>1, <1>2 DEF Inv

LEMMA SetStatusKeeps ==
    ASSUME Inv, SetStatus
    PROVE  Inv'
<1>1. PICK id \in Ids, st \in focus.statuses :
         LET out == IF st = "SUCCESS" THEN 1 ELSE 0
         IN Both(S!set_workflow_status(sql, id, st, out, now), M!set_workflow_status(mem, id, st, out, now))
  BY DEF SetStatus
<1> DEFINE out == IF st = "SUCCESS" THEN 1 ELSE 0
           hit == {r \in S!Rows(sql, id) : ~(r.status = "CANCELLED" /\ S!is_completion(st))}
           Written(r) == [r EXCEPT !.status = st,
                                   !.out = IF out = 0 THEN @ ELSE out,
                                   !.text.by = IF out = 0 THEN @ ELSE sql.ser,
                                   !.completed = IF S!is_terminal(st) THEN now ELSE @,
                                   !.dedup = IF S!is_terminal(st) THEN S!Null ELSE @]
           G == [r \in hit |-> Written(r)]
<1>2. sql' = [sql EXCEPT !.wf = (@ \ hit) \cup {Written(r) : r \in hit}] /\ UNCHANGED <<focus, archive>>
  BY <1>1 DEF Both, S!set_workflow_status, S!Update, S!Reply
<1>3. \A r \in hit : /\ r \in sql.wf /\ Dated(r)
                     /\ Dated(Written(r)) /\ Written(r).id = r.id /\ Written(r).created = r.created
  BY DEF Inv, Sound, S!Rows, Dated
<1> HIDE DEF hit, Written
<1>4. "wf" \in DOMAIN sql' /\ InPlace(sql.wf, sql'.wf, hit, G)
  BY <1>2, <1>3 DEF Inv, InPlace
<1> QED
  BY <1>2, <1>4, KeepsRewrite DEF SetStatus, Same

LEMMA CancelKeeps ==
    ASSUME Inv, Cancel
    PROVE  Inv'
<1>1. PICK id \in Ids : Both(S!cancel_workflow(sql, id, now), M!cancel_workflow(mem, id, now))
  BY DEF Cancel
<1> DEFINE hit == S!CancelTargets(sql, {id})
           F(r) == S!Cancelled(r, now)
           G == [r \in hit |-> F(r)]
<1>2. sql' = [sql EXCEPT !.wf = (@ \ hit) \cup {F(r) : r \in hit}] /\ UNCHANGED <<focus, archive>>
  BY <1>1 DEF Both, S!cancel_workflow, S!Update, S!Reply
<1>3. \A r \in hit : /\ r \in sql.wf /\ Dated(r)
                     /\ Dated(F(r)) /\ F(r).id = r.id /\ F(r).created = r.created
  BY DEF Inv, Sound, Dated, S!CancelTargets, S!Cancelled
<1> HIDE DEF hit, F
<1>4. "wf" \in DOMAIN sql' /\ InPlace(sql.wf, sql'.wf, hit, G)
  BY <1>2, <1>3 DEF Inv, InPlace
<1> QED
  BY <1>2, <1>4, KeepsRewrite DEF Cancel, Same

LEMMA CancelAllKeeps ==
    ASSUME Inv, CancelAll
    PROVE  Inv'
<1>1. Both(S!cancel_workflows(sql, Ids, now), M!cancel_workflows(mem, Ids, now))
  BY DEF CancelAll
<1> DEFINE hit == S!CancelTargets(sql, Ids)
           F(r) == S!Cancelled(r, now)
           G == [r \in hit |-> F(r)]
<1>2. sql' = [sql EXCEPT !.wf = (@ \ hit) \cup {F(r) : r \in hit}] /\ UNCHANGED <<focus, archive>>
  BY <1>1 DEF Both, S!cancel_workflows, S!Update, S!Reply
<1>3. \A r \in hit : /\ r \in sql.wf /\ Dated(r)
                     /\ Dated(F(r)) /\ F(r).id = r.id /\ F(r).created = r.created
  BY DEF Inv, Sound, Dated, S!CancelTargets, S!Cancelled
<1> HIDE DEF hit, F
<1>4. "wf" \in DOMAIN sql' /\ InPlace(sql.wf, sql'.wf, hit, G)
  BY <1>2, <1>3 DEF Inv, InPlace
<1> QED
  BY <1>2, <1>4, KeepsRewrite DEF CancelAll, Same

LEMMA ResumeKeeps ==
    ASSUME Inv, Resume
    PROVE  Inv'
<1>1. PICK id \in Ids : Both(S!resume_workflow(sql, id), M!resume_workflow(mem, id))
  BY DEF Resume
<1> DEFINE hit == S!ResumeTargets(sql, {id})
           F(r) == S!Resumed(r)
           G == [r \in hit |-> F(r)]
<1>2. sql' = [sql EXCEPT !.wf = (@ \ hit) \cup {F(r) : r \in hit}] /\ UNCHANGED <<focus, archive>>
  BY <1>1 DEF Both, S!resume_workflow, S!Update, S!Reply
<1>3. \A r \in hit : /\ r \in sql.wf /\ Dated(r)
                     /\ Dated(F(r)) /\ F(r).id = r.id /\ F(r).created = r.created
  BY DEF Inv, Sound, Dated, S!ResumeTargets, S!Resumed
<1> HIDE DEF hit, F
<1>4. "wf" \in DOMAIN sql' /\ InPlace(sql.wf, sql'.wf, hit, G)
  BY <1>2, <1>3 DEF Inv, InPlace
<1> QED
  BY <1>2, <1>4, KeepsRewrite DEF Resume, Same

LEMMA ResumeAllKeeps ==
    ASSUME Inv, ResumeAll
    PROVE  Inv'
<1>1. Both(S!resume_workflows(sql, Ids), M!resume_workflows(mem, Ids))
  BY DEF ResumeAll
<1> DEFINE hit == S!ResumeTargets(sql, Ids)
           F(r) == S!Resumed(r)
           G == [r \in hit |-> F(r)]
<1>2. sql' = [sql EXCEPT !.wf = (@ \ hit) \cup {F(r) : r \in hit}] /\ UNCHANGED <<focus, archive>>
  BY <1>1 DEF Both, S!resume_workflows, S!Update, S!Reply
<1>3. \A r \in hit : /\ r \in sql.wf /\ Dated(r)
                     /\ Dated(F(r)) /\ F(r).id = r.id /\ F(r).created = r.created
  BY DEF Inv, Sound, Dated, S!ResumeTargets, S!Resumed
<1> HIDE DEF hit, F
<1>4. "wf" \in DOMAIN sql' /\ InPlace(sql.wf, sql'.wf, hit, G)
  BY <1>2, <1>3 DEF Inv, InPlace
<1> QED
  BY <1>2, <1>4, KeepsRewrite DEF ResumeAll, Same

LEMMA EnqueueExistingKeeps ==
    ASSUME Inv, EnqueueExisting
    PROVE  Inv'
<1>1. PICK id \in Ids, q \in {"q1", "q2"} :
         Both(S!enqueue_existing(sql, id, q), M!enqueue_existing(mem, id, q))
  BY DEF EnqueueExisting
<1> DEFINE hit == S!Rows(sql, id)
           F(r) == [r EXCEPT !.status = "ENQUEUED", !.queue = q, !.exec = "", !.started = S!NoTime]
           G == [r \in hit |-> F(r)]
<1>2. sql' = [sql EXCEPT !.wf = (@ \ hit) \cup {F(r) : r \in hit}] /\ UNCHANGED <<focus, archive>>
  BY <1>1 DEF Both, S!enqueue_existing, S!Update, S!Reply
<1>3. \A r \in hit : /\ r \in sql.wf /\ Dated(r)
                     /\ Dated(F(r)) /\ F(r).id = r.id /\ F(r).created = r.created
  BY DEF Inv, Sound, Dated, S!Rows
<1> HIDE DEF hit, F
<1>4. "wf" \in DOMAIN sql' /\ InPlace(sql.wf, sql'.wf, hit, G)
  BY <1>2, <1>3 DEF Inv, InPlace
<1> QED
  BY <1>2, <1>4, KeepsRewrite DEF EnqueueExisting, Same

LEMMA BumpKeeps ==
    ASSUME Inv, Bump
    PROVE  Inv'
<1>1. PICK id \in Ids : Both(S!bump_recovery_attempts(sql, id, focus.maxAttempts),
                           M!bump_recovery_attempts(mem, id, focus.maxAttempts))
  BY DEF Bump
<1> DEFINE hit == S!Rows(sql, id)
           F(r) == [r EXCEPT !.attempts = @ + 1,
                            !.status = IF r.attempts + 1 > focus.maxAttempts
                                         THEN "MAX_RECOVERY_ATTEMPTS_EXCEEDED" ELSE @,
                            !.dedup = IF r.attempts + 1 > focus.maxAttempts THEN S!Null ELSE @]
           G == [r \in hit |-> F(r)]
<1>2. sql' = [sql EXCEPT !.wf = (@ \ hit) \cup {F(r) : r \in hit}] /\ UNCHANGED <<focus, archive>>
  BY <1>1 DEF Both, S!bump_recovery_attempts, S!Update, S!Reply
<1>3. \A r \in hit : /\ r \in sql.wf /\ Dated(r)
                     /\ Dated(F(r)) /\ F(r).id = r.id /\ F(r).created = r.created
  BY DEF Inv, Sound, Dated, S!Rows
<1> HIDE DEF hit, F
<1>4. "wf" \in DOMAIN sql' /\ InPlace(sql.wf, sql'.wf, hit, G)
  BY <1>2, <1>3 DEF Inv, InPlace
<1> QED
  BY <1>2, <1>4, KeepsRewrite DEF Bump, Same

LEMMA SetDelayKeeps ==
    ASSUME Inv, SetDelay
    PROVE  Inv'
<1>1. PICK id \in Ids, until \in {now, now + 2} :
         Both(S!set_workflow_delay(sql, id, until), M!set_workflow_delay(mem, id, until))
  BY DEF SetDelay
<1> DEFINE hit == {r \in S!Rows(sql, id) : r.status = "DELAYED"}
           F(r) == [r EXCEPT !.delay = until]
           G == [r \in hit |-> F(r)]
<1>2. sql' = [sql EXCEPT !.wf = (@ \ hit) \cup {F(r) : r \in hit}] /\ UNCHANGED <<focus, archive>>
  BY <1>1 DEF Both, S!set_workflow_delay, S!Update, S!Reply
<1>3. \A r \in hit : /\ r \in sql.wf /\ Dated(r)
                     /\ Dated(F(r)) /\ F(r).id = r.id /\ F(r).created = r.created
  BY DEF Inv, Sound, Dated, S!Rows
<1> HIDE DEF hit, F
<1>4. "wf" \in DOMAIN sql' /\ InPlace(sql.wf, sql'.wf, hit, G)
  BY <1>2, <1>3 DEF Inv, InPlace
<1> QED
  BY <1>2, <1>4, KeepsRewrite DEF SetDelay, Same

LEMMA ReleaseDelayedKeeps ==
    ASSUME Inv, ReleaseDelayed
    PROVE  Inv'
<1>1. Both(S!transition_delayed_workflows(sql, now), M!transition_delayed_workflows(mem, now))
  BY DEF ReleaseDelayed
<1> DEFINE hit == {r \in sql.wf : r.status = "DELAYED" /\ r.delay # S!NoTime /\ r.delay <= now}
           F(r) == [r EXCEPT !.status = "ENQUEUED", !.delay = S!NoTime]
           G == [r \in hit |-> F(r)]
<1>2. sql' = [sql EXCEPT !.wf = (@ \ hit) \cup {F(r) : r \in hit}] /\ UNCHANGED <<focus, archive>>
  BY <1>1 DEF Both, S!transition_delayed_workflows, S!Update, S!Reply
<1>3. \A r \in hit : /\ r \in sql.wf /\ Dated(r)
                     /\ Dated(F(r)) /\ F(r).id = r.id /\ F(r).created = r.created
  BY DEF Inv, Sound, Dated
<1> HIDE DEF hit, F
<1>4. "wf" \in DOMAIN sql' /\ InPlace(sql.wf, sql'.wf, hit, G)
  BY <1>2, <1>3 DEF Inv, InPlace
<1> QED
  BY <1>2, <1>4, KeepsRewrite DEF ReleaseDelayed, Same

\* ORDER BY priority, created_at: there are no ties.
LEMMA QueueOrder ==
    ASSUME NEW W, IsFiniteSet(W), Keyed(W), \A r \in W : Dated(r), NEW i \in 1..Cardinality(W)
    PROVE  \E x \in W : Cardinality({y \in W : \/ y.prio < x.prio
                                               \/ y.prio = x.prio /\ y.created < x.created}) = i - 1
<1> DEFINE R == {p \in W \X W : \/ p[1].prio < p[2].prio
                                \/ p[1].prio = p[2].prio /\ p[1].created < p[2].created}
           First(x) == {y \in W : \/ y.prio < x.prio
                                  \/ y.prio = x.prio /\ y.created < x.created}
<1>1. Linear(W, R)
  BY DEF Linear, Keyed, Dated
<1>2. \A x \in W : Ahead(W, R, x) = First(x)
  BY DEF Ahead
<1> HIDE DEF R, First
<1>3. \E x \in W : Cardinality(First(x)) = i - 1
  BY <1>1, <1>2, PlaceTaken
<1> QED
  BY <1>3 DEF First

\* The limits leave a number of rows to claim.
LEMMA AllowedNat ==
    ASSUME Inv, NEW req \in focus.requests
    PROVE  S!Allowed(sql, req, now) \in Nat
<1> DEFINE recent == {r \in S!OfQueue(sql, req) : /\ r.limited
                                                 /\ r.status \notin {"ENQUEUED", "DELAYED"}
                                                 /\ r.started # S!NoTime
                                                 /\ r.started + Period > now}
           pending == {r \in S!OfQueue(sql, req) : r.status = "PENDING"}
           Left(limit, used) == IF limit = S!NoLimit THEN S!NoLimit
                                ELSE IF limit > used THEN limit - used ELSE 0
           i == req.max
           j == Left(req.rate, S!Cardinality(recent))
           k == Left(req.global, S!Cardinality(pending))
<1>1. req.max \in Nat /\ req.rate \in Nat /\ req.global \in Nat
  BY BoundsAssumption DEF Inv
<1>2. recent \subseteq sql.wf /\ pending \subseteq sql.wf
  BY DEF S!OfQueue
<1>3. S!Cardinality(recent) \in Nat /\ S!Cardinality(pending) \in Nat
  BY <1>2, SameCardinality, FS_Subset, FS_CardinalityType DEF Inv, Sound
<1>4. S!Allowed(sql, req, now) = S!Min({i, j, k})
  BY DEF S!Allowed
<1> HIDE DEF recent, pending
<1>5. i \in Nat /\ j \in Nat /\ k \in Nat
  BY <1>1, <1>3 DEF S!NoLimit
<1> HIDE DEF i, j, k
<1>6. \E m \in {i, j, k} : \A l \in {i, j, k} : m <= l
  BY <1>5
<1>7. Min({i, j, k}) \in {i, j, k}
  BY <1>6 DEF Min
<1> QED
  BY <1>4, <1>5, <1>7, SameMin

\* dequeue_workflows claims rows of the table.
LEMMA DequeueKeeps ==
    ASSUME Inv, Dequeue
    PROVE  Inv'
<1>1. PICK req \in focus.requests : Both(S!dequeue_workflows(sql, req, now), M!dequeue_workflows(mem, req, now))
  BY DEF Dequeue
<1> DEFINE C == S!Claimable(sql, req)
           First(x) == {y \in C : y.prio < x.prio \/ (y.prio = x.prio /\ y.created < x.created)}
           order == [i \in 1..S!Cardinality(C) |-> CHOOSE x \in C : S!Cardinality(First(x)) = i - 1]
           last == S!Min({S!Allowed(sql, req, now), Len(order)})
           claimed == SubSeq(order, 1, last)
           hit == S!Range(claimed)
           F(r) == [r EXCEPT !.status = "PENDING", !.exec = req.exec, !.version = req.version,
                             !.started = now, !.limited = req.rate # S!NoLimit,
                             !.deadline = IF r.timed /\ @ = S!NoTime THEN now + Timeout ELSE @]
           G == [r \in hit |-> F(r)]
<1>2. sql' = [sql EXCEPT !.wf = (@ \ hit) \cup {F(r) : r \in hit}] /\ UNCHANGED <<focus, archive>>
  BY <1>1 DEF Both, S!dequeue_workflows, S!Ordered, S!Update, S!Reply
<1>3. C \subseteq sql.wf /\ IsFiniteSet(C) /\ Keyed(C) /\ \A r \in C : Dated(r)
  <2>1. C \subseteq sql.wf
    BY DEF S!Claimable, S!OfQueue
  <2> HIDE DEF C
  <2> QED
    BY <2>1, FS_Subset DEF Inv, Sound, Keyed
<1> HIDE DEF C
<1>4. S!Cardinality(C) = Cardinality(C) /\ Cardinality(C) \in Nat
  BY <1>3, SameCardinality, FS_CardinalityType
<1>5. DOMAIN order = 1..Cardinality(C) /\ Len(order) = Cardinality(C)
  BY <1>4
<1>6. \A i \in 1..Cardinality(C) : order[i] \in C
  <2> SUFFICES ASSUME NEW i \in 1..Cardinality(C) PROVE order[i] \in C
    OBVIOUS
  <2>1. \E x \in C : S!Cardinality(First(x)) = i - 1
    BY <1>3, QueueOrder, SameCardinality
  <2> HIDE DEF First
  <2> QED
    BY <1>4, <2>1
<1>7. last \in Nat /\ last <= Cardinality(C)
  BY <1>4, <1>5, AllowedNat, MinBounds, SameMin
<1> HIDE DEF order, last
<1>8. hit \subseteq C
  BY <1>4, <1>5, <1>6, <1>7 DEF S!Range
<1> HIDE DEF hit
<1>9. \A r \in hit : /\ r \in sql.wf /\ Dated(r)
                     /\ Dated(F(r)) /\ F(r).id = r.id /\ F(r).created = r.created
  BY <1>3, <1>8 DEF Dated
<1> HIDE DEF F
<1>10. "wf" \in DOMAIN sql' /\ InPlace(sql.wf, sql'.wf, hit, G)
  BY <1>2, <1>9 DEF Inv, InPlace
<1> QED
  BY <1>2, <1>10, KeepsRewrite DEF Dequeue, Same

\* insert_workflow_status creates a row only under an id that is free.
LEMMA InsertKeeps ==
    ASSUME Inv, Insert
    PROVE  Inv'
<1>1. PICK s \in focus.rows : sql' = S!insert_workflow_status(sql, Stamped(s)).db
  BY DEF Insert
<1> DEFINE t == Stamped(s)
           r == [t EXCEPT !.started = S!NoTime, !.text = S!Encoded(sql)]
<1>2. now' = now + 1 /\ focus' = focus /\ archive' = archive /\ now \in Nat /\ "wf" \in DOMAIN sql
  BY DEF Insert, Later, Inv
<1>3. Dated(r) /\ r.created = now /\ r.id = s.id /\ t.id = s.id
  <2>1. s \in Row
    BY BoundsAssumption DEF Inv
  <2>2. {"id", "prio", "created", "started"} \subseteq DOMAIN s /\ s.prio \in Nat
    BY <2>1 DEF Row
  <2> QED
    BY <1>2, <2>2 DEF Stamped, Dated
<1> HIDE DEF t, r
<1>4. CASE S!Exists(sql, t.id) \/ S!HoldsDedup(sql, t.queue, t.dedup) # {}
  <2>1. sql' = sql
    BY <1>1, <1>4 DEF S!insert_workflow_status, S!Reply, t
  <2> QED
    BY <1>2, <2>1, KeepsSame
<1>5. CASE ~(S!Exists(sql, t.id) \/ S!HoldsDedup(sql, t.queue, t.dedup) # {})
  <2>1. sql' = [sql EXCEPT !.wf = @ \cup {r}]
    BY <1>1, <1>5 DEF S!insert_workflow_status, S!Reply, t, r
  <2>2. "wf" \in DOMAIN sql' /\ sql'.wf = sql.wf \cup {r}
    BY <1>2, <2>1
  <2>3. \A x \in sql.wf : x.id # r.id
    BY <1>3, <1>5 DEF S!Exists, S!Rows
  <2> QED
    BY <1>2, <1>3, <2>2, <2>3, KeepsInsert
<1> QED
  BY <1>4, <1>5

\* fork_workflow creates a row under an id that is free, or nothing.
LEMMA ForkKeeps ==
    ASSUME Inv, Fork
    PROVE  Inv'
<1>1. PICK orig \in Ids, new \in Ids, start \in 0..2, v \in {Null, "v2"} :
         LET p == [orig |-> orig, new |-> new, start |-> start, queue |-> "q1",
                   part |-> IF v = Null THEN Null ELSE "p1", version |-> v]
         IN /\ ~S!Exists(sql, new)
            /\ Both(S!fork_workflow(sql, p, now), M!fork_workflow(mem, p, now))
  BY DEF Fork
<1> DEFINE p == [orig |-> orig, new |-> new, start |-> start, queue |-> "q1",
                 part |-> IF v = Null THEN Null ELSE "p1", version |-> v]
           o == S!TheRow(sql, p.orig)
           ver == IF p.version = S!Null THEN o.version ELSE p.version
           r == [S!NewRow(p.new, "ENQUEUED", "", ver, now)
                   EXCEPT !.forked = p.orig, !.queue = p.queue, !.part = p.part,
                          !.text = S!Text(sql.ser, o.text.fmt)]
<1>2. sql' = S!fork_workflow(sql, p, now).db
  BY <1>1 DEF Both
<1>3. now' = now + 1 /\ focus' = focus /\ archive' = archive /\ now \in Nat /\ "wf" \in DOMAIN sql
  BY <1>1 DEF Fork, Both, Later, Inv
<1>4. Dated(r) /\ r.created = now /\ r.id = new
  BY <1>3 DEF S!NewRow, Dated
<1>5. \A x \in sql.wf : x.id # r.id
  BY <1>1, <1>4 DEF S!Exists, S!Rows
<1>6. "wf" \in DOMAIN sql' /\ (sql'.wf = sql.wf \/ sql'.wf = sql.wf \cup {r})
  <2>1. CASE ~S!Exists(sql, p.orig) \/ S!Exists(sql, p.new)
    <3>1. sql' = sql
      BY <1>2, <2>1 DEF S!fork_workflow, S!Reply
    <3> QED
      BY <1>3, <3>1
  <2>2. CASE ~(~S!Exists(sql, p.orig) \/ S!Exists(sql, p.new))
    <3> DEFINE N == {[c EXCEPT !.wf = p.new] : c \in {x \in sql.ops : x.wf = p.orig /\ x.seq < p.start}}
    <3>1. sql' = [sql EXCEPT !.wf = @ \cup {r}, !.was = @ \cup {p.orig},
                             !.ops = @ \cup {[c EXCEPT !.wf = p.new] :
                                               c \in {x \in @ : x.wf = p.orig /\ x.seq < p.start}}]
      BY <1>2, <2>2 DEF S!fork_workflow, S!Reply
    <3> HIDE DEF r, p
    <3> QED
      BY <1>3, <3>1
  <2> QED
    BY <2>1, <2>2
<1> HIDE DEF r
<1> QED
  BY <1>3, <1>4, <1>5, <1>6, KeepsInsert, KeepsSame

LEMMA DeleteRowsFewer ==
    ASSUME Inv, NEW ids
    PROVE  /\ "wf" \in DOMAIN S!DeleteRows(sql, ids)
           /\ S!DeleteRows(sql, ids).wf \subseteq sql.wf
  BY DEF S!DeleteRows, Inv

LEMMA PurgeKeeps ==
    ASSUME Inv, Delete \/ GarbageCollect \/ OpenEmpty
    PROVE  Inv'
<1>1. now' = now /\ focus' = focus /\ archive' = archive
  BY DEF Delete, GarbageCollect, OpenEmpty, Purges, Both
<1>2. "wf" \in DOMAIN sql' /\ sql'.wf \subseteq sql.wf
  <2>1. CASE Delete
    <3>1. \E ids : sql' = S!DeleteRows(sql, ids)
      BY <2>1 DEF Delete, Both, S!delete_workflows, S!Reply
    <3> QED
      BY <3>1, DeleteRowsFewer
  <2>2. CASE GarbageCollect
    <3>1. sql' = sql \/ \E ids : sql' = S!DeleteRows(sql, ids)
      BY <2>2 DEF GarbageCollect, Both, S!garbage_collect, S!Reply
    <3> QED
      BY <3>1, DeleteRowsFewer DEF Inv
  <2>3. CASE OpenEmpty
    BY <2>3 DEF OpenEmpty, S!EmptyDb
  <2> QED
    BY <2>1, <2>2, <2>3
<1> QED
  BY <1>1, <1>2, KeepsDelete

\* The rows of an export are those of distinct workflows of the table.
LEMMA ExportKeeps ==
    ASSUME Inv, Export
    PROVE  Inv'
<1>1. PICK id \in Ids, children \in BOOLEAN :
         S!Exists(sql, id) /\ archive'.sql = S!export_workflow(sql, id, children)
  BY DEF Export
<1> DEFINE W == sql.wf
           all == {r.id : r \in W}
           I == {id} \cup (IF children THEN S!Descendants(sql, {id}) ELSE {})
           F(i) == [S!TheRow(sql, i) EXCEPT !.completed = S!NoTime, !.limited = FALSE]
           G == [i \in I |-> F(i)]
<1>2. /\ now' = now /\ focus' = focus /\ sql' = sql /\ "wf" \in DOMAIN sql
      /\ Sound(W, Exported, now)
  BY DEF Export, Same, Inv
<1>3. archive'.sql = {S!ExportOne(sql, i) : i \in I}
  BY <1>1 DEF S!export_workflow
<1>4. I \subseteq all
  <2>1. id \in all
    BY <1>1 DEF S!Exists, S!Rows
  <2>2. S!Descendants(sql, {id}) \subseteq all
    BY DEF S!Descendants
  <2> QED
    BY <2>1, <2>2
<1>5. IsFiniteSet(I)
  <2> DEFINE H == [r \in W |-> r.id]
  <2>1. all = {H[r] : r \in W} /\ H = [r \in W |-> H[r]]
    OBVIOUS
  <2> HIDE DEF all, H, I
  <2>2. IsFiniteSet(all)
    BY <1>2, <2>1, ImageFinite DEF Sound
  <2> QED
    BY <1>4, <2>2, FS_Subset
<1>6. \A i \in I : S!ExportOne(sql, i).row = F(i)
  BY DEF S!ExportOne
<1>7. \A i \in I : S!TheRow(sql, i) \in W /\ S!TheRow(sql, i).id = i
  BY <1>4 DEF S!TheRow
<1> HIDE DEF I
<1>8. Exported' = {G[i] : i \in I}
  <2>1. Exported' = {x.row : x \in archive'.sql}
    BY DEF Exported
  <2>2. {x.row : x \in {S!ExportOne(sql, i) : i \in I}} = {F(i) : i \in I}
    <3> HIDE DEF F
    <3> QED
      BY <1>6
  <2>3. {G[i] : i \in I} = {F(i) : i \in I}
    OBVIOUS
  <2> QED
    BY <1>3, <2>1, <2>2, <2>3
<1>9. \A i \in I : Dated(F(i)) /\ F(i).id = i /\ F(i).created = S!TheRow(sql, i).created
  BY <1>2, <1>7 DEF Sound, Dated
<1>10. \A i \in I : Dated(G[i]) /\ \E r \in W : r.id = i /\ G[i].id = i /\ G[i].created = r.created
  BY <1>7, <1>9
<1> HIDE DEF F
<1>11. G = [i \in I |-> G[i]]
  OBVIOUS
<1> HIDE DEF G
<1>12. Sound(W, {G[i] : i \in I}, now)
  BY <1>2, <1>5, <1>10, <1>11, SoundExport
<1> QED
  BY <1>2, <1>8, <1>12 DEF Inv

\* import_workflow fails, or adds rows under ids that are free.
LEMMA ImportKeeps ==
    ASSUME Inv, Import
    PROVE  Inv'
<1>1. sql' = S!import_workflow(sql, archive.sql).db
  BY DEF Import, Both
<1>2. now' = now /\ focus' = focus /\ archive' = archive /\ Exported' = Exported /\ "wf" \in DOMAIN sql
  BY DEF Import, Both, Same, Inv, Exported
<1> DEFINE marked == {x.row.id : x \in {y \in archive.sql : y.was}}
                       \cup {r.id : r \in {y \in sql.wf \cup {x.row : x \in archive.sql} :
                                           \E x \in archive.sql : x.row.forked = y.id}}
           taken == \E x \in archive.sql : \/ S!Exists(sql, x.row.id)
                                           \/ S!HoldsDedup(sql, x.row.queue, x.row.dedup) # {}
<1>3. CASE taken
  <2>1. sql' = sql
    BY <1>1, <1>3 DEF S!import_workflow, S!Reply
  <2> QED
    BY <1>2, <2>1, KeepsSame
<1>4. CASE ~taken
  <2>1. sql' = [sql EXCEPT !.wf = @ \cup {x.row : x \in archive.sql}, !.was = @ \cup marked,
                           !.ops = @ \cup UNION {x.ops : x \in archive.sql},
                           !.events = @ \cup UNION {x.events : x \in archive.sql},
                           !.streams = @ \cup UNION {x.streams : x \in archive.sql}]
    BY <1>1, <1>4 DEF S!import_workflow, S!Reply
  <2> HIDE DEF marked
  <2>2. "wf" \in DOMAIN sql' /\ sql'.wf = sql.wf \cup Exported
    BY <1>2, <2>1 DEF Exported
  <2>3. \A r \in sql.wf, a \in Exported : r.id # a.id
    BY <1>4 DEF Exported, S!Exists, S!Rows
  <2>4. Sound(sql.wf \cup Exported, Exported, now)
    BY <2>3, SoundImport DEF Inv
  <2> QED
    BY <1>2, <2>2, <2>4 DEF Inv
<1> QED
  BY <1>3, <1>4

\* The calls of the other tables leave workflow_status alone.
LEMMA InsertOpRows ==
    ASSUME NEW db, "wf" \in DOMAIN db, NEW id, NEW seq, NEW name, NEW what
    PROVE  /\ "wf" \in DOMAIN S!InsertOp(db, id, seq, name, what)
           /\ S!InsertOp(db, id, seq, name, what).wf = db.wf
  BY DEF S!InsertOp

LEMMA LogKeeps ==
    ASSUME Inv, RecordStep \/ RecordChild \/ RecordPatch \/ Tick
    PROVE  Inv'
<1>1. "wf" \in DOMAIN sql
  BY DEF Inv
<1>2. CASE RecordStep
  <2>1. \E id, k, n, w : sql' = S!InsertOp(sql, id, k, n, w)
    BY <1>2 DEF RecordStep, Both, S!record_step_result, S!Reply
  <2>2. "wf" \in DOMAIN sql' /\ sql'.wf = sql.wf
    BY <1>1, <2>1, InsertOpRows
  <2> QED
    BY <1>2, <2>2, KeepsSame DEF RecordStep, Same, Both
<1>3. CASE RecordChild
  <2>1. \E id, k, n, w : sql' = S!InsertOp(sql, id, k, n, w)
    BY <1>3 DEF RecordChild, Both, S!record_child_workflow, S!Reply
  <2>2. "wf" \in DOMAIN sql' /\ sql'.wf = sql.wf
    BY <1>1, <2>1, InsertOpRows
  <2> QED
    BY <1>3, <2>2, KeepsSame DEF RecordChild, Same, Both
<1>4. CASE RecordPatch
  <2>1. \E id, k, n, w : sql' = S!InsertOp(sql, id, k, n, w)
    BY <1>4 DEF RecordPatch, Both, S!record_patch, S!Reply
  <2>2. "wf" \in DOMAIN sql' /\ sql'.wf = sql.wf
    BY <1>1, <2>1, InsertOpRows
  <2> QED
    BY <1>4, <2>2, KeepsSame DEF RecordPatch, Same, Both
<1>5. CASE Tick
  BY <1>1, <1>5, KeepsSame DEF Tick, Later
<1> QED
  BY <1>2, <1>3, <1>4, <1>5

LEMMA MailKeeps ==
    ASSUME Inv, MailCall
    PROVE  Inv'
<1>1. /\ "wf" \in DOMAIN sql /\ focus' = focus /\ archive' = archive
      /\ now' = now \/ now' = now + 1
  BY DEF Inv, MailCall, Send, Consume, SetEvent, WriteStream, Same, Later, Both
<1>2. CASE Send
  <2>1. PICK id \in Ids, t \in Topics, key \in Keys \cup {Null} :
           sql' = S!insert_notification(sql, id, t, now, key, now).db
    BY <1>2 DEF Send, Both
  <2>2. sql' = sql \/ \E N : sql' = [sql EXCEPT !.notes = N]
    BY <2>1 DEF S!insert_notification, S!Reply
  <2> QED
    BY <1>1, <2>2, KeepsSame
<1>3. CASE Consume
  <2>1. PICK id \in Ids, t \in Topics, k \in Seqs :
           sql' = S!consume_notification(sql, id, t, k, "recv").db
    BY <1>3 DEF Consume, Both
  <2>2. sql' = sql \/ \E N, w : sql' = S!InsertOp([sql EXCEPT !.notes = N], id, k, "recv", w)
    BY <2>1 DEF S!consume_notification, S!Reply
  <2>3. \A N : "wf" \in DOMAIN [sql EXCEPT !.notes = N] /\ [sql EXCEPT !.notes = N].wf = sql.wf
    BY <1>1
  <2>4. "wf" \in DOMAIN sql' /\ sql'.wf = sql.wf
    <3>1. CASE sql' = sql
      BY <1>1, <3>1
    <3>2. ASSUME NEW N, NEW w, sql' = S!InsertOp([sql EXCEPT !.notes = N], id, k, "recv", w)
          PROVE  "wf" \in DOMAIN sql' /\ sql'.wf = sql.wf
      <4> DEFINE db == [sql EXCEPT !.notes = N]
      <4>1. "wf" \in DOMAIN db /\ db.wf = sql.wf
        BY <2>3
      <4> HIDE DEF db
      <4>2. "wf" \in DOMAIN S!InsertOp(db, id, k, "recv", w) /\ S!InsertOp(db, id, k, "recv", w).wf = db.wf
        BY <4>1, InsertOpRows
      <4> QED
        BY <3>2, <4>1, <4>2 DEF db
    <3> QED
      BY <2>2, <3>1, <3>2
  <2> QED
    BY <1>1, <2>4, KeepsSame
<1>4. CASE SetEvent
  <2>1. PICK id \in Ids, k \in Keys, v \in Vals : sql' = S!upsert_event(sql, id, k, v).db
    BY <1>4 DEF SetEvent, Both
  <2>2. sql' = sql \/ \E N : sql' = [sql EXCEPT !.events = N]
    BY <2>1 DEF S!upsert_event, S!Reply
  <2> QED
    BY <1>1, <2>2, KeepsSame
<1>5. CASE WriteStream
  <2>1. PICK id \in Ids, k \in Keys, v \in Vals \cup {CLOSED} : sql' = S!write_stream(sql, id, k, v).db
    BY <1>5 DEF WriteStream, Both
  <2>2. sql' = sql \/ \E N : sql' = [sql EXCEPT !.streams = N]
    BY <2>1 DEF S!write_stream, S!Reply
  <2> QED
    BY <1>1, <2>2, KeepsSame
<1> QED
  BY <1>2, <1>3, <1>4, <1>5 DEF MailCall

LEMMA AdminKeeps ==
    ASSUME Inv, AdminCall
    PROVE  Inv'
<1>1. /\ "wf" \in DOMAIN sql /\ focus' = focus /\ archive' = archive
      /\ now' = now \/ now' = now + 1
  BY DEF Inv, AdminCall, CreateSchedule, ApplySchedules, SetScheduleStatus, SetLastFired,
         DeleteSchedule, CreateVersion, SetLatest, UpsertQueue, Same, Later, Both
<1> DEFINE Only(column) == sql' = sql \/ \E N : sql' = [sql EXCEPT ![column] = N]
<1>2. CASE CreateSchedule
  <2>1. Only("scheds")
    BY <1>2 DEF CreateSchedule, Both, S!create_schedule, S!Reply
  <2> QED
    BY <1>1, <2>1, KeepsSame
<1>3. CASE ApplySchedules
  <2>1. Only("scheds")
    BY <1>3 DEF ApplySchedules, Both, S!apply_schedules, S!Reply
  <2> QED
    BY <1>1, <2>1, KeepsSame
<1>4. CASE SetScheduleStatus
  <2>1. Only("scheds")
    BY <1>4 DEF SetScheduleStatus, Both, S!set_schedule_status, S!OnSchedule, S!Reply
  <2> QED
    BY <1>1, <2>1, KeepsSame
<1>5. CASE SetLastFired
  <2>1. Only("scheds")
    BY <1>5 DEF SetLastFired, Both, S!set_schedule_last_fired, S!OnSchedule, S!Reply
  <2> QED
    BY <1>1, <2>1, KeepsSame
<1>6. CASE DeleteSchedule
  <2>1. Only("scheds")
    BY <1>6 DEF DeleteSchedule, Both, S!delete_schedule, S!Reply
  <2> QED
    BY <1>1, <2>1, KeepsSame
<1>7. CASE CreateVersion
  <2>1. Only("vers")
    BY <1>7 DEF CreateVersion, Both, S!create_application_version, S!Reply
  <2> QED
    BY <1>1, <2>1, KeepsSame
<1>8. CASE SetLatest
  <2>1. Only("vers")
    BY <1>8 DEF SetLatest, Both, S!set_latest_application_version, S!Reply
  <2> QED
    BY <1>1, <2>1, KeepsSame
<1>9. CASE UpsertQueue
  <2>1. Only("queues")
    BY <1>9 DEF UpsertQueue, Both, S!upsert_queue, S!Reply
  <2> QED
    BY <1>1, <2>1, KeepsSame
<1> QED
  BY <1>2, <1>3, <1>4, <1>5, <1>6, <1>7, <1>8, <1>9 DEF AdminCall

LEMMA InvStep ==
    ASSUME Inv, [Next]_vars
    PROVE  Inv'
<1>1. CASE UNCHANGED vars
  BY <1>1 DEF vars, Inv, Exported
<1>2. CASE RowCall
  BY <1>2, InsertKeeps, SetStatusKeeps, CancelKeeps, CancelAllKeeps, ResumeKeeps, ResumeAllKeeps,
     EnqueueExistingKeeps, BumpKeeps, SetDelayKeeps, ReleaseDelayedKeeps, DequeueKeeps, LogKeeps
     DEF RowCall
<1>3. CASE LogCall
  BY <1>3, LogKeeps, ForkKeeps DEF LogCall
<1>4. CASE BulkCall
  BY <1>4, PurgeKeeps, ExportKeeps, ImportKeeps DEF BulkCall
<1> QED
  BY <1>1, <1>2, <1>3, <1>4, MailKeeps, AdminKeeps DEF Next

LEMMA InvInit == Init => Inv
<1> SUFFICES ASSUME Init PROVE Inv
  OBVIOUS
<1>1. "wf" \in DOMAIN sql /\ sql.wf = {} /\ Exported = {}
  BY DEF Init, S!EmptyDb, NoArchive, Exported
<1>2. Sound({}, {}, now)
  BY FS_EmptySet DEF Sound, Keyed
<1> QED
  BY <1>1, <1>2 DEF Init, Inv

\* Garbage collection (sqlite.rs garbage_collect over resolve_gc_cutoff) spares what it must on
\* every table that calls of the provider can leave behind, for any rows, horizon, threshold and
\* cutoff.
THEOREM GcSound == Spec => [](GcSpares /\ \A threshold, cutoff \in Nat : Spares(threshold, cutoff))
<1> DEFINE Always == \A threshold, cutoff \in Nat : Spares(threshold, cutoff)
<1>1. Inv => Always
  BY GcSparesRows DEF Spares
<1>2. Inv /\ Always => GcSpares
  BY DEF GcSpares, Inv, Thresholds, NoLimit
<1>3. Inv /\ [Next]_vars => Inv'
  BY InvStep
<1> HIDE DEF Always
<1>4. Spec => [](GcSpares /\ Always)
  BY <1>1, <1>2, <1>3, InvInit, PTL DEF Spec
<1> QED
  BY <1>4 DEF Always
==============================================================================
