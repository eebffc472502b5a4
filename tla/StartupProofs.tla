----------------------------- MODULE StartupProofs -----------------------------
(***************************************************************************)
(* Theorems about Startup, for any users, keys, sessions, messages, boards *)
(* and settings.                                                           *)
(*                                                                         *)
(* The chain of revisions is computed step by step, once: the objects of a *)
(* database that create_all built are those of one built by migrations,    *)
(* but for the name of one constraint, and from either the upgrade leads   *)
(* to the same head.  So the recorded revision says what is there, and a   *)
(* start, whatever cut off the one before it, only goes up.                *)
(***************************************************************************)
EXTENDS Startup, FiniteSetTheorems, WellFoundedInduction, TLAPS

------------------------------------------------------------------------------
(* The chain of revisions *)

\* What each revision adds.
Adds(n) ==
  CASE n = 1 -> Core
    [] n = 2 -> {"key_as_text"}
    [] n = 3 -> {"interactions"}
    [] n = 4 -> {"opportunities", "opportunity_notes"}
    [] n = 5 -> {"promoted_from", "ix_notes_interaction", "uq_promoted_from"}
    [] n = 6 -> {"interviews", "ix_interviews"}
    [] n = 7 -> {"sent_cv"}
    [] n = 8 -> {"site_settings"}

\* What the first n revisions have added.
Added(n) == UNION {Adds(m) : m \in 1..n}

\* What holds at a revision and is handed on from each to the next holds at all
\* later ones.
LEMMA Climb ==
  ASSUME NEW v \in 0..Head, NEW n \in v..Head, NEW T, v \in T,
         \A k \in v..(n - 1) : k \in T => k + 1 \in T
  PROVE  n \in T
<1> USE DEF Head
<1>1. \A k \in v..n : k <= 2 => k \in T
  <2>1. v <= 0 /\ 0 <= n => 0 \in T
    OBVIOUS
  <2>2. v <= 1 /\ 1 <= n => 1 \in T
    BY <2>1
  <2>3. v <= 2 /\ 2 <= n => 2 \in T
    BY <2>2
  <2> QED
    BY <2>1, <2>2, <2>3
<1>2. \A k \in v..n : k <= 5 => k \in T
  <2>1. v <= 3 /\ 3 <= n => 3 \in T
    BY <1>1
  <2>2. v <= 4 /\ 4 <= n => 4 \in T
    BY <2>1
  <2>3. v <= 5 /\ 5 <= n => 5 \in T
    BY <2>2
  <2> QED
    BY <1>1, <2>1, <2>2, <2>3
<1>3. v <= 6 /\ 6 <= n => 6 \in T
  BY <1>2
<1>4. v <= 7 /\ 7 <= n => 7 \in T
  BY <1>3
<1>5. v <= 8 /\ 8 <= n => 8 \in T
  BY <1>4
<1> QED
  BY <1>2, <1>3, <1>4, <1>5

\* The recursive function in migrated exists: it can be extended by one revision.
Chain(f, o, v, n) == f = [k \in v..n |-> IF k = v THEN o ELSE revision(k, f[k - 1])]

LEMMA ChainExists ==
  ASSUME NEW o, NEW v \in 0..Head, NEW n \in v..Head
  PROVE  \E f : Chain(f, o, v, n)
<1> DEFINE T == {m \in v..n : \E f : Chain(f, o, v, m)}
<1>1. v \in T
  <2> DEFINE g == [k \in v..v |-> o]
  <2>1. Chain(g, o, v, v)
    BY DEF Chain
  <2> QED
    BY <2>1 DEF Head
<1>2. ASSUME NEW k \in v..(n - 1), k \in T
      PROVE  k + 1 \in T
  <2>1. PICK f : Chain(f, o, v, k)
    BY <1>2
  <2> DEFINE g == [m \in v..(k + 1) |-> IF m = k + 1 THEN revision(k + 1, f[k]) ELSE f[m]]
  <2>2. ASSUME NEW m \in v..(k + 1)
        PROVE  g[m] = IF m = v THEN o ELSE revision(m, g[m - 1])
    <3>1. CASE m = k + 1
      <4>1. g[m] = revision(m, f[m - 1]) /\ m # v /\ m - 1 = k /\ k \in v..(k + 1) /\ k # k + 1
        BY <3>1 DEF Head
      <4>2. g[k] = f[k]
        BY <4>1
      <4> QED
        BY <4>1, <4>2
    <3>2. CASE m = v
      BY <3>2, <2>1 DEF Chain, Head
    <3>3. CASE m # k + 1 /\ m # v
      <4>1. m \in v..k /\ m - 1 \in v..k /\ m - 1 \in v..(k + 1) /\ m - 1 # k + 1
        BY <3>3 DEF Head
      <4>2. g[m] = f[m] /\ g[m - 1] = f[m - 1]
        BY <4>1, <3>3
      <4>3. f[m] = revision(m, f[m - 1])
        BY <4>1, <3>3, <2>1 DEF Chain
      <4> QED
        BY <4>2, <4>3, <3>3
    <3> QED
      BY <3>1, <3>2, <3>3
  <2>3. Chain(g, o, v, k + 1)
    <3>1. g = [m \in v..(k + 1) |-> g[m]]
      OBVIOUS
    <3> HIDE DEF g
    <3> QED
      BY <3>1, <2>2 DEF Chain
  <2> QED
    BY <2>3 DEF Head
<1> HIDE DEF T
<1>3. n \in T
  BY <1>1, <1>2, Climb
<1> QED
  BY <1>3 DEF T

\* migrated applies the revisions v + 1 to n one after the other.
LEMMA MigratedIsChain ==
  ASSUME NEW o, NEW v \in 0..Head, NEW n \in v..Head
  PROVE  \E f : Chain(f, o, v, n) /\ migrated(o, v, n) = f[n]
<1> DEFINE f == CHOOSE f : f = [k \in v..n |-> IF k = v THEN o ELSE revision(k, f[k - 1])]
<1>1. Chain(f, o, v, n)
  BY ChainExists DEF Chain
<1>2. migrated(o, v, n) = f[n]
  BY DEF migrated
<1> QED
  BY <1>1, <1>2

\* The revision that adds an object.
Origin(x) ==
  CASE x \in Core -> 1
    [] x = "key_as_text" -> 2
    [] x = "interactions" -> 3
    [] x \in {"opportunities", "opportunity_notes"} -> 4
    [] x \in {"promoted_from", "ix_notes_interaction", "uq_promoted_from"} -> 5
    [] x \in {"interviews", "ix_interviews"} -> 6
    [] x = "sent_cv" -> 7
    [] x = "site_settings" -> 8

\* No two revisions add the same object.
LEMMA OneOrigin ==
  ASSUME NEW n \in 1..Head, NEW x \in Adds(n)
  PROVE  Origin(x) = n /\ x # Error /\ x # "promoted_from_key"
<1>1. n \in {1, 2, 3, 4, 5, 6, 7, 8}
  BY DEF Head
<1>2. CASE n = 1
  BY <1>2 DEF Adds, Origin, Core, Error
<1>3. CASE n = 2
  BY <1>3 DEF Adds, Origin, Core, Error
<1>4. CASE n = 3
  BY <1>4 DEF Adds, Origin, Core, Error
<1>5. CASE n = 4
  BY <1>5 DEF Adds, Origin, Core, Error
<1>6. CASE n = 5
  BY <1>6 DEF Adds, Origin, Core, Error
<1>7. CASE n = 6
  BY <1>7 DEF Adds, Origin, Core, Error
<1>8. CASE n = 7
  BY <1>8 DEF Adds, Origin, Core, Error
<1>9. CASE n = 8
  BY <1>9 DEF Adds, Origin, Core, Error
<1> QED
  BY <1>1, <1>2, <1>3, <1>4, <1>5, <1>6, <1>7, <1>8, <1>9

LEMMA AddedOrigin ==
  ASSUME NEW n \in 0..Head, NEW x \in Added(n)
  PROVE  Origin(x) \in 1..n /\ x # Error /\ x # "promoted_from_key"
<1>1. PICK m \in 1..n : x \in Adds(m)
  BY DEF Added
<1>2. m \in 1..Head
  BY DEF Head
<1> QED
  BY <1>1, <1>2, OneOrigin

LEMMA AddedNext ==
  ASSUME NEW n \in 1..Head
  PROVE  Added(n) = Added(n - 1) \cup Adds(n)
BY DEF Added, Head

\* A revision on objects that have nothing of what it adds.
LEMMA RevisionAdds ==
  ASSUME NEW n \in 1..Head, NEW o, \A x \in Adds(n) : x \notin o,
         n = 5 => "promoted_from_key" \notin o
  PROVE  revision(n, o) = o \cup Adds(n)
<1>1. n \in {1, 2, 3, 4, 5, 6, 7, 8}
  BY DEF Head
<1>2. CASE n = 1
  BY <1>2 DEF Adds, revision, baseline0001, create
<1>3. CASE n = 2
  BY <1>3 DEF Adds, revision, encrypt0002
<1>4. CASE n = 3
  BY <1>4 DEF Adds, revision, inbox0003, create
<1>5. CASE n = 4
  <2>1. o \cap {"opportunities", "opportunity_notes"} = {} /\ "opportunities" \notin o
    BY <1>5 DEF Adds
  <2> QED
    BY <1>5, <2>1 DEF Adds, revision, pipeline0004, create
<1>6. CASE n = 5
  <2>1. ~promotion_is_unique(o)
    BY <1>6 DEF Adds, promotion_is_unique
  <2>2. revision(5, o) = o \cup {"promoted_from", "ix_notes_interaction"} \cup {"uq_promoted_from"}
    BY <2>1 DEF revision, promote0005
  <2> QED
    BY <1>6, <2>2 DEF Adds
<1>7. CASE n = 6
  BY <1>7 DEF Adds, revision, interview0006
<1>8. CASE n = 7
  BY <1>8 DEF Adds, revision, cvvar0007
<1>9. CASE n = 8
  BY <1>9 DEF Adds, revision, avail0008, create
<1> QED
  BY <1>1, <1>2, <1>3, <1>4, <1>5, <1>6, <1>7, <1>8, <1>9

\* A database built by migrations has what they add.
LEMMA AddedChain ==
  ASSUME NEW n \in 1..Head
  PROVE  revision(n, Added(n - 1)) = Added(n)
<1>1. ASSUME NEW x \in Adds(n) PROVE x \notin Added(n - 1)
  <2>1. Origin(x) = n
    BY OneOrigin
  <2>2. x \in Added(n - 1) => Origin(x) \in 1..(n - 1)
    BY AddedOrigin DEF Head
  <2> QED
    BY <2>1, <2>2 DEF Head
<1>2. "promoted_from_key" \notin Added(n - 1)
  BY AddedOrigin DEF Head
<1>3. revision(n, Added(n - 1)) = Added(n - 1) \cup Adds(n)
  BY <1>1, <1>2, RevisionAdds
<1> QED
  BY <1>3, AddedNext

LEMMA ChainFromAdded ==
  ASSUME NEW v \in 0..Head, NEW n \in v..Head
  PROVE  migrated(Added(v), v, n) = Added(n)
<1>1. PICK f : Chain(f, Added(v), v, n) /\ migrated(Added(v), v, n) = f[n]
  BY MigratedIsChain
<1> DEFINE T == {k \in v..n : f[k] = Added(k)}
<1>2. v \in T
  BY <1>1 DEF Chain, Head
<1>3. ASSUME NEW k \in v..(n - 1), k \in T PROVE k + 1 \in T
  <2>1. k + 1 \in v..n /\ k + 1 # v /\ (k + 1) - 1 = k /\ k + 1 \in 1..Head
    BY DEF Head
  <2>2. f[k + 1] = revision(k + 1, f[k])
    BY <2>1, <1>1 DEF Chain
  <2> QED
    BY <1>3, <2>1, <2>2, AddedChain
<1> HIDE DEF T
<1>4. n \in T
  BY <1>2, <1>3, Climb
<1> QED
  BY <1>1, <1>4 DEF T

LEMMA BuiltIsAdded ==
  ASSUME NEW n \in 0..Head
  PROVE  Built[n] = Added(n)
<1>1. Added(0) = {}
  BY DEF Added
<1>2. migrated({}, 0, n) = Added(n)
  BY <1>1, ChainFromAdded DEF Head
<1> QED
  BY <1>2 DEF Built

\* A database built by create_all is like one built by migrations, but for the name
\* its constraint has.
ByModels(n) == (Added(n) \ {"uq_promoted_from"}) \cup {"promoted_from_key"}

LEMMA CreatedIsByModels == CreatedByModels = ByModels(Head)
BY BuiltIsAdded DEF CreatedByModels, ByModels, Head

\* Later revisions add to it what they add to the other.
LEMMA ByModelsChain ==
  ASSUME NEW n \in 6..Head
  PROVE  revision(n, ByModels(n - 1)) = ByModels(n)
<1>1. n \in 1..Head /\ n - 1 \in 0..Head
  BY DEF Head
<1>2. ASSUME NEW x \in Adds(n)
      PROVE  x \notin ByModels(n - 1) /\ x # "uq_promoted_from"
  <2>1. Origin(x) = n /\ x # "promoted_from_key"
    BY <1>1, OneOrigin
  <2>2. x \in Added(n - 1) => Origin(x) \in 1..(n - 1)
    BY <1>1, AddedOrigin
  <2>3. Origin("uq_promoted_from") = 5
    <3>1. "uq_promoted_from" \in Adds(5)
      BY DEF Adds
    <3> QED
      BY <3>1, OneOrigin DEF Head
  <2> QED
    BY <2>1, <2>2, <2>3, <1>1 DEF ByModels
<1>3. revision(n, ByModels(n - 1)) = ByModels(n - 1) \cup Adds(n)
  BY <1>1, <1>2, RevisionAdds
<1>4. Added(n) = Added(n - 1) \cup Adds(n)
  BY <1>1, AddedNext
<1> QED
  BY <1>2, <1>3, <1>4 DEF ByModels

\* On the whole of it every revision but the first finds its objects, and leaves all
\* as it is.
LEMMA ByModelsStays ==
  ASSUME NEW n \in 2..Head
  PROVE  revision(n, ByModels(Head)) = ByModels(Head)
<1> DEFINE o == ByModels(Head)
<1>1. \A m \in 1..Head : \A x \in Adds(m) : x # "uq_promoted_from" => x \in o
  BY DEF ByModels, Added
<1>2. "promoted_from_key" \in o
  BY DEF ByModels
<1> HIDE DEF o
<1>3. n \in {2, 3, 4, 5, 6, 7, 8}
  BY DEF Head
<1>4. CASE n = 2
  <2>1. "key_as_text" \in o
    BY <1>1 DEF Adds, Head
  <2> QED
    BY <1>4, <2>1 DEF revision, encrypt0002, o
<1>5. CASE n = 3
  <2>1. "interactions" \in o
    BY <1>1 DEF Adds, Head
  <2> QED
    BY <1>5, <2>1 DEF revision, inbox0003, o
<1>6. CASE n = 4
  <2>1. "opportunities" \in o
    BY <1>1 DEF Adds, Head
  <2> QED
    BY <1>6, <2>1 DEF revision, pipeline0004, o
<1>7. CASE n = 5
  <2>1. "promoted_from" \in Adds(5) /\ "ix_notes_interaction" \in Adds(5)
    BY DEF Adds
  <2>2. "promoted_from" \in o /\ "ix_notes_interaction" \in o
    BY <1>1, <2>1 DEF Head
  <2>3. promotion_is_unique(o)
    BY <1>2 DEF promotion_is_unique
  <2>4. promote0005(o) = o
    BY <2>2, <2>3 DEF promote0005
  <2> QED
    BY <1>7, <2>4 DEF revision, o
<1>8. CASE n = 6
  <2>1. "interviews" \in Adds(6) /\ "ix_interviews" \in Adds(6)
    BY DEF Adds
  <2>2. "interviews" \in o /\ "ix_interviews" \in o
    BY <1>1, <2>1 DEF Head
  <2> QED
    BY <1>8, <2>2 DEF revision, interview0006, o
<1>9. CASE n = 7
  <2>1. "sent_cv" \in o
    BY <1>1 DEF Adds, Head
  <2> QED
    BY <1>9, <2>1 DEF revision, cvvar0007, o
<1>10. CASE n = 8
  <2>1. "site_settings" \in o
    BY <1>1 DEF Adds, Head
  <2> QED
    BY <1>10, <2>1 DEF revision, avail0008, o
<1> QED
  BY <1>3, <1>4, <1>5, <1>6, <1>7, <1>8, <1>9, <1>10

\* The upgrade from it, at any revision its objects allow, leads to the whole of it.
LEMMA ChainFromByModels ==
  ASSUME NEW v \in 5..Head
  PROVE  migrated(ByModels(v), v, Head) = ByModels(Head)
<1>0. v \in 0..Head /\ Head \in v..Head
  BY DEF Head
<1>1. PICK f : Chain(f, ByModels(v), v, Head) /\ migrated(ByModels(v), v, Head) = f[Head]
  BY <1>0, MigratedIsChain
<1> DEFINE T == {k \in v..Head : f[k] = ByModels(k)}
<1>2. v \in T
  BY <1>1 DEF Chain, Head
<1>3. ASSUME NEW k \in v..(Head - 1), k \in T PROVE k + 1 \in T
  <2>1. k + 1 \in v..Head /\ k + 1 # v /\ (k + 1) - 1 = k /\ k + 1 \in 6..Head
    BY DEF Head
  <2>2. f[k + 1] = revision(k + 1, f[k])
    BY <2>1, <1>1 DEF Chain
  <2> QED
    BY <1>3, <2>1, <2>2, ByModelsChain
<1> HIDE DEF T
<1>4. Head \in T
  BY <1>0, <1>2, <1>3, Climb
<1> QED
  BY <1>1, <1>4 DEF T

LEMMA ChainFromStamped == migrated(ByModels(Head), 1, Head) = ByModels(Head)
<1>0. 1 \in 0..Head /\ Head \in 1..Head
  BY DEF Head
<1>1. PICK f : Chain(f, ByModels(Head), 1, Head) /\ migrated(ByModels(Head), 1, Head) = f[Head]
  BY <1>0, MigratedIsChain
<1> DEFINE T == {k \in 1..Head : f[k] = ByModels(Head)}
<1>2. 1 \in T
  BY <1>1, <1>0 DEF Chain
<1>3. ASSUME NEW k \in 1..(Head - 1), k \in T PROVE k + 1 \in T
  <2>1. k + 1 \in 1..Head /\ k + 1 # 1 /\ (k + 1) - 1 = k /\ k + 1 \in 2..Head
    BY DEF Head
  <2>2. f[k + 1] = revision(k + 1, f[k])
    BY <2>1, <1>1 DEF Chain
  <2> QED
    BY <1>3, <2>1, <2>2, ByModelsStays
<1> HIDE DEF T
<1>4. Head \in T
  BY <1>0, <1>2, <1>3, Climb
<1> QED
  BY <1>1, <1>4 DEF T

------------------------------------------------------------------------------
(* Levels *)

\* The objects of a level, whichever way the database was built.
ObjectsAt(n, o) == o = Added(n) \/ (n >= 5 /\ o = ByModels(n))

\* The objects are those of the recorded revision, unless nothing is recorded yet, or
\* baseline0001 has been stamped on a database that create_all has built.
Shape ==
  \E n \in 0..Head :
    /\ ObjectsAt(n, objects)
    /\ \/ version = n
       \/ version = NoVersionTable /\ n \in {0, 1}
       \/ version \in {NoVersionTable, 1} /\ n = Head /\ objects = ByModels(Head)

\* Complete and Level, of any objects.
CompleteIn(n, o) == Built[n] \ {"uq_promoted_from"} \subseteq o /\ (n >= 5 => promotion_is_unique(o))

LevelOf(o) ==
  CHOOSE n \in 0..Head : CompleteIn(n, o) /\ \A m \in 0..Head : CompleteIn(m, o) => m <= n

\* What is complete at a level.
LEMMA CompleteUpTo ==
  ASSUME NEW n \in 0..Head, NEW o, ObjectsAt(n, o), NEW m \in 0..Head
  PROVE  CompleteIn(m, o) <=> m <= n
<1>1. Built[m] = Added(m)
  BY BuiltIsAdded
<1>2. ASSUME m <= n PROVE CompleteIn(m, o)
  <2>1. Added(m) \subseteq Added(n)
    BY <1>2 DEF Added
  <2>2. Added(m) \ {"uq_promoted_from"} \subseteq o
    BY <2>1 DEF ObjectsAt, ByModels
  <2>3. ASSUME m >= 5 PROVE promotion_is_unique(o)
    <3>1. "uq_promoted_from" \in Adds(5) /\ 5 \in 1..n
      BY <1>2, <2>3 DEF Adds
    <3>2. "uq_promoted_from" \in Added(n)
      BY <3>1 DEF Added
    <3> QED
      BY <3>2 DEF ObjectsAt, ByModels, promotion_is_unique
  <2> QED
    BY <1>1, <2>2, <2>3 DEF CompleteIn
<1>3. ASSUME m > n PROVE ~CompleteIn(m, o)
  <2>1. m \in {1, 2, 3, 4, 5, 6, 7, 8} /\ m \in 1..Head
    BY <1>3 DEF Head
  <2>2. PICK x \in Adds(m) : x # "uq_promoted_from"
    <3>1. m = 1 => "users" \in Adds(m)
      BY DEF Adds, Core
    <3>2. m = 2 => "key_as_text" \in Adds(m)
      BY DEF Adds
    <3>3. m = 3 => "interactions" \in Adds(m)
      BY DEF Adds
    <3>4. m = 4 => "opportunities" \in Adds(m)
      BY DEF Adds
    <3>5. m = 5 => "promoted_from" \in Adds(m)
      BY DEF Adds
    <3>6. m = 6 => "interviews" \in Adds(m)
      BY DEF Adds
    <3>7. m = 7 => "sent_cv" \in Adds(m)
      BY DEF Adds
    <3>8. m = 8 => "site_settings" \in Adds(m)
      BY DEF Adds
    <3> QED
      BY <2>1, <3>1, <3>2, <3>3, <3>4, <3>5, <3>6, <3>7, <3>8
  <2>3. Origin(x) = m /\ x # "promoted_from_key"
    BY <2>1, OneOrigin
  <2>4. x \notin Added(n)
    BY <2>3, <1>3, AddedOrigin
  <2>5. x \notin o
    BY <2>3, <2>4 DEF ObjectsAt, ByModels
  <2>6. x \in Added(m)
    BY <2>1 DEF Added
  <2> QED
    BY <1>1, <2>2, <2>5, <2>6 DEF CompleteIn
<1> QED
  BY <1>2, <1>3 DEF Head

LEMMA LevelIs ==
  ASSUME NEW n \in 0..Head, NEW o, ObjectsAt(n, o)
  PROVE  LevelOf(o) = n
<1>1. \A m \in 0..Head : CompleteIn(m, o) <=> m <= n
  BY CompleteUpTo
<1>2. \A l \in 0..Head :
        (CompleteIn(l, o) /\ \A m \in 0..Head : CompleteIn(m, o) => m <= l) <=> l = n
  BY <1>1 DEF Head
<1> QED
  BY <1>2 DEF LevelOf

\* An upgrade from wherever a start may find the database.
LEMMA UpgradeReachesHead ==
  ASSUME Shape, version = NoVersionTable => objects = {},
         NEW from, from = IF version = NoVersionTable THEN 0 ELSE version
  PROVE  ObjectsAt(Head, migrated(objects, from, Head))
<1>1. PICK n \in 0..Head :
        /\ ObjectsAt(n, objects)
        /\ \/ version = n
           \/ version = NoVersionTable /\ n \in {0, 1}
           \/ version \in {NoVersionTable, 1} /\ n = Head /\ objects = ByModels(Head)
  BY DEF Shape
<1>2. Head \in Nat /\ Head >= 5 /\ Head \in 0..Head
  BY DEF Head
<1>3. CASE version = NoVersionTable
  <2>1. objects = Added(0) /\ from = 0
    BY <1>3 DEF Added
  <2>2. migrated(objects, from, Head) = Added(Head)
    BY <2>1, <1>2, ChainFromAdded
  <2> QED
    BY <2>2 DEF ObjectsAt
<1>4. CASE version = n /\ version # NoVersionTable
  <2>1. CASE objects = Added(n)
    BY <1>2, <1>4, <2>1, ChainFromAdded DEF ObjectsAt
  <2>2. CASE n >= 5 /\ objects = ByModels(n)
    <3>1. n \in 5..Head
      BY <2>2
    <3> QED
      BY <1>2, <1>4, <2>2, <3>1, ChainFromByModels DEF ObjectsAt
  <2> QED
    BY <1>1, <2>1, <2>2 DEF ObjectsAt
<1>5. CASE version = 1 /\ version # NoVersionTable /\ objects = ByModels(Head)
  BY <1>2, <1>5, ChainFromStamped DEF ObjectsAt
<1> QED
  BY <1>1, <1>3, <1>4, <1>5

LEMMA NoError ==
  ASSUME NEW n \in 0..Head, NEW o, ObjectsAt(n, o)
  PROVE  Error \notin o
<1>1. Error # "promoted_from_key"
  BY DEF Error
<1>2. Error \notin Added(n)
  BY AddedOrigin
<1> QED
  BY <1>1, <1>2 DEF ObjectsAt, ByModels

\* A rollback takes away what the revision has added.
LEMMA DowngradeDrops ==
  ASSUME NEW n \in 1..Head, NEW o, Error \notin downgraded(n, o)
  PROVE  downgraded(n, o) = o \ Adds(n) /\ (n # 2 => Adds(n) \subseteq o)
         /\ (n = 1 => "sent_cv" \notin o)
<1>1. n \in {1, 2, 3, 4, 5, 6, 7, 8}
  BY DEF Head
<1>2. \A old : Error \notin drop(o, old) => drop(o, old) = o \ old /\ old \subseteq o
  BY DEF drop
<1>3. CASE n = 1
  <2>1. "sent_cv" \notin o
    BY <1>3 DEF downgraded
  <2>2. downgraded(n, o) = drop(o, Core)
    BY <1>3, <2>1 DEF downgraded
  <2> QED
    BY <1>2, <1>3, <2>1, <2>2 DEF Adds
<1>4. CASE n = 2
  BY <1>4 DEF downgraded, Adds
<1>5. CASE n = 3
  <2>1. downgraded(n, o) = drop(o, Adds(n))
    BY <1>5 DEF downgraded, Adds
  <2> QED
    BY <1>2, <1>5, <2>1
<1>6. CASE n = 4
  <2>1. Adds(n) = {"opportunity_notes", "opportunities"}
    BY <1>6 DEF Adds
  <2>2. downgraded(n, o) = drop(o, Adds(n))
    BY <1>6, <2>1 DEF downgraded
  <2> QED
    BY <1>2, <1>6, <2>2
<1>7. CASE n = 5
  <2>1. Adds(n) = {"ix_notes_interaction", "uq_promoted_from", "promoted_from"}
    BY <1>7 DEF Adds
  <2>2. downgraded(n, o) = drop(o, Adds(n))
    BY <1>7, <2>1 DEF downgraded
  <2> QED
    BY <1>2, <1>7, <2>2
<1>8. CASE n = 6
  <2>1. Adds(n) = {"ix_interviews", "interviews"}
    BY <1>8 DEF Adds
  <2>2. downgraded(n, o) = drop(o, Adds(n))
    BY <1>8, <2>1 DEF downgraded
  <2> QED
    BY <1>2, <1>8, <2>2
<1>9. CASE n = 7
  <2>1. downgraded(n, o) = drop(o, Adds(n))
    BY <1>9 DEF downgraded, Adds
  <2> QED
    BY <1>2, <1>9, <2>1
<1>10. CASE n = 8
  <2>1. downgraded(n, o) = drop(o, Adds(n))
    BY <1>10 DEF downgraded, Adds
  <2> QED
    BY <1>2, <1>10, <2>1
<1> QED
  BY <1>1, <1>3, <1>4, <1>5, <1>6, <1>7, <1>8, <1>9, <1>10

\* So it goes down one level, if the objects are those of the recorded revision; and
\* baseline0001 cannot be rolled back where it was only stamped.
LEMMA RollbackGoesDown ==
  ASSUME Shape, version \in 1..Head, Error \notin downgraded(version, objects)
  PROVE  ObjectsAt(version, objects) /\ ObjectsAt(version - 1, downgraded(version, objects))
<1> DEFINE left == downgraded(version, objects)
<1>0. PICK v \in 1..Head : v = version
  OBVIOUS
<1>1. left = objects \ Adds(v) /\ (v # 2 => Adds(v) \subseteq objects)
      /\ (v = 1 => "sent_cv" \notin objects)
  BY <1>0, DowngradeDrops
<1> HIDE DEF left
<1>2. v - 1 \in 0..Head /\ v \in 0..Head
  BY DEF Head
<1>3. "sent_cv" \in ByModels(Head)
  <2>1. "sent_cv" \in Adds(7) /\ 7 \in 1..Head
    BY DEF Adds, Head
  <2> QED
    BY <2>1 DEF ByModels, Added
<1>4. ObjectsAt(v, objects)
  <2>1. PICK n \in 0..Head :
          /\ ObjectsAt(n, objects)
          /\ \/ version = n
             \/ version = NoVersionTable /\ n \in {0, 1}
             \/ version \in {NoVersionTable, 1} /\ n = Head /\ objects = ByModels(Head)
    BY DEF Shape
  <2> QED
    BY <2>1, <1>0, <1>1, <1>3 DEF NoVersionTable
<1>5. Added(v) = Added(v - 1) \cup Adds(v)
  BY AddedNext
<1>6. \A x \in Adds(v) : x \notin Added(v - 1) /\ x # "promoted_from_key" /\ Origin(x) = v
  <2> TAKE x \in Adds(v)
  <2>1. Origin(x) = v /\ x # "promoted_from_key"
    BY OneOrigin
  <2>2. x \in Added(v - 1) => Origin(x) \in 1..(v - 1)
    BY <1>2, AddedOrigin
  <2> QED
    BY <2>1, <2>2
<1>7. CASE objects = Added(v)
  BY <1>0, <1>1, <1>5, <1>6, <1>7, <1>4 DEF ObjectsAt, left
<1>8. CASE v >= 5 /\ objects = ByModels(v)
  <2>1. v # 5
    <3>1. v = 5 => "uq_promoted_from" \in Adds(v)
      BY DEF Adds
    <3>2. "uq_promoted_from" \notin objects
      BY <1>8 DEF ByModels
    <3> QED
      BY <3>1, <3>2, <1>1
  <2>2. v - 1 >= 5
    BY <1>8, <2>1
  <2>3. left = ByModels(v - 1)
    BY <1>1, <1>5, <1>6, <1>8 DEF ByModels
  <2> QED
    BY <1>0, <1>4, <2>2, <2>3 DEF ObjectsAt, left
<1> QED
  BY <1>4, <1>7, <1>8 DEF ObjectsAt

------------------------------------------------------------------------------
(* Boards *)

\* A message blurred by a note made by hand, and PromotionsKeepTheirCard, of any board.
Blurred(board, timeline, i) ==
  \E c \in board, n \in timeline :
    n.card = c.id /\ n.item # c.from /\ i \in {n.item, c.from}

Keeps(board, timeline) ==
  \A i \in Interactions :
    (\E c \in board : c.from = i) /\ ~Blurred(board, timeline, i) =>
      \E c \in board : c.from = i /\ c.key = i /\ \A d \in board : d.from = i => c.id <= d.id

LEMMA KeepsIsProperty ==
  "promoted_from" \in objects =>
    (PromotionsKeepTheirCard <=> Keeps(cards, notes))
<1> SUFFICES ASSUME "promoted_from" \in objects
             PROVE  PromotionsKeepTheirCard <=> Keeps(cards, notes)
  OBVIOUS
<1>1. \A i \in Interactions : Crossed(i) <=> Blurred(cards, notes, i)
  BY DEF Crossed, Blurred
<1>2. \A i \in Interactions :
        {c \in cards : c.from = i} # {} <=> \E c \in cards : c.from = i
  OBVIOUS
<1>3. \A i \in Interactions :
        (\E c \in {c \in cards : c.from = i} :
            c.key = i /\ \A d \in {c2 \in cards : c2.from = i} : c.id <= d.id)
        <=> (\E c \in cards : c.from = i /\ c.key = i
               /\ \A d \in cards : d.from = i => c.id <= d.id)
  OBVIOUS
<1> QED
  BY <1>1, <1>2, <1>3 DEF PromotionsKeepTheirCard, Keeps

\* A nonempty set of numbers has a least.
LEMMA LeastNumber ==
  ASSUME NEW T \in SUBSET Nat, T # {}
  PROVE  \E x \in T : \A y \in T : x <= y
<1>1. IsWellFoundedOn(OpToRel(<, Nat), Nat)
  BY NatLessThanWellFounded
<1>2. PICK x \in T : \A y \in T : <<y, x>> \notin OpToRel(<, Nat)
  BY <1>1, WFMin
<1>3. \A y \in T : ~(y < x)
  BY <1>2 DEF OpToRel
<1> QED
  BY <1>3

\* The keys of a board replaced: nothing else changes.
Rekeying(after, board, f) == after = {[c EXCEPT !.key = f[c]] : c \in board}

SameButKeys(after, board, f) ==
  /\ \A c \in board : \E d \in after : d.id = c.id /\ d.from = c.from /\ d.key = f[c]
  /\ \A d \in after : \E c \in board : d.id = c.id /\ d.from = c.from /\ d.key = f[c]

LEMMA Rekeyed ==
  ASSUME NEW board, NEW timeline, BoardOK(board, timeline), NEW f \in [board -> Items],
         NEW after, Rekeying(after, board, f)
  PROVE  BoardOK(after, timeline) /\ SameButKeys(after, board, f)
<1> DEFINE g == [c \in board |-> [c EXCEPT !.key = f[c]]]
<1>1. board \subseteq Card /\ IsFiniteSet(board) /\ \A c, d \in board : c.id = d.id => c = d
  BY DEF BoardOK
<1>2. \A c \in board : g[c] \in Card /\ g[c].id = c.id /\ g[c].from = c.from /\ g[c].key = f[c]
  BY <1>1 DEF Card
<1>3. after = {g[c] : c \in board}
  BY DEF Rekeying
<1>4. g \in [board -> after]
  BY <1>3
<1> HIDE DEF g
<1>5. \A c \in board : g[c] \in after
  BY <1>3
<1>6. \A d \in after : \E c \in board : d = g[c]
  BY <1>3
<1>7. ExistsBijection(board, after)
  <2>1. g \in Injection(board, after)
    BY <1>1, <1>2, <1>4 DEF Injection, IsInjective
  <2>2. g \in Surjection(board, after)
    BY <1>4, <1>6 DEF Surjection
  <2> QED
    BY <2>1, <2>2 DEF ExistsBijection, Bijection
<1>8. IsFiniteSet(after) /\ Cardinality(after) = Cardinality(board)
  BY <1>1, <1>7, FS_Bijection
<1>9. after \subseteq Card
  BY <1>2, <1>6
<1>10. \A c, d \in after : c.id = d.id => c = d
  <2> SUFFICES ASSUME NEW c \in after, NEW d \in after, c.id = d.id PROVE c = d
    OBVIOUS
  <2>1. PICK x \in board : c = g[x]
    BY <1>6
  <2>2. PICK y \in board : d = g[y]
    BY <1>6
  <2> QED
    BY <2>1, <2>2, <1>1, <1>2
<1>11. \A c \in after : c.id <= Cardinality(after)
  BY <1>2, <1>6, <1>8 DEF BoardOK
<1>12. \A c \in after : c.from # NoInteraction =>
         \E n \in timeline : n.card = c.id /\ n.item = c.from
  <2> SUFFICES ASSUME NEW c \in after, c.from # NoInteraction
               PROVE  \E n \in timeline : n.card = c.id /\ n.item = c.from
    OBVIOUS
  <2>1. PICK x \in board : c = g[x]
    BY <1>6
  <2> QED
    BY <2>1, <1>2 DEF BoardOK
<1>13. \A n \in timeline : \E c \in after : c.id = n.card
  <2> TAKE n \in timeline
  <2>1. PICK x \in board : x.id = n.card
    BY DEF BoardOK
  <2> QED
    BY <2>1, <1>2, <1>5
<1>14. timeline \subseteq Note
  BY DEF BoardOK
<1>15. BoardOK(after, timeline)
  BY <1>8, <1>9, <1>10, <1>11, <1>12, <1>13, <1>14 DEF BoardOK
<1> QED
  BY <1>2, <1>5, <1>6, <1>15 DEF SameButKeys

LEMMA NewCardFresh ==
  ASSUME NEW board, NEW timeline, BoardOK(board, timeline)
  PROVE  /\ Cardinality(board) \in Nat
         /\ \A c \in board : c.id # Cardinality(board) + 1
         /\ \A n \in timeline : n.card # Cardinality(board) + 1
<1>1. Cardinality(board) \in Nat
  BY FS_CardinalityType DEF BoardOK
<1>2. \A c \in board : c.id \in 1..MaxCards /\ c.id <= Cardinality(board)
  BY DEF BoardOK, Card
<1>3. \A c \in board : c.id # Cardinality(board) + 1
  BY <1>1, <1>2, CardAssumption
<1>4. \A n \in timeline : \E c \in board : c.id = n.card
  BY DEF BoardOK
<1> QED
  BY <1>1, <1>3, <1>4

LEMMA BackfillRekeys ==
  ASSUME NEW board \in backfilled
  PROVE  \E f \in [cards -> Items] :
           /\ Rekeying(board, cards, f)
           /\ \A c \in cards : c.key = NoInteraction /\ claimed(c) # {} => f[c] \in claimed(c)
BY DEF backfilled, Rekeying

\* The backfill gives a message that no note has blurred to the oldest of its cards.
LEMMA BackfillKeeps ==
  ASSUME BoardOK(cards, notes), \A c \in cards : c.key = NoInteraction,
         NEW board \in backfilled
  PROVE  Keeps(board, notes)
<1>1. PICK f \in [cards -> Items] :
         /\ Rekeying(board, cards, f)
         /\ \A c \in cards : claimed(c) # {} => f[c] \in claimed(c)
  BY BackfillRekeys
<1>2. /\ \A c \in cards : \E d \in board : d.id = c.id /\ d.from = c.from /\ d.key = f[c]
      /\ \A d \in board : \E c \in cards : d.id = c.id /\ d.from = c.from /\ d.key = f[c]
  BY <1>1, Rekeyed DEF SameButKeys
<1>3. SUFFICES ASSUME NEW i \in Interactions, \E c \in board : c.from = i,
                      ~Blurred(board, notes, i)
               PROVE  \E c \in board : /\ c.from = i /\ c.key = i
                                       /\ \A d \in board : d.from = i => c.id <= d.id
  BY DEF Keeps
<1>4. \A c \in cards, n \in notes :
        n.card = c.id /\ i \in {n.item, c.from} => n.item = c.from
  <2> SUFFICES ASSUME NEW c \in cards, NEW n \in notes,
                      n.card = c.id, i \in {n.item, c.from}, n.item # c.from
               PROVE  FALSE
    OBVIOUS
  <2>1. PICK d \in board : d.id = c.id /\ d.from = c.from
    BY <1>2
  <2> QED
    BY <2>1, <1>3 DEF Blurred
<1>5. PICK c \in cards : c.from = i /\ \A d \in cards : d.from = i => c.id <= d.id
  <2> DEFINE ids == {d.id : d \in {x \in cards : x.from = i}}
  <2>1. ids \in SUBSET Nat
    BY CardAssumption DEF BoardOK, Card
  <2>2. ids # {}
    BY <1>2, <1>3
  <2>3. PICK x \in ids : \A y \in ids : x <= y
    BY <2>1, <2>2, LeastNumber
  <2> QED
    BY <2>3
<1>6. i # NoInteraction
  BY NoInteractionAssumption
<1>7. oldest(c, i)
  <2>1. PICK n \in notes : n.card = c.id /\ n.item = i
    BY <1>5, <1>6 DEF BoardOK
  <2>2. c.id \in Named(i)
    BY <2>1 DEF Named
  <2>3. ASSUME NEW d \in Named(i) PROVE c.id <= d
    <3>1. PICK m \in notes : m.item = i /\ m.card = d
      BY DEF Named
    <3>2. PICK x \in cards : x.id = m.card
      BY DEF BoardOK
    <3>3. x.from = i
      BY <3>1, <3>2, <1>4
    <3> QED
      BY <3>1, <3>2, <3>3, <1>5
  <2> QED
    BY <2>2, <2>3 DEF oldest
<1>8. claimed(c) = {i}
  <2>1. i \in claimed(c)
    BY <1>7 DEF claimed
  <2>2. ASSUME NEW j \in claimed(c) PROVE j = i
    <3>1. c.id \in Named(j)
      BY DEF claimed, oldest
    <3>2. PICK n \in notes : n.item = j /\ n.card = c.id
      BY <3>1 DEF Named
    <3> QED
      BY <3>2, <1>4, <1>5
  <2> QED
    BY <2>1, <2>2
<1>9. f[c] = i
  BY <1>1, <1>8
<1>10. PICK d \in board : d.id = c.id /\ d.from = c.from /\ d.key = f[c]
  BY <1>2
<1>11. \A e \in board : e.from = i => d.id <= e.id
  <2> TAKE e \in board
  <2>1. PICK x \in cards : e.id = x.id /\ e.from = x.from
    BY <1>2
  <2> QED
    BY <2>1, <1>5, <1>10
<1> QED
  BY <1>5, <1>9, <1>10, <1>11

LEMMA PromoteKeeps ==
  ASSUME BoardOK(cards, notes), Keeps(cards, notes), NEW i \in Interactions, promote(i)
  PROVE  BoardOK(cards', notes') /\ Keeps(cards', notes')
<1> DEFINE id == Cardinality(cards) + 1
           card == [id |-> id, from |-> i, key |-> i]
           note == [card |-> id, item |-> i, by_hand |-> FALSE]
<1>1. /\ id <= MaxCards
      /\ \A c \in cards : c.key # i
      /\ cards' = cards \cup {card}
      /\ notes' = notes \cup {note}
  BY DEF promote
<1>2. /\ Cardinality(cards) \in Nat
      /\ \A c \in cards : c.id # id
      /\ \A n \in notes : n.card # id
  BY NewCardFresh
<1>3. card \in Card /\ card.id = id /\ card.from = i /\ card.key = i
  BY <1>1, <1>2, CardAssumption DEF Card, Items
<1>4. note \in Note /\ note.card = id /\ note.item = i
  BY <1>1, <1>2, CardAssumption DEF Note
<1>id. PICK new \in Nat : new = id
  BY <1>2
<1> HIDE DEF card, note, id
<1>5. card \notin cards
  BY <1>2, <1>3
<1>6. /\ cards \subseteq Card /\ notes \subseteq Note /\ IsFiniteSet(cards)
      /\ \A c, d \in cards : c.id = d.id => c = d
      /\ \A c \in cards : c.id <= Cardinality(cards)
      /\ \A c \in cards : c.from # NoInteraction => \E n \in notes : n.card = c.id /\ n.item = c.from
      /\ \A n \in notes : \E c \in cards : c.id = n.card
  BY DEF BoardOK
<1>7. IsFiniteSet(cards') /\ Cardinality(cards') = id
  BY <1>1, <1>5, <1>6, FS_AddElement DEF id
<1>8. BoardOK(cards', notes')
  <2>1. cards' \subseteq Card /\ notes' \subseteq Note
    BY <1>1, <1>3, <1>4, <1>6
  <2>2. \A c, d \in cards' : c.id = d.id => c = d
    BY <1>1, <1>2, <1>3, <1>6
  <2>3. \A c \in cards' : c.id <= id
    <3>1. \A c \in cards : c.id \in Nat
      BY <1>6, CardAssumption DEF Card
    <3> QED
      BY <3>1, <1>1, <1>2, <1>3, <1>6 DEF id
  <2>4. \A c \in cards' : c.from # NoInteraction =>
          \E n \in notes' : n.card = c.id /\ n.item = c.from
    BY <1>1, <1>3, <1>4, <1>6
  <2>5. \A n \in notes' : \E c \in cards' : c.id = n.card
    BY <1>1, <1>3, <1>4, <1>6
  <2> QED
    BY <1>7, <2>1, <2>2, <2>3, <2>4, <2>5 DEF BoardOK
<1>9. Keeps(cards', notes')
  <2> SUFFICES ASSUME NEW j \in Interactions, \E c \in cards' : c.from = j,
                      ~Blurred(cards', notes', j)
               PROVE  \E c \in cards' : /\ c.from = j /\ c.key = j
                                        /\ \A d \in cards' : d.from = j => c.id <= d.id
    BY DEF Keeps
  <2>1. ~Blurred(cards, notes, j)
    BY <1>1 DEF Blurred
  <2>2. CASE \E c \in cards : c.from = j
    <3>1. PICK c \in cards : c.from = j /\ c.key = j /\ \A d \in cards : d.from = j => c.id <= d.id
      BY <2>1, <2>2 DEF Keeps
    <3>2. j # i
      BY <3>1, <1>1
    <3> QED
      BY <3>1, <3>2, <1>1, <1>3
  <2>3. CASE ~\E c \in cards : c.from = j
    <3>1. card \in cards' /\ card.from = j /\ j = i
      BY <2>3, <1>1, <1>3
    <3>2. \A d \in cards' : d.from = j => d = card
      BY <2>3, <1>1
    <3>3. \A d \in cards' : d.from = j => card.id <= d.id
      BY <3>2, <1>id, <1>3
    <3> QED
      BY <3>1, <3>3, <1>3
  <2> QED
    BY <2>2, <2>3
<1> QED
  BY <1>8, <1>9

LEMMA AddNoteKeeps ==
  ASSUME BoardOK(cards, notes), Keeps(cards, notes),
         NEW i \in Interactions, NEW c \in cards, add_note(c, i)
  PROVE  BoardOK(cards', notes') /\ Keeps(cards', notes')
<1> DEFINE note == [card |-> c.id, item |-> i, by_hand |-> TRUE]
<1>1. cards' = cards /\ notes' = notes \cup {note}
  BY DEF add_note
<1>2. note \in Note /\ note.card = c.id
  BY DEF BoardOK, Card, Note
<1> HIDE DEF note
<1>3. BoardOK(cards', notes')
  <2>1. \A n \in notes' : \E d \in cards' : d.id = n.card
    BY <1>1, <1>2 DEF BoardOK
  <2>2. \A d \in cards' : d.from # NoInteraction =>
          \E n \in notes' : n.card = d.id /\ n.item = d.from
    BY <1>1 DEF BoardOK
  <2> QED
    BY <1>1, <1>2, <2>1, <2>2 DEF BoardOK
<1>4. \A j \in Interactions : Blurred(cards, notes, j) => Blurred(cards', notes', j)
  BY <1>1 DEF Blurred
<1>5. Keeps(cards', notes')
  BY <1>1, <1>4 DEF Keeps
<1> QED
  BY <1>3, <1>5

\* A revision's objects are there from its level on.
LEMMA ThereFromLevel ==
  ASSUME NEW n \in 0..Head, NEW o, ObjectsAt(n, o),
         NEW m \in 1..Head, NEW x \in Adds(m), x # "uq_promoted_from"
  PROVE  x \in o <=> m <= n
<1>1. Origin(x) = m /\ x # "promoted_from_key"
  BY OneOrigin
<1>2. m <= n => x \in Added(n)
  BY DEF Added
<1>3. x \in Added(n) => Origin(x) \in 1..n
  BY AddedOrigin
<1> QED
  BY <1>1, <1>2, <1>3 DEF ObjectsAt, ByModels, Head

------------------------------------------------------------------------------
(* Keys and sessions *)

Keys == GeminiKeys \cup {Unset}

LEMMA EncryptionTypes ==
  ASSUME env \in Settings
  PROVE  /\ env.seed \in Keys
         /\ \A k \in Keys : encrypt(k) \in Stored /\ encrypt(k).text = k
         /\ \A k \in Keys : decrypt(encrypt(k)) = k
         /\ \A k \in Keys : env.encryption_key # Unset => ~is_plain(encrypt(k))
         /\ \A s \in Stored : decrypt(s) \in Keys
<1>1. env.encryption_key \in EncryptionKeys \cup {Unset} /\ env.seed \in Keys
  BY DEF Settings, Keys
<1>2. \A k \in Keys : encrypt(k).text = k
                      /\ encrypt(k).by = IF k = Unset THEN Unset ELSE env.encryption_key
  BY DEF encrypt
<1>3. \A k \in Keys : encrypt(k) \in Stored
  BY <1>1 DEF encrypt, Stored, Keys
<1>4. \A k \in Keys : decrypt(encrypt(k)) = k
  BY <1>2 DEF decrypt
<1>5. \A k \in Keys : env.encryption_key # Unset => ~is_plain(encrypt(k))
  BY <1>2 DEF is_plain
<1>6. \A s \in Stored : decrypt(s) \in Keys
  BY DEF decrypt, Stored, Keys
<1> QED
  BY <1>1, <1>2, <1>3, <1>4, <1>5, <1>6

\* encrypt0002 leaves the text as it is, and no text plain if there is a key.
LEMMA EncryptedKeeps ==
  ASSUME env \in Settings, NEW s \in Stored
  PROVE  /\ encrypted(s) \in Stored
         /\ encrypted(s).text = s.text
         /\ env.encryption_key # Unset => ~is_plain(encrypted(s))
<1>1. s.text \in Keys
  BY DEF Stored, Keys
<1> QED
  BY <1>1, EncryptionTypes DEF encrypted

AccountTypes ==
  /\ env \in Settings /\ user \in User \cup {NoUser} /\ serial \in Nat
  /\ token \in {"ok", "process", Unset} /\ session \in [Sessions -> Session]
  /\ reset \in BOOLEAN

\* A session that needs a row has one.
RowsKnown ==
  \A r \in Sessions : session[r].op \in {"password", "key", "backfill"} => session[r].row \in User

LEMMA SessionFields ==
  ASSUME session \in [Sessions -> Session], NEW r \in Sessions,
         session[r].op \in {"password", "key", "backfill", "seed"}
  PROVE  session[r].row \in User \cup {NoUser} /\ session[r].new \in Keys
<1>1. session[r] \in Session
  OBVIOUS
<1>2. session[r] # Idle /\ session[r] # Ended
  BY DEF Idle, Ended
<1> QED
  BY <1>1, <1>2 DEF Session, Keys

LEMMA Opened ==
  ASSUME session \in [Sessions -> Session], RowsKnown, NEW r \in Sessions,
         NEW op \in {"password", "key", "backfill", "seed"}, NEW k \in Keys,
         user \in User \cup {NoUser}, op # "seed" => user \in User,
         Open(r, op, k)
  PROVE  session' \in [Sessions -> Session] /\ RowsKnown'
<1> DEFINE s == [op |-> op, row |-> user, new |-> k]
<1>1. s \in Session /\ s.op = op /\ s.row = user
  BY DEF Session, Keys
<1>2. session' = [session EXCEPT ![r] = s]
  BY DEF Open
<1> HIDE DEF s
<1>3. session' \in [Sessions -> Session]
  BY <1>1, <1>2
<1>4. ASSUME NEW q \in Sessions, session'[q].op \in {"password", "key", "backfill"}
      PROVE  session'[q].row \in User
  BY <1>1, <1>2, <1>4 DEF RowsKnown
<1> QED
  BY <1>3, <1>4 DEF RowsKnown

LEMMA Closed ==
  ASSUME session \in [Sessions -> Session], RowsKnown, NEW r \in Sessions, Close(r)
  PROVE  session' \in [Sessions -> Session] /\ RowsKnown'
<1>1. Ended \in Session /\ Ended.op = "ended"
  BY DEF Session, Ended
<1>2. session' = [session EXCEPT ![r] = Ended]
  BY DEF Close
<1> HIDE DEF Ended
<1> QED
  BY <1>1, <1>2 DEF RowsKnown

------------------------------------------------------------------------------
(* The account *)

AccountInv ==
  AccountTypes /\ RowsKnown /\ (user # NoUser => user.id < serial)

\* Once a start has checked the account, only a script leaves the default password.
WeakOK ==
  pc \in {"cv", "up"} /\ user # NoUser /\ env.admin_password # Unset
    /\ user.password = "admin" => reset

\* What AccountIsKept says of a step.
KeyStep ==
  Stays /\ user'.key.text # user.key.text =>
       \/ \E r \in Sessions : Ends(r, "key") /\ user'.key.text = session[r].new
       \/ \E r \in Sessions : Ends(r, "backfill") /\ session[r].row.key # user.key
       \/ pc = "users" /\ decrypt(user.key) = Unset /\ user'.key.text = env.seed

SaveStep ==
  \A r \in Sessions : Ends(r, "key") /\ session[r].row = user =>
       decrypt(user'.key) = session[r].new

PlainStep ==
  env.encryption_key # Unset /\ user' # NoUser /\ is_plain(user'.key) =>
       Stays /\ (user'.key = user.key \/ (version = 2 /\ version' = 1))

OwnStep == Stays /\ user.password = "own" /\ user'.password # "own" => pc = "up"

AccountStep == KeyStep /\ SaveStep /\ PlainStep /\ OwnStep

\* A save ends in no other step than its own.
NoSaveEnds == \A r \in Sessions : ~Ends(r, "key")

LEMMA NoSaveEndsIf ==
  ASSUME session \in [Sessions -> Session],
         \/ session' = session
         \/ \E r \in Sessions, op \in {"password", "key", "backfill", "seed"}, k \in Keys : Open(r, op, k)
         \/ \E r \in Sessions : Close(r) /\ ~Is(r, "key")
         \/ pc' # "up"
  PROVE  NoSaveEnds
<1>1. \A r \in Sessions : session[r].op = "key" => session[r] # Ended
  BY DEF Ended
<1>2. CASE session' = session
  BY <1>1, <1>2 DEF NoSaveEnds, Ends, Is
<1>3. ASSUME NEW r \in Sessions, NEW op \in {"password", "key", "backfill", "seed"},
             NEW k \in Keys, Open(r, op, k)
      PROVE  NoSaveEnds
  <2> DEFINE s == [op |-> op, row |-> user, new |-> k]
  <2>1. s # Ended
    <3>1. s.op = op /\ Ended.op = "ended"
      BY DEF Ended
    <3> QED
      BY <3>1
  <2>2. session' = [session EXCEPT ![r] = s]
    BY <1>3 DEF Open
  <2> HIDE DEF s
  <2>3. \A q \in Sessions : session[q].op = "key" => session'[q] # Ended
    BY <2>1, <2>2, <1>1
  <2> QED
    BY <2>3 DEF NoSaveEnds, Ends, Is
<1>4. ASSUME NEW r \in Sessions, Close(r), ~Is(r, "key")
      PROVE  NoSaveEnds
  BY <1>1, <1>4 DEF NoSaveEnds, Ends, Is, Close
<1>5. CASE pc' # "up"
  BY <1>5 DEF NoSaveEnds, Ends
<1> QED
  BY <1>2, <1>3, <1>4, <1>5

LEMMA UserStaysStep ==
  ASSUME user' = user, NoSaveEnds
  PROVE  AccountStep
BY DEF AccountStep, KeyStep, SaveStep, PlainStep, OwnStep, NoSaveEnds, Stays

\* A step that leaves the key alone, and the password unless somebody changes it
\* while the application runs.
LEMMA KeyStaysStep ==
  ASSUME user' # NoUser => Stays /\ user'.key = user.key,
         pc # "up" /\ Stays /\ user.password = "own" => user'.password = "own",
         NoSaveEnds
  PROVE  AccountStep
BY DEF AccountStep, KeyStep, SaveStep, PlainStep, OwnStep, NoSaveEnds, Stays

\* Rows: a password or a key replaced.
LEMMA PasswordReplaced ==
  ASSUME NEW row \in User, NEW p \in {"admin", "env", "admin123", "own"},
         NEW after, after = [row EXCEPT !.password = p]
  PROVE  after \in User /\ after.id = row.id /\ after.password = p /\ after.key = row.key
BY DEF User

LEMMA KeyReplaced ==
  ASSUME NEW row \in User, NEW k \in Stored, NEW after, after = [row EXCEPT !.key = k]
  PROVE  after \in User /\ after.id = row.id /\ after.password = row.password /\ after.key = k
BY DEF User

LEMMA NewUserFields ==
  ASSUME NEW id \in Nat, NEW p \in {"admin", "env", "admin123", "own"}, NEW k \in Stored
  PROVE  /\ new_user(id, p, k) \in User
         /\ new_user(id, p, k).id = id
         /\ new_user(id, p, k).password = p
         /\ new_user(id, p, k).key = k
BY DEF new_user, User

\* The owner's requests and the scripts, up to their writes.
LEMMA OpenKeeps ==
  ASSUME AccountInv, WeakOK, UNCHANGED <<env, user, serial, token, reset, pc>>,
         NEW r \in Sessions, NEW op \in {"password", "key", "backfill", "seed"}, NEW k \in Keys,
         op # "seed" => user # NoUser, Open(r, op, k)
  PROVE  AccountInv' /\ WeakOK' /\ AccountStep
<1>1. session' \in [Sessions -> Session] /\ RowsKnown'
  <2>1. op # "seed" => user \in User
    BY DEF AccountInv, AccountTypes
  <2> QED
    BY <2>1, Opened DEF AccountInv, AccountTypes
<1>2. AccountInv'
  BY <1>1 DEF AccountInv, AccountTypes
<1>3. WeakOK'
  BY DEF WeakOK
<1>4. NoSaveEnds
  BY NoSaveEndsIf DEF AccountInv, AccountTypes
<1> QED
  BY <1>2, <1>3, <1>4, UserStaysStep

LEMMA LoginKeeps ==
  ASSUME AccountInv, WeakOK, pc' = pc, login
  PROVE  AccountInv' /\ WeakOK' /\ AccountStep
<1>1. UNCHANGED <<env, user, serial, session, reset>> /\ token' = env.jwt
  BY DEF login, jwt_secret_key
<1>2. token' \in {"ok", "process", Unset}
  BY <1>1 DEF AccountInv, AccountTypes, Settings
<1>3. AccountInv'
  BY <1>1, <1>2 DEF AccountInv, AccountTypes, RowsKnown
<1>4. NoSaveEnds
  BY <1>1, NoSaveEndsIf DEF AccountInv, AccountTypes
<1> QED
  BY <1>1, <1>3, <1>4, UserStaysStep DEF WeakOK

LEMMA CommitPasswordKeeps ==
  ASSUME AccountInv, WeakOK, pc = "up", pc' = "up", NEW r \in Sessions, commit_password(r)
  PROVE  AccountInv' /\ WeakOK' /\ AccountStep
<1>1. /\ Is(r, "password") /\ Close(r) /\ UNCHANGED <<env, serial, token, reset>>
      /\ user' = IF SameRow(session[r].row) THEN [user EXCEPT !.password = "own"] ELSE user
  BY DEF commit_password
<1>2. session' \in [Sessions -> Session] /\ RowsKnown'
  BY <1>1, Closed DEF AccountInv, AccountTypes
<1>3. NoSaveEnds
  BY <1>1, NoSaveEndsIf DEF AccountInv, AccountTypes, Is
<1>4. CASE user' = user
  <2>1. AccountInv' /\ WeakOK'
    BY <1>1, <1>2, <1>4 DEF AccountInv, AccountTypes, WeakOK
  <2> QED
    BY <2>1, <1>3, <1>4, UserStaysStep
<1>5. CASE user # NoUser /\ user' = [user EXCEPT !.password = "own"]
  <2>1. user \in User
    BY <1>5 DEF AccountInv, AccountTypes
  <2>2. PICK after : after = user'
    OBVIOUS
  <2>3. after \in User /\ after.id = user.id /\ after.password = "own" /\ after.key = user.key
    BY <1>5, <2>1, <2>2, PasswordReplaced
  <2>4. AccountInv' /\ WeakOK'
    BY <1>1, <1>2, <1>5, <2>2, <2>3 DEF AccountInv, AccountTypes, WeakOK
  <2>5. user' # NoUser => Stays /\ user'.key = user.key
    BY <1>5, <2>2, <2>3 DEF Stays
  <2> QED
    BY <2>4, <2>5, <1>3, KeyStaysStep
<1> QED
  BY <1>1, <1>4, <1>5 DEF SameRow

\* A save: the key becomes what was asked for, unless the row has gone meanwhile.
LEMMA CommitKeyKeeps ==
  ASSUME AccountInv, WeakOK, pc = "up", pc' = "up", NEW r \in Sessions, commit_key(r)
  PROVE  AccountInv' /\ WeakOK' /\ AccountStep
<1> DEFINE row == session[r].row
           k == session[r].new
<1>1. /\ Is(r, "key") /\ Close(r) /\ UNCHANGED <<env, serial, token, reset>>
      /\ user' = IF key_is_written(row, k) /\ SameRow(row)
                 THEN [user EXCEPT !.key = encrypt(k)] ELSE user
  BY DEF commit_key
<1>2. session' \in [Sessions -> Session] /\ RowsKnown'
  BY <1>1, Closed DEF AccountInv, AccountTypes
<1>3. session[r].op = "key" /\ row \in User /\ k \in Keys
  BY <1>1, SessionFields DEF Is, AccountInv, AccountTypes, RowsKnown
<1>4. /\ encrypt(k) \in Stored /\ encrypt(k).text = k /\ decrypt(encrypt(k)) = k
      /\ env.encryption_key # Unset => ~is_plain(encrypt(k))
  BY <1>3, EncryptionTypes DEF AccountInv, AccountTypes
<1>5. session'[r] = Ended
  BY <1>1 DEF Close, AccountInv, AccountTypes
<1>6. \A q \in Sessions : Ends(q, "key") => q = r
  <2> SUFFICES ASSUME NEW q \in Sessions, Ends(q, "key"), q # r PROVE FALSE
    OBVIOUS
  <2>1. session'[q] = session[q] /\ session[q].op = "key" /\ session'[q] = Ended
    BY <1>1 DEF Close, Ends, Is, AccountInv, AccountTypes
  <2>2. Ended.op = "ended"
    BY DEF Ended
  <2> QED
    BY <2>1, <2>2
<1>7. CASE key_is_written(row, k) /\ SameRow(row)
  <2>1. user \in User /\ user # NoUser
    BY <1>7 DEF SameRow, AccountInv, AccountTypes
  <2>2. PICK after : after = user'
    OBVIOUS
  <2>3. PICK s \in Stored : s = encrypt(k)
    BY <1>4
  <2>4. after \in User /\ after.id = user.id /\ after.password = user.password /\ after.key = s
    BY <1>1, <1>7, <2>1, <2>2, <2>3, KeyReplaced
  <2>5. AccountInv' /\ WeakOK'
    BY <1>1, <1>2, <2>1, <2>2, <2>4 DEF AccountInv, AccountTypes, WeakOK
  <2>6. Ends(r, "key")
    BY <1>1, <1>5 DEF Ends
  <2>7. user'.key = encrypt(k)
    BY <2>2, <2>3, <2>4
  <2>8. KeyStep
    BY <1>4, <2>6, <2>7 DEF KeyStep
  <2>9. SaveStep
    BY <1>4, <1>6, <2>7 DEF SaveStep
  <2>10. PlainStep
    BY <1>4, <2>7 DEF PlainStep
  <2>11. OwnStep
    BY DEF OwnStep
  <2> QED
    BY <2>5, <2>8, <2>9, <2>10, <2>11 DEF AccountStep
<1>8. CASE ~(key_is_written(row, k) /\ SameRow(row))
  <2>1. user' = user
    BY <1>1, <1>8
  <2>2. AccountInv' /\ WeakOK'
    BY <1>1, <1>2, <2>1 DEF AccountInv, AccountTypes, WeakOK
  <2>3. KeyStep /\ PlainStep /\ OwnStep
    BY <2>1 DEF KeyStep, PlainStep, OwnStep, Stays
  <2>4. ASSUME row = user PROVE decrypt(user'.key) = k
    <3>1. SameRow(row)
      BY <1>3, <2>4, NoUserAssumption DEF SameRow
    <3>2. ~key_is_written(row, k)
      BY <1>8, <3>1
    <3> QED
      BY <3>2, <2>1, <2>4 DEF key_is_written
  <2>5. SaveStep
    BY <1>6, <2>4 DEF SaveStep
  <2> QED
    BY <2>2, <2>3, <2>5 DEF AccountStep
<1> QED
  BY <1>7, <1>8

LEMMA CommitBackfillKeeps ==
  ASSUME AccountInv, WeakOK, pc = "up", pc' = "up", NEW r \in Sessions, commit_backfill(r)
  PROVE  AccountInv' /\ WeakOK' /\ AccountStep
<1> DEFINE row == session[r].row
<1>1. /\ Is(r, "backfill") /\ Close(r) /\ UNCHANGED <<env, serial, token, reset>>
      /\ user' = IF is_plain(row.key) /\ SameRow(row)
                 THEN [user EXCEPT !.key = encrypt(row.key.text)] ELSE user
  BY DEF commit_backfill
<1>2. session' \in [Sessions -> Session] /\ RowsKnown'
  BY <1>1, Closed DEF AccountInv, AccountTypes
<1>3. session[r].op = "backfill" /\ row \in User
  BY <1>1 DEF Is, AccountInv, RowsKnown
<1>4. PICK k \in Keys : k = row.key.text
  BY <1>3 DEF User, Stored, Keys
<1>5. /\ encrypt(k) \in Stored /\ encrypt(k).text = k
      /\ env.encryption_key # Unset => ~is_plain(encrypt(k))
  BY <1>4, EncryptionTypes DEF AccountInv, AccountTypes
<1>6. NoSaveEnds
  BY <1>1, NoSaveEndsIf DEF AccountInv, AccountTypes, Is
<1>7. CASE is_plain(row.key) /\ SameRow(row)
  <2>1. user \in User /\ user # NoUser
    BY <1>7 DEF SameRow, AccountInv, AccountTypes
  <2>2. PICK after : after = user'
    OBVIOUS
  <2>3. PICK s \in Stored : s = encrypt(k)
    BY <1>5
  <2>4. after \in User /\ after.id = user.id /\ after.password = user.password /\ after.key = s
    BY <1>1, <1>4, <1>7, <2>1, <2>2, <2>3, KeyReplaced
  <2>5. AccountInv' /\ WeakOK'
    BY <1>1, <1>2, <2>1, <2>2, <2>4 DEF AccountInv, AccountTypes, WeakOK
  <2>6. Ends(r, "backfill")
    BY <1>1 DEF Ends, Close, AccountInv, AccountTypes
  <2>7. user'.key = encrypt(k)
    BY <2>2, <2>3, <2>4
  <2>8. KeyStep
    <3> SUFFICES ASSUME user'.key.text # user.key.text PROVE row.key # user.key
      BY <2>6 DEF KeyStep
    <3> QED
      BY <1>4, <1>5, <2>7
  <2>9. SaveStep
    BY <1>6 DEF SaveStep, NoSaveEnds
  <2>10. PlainStep
    BY <1>5, <2>7 DEF PlainStep
  <2>11. OwnStep
    BY DEF OwnStep
  <2> QED
    BY <2>5, <2>8, <2>9, <2>10, <2>11 DEF AccountStep
<1>8. CASE ~(is_plain(row.key) /\ SameRow(row))
  <2>1. user' = user
    BY <1>1, <1>8
  <2>2. AccountInv' /\ WeakOK'
    BY <1>1, <1>2, <2>1 DEF AccountInv, AccountTypes, WeakOK
  <2> QED
    BY <2>1, <2>2, <1>6, UserStaysStep
<1> QED
  BY <1>7, <1>8

\* A new row has a new id: no step takes it for the old one.
LEMMA NewRowStep ==
  ASSUME AccountInv, NEW p \in {"admin", "env", "admin123", "own"}, NEW k \in Keys,
         user' = new_user(serial, p, encrypt(k)), NoSaveEnds
  PROVE  AccountStep /\ user' \in User /\ user'.id = serial /\ user'.password = p
<1>1. PICK s \in Stored : s = encrypt(k)
  BY EncryptionTypes DEF AccountInv, AccountTypes
<1>2. PICK id \in Nat : id = serial
  BY DEF AccountInv, AccountTypes
<1>3. PICK after : after = user'
  OBVIOUS
<1>4. after \in User /\ after.id = id /\ after.password = p /\ after.key = s
  BY <1>1, <1>2, <1>3, NewUserFields
<1>5. ~Stays
  BY <1>2, <1>3, <1>4 DEF Stays, AccountInv, AccountTypes, User
<1>6. env.encryption_key # Unset => ~is_plain(user'.key)
  BY <1>1, <1>3, <1>4, EncryptionTypes DEF AccountInv, AccountTypes
<1> QED
  BY <1>2, <1>3, <1>4, <1>5, <1>6
     DEF AccountStep, KeyStep, SaveStep, PlainStep, OwnStep, NoSaveEnds

LEMMA CommitSeedAdminKeeps ==
  ASSUME AccountInv, WeakOK, pc = "up", pc' = "up", NEW r \in Sessions, commit_seed_admin(r)
  PROVE  AccountInv' /\ WeakOK' /\ AccountStep
<1>1. Is(r, "seed") /\ Close(r) /\ UNCHANGED <<env, token>>
  BY DEF commit_seed_admin
<1>2. session' \in [Sessions -> Session] /\ RowsKnown'
  BY <1>1, Closed DEF AccountInv, AccountTypes
<1>3. NoSaveEnds
  BY <1>1, NoSaveEndsIf DEF AccountInv, AccountTypes, Is
<1>4. CASE user = NoUser /\ user' = new_user(serial, "admin", encrypt(Unset))
           /\ serial' = serial + 1 /\ reset' = TRUE
  <2>1. Unset \in Keys
    BY DEF Keys
  <2>2. AccountStep /\ user' \in User /\ user'.id = serial
    BY <2>1, <1>3, <1>4, NewRowStep
  <2>3. serial' \in Nat /\ user'.id < serial'
    BY <1>4, <2>2 DEF AccountInv, AccountTypes
  <2>4. AccountInv' /\ WeakOK'
    BY <1>1, <1>2, <1>4, <2>2, <2>3 DEF AccountInv, AccountTypes, WeakOK
  <2> QED
    BY <2>2, <2>4
<1>5. CASE user # NoUser /\ user' = [user EXCEPT !.password = "admin"]
           /\ reset' = TRUE /\ serial' = serial
  <2>1. user \in User
    BY <1>5 DEF AccountInv, AccountTypes
  <2>2. PICK after : after = user'
    OBVIOUS
  <2>3. after \in User /\ after.id = user.id /\ after.password = "admin" /\ after.key = user.key
    BY <1>5, <2>1, <2>2, PasswordReplaced
  <2>4. AccountInv' /\ WeakOK'
    BY <1>1, <1>2, <1>5, <2>2, <2>3 DEF AccountInv, AccountTypes, WeakOK
  <2>5. user' # NoUser => Stays /\ user'.key = user.key
    BY <1>5, <2>2, <2>3 DEF Stays
  <2> QED
    BY <2>4, <2>5, <1>3, KeyStaysStep
<1>6. CASE UNCHANGED <<user, serial, reset>>
  <2>1. AccountInv' /\ WeakOK'
    BY <1>1, <1>2, <1>6 DEF AccountInv, AccountTypes, WeakOK
  <2> QED
    BY <2>1, <1>3, <1>6, UserStaysStep
<1> QED
  BY <1>4, <1>5, <1>6 DEF commit_seed_admin, SameRow

LEMMA ResetPasswordKeeps ==
  ASSUME AccountInv, WeakOK, pc = "up", pc' = "up", reset_password \/ reset_admin_password
  PROVE  AccountInv' /\ WeakOK' /\ AccountStep
<1>1. user \in User /\ user # NoUser /\ UNCHANGED <<env, serial, token, session>>
  BY DEF AccountInv, AccountTypes, reset_password, reset_admin_password
<1>2. PICK p \in {"admin", "env"} :
        /\ user' = [user EXCEPT !.password = p]
        /\ reset' \in BOOLEAN
        /\ p = "admin" => reset' = TRUE
  <2>1. CASE reset_password
    BY <2>1 DEF reset_password
  <2>2. CASE reset_admin_password
    <3>1. env.admin_password = "env"
      BY <2>2 DEF reset_admin_password, AccountInv, AccountTypes, Settings
    <3> QED
      BY <2>2, <3>1 DEF reset_admin_password, AccountInv, AccountTypes
  <2> QED
    BY <2>1, <2>2
<1>3. PICK after : after = user'
  OBVIOUS
<1>4. after \in User /\ after.id = user.id /\ after.password = p /\ after.key = user.key
  BY <1>1, <1>2, <1>3, PasswordReplaced
<1>5. AccountInv' /\ WeakOK'
  BY <1>1, <1>2, <1>3, <1>4 DEF AccountInv, AccountTypes, RowsKnown, WeakOK
<1>6. user' # NoUser => Stays /\ user'.key = user.key
  BY <1>1, <1>3, <1>4 DEF Stays
<1>7. NoSaveEnds
  BY <1>1, NoSaveEndsIf DEF AccountInv, AccountTypes
<1> QED
  BY <1>5, <1>6, <1>7, KeyStaysStep

LEMMA SeedE2eKeeps ==
  ASSUME AccountInv, WeakOK, pc = "up", pc' = "up", seed_e2e_user
  PROVE  AccountInv' /\ WeakOK' /\ AccountStep
<1>1. /\ user' = new_user(serial, "admin123", encrypt(Unset))
      /\ serial' = serial + 1
      /\ UNCHANGED <<env, token, session, reset>>
  BY DEF seed_e2e_user
<1>2. Unset \in Keys
  BY DEF Keys
<1>3. NoSaveEnds
  BY <1>1, NoSaveEndsIf DEF AccountInv, AccountTypes
<1>4. AccountStep /\ user' \in User /\ user'.id = serial /\ user'.password = "admin123"
  BY <1>1, <1>2, <1>3, NewRowStep
<1>5. serial' \in Nat /\ user'.id < serial'
  BY <1>1, <1>4 DEF AccountInv, AccountTypes
<1>6. AccountInv' /\ WeakOK'
  BY <1>1, <1>4, <1>5 DEF AccountInv, AccountTypes, RowsKnown, WeakOK
<1> QED
  BY <1>4, <1>6

\* A start rotates the default password only, and seeds a key only over one it
\* cannot read.
LEMMA CheckAdminKeeps ==
  ASSUME AccountInv, pc = "users", pc' = "cv", check_admin, UNCHANGED <<env, token, session>>
  PROVE  AccountInv' /\ WeakOK' /\ AccountStep
<1>1. reset' = FALSE /\ NoSaveEnds
  BY NoSaveEndsIf DEF check_admin, AccountInv, AccountTypes
<1>2. env.admin_password \in {"env", Unset} /\ env.seed \in Keys
  BY EncryptionTypes DEF AccountInv, AccountTypes, Settings
<1>3. CASE user # NoUser
  <2>1. user' = [user EXCEPT !.password = maintained_password(user.password),
                             !.key = maintained_key(user.key)]
        /\ serial' = serial
    BY <1>3 DEF check_admin
  <2>2. user \in User
    BY <1>3 DEF AccountInv, AccountTypes
  <2>3. PICK p \in {"admin", "env", "admin123", "own"} : p = maintained_password(user.password)
    BY <1>2, <2>2 DEF maintained_password, User
  <2>4. PICK s \in Stored : s = maintained_key(user.key)
    BY <1>2, <2>2, EncryptionTypes DEF maintained_key, User, AccountInv, AccountTypes
  <2>5. PICK after : after = user'
    OBVIOUS
  <2>6. after \in User /\ after.id = user.id /\ after.password = p /\ after.key = s
    BY <2>1, <2>2, <2>3, <2>4, <2>5 DEF User
  <2>7. env.admin_password # Unset => p # "admin"
    BY <1>2, <2>3 DEF maintained_password
  <2>8. AccountInv' /\ WeakOK'
    BY <1>1, <1>3, <2>1, <2>5, <2>6, <2>7 DEF AccountInv, AccountTypes, RowsKnown, WeakOK
  <2>9. user.password = "own" => p = "own"
    BY <2>3 DEF maintained_password
  <2>10. s = user.key \/ (s = encrypt(env.seed) /\ decrypt(user.key) = Unset)
    BY <2>4 DEF maintained_key
  <2>11. encrypt(env.seed).text = env.seed
         /\ (env.encryption_key # Unset => ~is_plain(encrypt(env.seed)))
    BY <1>2, EncryptionTypes DEF AccountInv, AccountTypes
  <2>12. KeyStep
    BY <2>5, <2>6, <2>10, <2>11 DEF KeyStep
  <2>13. PlainStep
    BY <1>3, <2>5, <2>6, <2>10, <2>11 DEF PlainStep, Stays
  <2>14. OwnStep
    BY <2>5, <2>6, <2>9 DEF OwnStep
  <2>15. SaveStep
    BY <1>1 DEF SaveStep, NoSaveEnds
  <2> QED
    BY <2>8, <2>12, <2>13, <2>14, <2>15 DEF AccountStep
<1>4. CASE user = NoUser /\ env.admin_password # Unset
  <2>1. user' = new_user(serial, "env", encrypt(env.seed)) /\ serial' = serial + 1
    BY <1>2, <1>4 DEF check_admin
  <2>2. PICK k \in Keys : k = env.seed
    BY <1>2
  <2>3. AccountStep /\ user' \in User /\ user'.id = serial /\ user'.password = "env"
    BY <2>1, <2>2, <1>1, NewRowStep
  <2>4. serial' \in Nat /\ user'.id < serial'
    BY <2>1, <2>3 DEF AccountInv, AccountTypes
  <2>5. AccountInv' /\ WeakOK'
    BY <1>1, <2>3, <2>4 DEF AccountInv, AccountTypes, RowsKnown, WeakOK
  <2> QED
    BY <2>3, <2>5
<1>5. CASE user = NoUser /\ env.admin_password = Unset
  <2>1. UNCHANGED <<user, serial>>
    BY <1>5 DEF check_admin
  <2>2. AccountInv' /\ WeakOK'
    BY <1>1, <1>5, <2>1 DEF AccountInv, AccountTypes, RowsKnown, WeakOK
  <2> QED
    BY <2>1, <2>2, <1>1, UserStaysStep
<1> QED
  BY <1>3, <1>4, <1>5

------------------------------------------------------------------------------
(* The inductive invariant *)

\* There are no cards before pipeline0004, and no keys before promote0005.
CardsOK ==
  /\ BoardOK(cards, notes)
  /\ version < 4 => cards = {}
  /\ "promoted_from" \notin objects => \A c \in cards : c.key = NoInteraction
  /\ "promoted_from" \in objects => Keeps(cards, notes)

\* What a start has behind it at each of its steps.
Control ==
  /\ pc \in {"down", "up"} \cup Starting
  /\ cvs \subseteq {"fallback", "e2e", "own"} /\ \A x, y \in cvs : x = y
  /\ events \in 0..MaxEvents
  /\ pc = "stamping" => version = NoVersionTable /\ objects # {}
  /\ pc = "migrating" /\ version = NoVersionTable => objects = {}
  /\ pc \in {"lifespan", "users", "cv", "up"} => version = Head
  /\ pc \in {"users", "cv", "up"} => secret_is_fit
  /\ pc = "up" => cvs # {}

IInv == Shape /\ CardsOK /\ AccountInv /\ WeakOK /\ Control

LEMMA VersionType == Shape => version \in NoVersionTable..Head
BY DEF Shape, NoVersionTable, Head

\* At a recorded revision from promote0005 on the objects are its level's.
LEMMA LevelIsVersion ==
  ASSUME Shape, version \in 2..Head
  PROVE  ObjectsAt(version, objects)
BY DEF Shape, NoVersionTable

LEMMA PromotedFromAt ==
  ASSUME NEW n \in 0..Head, NEW o, ObjectsAt(n, o)
  PROVE  "promoted_from" \in o <=> n >= 5
<1>1. "promoted_from" \in Adds(5) /\ 5 \in 1..Head
  BY DEF Adds, Head
<1> QED
  BY <1>1, ThereFromLevel

LEMMA EmptyBoard == BoardOK({}, {}) /\ Keeps({}, {})
BY FS_EmptySet DEF BoardOK, Keeps

LEMMA NoNotesWithoutCards ==
  ASSUME NEW timeline, BoardOK({}, timeline)
  PROVE  timeline = {}
BY DEF BoardOK

LEMMA InitIInv == Init => IInv
<1> SUFFICES ASSUME Init PROVE IInv
  OBVIOUS
<1>1. Shape
  <2>1. CASE version = NoVersionTable /\ objects = {}
    <3>1. objects = Added(0) /\ 0 \in 0..Head
      BY <2>1 DEF Added, Head
    <3> QED
      BY <2>1, <3>1 DEF Shape, ObjectsAt
  <2>2. CASE version = NoVersionTable /\ objects = Core
    <3>1. Added(1) = Adds(1)
      BY DEF Added
    <3>2. objects = Added(1) /\ 1 \in 0..Head
      BY <2>2, <3>1 DEF Adds, Head
    <3> QED
      BY <2>2, <3>2 DEF Shape, ObjectsAt
  <2>3. CASE version = NoVersionTable /\ objects = CreatedByModels
    <3>1. objects = ByModels(Head) /\ Head \in 0..Head /\ Head >= 5
      BY <2>3, CreatedIsByModels DEF Head
    <3> QED
      BY <2>3, <3>1 DEF Shape, ObjectsAt
  <2>4. CASE version \in 1..Head /\ objects = Built[version]
    <3>1. PICK v \in 0..Head : v = version
      BY <2>4 DEF Head
    <3>2. objects = Added(v)
      BY <2>4, <3>1, BuiltIsAdded
    <3> QED
      BY <3>1, <3>2 DEF Shape, ObjectsAt
  <2> QED
    BY <2>1, <2>2, <2>3, <2>4 DEF Init
<1>2. CardsOK
  <2>1. CASE version # 4
    <3>1. cards = {} /\ notes = {}
      BY <2>1 DEF Init
    <3> QED
      BY <3>1, EmptyBoard DEF CardsOK
  <2>2. CASE version = 4
    <3>1. PICK board \in FirstBoards : cards = board.cards /\ notes = board.notes
      BY <2>2 DEF Init
    <3>2. BoardOK(cards, notes) /\ \A c \in cards : c.key = NoInteraction
      BY <3>1, BoardAssumption
    <3>3. ObjectsAt(version, objects)
      BY <1>1, <2>2, LevelIsVersion DEF Head
    <3>4. "promoted_from" \notin objects
      BY <2>2, <3>3, PromotedFromAt DEF Head
    <3> QED
      BY <2>2, <3>2, <3>4 DEF CardsOK
  <2> QED
    BY <2>1, <2>2
<1>3. AccountInv
  <2>1. env \in Settings /\ serial = 2 /\ token = Unset /\ reset = FALSE
    BY EnvironmentAssumption DEF Init
  <2>2. user = NoUser \/ (user \in User /\ user.id = 1)
    BY UserAssumption DEF Init
  <2>3. Idle \in Session /\ Idle.op = "idle"
    BY DEF Idle, Session
  <2>4. session = [r \in Sessions |-> Idle]
    BY DEF Init
  <2> HIDE DEF Idle
  <2>5. session \in [Sessions -> Session] /\ RowsKnown
    BY <2>3, <2>4 DEF RowsKnown
  <2>6. AccountTypes
    BY <2>1, <2>2, <2>5 DEF AccountTypes
  <2>7. user # NoUser => user.id < serial
    BY <2>1, <2>2
  <2> QED
    BY <2>5, <2>6, <2>7 DEF AccountInv
<1>4. WeakOK
  BY DEF Init, WeakOK
<1>5. Control
  <2>1. cvs = {} \/ cvs = {"own"}
    BY DEF Init
  <2> QED
    BY <2>1, EventAssumption DEF Init, Control
<1> QED
  BY <1>1, <1>2, <1>3, <1>4, <1>5 DEF IInv

\* Steps that leave the database's objects and its board alone.
LEMMA SchemaStays ==
  ASSUME Shape, CardsOK, UNCHANGED schema_vars
  PROVE  Shape' /\ CardsOK'
BY DEF schema_vars, Shape, CardsOK

LEMMA AccountStays ==
  ASSUME AccountInv, UNCHANGED account_vars
  PROVE  AccountInv' /\ AccountStep
<1>1. UNCHANGED <<env, user, serial, token, session, reset>>
  BY DEF account_vars
<1>2. AccountInv'
  BY <1>1 DEF AccountInv, AccountTypes, RowsKnown
<1>3. NoSaveEnds
  BY <1>1, NoSaveEndsIf DEF AccountInv, AccountTypes
<1> QED
  BY <1>1, <1>2, <1>3, UserStaysStep

LEMMA ProbeStep == IInv /\ probe => IInv' /\ AccountStep
<1> SUFFICES ASSUME IInv, probe PROVE IInv' /\ AccountStep
  OBVIOUS
<1>1. /\ pc = "down"
      /\ pc' = IF version = NoVersionTable /\ "users" \in objects THEN "stamping" ELSE "migrating"
      /\ UNCHANGED <<schema_vars, account_vars, cvs, events>>
  BY DEF probe, Goto
<1>2. Shape' /\ CardsOK'
  BY <1>1, SchemaStays DEF IInv
<1>3. AccountInv' /\ AccountStep
  BY <1>1, AccountStays DEF IInv
<1>4. WeakOK'
  BY <1>1 DEF WeakOK
<1>5. version = NoVersionTable /\ "users" \notin objects => objects = {}
  <2> SUFFICES ASSUME version = NoVersionTable, "users" \notin objects PROVE objects = {}
    OBVIOUS
  <2>1. PICK n \in 0..Head : ObjectsAt(n, objects)
    BY DEF IInv, Shape
  <2>2. "users" \in Adds(1) /\ 1 \in 1..Head
    BY DEF Adds, Core, Head
  <2>3. n = 0
    BY <2>1, <2>2, ThereFromLevel
  <2>4. Added(0) = {}
    BY DEF Added
  <2> QED
    BY <2>1, <2>3, <2>4 DEF ObjectsAt
<1>6. Control'
  BY <1>1, <1>5 DEF IInv, Control, Starting, schema_vars, account_vars
<1> QED
  BY <1>2, <1>3, <1>4, <1>6 DEF IInv

LEMMA StampStep == IInv /\ stamp => IInv' /\ AccountStep
<1> SUFFICES ASSUME IInv, stamp PROVE IInv' /\ AccountStep
  OBVIOUS
<1>1. /\ pc = "stamping" /\ version' = 1 /\ pc' = "migrating"
      /\ UNCHANGED <<objects, cards, notes, account_vars, cvs, events>>
  BY DEF stamp, Goto, baseline
<1>2. version = NoVersionTable /\ objects # {}
  BY <1>1 DEF IInv, Control
<1>3. Shape'
  <2>1. PICK n \in 0..Head :
          /\ ObjectsAt(n, objects)
          /\ \/ version = n
             \/ version = NoVersionTable /\ n \in {0, 1}
             \/ version \in {NoVersionTable, 1} /\ n = Head /\ objects = ByModels(Head)
    BY DEF IInv, Shape
  <2>2. n # 0
    <3>1. Added(0) = {}
      BY DEF Added
    <3> QED
      BY <1>2, <2>1, <3>1 DEF ObjectsAt
  <2>3. n = 1 \/ (n = Head /\ objects = ByModels(Head))
    BY <1>2, <2>1, <2>2 DEF NoVersionTable
  <2> QED
    BY <1>1, <2>1, <2>3 DEF Shape
<1>4. CardsOK'
  BY <1>1, <1>2 DEF IInv, CardsOK, NoVersionTable
<1>5. AccountInv' /\ AccountStep
  BY <1>1, AccountStays DEF IInv
<1>6. WeakOK' /\ Control'
  BY <1>1 DEF IInv, WeakOK, Control, Starting, NoVersionTable
<1> QED
  BY <1>3, <1>4, <1>5, <1>6 DEF IInv

\* Keys and cards after an upgrade.
LEMMA UpgradeBoard ==
  ASSUME Shape, CardsOK, version = NoVersionTable => objects = {},
         NEW from, from = IF version = NoVersionTable THEN 0 ELSE version,
         NEW board, board \in IF from < 5 THEN backfilled ELSE {cards}
  PROVE  BoardOK(board, notes) /\ Keeps(board, notes)
<1>1. version \in NoVersionTable..Head
  BY VersionType
<1>2. CASE from < 5
  <2>1. \A c \in cards : c.key = NoInteraction
    <3>1. CASE version < 4
      BY <3>1 DEF CardsOK
    <3>2. CASE version = 4
      <4>1. ObjectsAt(version, objects)
        BY <3>2, LevelIsVersion DEF Head
      <4>2. "promoted_from" \notin objects
        BY <3>2, <4>1, PromotedFromAt DEF Head
      <4> QED
        BY <4>2 DEF CardsOK
    <3> QED
      BY <1>1, <1>2, <3>1, <3>2 DEF NoVersionTable, Head
  <2>2. board \in backfilled
    BY <1>2
  <2>3. BoardOK(cards, notes)
    BY DEF CardsOK
  <2>4. PICK f \in [cards -> Items] : Rekeying(board, cards, f)
    BY <2>2, BackfillRekeys
  <2> QED
    BY <2>1, <2>2, <2>3, <2>4, Rekeyed, BackfillKeeps
<1>3. CASE ~(from < 5)
  <2>1. version \in 5..Head /\ board = cards
    BY <1>1, <1>3 DEF NoVersionTable, Head
  <2>2. PICK v \in 5..Head : v = version
    BY <2>1
  <2>3. v \in 0..Head /\ ObjectsAt(v, objects)
    BY <2>2, LevelIsVersion DEF Head
  <2>4. "promoted_from" \in objects
    BY <2>3, PromotedFromAt
  <2> QED
    BY <2>1, <2>4 DEF CardsOK
<1> QED
  BY <1>2, <1>3

LEMMA UpgradeStep == IInv /\ upgrade_head => IInv' /\ AccountStep
<1> SUFFICES ASSUME IInv, upgrade_head PROVE IInv' /\ AccountStep
  OBVIOUS
<1>1. PICK from : from = IF version = NoVersionTable THEN 0 ELSE version
  OBVIOUS
<1>2. PICK built : built = migrated(objects, from, Head)
  OBVIOUS
<1>3. PICK board \in IF from < 5 THEN backfilled ELSE {cards} :
        \/ /\ objects' = built /\ version' = Head /\ cards' = board
           /\ user' = IF from < 2 /\ user # NoUser
                      THEN [user EXCEPT !.key = encrypted(user.key)] ELSE user
           /\ pc' = "lifespan"
        \/ pc' = "down" /\ UNCHANGED <<objects, version, cards, user>>
  BY <1>1, <1>2 DEF upgrade_head, Goto
<1>4. pc = "migrating" /\ UNCHANGED <<notes, env, serial, token, session, reset, cvs, events>>
  BY DEF upgrade_head
<1>5. version = NoVersionTable => objects = {}
  BY <1>4 DEF IInv, Control
<1>6. pc' # "up" /\ pc' \in {"lifespan", "down"}
  BY <1>3
<1>7. NoSaveEnds
  BY <1>6, NoSaveEndsIf DEF IInv, AccountInv, AccountTypes
<1>8. WeakOK'
  BY <1>6 DEF WeakOK
<1>9. CASE /\ objects' = built /\ version' = Head /\ cards' = board
           /\ user' = IF from < 2 /\ user # NoUser
                      THEN [user EXCEPT !.key = encrypted(user.key)] ELSE user
           /\ pc' = "lifespan"
  <2>1. ObjectsAt(Head, objects')
    BY <1>1, <1>2, <1>5, <1>9, UpgradeReachesHead DEF IInv
  <2>2. Head \in 0..Head /\ Head >= 5
    BY DEF Head
  <2>3. Shape'
    BY <1>9, <2>1, <2>2 DEF Shape
  <2>4. BoardOK(cards', notes') /\ Keeps(cards', notes')
    BY <1>1, <1>3, <1>4, <1>5, <1>9, UpgradeBoard DEF IInv
  <2>5. PICK o : o = objects'
    OBVIOUS
  <2>6. "promoted_from" \in objects'
    BY <2>1, <2>2, <2>5, PromotedFromAt
  <2>7. CardsOK'
    BY <1>9, <2>4, <2>6 DEF CardsOK, Head
  <2>8. Control'
    BY <1>4, <1>9 DEF IInv, Control, Starting, NoVersionTable, Head
  <2>9. CASE user' = user
    <3>1. AccountInv'
      BY <1>4, <2>9 DEF IInv, AccountInv, AccountTypes, RowsKnown
    <3> QED
      BY <3>1, <2>3, <2>7, <2>8, <2>9, <1>7, <1>8, UserStaysStep DEF IInv
  <2>10. CASE user # NoUser /\ user' = [user EXCEPT !.key = encrypted(user.key)]
    <3>1. user \in User /\ user.key \in Stored
      BY <2>10 DEF IInv, AccountInv, AccountTypes, User
    <3>2. PICK k \in Stored : k = user.key
      BY <3>1
    <3>3. /\ encrypted(k) \in Stored /\ encrypted(k).text = k.text
          /\ env.encryption_key # Unset => ~is_plain(encrypted(k))
      BY EncryptedKeeps DEF IInv, AccountInv, AccountTypes
    <3>4. PICK s \in Stored : s = encrypted(k)
      BY <3>3
    <3>5. PICK after : after = user'
      OBVIOUS
    <3>6. after \in User /\ after.id = user.id /\ after.password = user.password /\ after.key = s
      BY <2>10, <3>1, <3>2, <3>4, <3>5, KeyReplaced
    <3>7. AccountInv'
      BY <1>4, <2>10, <3>5, <3>6 DEF IInv, AccountInv, AccountTypes, RowsKnown
    <3>8. KeyStep
      BY <3>2, <3>3, <3>4, <3>5, <3>6 DEF KeyStep
    <3>9. PlainStep
      BY <3>3, <3>4, <3>5, <3>6 DEF PlainStep
    <3>10. OwnStep
      BY <3>5, <3>6 DEF OwnStep
    <3>11. SaveStep
      BY <1>7 DEF SaveStep, NoSaveEnds
    <3> QED
      BY <1>8, <2>3, <2>7, <2>8, <3>7, <3>8, <3>9, <3>10, <3>11 DEF IInv, AccountStep
  <2> QED
    BY <1>9, <2>9, <2>10
<1>10. CASE pc' = "down" /\ UNCHANGED <<objects, version, cards, user>>
  <2>1. Shape' /\ CardsOK'
    BY <1>4, <1>10, SchemaStays DEF IInv, schema_vars
  <2>2. AccountInv' /\ AccountStep
    BY <1>4, <1>10, AccountStays DEF IInv, account_vars
  <2>3. Control'
    BY <1>4, <1>10 DEF IInv, Control
  <2> QED
    BY <1>8, <2>1, <2>2, <2>3 DEF IInv
<1> QED
  BY <1>3, <1>9, <1>10

LEMMA LifespanStep == IInv /\ lifespan => IInv' /\ AccountStep
<1> SUFFICES ASSUME IInv, lifespan PROVE IInv' /\ AccountStep
  OBVIOUS
<1>1. /\ pc = "lifespan" /\ pc' = IF secret_is_fit THEN "users" ELSE "down"
      /\ UNCHANGED <<schema_vars, account_vars, cvs, events>>
  BY DEF lifespan, Goto
<1>2. Shape' /\ CardsOK'
  BY <1>1, SchemaStays DEF IInv
<1>3. AccountInv' /\ AccountStep
  BY <1>1, AccountStays DEF IInv
<1>4. WeakOK'
  BY <1>1 DEF WeakOK
<1>5. Control'
  BY <1>1 DEF IInv, Control, Starting, schema_vars, account_vars, secret_is_fit, jwt_secret_key
<1> QED
  BY <1>2, <1>3, <1>4, <1>5 DEF IInv

LEMMA SeedUserStep == IInv /\ seed_user => IInv' /\ AccountStep
<1> SUFFICES ASSUME IInv, seed_user PROVE IInv' /\ AccountStep
  OBVIOUS
<1>1. /\ pc = "users" /\ check_admin /\ pc' = "cv"
      /\ UNCHANGED <<schema_vars, env, token, session, cvs, events>>
  BY DEF seed_user, Goto
<1>2. Shape' /\ CardsOK'
  BY <1>1, SchemaStays DEF IInv
<1>3. AccountInv' /\ WeakOK' /\ AccountStep
  BY <1>1, CheckAdminKeeps DEF IInv
<1>4. Control'
  BY <1>1 DEF IInv, Control, Starting, schema_vars, secret_is_fit, jwt_secret_key
<1> QED
  BY <1>2, <1>3, <1>4 DEF IInv

LEMMA SeedCvStep == IInv /\ seed_cv => IInv' /\ AccountStep
<1> SUFFICES ASSUME IInv, seed_cv PROVE IInv' /\ AccountStep
  OBVIOUS
<1>1. /\ pc = "cv" /\ pc' = "up" /\ cvs' = IF cvs = {} THEN {"fallback"} ELSE cvs
      /\ UNCHANGED <<schema_vars, account_vars, events>>
  BY DEF seed_cv, first_cv, Goto
<1>2. Shape' /\ CardsOK'
  BY <1>1, SchemaStays DEF IInv
<1>3. AccountInv' /\ AccountStep
  BY <1>1, AccountStays DEF IInv
<1>4. WeakOK'
  BY <1>1 DEF IInv, WeakOK, account_vars
<1>5. Control'
  BY <1>1 DEF IInv, Control, Starting, schema_vars, account_vars, secret_is_fit, jwt_secret_key
<1> QED
  BY <1>2, <1>3, <1>4, <1>5 DEF IInv

\* While the application runs, what happens to the account leaves the rest alone.
LEMMA ServingStays ==
  ASSUME IInv, pc = "up", UNCHANGED <<schema_vars, pc, cvs, env>>, events' \in 0..MaxEvents
  PROVE  Shape' /\ CardsOK' /\ Control'
<1>1. Shape' /\ CardsOK'
  BY SchemaStays DEF IInv
<1>2. Control'
  BY DEF IInv, Control, schema_vars, secret_is_fit, jwt_secret_key
<1> QED
  BY <1>1, <1>2

LEMMA AccountActionStep ==
  ASSUME IInv, pc = "up", UNCHANGED <<schema_vars, pc, cvs>>, events' \in 0..MaxEvents,
         AccountInv' /\ WeakOK' /\ AccountStep, env' = env
  PROVE  IInv' /\ AccountStep
BY ServingStays DEF IInv

LEMMA EventType == IInv /\ Event => events' \in 0..MaxEvents
BY EventAssumption DEF IInv, Control, Event

LEMMA AccountEventStep == IInv /\ account_event => IInv' /\ AccountStep
<1> SUFFICES ASSUME IInv, account_event PROVE IInv' /\ AccountStep
  OBVIOUS
<1>1. events' \in 0..MaxEvents
  BY EventType DEF account_event
<1>2. Unset \in Keys /\ GeminiKeys \cup {Unset} = Keys /\ AccountInv /\ WeakOK
  BY DEF Keys, IInv
<1>3. ASSUME NEW r \in Sessions, Account(change_password(r))
      PROVE  IInv' /\ AccountStep
  <2>1. /\ pc = "up" /\ UNCHANGED <<schema_vars, pc, cvs, env, user, serial, token, reset>>
        /\ Open(r, "password", Unset) /\ user # NoUser
    BY <1>3 DEF Account, change_password, signed_in
  <2>2. AccountInv' /\ WeakOK' /\ AccountStep
    BY <2>1, <1>2, OpenKeeps
  <2> QED
    BY <2>1, <2>2, <1>1, AccountActionStep
<1>4. ASSUME NEW r \in Sessions, Account(backfill(r))
      PROVE  IInv' /\ AccountStep
  <2>1. /\ pc = "up" /\ UNCHANGED <<schema_vars, pc, cvs, env, user, serial, token, reset>>
        /\ Open(r, "backfill", Unset) /\ user # NoUser
    BY <1>4 DEF Account, backfill
  <2>2. AccountInv' /\ WeakOK' /\ AccountStep
    BY <2>1, <1>2, OpenKeeps
  <2> QED
    BY <2>1, <2>2, <1>1, AccountActionStep
<1>5. ASSUME NEW r \in Sessions, Account(seed_admin(r))
      PROVE  IInv' /\ AccountStep
  <2>1. /\ pc = "up" /\ UNCHANGED <<schema_vars, pc, cvs, env, user, serial, token, reset>>
        /\ Open(r, "seed", Unset)
    BY <1>5 DEF Account, seed_admin
  <2>2. AccountInv' /\ WeakOK' /\ AccountStep
    BY <2>1, <1>2, OpenKeeps
  <2> QED
    BY <2>1, <2>2, <1>1, AccountActionStep
<1>6. ASSUME NEW r \in Sessions, NEW k \in GeminiKeys \cup {Unset}, Account(update_gemini_key(r, k))
      PROVE  IInv' /\ AccountStep
  <2>1. /\ pc = "up" /\ UNCHANGED <<schema_vars, pc, cvs, env, user, serial, token, reset>>
        /\ Open(r, "key", k) /\ user # NoUser /\ k \in Keys
    BY <1>2, <1>6 DEF Account, update_gemini_key, signed_in
  <2>2. AccountInv' /\ WeakOK' /\ AccountStep
    BY <2>1, <1>2, OpenKeeps
  <2> QED
    BY <2>1, <2>2, <1>1, AccountActionStep
<1>7. ASSUME Account(reset_password) \/ Account(reset_admin_password)
      PROVE  IInv' /\ AccountStep
  <2>1. /\ pc = "up" /\ UNCHANGED <<schema_vars, pc, cvs>>
        /\ reset_password \/ reset_admin_password
    BY <1>7 DEF Account
  <2>2. env' = env
    BY <2>1 DEF reset_password, reset_admin_password
  <2>3. AccountInv' /\ WeakOK' /\ AccountStep
    BY <2>1, <1>2, ResetPasswordKeeps
  <2> QED
    BY <2>1, <2>2, <2>3, <1>1, AccountActionStep
<1> QED
  BY <1>3, <1>4, <1>5, <1>6, <1>7 DEF account_event

LEMMA AccountStepStep == IInv /\ account_step => IInv' /\ AccountStep
<1> SUFFICES ASSUME IInv, account_step PROVE IInv' /\ AccountStep
  OBVIOUS
<1>1. events' \in 0..MaxEvents
  BY DEF account_step, IInv, Control
<1>2. AccountInv /\ WeakOK
  BY DEF IInv
<1>3. ASSUME Account(login) PROVE IInv' /\ AccountStep
  <2>1. pc = "up" /\ UNCHANGED <<schema_vars, pc, cvs, env>> /\ login
    BY <1>3 DEF Account, login
  <2>2. AccountInv' /\ WeakOK' /\ AccountStep
    BY <2>1, <1>2, LoginKeeps
  <2> QED
    BY <2>1, <2>2, <1>1, AccountActionStep
<1>4. ASSUME NEW r \in Sessions, Account(commit_password(r)) PROVE IInv' /\ AccountStep
  <2>1. pc = "up" /\ UNCHANGED <<schema_vars, pc, cvs, env>> /\ commit_password(r)
    BY <1>4 DEF Account, commit_password
  <2>2. AccountInv' /\ WeakOK' /\ AccountStep
    BY <2>1, <1>2, CommitPasswordKeeps
  <2> QED
    BY <2>1, <2>2, <1>1, AccountActionStep
<1>5. ASSUME NEW r \in Sessions, Account(commit_key(r)) PROVE IInv' /\ AccountStep
  <2>1. pc = "up" /\ UNCHANGED <<schema_vars, pc, cvs, env>> /\ commit_key(r)
    BY <1>5 DEF Account, commit_key
  <2>2. AccountInv' /\ WeakOK' /\ AccountStep
    BY <2>1, <1>2, CommitKeyKeeps
  <2> QED
    BY <2>1, <2>2, <1>1, AccountActionStep
<1>6. ASSUME NEW r \in Sessions, Account(commit_backfill(r)) PROVE IInv' /\ AccountStep
  <2>1. pc = "up" /\ UNCHANGED <<schema_vars, pc, cvs, env>> /\ commit_backfill(r)
    BY <1>6 DEF Account, commit_backfill
  <2>2. AccountInv' /\ WeakOK' /\ AccountStep
    BY <2>1, <1>2, CommitBackfillKeeps
  <2> QED
    BY <2>1, <2>2, <1>1, AccountActionStep
<1>7. ASSUME NEW r \in Sessions, Account(commit_seed_admin(r)) PROVE IInv' /\ AccountStep
  <2>1. pc = "up" /\ UNCHANGED <<schema_vars, pc, cvs, env>> /\ commit_seed_admin(r)
    BY <1>7 DEF Account, commit_seed_admin
  <2>2. AccountInv' /\ WeakOK' /\ AccountStep
    BY <2>1, <1>2, CommitSeedAdminKeeps
  <2> QED
    BY <2>1, <2>2, <1>1, AccountActionStep
<1> QED
  BY <1>3, <1>4, <1>5, <1>6, <1>7 DEF account_step

LEMMA SeedE2eStep == IInv /\ seed_e2e => IInv' /\ AccountStep
<1> SUFFICES ASSUME IInv, seed_e2e PROVE IInv' /\ AccountStep
  OBVIOUS
<1>1. /\ pc = "up" /\ seed_e2e_user /\ env' = env
      /\ cvs' = IF cvs = {} THEN {"e2e"} ELSE cvs
      /\ UNCHANGED <<schema_vars, pc>>
  BY DEF seed_e2e, seed_e2e_user
<1>2. cvs' = cvs
  BY <1>1 DEF IInv, Control
<1>3. events' \in 0..MaxEvents
  BY EventType DEF seed_e2e
<1>4. AccountInv' /\ WeakOK' /\ AccountStep
  BY <1>1, SeedE2eKeeps DEF IInv
<1> QED
  BY <1>1, <1>2, <1>3, <1>4, AccountActionStep

LEMMA BoardStep == IInv /\ board_event => IInv' /\ AccountStep
<1> SUFFICES ASSUME IInv, board_event PROVE IInv' /\ AccountStep
  OBVIOUS
<1>1. pc = "up" /\ UNCHANGED <<account_vars, pc, cvs>> /\ events' \in 0..MaxEvents
  BY EventType DEF board_event
<1>2. version = Head /\ BoardOK(cards, notes) /\ Keeps(cards, notes) /\ "promoted_from" \in objects
  <2>1. version = Head
    BY <1>1 DEF IInv, Control
  <2>2. ObjectsAt(Head, objects)
    BY <2>1, LevelIsVersion DEF IInv, Head
  <2>3. "promoted_from" \in objects
    BY <2>2, PromotedFromAt DEF Head
  <2> QED
    BY <2>1, <2>3 DEF IInv, CardsOK
<1>3. UNCHANGED <<version, objects>> /\ BoardOK(cards', notes') /\ Keeps(cards', notes')
  <2>1. PICK i \in Interactions : promote(i) \/ \E c \in cards : add_note(c, i)
    BY DEF board_event
  <2>2. CASE promote(i)
    BY <2>2, <1>2, PromoteKeeps DEF promote
  <2>3. ASSUME NEW c \in cards, add_note(c, i)
        PROVE  UNCHANGED <<version, objects>> /\ BoardOK(cards', notes') /\ Keeps(cards', notes')
    BY <2>3, <1>2, AddNoteKeeps DEF add_note
  <2> QED
    BY <2>1, <2>2, <2>3
<1>4. Shape' /\ CardsOK'
  BY <1>2, <1>3 DEF IInv, Shape, CardsOK, Head
<1>5. AccountInv' /\ AccountStep
  BY <1>1, AccountStays DEF IInv
<1>6. WeakOK' /\ Control'
  BY <1>1, <1>3 DEF IInv, WeakOK, Control, account_vars, secret_is_fit, jwt_secret_key
<1> QED
  BY <1>4, <1>5, <1>6 DEF IInv

LEMMA StopStep == IInv /\ stop => IInv' /\ AccountStep
<1> SUFFICES ASSUME IInv, stop PROVE IInv' /\ AccountStep
  OBVIOUS
<1>1. /\ pc' = "down"
      /\ token' = IF token = "process" THEN Unset ELSE token
      /\ session' = [r \in Sessions |-> IF Is(r, "idle") THEN Idle ELSE Ended]
      /\ UNCHANGED <<schema_vars, env, user, serial, reset, cvs>>
      /\ events' \in 0..MaxEvents
  BY EventType DEF stop, Goto
<1>2. Shape' /\ CardsOK'
  BY <1>1, SchemaStays DEF IInv
<1>3. session' \in [Sessions -> Session] /\ RowsKnown'
  <2>1. /\ Idle \in Session /\ Idle.op \notin {"password", "key", "backfill"}
        /\ Ended \in Session /\ Ended.op \notin {"password", "key", "backfill"}
    BY DEF Idle, Ended, Session
  <2>2. \A r \in Sessions : session'[r] \in {Idle, Ended}
    BY <1>1
  <2>3. session' \in [Sessions -> Session]
    BY <1>1, <2>1
  <2> QED
    BY <2>1, <2>2, <2>3 DEF RowsKnown
<1>4. AccountInv'
  BY <1>1, <1>3 DEF IInv, AccountInv, AccountTypes
<1>5. NoSaveEnds
  BY <1>1, NoSaveEndsIf DEF IInv, AccountInv, AccountTypes
<1>6. WeakOK' /\ Control'
  BY <1>1 DEF IInv, WeakOK, Control, schema_vars
<1> QED
  BY <1>1, <1>2, <1>4, <1>5, <1>6, UserStaysStep DEF IInv

LEMMA DeployStep == IInv /\ deploy => IInv' /\ AccountStep
<1> SUFFICES ASSUME IInv, deploy PROVE IInv' /\ AccountStep
  OBVIOUS
<1>1. /\ pc = "down" /\ env' \in Settings
      /\ token' \in {token, Unset}
      /\ UNCHANGED <<schema_vars, user, serial, session, reset, pc, cvs>>
      /\ events' \in 0..MaxEvents
  BY EventType, EnvironmentAssumption DEF deploy
<1>2. Shape' /\ CardsOK'
  BY <1>1, SchemaStays DEF IInv
<1>3. AccountInv'
  BY <1>1 DEF IInv, AccountInv, AccountTypes, RowsKnown
<1>4. NoSaveEnds
  BY <1>1, NoSaveEndsIf DEF IInv, AccountInv, AccountTypes
<1>5. WeakOK' /\ Control'
  BY <1>1 DEF IInv, WeakOK, Control, schema_vars
<1> QED
  BY <1>1, <1>2, <1>3, <1>4, <1>5, UserStaysStep DEF IInv

\* What a rollback makes of the owner's row.
LEMMA RollbackAccount ==
  ASSUME AccountInv, rollback
  PROVE  AccountInv' /\ AccountStep
<1>1. /\ version = 2 => key_may_be_lost(user)
      /\ version' = version - 1 /\ version > 0
      /\ user' = IF version = 1 THEN NoUser
                 ELSE IF version = 2 /\ user # NoUser
                 THEN [user EXCEPT !.key = [text |-> decrypt(user.key), by |-> Unset]] ELSE user
      /\ UNCHANGED <<env, serial, token, session, reset, pc>>
  BY DEF rollback
<1>2. NoSaveEnds
  BY <1>1, NoSaveEndsIf DEF AccountInv, AccountTypes
<1>3. CASE user' = user
  <2>1. AccountInv'
    BY <1>1, <1>3 DEF AccountInv, AccountTypes, RowsKnown
  <2> QED
    BY <2>1, <1>2, <1>3, UserStaysStep
<1>4. CASE user' = NoUser
  <2>1. AccountInv'
    BY <1>1, <1>4 DEF AccountInv, AccountTypes, RowsKnown
  <2>2. AccountStep
    BY <1>2, <1>4 DEF AccountStep, KeyStep, SaveStep, PlainStep, OwnStep, NoSaveEnds, Stays
  <2> QED
    BY <2>1, <2>2
<1>5. CASE /\ version = 2 /\ user # NoUser
           /\ user' = [user EXCEPT !.key = [text |-> decrypt(user.key), by |-> Unset]]
  <2>1. user \in User /\ user.key \in Stored
    BY <1>5 DEF AccountInv, AccountTypes, User
  <2>2. decrypt(user.key) = user.key.text
    <3>1. ~Unreadable(user.key)
      BY <1>1, <1>5 DEF key_may_be_lost
    <3> QED
      BY <3>1 DEF Unreadable, decrypt
  <2>3. PICK s \in Stored : s = [text |-> decrypt(user.key), by |-> Unset]
    BY <2>1, <2>2 DEF Stored
  <2>4. s.text = user.key.text
    BY <2>2, <2>3
  <2>5. PICK after : after = user'
    OBVIOUS
  <2>6. after \in User /\ after.id = user.id /\ after.password = user.password /\ after.key = s
    BY <1>5, <2>1, <2>3, <2>5, KeyReplaced
  <2>7. AccountInv'
    BY <1>1, <1>5, <2>5, <2>6 DEF AccountInv, AccountTypes, RowsKnown
  <2>8. KeyStep
    BY <2>4, <2>5, <2>6 DEF KeyStep
  <2>9. PlainStep
    BY <1>1, <1>5, <2>5, <2>6 DEF PlainStep, Stays
  <2>10. OwnStep
    BY <2>5, <2>6 DEF OwnStep
  <2>11. SaveStep
    BY <1>2 DEF SaveStep, NoSaveEnds
  <2> QED
    BY <2>7, <2>8, <2>9, <2>10, <2>11 DEF AccountStep
<1> QED
  BY <1>1, <1>3, <1>4, <1>5

LEMMA RollbackStep == IInv /\ rollback => IInv' /\ AccountStep
<1> SUFFICES ASSUME IInv, rollback PROVE IInv' /\ AccountStep
  OBVIOUS
<1>1. /\ pc = "down" /\ version > 0 /\ events' \in 0..MaxEvents
      /\ Error \notin downgraded(version, objects)
      /\ objects' = downgraded(version, objects)
      /\ version' = version - 1
      /\ cards' = IF version = 5 THEN {[c EXCEPT !.key = NoInteraction] : c \in cards}
                  ELSE IF version = 4 THEN {} ELSE cards
      /\ notes' = IF version = 4 THEN {} ELSE notes
      /\ cvs' = IF version = 1 THEN {} ELSE cvs
      /\ UNCHANGED <<env, pc>>
  BY EventType DEF rollback
<1>2. version \in 1..Head
  BY <1>1, VersionType DEF IInv, NoVersionTable, Head
<1>3. PICK v \in 1..Head : v = version
  BY <1>2
<1>4. PICK after : after = objects'
  OBVIOUS
<1>5. ObjectsAt(v, objects) /\ ObjectsAt(v - 1, after)
  BY <1>1, <1>2, <1>3, <1>4, RollbackGoesDown DEF IInv
<1>6. v \in 0..Head /\ v - 1 \in 0..Head
  BY DEF Head
<1>7. Shape'
  <2>1. ObjectsAt(v - 1, objects') /\ version' = v - 1
    BY <1>1, <1>3, <1>4, <1>5
  <2> QED
    BY <2>1, <1>6 DEF Shape
<1>8. /\ "promoted_from" \in objects <=> v >= 5
      /\ "promoted_from" \in objects' <=> v - 1 >= 5
  BY <1>4, <1>5, <1>6, PromotedFromAt
<1>9. CardsOK'
  <2>1. CASE v = 5
    <3>1. PICK f \in [cards -> Items] : \A c \in cards : f[c] = NoInteraction
      <4>1. [c \in cards |-> NoInteraction] \in [cards -> Items]
        BY DEF Items
      <4> QED
        BY <4>1
    <3>2. PICK board : board = cards'
      OBVIOUS
    <3>3. Rekeying(board, cards, f)
      BY <1>1, <1>3, <2>1, <3>1, <3>2 DEF Rekeying
    <3>4. BoardOK(board, notes) /\ SameButKeys(board, cards, f)
      BY <3>3, Rekeyed DEF IInv, CardsOK
    <3>5. \A d \in board : d.key = NoInteraction
      BY <3>1, <3>4 DEF SameButKeys
    <3>6. notes' = notes /\ version' = 4
      BY <1>1, <1>3, <2>1
    <3> QED
      BY <1>8, <2>1, <3>2, <3>4, <3>5, <3>6 DEF CardsOK
  <2>2. CASE v = 4
    <3>1. cards' = {} /\ notes' = {}
      BY <1>1, <1>3, <2>2
    <3> QED
      BY <3>1, EmptyBoard DEF CardsOK
  <2>3. CASE v # 4 /\ v # 5
    <3>1. cards' = cards /\ notes' = notes /\ version' = v - 1
      BY <1>1, <1>3, <2>3
    <3>2. v < 4 => cards = {}
      BY <1>3 DEF IInv, CardsOK
    <3>3. version' < 4 => cards' = {}
      BY <2>3, <3>1, <3>2
    <3>4. "promoted_from" \notin objects' => \A c \in cards' : c.key = NoInteraction
      BY <1>8, <2>3, <3>1, <3>2
    <3>5. "promoted_from" \in objects' => Keeps(cards', notes')
      BY <1>8, <3>1 DEF IInv, CardsOK
    <3> QED
      BY <3>1, <3>3, <3>4, <3>5 DEF IInv, CardsOK
  <2> QED
    BY <2>1, <2>2, <2>3
<1>10. AccountInv' /\ AccountStep
  BY RollbackAccount DEF IInv
<1>11. WeakOK' /\ Control'
  BY <1>1 DEF IInv, WeakOK, Control, Starting
<1> QED
  BY <1>7, <1>9, <1>10, <1>11 DEF IInv

LEMMA NothingStep == IInv /\ UNCHANGED vars => IInv' /\ AccountStep
<1> SUFFICES ASSUME IInv, UNCHANGED vars PROVE IInv' /\ AccountStep
  OBVIOUS
<1>1. UNCHANGED <<schema_vars, account_vars, pc, cvs, events>>
  BY DEF vars
<1>2. Shape' /\ CardsOK'
  BY <1>1, SchemaStays DEF IInv
<1>3. AccountInv' /\ AccountStep
  BY <1>1, AccountStays DEF IInv
<1>4. WeakOK' /\ Control'
  BY <1>1 DEF IInv, WeakOK, Control, schema_vars, account_vars, secret_is_fit, jwt_secret_key
<1> QED
  BY <1>2, <1>3, <1>4 DEF IInv

LEMMA StepKeeps == IInv /\ [Next]_vars => IInv' /\ AccountStep
<1> SUFFICES ASSUME IInv, [Next]_vars PROVE IInv' /\ AccountStep
  OBVIOUS
<1>1. CASE boot
  BY <1>1, ProbeStep, StampStep, UpgradeStep, LifespanStep, SeedUserStep, SeedCvStep DEF boot
<1>2. CASE account_event \/ account_step \/ seed_e2e
  BY <1>2, AccountEventStep, AccountStepStep, SeedE2eStep
<1>3. CASE board_event
  BY <1>3, BoardStep
<1>4. CASE health_check \/ UNCHANGED vars
  BY <1>4, NothingStep DEF health_check
<1>5. CASE stop \/ deploy \/ rollback
  BY <1>5, StopStep, DeployStep, RollbackStep
<1> QED
  BY <1>1, <1>2, <1>3, <1>4, <1>5 DEF Next

LEMMA Invariance == Spec => []IInv
<1>1. IInv /\ [Next]_vars => IInv'
  BY StepKeeps
<1> QED
  BY <1>1, InitIInv, PTL DEF Spec

------------------------------------------------------------------------------
(* The theorems *)

\* Every variable keeps its type: above all, the schema is only ever made of objects
\* that the chain of revisions or create_all makes, so that no failed statement is
\* ever left in it.
THEOREM TypeCorrect == Spec => []TypeOK
<1>1. IInv => TypeOK
  <2> SUFFICES ASSUME IInv PROVE TypeOK
    OBVIOUS
  <2>1. objects \subseteq CreatedByModels \cup Built[Head]
    <3>1. PICK n \in 0..Head : ObjectsAt(n, objects)
      BY DEF IInv, Shape
    <3>2. Added(n) \subseteq Added(Head) /\ Head \in 0..Head
      BY DEF Added, Head
    <3>3. CreatedByModels = ByModels(Head) /\ Built[Head] = Added(Head)
      BY <3>2, CreatedIsByModels, BuiltIsAdded
    <3> QED
      BY <3>1, <3>2, <3>3 DEF ObjectsAt, ByModels
  <2>2. version \in NoVersionTable..Head
    BY VersionType DEF IInv
  <2>3. cards \subseteq Card /\ notes \subseteq Note
    BY DEF IInv, CardsOK, BoardOK
  <2> QED
    BY <2>1, <2>2, <2>3 DEF IInv, AccountInv, AccountTypes, Control, TypeOK
<1> QED
  BY <1>1, Invariance, PTL

\* Whatever the database's origin and whatever starts, failed upgrades and rollbacks
\* have done to it, each revision at or below the one in alembic_version has its
\* objects: an upgrade that skips it skips nothing.
THEOREM VersionIsTrue == Spec => []VersionIsHonest
<1>1. IInv => VersionIsHonest
  <2> SUFFICES ASSUME IInv, NEW m \in 1..Head, version >= m PROVE Complete(m)
    BY DEF VersionIsHonest
  <2>1. PICK n \in 0..Head : ObjectsAt(n, objects) /\ version <= n
    BY DEF IInv, Shape, NoVersionTable, Head
  <2>2. m \in 0..Head /\ m <= n
    <3>1. version \in NoVersionTable..Head
      BY VersionType DEF IInv
    <3> QED
      BY <2>1, <3>1 DEF NoVersionTable, Head
  <2>3. PICK o : o = objects
    OBVIOUS
  <2>4. CompleteIn(m, o)
    BY <2>1, <2>2, <2>3, CompleteUpTo
  <2> QED
    BY <2>3, <2>4 DEF CompleteIn, Complete
<1> QED
  BY <1>1, Invariance, PTL

\* What answers requests has the last revision, the objects that readiness.py looks
\* for, a fit signing secret and one CV, however many starts were cut off before.
THEOREM WholeWhenServing == Spec => []ServesWhole
<1>1. IInv => ServesWhole
  <2> SUFFICES ASSUME IInv, pc = "up"
               PROVE  version = Head /\ schema_ready /\ secret_is_fit /\ Cardinality(cvs) = 1
    BY DEF ServesWhole
  <2>1. version = Head /\ secret_is_fit /\ cvs # {} /\ \A x, y \in cvs : x = y
    BY DEF IInv, Control
  <2>2. schema_ready
    <3>1. ObjectsAt(Head, objects) /\ Head \in 0..Head /\ 1 \in 1..Head
      BY <2>1, LevelIsVersion DEF IInv, Head
    <3>2. "profile_snapshots" \in Adds(1) /\ 1 <= Head
      BY DEF Adds, Core, Head
    <3> QED
      BY <3>1, <3>2, ThereFromLevel DEF schema_ready
  <2>3. PICK x : cvs = {x}
    BY <2>1
  <2> QED
    BY <2>1, <2>2, <2>3, FS_Singleton
<1> QED
  BY <1>1, Invariance, PTL

\* A start with ADMIN_PASSWORD ends the default password (main.py's check of the
\* administrator); while it serves, only a script named for it has set that password.
THEOREM WeakLoginIsGone == Spec => []WeakLoginEnds
<1>1. IInv => WeakLoginEnds
  BY DEF IInv, WeakOK, WeakLoginEnds
<1> QED
  BY <1>1, Invariance, PTL

\* The four above, as the run checks them: for every set of messages, keys, settings,
\* first boards and first users, and however many things people and faults do.
THEOREM ConsistencyHolds == Spec => []Consistent
BY TypeCorrect, VersionIsTrue, WholeWhenServing, WeakLoginIsGone, PTL DEF Consistent

\* promote0005's promise to the cards that were there before it: the oldest card of a
\* message stays the one its promotion answers with, through backfills, rollbacks and
\* what the owner adds in between, unless a note made by hand names another message.
THEOREM PromotionsKept == Spec => []PromotionsKeepTheirCard
<1>1. IInv => PromotionsKeepTheirCard
  <2>1. CASE "promoted_from" \in objects
    BY <2>1, KeepsIsProperty DEF IInv, CardsOK
  <2>2. CASE "promoted_from" \notin objects
    BY <2>2 DEF PromotionsKeepTheirCard
  <2> QED
    BY <2>1, <2>2
<1> QED
  BY <1>1, Invariance, PTL

\* No start, migration, rollback or script changes the owner's Gemini key or password
\* but those named for it, a save that nothing overtook is what is read from then on,
\* and with encryption on nothing is written plain but by the rollback of encrypt0002.
THEOREM AccountIsSafe == Spec => AccountIsKept
<1>1. IInv /\ [Next]_vars => AccountStep
  BY StepKeeps
<1>2. Spec => [][AccountStep]_vars
  BY <1>1, Invariance, PTL DEF Spec
<1>3. [AccountStep]_vars =>
        [Stays /\ user'.key.text # user.key.text =>
           \/ \E r \in Sessions : Ends(r, "key") /\ user'.key.text = session[r].new
           \/ \E r \in Sessions : Ends(r, "backfill") /\ session[r].row.key # user.key
           \/ pc = "users" /\ decrypt(user.key) = Unset /\ user'.key.text = env.seed]_vars
  BY DEF AccountStep, KeyStep
<1>4. [AccountStep]_vars =>
        [\A r \in Sessions : Ends(r, "key") /\ session[r].row = user =>
           decrypt(user'.key) = session[r].new]_vars
  BY DEF AccountStep, SaveStep
<1>5. [AccountStep]_vars =>
        [env.encryption_key # Unset /\ user' # NoUser /\ is_plain(user'.key) =>
           Stays /\ (user'.key = user.key \/ (version = 2 /\ version' = 1))]_vars
  BY DEF AccountStep, PlainStep
<1>6. [AccountStep]_vars =>
        [Stays /\ user.password = "own" /\ user'.password # "own" => pc = "up"]_vars
  BY DEF AccountStep, OwnStep
<1>7. Spec => KeyIsKept
  BY <1>2, <1>3, PTL DEF KeyIsKept
<1>8. Spec => SaveTakesEffect
  BY <1>2, <1>4, PTL DEF SaveTakesEffect
<1>9. Spec => NothingIsWrittenPlain
  BY <1>2, <1>5, PTL DEF NothingIsWrittenPlain
<1>10. Spec => OwnPasswordIsKept
  BY <1>2, <1>6, PTL DEF OwnPasswordIsKept
<1> QED
  BY <1>7, <1>8, <1>9, <1>10 DEF AccountIsKept

------------------------------------------------------------------------------
(* The refinement of Rollout *)

LEMMA LevelOfObjects == Level = LevelOf(objects) /\ Level' = LevelOf(objects')
BY DEF Level, LevelOf, Complete, CompleteIn

\* Where the invariant holds there is a level, and it is the one of the objects.
LEMMA LevelType ==
  ASSUME IInv
  PROVE  Level \in 0..Head /\ ObjectsAt(Level, objects)
<1>1. PICK n \in 0..Head : ObjectsAt(n, objects)
  BY DEF IInv, Shape
<1>2. PICK o : o = objects
  OBVIOUS
<1>3. LevelOf(o) = n
  BY <1>1, <1>2, LevelIs
<1> QED
  BY <1>1, <1>2, <1>3, LevelOfObjects

LEMMA LevelAt ==
  ASSUME NEW n \in 0..Head, ObjectsAt(n, objects)
  PROVE  Level = n
<1>1. PICK o : o = objects
  OBVIOUS
<1>2. LevelOf(o) = n
  BY <1>1, LevelIs
<1> QED
  BY <1>1, <1>2, LevelOfObjects

LEMMA LevelAtNext ==
  ASSUME NEW n \in 0..Head, ObjectsAt(n, objects')
  PROVE  Level' = n
<1>1. PICK o : o = objects'
  OBVIOUS
<1>2. LevelOf(o) = n
  BY <1>1, LevelIs
<1> QED
  BY <1>1, <1>2, LevelOfObjects

\* What leaves the objects alone leaves the level.
LEMMA LevelStays == UNCHANGED objects => Level' = Level
BY LevelOfObjects

\* upgrade_head raises the level, or leaves it: to Head, from wherever it was.
LEMMA UpgradeRaises ==
  ASSUME IInv, upgrade_head
  PROVE  RO!Raise \/ UNCHANGED <<Level, pc = "up">>
<1>1. pc = "migrating" /\ pc' \in {"lifespan", "down"}
  BY DEF upgrade_head, Goto
<1>2. ~(pc = "up") /\ (pc = "up")' = (pc = "up")
  BY <1>1
<1>3. CASE UNCHANGED objects
  BY <1>2, <1>3, LevelStays
<1>4. CASE objects' = migrated(objects, IF version = NoVersionTable THEN 0 ELSE version, Head)
  <2>1. version = NoVersionTable => objects = {}
    BY <1>1 DEF IInv, Control
  <2>2. PICK from : from = IF version = NoVersionTable THEN 0 ELSE version
    OBVIOUS
  <2>3. ObjectsAt(Head, objects') /\ Head \in 0..Head
    BY <1>4, <2>1, <2>2, UpgradeReachesHead DEF IInv, Head
  <2>4. Level' = Head
    BY <2>3, LevelAtNext
  <2>5. Level \in 0..Head
    BY LevelType
  <2>6. CASE Level = Head
    BY <1>2, <2>4, <2>6
  <2>7. CASE Level # Head
    <3>1. Level' \in (Level + 1)..Head
      BY <2>4, <2>5, <2>7 DEF Head
    <3> QED
      BY <1>2, <3>1 DEF RO!Raise
  <2> QED
    BY <2>6, <2>7
<1> QED
  BY <1>3, <1>4 DEF upgrade_head

\* rollback takes exactly the last revision away, and only while nothing is served.
LEMMA RollbackLowers ==
  ASSUME IInv, rollback
  PROVE  RO!RollBack
<1>1. /\ pc = "down" /\ pc' = pc /\ version > 0
      /\ Error \notin downgraded(version, objects)
      /\ objects' = downgraded(version, objects)
  BY DEF rollback
<1>2. version \in 1..Head
  BY <1>1, VersionType DEF IInv, NoVersionTable, Head
<1>3. PICK v \in 1..Head : v = version
  BY <1>2
<1>4. PICK after : after = objects'
  OBVIOUS
<1>5. ObjectsAt(v, objects) /\ ObjectsAt(v - 1, after)
  BY <1>1, <1>2, <1>3, <1>4, RollbackGoesDown DEF IInv
<1>6. v \in 0..Head /\ v - 1 \in 0..Head
  BY DEF Head
<1>7. Level = v /\ Level' = v - 1
  BY <1>4, <1>5, <1>6, LevelAt, LevelAtNext
<1> QED
  BY <1>1, <1>7 DEF RO!RollBack

\* Nothing else touches the objects, and it serves only after seed_cv.
LEMMA StepImplements == IInv /\ [Next]_vars => [RO!Next]_<<Level, pc = "up">>
<1> SUFFICES ASSUME IInv, [Next]_vars PROVE [RO!Next]_<<Level, pc = "up">>
  OBVIOUS
<1>1. CASE probe \/ stamp \/ lifespan \/ seed_user
  <2>1. pc # "up" /\ pc' # "up" /\ UNCHANGED objects
    BY <1>1 DEF probe, stamp, lifespan, seed_user, Goto, schema_vars
  <2> QED
    BY <2>1, LevelStays
<1>2. CASE upgrade_head
  BY <1>2, UpgradeRaises DEF RO!Next
<1>3. CASE seed_cv
  <2>1. pc = "cv" /\ pc' = "up" /\ UNCHANGED objects
    BY <1>3 DEF seed_cv, Goto, schema_vars
  <2>2. ObjectsAt(Head, objects) /\ Head \in 0..Head
    BY <2>1, LevelIsVersion DEF IInv, Control, Head
  <2>3. Level = Head /\ Level' = Level
    BY <2>1, <2>2, LevelAt, LevelStays
  <2> QED
    BY <2>1, <2>3 DEF RO!Serve, RO!Next
<1>4. CASE stop
  <2>1. pc' = "down" /\ UNCHANGED objects
    BY <1>4 DEF stop, Goto, schema_vars
  <2> QED
    BY <2>1, LevelStays DEF RO!Stop, RO!Next
<1>5. CASE rollback
  BY <1>5, RollbackLowers DEF RO!Next
<1>6. CASE account_event \/ account_step \/ seed_e2e \/ board_event \/ health_check \/ deploy
           \/ UNCHANGED vars
  <2>1. UNCHANGED <<objects, pc>>
    BY <1>6 DEF account_event, account_step, seed_e2e, board_event, health_check, deploy, vars,
       schema_vars, Account, promote, add_note
  <2> QED
    BY <2>1, LevelStays
<1> QED
  BY <1>1, <1>2, <1>3, <1>4, <1>5, <1>6 DEF Next, boot

\* The entrypoint implements Rollout, from every database it may find: starts only
\* complete the schema, nothing is served before it is complete, and only a rollback
\* with nothing served takes a revision's objects away, one revision at a time.
THEOREM Implements == Spec => ImplementsRollout
<1>1. Init => RO!Init
  <2> SUFFICES ASSUME Init PROVE RO!Init
    OBVIOUS
  <2>1. IInv /\ pc = "down"
    BY InitIInv DEF Init
  <2>2. Level \in 0..Head
    BY <2>1, LevelType
  <2> QED
    BY <2>1, <2>2 DEF RO!Init
<1> QED
  BY <1>1, StepImplements, Invariance, PTL DEF Spec, ImplementsRollout, RO!Spec
==============================================================================
