-------------------------- MODULE MusicCatalogProofs --------------------------
(* What a scan may do to the catalogue: for any library, any scan of it and  *)
(* any changes, failures and crashes in between, a rating never passes to    *)
(* another file, a file nobody touched keeps its row, and an undisturbed     *)
(* scan brings the catalogue in line with the files and their verdicts.      *)
EXTENDS MusicCatalog, FiniteSetTheorems, TLAPS

Fields == {"rows", "albums", "ratings", "profiled", "repairs"}

\* What one catalogue has to satisfy: its types, that a rating is of the file of
\* the row it refers to, and that an album counts its files.
Catalog(c) ==
  /\ DOMAIN c = Fields
  /\ CatalogOK(c)
  /\ \A i \in DOMAIN c.ratings : i \in DOMAIN c.rows /\ c.rows[i].path = c.ratings[i]
  /\ \A f \in DOMAIN c.albums : c.albums[f].count = Cardinality(PathsOf(c, f))

Everywhere == UNION {Walked(r) : r \in DOMAIN WalkOf}

Scan == [pc : {"idle", "root", "walk"}, root : Nat \ {0}, walk : Seq(Everywhere), sweeps : BOOLEAN,
         roots : SUBSET DOMAIN WalkOf, found : SUBSET Folders,
         claimed : SUBSET DOMAIN DiscOf, touched : SUBSET Paths]

Types ==
  /\ disk \in [Paths -> Songs \cup {NoFile}]
  /\ plugged \subseteq DOMAIN WalkOf
  /\ Catalog(db) /\ Catalog(work)
  /\ scan \in Scan
  /\ events \in 0..MaxEvents

-----------------------------------------------------------------------------
(* Verdicts *)

\* The files of an album that had no verdict get one; nothing else changes.
LEMMA WeighedDoes ==
  ASSUME NEW c, c.repairs \in [Paths -> Verdict \cup {Unweighed}],
         NEW files \in SUBSET Paths, \A p \in files : disk[p] \in Songs
  PROVE  /\ Weighed(c, files) \in [Paths -> Verdict \cup {Unweighed}]
         /\ \A p \in files : Weighed(c, files)[p] # Unweighed
         /\ \A p \in Paths : c.repairs[p] # Unweighed \/ p \notin files =>
              Weighed(c, files)[p] = c.repairs[p]
<1> DEFINE fresh == {p \in files : c.repairs[p] = Unweighed}
           named == {Artist[disk[p]] : p \in {q \in fresh : disk[q] \in Sure}}
<1>1. named \subseteq Names
  BY DEF Names
<1>2. \A p \in fresh : Weigh(p, named) \in Verdict
  <2> SUFFICES ASSUME NEW p \in fresh PROVE Weigh(p, named) \in Verdict
    OBVIOUS
  <2>1. Artist[disk[p]] \in Names
    BY DEF Names
  <2>2. Cardinality(named) = 1 => (CHOOSE a \in named : TRUE) \in Names
    <3>1. Cardinality(named) = 1 => named # {}
      BY FS_EmptySet
    <3> QED
      BY <1>1, <3>1
  <2> HIDE DEF named
  <2> QED
    BY <2>1, <2>2 DEF Weigh, Verdict
<1>3. Unweighed \notin Verdict
  BY DEF Unweighed, Verdict
<1>4. Weighed(c, files) = [p \in Paths |-> IF p \in fresh THEN Weigh(p, named) ELSE c.repairs[p]]
  BY DEF Weighed
<1> HIDE DEF named
<1> QED
  BY <1>2, <1>3, <1>4

LEMMA ShowsAName ==
  ASSUME NEW v \in Verdict \cup {Unweighed}
  PROVE  Shows(v) \in Names
BY DEF Shows, Applied, Verdict, Unweighed, Names

-----------------------------------------------------------------------------
(* New rows *)

\* Every id that a sync gives is higher than all there were: a file that is new
\* is never given an id that something still refers to.
LEMMA NewIdsAreHigher ==
  ASSUME NEW new \in SUBSET Paths, NEW p \in new, NEW last \in Nat
  PROVE  IdAfter(last, p, new) \in Nat /\ IdAfter(last, p, new) > last
<1> DEFINE before == {q \in new : q <= p}
<1>1. IsFiniteSet(new) /\ p \in Nat
  BY CatalogAssumption, FS_Subset
<1>2. before \subseteq new /\ p \in before
  BY <1>1
<1>3. IsFiniteSet(before)
  BY <1>1, <1>2, FS_Subset
<1>4. Cardinality(before) \in Nat /\ Cardinality(before) # 0
  BY <1>2, <1>3, FS_CardinalityType, FS_EmptySet
<1> QED
  BY <1>4 DEF IdAfter

\* Two files are never given the same id.
LEMMA NewIdsDiffer ==
  ASSUME NEW new \in SUBSET Paths, NEW p \in new, NEW q \in new, NEW last \in Nat,
         IdAfter(last, p, new) = IdAfter(last, q, new)
  PROVE  p = q
<1>1. ASSUME NEW x \in new, NEW y \in new, x < y
      PROVE  IdAfter(last, x, new) # IdAfter(last, y, new)
  <2> DEFINE low == {n \in new : n <= x}
             high == {n \in new : n <= y}
  <2>1. new \subseteq Nat /\ IsFiniteSet(new)
    BY CatalogAssumption, FS_Subset
  <2>2. low \subseteq high /\ high \subseteq new /\ y \in high /\ y \notin low
    <3>1. x \in Nat /\ y \in Nat /\ \A n \in new : n \in Nat
      BY <2>1
    <3>2. y <= y /\ ~(y <= x) /\ \A n \in new : n <= x => n <= y
      BY <1>1, <3>1
    <3> QED
      BY <3>2, Zenon
  <2>3. IdAfter(last, x, new) = last + Cardinality(low) /\ IdAfter(last, y, new) = last + Cardinality(high)
    BY DEF IdAfter
  <2> HIDE DEF low, high
  <2>4. IsFiniteSet(high) /\ IsFiniteSet(low)
    <3>1. high \in SUBSET new /\ low \in SUBSET new
      BY <2>2
    <3> QED
      BY <2>1, <3>1, FS_Subset
  <2>5. Cardinality(high) # Cardinality(low) /\ Cardinality(high) \in Nat /\ Cardinality(low) \in Nat
    BY <2>2, <2>4, FS_Subset, FS_CardinalityType
  <2> QED
    BY <2>3, <2>5
<1>2. p \in Nat /\ q \in Nat
  BY CatalogAssumption
<1> QED
  BY <1>1, <1>2

-----------------------------------------------------------------------------
(* Deleting rows *)

\* Rows go with their ratings, and nothing else changes.
LEMMA WithoutDoes ==
  ASSUME NEW c, DOMAIN c = Fields, NEW ids
  PROVE  /\ DOMAIN Without(c, ids) = Fields
         /\ Without(c, ids).rows = [i \in DOMAIN c.rows \ ids |-> c.rows[i]]
         /\ Without(c, ids).ratings = [i \in DOMAIN c.ratings \ ids |-> c.ratings[i]]
         /\ Without(c, ids).albums = c.albums
         /\ Without(c, ids).profiled = c.profiled
         /\ Without(c, ids).repairs = c.repairs
BY DEF Without, Fields

RowOf(c, f, files, p) == [path |-> p, album |-> f, shown |-> Shows(Weighed(c, files)[p])]

\* Catalogue s is c after album f was synced with the files: the rows of other
\* albums are as they were, this album's keep their paths and their ratings or
\* are gone, and every file has a row.
Synced(s, c, f, files, last) ==
  LET gone == Unseen(c, f, files) IN
  /\ DOMAIN s = Fields
  /\ s.repairs = Weighed(c, files) /\ s.profiled = c.profiled
  /\ s.albums = [g \in DOMAIN c.albums \cup {f} |->
                   IF g = f THEN TallyOf(files) ELSE c.albums[g]]
  /\ s.ratings = [i \in DOMAIN c.ratings \ gone |-> c.ratings[i]]
  /\ \A i \in DOMAIN c.rows \ gone :
       /\ i \in DOMAIN s.rows
       /\ s.rows[i] = IF c.rows[i].album = f THEN RowOf(c, f, files, c.rows[i].path) ELSE c.rows[i]
  /\ \A i \in DOMAIN s.rows :
       \/ i \in DOMAIN c.rows \ gone
       \/ i \in Nat /\ i > last /\ \E p \in files : s.rows[i] = RowOf(c, f, files, p)
  /\ \A p \in files : \E i \in DOMAIN s.rows : s.rows[i] = RowOf(c, f, files, p)

LEMMA SyncDoes ==
  ASSUME NEW c, Catalog(c), NEW f, NEW files \in SUBSET Paths,
         NEW last \in {0} \cup DOMAIN c.rows, IsLastId(c, last)
  PROVE  Synced(Sync(c, f, files, last), c, f, files, last)
<1> DEFINE s == Sync(c, f, files, last)
           gone == Unseen(c, f, files)
           repairs == Weighed(c, files)
           new == files \ {c.rows[i].path : i \in RowsOf(c, f) \ gone}
           RowFor(p) == RowOf(c, f, files, p)
           added == {IdAfter(last, p, new) : p \in new}
           weighed == [c EXCEPT !.repairs = repairs]
           kept == Without(weighed, gone)
           rows == [i \in DOMAIN kept.rows \cup added |->
                      IF i \in added THEN RowFor(CHOOSE p \in new : IdAfter(last, p, new) = i)
                      ELSE IF kept.rows[i].album = f THEN RowFor(kept.rows[i].path)
                           ELSE kept.rows[i]]
           albums == [g \in DOMAIN kept.albums \cup {f} |->
                        IF g = f THEN TallyOf(files) ELSE kept.albums[g]]
<1>1. s = [kept EXCEPT !.rows = rows, !.albums = albums]
  BY DEF Sync, RowOf
<1>2. last \in Nat /\ \A i \in DOMAIN c.rows : i \in Nat /\ i <= last
  BY DEF Catalog, CatalogOK, IsLastId
<1>3. new \in SUBSET Paths /\ new \subseteq files
  OBVIOUS
<1>4. \A p \in files \ new : \E i \in DOMAIN c.rows \ gone : c.rows[i].album = f /\ c.rows[i].path = p
  BY DEF RowsOf
<1>5. /\ DOMAIN weighed = Fields
      /\ weighed.rows = c.rows /\ weighed.ratings = c.ratings /\ weighed.albums = c.albums
      /\ weighed.profiled = c.profiled /\ weighed.repairs = repairs
  <2> HIDE DEF repairs
  <2> QED
    BY DEF Catalog, Fields
<1> HIDE DEF weighed, new, gone, repairs, RowFor
<1>6. /\ DOMAIN kept = Fields
      /\ kept.rows = [i \in DOMAIN c.rows \ gone |-> c.rows[i]]
      /\ kept.ratings = [i \in DOMAIN c.ratings \ gone |-> c.ratings[i]]
      /\ kept.albums = c.albums /\ kept.profiled = c.profiled /\ kept.repairs = repairs
  BY <1>5, WithoutDoes
<1> HIDE DEF kept
<1>7. added \subseteq Nat /\ \A i \in added : i > last
  BY <1>2, <1>3, NewIdsAreHigher
<1>8. \A p \in new : IdAfter(last, p, new) \in added
                    /\ (CHOOSE q \in new : IdAfter(last, q, new) = IdAfter(last, p, new)) = p
  BY <1>2, <1>3, NewIdsDiffer
<1>9. \A i \in added : (CHOOSE q \in new : IdAfter(last, q, new) = i) \in new
  OBVIOUS
<1> HIDE DEF added
<1>10. \A i \in DOMAIN kept.rows : i \notin added
  BY <1>2, <1>6, <1>7
<1>11. /\ DOMAIN rows = (DOMAIN c.rows \ gone) \cup added
       /\ \A i \in DOMAIN c.rows \ gone :
            rows[i] = IF c.rows[i].album = f THEN RowFor(c.rows[i].path) ELSE c.rows[i]
       /\ \A i \in added : rows[i] = RowFor(CHOOSE p \in new : IdAfter(last, p, new) = i)
  BY <1>6, <1>10
<1> HIDE DEF rows
<1>12. \A i \in added : \E p \in files : rows[i] = RowFor(p)
  BY <1>3, <1>9, <1>11
<1>13. \A p \in files : \E i \in DOMAIN rows : rows[i] = RowFor(p)
  <2>1. ASSUME NEW p \in new PROVE \E i \in DOMAIN rows : rows[i] = RowFor(p)
    <3> DEFINE i == IdAfter(last, p, new)
    <3>1. i \in added /\ (CHOOSE q \in new : IdAfter(last, q, new) = i) = p
      BY <1>8
    <3> HIDE DEF i, RowFor
    <3> QED
      BY <1>11, <3>1
  <2>2. \A p \in files \ new : \E i \in DOMAIN rows : rows[i] = RowFor(p)
    BY <1>4, <1>11
  <2> QED
    BY <2>1, <2>2
<1> HIDE DEF albums
<1>14. /\ DOMAIN s = Fields /\ s.rows = rows /\ s.albums = albums /\ s.ratings = kept.ratings
       /\ s.profiled = kept.profiled /\ s.repairs = kept.repairs
  BY <1>1, <1>6 DEF Fields
<1>15. albums = [g \in DOMAIN c.albums \cup {f} |-> IF g = f THEN TallyOf(files) ELSE c.albums[g]]
  BY <1>6 DEF albums
<1> HIDE DEF s
<1>16. \A i \in DOMAIN s.rows :
         \/ i \in DOMAIN c.rows \ gone
         \/ i \in Nat /\ i > last /\ \E p \in files : s.rows[i] = RowFor(p)
  BY <1>7, <1>11, <1>12, <1>14
<1> QED
  BY <1>6, <1>11, <1>13, <1>14, <1>15, <1>16 DEF s, gone, repairs, RowFor, Synced

\* After it the rows of the album are its files; those of others are the same.
LEMMA SyncedPaths ==
  ASSUME NEW s, NEW c, NEW f, NEW files, NEW last, Synced(s, c, f, files, last)
  PROVE  /\ PathsOf(s, f) = files
         /\ \A g : g # f => PathsOf(s, g) = PathsOf(c, g)
<1> DEFINE gone == Unseen(c, f, files)
<1>1. /\ \A i \in gone : c.rows[i].album = f
      /\ \A i \in DOMAIN c.rows \ gone : c.rows[i].album = f => c.rows[i].path \in files
  BY DEF Unseen, RowsOf
<1>2. \A p : RowOf(c, f, files, p).path = p /\ RowOf(c, f, files, p).album = f
  BY DEF RowOf
<1> HIDE DEF gone
<1>3. /\ \A i \in DOMAIN c.rows \ gone :
           /\ i \in DOMAIN s.rows
           /\ s.rows[i] = IF c.rows[i].album = f THEN RowOf(c, f, files, c.rows[i].path) ELSE c.rows[i]
      /\ \A i \in DOMAIN s.rows :
           i \in DOMAIN c.rows \ gone \/ \E p \in files : s.rows[i] = RowOf(c, f, files, p)
      /\ \A p \in files : \E i \in DOMAIN s.rows : s.rows[i] = RowOf(c, f, files, p)
  BY DEF Synced, gone
<1>4. PathsOf(s, f) \subseteq files
  BY <1>1, <1>2, <1>3 DEF PathsOf, RowsOf
<1>5. files \subseteq PathsOf(s, f)
  BY <1>2, <1>3 DEF PathsOf, RowsOf
<1>6. ASSUME NEW g, g # f PROVE RowsOf(s, g) = RowsOf(c, g) /\ \A i \in RowsOf(c, g) : s.rows[i] = c.rows[i]
  <2>1. \A i \in RowsOf(c, g) : i \in RowsOf(s, g) /\ s.rows[i] = c.rows[i]
    BY <1>1, <1>3, <1>6 DEF RowsOf
  <2>2. \A i \in RowsOf(s, g) : i \in RowsOf(c, g)
    BY <1>2, <1>3, <1>6 DEF RowsOf
  <2> QED
    BY <2>1, <2>2
<1>7. ASSUME NEW g, g # f PROVE PathsOf(s, g) = PathsOf(c, g)
  BY <1>6, <1>7 DEF PathsOf
<1> QED
  BY <1>4, <1>5, <1>7

LEMMA SyncKeeps ==
  ASSUME disk \in [Paths -> Songs \cup {NoFile}],
         NEW c, Catalog(c), NEW f \in Folders, NEW files \in SUBSET Paths,
         \A p \in files : disk[p] # NoFile, ~Fails(c, f, files),
         NEW last \in {0} \cup DOMAIN c.rows, NEW s, Synced(s, c, f, files, last)
  PROVE  Catalog(s)
<1> DEFINE gone == Unseen(c, f, files)
<1>1. /\ DOMAIN s = Fields
      /\ s.repairs = Weighed(c, files) /\ s.profiled = c.profiled
      /\ s.albums = [g \in DOMAIN c.albums \cup {f} |->
                      IF g = f THEN TallyOf(files) ELSE c.albums[g]]
      /\ s.ratings = [i \in DOMAIN c.ratings \ gone |-> c.ratings[i]]
  BY DEF Synced
<1>2. /\ \A i \in DOMAIN c.rows \ gone :
           /\ i \in DOMAIN s.rows
           /\ s.rows[i] = IF c.rows[i].album = f THEN RowOf(c, f, files, c.rows[i].path) ELSE c.rows[i]
      /\ \A i \in DOMAIN s.rows :
           \/ i \in DOMAIN c.rows \ gone
           \/ i \in Nat /\ i > last /\ \E p \in files : s.rows[i] = RowOf(c, f, files, p)
  BY DEF Synced
<1> HIDE DEF gone
<1>3. s.repairs \in [Paths -> Verdict \cup {Unweighed}]
  BY <1>1, WeighedDoes DEF Catalog, CatalogOK
<1>4. \A p \in Paths : RowOf(c, f, files, p) \in Row
  <2>1. \A p \in Paths : Shows(Weighed(c, files)[p]) \in Names
    BY <1>1, <1>3, ShowsAName
  <2> QED
    BY <2>1 DEF RowOf, Row
<1>5. last \in Nat /\ DOMAIN c.rows \subseteq Nat \ {0} /\ \A i \in DOMAIN c.rows : c.rows[i] \in Row
  BY DEF Catalog, CatalogOK
<1>6. DOMAIN s.rows \subseteq Nat \ {0} /\ \A i \in DOMAIN s.rows : s.rows[i] \in Row
  <2>1. \A i \in DOMAIN c.rows \ gone : s.rows[i] \in Row
    <3>1. \A i \in DOMAIN c.rows : c.rows[i].path \in Paths
      BY <1>5 DEF Row
    <3> QED
      BY <1>2, <1>4, <1>5, <3>1
  <2>2. \A i \in DOMAIN s.rows : i \in Nat \ {0} /\ s.rows[i] \in Row
    BY <1>2, <1>4, <1>5, <2>1
  <2> QED
    BY <2>2
<1>7. DOMAIN s.albums \subseteq Folders /\ \A g \in DOMAIN s.albums : s.albums[g] \in Tally
  <2>1. TallyOf(files) \in Tally
    <3>1. files \in SUBSET {p \in Paths : disk[p] # NoFile}
      OBVIOUS
    <3> QED
      BY <3>1 DEF TallyOf, Tally
  <2> QED
    BY <1>1, <2>1 DEF Catalog, CatalogOK
<1>8. \A i \in DOMAIN s.ratings : s.ratings[i] \in Paths /\ i \in DOMAIN s.rows /\ s.rows[i].path = s.ratings[i]
  <2>1. \A i \in DOMAIN c.rows \ gone : s.rows[i].path = c.rows[i].path
    <3>1. \A p : RowOf(c, f, files, p).path = p
      BY DEF RowOf
    <3> QED
      BY <1>2, <3>1
  <2> QED
    BY <1>1, <1>2, <2>1 DEF Catalog, CatalogOK
<1>9. s.profiled \subseteq DOMAIN s.rows
  <2>1. gone \cap c.profiled = {} /\ c.profiled \subseteq DOMAIN c.rows
    BY DEF Fails, gone, Catalog, CatalogOK
  <2> QED
    BY <1>1, <1>2, <2>1
<1>10. \A g \in DOMAIN s.albums : s.albums[g].count = Cardinality(PathsOf(s, g))
  <2>1. s.albums[f].count = Cardinality(PathsOf(s, f))
    BY <1>1, SyncedPaths DEF TallyOf, TallyIn
  <2>2. \A g \in DOMAIN c.albums \ {f} : s.albums[g].count = Cardinality(PathsOf(s, g))
    BY <1>1, SyncedPaths DEF Catalog
  <2> QED
    BY <1>1, <2>1, <2>2
<1> QED
  BY <1>1, <1>3, <1>6, <1>7, <1>8, <1>9, <1>10 DEF Catalog, CatalogOK

-----------------------------------------------------------------------------
(* Deleting albums *)

\* Without the albums gone: their rows go, with the ratings.
LEMMA SweptDoes ==
  ASSUME NEW c, Catalog(c), NEW gone, NEW s, s = WithoutAlbums(c, gone)
  PROVE  /\ DOMAIN s = Fields /\ s.repairs = c.repairs /\ s.profiled = c.profiled
         /\ DOMAIN s.albums = DOMAIN c.albums \ gone
         /\ DOMAIN s.rows = {i \in DOMAIN c.rows : c.rows[i].album \notin gone}
         /\ DOMAIN s.ratings = {i \in DOMAIN c.ratings : c.rows[i].album \notin gone}
         /\ \A f \in DOMAIN s.albums : s.albums[f] = c.albums[f]
         /\ \A i \in DOMAIN s.rows : s.rows[i] = c.rows[i]
         /\ \A i \in DOMAIN s.ratings : s.ratings[i] = c.ratings[i]
<1> DEFINE ids == UNION {RowsOf(c, f) : f \in gone}
           w == Without(c, ids)
<1>1. DOMAIN c = Fields /\ DOMAIN c.ratings \subseteq DOMAIN c.rows
  BY DEF Catalog
<1>2. ids = {j \in DOMAIN c.rows : c.rows[j].album \in gone}
  BY DEF RowsOf
<1>3. s = [w EXCEPT !.albums = [f \in DOMAIN w.albums \ gone |-> w.albums[f]]]
  BY DEF WithoutAlbums
<1> HIDE DEF ids
<1>4. /\ DOMAIN w = Fields /\ w.albums = c.albums /\ w.repairs = c.repairs /\ w.profiled = c.profiled
      /\ w.rows = [i \in DOMAIN c.rows \ ids |-> c.rows[i]]
      /\ w.ratings = [i \in DOMAIN c.ratings \ ids |-> c.ratings[i]]
  BY <1>1, WithoutDoes
<1>5. /\ DOMAIN c.rows \ ids = {j \in DOMAIN c.rows : c.rows[j].album \notin gone}
      /\ DOMAIN c.ratings \ ids = {j \in DOMAIN c.ratings : c.rows[j].album \notin gone}
  BY <1>1, <1>2
<1> HIDE DEF w
<1>6. /\ DOMAIN s = Fields /\ s.repairs = w.repairs /\ s.profiled = w.profiled
      /\ s.rows = w.rows /\ s.ratings = w.ratings
      /\ s.albums = [f \in DOMAIN w.albums \ gone |-> w.albums[f]]
  BY <1>3, <1>4 DEF Fields
<1> QED
  BY <1>4, <1>5, <1>6

\* The rows of the albums that stay are the same.
LEMMA SweptPaths ==
  ASSUME NEW c, Catalog(c), NEW gone, NEW s, s = WithoutAlbums(c, gone)
  PROVE  \A g : g \notin gone => PathsOf(s, g) = PathsOf(c, g)
<1>1. /\ DOMAIN s.rows = {i \in DOMAIN c.rows : c.rows[i].album \notin gone}
      /\ \A i \in DOMAIN s.rows : s.rows[i] = c.rows[i]
  BY SweptDoes
<1>2. ASSUME NEW g, g \notin gone
      PROVE  RowsOf(s, g) = RowsOf(c, g) /\ \A i \in RowsOf(c, g) : s.rows[i] = c.rows[i]
  BY <1>1, <1>2 DEF RowsOf
<1>3. ASSUME NEW g, g \notin gone PROVE PathsOf(s, g) = PathsOf(c, g)
  BY <1>2, <1>3 DEF PathsOf
<1> QED
  BY <1>3

LEMMA SweptKeeps ==
  ASSUME NEW c, Catalog(c), NEW gone, \A f \in gone : RowsOf(c, f) \cap c.profiled = {},
         NEW s, s = WithoutAlbums(c, gone)
  PROVE  Catalog(s)
<1>1. /\ DOMAIN s = Fields /\ s.repairs = c.repairs /\ s.profiled = c.profiled
      /\ DOMAIN s.albums = DOMAIN c.albums \ gone
      /\ DOMAIN s.rows = {i \in DOMAIN c.rows : c.rows[i].album \notin gone}
      /\ DOMAIN s.ratings = {i \in DOMAIN c.ratings : c.rows[i].album \notin gone}
      /\ \A f \in DOMAIN s.albums : s.albums[f] = c.albums[f]
      /\ \A i \in DOMAIN s.rows : s.rows[i] = c.rows[i]
      /\ \A i \in DOMAIN s.ratings : s.ratings[i] = c.ratings[i]
  BY SweptDoes
<1>2. \A g \in DOMAIN c.albums \ gone : PathsOf(s, g) = PathsOf(c, g)
  BY SweptPaths
<1>3. s.profiled \subseteq DOMAIN s.rows
  <2>1. \A i \in c.profiled : i \in DOMAIN c.rows /\ c.rows[i].album \notin gone
    BY DEF RowsOf, Catalog, CatalogOK
  <2> QED
    BY <1>1, <2>1
<1>4. /\ DOMAIN s.rows \subseteq Nat \ {0} /\ \A i \in DOMAIN s.rows : s.rows[i] \in Row
      /\ DOMAIN s.albums \subseteq Folders /\ \A f \in DOMAIN s.albums : s.albums[f] \in Tally
      /\ s.repairs \in [Paths -> Verdict \cup {Unweighed}]
      /\ \A i \in DOMAIN s.ratings : s.ratings[i] \in Paths
  BY <1>1 DEF Catalog, CatalogOK
<1>5. \A i \in DOMAIN s.ratings : i \in DOMAIN s.rows /\ s.rows[i].path = s.ratings[i]
  BY <1>1 DEF Catalog
<1>6. \A f \in DOMAIN s.albums : s.albums[f].count = Cardinality(PathsOf(s, f))
  BY <1>1, <1>2 DEF Catalog
<1> QED
  BY <1>1, <1>3, <1>4, <1>5, <1>6 DEF Catalog, CatalogOK

-----------------------------------------------------------------------------
(* What the steps do *)

\* The scan is over, committed or rolled back.
Ends == scan' = NotScanning /\ work' = db'

\* The scan goes on behind the folder at the head of the walk.
Advances(found, claimed, touched) ==
  /\ scan'.pc = scan.pc /\ scan'.root = scan.root /\ scan'.sweeps = scan.sweeps
  /\ scan'.roots = scan.roots /\ scan'.walk = Tail(scan.walk)
  /\ scan'.found = found /\ scan'.claimed = claimed /\ scan'.touched = touched

Skips(f) ==
  /\ f \in scan.claimed \/ Holds(f) = {}
  /\ Advances(scan.found, scan.claimed, scan.touched)
  /\ work' = work

Reads(f, unreadable) ==
  LET files == Holds(f) \ unreadable IN
  /\ f \notin scan.claimed /\ Holds(f) # {}
  /\ Advances(scan.found \cup {f}, scan.claimed \cup Claims(f), scan.touched \cup unreadable)
  /\ \/ work' = work /\ (files = {} \/ UpToDate(work, f, files))
     \/ /\ ~Fails(work, f, files)
        /\ \E last \in {0} \cup DOMAIN work.rows :
             IsLastId(work, last) /\ Synced(work', work, f, files, last)

\* Everything of the scan is as it was, but that more paths have been touched.
Touches ==
  /\ scan'.pc = scan.pc /\ scan'.root = scan.root /\ scan'.sweeps = scan.sweeps
  /\ scan'.roots = scan.roots /\ scan'.walk = scan.walk
  /\ scan'.found = scan.found /\ scan'.claimed = scan.claimed
  /\ scan.touched \subseteq scan'.touched
  /\ scan.pc = "idle" => scan' = scan

\* Somebody changed files or pulled a drive.
Disturbs ==
  /\ db' = db /\ work' = work /\ Touches
  /\ scan.pc # "idle" =>
       /\ \A p \in Paths : disk'[p] = disk[p] \/ p \in scan'.touched
       /\ \A p \in Paths : (RootOf(Home[p]) \in plugged' <=> RootOf(Home[p]) \in plugged)
                           \/ p \in scan'.touched
       /\ \A r \in plugged \ plugged' : \A p \in Paths : RootOf(Home[p]) = r => p \in scan'.touched

\* Somebody else wrote to the catalogue, which the scan had not begun to.
Written ==
  /\ work = db /\ work' = db' /\ disk' = disk /\ plugged' = plugged /\ Touches
  /\ db'.rows = db.rows
  /\ scan.pc # "idle" => \A p \in Paths : db'.repairs[p] = db.repairs[p] \/ p \in scan'.touched

LEMMA HoldsPaths ==
  ASSUME disk \in [Paths -> Songs \cup {NoFile}], NEW f
  PROVE  /\ Holds(f) \subseteq Paths
         /\ \A p \in Holds(f) : disk[p] # NoFile
         /\ Holds(f) # {} => f \in Folders
         /\ Claims(f) \subseteq Discs(f)
<1>1. \A g : Listing(g) \subseteq Paths /\ \A p \in Listing(g) : disk[p] # NoFile /\ Home[p] = g
  BY DEF Listing
<1>2. \A d \in Discs(f) : d \in DOMAIN DiscOf /\ DiscOf[d] = f
  BY DEF Discs
<1> QED
  BY <1>1, <1>2 DEF Holds, Claims, Folders

LEMMA VisitDoes ==
  ASSUME Types, VisitFolder
  PROVE  /\ disk' = disk /\ plugged' = plugged /\ db' = db /\ events' \in 0..MaxEvents
         /\ scan.pc = "walk" /\ scan.walk # <<>> /\ scan' \in Scan
         /\ \/ Ends
            \/ Skips(Head(scan.walk))
            \/ \E unreadable \in SUBSET Holds(Head(scan.walk)) : Reads(Head(scan.walk), unreadable)
<1> DEFINE f == Head(scan.walk)
           next == [scan EXCEPT !.walk = Tail(@)]
<1>1. /\ disk' = disk /\ plugged' = plugged /\ db' = db
      /\ scan.pc = "walk" /\ scan.walk # <<>> /\ scan \in Scan
  BY DEF VisitFolder, Types
<1>2. Holds(f) \subseteq Paths /\ (Holds(f) # {} => f \in Folders) /\ Claims(f) \subseteq DOMAIN DiscOf
  BY HoldsPaths DEF Types, Discs
<1>3. /\ next \in Scan /\ next.walk = Tail(scan.walk) /\ next.pc = scan.pc /\ next.root = scan.root
      /\ next.sweeps = scan.sweeps /\ next.roots = scan.roots /\ next.found = scan.found
      /\ next.claimed = scan.claimed /\ next.touched = scan.touched
  <2>1. scan.walk \in Seq(Everywhere)
    BY <1>1 DEF Scan
  <2>2. Tail(scan.walk) \in Seq(Everywhere)
    BY <1>1, <2>1
  <2> QED
    BY <1>1, <2>2 DEF Scan
<1>4. VisitFolder =>
        IF f \in scan.claimed \/ Holds(f) = {}
        THEN scan' = next /\ work' = work /\ events' = events
        ELSE \E unreadable \in SUBSET Holds(f) :
               LET files == Holds(f) \ unreadable IN
               /\ events' = events + Cardinality(unreadable) /\ events' <= MaxEvents
               /\ \/ Abort
                  \/ /\ scan' = [next EXCEPT !.found = @ \cup {f}, !.claimed = @ \cup Claims(f),
                                            !.touched = @ \cup unreadable]
                     /\ \/ work' = work /\ (files = {} \/ UpToDate(work, f, files))
                        \/ /\ ~Fails(work, f, files)
                           /\ \E last \in {0} \cup DOMAIN work.rows :
                                IsLastId(work, last) /\ work' = Sync(work, f, files, last)
  BY DEF VisitFolder
<1> HIDE DEF f, next
<1>5. CASE f \in scan.claimed \/ Holds(f) = {}
  BY <1>1, <1>3, <1>4, <1>5 DEF Skips, Advances, Types, f
<1>6. CASE ~(f \in scan.claimed \/ Holds(f) = {})
  <2>1. PICK unreadable \in SUBSET Holds(f) :
          /\ events' = events + Cardinality(unreadable) /\ events' <= MaxEvents
          /\ \/ Abort
             \/ /\ scan' = [next EXCEPT !.found = @ \cup {f}, !.claimed = @ \cup Claims(f),
                                       !.touched = @ \cup unreadable]
                /\ \/ work' = work /\ (Holds(f) \ unreadable = {} \/ UpToDate(work, f, Holds(f) \ unreadable))
                   \/ /\ ~Fails(work, f, Holds(f) \ unreadable)
                      /\ \E last \in {0} \cup DOMAIN work.rows :
                           IsLastId(work, last) /\ work' = Sync(work, f, Holds(f) \ unreadable, last)
    BY <1>4, <1>6
  <2>2. events' \in 0..MaxEvents
    <3>1. IsFiniteSet(unreadable)
      BY <1>2, CatalogAssumption, FS_Subset
    <3> QED
      BY <2>1, <3>1, FS_CardinalityType, CatalogAssumption DEF Types
  <2>3. CASE Abort
    <3>1. NotScanning \in Scan
      BY DEF NotScanning, Scan
    <3> QED
      BY <1>1, <2>2, <2>3, <3>1 DEF Abort, Ends
  <2>4. CASE ~Abort
    <3>1. scan' \in Scan /\ Advances(scan.found \cup {f}, scan.claimed \cup Claims(f),
                                     scan.touched \cup unreadable)
      <4>1. scan' = [next EXCEPT !.found = @ \cup {f}, !.claimed = @ \cup Claims(f),
                                 !.touched = @ \cup unreadable]
        BY <2>1, <2>4
      <4> QED
        BY <1>2, <1>3, <1>6, <4>1 DEF Scan, Advances
    <3>2. \A last \in {0} \cup DOMAIN work.rows :
            IsLastId(work, last) => Synced(Sync(work, f, Holds(f) \ unreadable, last), work, f,
                                           Holds(f) \ unreadable, last)
      <4>1. Holds(f) \ unreadable \in SUBSET Paths
        BY <1>2
      <4> QED
        BY <4>1, SyncDoes DEF Types
    <3>3. Reads(f, unreadable)
      BY <1>6, <2>1, <2>4, <3>1, <3>2 DEF Reads
    <3> QED
      BY <1>1, <2>2, <3>1, <3>3 DEF f
  <2> QED
    BY <2>3, <2>4
<1> QED
  BY <1>5, <1>6

LEMMA TouchDoes ==
  ASSUME scan \in Scan, NEW paths \in SUBSET Paths, Touch(paths)
  PROVE  /\ Touches /\ scan' \in Scan
         /\ scan.pc # "idle" => scan'.touched = scan.touched \cup paths
<1>1. CASE scan.pc = "idle"
  BY <1>1 DEF Touch, Touches
<1>2. CASE scan.pc # "idle"
  BY <1>2 DEF Touch, Touches, Scan
<1> QED
  BY <1>1, <1>2

LEMMA FileChangesDo ==
  ASSUME Types, NEW p \in Paths, NEW s \in Songs \cup {NoFile}, FileChanges(p, s)
  PROVE  Disturbs /\ Types'
<1>1. Touches /\ scan' \in Scan /\ (scan.pc # "idle" => scan'.touched = scan.touched \cup {p})
  BY TouchDoes DEF Types, FileChanges
<1>2. disk' = [disk EXCEPT ![p] = s] /\ plugged' = plugged /\ db' = db /\ work' = work
  BY DEF FileChanges
<1>3. Types'
  BY <1>1, <1>2, CatalogAssumption DEF Types, FileChanges, Happens
<1> QED
  BY <1>1, <1>2, <1>3 DEF Disturbs, Types

LEMMA FileMovesDo ==
  ASSUME Types, NEW p \in Paths, NEW q \in Paths, FileMoves(p, q)
  PROVE  Disturbs /\ Types'
<1>1. Touches /\ scan' \in Scan /\ (scan.pc # "idle" => scan'.touched = scan.touched \cup {p, q})
  BY TouchDoes DEF Types, FileMoves
<1>2. /\ disk' = [disk EXCEPT ![p] = NoFile, ![q] = disk[p]]
      /\ plugged' = plugged /\ db' = db /\ work' = work
  BY DEF FileMoves
<1>3. Types'
  BY <1>1, <1>2, CatalogAssumption DEF Types, FileMoves, Happens
<1> QED
  BY <1>1, <1>2, <1>3 DEF Disturbs, Types

LEMMA DriveChangesDo ==
  ASSUME Types, NEW r \in DOMAIN WalkOf, DriveChanges(r)
  PROVE  Disturbs /\ Types'
<1> DEFINE there == {p \in Paths : RootOf(Home[p]) = r}
<1>1. Touches /\ scan' \in Scan /\ (scan.pc # "idle" => scan'.touched = scan.touched \cup there)
  BY TouchDoes DEF Types, DriveChanges
<1>2. /\ disk' = disk /\ db' = db /\ work' = work
      /\ plugged' = IF r \in plugged THEN plugged \ {r} ELSE plugged \cup {r}
  BY DEF DriveChanges
<1>3. Types'
  BY <1>1, <1>2, CatalogAssumption DEF Types, DriveChanges, Happens
<1> QED
  BY <1>1, <1>2, <1>3 DEF Disturbs, Types

\* Another session's change to the catalogue, and what it keeps.
LEMMA RateDoes ==
  ASSUME Types, NEW i \in DOMAIN db.rows, Rate(i)
  PROVE  Written /\ Types'
<1> DEFINE ratings == [j \in DOMAIN db.ratings \cup {i} |->
                         IF j = i THEN db.rows[i].path ELSE db.ratings[j]]
<1>1. /\ db' = [db EXCEPT !.ratings = ratings] /\ work = db /\ work' = db'
      /\ disk' = disk /\ plugged' = plugged /\ scan' = scan
  BY DEF Rate, Writes
<1>2. /\ DOMAIN ratings = DOMAIN db.ratings \cup {i}
      /\ \A j \in DOMAIN ratings : ratings[j] = IF j = i THEN db.rows[i].path ELSE db.ratings[j]
  OBVIOUS
<1> HIDE DEF ratings
<1>3. /\ DOMAIN db' = Fields /\ db'.rows = db.rows /\ db'.ratings = ratings /\ db'.albums = db.albums
      /\ db'.profiled = db.profiled /\ db'.repairs = db.repairs
  BY <1>1 DEF Types, Catalog, Fields
<1>4. \A j \in DOMAIN ratings : /\ j \in DOMAIN db.rows /\ ratings[j] = db.rows[j].path
                                /\ ratings[j] \in Paths
  <2>1. \A j \in DOMAIN db.rows : db.rows[j].path \in Paths
    BY DEF Types, Catalog, CatalogOK, Row
  <2> QED
    BY <1>2, <2>1 DEF Types, Catalog, CatalogOK
<1>5. Catalog(db')
  BY <1>3, <1>4 DEF Types, Catalog, CatalogOK, PathsOf, RowsOf
<1>6. Types'
  BY <1>1, <1>5, CatalogAssumption DEF Types, Rate, Writes, Happens
<1> QED
  BY <1>1, <1>3, <1>6 DEF Written, Touches

LEMMA MeasureDoes ==
  ASSUME Types, NEW i \in DOMAIN db.rows, Measure(i)
  PROVE  Written /\ Types'
<1>1. /\ db' = [db EXCEPT !.profiled = @ \cup {i}] /\ work = db /\ work' = db'
      /\ disk' = disk /\ plugged' = plugged /\ scan' = scan
  BY DEF Measure, Writes
<1>2. /\ DOMAIN db' = Fields /\ db'.rows = db.rows /\ db'.ratings = db.ratings /\ db'.albums = db.albums
      /\ db'.profiled = db.profiled \cup {i} /\ db'.repairs = db.repairs
  BY <1>1 DEF Types, Catalog, Fields
<1>3. Catalog(db')
  BY <1>2 DEF Types, Catalog, CatalogOK, PathsOf, RowsOf
<1>4. Types'
  BY <1>1, <1>3, CatalogAssumption DEF Types, Measure, Writes, Happens
<1> QED
  BY <1>1, <1>2, <1>4 DEF Written, Touches

LEMMA TellDoes ==
  ASSUME Types, NEW p \in Paths, Tell(p)
  PROVE  Written /\ Types'
<1> DEFINE told == [status |-> "applied", says |-> Told]
<1>1. /\ db' = [db EXCEPT !.repairs = [@ EXCEPT ![p] = told]] /\ work = db /\ work' = db'
      /\ disk' = disk /\ plugged' = plugged
  BY DEF Tell, Writes
<1>2. told \in Verdict
  BY DEF Verdict, Names
<1> HIDE DEF told
<1>3. /\ DOMAIN db' = Fields /\ db'.rows = db.rows /\ db'.ratings = db.ratings /\ db'.albums = db.albums
      /\ db'.profiled = db.profiled /\ db'.repairs = [db.repairs EXCEPT ![p] = told]
  BY <1>1 DEF Types, Catalog, Fields
<1>4. /\ db'.repairs \in [Paths -> Verdict \cup {Unweighed}]
      /\ \A q \in Paths : q # p => db'.repairs[q] = db.repairs[q]
  BY <1>2, <1>3 DEF Types, Catalog, CatalogOK
<1>5. Catalog(db')
  BY <1>3, <1>4 DEF Types, Catalog, CatalogOK, PathsOf, RowsOf
<1>6. Touches /\ scan' \in Scan /\ (scan.pc # "idle" => scan'.touched = scan.touched \cup {p})
  BY TouchDoes DEF Types, Tell
<1>7. Types'
  BY <1>1, <1>5, <1>6, CatalogAssumption DEF Types, Tell, Writes, Happens
<1> QED
  BY <1>1, <1>3, <1>4, <1>6, <1>7 DEF Written

-----------------------------------------------------------------------------
(* Where the scan is *)

\* The folders that the walk has not come to yet.
Ahead == {scan.walk[j] : j \in DOMAIN scan.walk}

\* The walk is what is left of w from its k-th folder on.
Rest(w, k) ==
  /\ k \in 1..(Len(w) + 1) /\ Len(scan.walk) = Len(w) + 1 - k
  /\ \A j \in 1..Len(scan.walk) : scan.walk[j] = w[j + k - 1]

Position ==
  /\ scan.pc = "idle" => scan = NotScanning /\ work = db
  /\ scan.pc # "walk" => scan.walk = <<>>
  /\ scan.pc = "root" => \A k \in DOMAIN Roots : k >= scan.root => Roots[k] \notin scan.roots
  /\ scan.pc = "walk" =>
       /\ scan.root \in DOMAIN Roots /\ Roots[scan.root] \in scan.roots
       /\ \A k \in DOMAIN Roots : k > scan.root => Roots[k] \notin scan.roots
       /\ \E k \in Nat : Rest(WalkOf[Roots[scan.root]], k)

\* What was found lies behind, under the roots that were walked; a disc is
\* claimed by a folder that was found, and lies behind that.
Passed ==
  /\ \A f \in scan.found : f \notin Ahead /\ RootOf(f) \in scan.roots /\ f \in Walked(RootOf(f))
  /\ \A d \in scan.claimed : DiscOf[d] \in scan.found
  /\ \A d \in scan.found \cap DOMAIN DiscOf : DiscOf[d] \notin Ahead

\* The scan need not have met the file: it is not there, or was disturbed.
Absent(p) == p \in scan.touched \/ disk[p] = NoFile

\* The drive of a root that was walked is there, or its files were disturbed.
Pulled == \A r \in scan.roots \ plugged : \A p \in Paths : RootOf(Home[p]) = r => p \in scan.touched

\* The folder of each file that lies behind was found, or claimed as a disc.
Met ==
  \A p \in Paths : RootOf(Home[p]) \in scan.roots /\ Home[p] \notin Ahead =>
    Home[p] \in scan.found \cup scan.claimed \/ Absent(p)

Order == Position /\ Passed /\ Pulled /\ Met

LEMMA RootOfWalked ==
  ASSUME NEW r \in DOMAIN WalkOf, NEW f \in Walked(r)
  PROVE  RootOf(f) = r
<1>1. \A q \in DOMAIN WalkOf : f \in Walked(q) => q = r
  BY LibraryAssumption DEF Walked
<1> QED
  BY <1>1 DEF RootOf

LEMMA HomeIsWalked ==
  ASSUME NEW p \in Paths
  PROVE  RootOf(Home[p]) \in DOMAIN WalkOf /\ Home[p] \in Walked(RootOf(Home[p]))
<1>1. PICK r \in DOMAIN WalkOf : Home[p] \in Walked(r)
  BY LibraryAssumption
<1> QED
  BY <1>1, RootOfWalked

\* The folder at the head of the walk: it is under the root that is walked, is
\* not met again, and the folder it may be a disc of is behind it.
LEMMA HeadOfWalk ==
  ASSUME scan \in Scan, Position, scan.pc = "walk", scan.walk # <<>>,
         NEW f, f = Head(scan.walk), NEW rest, rest = Tail(scan.walk)
  PROVE  /\ f \in Ahead /\ RootOf(f) \in scan.roots /\ f \in Walked(RootOf(f))
         /\ {rest[j] : j \in DOMAIN rest} = Ahead \ {f}
         /\ f \in DOMAIN DiscOf => DiscOf[f] \notin Ahead
         /\ \E k \in Nat : LET w == WalkOf[Roots[scan.root]] IN
              /\ k \in 1..(Len(w) + 1) /\ Len(rest) = Len(w) + 1 - k
              /\ \A j \in 1..Len(rest) : rest[j] = w[j + k - 1]
<1> DEFINE r == Roots[scan.root]
           w == WalkOf[r]
<1>1. r \in DOMAIN WalkOf /\ r \in scan.roots /\ w \in Seq(Walked(r))
  BY LibraryAssumption DEF Position
<1>2. PICK k \in Nat : Rest(w, k)
  BY DEF Position
<1>3. scan.walk \in Seq(Everywhere)
  BY DEF Scan
<1>4. Len(w) \in Nat /\ DOMAIN w = 1..Len(w)
  BY <1>1
<1>7. /\ \A i, j \in DOMAIN w : w[i] = w[j] => i = j
      /\ \A j \in DOMAIN w : w[j] \in Walked(r)
      /\ \A j \in DOMAIN w : w[j] \in DOMAIN DiscOf => \E i \in 1..(j - 1) : w[i] = DiscOf[w[j]]
  BY <1>1, LibraryAssumption DEF Walked
<1> HIDE DEF w, r
<1>5. /\ Len(scan.walk) \in Nat /\ DOMAIN scan.walk = 1..Len(scan.walk) /\ Len(scan.walk) >= 1
      /\ Len(rest) = Len(scan.walk) - 1 /\ DOMAIN rest = 1..Len(rest)
      /\ f = scan.walk[1] /\ \A j \in 1..Len(rest) : rest[j] = scan.walk[j + 1]
  BY <1>3
<1>6. k \in 1..Len(w) /\ f = w[k] /\ f \in Walked(r)
  BY <1>2, <1>4, <1>5, <1>7 DEF Rest
<1>8. \A j \in 1..Len(scan.walk) : scan.walk[j] = w[j + k - 1] /\ j + k - 1 \in DOMAIN w
  <2>1. Len(scan.walk) = Len(w) + 1 - k /\ \A j \in 1..Len(scan.walk) : scan.walk[j] = w[j + k - 1]
    BY <1>2 DEF Rest
  <2>2. ASSUME NEW j \in 1..Len(scan.walk) PROVE j + k - 1 \in 1..Len(w)
    BY <1>4, <1>6, <2>1
  <2> QED
    BY <1>4, <2>1, <2>2
<1>9. {rest[j] : j \in DOMAIN rest} = Ahead \ {f}
  <2>1. ASSUME NEW j \in 2..Len(scan.walk) PROVE scan.walk[j] # f
    <3>1. j \in 1..Len(scan.walk) /\ j + k - 1 # k /\ k \in DOMAIN w
      BY <1>4, <1>5, <1>6
    <3>2. scan.walk[j] = w[j + k - 1] /\ j + k - 1 \in DOMAIN w
      BY <1>8, <3>1
    <3> QED
      BY <1>6, <1>7, <3>1, <3>2
  <2>2. ASSUME NEW j \in DOMAIN rest PROVE rest[j] \in Ahead \ {f}
    <3>1. j + 1 \in 2..Len(scan.walk)
      BY <1>5
    <3> QED
      BY <1>5, <2>1, <3>1 DEF Ahead
  <2>3. ASSUME NEW g \in Ahead \ {f} PROVE \E j \in DOMAIN rest : g = rest[j]
    <3>1. PICK i \in 1..Len(scan.walk) : g = scan.walk[i]
      BY <1>5 DEF Ahead
    <3>2. i - 1 \in DOMAIN rest /\ rest[i - 1] = g
      BY <1>5, <3>1
    <3> QED
      BY <3>2
  <2> QED
    BY <2>2, <2>3
<1>10. f \in DOMAIN DiscOf => DiscOf[f] \notin Ahead
  <2> SUFFICES ASSUME f \in DOMAIN DiscOf, DiscOf[f] \in Ahead PROVE FALSE
    OBVIOUS
  <2>1. PICK i \in 1..(k - 1) : w[i] = DiscOf[f]
    BY <1>4, <1>6, <1>7
  <2>2. PICK j \in 1..Len(scan.walk) : scan.walk[j] = DiscOf[f]
    BY <1>5 DEF Ahead
  <2>3. i \in DOMAIN w /\ j + k - 1 \in DOMAIN w /\ i # j + k - 1
    BY <1>4, <1>5, <1>6, <1>8
  <2>4. w[i] = w[j + k - 1]
    BY <1>8, <2>1, <2>2
  <2> QED
    BY <1>7, <2>3, <2>4
<1>11. /\ k + 1 \in Nat /\ k + 1 \in 1..(Len(w) + 1) /\ Len(rest) = Len(w) + 1 - (k + 1)
       /\ \A j \in 1..Len(rest) : rest[j] = w[j + (k + 1) - 1]
  <2>1. k + 1 \in Nat /\ k + 1 \in 1..(Len(w) + 1) /\ Len(rest) = Len(w) + 1 - (k + 1)
    BY <1>2, <1>4, <1>5, <1>6 DEF Rest
  <2>2. ASSUME NEW j \in 1..Len(rest) PROVE rest[j] = w[j + (k + 1) - 1]
    <3>1. j \in Nat /\ j + 1 \in 1..Len(scan.walk) /\ (j + 1) + k - 1 = j + (k + 1) - 1
      BY <1>5
    <3> QED
      BY <1>5, <1>8, <3>1
  <2> QED
    BY <2>1, <2>2
<1> QED
  <2>1. f \in Ahead /\ RootOf(f) \in scan.roots /\ f \in Walked(RootOf(f))
    BY <1>1, <1>5, <1>6, RootOfWalked DEF Ahead
  <2>2. \E m \in Nat : /\ m \in 1..(Len(w) + 1) /\ Len(rest) = Len(w) + 1 - m
                      /\ \A j \in 1..Len(rest) : rest[j] = w[j + m - 1]
    BY <1>11
  <2> QED
    BY <1>9, <1>10, <2>1, <2>2 DEF w, r

LEMMA EndsOrder ==
  ASSUME Ends
  PROVE  Order'
<1>1. /\ scan' = NotScanning /\ work' = db' /\ scan'.pc = "idle" /\ scan'.walk = <<>> /\ scan'.roots = {}
      /\ scan'.found = {} /\ scan'.claimed = {}
  BY DEF Ends, NotScanning
<1> QED
  BY <1>1 DEF Order, Position, Passed, Pulled, Met

LEMMA TouchesOrder ==
  ASSUME Order, Touches, scan.pc = "idle" => work' = db',
         Pulled', \A p \in Paths : Absent(p) => Absent(p)'
  PROVE  Order'
<1>1. Position'
  BY DEF Order, Position, Touches, Rest
<1>2. Ahead' = Ahead
  BY DEF Ahead, Touches
<1>3. Passed'
  BY <1>2 DEF Order, Passed, Touches
<1>4. Met'
  BY <1>2 DEF Order, Met, Touches
<1> QED
  BY <1>1, <1>3, <1>4 DEF Order

LEMMA DisturbsOrder ==
  ASSUME Types, Order, Disturbs
  PROVE  Order'
<1>1. Touches /\ (scan.pc = "idle" => work' = db')
  BY DEF Disturbs, Order, Position
<1>2. scan.pc = "idle" => scan.roots = {} /\ scan'.roots = {} /\ scan.found = {} /\ scan.claimed = {}
  BY <1>1 DEF Touches, Order, Position, NotScanning
<1>3. CASE scan.pc = "idle"
  <2>1. scan' = NotScanning
    BY <1>1, <1>3 DEF Touches, Order, Position
  <2> QED
    BY <1>1, <1>3, <2>1, EndsOrder DEF Ends
<1>4. CASE scan.pc # "idle"
  <2>1. Pulled'
    BY <1>1, <1>4 DEF Pulled, Order, Disturbs, Touches
  <2>2. \A p \in Paths : Absent(p) => Absent(p)'
    BY <1>1, <1>4 DEF Absent, Disturbs, Touches
  <2> QED
    BY <1>1, <2>1, <2>2, TouchesOrder
<1> QED
  BY <1>3, <1>4

LEMMA WrittenOrder ==
  ASSUME Types, Order, Written
  PROVE  Order'
<1>1. Touches /\ disk' = disk /\ plugged' = plugged /\ work' = db'
  BY DEF Written
<1>2. Pulled' /\ \A p \in Paths : Absent(p) => Absent(p)'
  BY <1>1 DEF Pulled, Order, Touches, Absent
<1> QED
  BY <1>1, <1>2, TouchesOrder

LEMMA StartOrder ==
  ASSUME Types, Order, StartScan
  PROVE  /\ Order' /\ Types' /\ scan'.found = {} /\ scan'.claimed = {} /\ scan'.touched = {}
         /\ UNCHANGED <<disk, plugged, db, work>> /\ work = db
<1>1. PICK sweeps \in BOOLEAN : scan' = [NotScanning EXCEPT !.pc = "root", !.sweeps = sweeps]
  BY DEF StartScan
<1>2. /\ scan'.pc = "root" /\ scan'.walk = <<>> /\ scan'.roots = {}
      /\ scan'.found = {} /\ scan'.claimed = {} /\ scan'.touched = {}
      /\ scan' \in Scan
  <2>1. scan' = [pc |-> "root", root |-> 1, walk |-> <<>>, sweeps |-> sweeps, roots |-> {},
                 found |-> {}, claimed |-> {}, touched |-> {}]
    BY <1>1 DEF NotScanning
  <2> QED
    BY <2>1 DEF Scan
<1>3. UNCHANGED <<disk, plugged, db, work, events>> /\ work = db
  BY DEF StartScan, Order, Position
<1>4. Order'
  BY <1>2, <1>3 DEF Order, Position, Passed, Pulled, Met, Absent
<1>5. Types'
  BY <1>2, <1>3 DEF Types
<1> QED
  BY <1>2, <1>3, <1>4, <1>5

LEMMA NextRootOrder ==
  ASSUME Types, Order, NextRoot
  PROVE  /\ Order' /\ Types'
         /\ scan'.found = scan.found /\ scan'.claimed = scan.claimed /\ scan'.touched = scan.touched
         /\ UNCHANGED <<disk, plugged, db, work>> /\ scan'.pc # "idle"
<1> DEFINE r == Roots[scan.root]
<1>1. /\ UNCHANGED <<disk, plugged, db, work, events>>
      /\ scan.pc = "root" /\ scan.root <= Len(Roots) /\ scan \in Scan /\ scan.walk = <<>>
      /\ scan' = IF r \in plugged THEN [scan EXCEPT !.pc = "walk", !.walk = WalkOf[r], !.roots = @ \cup {r}]
                                  ELSE [scan EXCEPT !.root = @ + 1]
  BY DEF NextRoot, Types, Order, Position
<1>2. scan.root \in DOMAIN Roots /\ r \in DOMAIN WalkOf
  BY <1>1, LibraryAssumption DEF Scan
<1>3. WalkOf[r] \in Seq(Everywhere) /\ \A j \in DOMAIN WalkOf[r] : WalkOf[r][j] \in Walked(r)
  <2>1. WalkOf[r] \in Seq(Walked(r)) /\ Walked(r) \subseteq Everywhere
    BY <1>2, LibraryAssumption DEF Everywhere
  <2> HIDE DEF r
  <2> QED
    BY <2>1
<1>4. \A k \in DOMAIN Roots : k >= scan.root => Roots[k] \notin scan.roots
  BY <1>1 DEF Order, Position
<1>5. r \notin scan.roots /\ \A k \in DOMAIN Roots : k > scan.root => Roots[k] # r
  BY <1>1, <1>2, <1>4, LibraryAssumption DEF Scan
<1>6. Ahead = {}
  BY <1>1 DEF Ahead
<1>7. CASE r \in plugged
  <2>1. /\ scan' \in Scan /\ scan'.pc = "walk" /\ scan'.root = scan.root /\ scan'.walk = WalkOf[r]
        /\ scan'.roots = scan.roots \cup {r}
        /\ scan'.found = scan.found /\ scan'.claimed = scan.claimed /\ scan'.touched = scan.touched
    BY <1>1, <1>2, <1>3, <1>7 DEF Scan
  <2>2. \E k \in Nat : Rest(WalkOf[Roots[scan.root]], k)'
    <3>1. WalkOf[r] \in Seq(Everywhere) /\ scan'.walk = WalkOf[r]
      BY <1>3, <2>1
    <3> HIDE DEF r
    <3>2. /\ 1 \in 1..(Len(WalkOf[r]) + 1) /\ Len(scan'.walk) = Len(WalkOf[r]) + 1 - 1
          /\ \A j \in 1..Len(scan'.walk) : j + 1 - 1 = j /\ scan'.walk[j] = WalkOf[r][j]
      BY <3>1
    <3> QED
      BY <2>1, <3>2 DEF r, Rest
  <2>3. Position'
    <3>1. /\ scan'.pc = "walk" /\ scan'.root \in DOMAIN Roots /\ Roots[scan'.root] \in scan'.roots
          /\ \A k \in DOMAIN Roots : k > scan'.root => Roots[k] \notin scan'.roots
      BY <1>1, <1>2, <1>4, <1>5, <2>1, LibraryAssumption DEF Scan
    <3> QED
      BY <2>1, <2>2, <3>1 DEF Position
  <2>4. \A f \in Ahead' : f \in Walked(r) /\ RootOf(f) = r
    BY <1>2, <1>3, <2>1, RootOfWalked DEF Ahead
  <2>5. Passed'
    <3>1. \A f \in scan.found : f \notin Ahead' /\ RootOf(f) \in scan.roots /\ f \in Walked(RootOf(f))
      BY <1>5, <2>4 DEF Order, Passed
    <3>2. ASSUME NEW d \in scan.found \cap DOMAIN DiscOf, DiscOf[d] \in Ahead' PROVE FALSE
      <4> DEFINE q == RootOf(d)
      <4>1. q \in scan.roots /\ q \in DOMAIN WalkOf /\ d \in Walked(q) /\ DiscOf[d] \in Walked(r)
        BY <1>1, <2>4, <3>2 DEF Order, Passed, Scan
      <4> HIDE DEF q, r
      <4>2. PICK k \in DOMAIN WalkOf[q] : d = WalkOf[q][k]
        BY <4>1 DEF Walked
      <4>3. PICK j \in 1..(k - 1) : WalkOf[q][j] = DiscOf[d]
        BY <3>2, <4>1, <4>2, LibraryAssumption
      <4>4. j \in DOMAIN WalkOf[q]
        <5>1. WalkOf[q] \in Seq(Walked(q))
          BY <4>1, LibraryAssumption
        <5> QED
          BY <4>2, <4>3, <5>1
      <4>5. DiscOf[d] \in Walked(q)
        BY <4>3, <4>4 DEF Walked
      <4> QED
        BY <1>2, <1>5, <4>1, <4>5, RootOfWalked
    <3> QED
      BY <2>1, <3>1, <3>2 DEF Order, Passed
  <2>6. Pulled'
    BY <1>1, <1>7, <2>1 DEF Order, Pulled
  <2>7. \A p \in Paths : RootOf(Home[p]) = r => Home[p] \in Ahead'
    BY <2>1, HomeIsWalked DEF Ahead, Walked
  <2>8. Met'
    BY <1>1, <1>6, <2>1, <2>7 DEF Order, Met, Absent
  <2> QED
    BY <1>1, <2>1, <2>3, <2>5, <2>6, <2>8 DEF Order, Types
<1>8. CASE r \notin plugged
  <2>1. /\ scan' \in Scan /\ scan'.pc = "root" /\ scan'.root = scan.root + 1 /\ scan'.walk = scan.walk
        /\ scan'.roots = scan.roots
        /\ scan'.found = scan.found /\ scan'.claimed = scan.claimed /\ scan'.touched = scan.touched
    BY <1>1, <1>8 DEF Scan
  <2>2. Position'
    BY <1>1, <1>4, <2>1, LibraryAssumption DEF Position, Scan
  <2>3. Ahead' = Ahead
    BY <2>1 DEF Ahead
  <2> QED
    BY <1>1, <2>1, <2>2, <2>3 DEF Order, Passed, Pulled, Met, Absent, Types
<1> QED
  BY <1>7, <1>8

LEMMA LeaveRootOrder ==
  ASSUME Types, Order, LeaveRoot, UNCHANGED <<disk, plugged, work, events>>, db' \in {db, work}
  PROVE  /\ Order' /\ Types'
         /\ scan'.found = scan.found /\ scan'.claimed = scan.claimed /\ scan'.touched = scan.touched
<1>1. /\ UNCHANGED <<disk, plugged, work, events>> /\ Catalog(db')
      /\ scan.pc = "walk" /\ scan \in Scan /\ scan.walk = <<>>
      /\ scan' = [scan EXCEPT !.pc = "root", !.root = @ + 1]
  BY DEF LeaveRoot, Types
<1>2. /\ scan' \in Scan /\ scan'.pc = "root" /\ scan'.root = scan.root + 1 /\ scan'.walk = scan.walk
      /\ scan'.roots = scan.roots
      /\ scan'.found = scan.found /\ scan'.claimed = scan.claimed /\ scan'.touched = scan.touched
  <2> DEFINE next == scan.root + 1
  <2>1. next \in Nat \ {0} /\ scan' = [scan EXCEPT !.pc = "root", !.root = next]
    BY <1>1 DEF Scan
  <2> HIDE DEF next
  <2>2. /\ scan' \in Scan /\ scan'.pc = "root" /\ scan'.root = next /\ scan'.walk = scan.walk
        /\ scan'.roots = scan.roots
        /\ scan'.found = scan.found /\ scan'.claimed = scan.claimed /\ scan'.touched = scan.touched
    BY <1>1, <2>1 DEF Scan
  <2> QED
    BY <2>2 DEF next
<1>3. Position'
  <2>1. \A k \in DOMAIN Roots : k \in Nat /\ (k > scan.root => Roots[k] \notin scan.roots)
    BY <1>1, LibraryAssumption DEF Order, Position
  <2>2. \A k \in DOMAIN Roots : k >= scan.root + 1 => Roots[k] \notin scan.roots
    BY <1>1, <2>1 DEF Scan
  <2> QED
    BY <1>1, <1>2, <2>2 DEF Position
<1>4. Ahead' = Ahead
  BY <1>2 DEF Ahead
<1> QED
  BY <1>1, <1>2, <1>3, <1>4 DEF Order, Passed, Pulled, Met, Absent, Types

\* The walk goes on; what is behind it is the same and one folder more.
LEMMA AdvancesPosition ==
  ASSUME Types, Order, scan.pc = "walk", scan.walk # <<>>, scan' \in Scan,
         NEW found, NEW claimed, NEW touched, Advances(found, claimed, touched)
  PROVE  /\ Position'
         /\ Head(scan.walk) \in Ahead /\ Ahead' = Ahead \ {Head(scan.walk)}
         /\ RootOf(Head(scan.walk)) \in scan.roots
         /\ Head(scan.walk) \in Walked(RootOf(Head(scan.walk)))
         /\ Head(scan.walk) \in DOMAIN DiscOf => DiscOf[Head(scan.walk)] \notin Ahead
<1> DEFINE f == Head(scan.walk)
           rest == Tail(scan.walk)
           w == WalkOf[Roots[scan.root]]
<1>1. /\ f \in Ahead /\ RootOf(f) \in scan.roots /\ f \in Walked(RootOf(f))
      /\ {rest[j] : j \in DOMAIN rest} = Ahead \ {f}
      /\ f \in DOMAIN DiscOf => DiscOf[f] \notin Ahead
      /\ \E k \in Nat : /\ k \in 1..(Len(w) + 1) /\ Len(rest) = Len(w) + 1 - k
                        /\ \A j \in 1..Len(rest) : rest[j] = w[j + k - 1]
  BY HeadOfWalk DEF Types, Order
<1>2. scan'.pc = scan.pc /\ scan'.root = scan.root /\ scan'.roots = scan.roots /\ scan'.walk = rest
  BY DEF Advances
<1> HIDE DEF f, rest
<1>3. Ahead' = Ahead \ {f}
  BY <1>1, <1>2 DEF Ahead
<1>4. Position'
  BY <1>1, <1>2 DEF Order, Position, Rest
<1> QED
  BY <1>1, <1>3, <1>4 DEF f

LEMMA SkipsOrder ==
  ASSUME Types, Order, scan.pc = "walk", scan.walk # <<>>, scan' \in Scan, Skips(Head(scan.walk)),
         disk' = disk, plugged' = plugged, db' = db
  PROVE  Order'
<1> DEFINE f == Head(scan.walk)
<1>1. /\ Position' /\ f \in Ahead /\ Ahead' = Ahead \ {f} /\ RootOf(f) \in scan.roots
  BY AdvancesPosition DEF Skips
<1>2. /\ f \in scan.claimed \/ Holds(f) = {}
      /\ scan'.roots = scan.roots
      /\ scan'.found = scan.found /\ scan'.claimed = scan.claimed /\ scan'.touched = scan.touched
  BY DEF Skips, Advances
<1> HIDE DEF f
<1>3. Passed'
  BY <1>1, <1>2 DEF Order, Passed
<1>4. Pulled'
  BY <1>2 DEF Order, Pulled
<1>5. ASSUME NEW p \in Paths, Home[p] = f PROVE f \in scan.claimed \/ Absent(p)
  <2>1. Holds(f) = {} => Listing(f) = {}
    BY DEF Holds
  <2>2. Listing(f) = {} => disk[p] = NoFile \/ RootOf(f) \notin plugged
    BY <1>5 DEF Listing
  <2>3. RootOf(f) \notin plugged => p \in scan.touched
    BY <1>1, <1>5 DEF Order, Pulled
  <2> QED
    BY <1>2, <2>1, <2>2, <2>3 DEF Absent
<1>6. Met'
  BY <1>1, <1>2, <1>5 DEF Order, Met, Absent
<1> QED
  BY <1>1, <1>3, <1>4, <1>6 DEF Order

LEMMA ReadsOrder ==
  ASSUME Types, Order, scan.pc = "walk", scan.walk # <<>>, scan' \in Scan,
         NEW unreadable, Reads(Head(scan.walk), unreadable),
         disk' = disk, plugged' = plugged, db' = db
  PROVE  Order'
<1> DEFINE f == Head(scan.walk)
<1>1. /\ Position' /\ f \in Ahead /\ Ahead' = Ahead \ {f} /\ RootOf(f) \in scan.roots
      /\ f \in Walked(RootOf(f)) /\ (f \in DOMAIN DiscOf => DiscOf[f] \notin Ahead)
  BY AdvancesPosition DEF Reads
<1>2. /\ scan'.roots = scan.roots /\ scan'.found = scan.found \cup {f}
      /\ scan'.claimed = scan.claimed \cup Claims(f) /\ scan'.touched = scan.touched \cup unreadable
  BY DEF Reads, Advances
<1>3. \A d \in Claims(f) : DiscOf[d] = f
  BY DEF Claims, Discs
<1> HIDE DEF f
<1>4. Passed'
  BY <1>1, <1>2, <1>3 DEF Order, Passed
<1>5. Pulled'
  BY <1>2 DEF Order, Pulled
<1>6. Met'
  BY <1>1, <1>2 DEF Order, Met, Absent
<1> QED
  BY <1>1, <1>4, <1>5, <1>6 DEF Order

-----------------------------------------------------------------------------
(* What a scan has done so far *)

\* The track of row i is in the session's catalogue as it is in the committed
\* one, with its rating.
Kept(i) ==
  /\ i \in DOMAIN work.rows
  /\ work.rows[i].path = db.rows[i].path /\ work.rows[i].album = db.rows[i].album
  /\ i \in DOMAIN db.ratings => i \in DOMAIN work.ratings

\* Its album was synced, and the file is gone, disturbed or of another album.
Excused(i) ==
  LET p == db.rows[i].path IN
  /\ db.rows[i].album \in scan.found
  /\ Absent(p) \/ AlbumOf(p) # db.rows[i].album

History == \A i \in DOMAIN db.rows : Kept(i) \/ Excused(i)

\* Albums that the scan has not come to are as they were.
NotYet == \A f \in Folders \ scan.found : PathsOf(work, f) = PathsOf(db, f)

\* The scan gives verdicts only to files of folders that lie behind.
NewVerdicts ==
  \A p \in Paths : work.repairs[p] # db.repairs[p] => Home[p] \in scan.found \cup scan.claimed

\* While nobody disturbs the scan: the files that lie behind have a verdict, and
\* the rows show those that are applied.
Shown ==
  scan.touched = {} =>
    \A p \in Paths : disk[p] # NoFile /\ Home[p] \in scan.found \cup scan.claimed =>
      /\ work.repairs[p] # Unweighed
      /\ Applied(work.repairs[p]) => \E i \in DOMAIN work.rows :
           /\ work.rows[i].path = p /\ work.rows[i].album \in scan.found
           /\ work.rows[i].shown = work.repairs[p].says

\* And the rows of the albums that were found are their files.
Listed ==
  scan.touched = {} =>
    \A f \in scan.found :
      \/ PathsOf(work, f) = Holds(f)
      \/ \E p \in Holds(f) : CameWithAVerdict(db, f, p) /\ CameWithAVerdict(work, f, p)

Progress == History /\ NotYet /\ NewVerdicts /\ Shown /\ Listed

IInv == Types /\ Order /\ Progress

\* Which files an album holds.
LEMMA HoldsHomes ==
  ASSUME NEW f, NEW p \in Holds(f)
  PROVE  Home[p] = f \/ Home[p] \in Claims(f)
BY DEF Holds, Claims, Listing

LEMMA InHolds ==
  ASSUME NEW f, NEW p \in Paths, disk[p] # NoFile,
         (Home[p] = f /\ RootOf(f) \in plugged) \/ Home[p] \in Claims(f)
  PROVE  p \in Holds(f)
<1>1. CASE Home[p] = f /\ RootOf(f) \in plugged
  <2>1. p \in Listing(f)
    BY <1>1 DEF Listing
  <2> QED
    BY <2>1 DEF Holds
<1>2. CASE Home[p] \in Claims(f)
  <2>1. /\ Listing(f) = {} /\ Home[p] \in Discs(f) /\ Listing(Home[p]) # {}
    BY <1>2 DEF Claims
  <2>2. p \in Listing(Home[p])
    BY <2>1 DEF Listing
  <2> QED
    BY <2>1, <2>2 DEF Holds
<1> QED
  BY <1>1, <1>2

LEMMA NothingYet ==
  ASSUME work' = db', scan'.found = {}, scan'.claimed = {}
  PROVE  Progress'
BY DEF Progress, History, Kept, NotYet, NewVerdicts, Shown, Listed

LEMMA ReadsHistory ==
  ASSUME Types, Order, History, scan.pc = "walk", scan.walk # <<>>, scan' \in Scan,
         NEW unreadable \in SUBSET Holds(Head(scan.walk)), Reads(Head(scan.walk), unreadable),
         disk' = disk, plugged' = plugged, db' = db
  PROVE  History'
<1> DEFINE f == Head(scan.walk)
           files == Holds(f) \ unreadable
<1>1. /\ f \in Ahead /\ RootOf(f) \in scan.roots
  BY AdvancesPosition DEF Reads
<1>2. /\ scan'.found = scan.found \cup {f}
      /\ scan'.claimed = scan.claimed \cup Claims(f) /\ scan'.touched = scan.touched \cup unreadable
      /\ \/ work' = work
         \/ \E last \in {0} \cup DOMAIN work.rows : Synced(work', work, f, files, last)
  BY DEF Reads, Advances
<1>3. \A d \in Claims(f) : DiscOf[d] = f
  BY DEF Claims, Discs
<1>4. unreadable \subseteq Holds(f)
  OBVIOUS
<1> HIDE DEF f
<1>5. f \notin scan.found /\ \A d \in scan.claimed : DiscOf[d] \in scan.found
  BY <1>1 DEF Order, Passed
<1> SUFFICES ASSUME NEW i \in DOMAIN db.rows PROVE (Kept(i) \/ Excused(i))'
  BY DEF History
<1> DEFINE p == db.rows[i].path
           a == db.rows[i].album
<1>6. p \in Paths /\ p' = p /\ a' = a
  BY DEF Types, Catalog, CatalogOK, Row
<1> HIDE DEF p, a
<1>7. CASE Excused(i)
  <2>1. a \in scan.found /\ (Absent(p) \/ AlbumOf(p) # a)
    BY <1>7 DEF Excused, p, a
  <2>2. Absent(p) => Absent(p)'
    BY <1>2, <1>6 DEF Absent
  <2>3. AlbumOf(p) # a => AlbumOf(p)' # a
    BY <1>2, <1>3, <1>5, <1>6, <2>1 DEF AlbumOf
  <2>4. a \in scan'.found /\ (Absent(p)' \/ AlbumOf(p)' # a)
    BY <1>2, <2>1, <2>2, <2>3
  <2> QED
    BY <2>4 DEF Excused, p, a, Absent, AlbumOf
<1>8. CASE Kept(i) /\ work' = work
  BY <1>8 DEF Kept
<1>9. CASE Kept(i) /\ \E last \in {0} \cup DOMAIN work.rows : Synced(work', work, f, files, last)
  <2> DEFINE gone == Unseen(work, f, files)
  <2>1. /\ i \in DOMAIN work.rows /\ work.rows[i].path = p /\ work.rows[i].album = a
        /\ i \in DOMAIN db.ratings => i \in DOMAIN work.ratings
    BY <1>9 DEF Kept, p, a
  <2>2. \A q : RowOf(work, f, files, q).path = q /\ RowOf(work, f, files, q).album = f
    BY DEF RowOf
  <2>3. /\ DOMAIN work'.ratings = DOMAIN work.ratings \ gone
        /\ i \notin gone => /\ i \in DOMAIN work'.rows
                          /\ work'.rows[i] = IF a = f THEN RowOf(work, f, files, p) ELSE work.rows[i]
    BY <1>9, <2>1 DEF Synced
  <2>4. CASE i \notin gone
    <3>1. i \in DOMAIN work'.rows /\ work'.rows[i].path = p /\ work'.rows[i].album = a
      BY <2>1, <2>2, <2>3, <2>4
    <3> QED
      BY <2>1, <2>3, <2>4, <3>1 DEF Kept, p, a
  <2>5. CASE i \in gone
    <3>1. a = f /\ p \notin files
      BY <2>1, <2>5 DEF Unseen, RowsOf
    <3>2. SUFFICES ASSUME ~Absent(p)', AlbumOf(p)' = f PROVE FALSE
      <4>1. a \in scan'.found /\ (Absent(p)' \/ AlbumOf(p)' # a)
        BY <1>2, <3>1, <3>2
      <4> QED
        BY <4>1 DEF Excused, p, a, Absent, AlbumOf
    <3>3. disk[p] # NoFile /\ p \notin scan.touched /\ p \notin unreadable
      BY <1>2, <1>6, <3>2 DEF Absent
    <3>4. Home[p] = f \/ Home[p] \in Claims(f)
      BY <1>2, <1>5, <1>6, <3>2 DEF AlbumOf
    <3>5. Home[p] = f => RootOf(f) \in plugged
      BY <1>1, <1>6, <3>3 DEF Order, Pulled
    <3>6. p \in Holds(f)
      BY <1>6, <3>3, <3>4, <3>5, InHolds
    <3> QED
      BY <3>1, <3>3, <3>6
  <2> QED
    BY <2>4, <2>5
<1> QED
  BY <1>2, <1>7, <1>8, <1>9 DEF History

\* What a visit of album f does to verdicts and to the rows of albums.
LEMMA ReadsDoes ==
  ASSUME Types, Order, scan.pc = "walk", scan.walk # <<>>, scan' \in Scan,
         NEW f, f = Head(scan.walk), NEW unreadable \in SUBSET Holds(f), Reads(f, unreadable),
         disk' = disk, plugged' = plugged, db' = db
  PROVE  /\ f \in Folders \ scan.found /\ f \notin scan.claimed /\ f \in Ahead /\ RootOf(f) \in scan.roots
         /\ scan'.found = scan.found \cup {f} /\ scan'.claimed = scan.claimed \cup Claims(f)
         /\ scan'.touched = scan.touched \cup unreadable
         /\ \A d \in Claims(f) : d \in DOMAIN DiscOf /\ DiscOf[d] = f
         /\ Catalog(work')
         /\ \A g : g # f => PathsOf(work', g) = PathsOf(work, g)
         /\ \A p \in Paths : work.repairs[p] # Unweighed \/ p \notin Holds(f) \ unreadable =>
              work'.repairs[p] = work.repairs[p]
<1> DEFINE files == Holds(f) \ unreadable
<1>1. /\ f \in Ahead /\ RootOf(f) \in scan.roots
  BY AdvancesPosition DEF Reads
<1>2. /\ scan'.found = scan.found \cup {f} /\ scan'.claimed = scan.claimed \cup Claims(f)
      /\ scan'.touched = scan.touched \cup unreadable /\ f \notin scan.claimed /\ Holds(f) # {}
      /\ \/ work' = work
         \/ /\ ~Fails(work, f, files)
            /\ \E last \in {0} \cup DOMAIN work.rows :
                 IsLastId(work, last) /\ Synced(work', work, f, files, last)
  BY DEF Reads, Advances
<1>3. /\ f \notin scan.found /\ f \in Folders
      /\ \A d \in Claims(f) : d \in DOMAIN DiscOf /\ DiscOf[d] = f
  BY <1>1, <1>2, HoldsPaths DEF Order, Passed, Types, Claims, Discs
<1>4. files \in SUBSET Paths /\ \A p \in files : disk[p] # NoFile
  BY HoldsPaths DEF Types
<1>5. CASE work' = work
  BY <1>1, <1>2, <1>3, <1>5 DEF Types
<1>6. CASE ~Fails(work, f, files) /\ \E last \in {0} \cup DOMAIN work.rows : Synced(work', work, f, files, last)
  <2>1. PICK last \in {0} \cup DOMAIN work.rows : Synced(work', work, f, files, last)
    BY <1>6
  <2> HIDE DEF files
  <2>2. Catalog(work')
    BY <1>3, <1>4, <1>6, <2>1, SyncKeeps DEF Types
  <2>3. \A g : g # f => PathsOf(work', g) = PathsOf(work, g)
    BY <2>1, SyncedPaths
  <2>4. work'.repairs = Weighed(work, files)
    BY <2>1 DEF Synced
  <2>5. \A p \in files : disk[p] \in Songs
    BY <1>4 DEF Types
  <2>6. \A p \in Paths : work.repairs[p] # Unweighed \/ p \notin files => work'.repairs[p] = work.repairs[p]
    BY <1>4, <2>4, <2>5, WeighedDoes DEF Types, Catalog, CatalogOK
  <2> QED
    BY <1>1, <1>2, <1>3, <2>2, <2>3, <2>6 DEF files
<1> QED
  BY <1>2, <1>5, <1>6

LEMMA ReadsNotYet ==
  ASSUME Types, Order, NotYet, NewVerdicts, scan.pc = "walk", scan.walk # <<>>, scan' \in Scan,
         NEW f, f = Head(scan.walk), NEW unreadable \in SUBSET Holds(f), Reads(f, unreadable),
         disk' = disk, plugged' = plugged, db' = db
  PROVE  NotYet' /\ NewVerdicts'
<1>1. /\ scan'.found = scan.found \cup {f} /\ scan'.claimed = scan.claimed \cup Claims(f)
      /\ \A g : g # f => PathsOf(work', g) = PathsOf(work, g)
      /\ \A p \in Paths : p \notin Holds(f) => work'.repairs[p] = work.repairs[p]
  BY ReadsDoes
<1>2. ASSUME NEW g \in Folders \ scan'.found PROVE PathsOf(work', g) = PathsOf(db', g)
  BY <1>1, <1>2 DEF NotYet
<1>3. ASSUME NEW p \in Paths, work'.repairs[p] # db'.repairs[p]
      PROVE  Home[p] \in scan'.found \cup scan'.claimed
  <2>1. CASE p \in Holds(f)
    BY <1>1, <2>1, HoldsHomes
  <2>2. CASE p \notin Holds(f)
    BY <1>1, <1>3, <2>2 DEF NewVerdicts
  <2> QED
    BY <2>1, <2>2
<1>4. NotYet'
  BY <1>2 DEF NotYet
<1> QED
  BY <1>3, <1>4 DEF NewVerdicts

LEMMA ReadsShown ==
  ASSUME Types, Order, Shown, scan.pc = "walk", scan.walk # <<>>, scan' \in Scan,
         NEW f, f = Head(scan.walk), NEW unreadable \in SUBSET Holds(f), Reads(f, unreadable),
         disk' = disk, plugged' = plugged, db' = db
  PROVE  Shown'
<1>1. /\ f \notin scan.found /\ RootOf(f) \in scan.roots
      /\ scan'.found = scan.found \cup {f} /\ scan'.claimed = scan.claimed \cup Claims(f)
      /\ scan'.touched = scan.touched \cup unreadable
      /\ \A p \in Paths : work.repairs[p] # Unweighed => work'.repairs[p] = work.repairs[p]
  BY ReadsDoes
<1> DEFINE Shows1(p) ==
      /\ work'.repairs[p] # Unweighed
      /\ Applied(work'.repairs[p]) => \E i \in DOMAIN work'.rows :
           /\ work'.rows[i].path = p /\ work'.rows[i].album \in scan'.found
           /\ work'.rows[i].shown = work'.repairs[p].says
<1> SUFFICES ASSUME scan'.touched = {}, NEW p \in Paths, disk[p] # NoFile,
                    Home[p] \in scan'.found \cup scan'.claimed
             PROVE  Shows1(p)
  BY DEF Shown
<1>2. unreadable = {} /\ scan.touched = {} /\ Holds(f) \ unreadable = Holds(f)
  BY <1>1
<1>3. \/ work' = work /\ UpToDate(work, f, Holds(f))
      \/ \E last \in {0} \cup DOMAIN work.rows : Synced(work', work, f, Holds(f), last)
  BY <1>2 DEF Reads
<1>4. CASE Home[p] \in scan.found \cup scan.claimed
  <2>1. /\ work.repairs[p] # Unweighed
        /\ Applied(work.repairs[p]) => \E i \in DOMAIN work.rows :
             /\ work.rows[i].path = p /\ work.rows[i].album \in scan.found
             /\ work.rows[i].shown = work.repairs[p].says
    BY <1>2, <1>4 DEF Shown
  <2>2. work'.repairs[p] = work.repairs[p]
    BY <1>1, <2>1
  <2>3. \A i \in DOMAIN work.rows : work.rows[i].album \in scan.found =>
          i \in DOMAIN work'.rows /\ work'.rows[i] = work.rows[i]
    <3>1. CASE work' = work
      BY <3>1
    <3>2. CASE \E last \in {0} \cup DOMAIN work.rows : Synced(work', work, f, Holds(f), last)
      <4>1. \A i \in Unseen(work, f, Holds(f)) : work.rows[i].album = f
        BY DEF Unseen, RowsOf
      <4> QED
        BY <1>1, <3>2, <4>1 DEF Synced
    <3> QED
      BY <1>3, <3>1, <3>2
  <2> QED
    BY <1>1, <2>1, <2>2, <2>3
<1>5. CASE Home[p] = f \/ Home[p] \in Claims(f)
  <2>1. RootOf(Home[p]) \in scan.roots => RootOf(Home[p]) \in plugged
    BY <1>2 DEF Order, Pulled
  <2>2. p \in Holds(f)
    BY <1>1, <1>5, <2>1, InHolds
  <2>3. CASE work' = work /\ UpToDate(work, f, Holds(f))
    BY <1>1, <2>2, <2>3 DEF UpToDate, Settled, RowsOf
  <2>4. CASE \E last \in {0} \cup DOMAIN work.rows : Synced(work', work, f, Holds(f), last)
    <3>1. /\ work'.repairs = Weighed(work, Holds(f))
          /\ \E i \in DOMAIN work'.rows : work'.rows[i] = RowOf(work, f, Holds(f), p)
      BY <2>2, <2>4 DEF Synced
    <3>2. work'.repairs[p] # Unweighed
      <4>1. Holds(f) \in SUBSET Paths /\ \A q \in Holds(f) : disk[q] \in Songs
        BY HoldsPaths DEF Types
      <4> QED
        BY <2>2, <3>1, <4>1, WeighedDoes DEF Types, Catalog, CatalogOK
    <3>3. PICK i \in DOMAIN work'.rows : work'.rows[i] = RowOf(work, f, Holds(f), p)
      BY <3>1
    <3>4. /\ work'.rows[i].path = p /\ work'.rows[i].album = f
          /\ Applied(work'.repairs[p]) => work'.rows[i].shown = work'.repairs[p].says
      BY <3>1, <3>3 DEF RowOf, Shows
    <3> QED
      BY <1>1, <3>2, <3>4
  <2> QED
    BY <1>3, <2>3, <2>4
<1> QED
  BY <1>1, <1>4, <1>5

\* The fast path: an album that is up to date has the rows of its files, but for
\* a file that came with a verdict that waits.
LEMMA UpToDateListed ==
  ASSUME Types, Order, NotYet, NewVerdicts, NEW f \in Folders \ scan.found, f \notin scan.claimed,
         f \in Ahead, UpToDate(work, f, Holds(f))
  PROVE  \/ PathsOf(work, f) = Holds(f)
         \/ \E p \in Holds(f) : CameWithAVerdict(db, f, p) /\ CameWithAVerdict(work, f, p)
<1>1. Holds(f) \subseteq Paths /\ IsFiniteSet(Paths)
  BY HoldsPaths, CatalogAssumption DEF Types
<1>2. PathsOf(work, f) \subseteq Paths
  BY DEF PathsOf, RowsOf, Types, Catalog, CatalogOK, Row
<1>3. Cardinality(Holds(f)) = Cardinality(PathsOf(work, f))
  BY DEF UpToDate, TallyOf, TallyIn, Types, Catalog
<1>4. CASE Holds(f) \subseteq PathsOf(work, f)
  <2>1. IsFiniteSet(PathsOf(work, f)) /\ Holds(f) \in SUBSET PathsOf(work, f)
    BY <1>1, <1>2, <1>4, FS_Subset
  <2> QED
    BY <1>3, <2>1, FS_Subset
<1>5. ASSUME NEW p \in Holds(f), p \notin PathsOf(work, f)
      PROVE  CameWithAVerdict(db, f, p) /\ CameWithAVerdict(work, f, p)
  <2>1. work.repairs[p] # Unweighed /\ ~Applied(work.repairs[p])
    BY <1>5 DEF UpToDate, Settled, PathsOf
  <2>2. work.repairs[p] \in Verdict
    BY <1>1, <2>1 DEF Types, Catalog, CatalogOK
  <2>3. work.repairs[p].status = "pending"
    BY <2>1, <2>2 DEF Verdict, Applied
  <2>4. Home[p] \notin scan.found \cup scan.claimed
    <3>1. CASE Home[p] = f
      BY <3>1
    <3>2. CASE Home[p] \in Claims(f)
      <4>1. Home[p] \in DOMAIN DiscOf /\ DiscOf[Home[p]] = f
        BY <3>2 DEF Claims, Discs
      <4> QED
        BY <4>1 DEF Order, Passed
    <3> QED
      BY <3>1, <3>2, HoldsHomes
  <2>5. db.repairs[p] = work.repairs[p]
    BY <1>1, <2>4 DEF NewVerdicts
  <2>6. PathsOf(db, f) = PathsOf(work, f)
    BY DEF NotYet
  <2> QED
    BY <1>5, <2>3, <2>5, <2>6 DEF CameWithAVerdict
<1> QED
  BY <1>4, <1>5

LEMMA ReadsListed ==
  ASSUME Types, Order, NotYet, NewVerdicts, Listed, scan.pc = "walk", scan.walk # <<>>, scan' \in Scan,
         NEW f, f = Head(scan.walk), NEW unreadable \in SUBSET Holds(f), Reads(f, unreadable),
         disk' = disk, plugged' = plugged, db' = db
  PROVE  Listed'
<1>1. /\ f \in Folders \ scan.found /\ f \notin scan.claimed /\ f \in Ahead
      /\ scan'.found = scan.found \cup {f} /\ scan'.touched = scan.touched \cup unreadable
      /\ \A g : g # f => PathsOf(work', g) = PathsOf(work, g)
      /\ \A p \in Paths : work.repairs[p] # Unweighed => work'.repairs[p] = work.repairs[p]
  BY ReadsDoes
<1>2. \A g : Holds(g)' = Holds(g) /\ Holds(g) \subseteq Paths
  BY HoldsPaths DEF Types, Holds, Listing
<1> DEFINE Lists(c, g) ==
      \/ PathsOf(c, g) = Holds(g)
      \/ \E p \in Holds(g) : CameWithAVerdict(db, g, p) /\ CameWithAVerdict(c, g, p)
<1> SUFFICES ASSUME scan'.touched = {}, NEW g \in scan'.found PROVE Lists(work', g)
  BY <1>2 DEF Listed
<1>3. unreadable = {} /\ scan.touched = {} /\ Holds(f) \ unreadable = Holds(f)
  BY <1>1
<1>4. CASE g \in scan.found
  <2>1. Lists(work, g)
    BY <1>3, <1>4 DEF Listed
  <2>2. PathsOf(work', g) = PathsOf(work, g)
    BY <1>1, <1>4
  <2>3. \A p \in Holds(g) : CameWithAVerdict(work, g, p) => CameWithAVerdict(work', g, p)
    BY <1>1, <1>2, <2>2 DEF CameWithAVerdict, Unweighed
  <2> QED
    BY <2>1, <2>2, <2>3
<1>5. CASE g = f
  <2>1. CASE work' = work /\ UpToDate(work, f, Holds(f))
    BY <1>1, <1>5, <2>1, UpToDateListed
  <2>2. CASE \E last \in {0} \cup DOMAIN work.rows : Synced(work', work, f, Holds(f), last)
    BY <1>5, <2>2, SyncedPaths
  <2> QED
    BY <1>3, <2>1, <2>2 DEF Reads
<1> QED
  BY <1>1, <1>4, <1>5

-----------------------------------------------------------------------------
(* The other steps *)

LEMMA SameProgress ==
  ASSUME Progress, UNCHANGED <<disk, plugged, db, work>>,
         scan'.found = scan.found, scan'.claimed = scan.claimed, scan'.touched = scan.touched
  PROVE  Progress'
<1>1. \A f : Holds(f)' = Holds(f)
  BY DEF Holds, Listing
<1>2. \A p : AlbumOf(p)' = AlbumOf(p) /\ Absent(p)' = Absent(p)
  BY DEF AlbumOf, Absent
<1>3. History'
  BY <1>2 DEF Progress, History, Kept, Excused
<1>4. NotYet' /\ NewVerdicts' /\ Shown'
  BY DEF Progress, NotYet, NewVerdicts, Shown
<1>5. Listed'
  BY <1>1 DEF Progress, Listed
<1> QED
  BY <1>3, <1>4, <1>5 DEF Progress

\* What is committed in the middle of a scan is the session's catalogue, which
\* the scan has not added to since.
LEMMA CommitProgress ==
  ASSUME Progress, UNCHANGED <<disk, plugged, work>>, db' = work,
         scan'.found = scan.found, scan'.claimed = scan.claimed, scan'.touched = scan.touched
  PROVE  Progress'
<1>1. \A f : Holds(f)' = Holds(f)
  BY DEF Holds, Listing
<1>2. History' /\ NotYet' /\ NewVerdicts'
  BY DEF History, Kept, NotYet, NewVerdicts
<1>3. Shown'
  BY DEF Progress, Shown
<1>4. Listed'
  BY <1>1 DEF Progress, Listed
<1> QED
  BY <1>2, <1>3, <1>4 DEF Progress

LEMMA DisturbsProgress ==
  ASSUME IInv, Disturbs
  PROVE  Progress'
<1>1. CASE scan.pc = "idle"
  BY <1>1, NothingYet DEF Disturbs, Touches, IInv, Order, Position, NotScanning
<1>2. CASE scan.pc # "idle"
  <2>1. /\ db' = db /\ work' = work /\ scan'.found = scan.found /\ scan'.claimed = scan.claimed
        /\ scan.touched \subseteq scan'.touched
        /\ \A p \in Paths : disk'[p] = disk[p] \/ p \in scan'.touched
        /\ \A p \in Paths : (RootOf(Home[p]) \in plugged' <=> RootOf(Home[p]) \in plugged)
                            \/ p \in scan'.touched
    BY <1>2 DEF Disturbs, Touches
  <2>2. \A p \in Paths : Absent(p) => Absent(p)'
    BY <2>1 DEF Absent
  <2>3. \A p : AlbumOf(p)' = AlbumOf(p)
    BY <2>1 DEF AlbumOf
  <2>4. History'
    <3>1. \A i \in DOMAIN db.rows : db.rows[i].path \in Paths
      BY DEF IInv, Types, Catalog, CatalogOK, Row
    <3> QED
      BY <2>1, <2>2, <2>3, <3>1 DEF IInv, Progress, History, Kept, Excused
  <2>5. NotYet' /\ NewVerdicts'
    BY <2>1 DEF IInv, Progress, NotYet, NewVerdicts
  <2>6. Shown'
    BY <2>1 DEF IInv, Progress, Shown
  <2>7. scan'.touched = {} => \A f : Holds(f)' = Holds(f)
    <3>1. scan'.touched = {} => \A f : Listing(f)' = Listing(f)
      BY <2>1 DEF Listing
    <3> QED
      BY <3>1 DEF Holds
  <2>8. Listed'
    BY <2>1, <2>7 DEF IInv, Progress, Listed
  <2> QED
    BY <2>4, <2>5, <2>6, <2>8 DEF Progress
<1> QED
  BY <1>1, <1>2

LEMMA WrittenProgress ==
  ASSUME IInv, Written
  PROVE  Progress'
<1>1. CASE scan.pc = "idle"
  BY <1>1, NothingYet DEF Written, Touches, IInv, Order, Position, NotScanning
<1>2. CASE scan.pc # "idle"
  <2>1. /\ work = db /\ work' = db' /\ disk' = disk /\ plugged' = plugged
        /\ scan'.found = scan.found /\ scan'.claimed = scan.claimed /\ scan.touched \subseteq scan'.touched
        /\ db'.rows = db.rows
        /\ \A p \in Paths : db'.repairs[p] = db.repairs[p] \/ p \in scan'.touched
    BY <1>2 DEF Written, Touches
  <2>2. History' /\ NotYet' /\ NewVerdicts'
    BY <2>1 DEF History, Kept, NotYet, NewVerdicts
  <2>3. Shown'
    BY <2>1 DEF IInv, Progress, Shown
  <2>4. \A f : Holds(f)' = Holds(f) /\ Holds(f) \subseteq Paths
    BY <2>1, HoldsPaths DEF IInv, Types, Holds, Listing
  <2>5. \A f : PathsOf(work', f) = PathsOf(work, f)
    BY <2>1 DEF PathsOf, RowsOf
  <2>6. Listed'
    BY <2>1, <2>4, <2>5 DEF IInv, Progress, Listed, CameWithAVerdict
  <2> QED
    BY <2>2, <2>3, <2>6 DEF Progress
<1> QED
  BY <1>1, <1>2

LEMMA VisitKeeps ==
  ASSUME IInv, VisitFolder
  PROVE  IInv'
<1> DEFINE f == Head(scan.walk)
<1>1. /\ disk' = disk /\ plugged' = plugged /\ db' = db /\ events' \in 0..MaxEvents
      /\ scan.pc = "walk" /\ scan.walk # <<>> /\ scan' \in Scan
      /\ Ends \/ Skips(f) \/ \E unreadable \in SUBSET Holds(f) : Reads(f, unreadable)
  BY VisitDoes DEF IInv
<1>2. CASE Ends
  <2>1. Types'
    BY <1>1, <1>2 DEF IInv, Types, Ends
  <2> QED
    BY <1>2, <2>1, EndsOrder, NothingYet DEF Ends, NotScanning, IInv
<1>3. CASE Skips(f)
  <2>1. Types'
    BY <1>1, <1>3 DEF IInv, Types, Skips
  <2>2. Order'
    BY <1>1, <1>3, SkipsOrder DEF IInv
  <2>3. Progress'
    BY <1>1, <1>3, SameProgress DEF IInv, Skips, Advances
  <2> QED
    BY <2>1, <2>2, <2>3 DEF IInv
<1>4. CASE \E unreadable \in SUBSET Holds(f) : Reads(f, unreadable)
  <2>1. PICK unreadable \in SUBSET Holds(f) : Reads(f, unreadable)
    BY <1>4
  <2>2. Types'
    <3>1. Catalog(work')
      BY <1>1, <2>1, ReadsDoes DEF IInv
    <3> QED
      BY <1>1, <3>1 DEF IInv, Types
  <2>3. Order'
    BY <1>1, <2>1, ReadsOrder DEF IInv
  <2>4. History'
    BY <1>1, <2>1, ReadsHistory DEF IInv, Progress
  <2>5. NotYet' /\ NewVerdicts'
    BY <1>1, <2>1, ReadsNotYet DEF IInv, Progress
  <2>6. Shown'
    BY <1>1, <2>1, ReadsShown DEF IInv, Progress
  <2>7. Listed'
    BY <1>1, <2>1, ReadsListed DEF IInv, Progress
  <2> QED
    BY <2>2, <2>3, <2>4, <2>5, <2>6, <2>7 DEF IInv, Progress
<1> QED
  BY <1>1, <1>2, <1>3, <1>4

LEMMA EndsKeep ==
  ASSUME IInv, Ends, Catalog(db'), disk' = disk, plugged' = plugged, events' \in 0..MaxEvents
  PROVE  IInv'
<1>1. NotScanning \in Scan
  BY DEF NotScanning, Scan
<1>2. Types'
  BY <1>1 DEF IInv, Types, Ends
<1> QED
  BY <1>2, EndsOrder, NothingYet DEF Ends, NotScanning, IInv

LEMMA SweepKeeps ==
  ASSUME IInv, SweepAndCommit
  PROVE  IInv'
<1>1. CASE Blocked
  BY <1>1, EndsKeep DEF SweepAndCommit, Abort, Ends, IInv, Types
<1>2. CASE ~Blocked
  <2>1. work' = WithoutAlbums(work, Sweeping) /\ db' = work' /\ scan' = NotScanning
        /\ disk' = disk /\ plugged' = plugged /\ events' = events
    BY <1>2 DEF SweepAndCommit
  <2>2. \A f \in Sweeping : RowsOf(work, f) \cap work.profiled = {}
    BY <1>2 DEF Blocked
  <2>3. Catalog(work')
    BY <2>1, <2>2, SweptKeeps DEF IInv, Types
  <2> QED
    BY <2>1, <2>3, EndsKeep DEF Ends, IInv, Types
<1> QED
  BY <1>1, <1>2

LEMMA CrashKeeps ==
  ASSUME IInv, Crash
  PROVE  IInv'
<1>1. events' \in 0..MaxEvents
  BY CatalogAssumption DEF Crash, Happens, IInv, Types
<1> QED
  BY <1>1, EndsKeep DEF Crash, Abort, Ends, IInv, Types

LEMMA Initially == Init => IInv
<1> SUFFICES ASSUME Init PROVE IInv
  OBVIOUS
<1>1. /\ db = [rows |-> <<>>, albums |-> <<>>, ratings |-> <<>>, profiled |-> {},
               repairs |-> [p \in Paths |-> Unweighed]]
      /\ work = db /\ scan = NotScanning /\ events = 0
      /\ disk \in [Paths -> Songs \cup {NoFile}] /\ plugged = {Roots[k] : k \in DOMAIN Roots}
  BY DEF Init
<1>2. /\ DOMAIN db = Fields /\ db.rows = <<>> /\ db.ratings = <<>> /\ db.albums = <<>> /\ db.profiled = {}
      /\ db.repairs \in [Paths -> Verdict \cup {Unweighed}]
  BY <1>1 DEF Fields
<1>3. Catalog(db)
  BY <1>2 DEF Catalog, CatalogOK
<1>4. scan \in Scan
  BY <1>1 DEF NotScanning, Scan
<1>5. plugged \subseteq DOMAIN WalkOf
  BY <1>1, LibraryAssumption
<1>6. Types
  BY <1>1, <1>3, <1>4, <1>5, CatalogAssumption DEF Types
<1>7. /\ scan.pc = "idle" /\ scan.walk = <<>> /\ scan.roots = {}
      /\ scan.found = {} /\ scan.claimed = {}
  BY <1>1 DEF NotScanning
<1>8. Order
  BY <1>1, <1>7 DEF Order, Position, Passed, Pulled, Met
<1>9. Progress
  BY <1>1, <1>7 DEF Progress, History, Kept, NotYet, NewVerdicts, Shown, Listed
<1> QED
  BY <1>6, <1>8, <1>9 DEF IInv

LEMMA Inductive ==
  ASSUME IInv, [Next]_vars
  PROVE  IInv'
<1>1. CASE StartScan
  BY <1>1, StartOrder, NothingYet DEF IInv
<1>2. CASE NextRoot
  BY <1>2, NextRootOrder, SameProgress DEF IInv
<1>3. CASE RootDone
  BY <1>3, LeaveRootOrder, SameProgress DEF RootDone, IInv
<1>4. CASE VisitFolder
  BY <1>4, VisitKeeps
<1>5. CASE SweepAndCommit
  BY <1>5, SweepKeeps
<1>6. CASE Disturbs /\ Types'
  BY <1>6, DisturbsOrder, DisturbsProgress DEF IInv
<1>7. CASE Written /\ Types'
  BY <1>7, WrittenOrder, WrittenProgress DEF IInv
<1>8. CASE \E p \in Paths, s \in Songs \cup {NoFile} : FileChanges(p, s)
  BY <1>6, <1>8, FileChangesDo DEF IInv
<1>9. CASE \E p, q \in Paths : FileMoves(p, q)
  BY <1>6, <1>9, FileMovesDo DEF IInv
<1>10. CASE \E r \in DOMAIN WalkOf : DriveChanges(r)
  BY <1>6, <1>10, DriveChangesDo DEF IInv
<1>11. CASE \E i \in DOMAIN db.rows : Rate(i) \/ Measure(i)
  BY <1>7, <1>11, RateDoes, MeasureDoes DEF IInv
<1>12. CASE \E p \in Paths : Tell(p)
  BY <1>7, <1>12, TellDoes DEF IInv
<1>13. CASE Crash
  BY <1>13, CrashKeeps
<1>14. CASE CommitKinds
  BY <1>14, LeaveRootOrder, CommitProgress DEF CommitKinds, IInv
<1>15. CASE UNCHANGED vars
  <2>1. UNCHANGED <<disk, plugged, db, work, scan, events>>
    BY <1>15 DEF vars
  <2>2. Types'
    BY <2>1 DEF IInv, Types
  <2>3. Order'
    BY <2>1 DEF IInv, Order, Position, Rest, Passed, Ahead, Pulled, Met, Absent
  <2> QED
    BY <2>1, <2>2, <2>3, SameProgress DEF IInv
<1> QED
  BY <1>1, <1>2, <1>3, <1>4, <1>5, <1>8, <1>9, <1>10, <1>11, <1>12, <1>13, <1>14, <1>15 DEF Next

LEMMA Always == Spec => []IInv
BY Initially, Inductive, PTL DEF Spec

-----------------------------------------------------------------------------
(* The theorems *)

\* The catalogue is well formed, for the scan and for everybody else: a measured
\* profile is never left without its row, and an album's tally is one that a set
\* of files can have.
THEOREM TypesAreKept == Spec => []TypeOK
<1>1. IInv => TypeOK
  BY DEF IInv, Types, TypeOK, Catalog, Scan
<1> QED
  BY <1>1, Always, PTL

\* A rating's row is there, and is still of the file the rating was given
\* to, in what is committed and in what a scan is about to commit: through
\* deletions, reused ids, sweeps, failed flushes and crashes.
THEOREM RatingsStayPut == Spec => []RatingsStay
<1>1. IInv => RatingsStay
  BY DEF IInv, Types, Catalog, RatingsStay
<1> QED
  BY <1>1, Always, PTL

\* What a commit leaves of a catalogue, when nothing blocks it.
LEMMA CommitDoes ==
  ASSUME IInv, SweepAndCommit, ~Blocked
  PROVE  /\ Ahead = {} /\ db'.repairs = work.repairs
         /\ \A f \in scan.found : PathsOf(db', f) = PathsOf(work, f)
         /\ \A i \in DOMAIN work.rows : work.rows[i].album \notin Sweeping =>
              /\ i \in DOMAIN db'.rows /\ db'.rows[i] = work.rows[i]
              /\ i \in DOMAIN work.ratings => i \in DOMAIN db'.ratings
         /\ \A f \in Sweeping : f \notin scan.found /\ RootOf(f) \in scan.roots
<1>1. db' = WithoutAlbums(work, Sweeping) /\ scan.pc = "root"
  BY DEF SweepAndCommit
<1>2. Ahead = {}
  BY <1>1 DEF IInv, Order, Position, Ahead
<1>3. \A f \in Sweeping : f \notin scan.found /\ RootOf(f) \in scan.roots
  BY DEF Sweeping, Swept
<1>4. /\ db'.repairs = work.repairs
      /\ DOMAIN db'.rows = {i \in DOMAIN work.rows : work.rows[i].album \notin Sweeping}
      /\ DOMAIN db'.ratings = {i \in DOMAIN work.ratings : work.rows[i].album \notin Sweeping}
      /\ \A i \in DOMAIN db'.rows : db'.rows[i] = work.rows[i]
  BY <1>1, SweptDoes DEF IInv, Types
<1>5. \A f \in scan.found : PathsOf(db', f) = PathsOf(work, f)
  BY <1>1, <1>3, SweptPaths DEF IInv, Types
<1> QED
  BY <1>2, <1>3, <1>4, <1>5

\* A scan never costs a file its row or its ratings, at its end or at a commit in
\* the middle, unless somebody changed it while the scan ran or its folder became
\* part of another album: whatever drives are missing, and whatever is synced,
\* skipped, swept or rolled back.
THEOREM HistoryIsKept == Spec => HistoryKept
<1>1. ASSUME IInv, SweepAndCommit \/ CommitKinds, NEW i \in DOMAIN db.rows,
             disk[db.rows[i].path] # NoFile, db.rows[i].path \notin scan.touched,
             AlbumOf(db.rows[i].path) = db.rows[i].album
      PROVE  /\ i \in DOMAIN db'.rows /\ db'.rows[i].path = db.rows[i].path
             /\ i \in DOMAIN db.ratings => i \in DOMAIN db'.ratings
  <2>1. CASE SweepAndCommit /\ Blocked
    BY <1>1, <2>1 DEF SweepAndCommit
  <2>2. CASE CommitKinds
    <3>1. Kept(i)
      BY <1>1 DEF IInv, Progress, History, Excused, Absent, Types, Catalog, CatalogOK, Row
    <3> QED
      BY <2>2, <3>1 DEF CommitKinds, Kept
  <2>3. CASE SweepAndCommit /\ ~Blocked
    <3> DEFINE p == db.rows[i].path
               f == db.rows[i].album
    <3>1. p \in Paths /\ disk[p] # NoFile /\ p \notin scan.touched /\ AlbumOf(p) = f
      BY <1>1 DEF IInv, Types, Catalog, CatalogOK, Row
    <3>2. Kept(i)
      BY <1>1 DEF IInv, Progress, History, Excused, Absent
    <3> HIDE DEF p, f
    <3>3. f \notin Sweeping
      <4> SUFFICES ASSUME f \in Sweeping PROVE FALSE
        OBVIOUS
      <4>1. f \notin scan.found /\ RootOf(f) \in scan.roots /\ Ahead = {}
        BY <1>1, <2>3, CommitDoes
      <4>2. CASE Home[p] \in scan.claimed
        BY <1>1, <3>1, <4>1, <4>2 DEF AlbumOf, IInv, Order, Passed
      <4>3. CASE Home[p] \notin scan.claimed
        BY <1>1, <3>1, <4>1, <4>3 DEF AlbumOf, IInv, Order, Met, Absent
      <4> QED
        BY <4>2, <4>3
    <3> QED
      BY <1>1, <2>3, <3>2, <3>3, CommitDoes DEF Kept, p, f
  <2> QED
    BY <1>1, <2>1, <2>2, <2>3
<1>2. IInv /\ (SweepAndCommit \/ CommitKinds) =>
        \A i \in DOMAIN db.rows :
          LET p == db.rows[i].path IN
          disk[p] # NoFile /\ p \notin scan.touched /\ AlbumOf(p) = db.rows[i].album
          => i \in DOMAIN db'.rows /\ db'.rows[i].path = p
             /\ (i \in DOMAIN db.ratings => i \in DOMAIN db'.ratings)
  BY <1>1
<1> QED
  BY <1>2, Always, PTL DEF HistoryKept

\* After a scan that nobody disturbed, every file under a root it walked has a
\* row that shows its applied verdict: the fast path skips no album that has to
\* be brought in line, and the sweep deletes none of these rows.
THEOREM VerdictsAreShown == Spec => VerdictsShown
<1>1. ASSUME IInv, CleanScan, NEW p \in Scanned, Applied(db'.repairs[p])
      PROVE  \E i \in DOMAIN db'.rows : db'.rows[i].path = p /\ db'.rows[i].shown = db'.repairs[p].says
  <2>1. SweepAndCommit /\ ~Blocked /\ scan.touched = {}
    BY <1>1 DEF CleanScan
  <2>2. p \in Paths /\ disk[p] # NoFile /\ RootOf(Home[p]) \in scan.roots
    BY DEF Scanned
  <2>3. Home[p] \in scan.found \cup scan.claimed
    BY <1>1, <2>1, <2>2, CommitDoes DEF IInv, Order, Met, Absent
  <2>4. db'.repairs = work.repairs
    BY <1>1, <2>1, CommitDoes
  <2>5. PICK i \in DOMAIN work.rows : /\ work.rows[i].path = p /\ work.rows[i].album \in scan.found
                                     /\ work.rows[i].shown = work.repairs[p].says
    BY <1>1, <2>1, <2>2, <2>3, <2>4 DEF IInv, Progress, Shown
  <2> QED
    BY <1>1, <2>1, <2>4, <2>5, CommitDoes
<1>2. IInv /\ CleanScan => \A p \in Scanned : Applied(db'.repairs[p]) =>
        \E i \in DOMAIN db'.rows : db'.rows[i].path = p /\ db'.rows[i].shown = db'.repairs[p].says
  BY <1>1
<1> QED
  BY <1>2, Always, PTL DEF VerdictsShown

\* And the rows of every album it found are the files that are in it, but for an
\* album to which a file came, or came back, with a verdict that still waits.
THEOREM CatalogBecomesDisk == Spec => CatalogIsDisk
<1>1. ASSUME IInv, CleanScan, NEW f \in scan.found
      PROVE  \/ PathsOf(db', f) = Holds(f)
             \/ \E p \in Holds(f) : CameWithAVerdict(db, f, p) /\ CameWithAVerdict(db', f, p)
  <2>1. SweepAndCommit /\ ~Blocked /\ scan.touched = {}
    BY <1>1 DEF CleanScan
  <2>2. PathsOf(db', f) = PathsOf(work, f) /\ db'.repairs = work.repairs
    BY <1>1, <2>1, CommitDoes
  <2> QED
    BY <1>1, <2>1, <2>2 DEF IInv, Progress, Listed, CameWithAVerdict
<1>2. IInv /\ CleanScan => \A f \in scan.found :
        \/ PathsOf(db', f) = Holds(f)
        \/ \E p \in Holds(f) : CameWithAVerdict(db, f, p) /\ CameWithAVerdict(db', f, p)
  BY <1>1
<1> QED
  BY <1>2, Always, PTL DEF CatalogIsDisk
=============================================================================
