------------------------------ MODULE MusicCatalog ------------------------------
(***************************************************************************)
(* The music library: files under the roots, the catalogue in SQLite, and  *)
(* the scan that brings the second in line with the first.                 *)
(*                                                                         *)
(* A scan walks the folders of each root it can read, parents first, and   *)
(* reconciles one album at a time; then it sweeps the albums it has not    *)
(* met.  `work` is what its session sees, `db` what is committed, in the   *)
(* end and, when a track has changed its kind, after a root; from a change *)
(* until the next commit nobody else can write.  Files come and go and     *)
(* drives are pulled at any time, between two folders of a scan too.       *)
(*                                                                         *)
(* A path is a number, in the order of the names.  Its verdict (a row of   *)
(* track_tag_repairs) says which artist the file is by and whether that is *)
(* applied or waits for a review; titles go the same way and are left out. *)
(***************************************************************************)
EXTENDS Naturals, Sequences, FiniteSets, FiniteSetsExt

CONSTANTS
  Roots,       \* the configured music roots, in order
  WalkOf,      \* the folders of each root, in the order of os.walk
  DiscOf,      \* for a folder named like a disc (CD1): the folder it is in
  Paths,       \* where files can be
  Home,        \* the folder of each path
  Songs,       \* what a file can hold
  Length,      \* how long each song is
  Artist,      \* whom a song's tags name: an artist, or Nobody
  Sure,        \* the songs whose tags are HIGH confidence
  Nobody, Told, NoFile,
  MaxEvents    \* bound: changes to files, drives and ratings, crashes

ASSUME CatalogAssumption ==
  /\ IsFiniteSet(Paths) /\ Paths \subseteq Nat /\ MaxEvents \in Nat
  /\ NoFile \notin Songs
  /\ \A s \in Sure : s \in Songs /\ Artist[s] # Nobody

Walked(r) == {WalkOf[r][k] : k \in DOMAIN WalkOf[r]}

(* The roots are apart (one inside another is excluded from its walk), so a *)
(* scan comes to a folder once; os.walk goes top down, a disc comes after   *)
(* the folder it is in.                                                     *)
ASSUME LibraryAssumption ==
  /\ Roots \in Seq(DOMAIN WalkOf)
  /\ \A j, k \in DOMAIN Roots : Roots[j] = Roots[k] => j = k
  /\ \A r \in DOMAIN WalkOf : WalkOf[r] \in Seq(Walked(r))
  /\ \A q, r \in DOMAIN WalkOf : \A j \in DOMAIN WalkOf[q], k \in DOMAIN WalkOf[r] :
       WalkOf[q][j] = WalkOf[r][k] => q = r /\ j = k
  /\ \A p \in Paths : \E r \in DOMAIN WalkOf : Home[p] \in Walked(r)
  /\ \A r \in DOMAIN WalkOf : \A k \in DOMAIN WalkOf[r] : WalkOf[r][k] \in DOMAIN DiscOf =>
       \E j \in 1..(k - 1) : WalkOf[r][j] = DiscOf[WalkOf[r][k]]

VARIABLES
  disk,      \* what each path holds, whether or not its drive is plugged in
  plugged,   \* the roots whose drive is there
  db,        \* the committed catalogue
  work,      \* the catalogue as the scan's session sees it
  scan,      \* the scan under way
  events

vars == <<disk, plugged, db, work, scan, events>>

RootOf(f) == CHOOSE r \in DOMAIN WalkOf : f \in Walked(r)
Folders == {Home[p] : p \in Paths} \cup {DiscOf[d] : d \in DOMAIN DiscOf}
Names == {Artist[s] : s \in Songs} \cup {Nobody, Told}

Verdict == [status : {"applied", "pending"}, says : Names]
Unweighed == [status |-> "none", says |-> Nobody]

(* A row of tracks; `shown` is the artist it names, Nobody for the one the *)
(* album's folder stands for.                                              *)
Row == [path : Paths, album : Folders, shown : Names]

(* _folder_hash, less the folder's path: an album's track_count and duration. *)
TallyIn(d, files) == [count |-> Cardinality(files),
                      total |-> MapThenSumSet(LAMBDA p : Length[d[p]], files)]

(* The tallies that an album can have: those of the files that a disk has. *)
Tally == UNION {{TallyIn(d, files) : files \in SUBSET {p \in Paths : d[p] # NoFile}} :
                  d \in [Paths -> Songs \cup {NoFile}]}

NotScanning == [pc |-> "idle", root |-> 1, walk |-> <<>>, sweeps |-> FALSE, roots |-> {},
                found |-> {}, claimed |-> {}, touched |-> {}]
-------------------------------------------------------------------------------
(* ---------------------- what a folder looks like ----------------------- *)

Listing(f) == {p \in Paths : Home[p] = f /\ disk[p] # NoFile /\ RootOf(f) \in plugged}
Discs(f) == {d \in DOMAIN DiscOf : DiscOf[d] = f}

(* The files of album f: its own, or else those of the discs in it.        *)
Holds(f) == IF Listing(f) # {} THEN Listing(f) ELSE UNION {Listing(d) : d \in Discs(f)}
Claims(f) == IF Listing(f) # {} THEN {} ELSE {d \in Discs(f) : Listing(d) # {}}

RowsOf(c, f) == {i \in DOMAIN c.rows : c.rows[i].album = f}
PathsOf(c, f) == {c.rows[i].path : i \in RowsOf(c, f)}

TallyOf(files) == TallyIn(disk, files)
-------------------------------------------------------------------------------
(* ---------------------- reconciling one album -------------------------- *)

Applied(v) == v.status = "applied"

(* Mutants: every file has a verdict; the rows show what is applied.        *)
AllWeighed(c, f, files) == \A p \in files : c.repairs[p] # Unweighed
AllShown(c, f, files) ==
  \A p \in files : Applied(c.repairs[p]) =>
    \E i \in RowsOf(c, f) : c.rows[i].path = p /\ c.rows[i].shown = c.repairs[p].says

(* _overlay_settled: every file has a verdict, and the rows show those that *)
(* are applied.                                                             *)
Settled(c, f, files) ==
  \A p \in files :
    /\ c.repairs[p] # Unweighed
    /\ Applied(c.repairs[p]) => \E i \in RowsOf(c, f) :
                                  c.rows[i].path = p /\ c.rows[i].shown = c.repairs[p].says

UpToDate(c, f, files) ==
  f \in DOMAIN c.albums /\ c.albums[f] = TallyOf(files) /\ Settled(c, f, files)

(* Files without a verdict are weighed together: one that names nobody is  *)
(* given the artist that all the sure ones of its folder agree on.         *)
Weigh(p, named) ==
  LET s == disk[p] IN
  IF s \in Sure THEN [status |-> "applied", says |-> Artist[s]]
  ELSE IF Artist[s] = Nobody /\ Cardinality(named) = 1
       THEN [status |-> "applied", says |-> CHOOSE a \in named : TRUE]
       ELSE [status |-> "pending", says |-> Artist[s]]

Weighed(c, files) ==
  LET fresh == {p \in files : c.repairs[p] = Unweighed}
      named == {Artist[disk[p]] : p \in {q \in fresh : disk[q] \in Sure}}
  IN  [p \in Paths |-> IF p \in fresh THEN Weigh(p, named) ELSE c.repairs[p]]

Shows(v) == IF Applied(v) THEN v.says ELSE Nobody

(* Mutant: a database that only parses its foreign keys.                   *)
RowsWithout(c, ids) == [c EXCEPT !.rows = [i \in DOMAIN @ \ ids |-> @[i]]]

(* What goes with a row: its ratings, by the foreign key's cascade.        *)
Without(c, ids) ==
  [c EXCEPT !.rows = [i \in DOMAIN @ \ ids |-> @[i]],
            !.ratings = [i \in DOMAIN @ \ ids |-> @[i]]]

(* Mutant: a changed album is written anew.                                *)
AllOfThem(c, f, files) == RowsOf(c, f)

(* The ids a sync deletes: tracks of this album whose file was not seen.   *)
Unseen(c, f, files) == {i \in RowsOf(c, f) : c.rows[i].path \notin files}

(* SQLite hands out max(rowid) + 1, in the order of the files.             *)
IsLastId(c, last) == /\ last \in {0} \cup DOMAIN c.rows
                     /\ \A i \in DOMAIN c.rows : i <= last
IdAfter(last, p, new) == last + Cardinality({q \in new : q <= p})

(* _sync_tracks: rows are matched by path, updated in place, added, and    *)
(* deleted at the end.                                                     *)
Sync(c, f, files, last) ==
  LET repairs == Weighed(c, files)
      gone == Unseen(c, f, files)
      new == files \ {c.rows[i].path : i \in RowsOf(c, f) \ gone}
      RowFor(p) == [path |-> p, album |-> f, shown |-> Shows(repairs[p])]
      added == {IdAfter(last, p, new) : p \in new}
      kept == Without([c EXCEPT !.repairs = repairs], gone)
  IN  [kept EXCEPT
         !.rows = [i \in DOMAIN @ \cup added |->
                     IF i \in added THEN RowFor(CHOOSE p \in new : IdAfter(last, p, new) = i)
                     ELSE IF @[i].album = f THEN RowFor(@[i].path) ELSE @[i]],
         !.albums = [g \in DOMAIN @ \cup {f} |-> IF g = f THEN TallyOf(files) ELSE @[g]]]

(* Mutant: the profiles' foreign key is not enforced.                      *)
FailsOnPaths(c, f, files) ==
  \E p \in files, i \in DOMAIN c.rows : c.rows[i].path = p /\ c.rows[i].album # f

(* A flush that fails: a new row for a path that another album's row has,  *)
(* or the deletion of a row that a measured profile refers to.             *)
Fails(c, f, files) ==
  \/ \E p \in files, i \in DOMAIN c.rows : c.rows[i].path = p /\ c.rows[i].album # f
  \/ Unseen(c, f, files) \cap c.profiled # {}
-------------------------------------------------------------------------------
(* ------------------------------ the scan ------------------------------- *)

(* scan_library sweeps in the end; tag-repair-apply scans without a sweep. *)
StartScan ==
  /\ scan.pc = "idle"
  /\ \E sweeps \in BOOLEAN : scan' = [NotScanning EXCEPT !.pc = "root", !.sweeps = sweeps]
  /\ UNCHANGED <<disk, plugged, db, work, events>>

(* The next root: walked if it can be read, left alone if it cannot.       *)
NextRoot ==
  /\ scan.pc = "root" /\ scan.root <= Len(Roots)
  /\ LET r == Roots[scan.root] IN
     scan' = IF r \in plugged
             THEN [scan EXCEPT !.pc = "walk", !.walk = WalkOf[r], !.roots = @ \cup {r}]
             ELSE [scan EXCEPT !.root = @ + 1]
  /\ UNCHANGED <<disk, plugged, db, work, events>>

(* The session is of no use after a failed flush: the scan ends in an      *)
(* exception, and nothing since its last commit remains.                   *)
Abort == scan' = NotScanning /\ work' = db

VisitFolder ==
  /\ scan.pc = "walk" /\ scan.walk # <<>>
  /\ UNCHANGED <<disk, plugged, db>>
  /\ LET f == Head(scan.walk)
         next == [scan EXCEPT !.walk = Tail(@)]
     IN  IF f \in scan.claimed \/ Holds(f) = {}
         THEN scan' = next /\ UNCHANGED <<work, events>>
         ELSE \E unreadable \in SUBSET Holds(f) :
                LET files == Holds(f) \ unreadable IN
                /\ events' = events + Cardinality(unreadable) /\ events' <= MaxEvents
                /\ IF files # {} /\ ~UpToDate(work, f, files) /\ Fails(work, f, files)
                   THEN Abort
                   ELSE /\ scan' = [next EXCEPT !.found = @ \cup {f}, !.claimed = @ \cup Claims(f),
                                                !.touched = @ \cup unreadable]
                        /\ IF files = {} \/ UpToDate(work, f, files) THEN work' = work
                           ELSE \E last \in {0} \cup DOMAIN work.rows :
                                  IsLastId(work, last) /\ work' = Sync(work, f, files, last)

LeaveRoot ==
  /\ scan.pc = "walk" /\ scan.walk = <<>>
  /\ scan' = [scan EXCEPT !.pc = "root", !.root = @ + 1]

RootDone == LeaveRoot /\ UNCHANGED <<disk, plugged, db, work, events>>

(* apply_content_kinds commits when it has moved a track of this root off  *)
(* "music"; which tracks it moves is left open.                            *)
CommitKinds ==
  /\ LeaveRoot
  /\ \E i \in DOMAIN work.rows : RootOf(Home[work.rows[i].path]) = Roots[scan.root]
  /\ db' = work
  /\ UNCHANGED <<disk, plugged, work, events>>

(* Mutant: a root that was configured counts as walked.                    *)
SweptEverywhere == {f \in DOMAIN work.albums : f \notin scan.found}

(* The albums a sweep deletes: those not met, under the roots walked.      *)
Swept == {f \in DOMAIN work.albums : f \notin scan.found /\ RootOf(f) \in scan.roots}

WithoutAlbums(c, gone) ==
  [Without(c, UNION {RowsOf(c, f) : f \in gone}) EXCEPT
     !.albums = [f \in DOMAIN @ \ gone |-> @[f]]]

Sweeping == IF scan.sweeps THEN Swept ELSE {}
Blocked == \E f \in Sweeping : RowsOf(work, f) \cap work.profiled # {}

SweepAndCommit ==
  /\ scan.pc = "root" /\ scan.root > Len(Roots)
  /\ UNCHANGED <<disk, plugged, events>>
  /\ IF Blocked
     THEN Abort /\ db' = db
     ELSE /\ work' = WithoutAlbums(work, Sweeping)
          /\ db' = work'
          /\ scan' = NotScanning
-------------------------------------------------------------------------------
(* --------------------------- everybody else ---------------------------- *)

Happens == events < MaxEvents /\ events' = events + 1
Touch(paths) == scan' = IF scan.pc = "idle" THEN scan
                        ELSE [scan EXCEPT !.touched = @ \cup paths]

(* Files are put, replaced, deleted and moved.                             *)
FileChanges(p, s) ==
  /\ Happens /\ disk[p] # s
  /\ disk' = [disk EXCEPT ![p] = s]
  /\ Touch({p})
  /\ UNCHANGED <<plugged, db, work>>

FileMoves(p, q) ==
  /\ Happens /\ disk[p] # NoFile /\ disk[q] = NoFile
  /\ disk' = [disk EXCEPT ![p] = NoFile, ![q] = disk[p]]
  /\ Touch({p, q})
  /\ UNCHANGED <<plugged, db, work>>

DriveChanges(r) ==
  /\ Happens
  /\ plugged' = IF r \in plugged THEN plugged \ {r} ELSE plugged \cup {r}
  /\ Touch({p \in Paths : RootOf(Home[p]) = r})
  /\ UNCHANGED <<disk, db, work>>

(* Other sessions write while the scan has nothing uncommitted.            *)
Writes(c) == Happens /\ work = db /\ db' = c /\ work' = c
             /\ UNCHANGED <<disk, plugged>>

(* A rating is given to a track, and remembers here which path that was.   *)
Rate(i) ==
  /\ i \in DOMAIN db.rows
  /\ Writes([db EXCEPT !.ratings = [j \in DOMAIN @ \cup {i} |->
                                      IF j = i THEN db.rows[i].path ELSE @[j]]])
  /\ UNCHANGED scan

(* A verdict from outside: an import settles a pending one, a person       *)
(* overrules any verdict of a track that is in the catalogue.              *)
Tell(p) ==
  /\ db.repairs[p] # Unweighed
  /\ ~Applied(db.repairs[p]) \/ \E i \in DOMAIN db.rows : db.rows[i].path = p
  /\ Writes([db EXCEPT !.repairs[p] = [status |-> "applied", says |-> Told]])
  /\ Touch({p})

(* measure_profile writes from a process of its own.                       *)
Measure(i) ==
  /\ i \in DOMAIN db.rows
  /\ Writes([db EXCEPT !.profiled = @ \cup {i}])
  /\ UNCHANGED scan

(* The server dies: SQLite rolls back.                                     *)
Crash ==
  /\ scan.pc # "idle" /\ Happens
  /\ Abort
  /\ UNCHANGED <<disk, plugged, db>>
-------------------------------------------------------------------------------
Init ==
  /\ disk \in [Paths -> Songs \cup {NoFile}]
  /\ plugged = {Roots[k] : k \in DOMAIN Roots}
  /\ db = [rows |-> <<>>, albums |-> <<>>, ratings |-> <<>>, profiled |-> {},
           repairs |-> [p \in Paths |-> Unweighed]]
  /\ work = db
  /\ scan = NotScanning
  /\ events = 0

Next ==
  \/ StartScan \/ NextRoot \/ VisitFolder \/ RootDone \/ CommitKinds \/ SweepAndCommit
  \/ \E p \in Paths, s \in Songs \cup {NoFile} : FileChanges(p, s)
  \/ \E p, q \in Paths : FileMoves(p, q)
  \/ \E r \in DOMAIN WalkOf : DriveChanges(r)
  \/ \E i \in DOMAIN db.rows : Rate(i) \/ Measure(i)
  \/ \E p \in Paths : Tell(p)
  \/ Crash

Spec == Init /\ [][Next]_vars
-------------------------------------------------------------------------------
CatalogOK(c) ==
  /\ DOMAIN c.rows \subseteq Nat \ {0} /\ \A i \in DOMAIN c.rows : c.rows[i] \in Row
  /\ DOMAIN c.albums \subseteq Folders /\ \A f \in DOMAIN c.albums : c.albums[f] \in Tally
  /\ c.repairs \in [Paths -> Verdict \cup {Unweighed}]
  /\ \A i \in DOMAIN c.ratings : c.ratings[i] \in Paths
  /\ c.profiled \subseteq DOMAIN c.rows

TypeOK ==
  /\ disk \in [Paths -> Songs \cup {NoFile}]
  /\ plugged \subseteq DOMAIN WalkOf
  /\ CatalogOK(db) /\ CatalogOK(work)
  /\ scan.pc \in {"idle", "root", "walk"} /\ scan.touched \subseteq Paths
  /\ events \in 0..MaxEvents

(* A rating stays with the file it was given to: it never refers to a dead *)
(* row, whose id the next file could be given.                             *)
RatingsStay ==
  \A c \in {db, work} : \A i \in DOMAIN c.ratings :
    i \in DOMAIN c.rows /\ c.rows[i].path = c.ratings[i]

(* The album that a path was last walked as a part of.                     *)
AlbumOf(p) == IF Home[p] \in scan.claimed THEN DiscOf[Home[p]] ELSE Home[p]

(* A scan never costs a file its row at either commit: one that nobody     *)
(* touched while the scan ran, on a drive plugged in or not, in a folder   *)
(* that is the same album as before, keeps its id and with it its ratings. *)
HistoryKept ==
  [][SweepAndCommit \/ CommitKinds =>
     \A i \in DOMAIN db.rows :
       LET p == db.rows[i].path IN
       disk[p] # NoFile /\ p \notin scan.touched /\ AlbumOf(p) = db.rows[i].album
       => i \in DOMAIN db'.rows /\ db'.rows[i].path = p
          /\ (i \in DOMAIN db.ratings => i \in DOMAIN db'.ratings)]_vars

(* A scan that ran to its end with nobody touching a file or a verdict.    *)
CleanScan == SweepAndCommit /\ ~Blocked /\ scan.touched = {}
Scanned == {p \in Paths : disk[p] # NoFile /\ RootOf(Home[p]) \in scan.roots}

(* After it the catalogue says of every file what its applied verdict says, *)
(* a verdict that came long after the file too: the fast path that skips   *)
(* an unchanged album never skips one that has to be brought in line.      *)
VerdictsShown ==
  [][CleanScan => \A p \in Scanned : Applied(db'.repairs[p]) =>
       \E i \in DOMAIN db'.rows : db'.rows[i].path = p
                                 /\ db'.rows[i].shown = db'.repairs[p].says]_vars

(* And the rows of an album are the files that are in it; but for an album *)
(* to which a file came, or came back, with a verdict from before that     *)
(* still waits for a review: the fast path takes it for the one that left. *)
CameWithAVerdict(c, f, p) == c.repairs[p].status = "pending" /\ p \notin PathsOf(c, f)
CatalogIsDisk ==
  [][CleanScan => \A f \in scan.found :
       \/ PathsOf(db', f) = Holds(f)
       \/ \E p \in Holds(f) : CameWithAVerdict(db, f, p) /\ CameWithAVerdict(db', f, p)]_vars
===============================================================================
