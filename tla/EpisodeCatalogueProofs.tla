----------------------- MODULE EpisodeCatalogueProofs ------------------------
(***************************************************************************)
(* What the catalogue of episodes keeps, for any number of episodes,       *)
(* seasons, jobs and requests that overlap: the places of EpisodeShelf,    *)
(* the owners of jobs, and what was checked before a publication.          *)
(***************************************************************************)
EXTENDS EpisodeCatalogue, FiniteSetTheorems, WellFoundedInduction, TLAPS

-----------------------------------------------------------------------------
(* Least and greatest numbers *)

LEMMA LeastNat ==
  ASSUME NEW S \in SUBSET Nat, S # {}
  PROVE  \E n \in S : \A k \in S : n <= k
<1>1. PICK n \in S : \A k \in S : ~(<<k, n>> \in OpToRel(<, Nat))
  BY NatLessThanWellFounded, WFMin
<1>2. ASSUME NEW k \in S PROVE n <= k
  <2>1. <<k, n>> \in Nat \X Nat /\ <<k, n>>[1] = k /\ <<k, n>>[2] = n
    OBVIOUS
  <2>2. ~(k < n)
    BY <1>1, <2>1 DEF OpToRel
  <2>3. QED
    BY <2>2
<1>3. QED
  BY <1>2

LEMMA LeastInt ==
  ASSUME NEW a \in Int, NEW S \in SUBSET Int, S # {}, \A n \in S : a <= n
  PROVE  \E n \in S : \A k \in S : n <= k
<1> DEFINE T == {n - a : n \in S}
<1>1. T \in SUBSET Nat /\ T # {}
  <2>1. \A n \in S : n - a \in Nat
    OBVIOUS
  <2>2. QED
    BY <2>1
<1>2. PICK t \in T : \A k \in T : t <= k
  BY <1>1, LeastNat
<1>3. PICK n \in S : t = n - a
  OBVIOUS
<1>4. ASSUME NEW k \in S PROVE n <= k
  <2>1. t <= k - a
    BY <1>2
  <2>2. n \in Int /\ k \in Int
    OBVIOUS
  <2>3. QED
    BY <1>3, <2>1, <2>2
<1>5. QED
  BY <1>4

LEMMA GreatestNat ==
  ASSUME NEW b \in Nat, NEW S \in SUBSET Nat, S # {}, \A n \in S : n <= b
  PROVE  \E n \in S : \A k \in S : k <= n
<1> DEFINE T == {b - n : n \in S}
<1>1. T \in SUBSET Nat /\ T # {}
  <2>1. \A n \in S : b - n \in Nat
    OBVIOUS
  <2>2. QED
    BY <2>1
<1>2. PICK t \in T : \A k \in T : t <= k
  BY <1>1, LeastNat
<1>3. PICK n \in S : t = b - n
  OBVIOUS
<1>4. ASSUME NEW k \in S PROVE k <= n
  <2>1. b - k \in T
    OBVIOUS
  <2>2. QED
    BY <1>2, <1>3, <2>1
<1>5. QED
  BY <1>4

\* The newest of some jobs is one of them.
LEMMA LatestJob ==
  ASSUME NEW S \in SUBSET Jobs
  PROVE  IF S = {} THEN Latest(S) = Null ELSE Latest(S) \in S
<1>1. CASE S = {}
  BY <1>1 DEF Latest
<1>2. CASE S # {}
  <2>1. PICK last \in Jobs \cup {0} : \A j \in Jobs : j <= last
    BY PlaybackAssumption
  <2>2. last \in Nat /\ S \in SUBSET Nat /\ \A n \in S : n <= last
    BY <2>1, PlaybackAssumption
  <2>3. \E j \in S : \A k \in S : k <= j
    BY <1>2, <2>2, GreatestNat
  <2>4. QED
    BY <1>2, <2>3 DEF Latest
<1>3. QED
  BY <1>1, <1>2

\* A new row is one that was not used.
LEMMA FreshRow ==
  ASSUME \E e \in Episodes : episode[e].state = "none"
  PROVE  Fresh(episode) \in Episodes /\ episode[Fresh(episode)].state = "none"
<1> DEFINE free == {e \in Episodes : episode[e].state = "none"}
<1>1. \E e \in free : \A k \in free : e <= k
  BY CatalogueAssumption, LeastNat
<1>2. QED
  BY <1>1 DEF Fresh

\* An archived row gets a number below zero.
LEMMA ArchivedNumberBelow ==
  ASSUME NEW s PROVE ArchivedNumber(episode, s) \in Int /\ ArchivedNumber(episode, s) < 0
<1> DEFINE below == {n \in Floor..(-1) : Holder(episode, s, n) # {}}
<1>1. Floor \in Int
  BY FS_CardinalityType, CatalogueAssumption DEF Floor
<1>2. CASE below = {}
  BY <1>2 DEF ArchivedNumber
<1>3. CASE below # {}
  <2>1. below \in SUBSET Int /\ \A n \in below : Floor <= n
    BY <1>1
  <2>2. \E n \in below : \A k \in below : n <= k
    BY <1>1, <1>3, <2>1, LeastInt
  <2>3. QED
    BY <1>1, <1>3, <2>2 DEF ArchivedNumber
<1>4. QED
  BY <1>2, <1>3

-----------------------------------------------------------------------------
(* Types *)

TablesOK ==
  /\ series \in BOOLEAN
  /\ season \in [Seasons -> SeasonRow]
  /\ episode \in [Episodes -> EpisodeRow]
  /\ media \in [Media -> MediaRow]
  /\ job \in [Jobs -> JobRow(Episodes)]
  /\ dest \in [Jobs -> Field(Episodes)]

CatalogueTypeOK == TablesOK /\ req \in [Requests -> Slot]

LEMMA ModeIsOne ==
  ASSUME NEW u, NEW j \in Field(Jobs), NEW m PROVE DefaultMode(job, u, j, m) \in Modes
BY PlaybackAssumption DEF DefaultMode, Modes, Field

LEMMA VersionIsJob ==
  ASSUME NEW k, NEW js \in SUBSET Jobs PROVE Version(job, k, js) \in Field(Jobs)
<1> DEFINE S == {j \in js : KindOf[j] = k /\ job[j].status = "COMPLETED" /\ job[j].output}
<1>1. S \in SUBSET Jobs
  OBVIOUS
<1>2. QED
  BY <1>1, LatestJob DEF Version, Field

LEMMA SourceIsMedia ==
  ASSUME NEW j \in Field(Jobs), NEW m \in Field(Media)
  PROVE  SourceOf(j, m) \in Field(Media) /\ Considered(j, m) \in SUBSET Jobs
BY PlaybackAssumption DEF SourceOf, Considered, InputJobs, Field

\* A body of a creation names a number, and leaves out what it does not set.
NewBodies == {d \in Dto : d.number # Null /\ None \notin {d.media, d.url}}

LEMMA BodiesSent == Creates \subseteq NewBodies /\ Updates \subseteq Dto
BY CatalogueAssumption DEF NewBodies

LEMMA NewRow ==
  ASSUME NEW d \in NewBodies, d.season \in Seasons
  PROVE  NewEpisode(d) \in EpisodeRow
<1> DEFINE m == SourceOf(d.job, d.media)
           v == CreateVersions(d)
<1>1. /\ d \in Dto /\ d.number \in Numbers /\ d.job \in Field(Jobs) /\ d.media \in Field(Media)
      /\ d.url \in Field(Links \cup Media \cup Jobs) /\ d.mode \in Field(Modes)
  BY DEF NewBodies, Dto, Field
<1>2. m \in Field(Media) /\ Considered(d.job, m) \in SUBSET Jobs
  BY <1>1, SourceIsMedia DEF Considered, InputJobs, Field
<1>3. CreateMode(d) \in Modes
  BY <1>1, ModeIsOne DEF CreateMode, Field
<1>4. v.url \in Field(Links \cup Media \cup Jobs) /\ v.hls \in Field(Jobs) /\ v.remux \in Field(Jobs)
  <2>1. CASE m = Null
    BY <1>1, <2>1 DEF CreateVersions, NoVersions, Field
  <2>2. CASE m # Null
    BY <1>2, <2>2, VersionIsJob DEF CreateVersions, Versions, Field
  <2>3. QED
    BY <2>1, <2>2
<1>5. Numbers \subseteq Int
  BY CatalogueAssumption DEF Numbers
<1>6. QED
  BY <1>1, <1>2, <1>3, <1>4, <1>5 DEF NewEpisode, EpisodeRow, Field

LEMMA BatchRow ==
  ASSUME NEW item \in BatchItem, NEW s \in Seasons, NEW n \in Numbers
  PROVE  /\ BatchEpisode(item, s, n) \in EpisodeRow
         /\ BatchEpisode(item, s, n).state = "live"
         /\ BatchEpisode(item, s, n).season = s
         /\ BatchEpisode(item, s, n).number = n
<1>1. DefaultMode(job, item.url, Null, Null) \in Modes
  BY ModeIsOne DEF Field
<1>2. n \in Int
  BY CatalogueAssumption DEF Numbers
<1>3. item.url \in Links /\ item.published \in BOOLEAN
  BY DEF BatchItem
<1>4. QED
  BY <1>1, <1>2, <1>3 DEF BatchEpisode, NoEpisode, EpisodeRow, Field

LEMMA AssociatedRow ==
  ASSUME NEW row \in EpisodeRow, NEW j \in Jobs
  PROVE  /\ Associated(row, j) \in EpisodeRow
         /\ Associated(row, j).state = row.state
         /\ Associated(row, j).season = row.season
         /\ Associated(row, j).number = row.number
<1>1. InputOf[j] \in Media
  BY PlaybackAssumption
<1>2. QED
  BY <1>1, ZenonT(40) DEF Associated, EpisodeRow, Field

\* What releasing numbers changes: the numbers of archived rows, which go below zero.
Keeps(ep) ==
  /\ ep \in [Episodes -> EpisodeRow]
  /\ \A e \in Episodes :
       /\ ep[e].state = episode[e].state /\ ep[e].season = episode[e].season
       /\ ep[e].number = episode[e].number \/ (ep[e].state = "archived" /\ ep[e].number < 0)

LEMMA ReleasedKeeps ==
  ASSUME episode \in [Episodes -> EpisodeRow], NEW s, NEW n PROVE Keeps(Released(episode, s, n))
<1>1. ArchivedNumber(episode, s) \in Int /\ ArchivedNumber(episode, s) < 0
  BY ArchivedNumberBelow
<1> HIDE DEF ArchivedNumber
<1>2. ASSUME NEW e \in Episodes, e \in Archived(episode, s, n)
      PROVE  /\ [episode[e] EXCEPT !.number = ArchivedNumber(episode, s)] \in EpisodeRow
             /\ [episode[e] EXCEPT !.number = ArchivedNumber(episode, s)].state = "archived"
             /\ [episode[e] EXCEPT !.number = ArchivedNumber(episode, s)].season = episode[e].season
             /\ [episode[e] EXCEPT !.number = ArchivedNumber(episode, s)].number < 0
             /\ episode[e].state = "archived"
  BY <1>1, <1>2 DEF EpisodeRow, Archived
<1>3. QED
  BY <1>2 DEF Keeps, Released

LEMMA BatchReleasedKeeps ==
  ASSUME episode \in [Episodes -> EpisodeRow], NEW s, NEW n \in Nat, NEW f \in [1..n -> Numbers]
  PROVE  Keeps(BatchReleased(s, f))
<1> DEFINE Before(q) == {k \in 1..n : k < (CHOOSE i \in 1..n : f[i] = q)
                                     /\ Archived(episode, s, f[k]) # {}}
           low(e) == ArchivedNumber(episode, s) - Cardinality(Before(episode[e].number))
<1>1. ArchivedNumber(episode, s) \in Int /\ ArchivedNumber(episode, s) < 0
  BY ArchivedNumberBelow
<1>2. ASSUME NEW e \in Episodes PROVE low(e) \in Int /\ low(e) < 0
  <2>1. IsFiniteSet(1..n) /\ Before(episode[e].number) \in SUBSET (1..n)
    BY FS_Interval
  <2>2. Cardinality(Before(episode[e].number)) \in Nat
    BY <2>1, FS_Subset, FS_CardinalityType
  <2>3. QED
    BY <1>1, <2>2
<1>3. BatchReleased(s, f) = [e \in Episodes |->
         IF \E i \in 1..n : e \in Archived(episode, s, f[i])
           THEN [episode[e] EXCEPT !.number = low(e)] ELSE episode[e]]
  BY DEF BatchReleased
<1>4. ASSUME NEW e \in Episodes, NEW i \in 1..n, e \in Archived(episode, s, f[i])
      PROVE  /\ [episode[e] EXCEPT !.number = low(e)] \in EpisodeRow
             /\ [episode[e] EXCEPT !.number = low(e)].state = "archived"
             /\ [episode[e] EXCEPT !.number = low(e)].season = episode[e].season
             /\ [episode[e] EXCEPT !.number = low(e)].number < 0
             /\ episode[e].state = "archived"
  <2> HIDE DEF low
  <2>1. QED
    BY <1>2, <1>4 DEF EpisodeRow, Archived
<1> HIDE DEF low
<1>5. QED
  BY <1>3, <1>4 DEF Keeps

-----------------------------------------------------------------------------
(* Places: what a step does to the rows of episodes *)

\* A live episode has a place; a slot names what its handler has read.
LivePlaced == \A e \in Live : episode[e].season \in Seasons /\ episode[e].number \in Numbers

SlotNamed(s) ==
  /\ s.pc \in {"update", "remove"} => s.e \in Episodes /\ episode[s.e].state # "none"
  /\ s.pc \in {"import", "renumber", "removeSeason", "remove"} => s.sn \in Seasons
  /\ s.pc = "update" => UpdateSeason(s) \in Seasons
  /\ s.pc = "publish" => s.dto.published \in BOOLEAN
  /\ s.pc = "import" => Distinct(s.batch) /\ \A i \in DOMAIN s.batch : s.batch[i].number # Null

CatalogueInv == CatalogueTypeOK /\ LivePlaced /\ \A r \in Requests : SlotNamed(req[r])

\* The rows outside E keep their places; an archived one may get another number below zero.
Same(e) ==
  /\ episode'[e].state = episode[e].state /\ episode'[e].season = episode[e].season
  /\ \/ episode'[e].number = episode[e].number
     \/ episode'[e].state = "archived" /\ episode'[e].number < 0

Stay(E) == \A e \in Episodes \ E : Same(e)

Lands(E, s, f) ==
  /\ f \in [E -> Numbers \ LiveNumbers(episode, s)] /\ \A d, e \in E : f[d] = f[e] => d = e
  /\ \A e \in E : /\ episode[e].state = "none" /\ episode'[e].state = "live"
                  /\ episode'[e].season = s /\ episode'[e].number = f[e]
  /\ Stay(E)

Moves(e, s, n) ==
  /\ episode[e].state # "none" /\ episode'[e].state = episode[e].state
  /\ episode'[e].season = s /\ episode'[e].number = n
  /\ episode[e].state = "live" =>
       n \in Numbers /\ \A o \in Live \ {e} : episode[o].season # s \/ episode[o].number # n
  /\ Stay({e})

Leaves(e) == episode[e].state # "none" /\ episode'[e].state = "archived" /\ Stay({e})

\* The season is live, or was when a request that is under way read it.
Opened(s) ==
  \/ LiveSeason(s)
  \/ \E r \in Requests : req[r].pc = "import" /\ req[r].sn = s
  \/ \E r \in Requests : req[r].pc = "update" /\ UpdateSeason(req[r]) = s

ShelfStep ==
  \/ Stay({})
  \/ \E s \in Seasons, E \in SUBSET Episodes : \E f \in [E -> Numbers] : Opened(s) /\ Lands(E, s, f)
  \/ \E e \in Episodes, s \in Seasons : \E n \in Int : Opened(s) /\ Moves(e, s, n)
  \/ \E e \in Episodes : Leaves(e)

\* What a request leaves in its slot.
Asked(r) == \E x \in Slot : SlotNamed(x) /\ req' = [req EXCEPT ![r] = x]

LEMMA IdleNamed == Idle \in Slot /\ SlotNamed(Idle)
<1>1. NoEpisode \in EpisodeRow /\ NoDto \in Dto
  BY DEF NoEpisode, NoDto, EpisodeRow, Dto, Field, Modes
<1>2. <<>> \in Seq(BatchItem)
  OBVIOUS
<1>3. Idle \in Slot
  BY <1>1, <1>2 DEF Idle, Slot, Field
<1>4. QED
  BY <1>3 DEF Idle, SlotNamed

LEMMA Answered == ASSUME NEW r, NEW a, Answer(r, a) PROVE Asked(r)
BY IdleNamed DEF Answer, Asked

LEMMA Unmoved == ASSUME UNCHANGED episode PROVE Stay({}) /\ ShelfStep
BY DEF ShelfStep, Stay, Same

\* The jobs a request releases and reserves stay rows of jobs.
LEMMA FreedJobs ==
  ASSUME NEW jobs \in [Jobs -> JobRow(Episodes)], NEW es
  PROVE  Freed(jobs, es) \in [Jobs -> JobRow(Episodes)]
<1>1. ASSUME NEW j \in Jobs
      PROVE  [jobs[j] EXCEPT !.target = Null, !.assoc = FALSE] \in JobRow(Episodes)
  BY DEF JobRow
<1>2. QED
  BY <1>1 DEF Freed

LEMMA ReservedJobs ==
  ASSUME NEW jobs \in [Jobs -> JobRow(Episodes)], NEW j, NEW e \in Episodes
  PROVE  Reserved(jobs, j, e) \in [Jobs -> JobRow(Episodes)]
<1>1. CASE j = Null
  BY <1>1 DEF Reserved
<1>2. CASE j # Null /\ j \in Jobs
  <2>1. [jobs[j] EXCEPT !.target = e, !.assoc = (jobs[j].status = "COMPLETED")] \in JobRow(Episodes)
    BY <1>2 DEF JobRow
  <2>2. Reserved(jobs, j, e)
          = [jobs EXCEPT ![j] = [jobs[j] EXCEPT !.target = e, !.assoc = (jobs[j].status = "COMPLETED")]]
    BY <1>2 DEF Reserved
  <2>3. QED
    BY <2>1, <2>2
<1>3. CASE j # Null /\ j \notin Jobs
  BY <1>3 DEF Reserved
<1>4. QED
  BY <1>1, <1>2, <1>3

LEMMA CreateStep ==
  ASSUME CatalogueInv, NEW r \in Requests, NEW d \in NewBodies, Create(r, d)
  PROVE  TablesOK' /\ ShelfStep /\ Asked(r)
<1> DEFINE e == Fresh(episode)
           ep == Released(episode, d.season, d.number)
<1>1. Asked(r)
  BY Answered DEF Create
<1>2. CASE CreateReply(d) # "ok"
  BY <1>1, <1>2, Unmoved DEF Create, CatalogueInv, CatalogueTypeOK, TablesOK
<1>3. CASE CreateReply(d) = "ok"
  <2>1. e \in Episodes /\ episode[e].state = "none"
    BY FreshRow DEF Create
  <2>2. /\ episode' = [ep EXCEPT ![e] = NewEpisode(d)]
        /\ job' = Reserved(FreedBy(job, episode, d.season, d.number), d.job, e)
        /\ UNCHANGED <<series, season, media, dest>>
    BY <1>3 DEF Create
  <2>3. d.season \in Seasons /\ Opened(d.season) /\ Holder(ep, d.season, d.number) = {}
    BY <1>3 DEF CreateReply, LiveSeason, Opened
  <2>4. d.number \in Numbers /\ NewEpisode(d) \in EpisodeRow
    BY <2>3, NewRow DEF NewBodies, Dto, Field
  <2>5. Keeps(ep)
    BY ReleasedKeeps DEF CatalogueInv, CatalogueTypeOK, TablesOK
  <2>6. TablesOK'
    BY <2>1, <2>2, <2>4, <2>5, FreedJobs, ReservedJobs
    DEF CatalogueInv, CatalogueTypeOK, TablesOK, Keeps, FreedBy
  <2>7. d.number \notin LiveNumbers(episode, d.season)
    <3>1. SUFFICES ASSUME NEW o \in Holder(episode, d.season, d.number), episode[o].state = "live"
                   PROVE  FALSE
      BY DEF LiveNumbers
    <3>2. o \in Holder(ep, d.season, d.number)
      BY <2>5, <3>1 DEF Keeps, Holder
    <3>3. QED
      BY <2>3, <3>2
  <2>8. Lands({e}, d.season, [x \in {e} |-> d.number])
    <3>1. episode'[e].state = "live" /\ episode'[e].season = d.season /\ episode'[e].number = d.number
      BY <2>1, <2>2, <2>5 DEF Keeps, NewEpisode
    <3>2. Stay({e})
      BY <2>1, <2>2, <2>5 DEF Keeps, Stay, Same
    <3>3. QED
      BY <2>1, <2>4, <2>7, <3>1, <3>2 DEF Lands
  <2>9. QED
    BY <1>1, <2>1, <2>3, <2>4, <2>6, <2>8 DEF ShelfStep
<1>4. QED
  BY <1>2, <1>3

\* The row an update writes.
LEMMA ChangedRow ==
  ASSUME CatalogueInv, NEW s \in Slot, s.e \in Episodes, UpdateSeason(s) \in Seasons
  PROVE  /\ UpdatedRow(s) \in EpisodeRow
         /\ UpdatedRow(s).state = episode[s.e].state
         /\ UpdatedRow(s).season = UpdateSeason(s)
         /\ UpdatedRow(s).number = UpdateNumber(s)
         /\ Keeps(UpdateReleased(s))
<1> DEFINE v == UpdateVersions(s)
           row == UpdateReleased(s)[s.e]
<1>1. /\ s.dto \in Dto /\ s.row \in EpisodeRow
      /\ s.dto.job \in Field(Jobs) /\ s.dto.media \in Media \cup {Null, None}
      /\ s.dto.url \in Links \cup Media \cup Jobs \cup {Null, None}
      /\ s.dto.mode \in Field(Modes) /\ s.dto.number \in Field(Numbers)
      /\ s.dto.published \in Field(BOOLEAN)
      /\ s.row.media \in Field(Media) /\ s.row.mode \in Modes /\ s.row.published \in BOOLEAN
      /\ s.row.url \in Field(Links \cup Media \cup Jobs)
      /\ s.row.hls \in Field(Jobs) /\ s.row.remux \in Field(Jobs)
  BY DEF Slot, Dto, EpisodeRow
<1>2. Keeps(UpdateReleased(s))
  <2>1. Keeps(episode)
    BY DEF Keeps, CatalogueInv, CatalogueTypeOK, TablesOK
  <2>2. QED
    BY <2>1, ReleasedKeeps DEF UpdateReleased, CatalogueInv, CatalogueTypeOK, TablesOK
<1>3. row \in EpisodeRow /\ row.state = episode[s.e].state
  BY <1>2 DEF Keeps
<1>4. UpdateMedia(s) \in Field(Media)
  BY <1>1 DEF UpdateMedia, Field
<1>5. UpdateSource(s) \in Field(Media) /\ Considered(s.dto.job, UpdateSource(s)) \in SUBSET Jobs
  BY <1>1, <1>4, SourceIsMedia DEF UpdateSource, Considered, InputJobs, Field
<1>6. UpdateMode(s) \in Modes
  BY <1>1, <1>4, ModeIsOne DEF UpdateMode, Field
<1>7. v.url \in Field(Links \cup Media \cup Jobs) /\ v.hls \in Field(Jobs) /\ v.remux \in Field(Jobs)
  <2>1. CASE UpdateSource(s) # Null
    <3> DEFINE u == Versions(job, UpdateSource(s), Considered(s.dto.job, UpdateSource(s)))
    <3>1. u.url \in Field(Media) /\ u.hls \in Field(Jobs) /\ u.remux \in Field(Jobs)
      BY <1>5, VersionIsJob DEF Versions, Field
    <3>2. v = OrCurrent(u, s)
      BY <2>1 DEF UpdateVersions
    <3> HIDE DEF u, v
    <3>3. QED
      BY <1>1, <3>1, <3>2 DEF OrCurrent, Field
  <2>2. CASE UpdateSource(s) = Null
    BY <1>1, <2>2 DEF UpdateVersions, OrCurrent, SubmittedUrl, NoVersions, Field
  <2>3. QED
    BY <2>1, <2>2
<1>8. UpdateNumber(s) \in Int
  BY <1>1, <1>3, CatalogueAssumption DEF UpdateNumber, Numbers, Field, EpisodeRow
<1> DEFINE med == CASE s.dto.job # Null -> InputOf[s.dto.job]
                    [] s.dto.job = Null /\ s.dto.media # Null -> UpdateMedia(s)
                    [] OTHER -> s.row.media
           pub == CASE s.dto.published # Null -> s.dto.published /\ HasVideo(s)
                    [] s.dto.published = Null /\ ReferenceChanged(s) -> s.row.published /\ HasVideo(s)
                    [] OTHER -> row.published
           def == IF Subtitles(s.dto.job) THEN s.dto.job ELSE row.def
<1>9. med \in Field(Media)
  BY <1>1, <1>4, PlaybackAssumption DEF Field
<1>10. pub \in BOOLEAN
  <2> HIDE DEF row
  <2>1. row.published \in BOOLEAN
    BY <1>3 DEF EpisodeRow
  <2>2. CASE s.dto.published # Null
    BY <2>2
  <2>3. CASE s.dto.published = Null /\ ReferenceChanged(s)
    BY <2>3
  <2>4. CASE s.dto.published = Null /\ ~ReferenceChanged(s)
    BY <2>1, <2>4
  <2>5. QED
    BY <2>2, <2>3, <2>4
<1>11. def \in Field(Jobs)
  <2> HIDE DEF row
  <2>1. row.def \in Field(Jobs)
    BY <1>3 DEF EpisodeRow
  <2>2. QED
    BY <1>1, <2>1
<1>12. UpdatedRow(s) = [row EXCEPT !.season = UpdateSeason(s), !.number = UpdateNumber(s),
          !.media = med, !.mode = UpdateMode(s), !.url = v.url, !.hls = v.hls, !.remux = v.remux,
          !.published = pub, !.def = def]
  BY DEF UpdatedRow
<1> HIDE DEF med, pub, def, row, v
<1>13. UpdateSeason(s) \in Field(Seasons)
  BY DEF Field
<1>14. QED
  BY <1>2, <1>3, <1>6, <1>7, <1>8, <1>9, <1>10, <1>11, <1>12, <1>13, ZenonT(40) DEF EpisodeRow

LEMMA UpdateJobsTyped ==
  ASSUME job \in [Jobs -> JobRow(Episodes)], NEW s, s.e \in Episodes
  PROVE  UpdateJobs(s) \in [Jobs -> JobRow(Episodes)]
<1> DEFINE freed == IF s.dto.number = Null THEN job
                    ELSE FreedBy(job, episode, UpdateSeason(s), s.dto.number)
           dropped == [j \in Jobs |-> IF j \in UpdateDropped(s)
                         THEN [freed[j] EXCEPT !.target = Null, !.assoc = FALSE] ELSE freed[j]]
<1>1. freed \in [Jobs -> JobRow(Episodes)]
  BY FreedJobs DEF FreedBy
<1> HIDE DEF freed
<1>2. dropped \in [Jobs -> JobRow(Episodes)]
  <2>1. ASSUME NEW j \in Jobs
        PROVE  [freed[j] EXCEPT !.target = Null, !.assoc = FALSE] \in JobRow(Episodes)
    BY <1>1 DEF JobRow
  <2>2. QED
    BY <1>1, <2>1
<1> HIDE DEF dropped
<1>3. UpdateJobs(s) = Reserved(dropped, s.dto.job, s.e)
  BY DEF UpdateJobs, dropped, freed
<1>4. QED
  BY <1>2, <1>3, ReservedJobs

LEMMA UpdateStep ==
  ASSUME CatalogueInv, NEW r \in Requests, Update(r)
  PROVE  TablesOK' /\ ShelfStep /\ Asked(r)
<1> DEFINE s == req[r]
           S == UpdateSeason(s)
           n == UpdateNumber(s)
<1>1. Asked(r)
  BY Answered DEF Update
<1>2. CASE UpdateReply(s) # "ok"
  BY <1>1, <1>2, Unmoved DEF Update, CatalogueInv, CatalogueTypeOK, TablesOK
<1>3. CASE UpdateReply(s) = "ok"
  <2>1. s \in Slot /\ s.e \in Episodes /\ episode[s.e].state # "none" /\ S \in Seasons
    BY DEF Update, CatalogueInv, CatalogueTypeOK, SlotNamed
  <2>2. /\ episode' = [UpdateReleased(s) EXCEPT ![s.e] = UpdatedRow(s)]
        /\ job' = UpdateJobs(s)
        /\ UNCHANGED <<series, season, media, dest>>
    BY <1>3 DEF Update
  <2>3. /\ UpdatedRow(s) \in EpisodeRow /\ UpdatedRow(s).state = episode[s.e].state
        /\ UpdatedRow(s).season = S /\ UpdatedRow(s).number = n
        /\ Keeps(UpdateReleased(s))
    BY <2>1, ChangedRow
  <2>4. TablesOK'
    BY <2>1, <2>2, <2>3, UpdateJobsTyped DEF CatalogueInv, CatalogueTypeOK, TablesOK, Keeps
  <2>5. Holder(UpdateReleased(s), S, n) \ {s.e} = {}
    BY <1>3 DEF UpdateReply
  <2>6. ASSUME NEW o \in Live \ {s.e} PROVE episode[o].season # S \/ episode[o].number # n
    BY <2>3, <2>5, <2>6 DEF Live, Keeps, Holder
  <2>7. ASSUME episode[s.e].state = "live" PROVE n \in Numbers
    <3>1. s.dto.number \in Field(Numbers)
      BY <2>1 DEF Slot, Dto
    <3>2. s.dto.number = Null => n = episode[s.e].number
      BY <2>7 DEF UpdateNumber, UpdateReleased
    <3>3. QED
      BY <2>1, <2>7, <3>1, <3>2 DEF UpdateNumber, CatalogueInv, LivePlaced, Live, Field
  <2>8. Stay({s.e}) /\ episode'[s.e] = UpdatedRow(s)
    BY <2>1, <2>2, <2>3 DEF Keeps, Stay, Same
  <2>9. n \in Int
    BY <2>3 DEF EpisodeRow
  <2>10. Moves(s.e, S, n)
    BY <2>1, <2>3, <2>6, <2>7, <2>8 DEF Moves
  <2>11. Opened(S)
    BY DEF Opened, Update
  <2>12. QED
    BY <1>1, <2>1, <2>4, <2>9, <2>10, <2>11 DEF ShelfStep
<1>4. QED
  BY <1>2, <1>3

\* The rows of a batch are those not used so far, each with an item of its own.
LEMMA InsertedRows ==
  ASSUME TablesOK, NEW s \in Seasons, Opened(s), NEW b \in Seq(BatchItem), NEW ep, Keeps(ep),
         NEW f \in [1..Len(b) -> Numbers \ LiveNumbers(episode, s)],
         \A i, k \in 1..Len(b) : f[i] = f[k] => i = k,
         episode' = Inserted(ep, s, b, f)
  PROVE  episode' \in [Episodes -> EpisodeRow] /\ ShelfStep
<1> DEFINE free == {e \in Episodes : episode[e].state = "none"}
           Turn(e) == Cardinality({k \in free : k <= e})
           E == {e \in free : Turn(e) <= Len(b)}
<1>1. ASSUME NEW e \in free
      PROVE  /\ IsFiniteSet({k \in free : k <= e})
             /\ Turn(e) \in Nat /\ Turn(e) # 0
  <2>1. {k \in free : k <= e} \in SUBSET Episodes /\ e \in {k \in free : k <= e}
    BY CatalogueAssumption
  <2>2. IsFiniteSet({k \in free : k <= e})
    BY <2>1, FS_Subset, CatalogueAssumption
  <2>3. QED
    BY <2>1, <2>2, FS_CardinalityType, FS_EmptySet
<1>2. ASSUME NEW d \in free, NEW e \in free, d < e PROVE Turn(d) # Turn(e)
  <2>0. d \in Nat /\ e \in Nat /\ \A k \in free : k \in Nat
    BY CatalogueAssumption
  <2>1. {k \in free : k <= d} \in SUBSET {k \in free : k <= e}
    <3>1. ASSUME NEW k \in free, k <= d PROVE k <= e
      BY <1>2, <2>0, <3>1
    <3>2. QED
      BY <3>1
  <2>2. e \in {k \in free : k <= e} /\ e \notin {k \in free : k <= d}
    <3>1. e <= e /\ ~(e <= d)
      BY <1>2, <2>0
    <3>2. QED
      BY <3>1
  <2>3. QED
    BY <1>1, <2>1, <2>2, FS_Subset
<1>3. ASSUME NEW d \in free, NEW e \in free, Turn(d) = Turn(e) PROVE d = e
  <2>1. d \in Nat /\ e \in Nat
    BY CatalogueAssumption
  <2>2. ~(d < e) /\ ~(e < d)
    BY <1>2, <1>3
  <2>3. QED
    BY <2>1, <2>2
<1>4. episode' = [e \in Episodes |->
         IF e \in E THEN BatchEpisode(b[Turn(e)], s, f[Turn(e)]) ELSE ep[e]]
  BY DEF Inserted
<1>5. ASSUME NEW e \in E PROVE Turn(e) \in 1..Len(b)
  <2>1. Len(b) \in Nat
    OBVIOUS
  <2>2. Turn(e) \in Nat /\ Turn(e) # 0 /\ Turn(e) <= Len(b)
    BY <1>1
  <2>3. QED
    BY <2>1, <2>2
<1> DEFINE g == [e \in E |-> f[Turn(e)]]
<1>6. g \in [E -> Numbers \ LiveNumbers(episode, s)] /\ \A d, e \in E : g[d] = g[e] => d = e
  <2>1. ASSUME NEW e \in E PROVE g[e] = f[Turn(e)] /\ f[Turn(e)] \in Numbers \ LiveNumbers(episode, s)
    BY <1>5
  <2>2. ASSUME NEW d \in E, NEW e \in E, g[d] = g[e] PROVE d = e
    <3>1. Turn(d) = Turn(e)
      BY <1>5, <2>1, <2>2
    <3>2. QED
      BY <1>3, <3>1
  <2>3. QED
    BY <2>1, <2>2
<1>7. ASSUME NEW e \in E
      PROVE  /\ episode'[e] \in EpisodeRow /\ episode'[e].state = "live"
             /\ episode'[e].season = s /\ episode'[e].number = g[e]
  <2>1. b[Turn(e)] \in BatchItem /\ f[Turn(e)] \in Numbers
    BY <1>5
  <2>2. episode'[e] = BatchEpisode(b[Turn(e)], s, f[Turn(e)])
    BY <1>4
  <2>3. QED
    BY <2>1, <2>2, BatchRow
<1>8. ASSUME NEW e \in Episodes \ E PROVE episode'[e] = ep[e]
  BY <1>4
<1> HIDE DEF E, Turn, free
<1>9. episode' \in [Episodes -> EpisodeRow]
  <2>1. ASSUME NEW e \in Episodes PROVE episode'[e] \in EpisodeRow
    <3>1. CASE e \in E
      BY <1>7, <3>1
    <3>2. CASE e \notin E
      BY <1>8, <3>2 DEF Keeps
    <3>3. QED
      BY <3>1, <3>2
  <2>2. \E F : episode' = [e \in Episodes |-> F[e]]
    <3>1. episode' = [e \in Episodes |-> episode'[e]]
      BY <1>4
    <3>2. QED
      BY <3>1
  <2>3. QED
    BY <2>1, <2>2
<1>10. E \in SUBSET Episodes /\ \A e \in E : episode[e].state = "none"
  BY DEF E, free
<1>11. Stay(E)
  BY <1>8 DEF Keeps, Stay, Same
<1>12. Lands(E, s, g)
  BY <1>6, <1>7, <1>10, <1>11 DEF Lands
<1>13. g \in [E -> Numbers]
  BY <1>6
<1>14. QED
  BY <1>9, <1>10, <1>12, <1>13 DEF ShelfStep

LEMMA BulkStep ==
  ASSUME CatalogueInv, NEW r \in Requests, NEW s \in Seasons, NEW b \in Batches, Bulk(r, s, b)
  PROVE  TablesOK' /\ ShelfStep /\ Asked(r)
<1>1. Asked(r)
  BY Answered DEF Bulk
<1>2. CASE BulkReply(s, b) # "ok"
  BY <1>1, <1>2, Unmoved DEF Bulk, CatalogueInv, CatalogueTypeOK, TablesOK
<1>3. CASE BulkReply(s, b) = "ok"
  <2>1. PICK f \in Numberings(s, b) :
          /\ episode' = Inserted(BatchReleased(s, f), s, b, f)
          /\ job' = Freed(job, UNION {Archived(episode, s, f[i]) : i \in DOMAIN f})
    BY <1>3 DEF Bulk
  <2>2. b \in Seq(BatchItem) /\ DOMAIN b = 1..Len(b) /\ Len(b) \in Nat
    BY CatalogueAssumption
  <2>3. f \in [1..Len(b) -> Numbers \ LiveNumbers(episode, s)]
        /\ \A i, k \in 1..Len(b) : f[i] = f[k] => i = k
    BY <2>1, <2>2 DEF Numberings
  <2>4. Keeps(BatchReleased(s, f))
    BY <2>2, <2>3, BatchReleasedKeeps DEF CatalogueInv, CatalogueTypeOK, TablesOK
  <2>5. Opened(s)
    BY <1>3 DEF BulkReply, Opened
  <2>6. episode' \in [Episodes -> EpisodeRow] /\ ShelfStep
    BY <2>1, <2>2, <2>3, <2>4, <2>5, InsertedRows DEF CatalogueInv, CatalogueTypeOK
  <2>7. job' \in [Jobs -> JobRow(Episodes)]
    BY <2>1, FreedJobs DEF CatalogueInv, CatalogueTypeOK, TablesOK
  <2>8. QED
    BY <1>1, <2>6, <2>7 DEF Bulk, CatalogueInv, CatalogueTypeOK, TablesOK
<1>4. QED
  BY <1>2, <1>3

LEMMA ImportStep ==
  ASSUME CatalogueInv, NEW r \in Requests,
         (\E s \in Seasons, b \in Batches : Import(r, s, b)) \/ ImportCommit(r)
  PROVE  TablesOK' /\ ShelfStep /\ Asked(r)
<1>1. ASSUME NEW s \in Seasons, NEW b \in Batches, Import(r, s, b)
      PROVE  TablesOK' /\ ShelfStep /\ Asked(r)
  <2>1. TablesOK' /\ ShelfStep
    BY <1>1, Unmoved DEF Import, CatalogueInv, CatalogueTypeOK, TablesOK
  <2>2. CASE Answer(r, "rejected")
    BY <2>1, <2>2, Answered
  <2>3. CASE Distinct(b) /\ Await(r, [Idle EXCEPT !.pc = "import", !.sn = s, !.batch = b])
    <3> DEFINE x == [Idle EXCEPT !.pc = "import", !.sn = s, !.batch = b]
    <3>1. x \in Slot
      BY IdleNamed, CatalogueAssumption DEF Slot, Field
    <3>2. x.pc = "import" /\ x.sn = s /\ x.batch = b
      BY DEF Idle
    <3>3. \A i \in DOMAIN b : b[i].number # Null
      BY <1>1 DEF Import
    <3>4. SlotNamed(x)
      BY <2>3, <3>2, <3>3 DEF SlotNamed
    <3>5. QED
      BY <2>1, <2>3, <3>1, <3>4 DEF Await, Asked
  <2>4. QED
    BY <1>1, <2>2, <2>3 DEF Import
<1>2. ASSUME ImportCommit(r) PROVE TablesOK' /\ ShelfStep /\ Asked(r)
  <2> DEFINE s == req[r].sn
             b == req[r].batch
             f == [i \in DOMAIN b |-> b[i].number]
  <2>1. /\ s \in Seasons /\ b \in Seq(BatchItem) /\ DOMAIN b = 1..Len(b)
        /\ Distinct(b) /\ \A i \in DOMAIN b : b[i].number # Null
    BY <1>2 DEF ImportCommit, CatalogueInv, CatalogueTypeOK, SlotNamed, Slot
  <2>2. Asked(r)
    BY <1>2, Answered DEF ImportCommit
  <2>3. CASE UNCHANGED episode
    BY <1>2, <2>2, <2>3, Unmoved DEF ImportCommit, CatalogueInv, CatalogueTypeOK, TablesOK
  <2>4. CASE ~(\E n \in Requested(b) : Holder(episode, s, n) # {})
    <3>1. episode' = Inserted(episode, s, b, f)
      BY <1>2, <2>4 DEF ImportCommit
    <3>2. ASSUME NEW i \in 1..Len(b) PROVE f[i] \in Numbers \ LiveNumbers(episode, s)
      <4>1. b[i] \in BatchItem /\ f[i] = b[i].number /\ b[i].number # Null
        BY <2>1
      <4>2. f[i] \in Numbers /\ f[i] \in Requested(b)
        BY <2>1, <4>1 DEF BatchItem, Field, Requested
      <4>3. Holder(episode, s, f[i]) = {}
        BY <2>4, <4>2
      <4>4. QED
        BY <4>2, <4>3 DEF LiveNumbers
    <3>3. f \in [1..Len(b) -> Numbers \ LiveNumbers(episode, s)]
      BY <2>1, <3>2
    <3>4. \A i, k \in 1..Len(b) : f[i] = f[k] => i = k
      BY <2>1 DEF Distinct
    <3>5. Keeps(episode)
      BY DEF Keeps, CatalogueInv, CatalogueTypeOK, TablesOK
    <3>6. Opened(s)
      <4>1. req[r].pc = "import"
        BY <1>2 DEF ImportCommit
      <4>2. QED
        BY <4>1 DEF Opened
    <3>7. episode' \in [Episodes -> EpisodeRow] /\ ShelfStep
      BY <2>1, <3>1, <3>3, <3>4, <3>5, <3>6, InsertedRows DEF CatalogueInv, CatalogueTypeOK
    <3>8. QED
      BY <1>2, <2>2, <3>7 DEF ImportCommit, CatalogueInv, CatalogueTypeOK, TablesOK
  <2>5. QED
    BY <1>2, <2>3, <2>4 DEF ImportCommit
<1>3. QED
  BY <1>1, <1>2

\* A row whose video or publication changes keeps its place.
SamePlace(row, old) ==
  /\ row \in EpisodeRow
  /\ row.state = old.state /\ row.season = old.season /\ row.number = old.number

LEMMA RowsTyped ==
  ASSUME episode' = [e \in Episodes |-> episode'[e]],
         \A e \in Episodes : SamePlace(episode'[e], episode[e])
  PROVE  episode' \in [Episodes -> EpisodeRow]
BY DEF SamePlace

LEMMA RowsStay ==
  ASSUME \A e \in Episodes : SamePlace(episode'[e], episode[e])
  PROVE  Stay({}) /\ ShelfStep
BY DEF ShelfStep, Stay, Same, SamePlace

\* The operations of several episodes, and their removal.
LEMMA SharedStep ==
  ASSUME CatalogueInv, NEW r \in Requests,
         \/ \E es \in (SUBSET Episodes) \ {{}}, to \in BOOLEAN : Publish(r, es, to)
         \/ PublishCommit(r)
         \/ \E e \in Episodes, es \in SUBSET Episodes : Copy(r, e, es)
         \/ CopyCommit(r)
  PROVE  TablesOK' /\ ShelfStep /\ Asked(r)
<1>0. req[r] \in Slot /\ episode \in [Episodes -> EpisodeRow] /\ TablesOK
  BY DEF CatalogueInv, CatalogueTypeOK, TablesOK
<1>1. ASSUME NEW es \in (SUBSET Episodes) \ {{}}, NEW to \in BOOLEAN, Publish(r, es, to)
      PROVE  TablesOK' /\ ShelfStep /\ Asked(r)
  <2>1. TablesOK' /\ ShelfStep
    BY <1>0, <1>1, Unmoved DEF Publish, TablesOK
  <2>2. CASE Answer(r, "rejected") \/ Answer(r, "conflict")
    BY <2>1, <2>2, Answered
  <2>3. CASE Await(r, [Idle EXCEPT !.pc = "publish", !.es = es, !.dto.published = to])
    <3> DEFINE x == [Idle EXCEPT !.pc = "publish", !.es = es, !.dto.published = to]
    <3>1. x \in Slot
      BY IdleNamed, ZenonT(40) DEF Slot, Dto, Field
    <3>2. x.pc = "publish" /\ x.dto.published = to
      BY DEF Idle, NoDto
    <3>3. QED
      BY <2>1, <2>3, <3>1, <3>2 DEF Await, Asked, SlotNamed
  <2>4. QED
    BY <1>1, <2>2, <2>3 DEF Publish
<1>2. ASSUME PublishCommit(r) PROVE TablesOK' /\ ShelfStep /\ Asked(r)
  <2>1. Asked(r)
    BY <1>2, Answered DEF PublishCommit
  <2>2. CASE UNCHANGED episode
    BY <1>0, <1>2, <2>1, <2>2, Unmoved DEF PublishCommit, TablesOK
  <2>3. CASE req[r].es \subseteq Live
    <3>1. episode' = [e \in Episodes |->
             IF e \in req[r].es THEN [episode[e] EXCEPT !.published = req[r].dto.published] ELSE episode[e]]
      BY <1>2, <2>3 DEF PublishCommit
    <3>2. req[r].dto.published \in BOOLEAN
      BY <1>2 DEF PublishCommit, CatalogueInv, SlotNamed
    <3>3. ASSUME NEW e \in Episodes
          PROVE  SamePlace([episode[e] EXCEPT !.published = req[r].dto.published], episode[e])
      BY <1>0, <3>2 DEF SamePlace, EpisodeRow
    <3>4. ASSUME NEW e \in Episodes PROVE SamePlace(episode'[e], episode[e])
      <4>1. SamePlace(episode[e], episode[e])
        BY <1>0 DEF SamePlace
      <4>2. QED
        BY <3>1, <3>3, <4>1
    <3>5. episode' \in [Episodes -> EpisodeRow]
      <4>1. episode' = [e \in Episodes |-> episode'[e]]
        BY <3>1
      <4>2. QED
        BY <3>4, <4>1, RowsTyped
    <3>6. ShelfStep
      BY <3>4, <3>5, RowsStay
    <3>7. QED
      BY <1>0, <1>2, <2>1, <3>5, <3>6 DEF PublishCommit, TablesOK
  <2>4. QED
    BY <1>2, <2>2, <2>3 DEF PublishCommit
<1>3. ASSUME NEW e \in Episodes, NEW es \in SUBSET Episodes, Copy(r, e, es)
      PROVE  TablesOK' /\ ShelfStep /\ Asked(r)
  <2>1. TablesOK' /\ ShelfStep
    BY <1>0, <1>3, Unmoved DEF Copy, TablesOK
  <2>2. CASE Answer(r, "missing") \/ Answer(r, "rejected")
    BY <2>1, <2>2, Answered
  <2>3. CASE Await(r, [Idle EXCEPT !.pc = "copy", !.row = episode[e], !.es = es])
    <3> DEFINE x == [Idle EXCEPT !.pc = "copy", !.row = episode[e], !.es = es]
    <3>1. x \in Slot
      BY <1>0, IdleNamed DEF Slot
    <3>2. x.pc = "copy"
      BY DEF Idle
    <3>3. QED
      BY <2>1, <2>3, <3>1, <3>2 DEF Await, Asked, SlotNamed
  <2>4. QED
    BY <1>3, <2>2, <2>3 DEF Copy
<1>4. ASSUME CopyCommit(r) PROVE TablesOK' /\ ShelfStep /\ Asked(r)
  <2>1. Asked(r)
    BY <1>4, Answered DEF CopyCommit
  <2>2. req[r].row \in EpisodeRow
    BY <1>0 DEF Slot
  <2>3. ASSUME NEW e \in Episodes
        PROVE  SamePlace([episode[e] EXCEPT !.media = req[r].row.media, !.mode = req[r].row.mode,
                           !.url = req[r].row.url, !.hls = req[r].row.hls, !.remux = req[r].row.remux],
                         episode[e])
    BY <1>0, <2>2 DEF SamePlace, EpisodeRow
  <2>4. episode' = [e \in Episodes |->
           IF e \in req[r].es \cap Live
             THEN [episode[e] EXCEPT !.media = req[r].row.media, !.mode = req[r].row.mode,
                     !.url = req[r].row.url, !.hls = req[r].row.hls, !.remux = req[r].row.remux]
             ELSE episode[e]]
    BY <1>4 DEF CopyCommit
  <2>5. ASSUME NEW e \in Episodes PROVE SamePlace(episode'[e], episode[e])
    <3>1. SamePlace(episode[e], episode[e])
      BY <1>0 DEF SamePlace
    <3>2. QED
      BY <2>3, <2>4, <3>1
  <2>6. episode' \in [Episodes -> EpisodeRow]
    <3>1. episode' = [e \in Episodes |-> episode'[e]]
      BY <2>4
    <3>2. QED
      BY <2>5, <3>1, RowsTyped
  <2>7. ShelfStep
    BY <2>5, <2>6, RowsStay
  <2>8. QED
    BY <1>0, <1>4, <2>1, <2>6, <2>7 DEF CopyCommit, TablesOK
<1>5. QED
  BY <1>1, <1>2, <1>3, <1>4

LEMMA RemoveStep ==
  ASSUME CatalogueInv, NEW r \in Requests,
         (\E e \in Episodes : RemoveEpisode(r, e)) \/ RemoveEpisodeCommit(r)
  PROVE  TablesOK' /\ ShelfStep /\ Asked(r)
<1>0. req[r] \in Slot /\ episode \in [Episodes -> EpisodeRow] /\ TablesOK
  BY DEF CatalogueInv, CatalogueTypeOK, TablesOK
<1>1. ASSUME NEW e \in Episodes, RemoveEpisode(r, e)
      PROVE  TablesOK' /\ ShelfStep /\ Asked(r)
  <2>1. TablesOK' /\ ShelfStep
    BY <1>0, <1>1, Unmoved DEF RemoveEpisode, TablesOK
  <2>2. CASE e \notin Live
    BY <1>1, <2>1, <2>2, Answered DEF RemoveEpisode
  <2>3. CASE e \in Live
    <3> DEFINE x == [Idle EXCEPT !.pc = "remove", !.e = e, !.sn = episode[e].season]
    <3>1. episode[e].season \in Seasons
      BY <2>3 DEF CatalogueInv, LivePlaced
    <3>2. x \in Slot
      BY <3>1, IdleNamed DEF Slot, Field
    <3>3. x.pc = "remove" /\ x.e = e /\ x.sn = episode[e].season
      BY DEF Idle
    <3>4. SlotNamed(x)
      BY <2>3, <3>1, <3>3 DEF SlotNamed, Live
    <3>5. QED
      BY <1>1, <2>1, <2>3, <3>2, <3>4 DEF RemoveEpisode, Await, Asked
  <2>4. QED
    BY <2>2, <2>3
<1>2. ASSUME RemoveEpisodeCommit(r) PROVE TablesOK' /\ ShelfStep /\ Asked(r)
  <2> DEFINE e == req[r].e
             n == ArchivedNumber(episode, req[r].sn)
  <2>1. Asked(r)
    BY <1>2, Answered DEF RemoveEpisodeCommit
  <2>2. e \in Episodes /\ episode[e].state # "none"
    BY <1>2 DEF RemoveEpisodeCommit, CatalogueInv, SlotNamed
  <2>3. n \in Int
    BY ArchivedNumberBelow
  <2>4. CASE UNCHANGED <<episode, job>>
    BY <1>0, <1>2, <2>1, <2>4, Unmoved DEF RemoveEpisodeCommit, TablesOK
  <2>5. CASE /\ episode' = [episode EXCEPT ![e].state = "archived", ![e].number = n, ![e].published = FALSE]
             /\ job' = Freed(job, {e})
    <3> HIDE DEF n
    <3> DEFINE row == [episode[e] EXCEPT !.state = "archived", !.number = n, !.published = FALSE]
    <3>0. row \in EpisodeRow /\ row.state = "archived" /\ episode' = [episode EXCEPT ![e] = row]
      <4>1. episode[e] \in EpisodeRow
        BY <1>0, <2>2
      <4>2. row \in EpisodeRow /\ row.state = "archived"
        BY <2>3, <4>1 DEF EpisodeRow
      <4>3. QED
        BY <2>5, <4>2
    <3> HIDE DEF row
    <3>1. episode' \in [Episodes -> EpisodeRow] /\ episode'[e].state = "archived"
      BY <1>0, <2>2, <3>0
    <3>2. Stay({e})
      BY <1>0, <2>2, <2>5 DEF Stay, Same
    <3>3. ShelfStep
      BY <2>2, <3>1, <3>2 DEF ShelfStep, Leaves
    <3>4. job' \in [Jobs -> JobRow(Episodes)]
      BY <1>0, <2>5, FreedJobs DEF TablesOK
    <3>5. QED
      BY <1>0, <1>2, <2>1, <3>1, <3>3, <3>4 DEF RemoveEpisodeCommit, TablesOK
  <2>6. QED
    BY <1>2, <2>4, <2>5 DEF RemoveEpisodeCommit
<1>3. QED
  BY <1>1, <1>2

LEMMA UpdateBeginStep ==
  ASSUME CatalogueInv, NEW r \in Requests, NEW e \in Episodes, NEW d \in Dto, UpdateBegin(r, e, d)
  PROVE  TablesOK' /\ ShelfStep /\ Asked(r)
<1> DEFINE x == [Idle EXCEPT !.pc = "update", !.e = e, !.row = episode[e], !.dto = d]
<1>1. TablesOK' /\ ShelfStep
  BY Unmoved DEF UpdateBegin, CatalogueInv, CatalogueTypeOK, TablesOK
<1>2. CASE Answer(r, "rejected") \/ Answer(r, "missing")
  BY <1>1, <1>2, Answered
<1>3. CASE Await(r, x) /\ LiveSeason(UpdateSeason(x))
  <2>1. x \in Slot
    BY IdleNamed DEF Slot, Field, CatalogueInv, CatalogueTypeOK, TablesOK
  <2>2. x.pc = "update" /\ x.e = e
    BY DEF Idle
  <2>3. UpdateSeason(x) \in Seasons
    BY <1>3 DEF LiveSeason
  <2> HIDE DEF x
  <2>4. SlotNamed(x)
    BY <2>2, <2>3 DEF SlotNamed, UpdateBegin
  <2>5. QED
    BY <1>1, <1>3, <2>1, <2>4 DEF Await, Asked
<1>4. QED
  BY <1>2, <1>3 DEF UpdateBegin

\* Requests about seasons and the series, and those that end without an effect.
LEMMA SeasonStep ==
  ASSUME CatalogueInv, NEW r \in Requests, SeasonRequest(r) \/ Abort(r)
  PROVE  TablesOK' /\ ShelfStep /\ Asked(r)
<1>0. req[r] \in Slot /\ TablesOK /\ season \in [Seasons -> SeasonRow]
  BY DEF CatalogueInv, CatalogueTypeOK, TablesOK
<1>1. ShelfStep
  BY Unmoved DEF SeasonRequest, CreateSeason, Renumber, RenumberCommit, RemoveSeason,
                 RemoveSeasonCommit, RemoveSeries, Abort
<1>2. ASSUME NEW s \in Seasons, NEW n \in Field(Numbers), CreateSeason(r, s, n)
      PROVE  TablesOK' /\ Asked(r)
  <2> DEFINE number == IF n = Null THEN HighestSeason + 1 ELSE n
             row == [state |-> "live", number |-> number, published |-> FALSE]
  <2>1. Asked(r)
    BY <1>2, Answered DEF CreateSeason
  <2>2. number \in Numbers
    BY <1>2 DEF CreateSeason
  <2>3. season' = season \/ season' = [season EXCEPT ![s] = row]
    BY <1>2 DEF CreateSeason
  <2> HIDE DEF number
  <2>4. row \in SeasonRow
    BY <2>2, CatalogueAssumption DEF SeasonRow, Numbers
  <2> HIDE DEF row
  <2>5. season' \in [Seasons -> SeasonRow]
    BY <1>0, <2>3, <2>4
  <2>6. QED
    BY <1>0, <1>2, <2>1, <2>5 DEF CreateSeason, TablesOK
<1>3. ASSUME NEW s \in Seasons, NEW n \in Field(Numbers), NEW to \in Field(BOOLEAN), Renumber(r, s, n, to)
      PROVE  TablesOK' /\ Asked(r)
  <2> DEFINE x == [Idle EXCEPT !.pc = "renumber", !.sn = s, !.dto.number = n, !.dto.published = to]
             body == [Idle.dto EXCEPT !.number = n, !.published = to]
  <2>1. TablesOK'
    BY <1>0, <1>3 DEF Renumber, TablesOK
  <2>2. CASE Answer(r, "missing") \/ Answer(r, "conflict")
    BY <2>1, <2>2, Answered
  <2>3. CASE Await(r, x)
    <3>0. body \in Dto /\ Idle \in Slot
      BY IdleNamed DEF Slot, Dto
    <3>1. x \in Slot
      <4>1. x = [Idle EXCEPT !.pc = "renumber", !.sn = s, !.dto = body]
        BY <3>0 DEF Slot
      <4> HIDE DEF body, x
      <4>2. QED
        BY <3>0, <4>1 DEF Slot, Field
    <3>2. x.pc = "renumber" /\ x.sn = s
      BY DEF Idle
    <3> HIDE DEF x
    <3>3. QED
      BY <2>1, <2>3, <3>1, <3>2 DEF Await, Asked, SlotNamed
  <2>4. QED
    BY <1>3, <2>2, <2>3 DEF Renumber
<1>4. ASSUME RenumberCommit(r) PROVE TablesOK' /\ Asked(r)
  <2> DEFINE s == req[r].sn
             n == req[r].dto.number
             to == req[r].dto.published
             row == [season[s] EXCEPT !.number = IF n = Null THEN @ ELSE n,
                                      !.published = IF to = Null THEN @ ELSE to]
  <2>1. Asked(r)
    BY <1>4, Answered DEF RenumberCommit
  <2>2. s \in Seasons /\ n \in Field(Numbers) /\ to \in Field(BOOLEAN)
    BY <1>0, <1>4 DEF RenumberCommit, CatalogueInv, SlotNamed, Slot, Dto
  <2>3. row \in SeasonRow
    <3>1. season[s] \in SeasonRow
      BY <1>0, <2>2
    <3>2. n # Null => n \in 0..MaxNumber
      BY <2>2, CatalogueAssumption DEF Field, Numbers
    <3>3. QED
      BY <2>2, <3>1, <3>2 DEF SeasonRow, Field
  <2>4. season' = season \/ season' = [season EXCEPT ![s] = row]
    BY <1>4 DEF RenumberCommit
  <2> HIDE DEF row
  <2>5. season' \in [Seasons -> SeasonRow]
    BY <1>0, <2>3, <2>4
  <2>6. QED
    BY <1>0, <1>4, <2>1, <2>5 DEF RenumberCommit, TablesOK
<1>5. ASSUME NEW s \in Seasons, RemoveSeason(r, s) PROVE TablesOK' /\ Asked(r)
  <2> DEFINE x == [Idle EXCEPT !.pc = "removeSeason", !.sn = s]
  <2>1. TablesOK'
    BY <1>0, <1>5 DEF RemoveSeason, TablesOK
  <2>2. CASE Answer(r, "missing") \/ Answer(r, "conflict")
    BY <2>1, <2>2, Answered
  <2>3. CASE Await(r, x)
    <3>1. x \in Slot
      BY IdleNamed DEF Slot, Field
    <3>2. x.pc = "removeSeason" /\ x.sn = s
      BY DEF Idle
    <3> HIDE DEF x
    <3>3. QED
      BY <2>1, <2>3, <3>1, <3>2 DEF Await, Asked, SlotNamed
  <2>4. QED
    BY <1>5, <2>2, <2>3 DEF RemoveSeason
<1>6. ASSUME RemoveSeasonCommit(r) PROVE TablesOK' /\ Asked(r)
  <2> DEFINE s == req[r].sn
             row == [season[s] EXCEPT !.state = "removed", !.published = FALSE]
  <2>1. Asked(r)
    BY <1>6, Answered DEF RemoveSeasonCommit
  <2>2. s \in Seasons
    BY <1>6 DEF RemoveSeasonCommit, CatalogueInv, SlotNamed
  <2>3. row \in SeasonRow
    BY <1>0, <2>2 DEF SeasonRow
  <2>4. season' = [season EXCEPT ![s] = row]
    BY <1>6 DEF RemoveSeasonCommit
  <2> HIDE DEF row
  <2>5. season' \in [Seasons -> SeasonRow]
    BY <1>0, <2>3, <2>4
  <2>6. QED
    BY <1>0, <1>6, <2>1, <2>5 DEF RemoveSeasonCommit, TablesOK
<1>7. ASSUME RemoveSeries(r) \/ Abort(r) PROVE TablesOK' /\ Asked(r)
  <2>1. Asked(r)
    BY <1>7, Answered DEF RemoveSeries, Abort
  <2>2. TablesOK'
    BY <1>0, <1>7 DEF RemoveSeries, Abort, TablesOK
  <2>3. QED
    BY <2>1, <2>2
<1>9. QED
  BY <1>1, <1>2, <1>3, <1>4, <1>5, <1>6, <1>7 DEF SeasonRequest

\* The pipeline writes the video of an episode and leaves its place.
LEMMA PipelineStep ==
  ASSUME CatalogueInv, Pipeline
  PROVE  TablesOK' /\ Stay({}) /\ req' = req
<1>0. /\ TablesOK /\ episode \in [Episodes -> EpisodeRow] /\ media \in [Media -> MediaRow]
      /\ job \in [Jobs -> JobRow(Episodes)] /\ dest \in [Jobs -> Field(Episodes)]
  BY DEF CatalogueInv, CatalogueTypeOK, TablesOK
<1>1. PICK j \in Jobs :
        (\E e \in Field(Live) : Enqueue(j, e)) \/ JobCompletes(j) \/ JobFails(j) \/ WorkerAssociates(j)
  BY DEF Pipeline
<1>2. InputOf[j] \in Media /\ job[j] \in JobRow(Episodes)
  BY <1>0, <1>1, PlaybackAssumption
<1>3. ASSUME NEW st \in {"READY", "BUSY", "DELETED"}
      PROVE  [media EXCEPT ![InputOf[j]].status = st] \in [Media -> MediaRow]
  <2>1. [media[InputOf[j]] EXCEPT !.status = st] \in MediaRow
    BY <1>0, <1>2 DEF MediaRow
  <2>2. QED
    BY <1>0, <1>2, <2>1
<1>4. ASSUME NEW row \in JobRow(Episodes)
      PROVE  [job EXCEPT ![j] = row] \in [Jobs -> JobRow(Episodes)]
  BY <1>0
<1>5. ASSUME NEW e \in Field(Live), Enqueue(j, e) PROVE TablesOK' /\ Stay({}) /\ req' = req
  <2> DEFINE row == [job[j] EXCEPT !.status = "ACTIVE", !.target = IF e = Null THEN @ ELSE e]
  <2>1. row \in JobRow(Episodes)
    BY <1>2, <1>5 DEF JobRow, Field, Live
  <2>2. job' = [job EXCEPT ![j] = row]
    BY <1>5 DEF Enqueue
  <2> HIDE DEF row
  <2>3. job' \in [Jobs -> JobRow(Episodes)] /\ media' \in [Media -> MediaRow]
    BY <1>3, <1>4, <1>5, <2>1, <2>2 DEF Enqueue
  <2>4. QED
    BY <1>0, <1>5, <2>3, Unmoved DEF Enqueue, TablesOK
<1>6. ASSUME JobCompletes(j) PROVE TablesOK' /\ Stay({}) /\ req' = req
  <2> DEFINE row == [job[j] EXCEPT !.status = "COMPLETED", !.output = TRUE, !.stored = TRUE]
             st == IF job[j].target = Null THEN "READY" ELSE media[InputOf[j]].status
  <2>1. row \in JobRow(Episodes) /\ job[j].target \in Field(Episodes)
    BY <1>2 DEF JobRow, Field
  <2>2. job' = [job EXCEPT ![j] = row]
    BY <1>6 DEF JobCompletes
  <2>3. st \in {"READY", "BUSY", "DELETED"} /\ media' = [media EXCEPT ![InputOf[j]].status = st]
    BY <1>0, <1>2, <1>6 DEF JobCompletes, MediaRow
  <2> HIDE DEF row, st
  <2>4. /\ job' \in [Jobs -> JobRow(Episodes)] /\ media' \in [Media -> MediaRow]
        /\ dest' \in [Jobs -> Field(Episodes)]
    <3>1. job' \in [Jobs -> JobRow(Episodes)] /\ media' \in [Media -> MediaRow]
      BY <1>3, <1>4, <2>1, <2>2, <2>3
    <3>2. dest' \in [Jobs -> Field(Episodes)]
      BY <1>0, <1>6, <2>1 DEF JobCompletes
    <3>3. QED
      BY <3>1, <3>2
  <2>5. QED
    BY <1>0, <1>6, <2>4, Unmoved DEF JobCompletes, TablesOK
<1>7. ASSUME JobFails(j) PROVE TablesOK' /\ Stay({}) /\ req' = req
  <2>1. PICK st \in {"FAILED", "CANCELLED"} : job' = [job EXCEPT ![j].status = st]
    BY <1>7 DEF JobFails
  <2>2. [job[j] EXCEPT !.status = st] \in JobRow(Episodes)
    BY <1>2 DEF JobRow
  <2>3. job' \in [Jobs -> JobRow(Episodes)] /\ media' \in [Media -> MediaRow]
    BY <1>3, <1>4, <1>7, <2>1, <2>2 DEF JobFails
  <2>4. QED
    BY <1>0, <1>7, <2>3, Unmoved DEF JobFails, TablesOK
<1>8. ASSUME WorkerAssociates(j) PROVE TablesOK' /\ Stay({}) /\ req' = req
  <2> DEFINE e == dest[j]
             ep == [episode EXCEPT ![e] = Associated(@, j)]
  <2>1. e \in Episodes
    BY <1>0, <1>8 DEF WorkerAssociates, Field
  <2>2. dest' \in [Jobs -> Field(Episodes)]
    BY <1>0, <1>8 DEF WorkerAssociates, Field
  <2>3. CASE SecondDefault(j, e)
    <3>1. [job[j] EXCEPT !.status = "FAILED", !.stored = FALSE] \in JobRow(Episodes)
      BY <1>2 DEF JobRow
    <3>2. /\ job' = [job EXCEPT ![j] = [job[j] EXCEPT !.status = "FAILED", !.stored = FALSE]]
          /\ media' = [media EXCEPT ![InputOf[j]].status = "READY"] /\ UNCHANGED episode
      BY <1>8, <2>3 DEF WorkerAssociates
    <3>3. job' \in [Jobs -> JobRow(Episodes)] /\ media' \in [Media -> MediaRow]
      BY <1>3, <1>4, <3>1, <3>2
    <3>4. QED
      BY <1>0, <1>8, <2>2, <3>2, <3>3, Unmoved DEF WorkerAssociates, TablesOK
  <2>4. CASE ~SecondDefault(j, e)
    <3> DEFINE asc == job[j].assoc \/ job[j].target = e
               ret == job[j].retain \/ Cardinality(References(ep, InputOf[j])) > 1
               row == [job[j] EXCEPT !.assoc = asc, !.retain = ret]
    <3>1. asc \in BOOLEAN /\ ret \in BOOLEAN
      <4>1. job[j].assoc \in BOOLEAN /\ job[j].retain \in BOOLEAN
        BY <1>2 DEF JobRow
      <4>2. asc \in BOOLEAN
        BY <4>1
      <4>3. ret \in BOOLEAN
        BY <4>1
      <4>4. QED
        BY <4>2, <4>3
    <3>2. job' = [job EXCEPT ![j] = row] /\ episode' = ep /\ media' = Retired(ep, j)
      BY <1>8, <2>4 DEF WorkerAssociates
    <3> HIDE DEF asc, ret
    <3>3. row \in JobRow(Episodes)
      BY <1>2, <3>1 DEF JobRow
    <3> HIDE DEF row
    <3>4. [status |-> "DELETED", stored |-> FALSE] \in MediaRow
      BY DEF MediaRow
    <3>5. media' \in [Media -> MediaRow]
      BY <1>0, <1>2, <1>3, <3>2, <3>4 DEF Retired
    <3>6. /\ Associated(episode[e], j) \in EpisodeRow
          /\ SamePlace(Associated(episode[e], j), episode[e])
      BY <1>0, <2>1, AssociatedRow DEF SamePlace
    <3>7. episode' = [episode EXCEPT ![e] = Associated(episode[e], j)]
      BY <3>2
    <3>8. episode' \in [Episodes -> EpisodeRow]
      BY <1>0, <2>1, <3>6, <3>7
    <3>9. ASSUME NEW x \in Episodes PROVE SamePlace(episode'[x], episode[x])
      BY <1>0, <2>1, <3>6, <3>7 DEF SamePlace
    <3>10. Stay({})
      BY <3>9, RowsStay
    <3>11. QED
      BY <1>0, <1>4, <1>8, <2>2, <3>2, <3>3, <3>5, <3>8, <3>10 DEF WorkerAssociates, TablesOK
  <2>5. QED
    BY <2>3, <2>4
<1>9. QED
  BY <1>1, <1>5, <1>6, <1>7, <1>8

\* A request of the constants, or one with any other body: a page fills in its own.
AnyRequest(r) ==
  \/ EpisodeRequest(r) \/ SeasonRequest(r) \/ Abort(r)
  \/ \E d \in NewBodies : Create(r, d)
  \/ \E e \in Episodes, d \in Dto : UpdateBegin(r, e, d)

AnyNext == (\E r \in Requests : AnyRequest(r)) \/ Pipeline

LEMMA RequestStep ==
  ASSUME CatalogueInv, NEW r \in Requests, AnyRequest(r)
  PROVE  TablesOK' /\ ShelfStep /\ Asked(r)
<1>1. ASSUME EpisodeRequest(r) PROVE TablesOK' /\ ShelfStep /\ Asked(r)
  BY <1>1, BodiesSent, CreateStep, UpdateBeginStep, UpdateStep, BulkStep, ImportStep, SharedStep, RemoveStep
  DEF EpisodeRequest
<1>2. QED
  BY <1>1, SeasonStep, CreateStep, UpdateBeginStep DEF AnyRequest

\* A row that is used stays used, and a live one keeps a place.
LEMMA PlacesKept ==
  ASSUME LivePlaced, ShelfStep
  PROVE  /\ LivePlaced'
         /\ \A e \in Episodes : episode[e].state # "none" => episode'[e].state # "none"
<1>1. CASE Stay({})
  BY <1>1 DEF Stay, Same, LivePlaced, Live
<1>2. ASSUME NEW s \in Seasons, NEW E \in SUBSET Episodes, NEW f \in [E -> Numbers], Lands(E, s, f)
      PROVE  /\ LivePlaced'
             /\ \A e \in Episodes : episode[e].state # "none" => episode'[e].state # "none"
  <2>1. \A e \in E : episode'[e].season \in Seasons /\ episode'[e].number \in Numbers
    BY <1>2 DEF Lands
  <2>2. QED
    BY <1>2, <2>1 DEF Lands, Stay, Same, LivePlaced, Live
<1>3. ASSUME NEW e \in Episodes, NEW s \in Seasons, NEW n \in Int, Moves(e, s, n)
      PROVE  /\ LivePlaced'
             /\ \A o \in Episodes : episode[o].state # "none" => episode'[o].state # "none"
  BY <1>3 DEF Moves, Stay, Same, LivePlaced, Live
<1>4. ASSUME NEW e \in Episodes, Leaves(e)
      PROVE  /\ LivePlaced'
             /\ \A o \in Episodes : episode[o].state # "none" => episode'[o].state # "none"
  BY <1>4 DEF Leaves, Stay, Same, LivePlaced, Live
<1>5. QED
  BY <1>1, <1>2, <1>3, <1>4 DEF ShelfStep

LEMMA AnyCatalogue ==
  CatalogueInv /\ [AnyNext]_catalogueVars => CatalogueInv' /\ ShelfStep
<1> SUFFICES ASSUME CatalogueInv, [AnyNext]_catalogueVars PROVE CatalogueInv' /\ ShelfStep
  OBVIOUS
<1>1. /\ req \in [Requests -> Slot] /\ LivePlaced
      /\ \A q \in Requests : SlotNamed(req[q])
  BY DEF CatalogueInv, CatalogueTypeOK
<1>2. TablesOK' /\ ShelfStep /\ (req' = req \/ \E r \in Requests : Asked(r))
  <2>1. ASSUME NEW r \in Requests, AnyRequest(r) PROVE TablesOK' /\ ShelfStep /\ Asked(r)
    BY <2>1, RequestStep
  <2>2. CASE Pipeline
    BY <2>2, PipelineStep DEF ShelfStep
  <2>3. CASE UNCHANGED catalogueVars
    BY <2>3, Unmoved DEF catalogueVars, CatalogueInv, CatalogueTypeOK, TablesOK
  <2>4. QED
    BY <2>1, <2>2, <2>3 DEF AnyNext
<1>3. \A e \in Episodes : episode[e].state # "none" => episode'[e].state # "none"
  BY <1>1, <1>2, PlacesKept
<1>4. ASSUME NEW x, SlotNamed(x) PROVE x.pc \in {"update", "remove"} => episode'[x.e].state # "none"
  BY <1>3, <1>4 DEF SlotNamed
<1>5. \A q \in Requests : req'[q] \in Slot /\ SlotNamed(req'[q])
  <2>1. CASE req' = req
    BY <1>1, <2>1
  <2>2. ASSUME NEW r \in Requests, Asked(r) PROVE \A q \in Requests : req'[q] \in Slot /\ SlotNamed(req'[q])
    <3>1. PICK x \in Slot : SlotNamed(x) /\ req' = [req EXCEPT ![r] = x]
      BY <2>2 DEF Asked
    <3>2. QED
      BY <1>1, <3>1
  <2>3. QED
    BY <1>2, <2>1, <2>2
<1>6. req' \in [Requests -> Slot]
  <2>1. CASE req' = req
    BY <1>1, <2>1
  <2>2. ASSUME NEW r \in Requests, Asked(r) PROVE req' \in [Requests -> Slot]
    BY <1>1, <2>2 DEF Asked
  <2>3. QED
    BY <1>2, <2>1, <2>2
<1>7. ASSUME NEW q \in Requests PROVE SlotNamed(req[q])'
  <2>1. SlotNamed(req'[q])
    BY <1>5
  <2>2. req'[q].pc \in {"update", "remove"} => episode'[req'[q].e].state # "none"
    BY <1>4, <2>1
  <2>3. QED
    BY <2>1, <2>2 DEF SlotNamed, UpdateSeason
<1>8. QED
  BY <1>1, <1>2, <1>6, <1>7, PlacesKept DEF CatalogueInv, CatalogueTypeOK

LEMMA NextCatalogue ==
  CatalogueInv /\ [CatalogueNext]_catalogueVars => CatalogueInv' /\ ShelfStep
BY AnyCatalogue DEF CatalogueNext, AnyNext, AnyRequest

LEMMA InitCatalogue == Init => CatalogueInv
<1> SUFFICES ASSUME Init PROVE CatalogueInv
  OBVIOUS
<1> DEFINE first == CHOOSE o \in Seasons : TRUE
           old == [NoEpisode EXCEPT !.state = "archived", !.season = first, !.number = 1]
<1>1. first \in Seasons
  BY CatalogueAssumption
<1>2. NoEpisode \in EpisodeRow /\ old \in EpisodeRow
  <2>1. NoEpisode \in EpisodeRow
    BY DEF NoEpisode, EpisodeRow, Field, Modes
  <2>2. ASSUME NEW s \in Seasons
        PROVE  [NoEpisode EXCEPT !.state = "archived", !.season = s, !.number = 1] \in EpisodeRow
    <3> DEFINE row == [NoEpisode EXCEPT !.state = "archived", !.season = s, !.number = 1]
    <3>1. /\ DOMAIN row = DOMAIN NoEpisode
          /\ row.state = "archived" /\ row.season = s /\ row.number = 1
          /\ row.media = Null /\ row.mode = "ORIGINAL" /\ row.url = Null /\ row.hls = Null
          /\ row.remux = Null /\ row.published = FALSE /\ row.def = Null
      BY DEF NoEpisode
    <3>2. s \in Field(Seasons)
      BY DEF Field
    <3>3. 1 \in Int
      OBVIOUS
    <3>4. QED
      BY <2>1, <3>2, <3>3 DEF EpisodeRow
  <2>3. QED
    BY <1>1, <2>1, <2>2
<1>3. NoEpisode.state = "none" /\ old.state = "archived"
  BY <1>2 DEF NoEpisode
<1>4. episode = [e \in Episodes |-> IF e \in Legacy THEN old ELSE NoEpisode]
  BY DEF Init
<1> HIDE DEF old
<1>5. episode \in [Episodes -> EpisodeRow] /\ LivePlaced
  BY <1>2, <1>3, <1>4 DEF LivePlaced, Live
<1>6. season \in [Seasons -> SeasonRow]
  <2>1. 0 \in 0..MaxNumber /\ 1 \in 0..MaxNumber
    BY CatalogueAssumption
  <2>2. /\ [state |-> "live", number |-> 1, published |-> TRUE] \in SeasonRow
        /\ [state |-> "none", number |-> 0, published |-> FALSE] \in SeasonRow
    BY <2>1 DEF SeasonRow
  <2>3. QED
    BY <2>2 DEF Init
<1>7. job \in [Jobs -> JobRow(Episodes)] /\ dest \in [Jobs -> Field(Episodes)]
  <2>1. ASSUME NEW j \in Jobs
        PROVE  [status |-> "ABSENT", output |-> FALSE, stored |-> FALSE, target |-> Null,
                retain |-> j \in Retained, assoc |-> FALSE] \in JobRow(Episodes)
    <3>1. (j \in Retained) \in BOOLEAN
      OBVIOUS
    <3>2. QED
      BY <3>1, Zenon DEF JobRow
  <2>2. QED
    BY <2>1 DEF Init, Field
<1>8. media \in [Media -> MediaRow] /\ series \in BOOLEAN
  BY DEF Init, MediaRow
<1>9. req \in [Requests -> Slot] /\ \A r \in Requests : SlotNamed(req[r])
  BY IdleNamed DEF Init
<1>10. QED
  BY <1>5, <1>6, <1>7, <1>8, <1>9 DEF CatalogueInv, CatalogueTypeOK, TablesOK

LEMMA CatalogueKept == CatalogueSpec => []CatalogueInv
BY InitCatalogue, NextCatalogue, PTL DEF CatalogueSpec

\* However many requests overlap, every row stays a row, live episodes keep a
\* season and a number above zero, and no slot names a row that was not read.
THEOREM CatalogueTypes == CatalogueSpec => [](CatalogueTypeOK /\ LivePlaced)
<1>1. CatalogueInv => CatalogueTypeOK /\ LivePlaced
  BY DEF CatalogueInv
<1>2. QED
  BY <1>1, CatalogueKept, PTL

-----------------------------------------------------------------------------
(* What a reply and a view say *)

\* The rows of a season that stand in the way of a number, once the archived
\* ones have made room, are live.
LEMMA OnlyLiveHold ==
  ASSUME episode \in [Episodes -> EpisodeRow], NEW s, NEW n \in Numbers,
         NEW o \in Holder(Released(episode, s, n), s, n)
  PROVE  episode[o].state = "live" /\ o \in Holder(episode, s, n)
<1>1. o \in Episodes /\ Keeps(Released(episode, s, n))
  BY ReleasedKeeps DEF Holder
<1>2. n > 0 /\ n \in Int
  BY CatalogueAssumption DEF Numbers
<1>3. episode[o].state \in {"live", "archived"} /\ episode[o].season = s
  BY <1>1 DEF Keeps, Holder, EpisodeRow
<1>4. episode[o].number = n
  BY <1>1, <1>2 DEF Keeps, Holder, EpisodeRow
<1>5. o \in Holder(episode, s, n)
  BY <1>1, <1>3, <1>4 DEF Holder
<1>6. ASSUME episode[o].state = "archived" PROVE FALSE
  <2>1. o \in Archived(episode, s, n)
    BY <1>5, <1>6 DEF Archived
  <2>2. ArchivedNumber(episode, s) \in Int /\ ArchivedNumber(episode, s) < 0
    BY ArchivedNumberBelow
  <2> HIDE DEF ArchivedNumber
  <2>3. Released(episode, s, n)[o] = [episode[o] EXCEPT !.number = ArchivedNumber(episode, s)]
    BY <1>1, <2>1 DEF Released
  <2>4. Released(episode, s, n)[o].number = ArchivedNumber(episode, s)
    BY <1>1, <2>3 DEF EpisodeRow
  <2>5. QED
    BY <1>2, <2>2, <2>4 DEF Holder
<1>7. QED
  BY <1>3, <1>5, <1>6

\* However many requests overlap, and whatever was archived before: an archived
\* episode never keeps its number from a creation, nor from an edition that
\* gives the number.
THEOREM ConflictsAreLive == CatalogueSpec => []ConflictMeansLive
<1>1. ASSUME CatalogueInv, NEW d \in Creates, CreateReply(d) = "taken"
      PROVE  d.number \in LiveNumbers(episode, d.season)
  <2>1. PICK o : o \in Holder(Released(episode, d.season, d.number), d.season, d.number)
    BY <1>1 DEF CreateReply
  <2>2. d.number \in Numbers
    BY CatalogueAssumption DEF Dto, Field
  <2>3. QED
    BY <1>1, <2>1, <2>2, OnlyLiveHold DEF LiveNumbers, CatalogueInv, CatalogueTypeOK, TablesOK
<1>2. ASSUME CatalogueInv, NEW r \in Requests, req[r].pc = "update", req[r].dto.number # Null,
             UpdateReply(req[r]) = "taken"
      PROVE  \/ Clash(UpdateReleased(req[r]), req[r].e, UpdateSeason(req[r]), UpdateNumber(req[r]))
             \/ req[r].dto.job # Null /\ SecondDefault(req[r].dto.job, req[r].e)
             \/ req[r].e \notin Live
  <2> DEFINE s == req[r]
             S == UpdateSeason(s)
             n == s.dto.number
  <2>1. n \in Numbers /\ UpdateNumber(s) = n /\ UpdateReleased(s) = Released(episode, S, n)
    BY <1>2 DEF CatalogueInv, CatalogueTypeOK, Slot, Dto, Field, UpdateNumber, UpdateReleased
  <2>2. CASE Holder(UpdateReleased(s), S, UpdateNumber(s)) \ {s.e} # {}
    <3>1. PICK o \in Holder(UpdateReleased(s), S, UpdateNumber(s)) \ {s.e} : TRUE
      BY <2>2
    <3>2. o \in Holder(Released(episode, S, n), S, n) /\ episode \in [Episodes -> EpisodeRow]
      BY <1>2, <2>1, <3>1 DEF CatalogueInv, CatalogueTypeOK, TablesOK
    <3>3. episode[o].state = "live" /\ o \in Episodes
      BY <2>1, <3>2, OnlyLiveHold DEF Holder
    <3>4. Released(episode, S, n)[o].state = "live"
      BY <3>2, <3>3, ReleasedKeeps DEF Keeps
    <3>5. QED
      BY <2>1, <3>1, <3>4 DEF Clash
  <2>3. CASE SecondDefault(s.dto.job, s.e)
    BY <2>3 DEF SecondDefault, Subtitles
  <2>4. QED
    BY <1>2, <2>2, <2>3 DEF UpdateReply
<1>3. CatalogueInv => ConflictMeansLive
  BY <1>1, <1>2 DEF ConflictMeansLive
<1>4. QED
  BY <1>3, CatalogueKept, PTL

-----------------------------------------------------------------------------
(* Who owns a job *)

\* A job that was never created has no destination, and the output of a
\* completed one is registered and stored.
JobsSound ==
  \A j \in Jobs : /\ job[j].status = "ABSENT" => job[j].target = Null
                  /\ job[j].status = "COMPLETED" => job[j].output /\ job[j].stored

\* A job keeps its destination, loses it, or had none and gets one, which counts
\* as associated once the job has completed; nothing else of the row changes.
Owned(jobs, j) ==
  /\ \/ jobs[j].target \in {job[j].target, Null}
     \/ job[j].target = Null /\ job[j].status # "ABSENT"
  /\ \/ jobs[j].target = Null
     \/ jobs[j].target = job[j].target /\ jobs[j].assoc = job[j].assoc
     \/ jobs[j].assoc = (job[j].status = "COMPLETED")
  /\ jobs[j].status = job[j].status /\ jobs[j].output = job[j].output /\ jobs[j].stored = job[j].stored

LEMMA FreedOwned ==
  ASSUME NEW jobs \in [Jobs -> JobRow(Episodes)], NEW es, \A j \in Jobs : Owned(jobs, j)
  PROVE  \A j \in Jobs : Owned(Freed(jobs, es), j)
<1>1. ASSUME NEW j \in Jobs PROVE Owned(Freed(jobs, es), j)
  <2>1. /\ [jobs[j] EXCEPT !.target = Null, !.assoc = FALSE].target = Null
        /\ [jobs[j] EXCEPT !.target = Null, !.assoc = FALSE].status = jobs[j].status
        /\ [jobs[j] EXCEPT !.target = Null, !.assoc = FALSE].output = jobs[j].output
        /\ [jobs[j] EXCEPT !.target = Null, !.assoc = FALSE].stored = jobs[j].stored
    BY DEF JobRow
  <2>2. QED
    BY <2>1 DEF Owned, Freed
<1>2. QED
  BY <1>1

LEMMA ReservedOwned ==
  ASSUME NEW jobs \in [Jobs -> JobRow(Episodes)], NEW k \in Field(Jobs), NEW e,
         \A j \in Jobs : Owned(jobs, j),
         k # Null => job[k].status # "ABSENT" /\ job[k].target \in {Null, e}
  PROVE  \A j \in Jobs : Owned(Reserved(jobs, k, e), j)
<1>1. CASE k = Null
  BY <1>1 DEF Reserved
<1>2. CASE k # Null
  <2> DEFINE row == [jobs[k] EXCEPT !.target = e, !.assoc = (jobs[k].status = "COMPLETED")]
  <2>1. k \in Jobs
    BY <1>2 DEF Field
  <2>2. /\ row.target = e /\ row.status = jobs[k].status
        /\ row.output = jobs[k].output /\ row.stored = jobs[k].stored
    BY <2>1 DEF JobRow
  <2>3. row.assoc = (jobs[k].status = "COMPLETED")
    BY <2>1 DEF JobRow
  <2>4. Reserved(jobs, k, e) = [jobs EXCEPT ![k] = row]
    BY <1>2 DEF Reserved
  <2> HIDE DEF row
  <2>5. Reserved(jobs, k, e)[k] = row /\ \A j \in Jobs \ {k} : Reserved(jobs, k, e)[j] = jobs[j]
    BY <2>1, <2>4
  <2>6. Owned(jobs, k)
    BY <2>1
  <2>7. Owned(Reserved(jobs, k, e), k)
    BY <1>2, <2>2, <2>3, <2>5, <2>6 DEF Owned
  <2>8. ASSUME NEW j \in Jobs PROVE Owned(Reserved(jobs, k, e), j)
    <3>1. CASE j = k
      BY <2>7, <3>1
    <3>2. CASE j # k
      BY <2>5, <3>2 DEF Owned
    <3>3. QED
      BY <3>1, <3>2
  <2>9. QED
    BY <2>8
<1>3. QED
  BY <1>1, <1>2

LEMMA RequestOwned ==
  ASSUME CatalogueInv, NEW r \in Requests, AnyRequest(r)
  PROVE  \A j \in Jobs : Owned(job', j)
<1>0. job \in [Jobs -> JobRow(Episodes)] /\ \A j \in Jobs : Owned(job, j)
  <2>1. job \in [Jobs -> JobRow(Episodes)]
    BY DEF CatalogueInv, CatalogueTypeOK, TablesOK
  <2>2. ASSUME NEW j \in Jobs PROVE Owned(job, j)
    BY <2>1 DEF Owned, JobRow
  <2>3. QED
    BY <2>1, <2>2
<1>1. CASE job' = job
  BY <1>0, <1>1
<1>2. ASSUME NEW es, job' = Freed(job, es) PROVE \A j \in Jobs : Owned(job', j)
  BY <1>0, <1>2, FreedOwned
<1>3. ASSUME NEW d \in NewBodies, Create(r, d), job' # job PROVE \A j \in Jobs : Owned(job', j)
  <2> DEFINE freed == FreedBy(job, episode, d.season, d.number)
  <2>1. job' = Reserved(freed, d.job, Fresh(episode))
    BY <1>3 DEF Create
  <2>2. CreateReply(d) = "ok"
    BY <1>3 DEF Create
  <2>3. d.job \in Field(Jobs)
    BY DEF NewBodies, Dto
  <2>4. d.job # Null => job[d.job].status # "ABSENT" /\ job[d.job].target \in {Null, Fresh(episode)}
    BY <2>2 DEF CreateReply, Linkable
  <2>5. freed \in [Jobs -> JobRow(Episodes)] /\ \A j \in Jobs : Owned(freed, j)
    BY <1>0, FreedJobs, FreedOwned DEF FreedBy
  <2> HIDE DEF freed
  <2>6. QED
    BY <2>1, <2>3, <2>4, <2>5, ReservedOwned
<1>4. ASSUME Update(r), job' # job PROVE \A j \in Jobs : Owned(job', j)
  <2> DEFINE s == req[r]
             freed == IF s.dto.number = Null THEN job
                      ELSE FreedBy(job, episode, UpdateSeason(s), s.dto.number)
             rest == [j \in Jobs |-> IF j \in UpdateDropped(s)
                         THEN [freed[j] EXCEPT !.target = Null, !.assoc = FALSE] ELSE freed[j]]
  <2>1. job' = Reserved(rest, s.dto.job, s.e)
    BY <1>4 DEF Update, UpdateJobs
  <2>2. UpdateReply(s) = "ok"
    BY <1>4 DEF Update
  <2>3. s.dto.job \in Field(Jobs)
    BY DEF CatalogueInv, CatalogueTypeOK, Slot, Dto
  <2>4. s.dto.job # Null => job[s.dto.job].status # "ABSENT" /\ job[s.dto.job].target \in {Null, s.e}
    BY <2>2 DEF UpdateReply, Linkable
  <2>5. freed \in [Jobs -> JobRow(Episodes)] /\ \A j \in Jobs : Owned(freed, j)
    BY <1>0, FreedJobs, FreedOwned DEF FreedBy
  <2>6. rest \in [Jobs -> JobRow(Episodes)] /\ \A j \in Jobs : Owned(rest, j)
    <3> HIDE DEF freed
    <3>1. ASSUME NEW j \in Jobs
          PROVE  /\ [freed[j] EXCEPT !.target = Null, !.assoc = FALSE] \in JobRow(Episodes)
                 /\ [freed[j] EXCEPT !.target = Null, !.assoc = FALSE].target = Null
                 /\ [freed[j] EXCEPT !.target = Null, !.assoc = FALSE].status = freed[j].status
                 /\ [freed[j] EXCEPT !.target = Null, !.assoc = FALSE].output = freed[j].output
                 /\ [freed[j] EXCEPT !.target = Null, !.assoc = FALSE].stored = freed[j].stored
      BY <2>5 DEF JobRow
    <3>2. rest \in [Jobs -> JobRow(Episodes)]
      BY <2>5, <3>1
    <3>3. \A j \in Jobs : Owned(rest, j)
      BY <2>5, <3>1 DEF Owned
    <3>4. QED
      BY <3>2, <3>3
  <2> HIDE DEF rest
  <2>7. QED
    BY <2>1, <2>3, <2>4, <2>6, ReservedOwned
<1>5. ASSUME NEW s \in Seasons, NEW b \in Batches, Bulk(r, s, b) PROVE \A j \in Jobs : Owned(job', j)
  BY <1>1, <1>2, <1>5 DEF Bulk
<1>6. ASSUME RemoveEpisodeCommit(r) PROVE \A j \in Jobs : Owned(job', j)
  BY <1>1, <1>2, <1>6 DEF RemoveEpisodeCommit
<1>7. \/ job' = job
      \/ \E d \in NewBodies : Create(r, d)
      \/ Update(r)
      \/ \E s \in Seasons, b \in Batches : Bulk(r, s, b)
      \/ RemoveEpisodeCommit(r)
  BY BodiesSent DEF AnyRequest, EpisodeRequest, SeasonRequest, Abort, UpdateBegin, Import, ImportCommit, Publish,
         PublishCommit, Copy, CopyCommit, RemoveEpisode, CreateSeason, Renumber, RenumberCommit,
         RemoveSeason, RemoveSeasonCommit, RemoveSeries
<1>8. QED
  BY <1>1, <1>3, <1>4, <1>5, <1>6, <1>7

\* The pipeline gives a destination to a new job alone.
LEMMA PipelineSound ==
  ASSUME CatalogueInv, JobsSound, Pipeline
  PROVE  /\ JobsSound'
         /\ \A j \in Jobs : job'[j].target \in {job[j].target, Null} \/ job[j].target = Null
<1>0. job \in [Jobs -> JobRow(Episodes)]
  BY DEF CatalogueInv, CatalogueTypeOK, TablesOK
<1> USE <1>0
<1>1. PICK j \in Jobs :
        (\E e \in Field(Live) : Enqueue(j, e)) \/ JobCompletes(j) \/ JobFails(j) \/ WorkerAssociates(j)
  BY DEF Pipeline
<1>2. ASSUME NEW row, job' = [job EXCEPT ![j] = row],
             row.target \in {job[j].target, Null} \/ job[j].target = Null,
             row.status # "ABSENT", row.status = "COMPLETED" => row.output /\ row.stored
      PROVE  /\ JobsSound'
             /\ \A k \in Jobs : job'[k].target \in {job[k].target, Null} \/ job[k].target = Null
  BY <1>2 DEF JobsSound
<1>3. ASSUME NEW e \in Field(Live), Enqueue(j, e)
      PROVE  /\ JobsSound'
             /\ \A k \in Jobs : job'[k].target \in {job[k].target, Null} \/ job[k].target = Null
  <2> DEFINE row == [job[j] EXCEPT !.status = "ACTIVE", !.target = IF e = Null THEN @ ELSE e]
  <2>1. job' = [job EXCEPT ![j] = row]
    BY <1>3 DEF Enqueue
  <2>2. row.status = "ACTIVE" /\ row.target = IF e = Null THEN job[j].target ELSE e
    BY DEF JobRow
  <2>3. e = Null \/ job[j].target = Null
    BY <1>3 DEF Enqueue, JobsSound
  <2> HIDE DEF row
  <2>4. QED
    BY <1>2, <2>1, <2>2, <2>3
<1>4. ASSUME JobCompletes(j)
      PROVE  /\ JobsSound'
             /\ \A k \in Jobs : job'[k].target \in {job[k].target, Null} \/ job[k].target = Null
  <2> DEFINE row == [job[j] EXCEPT !.status = "COMPLETED", !.output = TRUE, !.stored = TRUE]
  <2>1. job' = [job EXCEPT ![j] = row]
    BY <1>4 DEF JobCompletes
  <2>2. row.status = "COMPLETED" /\ row.target = job[j].target /\ row.output /\ row.stored
    BY DEF JobRow
  <2> HIDE DEF row
  <2>3. QED
    BY <1>2, <2>1, <2>2
<1>5. ASSUME JobFails(j)
      PROVE  /\ JobsSound'
             /\ \A k \in Jobs : job'[k].target \in {job[k].target, Null} \/ job[k].target = Null
  <2>1. PICK st \in {"FAILED", "CANCELLED"} : job' = [job EXCEPT ![j].status = st]
    BY <1>5 DEF JobFails
  <2> DEFINE row == [job[j] EXCEPT !.status = st]
  <2>2. row.status = st /\ row.target = job[j].target
    BY DEF JobRow
  <2>3. job' = [job EXCEPT ![j] = row]
    BY <2>1
  <2> HIDE DEF row
  <2>4. QED
    BY <1>2, <2>2, <2>3
<1>6. ASSUME WorkerAssociates(j)
      PROVE  /\ JobsSound'
             /\ \A k \in Jobs : job'[k].target \in {job[k].target, Null} \/ job[k].target = Null
  <2>1. CASE SecondDefault(j, dest[j])
    <3> DEFINE row == [job[j] EXCEPT !.status = "FAILED", !.stored = FALSE]
    <3>1. job' = [job EXCEPT ![j] = row]
      BY <1>6, <2>1 DEF WorkerAssociates
    <3>2. row.status = "FAILED" /\ row.target = job[j].target
      BY DEF JobRow
    <3> HIDE DEF row
    <3>3. QED
      BY <1>2, <3>1, <3>2
  <2>2. CASE ~SecondDefault(j, dest[j])
    <3> DEFINE e == dest[j]
               ep == [episode EXCEPT ![e] = Associated(@, j)]
               mark == job[j].assoc \/ job[j].target = e
               keep == job[j].retain \/ Cardinality(References(ep, InputOf[j])) > 1
    <3>1. job' = [job EXCEPT ![j].assoc = mark, ![j].retain = keep]
      BY <1>6, <2>2 DEF WorkerAssociates
    <3> HIDE DEF mark, keep
    <3>2. \A k \in Jobs : job'[k].status = job[k].status /\ job'[k].target = job[k].target
                          /\ job'[k].output = job[k].output /\ job'[k].stored = job[k].stored
      BY <3>1 DEF JobRow
    <3>3. QED
      BY <3>2 DEF JobsSound
  <2>3. QED
    BY <2>1, <2>2
<1>7. QED
  BY <1>1, <1>3, <1>4, <1>5, <1>6

LEMMA AnyOwned ==
  ASSUME CatalogueInv, JobsSound, [AnyNext]_catalogueVars
  PROVE  /\ JobsSound'
         /\ \A j \in Jobs : job'[j].target \in {job[j].target, Null} \/ job[j].target = Null
<1>1. ASSUME \A j \in Jobs : Owned(job', j)
      PROVE  /\ JobsSound'
             /\ \A j \in Jobs : job'[j].target \in {job[j].target, Null} \/ job[j].target = Null
  BY <1>1 DEF JobsSound, Owned
<1>2. CASE UNCHANGED catalogueVars
  BY <1>2 DEF catalogueVars, JobsSound
<1>3. QED
  BY <1>1, <1>2, RequestOwned, PipelineSound DEF AnyNext

LEMMA NextOwned ==
  ASSUME CatalogueInv, JobsSound, [CatalogueNext]_catalogueVars
  PROVE  /\ JobsSound'
         /\ \A j \in Jobs : job'[j].target \in {job[j].target, Null} \/ job[j].target = Null
BY AnyOwned DEF CatalogueNext, AnyNext, AnyRequest

LEMMA JobsKept == CatalogueSpec => []JobsSound
<1>1. Init => JobsSound
  <2> SUFFICES ASSUME Init PROVE JobsSound
    OBVIOUS
  <2>1. ASSUME NEW j \in Jobs PROVE job[j].status = "ABSENT" /\ job[j].target = Null
    <3>1. job[j] = [status |-> "ABSENT", output |-> FALSE, stored |-> FALSE, target |-> Null,
                    retain |-> j \in Retained, assoc |-> FALSE]
      BY Zenon DEF Init
    <3>2. QED
      BY <3>1
  <2>2. QED
    BY <2>1 DEF JobsSound
<1>2. CatalogueInv /\ JobsSound /\ [CatalogueNext]_catalogueVars => JobsSound'
  BY NextOwned
<1>3. QED
  BY <1>1, <1>2, CatalogueKept, PTL DEF CatalogueSpec

\* No step of a request, of the pipeline or of any interleaving of them gives
\* a job that has a destination to another episode.
THEOREM NothingStolen == CatalogueSpec => RequestsNeverSteal
<1>1. CatalogueInv /\ JobsSound /\ [CatalogueNext]_catalogueVars
        => [\A j \in Jobs :
              job[j].target # Null /\ job'[j].target \notin {Null, job[j].target} =>
                episode[job[j].target].state # "live"]_catalogueVars
  BY NextOwned
<1>2. QED
  BY <1>1, CatalogueKept, JobsKept, PTL DEF CatalogueSpec, RequestsNeverSteal

-----------------------------------------------------------------------------
(* What was checked before an episode is published *)

\* A source that an output of the job provides is one of the file it processed.
LEMMA ManagedByAll ==
  ASSUME CatalogueInv, JobsSound, NEW mode \in Modes, NEW m \in Media,
         NEW js \in SUBSET InputJobs(m),
         ManagedReason(media, job, mode, m, js) = "ready"
  PROVE  ManagedReason(media, job, mode, m, InputJobs(m)) = "ready"
<1> DEFINE Done(S) == {j \in {j \in S : KindOf[j] = mode /\ job[j].status # "ABSENT"} :
                         job[j].status \in {"COMPLETED"}}
<1>1. CASE mode = "ORIGINAL"
  BY <1>1 DEF ManagedReason
<1>2. CASE mode # "ORIGINAL"
  <2>1. Done(js) # {}
    BY <1>2 DEF ManagedReason
  <2>2. Done(InputJobs(m)) # {} /\ Done(InputJobs(m)) \in SUBSET Jobs
    BY <2>1 DEF InputJobs
  <2> DEFINE k == Latest(Done(InputJobs(m)))
  <2>3. k \in Done(InputJobs(m))
    BY <2>2, LatestJob
  <2>4. k \in Jobs /\ job[k].status = "COMPLETED"
    BY <2>3 DEF InputJobs
  <2>5. OutputReason(job[k]) = "ready"
    <3>1. job[k].output /\ job[k].stored
      BY <2>4 DEF JobsSound
    <3>2. QED
      BY <3>1, Zenon DEF OutputReason
  <2>6. ManagedReason(media, job, mode, m, InputJobs(m)) = OutputReason(job[k])
    BY <1>2, <2>2 DEF ManagedReason
  <2>7. QED
    BY <2>5, <2>6
<1>3. QED
  BY <1>1, <1>2

\* A version that was checked when it was selected is the one of its file.
LEMMA SelectedByAll ==
  ASSUME CatalogueInv, JobsSound, NEW mode \in Modes, NEW m \in Media, NEW j \in Field(Jobs),
         j # Null => InputOf[j] = m,
         SelectedReason(media, job, mode, m, Considered(j, m), j # Null) = "ready"
  PROVE  ManagedReason(media, job, mode, m, InputJobs(m)) = "ready"
<1> DEFINE js == Considered(j, m)
           v == Versions(job, m, js)
           seen == IF j # Null THEN js ELSE {v.hls, v.remux} \ {Null}
<1>1. js \in SUBSET InputJobs(m)
  BY DEF Considered, InputJobs, Field
<1>2. v.hls \in js \cup {Null} /\ v.remux \in js \cup {Null}
  <2>1. ASSUME NEW k PROVE Version(job, k, js) \in js \cup {Null}
    <3> DEFINE S == {i \in js : KindOf[i] = k /\ job[i].status = "COMPLETED" /\ job[i].output}
    <3>1. S \in SUBSET Jobs
      BY <1>1 DEF InputJobs
    <3>2. QED
      BY <3>1, LatestJob DEF Version
  <2>2. QED
    BY <2>1 DEF Versions
<1>3. seen \in SUBSET InputJobs(m)
  BY <1>1, <1>2
<1>4. ManagedReason(media, job, mode, m, seen) = "ready"
  BY Zenon DEF SelectedReason
<1>5. QED
  BY <1>3, <1>4, ManagedByAll

\* What an edition has checked is what the row gets.
LEMMA PublishedIsReady ==
  ASSUME CatalogueInv, JobsSound, NEW r \in Requests,
         req[r].pc = "update", Vouched(req[r]), UpdateReply(req[r]) = "ok"
  PROVE  Reason(media, job, UpdatedRow(req[r])) = "ready"
<1> DEFINE s == req[r]
           m == UpdateSource(s)
           row == UpdatedRow(s)
<1>1. /\ s \in Slot /\ s.dto.job \in Field(Jobs) /\ s.dto.media \in Media \cup {Null, None}
      /\ s.dto.url \in Links \cup Media \cup Jobs \cup {Null, None} /\ s.dto.mode \in Field(Modes)
      /\ s.row.media \in Field(Media) /\ s.row.mode \in Modes
      /\ s.e \in Episodes /\ UpdateSeason(s) \in Seasons
  BY DEF CatalogueInv, CatalogueTypeOK, SlotNamed, Slot, Dto, EpisodeRow
<1>2. row.media = m /\ row.mode = UpdateMode(s) /\ row.url = UpdateVersions(s).url
  <2>1. UpdateReleased(s)[s.e] \in EpisodeRow
    BY <1>1, ChangedRow DEF Keeps
  <2>2. /\ row.mode = UpdateMode(s) /\ row.url = UpdateVersions(s).url
        /\ row.media = CASE s.dto.job # Null -> InputOf[s.dto.job]
                         [] s.dto.job = Null /\ s.dto.media # Null -> UpdateMedia(s)
                         [] OTHER -> s.row.media
    BY <2>1 DEF UpdatedRow, EpisodeRow
  <2> HIDE DEF row
  <2>3. s.dto.job = Null /\ s.dto.media = Null => UpdateMedia(s) = s.row.media
    BY DEF UpdateMedia, UpdateSource, SourceOf, Vouched
  <2>4. QED
    BY <2>2, <2>3 DEF UpdateSource, SourceOf
<1>3. UpdateMode(s) \in Modes
  BY <1>1, ModeIsOne DEF UpdateMode, Field
<1>4. m \in Field(Media)
  BY <1>1, SourceIsMedia DEF UpdateSource, UpdateMedia, Field
<1>5. UpdateReady(s)
  BY DEF UpdateReply
<1>6. CASE m = Null
  <2>1. LegacyReason(media, job, UpdateMode(s), UpdateVersions(s).url) = "ready"
    BY <1>5, <1>6 DEF UpdateReady, Vouched
  <2>2. Reason(media, job, row) = "ready"
    <3> HIDE DEF row, m
    <3>1. QED
      BY <1>2, <1>6, <2>1 DEF Reason
  <2>3. QED
    BY <2>2
<1>7. CASE m # Null
  <2>1. m \in Media /\ (s.dto.job # Null => InputOf[s.dto.job] = m)
    BY <1>4, <1>7 DEF UpdateSource, SourceOf, Field
  <2>2. SelectedReason(media, job, UpdateMode(s), m, Considered(s.dto.job, m), s.dto.job # Null) = "ready"
    BY <1>5, <1>7 DEF UpdateReady, Vouched
  <2>3. ManagedReason(media, job, UpdateMode(s), m, InputJobs(m)) = "ready"
    BY <1>1, <1>3, <2>1, <2>2, SelectedByAll
  <2>4. Reason(media, job, row) = "ready"
    <3> HIDE DEF row, m
    <3>1. QED
      BY <1>2, <1>7, <2>3 DEF Reason
  <2>5. QED
    BY <2>4
<1>8. QED
  BY <1>6, <1>7

\* A published episode is created with a file only when the file plays.
LEMMA CreatedIsReady ==
  ASSUME CatalogueInv, JobsSound, NEW d \in Creates, CreateReply(d) = "ok",
         NewEpisode(d).published, NewEpisode(d).media # Null
  PROVE  Reason(media, job, NewEpisode(d)) = "ready"
<1> DEFINE m == SourceOf(d.job, d.media)
           row == NewEpisode(d)
<1>1. d \in NewBodies /\ d.job \in Field(Jobs) /\ d.media \in Media \cup {Null, None}
      /\ d.mode \in Field(Modes)
  BY BodiesSent DEF NewBodies, Dto
<1>2. row.media = m /\ row.mode = CreateMode(d) /\ d.published = TRUE
  BY DEF NewEpisode
<1>3. m \in Media /\ (d.job # Null => InputOf[d.job] = m)
  BY <1>1, <1>2, PlaybackAssumption DEF SourceOf, NewBodies, Field
<1>4. CreateMode(d) \in Modes
  BY <1>1, ModeIsOne DEF CreateMode, NewBodies, Field
<1>5. CreateReady(d)
  BY DEF CreateReply
<1>6. SelectedReason(media, job, CreateMode(d), m, Considered(d.job, m), d.job # Null) = "ready"
  BY <1>2, <1>5 DEF CreateReady
<1>7. ManagedReason(media, job, CreateMode(d), m, InputJobs(m)) = "ready"
  BY <1>1, <1>3, <1>4, <1>6, SelectedByAll
<1> HIDE DEF m, row
<1>8. QED
  BY <1>2, <1>7, Zenon DEF Reason, row

\* A batch makes rows without a file, and leaves the others their states.
LEMMA BatchWithoutFile ==
  ASSUME CatalogueInv, NEW s, NEW b, NEW f, NEW ep, Keeps(ep), episode' = Inserted(ep, s, b, f),
         NEW e \in Episodes, episode[e].state = "none", episode'[e].state = "live"
  PROVE  episode'[e].media = Null
<1> DEFINE free == {k \in Episodes : episode[k].state = "none"}
           turn == Cardinality({k \in free : k <= e})
<1>1. episode'[e] = IF e \in free /\ turn <= Len(b) THEN BatchEpisode(b[turn], s, f[turn]) ELSE ep[e]
  BY DEF Inserted
<1>2. ep[e].state = "none"
  BY DEF Keeps
<1> HIDE DEF free, turn
<1>3. QED
  BY <1>1, <1>2, Zenon DEF BatchEpisode, NoEpisode

\* A row that gets a file when it appears is that of a creation.
LEMMA OnlyCreated ==
  ASSUME CatalogueInv, CatalogueNext, NEW e \in Episodes,
         episode[e].state = "none", episode'[e].state = "live", episode'[e].media # Null
  PROVE  \E d \in Creates : CreateReply(d) = "ok" /\ episode'[e] = NewEpisode(d)
<1>0. episode \in [Episodes -> EpisodeRow] /\ dest \in [Jobs -> Field(Episodes)]
      /\ req \in [Requests -> Slot]
  BY DEF CatalogueInv, CatalogueTypeOK, TablesOK
<1>1. ASSUME NEW r \in Requests, NEW d \in Creates, Create(r, d)
      PROVE  CreateReply(d) = "ok" /\ episode'[e] = NewEpisode(d)
  <2> DEFINE ep == Released(episode, d.season, d.number)
  <2>1. CreateReply(d) = "ok" /\ episode' = [ep EXCEPT ![Fresh(episode)] = NewEpisode(d)]
    BY <1>1 DEF Create
  <2>2. Keeps(ep)
    BY <1>0, ReleasedKeeps
  <2>3. ep \in [Episodes -> EpisodeRow] /\ ep[e].state = "none"
    BY <2>2 DEF Keeps
  <2> HIDE DEF ep
  <2>4. e = Fresh(episode)
    BY <2>1, <2>3
  <2>5. QED
    BY <2>1, <2>3, <2>4
<1>2. ASSUME NEW r \in Requests, Update(r) PROVE FALSE
  <2> DEFINE s == req[r]
  <2>1. s \in Slot /\ s.e \in Episodes /\ UpdateSeason(s) \in Seasons
    BY <1>0, <1>2 DEF Update, CatalogueInv, SlotNamed
  <2>2. UpdatedRow(s).state = episode[s.e].state /\ Keeps(UpdateReleased(s))
    BY <2>1, ChangedRow
  <2>3. episode' = [UpdateReleased(s) EXCEPT ![s.e] = UpdatedRow(s)]
    BY <1>2 DEF Update
  <2>4. QED
    BY <2>1, <2>2, <2>3 DEF Keeps
<1>3. ASSUME NEW r \in Requests, NEW s \in Seasons, NEW b \in Batches, Bulk(r, s, b) PROVE FALSE
  <2>1. PICK f \in Numberings(s, b) : episode' = Inserted(BatchReleased(s, f), s, b, f)
    BY <1>3 DEF Bulk
  <2>2. f \in [1..Len(b) -> Numbers] /\ Len(b) \in Nat
    BY <2>1, CatalogueAssumption DEF Numberings
  <2>3. Keeps(BatchReleased(s, f))
    BY <1>0, <2>2, BatchReleasedKeeps
  <2>4. QED
    BY <2>1, <2>3, BatchWithoutFile
<1>4. ASSUME NEW r \in Requests, ImportCommit(r) PROVE FALSE
  <2> DEFINE b == req[r].batch
             f == [i \in DOMAIN b |-> b[i].number]
  <2>1. episode' = Inserted(episode, req[r].sn, b, f)
    BY <1>4 DEF ImportCommit
  <2>2. Keeps(episode)
    BY <1>0 DEF Keeps
  <2> HIDE DEF b, f
  <2>3. QED
    BY <2>1, <2>2, BatchWithoutFile
<1>5. ASSUME NEW r \in Requests, PublishCommit(r) PROVE FALSE
  <2>1. episode'[e].state = episode[e].state
    BY <1>0, <1>5 DEF PublishCommit, EpisodeRow
  <2>2. QED
    BY <2>1
<1>6. ASSUME NEW r \in Requests, CopyCommit(r) PROVE FALSE
  <2>1. episode'[e].state = episode[e].state
    BY <1>0, <1>6 DEF CopyCommit, EpisodeRow
  <2>2. QED
    BY <2>1
<1>7. ASSUME NEW r \in Requests, RemoveEpisodeCommit(r) PROVE FALSE
  <2>1. episode'[e].state \in {episode[e].state, "archived"}
    BY <1>0, <1>7 DEF RemoveEpisodeCommit, EpisodeRow
  <2>2. QED
    BY <2>1
<1>8. ASSUME NEW j \in Jobs, WorkerAssociates(j) PROVE FALSE
  <2>1. dest[j] \in Episodes
    BY <1>0, <1>8 DEF WorkerAssociates, Field
  <2>2. episode' = [episode EXCEPT ![dest[j]] = Associated(episode[dest[j]], j)]
    BY <1>8 DEF WorkerAssociates
  <2>3. Associated(episode[dest[j]], j).state = episode[dest[j]].state
    BY <1>0, <2>1, AssociatedRow
  <2>4. QED
    BY <1>0, <2>1, <2>2, <2>3
<1>9. ASSUME NEW r \in Requests, EpisodeRequest(r)
      PROVE  \E d \in Creates : CreateReply(d) = "ok" /\ episode'[e] = NewEpisode(d)
  <2>1. CASE \/ \E k \in Episodes, d \in Updates : UpdateBegin(r, k, d)
             \/ \E s \in Seasons, b \in Batches : Import(r, s, b)
             \/ \E es \in (SUBSET Episodes) \ {{}}, to \in BOOLEAN : Publish(r, es, to)
             \/ \E k \in Episodes, es \in SUBSET Episodes : Copy(r, k, es)
             \/ \E k \in Episodes : RemoveEpisode(r, k)
    BY <2>1 DEF UpdateBegin, Import, Publish, Copy, RemoveEpisode
  <2>2. QED
    BY <1>1, <1>2, <1>3, <1>4, <1>5, <1>6, <1>7, <1>9, <2>1 DEF EpisodeRequest
<1>10. ASSUME NEW r \in Requests, SeasonRequest(r) \/ Abort(r) PROVE FALSE
  BY <1>10 DEF SeasonRequest, Abort, CreateSeason, Renumber, RenumberCommit, RemoveSeason,
               RemoveSeasonCommit, RemoveSeries
<1>11. ASSUME Pipeline PROVE FALSE
  BY <1>8, <1>11 DEF Pipeline, Enqueue, JobCompletes, JobFails
<1>12. QED
  BY <1>9, <1>10, <1>11 DEF CatalogueNext

\* What a creation with a file or an edition puts on show plays when its
\* transaction commits, whatever the pipeline and other requests did before.
THEOREM CheckedWhenPublished == CatalogueSpec => ChecksBeforePublish
<1> DEFINE Shows(e) ==
             /\ episode'[e] # episode[e] /\ episode'[e].published
             /\ \/ episode[e].state = "none" /\ episode'[e].state = "live" /\ episode'[e].media # Null
                \/ \E r \in Requests :
                     req[r].pc = "update" /\ req[r].e = e /\ req'[r] # req[r] /\ Vouched(req[r])
<1>1. ASSUME CatalogueInv, JobsSound, [CatalogueNext]_catalogueVars, NEW e \in Episodes, Shows(e)
      PROVE  Reason(media, job, episode'[e]) = "ready"
  <2>0. CatalogueNext
    BY <1>1 DEF catalogueVars
  <2>1. CASE episode[e].state = "none" /\ episode'[e].state = "live" /\ episode'[e].media # Null
    <3>1. PICK d \in Creates : CreateReply(d) = "ok" /\ episode'[e] = NewEpisode(d)
      BY <1>1, <2>0, <2>1, OnlyCreated
    <3>2. NewEpisode(d).published /\ NewEpisode(d).media # Null
      BY <1>1, <2>1, <3>1
    <3>3. Reason(media, job, NewEpisode(d)) = "ready"
      BY <1>1, <3>1, <3>2, CreatedIsReady
    <3>4. QED
      BY <3>1, <3>3
  <2>2. ASSUME NEW r \in Requests, req[r].pc = "update", req[r].e = e, req'[r] # req[r], Vouched(req[r])
        PROVE  Reason(media, job, episode'[e]) = "ready"
    <3>1. req \in [Requests -> Slot] /\ UpdateSeason(req[r]) \in Seasons
      BY <1>1, <2>2 DEF CatalogueInv, CatalogueTypeOK, SlotNamed
    <3>2. ~Pipeline
      BY <1>1, <2>2, PipelineStep
    <3>3. PICK q \in Requests : EpisodeRequest(q) \/ SeasonRequest(q) \/ Abort(q)
      BY <2>0, <3>2 DEF CatalogueNext
    <3>4. q = r
      BY <1>1, <2>2, <3>1, <3>3, RequestStep DEF Asked, AnyRequest
    <3>5. Update(r)
      BY <1>1, <2>2, <3>3, <3>4
      DEF EpisodeRequest, SeasonRequest, Abort, Create, UpdateBegin, Bulk, Import, ImportCommit,
          Publish, PublishCommit, Copy, CopyCommit, RemoveEpisode, RemoveEpisodeCommit, CreateSeason,
          Renumber, RenumberCommit, RemoveSeason, RemoveSeasonCommit, RemoveSeries
    <3>6. UpdateReply(req[r]) = "ok" /\ UpdateReleased(req[r]) \in [Episodes -> EpisodeRow]
      BY <1>1, <2>2, <3>1, <3>5, ChangedRow DEF Keeps, Update
    <3>7. episode'[e] = UpdatedRow(req[r])
      BY <2>2, <3>5, <3>6 DEF Update
    <3>8. Reason(media, job, UpdatedRow(req[r])) = "ready"
      BY <1>1, <2>2, <3>6, PublishedIsReady
    <3>9. QED
      BY <3>7, <3>8
  <2>3. QED
    BY <1>1, <2>1, <2>2
<1>2. CatalogueInv /\ JobsSound /\ [CatalogueNext]_catalogueVars
        => [\A e \in Episodes : Shows(e) => Reason(media, job, episode'[e]) = "ready"]_catalogueVars
  BY <1>1
<1>3. QED
  BY <1>2, CatalogueKept, JobsKept, PTL DEF CatalogueSpec, ChecksBeforePublish

-----------------------------------------------------------------------------
(* The shelf *)

\* The place that the refinement gives an episode.
PlaceOf(row) ==
  CASE row.state = "none" -> <<Null, 0>>
    [] row.state = "live" -> <<row.season, row.number>>
    [] OTHER -> <<Null, -1>>

ShelfPlace == [e \in Episodes |-> PlaceOf(episode[e])]

\* A live episode is in the place of its season and number, the others are nowhere.
LEMMA PlacesApart ==
  ASSUME CatalogueInv, NEW e \in Episodes
  PROVE  /\ episode[e].state = "live" => /\ PlaceOf(episode[e]) = <<episode[e].season, episode[e].number>>
                                         /\ PlaceOf(episode[e]) \in Places
         /\ episode[e].state = "none" => PlaceOf(episode[e]) = <<Null, 0>>
         /\ episode[e].state = "archived" => PlaceOf(episode[e]) = <<Null, -1>>
         /\ PlaceOf(episode[e]) \in Places <=> episode[e].state = "live"
         /\ episode[e].state \in {"none", "live", "archived"}
<1>1. episode[e].state \in {"none", "live", "archived"}
  BY DEF CatalogueInv, CatalogueTypeOK, TablesOK, EpisodeRow
<1>2. episode[e].state = "live" => episode[e].season \in Seasons /\ episode[e].number \in Numbers
  BY DEF CatalogueInv, LivePlaced, Live
<1>3. Null \notin Seasons
  BY CatalogueAssumption
<1>4. QED
  BY <1>1, <1>2, <1>3 DEF PlaceOf, Places

LEMMA SamePlaceOf ==
  ASSUME CatalogueInv, CatalogueInv', NEW e \in Episodes, Same(e)
  PROVE  PlaceOf(episode'[e]) = PlaceOf(episode[e])
<1>1. episode[e].state \in {"none", "live", "archived"}
  BY PlacesApart
<1>2. QED
  BY <1>1 DEF Same, PlaceOf

\* Every step of the catalogue is a step of the shelf, or leaves it as it is.
LEMMA ShelfNext ==
  ASSUME CatalogueInv, CatalogueInv', ShelfStep
  PROVE  Shelf!Next \/ ShelfPlace' = ShelfPlace
<1> DEFINE P(e) == PlaceOf(episode[e])
           Q(e) == PlaceOf(episode'[e])
<1>0. /\ ShelfPlace = [e \in Episodes |-> P(e)] /\ ShelfPlace' = [e \in Episodes |-> Q(e)]
      /\ \A E \in SUBSET Episodes : Stay(E) => \A e \in Episodes \ E : Q(e) = P(e)
  BY SamePlaceOf DEF ShelfPlace, Stay
<1>1. CASE Stay({})
  BY <1>0, <1>1
<1>2. ASSUME NEW s \in Seasons, NEW E \in SUBSET Episodes, NEW f \in [E -> Numbers], Lands(E, s, f), E # {}
      PROVE  Shelf!Next
  <2> DEFINE g == [e \in E |-> <<s, f[e]>>]
  <2>1. g \in [E -> Places]
    BY DEF Places
  <2>2. \A d, e \in E : g[d] = g[e] => d = e
    BY <1>2 DEF Lands
  <2>3. ASSUME NEW e \in E, NEW o \in Episodes PROVE P(o) # g[e]
    <3>1. CASE episode[o].state = "live"
      <4>1. P(o) = <<episode[o].season, episode[o].number>> /\ episode[o].number \in Numbers
        BY <3>1, PlacesApart DEF CatalogueInv, LivePlaced, Live
      <4>2. f[e] \notin LiveNumbers(episode, s)
        BY <1>2 DEF Lands
      <4>3. ~(episode[o].season = s /\ episode[o].number = f[e])
        BY <3>1, <4>1, <4>2 DEF LiveNumbers, Holder
      <4>4. QED
        BY <4>1, <4>3
    <3>2. CASE episode[o].state # "live"
      BY <2>1, <3>2, PlacesApart
    <3>3. QED
      BY <3>1, <3>2
  <2>4. \A e \in E : P(e) = <<Null, 0>> /\ Q(e) = g[e]
    BY <1>2, PlacesApart DEF Lands, PlaceOf
  <2>5. \A e \in Episodes \ E : Q(e) = P(e)
    BY <1>0, <1>2 DEF Lands
  <2>6. ShelfPlace' = [e \in Episodes |-> IF e \in E THEN g[e] ELSE ShelfPlace[e]]
    BY <1>0, <2>4, <2>5
  <2>7. Shelf!Put(E)
    <3> HIDE DEF g, P
    <3>1. \A e \in E : ShelfPlace[e] = <<Null, 0>> /\ \A o \in Episodes : ShelfPlace[o] # g[e]
      BY <1>0, <2>3, <2>4
    <3>2. QED
      BY <2>1, <2>2, <2>6, <3>1 DEF Shelf!Put, Shelf!Free, ShelfPlace, PlaceOf
  <2>8. QED
    BY <1>2, <2>7 DEF Shelf!Next
<1>3. ASSUME NEW e \in Episodes, NEW s \in Seasons, NEW n \in Int, Moves(e, s, n)
      PROVE  Shelf!Next \/ ShelfPlace' = ShelfPlace
  <2>1. \A o \in Episodes \ {e} : Q(o) = P(o)
    BY <1>0, <1>3 DEF Moves
  <2>2. CASE episode[e].state # "live"
    <3>1. Q(e) = P(e)
      BY <1>3, <2>2, PlacesApart DEF Moves, PlaceOf
    <3>2. QED
      BY <1>0, <2>1, <3>1
  <2>3. CASE episode[e].state = "live" /\ P(e) # <<s, n>>
    <3>1. n \in Numbers /\ Q(e) = <<s, n>> /\ <<s, n>> \in Places /\ P(e) \in Places
      BY <1>3, <2>3, PlacesApart DEF Moves, PlaceOf, Places
    <3>2. ASSUME NEW o \in Episodes PROVE P(o) # <<s, n>>
      <4>1. CASE o = e
        BY <2>3, <4>1
      <4>2. CASE o # e /\ episode[o].state = "live"
        BY <1>3, <2>3, <4>2, PlacesApart DEF Moves, Live
      <4>3. CASE episode[o].state # "live"
        BY <3>1, <4>3, PlacesApart
      <4>4. QED
        BY <4>1, <4>2, <4>3
    <3>3. ShelfPlace' = [ShelfPlace EXCEPT ![e] = <<s, n>>]
      BY <1>0, <2>1, <3>1
    <3>4. Shelf!Move(e)
      <4> HIDE DEF P
      <4>1. ShelfPlace[e] \in Places /\ \A o \in Episodes : ShelfPlace[o] # <<s, n>>
        BY <1>0, <3>1, <3>2
      <4>2. QED
        BY <3>1, <3>3, <4>1 DEF Shelf!Move, Shelf!Free, ShelfPlace, PlaceOf
    <3>5. QED
      BY <3>4 DEF Shelf!Next
  <2>4. CASE episode[e].state = "live" /\ P(e) = <<s, n>>
    <3>1. Q(e) = P(e)
      BY <1>3, <2>4 DEF Moves, PlaceOf
    <3>2. QED
      BY <1>0, <2>1, <3>1
  <2>5. QED
    BY <2>2, <2>3, <2>4
<1>4. ASSUME NEW e \in Episodes, Leaves(e)
      PROVE  Shelf!Next \/ ShelfPlace' = ShelfPlace
  <2>1. (\A o \in Episodes \ {e} : Q(o) = P(o)) /\ Q(e) = <<Null, -1>>
    BY <1>0, <1>4 DEF Leaves, PlaceOf
  <2>2. CASE episode[e].state = "live"
    <3>1. ShelfPlace[e] \in Places /\ ShelfPlace' = [ShelfPlace EXCEPT ![e] = <<Null, -1>>]
      BY <1>0, <2>1, <2>2, PlacesApart
    <3>2. Shelf!Withdraw(e)
      BY <3>1 DEF Shelf!Withdraw, ShelfPlace, PlaceOf
    <3>3. QED
      BY <3>2 DEF Shelf!Next
  <2>3. CASE episode[e].state # "live"
    <3>1. P(e) = <<Null, -1>>
      BY <1>4, <2>3, PlacesApart DEF Leaves
    <3>2. QED
      BY <1>0, <2>1, <3>1
  <2>4. QED
    BY <2>2, <2>3
<1>5. CASE \E s \in Seasons : \E f \in [{} -> Numbers] : Lands({}, s, f)
  BY <1>0, <1>5 DEF Lands
<1>6. QED
  BY <1>1, <1>2, <1>3, <1>4, <1>5 DEF ShelfStep

\* The catalogue is a shelf: whatever requests overlap, no two live episodes
\* have the same number of a season, a batch is put in free places as a whole,
\* and an archived episode never returns.
THEOREM ShelfImplemented == CatalogueSpec => ImplementsShelf
<1>1. Init => Shelf!Init
  <2> SUFFICES ASSUME Init PROVE Shelf!Init
    OBVIOUS
  <2>1. CatalogueInv
    BY InitCatalogue
  <2>2. ASSUME NEW e \in Episodes PROVE episode[e].state # "live"
    BY DEF Init, NoEpisode
  <2>3. \A e \in Episodes : PlaceOf(episode[e]) \in {<<Null, 0>>, <<Null, -1>>}
    BY <2>1, <2>2, PlacesApart
  <2>4. QED
    BY <2>3 DEF Shelf!Init, PlaceOf
<1>2. CatalogueInv /\ CatalogueInv' /\ [CatalogueNext]_catalogueVars
        => [Shelf!Next]_[e \in Episodes |->
              CASE episode[e].state = "none" -> <<Null, 0>>
                [] episode[e].state = "live" -> <<episode[e].season, episode[e].number>>
                [] OTHER -> <<Null, -1>>]
  BY NextCatalogue, ShelfNext DEF ShelfPlace, PlaceOf
<1>3. QED
  BY <1>1, <1>2, CatalogueKept, PTL DEF CatalogueSpec, ImplementsShelf, Shelf!Spec

=============================================================================
