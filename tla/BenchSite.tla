------------------------------ MODULE BenchSite ------------------------------
(***************************************************************************)
(* The history of benchmark runs (scripts/bench_site.py): builds that add  *)
(* a run to the files of a site and may die between any two steps, and the *)
(* page that draws the index of these files.                               *)
(***************************************************************************)
EXTENDS Integers, Sequences, FiniteSets, Lists

CONSTANTS
  CommitIds, RunIds,   \* what builds are called with, as numbers
  PathComponent,       \* re.sub in safe_component: an id to a file name
  NoName,              \* the name of what no file may be called
  SiteTimes,           \* measured_at_unix
  Results,             \* the results a run may have: [transport, value]
  Transports,
  NoMetric,            \* null
  Missing,             \* no file, or no build
  Broken,              \* a file that is written, or was cut off before its end
  Mangled,             \* one cut off inside a character, which is no UTF-8
  CHART_LIMIT,
  MaxBuilds, MaxCrashes  \* bounds

ASSUME SiteAssumption ==
  /\ IsFiniteSet(CommitIds) /\ IsFiniteSet(RunIds) /\ RunIds \subseteq Int
  /\ PathComponent \in [CommitIds \cup RunIds -> Int] /\ NoName \in Int
  /\ SiteTimes \subseteq Int /\ CHART_LIMIT \in Nat
  /\ Results \subseteq Seq([transport : Transports, value : Int \cup {NoMetric}])

FileNames(ids) == { PathComponent[id] : id \in ids } \ {NoName}

CutFiles == {Broken, Mangled}

Unreadable == {Missing} \cup CutFiles

Documents ==
  [commit : CommitIds, run_id : RunIds, at : SiteTimes, results : Results]

Entries ==
  [ path : Int \X Int, run_id : RunIds, commit : CommitIds, at : SiteTimes,
    metrics : Results, transports : SUBSET Transports ]

(* None of these is what a file holds                                       *)
ASSUME UnreadableAssumption ==
  /\ Missing \notin CutFiles /\ Broken # Mangled
  /\ \A u \in Unreadable : u \notin Documents /\ u \notin Seq(Entries)

VARIABLES
  primaries,   \* results/<commit>/arm64.json
  run_files,   \* results/<commit>/runs/<run>.json
  index,       \* index.json: its entries
  index_html,  \* TRUE once written to its end
  build,       \* the document of the running build, or Missing
  next_write,        \* its next step, or "done"
  writing,      \* the file of this step is open
  recorded,    \* by run file: the document it was first written with
  listed,      \* paths the index has ever listed
  builds, crashes

fileVars == << primaries, run_files, index, index_html >>
countVars == << builds, crashes >>
siteVars == << fileVars, build, next_write, writing, recorded, listed, countVars >>

Paths == FileNames(CommitIds) \X FileNames(RunIds)

SiteInit ==
  /\ primaries = [c \in FileNames(CommitIds) |-> Missing]
  /\ run_files = [p \in Paths |-> Missing]
  /\ index = Missing /\ index_html = FALSE
  /\ build = Missing /\ next_write = "done" /\ writing = FALSE
  /\ recorded = [p \in Paths |-> Missing] /\ listed = {}
  /\ builds = 0 /\ crashes = 0

---------------------------------------------------------------------------
(* What is read: a file that is no JSON is passed over.  One that is no      *)
(* UTF-8 raises what discover_runs does not catch.                           *)

Readable(files) == { p \in DOMAIN files : files[p] \notin Unreadable }

(* The transports, and the metrics in the order of the results              *)
index_entry(path, document) ==
  [ path |-> path, run_id |-> document.run_id, commit |-> document.commit,
    at |-> document.at, metrics |-> document.results,
    transports |-> { document.results[i].transport : i \in DOMAIN document.results } ]

(* The run files; only without any the commits' first documents            *)
discover_runs ==
  LET runs == { index_entry(p, run_files[p]) : p \in Readable(run_files) }
      firsts == { index_entry(<< c, NoName >>, primaries[c]) : c \in Readable(primaries) } IN
  IF runs # {} THEN runs ELSE firsts

DiscoverRaises ==
  \/ \E p \in Paths : run_files[p] = Mangled
  \/ Readable(run_files) = {} /\ \E c \in DOMAIN primaries : primaries[c] = Mangled

(* Newest first; what is equal stays in the order of the paths              *)
PathBefore(p, q) ==
  \/ p[1] < q[1]
  \/ p[1] = q[1] /\ p[2] < q[2]

Newer(a, b) ==
  \/ a.at > b.at
  \/ a.at = b.at /\ a.run_id > b.run_id
  \/ a.at = b.at /\ a.run_id = b.run_id /\ PathBefore(a.path, b.path)

NewestFirst(entries) == { e \in entries \X entries : Newer(e[1], e[2]) }

build_index == Arranged(discover_runs, NewestFirst(discover_runs))

---------------------------------------------------------------------------
(* build_site                                                               *)

run_document(commit, run_id, at, results) ==
  [commit |-> commit, run_id |-> run_id, at |-> at, results |-> results]

(* safe_component refuses before anything is written                        *)
StartBuild ==
  /\ next_write = "done" /\ builds < MaxBuilds
  /\ \E c \in CommitIds, r \in RunIds, at \in SiteTimes, results \in Results :
       /\ NoName \notin {PathComponent[c], PathComponent[r]}
       /\ build' = run_document(c, r, at, results)
  /\ next_write' = "primary" /\ builds' = builds + 1
  /\ UNCHANGED << fileVars, writing, recorded, listed, crashes >>

CommitOf == PathComponent[build.commit]
PathOf == << CommitOf, PathComponent[build.run_id] >>

(* Opened with truncation, then written: two steps of write_json            *)
WriteCommit ==
  /\ next_write = "primary"
  /\ \/ /\ ~writing /\ primaries[CommitOf] = Missing
        /\ primaries' = [primaries EXCEPT ![CommitOf] = Broken]
        /\ writing' = TRUE /\ UNCHANGED next_write
     \/ /\ writing
        /\ primaries' = [primaries EXCEPT ![CommitOf] = build]
        /\ writing' = FALSE /\ next_write' = "run"
     \/ /\ ~writing /\ primaries[CommitOf] # Missing
        /\ next_write' = "run" /\ UNCHANGED << primaries, writing >>
  /\ UNCHANGED << run_files, index, index_html, build, recorded, listed, countVars >>

OpenRun ==
  /\ ~writing /\ run_files[PathOf] = Missing
  /\ run_files' = [run_files EXCEPT ![PathOf] = Broken]
  /\ writing' = TRUE /\ UNCHANGED << next_write, recorded >>

FillRun ==
  /\ writing
  /\ run_files' = [run_files EXCEPT ![PathOf] = build]
  /\ recorded' = [recorded EXCEPT ![PathOf] = IF @ = Missing THEN build ELSE @]
  /\ writing' = FALSE /\ next_write' = "index"

(* Mutant of KeepRun: a run that is there is replaced                       *)
KeepRunUnlessNew ==
  /\ ~writing /\ run_files[PathOf] # Missing
  /\ run_files' = [run_files EXCEPT ![PathOf] = build]
  /\ next_write' = "index" /\ UNCHANGED << writing, recorded >>

KeepRun ==
  /\ ~writing /\ run_files[PathOf] # Missing
  /\ next_write' = "index" /\ UNCHANGED << run_files, writing, recorded >>

WriteRun ==
  /\ next_write = "run"
  /\ OpenRun \/ FillRun \/ KeepRun
  /\ UNCHANGED << primaries, index, index_html, build, listed, countVars >>

Listed(entries) == { entries[i].path : i \in DOMAIN entries }

WriteIndex ==
  /\ next_write = "index"
  /\ \/ /\ ~writing /\ ~DiscoverRaises
        /\ index' = Broken /\ writing' = TRUE
        /\ UNCHANGED << next_write, listed >>
     \/ /\ writing /\ index' = build_index
        /\ listed' = listed \cup Listed(build_index)
        /\ writing' = FALSE /\ next_write' = "html"
  /\ UNCHANGED << primaries, run_files, index_html, build, recorded, countVars >>

WriteIndexHtml ==
  /\ next_write = "html"
  /\ index_html' = TRUE /\ next_write' = "done" /\ build' = Missing
  /\ UNCHANGED << primaries, run_files, index, writing, recorded, listed, countVars >>

(* discover_runs raises before the index is opened                          *)
BuildFails ==
  /\ next_write = "index" /\ ~writing /\ DiscoverRaises
  /\ next_write' = "done" /\ build' = Missing
  /\ UNCHANGED << fileVars, writing, recorded, listed, countVars >>

(* The file that was open is cut off, at any of its bytes                   *)
CutShort(files, name, open) ==
  {files} \cup { [files EXCEPT ![name] = Mangled] : o \in {TRUE} \cap {open} }

(* The process is killed, or the disk is full                               *)
BuildDies ==
  /\ next_write # "done" /\ crashes < MaxCrashes
  /\ primaries' \in CutShort(primaries, CommitOf, next_write = "primary" /\ writing)
  /\ run_files' \in CutShort(run_files, PathOf, next_write = "run" /\ writing)
  /\ next_write' = "done" /\ writing' = FALSE /\ build' = Missing
  /\ crashes' = crashes + 1
  /\ UNCHANGED << index, index_html, recorded, listed, builds >>

SiteNext ==
  \/ StartBuild \/ WriteCommit \/ WriteRun \/ WriteIndex \/ WriteIndexHtml
  \/ BuildFails \/ BuildDies

SiteSpec == SiteInit /\ [][SiteNext]_siteVars

---------------------------------------------------------------------------
(* The page.  What it fetches is the index; "" of a filter is {}.           *)

FetchedRuns == IF index \in Unreadable THEN << >> ELSE index

(* Number(null) is zero                                                     *)
numeric(value) == IF value = NoMetric THEN 0 ELSE value

OfTransport(record, filter) == filter # {} => record.transport \in filter

Matching(records, filter) ==
  Kept(records, { record \in ToSet(records) : OfTransport(record, filter) })

metricRecord(run, filter) == Matching(run.metrics, filter)

filteredRuns(commits, filter) ==
  Kept(FetchedRuns, { run \in ToSet(FetchedRuns) :
    /\ commits # {} => run.commit \in commits
    /\ filter # {} => run.transports \cap filter # {} })

Older(p, q) ==
  \/ p.run.at < q.run.at
  \/ p.run.at = q.run.at /\ p.run.run_id < q.run.run_id

(* Oldest first.  The sort is stable, over what is newest first.            *)
OldestFirst(points) ==
  { e \in points \X points :
      Older(e[1], e[2]) \/ (~Older(e[2], e[1]) /\ e[1].order < e[2].order) }

chartPoints(commits, filter) ==
  LET runs == filteredRuns(commits, filter)
      drawn == Kept(runs, { run \in ToSet(runs) : metricRecord(run, filter) # << >> })
      points == { [ run |-> drawn[i], order |-> i,
                    value |-> numeric(metricRecord(drawn[i], filter)[1].value) ] :
                  i \in DOMAIN drawn } IN
  Arranged(points, OldestFirst(points))

pointsForDisplay(commits, filter) ==
  LET points == chartPoints(commits, filter)
      first == IF Len(points) > CHART_LIMIT THEN Len(points) - CHART_LIMIT + 1 ELSE 1 IN
  SubSeq(points, first, Len(points))

(* The class of the change against the point before, where higher is better *)
deltaText(points, i) ==
  CASE i = 1 \/ points[i - 1].value = 0 -> "neutral"
    [] points[i].value = points[i - 1].value -> "neutral"
    [] OTHER -> IF points[i].value > points[i - 1].value THEN "good" ELSE "bad"

---------------------------------------------------------------------------
Whole == \A p \in Paths : run_files[p] \notin CutFiles

(* The value a run recorded first for these transports                      *)
FirstValue(path, filter) ==
  LET records == Matching(recorded[path].results, filter) IN
  IF records = << >> THEN {} ELSE {numeric(records[1].value)}

Drawn(points) == { points[i].run.path : i \in DOMAIN points }

(* What the page draws of some runs: recorded values only, each where its    *)
(* run is in time, called good or bad only against the measurement next      *)
(* before it                                                                 *)
DrawnRight(all, points, filter) ==
  \A i \in DOMAIN points :
    LET p == points[i] IN
    /\ FirstValue(p.run.path, filter) = {p.value}
    /\ \A q \in Drawn(all) \ Drawn(points) : recorded[q].at <= p.run.at
    /\ deltaText(points, i) # "neutral" =>
         LET before == recorded[points[i - 1].run.path] IN
         /\ before.at <= p.run.at
         /\ \A q \in Drawn(all) : ~(before.at < recorded[q].at
                                    /\ recorded[q].at < p.run.at)
         /\ (deltaText(points, i) = "good")
              <=> FirstValue(points[i - 1].run.path, filter) # {p.value}
                  /\ \A v \in FirstValue(points[i - 1].run.path, filter) : v < p.value

(* A run whose file was once written keeps what was first recorded, through *)
(* every later build of the same commit or run and through crashes; it      *)
(* stays in the index as long as no crash left a run file cut off; a build  *)
(* that came to its end has its run in the index.  The page draws recorded  *)
(* values only, each where its run is in time, and calls a point good or    *)
(* bad only against the measurement next before it among those it filters.  *)
SiteSound ==
  /\ \A p \in Paths : run_files[p] \in Unreadable \cup {recorded[p]}
  /\ Whole /\ index \notin Unreadable => listed \subseteq Listed(FetchedRuns)
  /\ Whole /\ next_write = "html" => PathOf \in Listed(FetchedRuns)
  /\ Whole =>
       \A commits \in {{}} \cup { {c} : c \in CommitIds },
          filter \in {{}} \cup { {t} : t \in Transports } :
         \A all \in {chartPoints(commits, filter)},
            points \in {pointsForDisplay(commits, filter)} :
           DrawnRight(all, points, filter)
=============================================================================
