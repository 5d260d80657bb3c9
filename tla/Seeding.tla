----------------------------- MODULE Seeding -----------------------------
(***************************************************************************)
(* The start of the containers that use the database.  entrypoint.sh runs  *)
(* db/init_db.py under `set -e` and then hands over to the API or a worker, *)
(* which may seed the ground stations once more before it ingests          *)
(* (TLEFetcher.init_ground_stations).  The containers start together, and  *)
(* each step of init_db looks first and writes afterwards.                 *)
(***************************************************************************)
EXTENDS Integers, FiniteSets

CONSTANTS
    Container,      \* the API and the workers
    Skips,          \* those that start without init_db (SKIP_DB_INIT, or by hand)
    Station,        \* ids in config.GROUND_STATIONS
    Mask,           \* Station -> elevation mask in stations.json
    DefaultMask,    \* the default of the column (10.0)
    Production,     \* ENVIRONMENT is "production"
    MaxRestarts,    \* restarts of a container that failed (railway.toml: 3)
    MaxFaults       \* bound on database errors and on containers killed

ASSUME SeedingAssumption ==
    /\ Skips \subseteq Container
    /\ Production \in BOOLEAN
    /\ MaxRestarts \in Nat /\ MaxFaults \in Nat
    /\ DefaultMask \in Nat
    /\ Mask \in [Station -> Nat]

Table == {"tles", "ground_stations", "satellite_passes", "api_keys"}

VARIABLES
    tables,         \* tables that exist
    unchecked,      \* those among them that lack their CHECK constraints
    column,         \* ground_stations has elevation_mask_deg
    mask,           \* station_id -> elevation mask of its row; DOMAIN = rows
    keys,           \* rows of api_keys: "dev" and keys an administrator made
    pc,             \* Container -> step
    seen,           \* Container -> what its last look at the database showed
    restarts,       \* Container -> restarts so far
    faults,         \* database errors and kills so far
    legacy,         \* history: stations that had a row at the beginning
    author,         \* history: Station -> containers that inserted its row
    lost            \* history: Container -> races lost to another container

database == <<tables, unchecked, column, mask, keys>>
vars == <<database, pc, seen, restarts, faults, legacy, author, lost>>

Steps == {"check tables", "create tables", "add column", "verify", "look for stations",
          "insert stations", "look for keys", "insert key", "serving",
          "ingest stations", "failed"}

\* entrypoint.sh: init_db first, unless the container skips it.
FirstStep(c) == IF c \in Skips THEN "serving" ELSE "check tables"

\* A new database, one that an earlier release or an earlier start left, or
\* one whose ground stations had no mask of their own.
Init ==
    /\ \/ tables = {} /\ unchecked = {} /\ mask = << >>
       \/ /\ tables \in {Table, Table \ {"api_keys"}}
          /\ unchecked \in {{}, {"satellite_passes"}}
          /\ \E rows \in SUBSET Station : mask = [s \in rows |-> Mask[s]]
    /\ column \in (IF "ground_stations" \in tables THEN BOOLEAN ELSE {FALSE})
    /\ keys \in (IF "api_keys" \in tables THEN {{}, {"dev"}, {"other"}} ELSE {{}})
    /\ pc = [c \in Container |-> FirstStep(c)]
    /\ seen = [c \in Container |-> {}]
    /\ restarts = [c \in Container |-> 0]
    /\ faults = 0
    /\ legacy = DOMAIN mask
    /\ author = [s \in Station |-> {}]
    /\ lost = [c \in Container |-> 0]

Goto(c, step) == pc' = [pc EXCEPT ![c] = step]
See(c, set) == seen' = [seen EXCEPT ![c] = set]

History == <<restarts, faults, legacy>>

Inserts(c, new) == author' = [s \in Station |-> IF s \in new THEN author[s] \union {c} ELSE author[s]]

\* Bug: an entrypoint without `set -e` serves after a failed start.
RaiseIgnored(c) == Goto(c, "serving")

\* An exception leaves init_db, the interpreter exits with 1 and `set -e`
\* ends the container.
Raise(c) == Goto(c, "failed")

\* The database refused what another container had written meanwhile.
LoseRace(c) ==
    /\ Raise(c)
    /\ lost' = [lost EXCEPT ![c] = @ + 1]
    /\ UNCHANGED <<database, seen, History, author>>

(***************************************************************************)
(* init_db.                                                                *)
(***************************************************************************)

\* Bug: create_all(checkfirst=False).
CheckNoTables(c) ==
    /\ pc[c] = "check tables"
    /\ See(c, Table)
    /\ Goto(c, "create tables")
    /\ UNCHANGED <<database, History, author, lost>>

\* create_all(checkfirst=True) asks which tables are there ...
CheckTables(c) ==
    /\ pc[c] = "check tables"
    /\ See(c, Table \ tables)
    /\ Goto(c, "create tables")
    /\ UNCHANGED <<database, History, author, lost>>

\* ... and creates the others in one transaction, without IF NOT EXISTS.
CreateTables(c) ==
    /\ pc[c] = "create tables"
    /\ \/ /\ seen[c] \intersect tables # {}
          /\ LoseRace(c)
       \/ /\ seen[c] \intersect tables = {}
          /\ tables' = tables \union seen[c]
          /\ column' = (column \/ "ground_stations" \in seen[c])
          /\ Goto(c, "add column")
          /\ UNCHANGED <<unchecked, mask, keys, seen, History, author, lost>>

\* ADD COLUMN IF NOT EXISTS gives every row the default; an error is logged
\* and ignored.
AddColumn(c) ==
    /\ pc[c] = "add column"
    /\ Goto(c, "verify")
    /\ \/ /\ column' = TRUE
          /\ mask' = IF column THEN mask ELSE [s \in DOMAIN mask |-> DefaultMask]
          /\ UNCHANGED faults
       \/ /\ faults < MaxFaults
          /\ faults' = faults + 1
          /\ UNCHANGED <<column, mask>>
    /\ UNCHANGED <<tables, unchecked, keys, seen, restarts, legacy, author, lost>>

VerifyConstraints(c) ==
    /\ pc[c] = "verify"
    /\ IF unchecked = {} THEN Goto(c, "look for stations") ELSE Raise(c)
    /\ UNCHANGED <<database, seen, History, author, lost>>

\* Bug: the stations are inserted without asking which are there.
LookForNoStations(c) ==
    /\ pc[c] = "look for stations"
    /\ See(c, Station)
    /\ Goto(c, "insert stations")
    /\ UNCHANGED <<database, History, author, lost>>

LookForStations(c) ==
    /\ pc[c] = "look for stations"
    /\ LET missing == Station \ DOMAIN mask
       IN  /\ See(c, missing)
           /\ Goto(c, IF missing = {} THEN "look for keys" ELSE "insert stations")
    /\ UNCHANGED <<database, History, author, lost>>

\* Bug: the mask is left to the default of the column.
WithDefaultRows(new, value) ==
    [s \in DOMAIN mask \union new |-> IF s \in DOMAIN mask THEN mask[s] ELSE DefaultMask]

\* Rows for the stations in new, with the masks given by value.
WithRows(new, value) ==
    [s \in DOMAIN mask \union new |-> IF s \in DOMAIN mask THEN mask[s] ELSE value[s]]

\* All missing stations in one transaction.  Without the column the INSERT
\* is refused; a row that is there already is an IntegrityError, raised again.
InsertStations(c) ==
    /\ pc[c] = "insert stations"
    /\ \/ /\ column /\ seen[c] \intersect DOMAIN mask # {}
          /\ LoseRace(c)
       \/ /\ ~column
          /\ Raise(c)
          /\ UNCHANGED <<database, seen, History, author, lost>>
       \/ /\ column /\ seen[c] \intersect DOMAIN mask = {}
          /\ mask' = WithRows(seen[c], Mask)
          /\ Inserts(c, seen[c])
          /\ Goto(c, "look for keys")
          /\ UNCHANGED <<tables, unchecked, column, keys, seen, History, lost>>

LookForKeys(c) ==
    /\ pc[c] = "look for keys"
    /\ Goto(c, IF Production \/ keys # {} THEN "serving" ELSE "insert key")
    /\ UNCHANGED <<database, seen, History, author, lost>>

\* The key is unique; an IntegrityError is swallowed here.
InsertKey(c) ==
    /\ pc[c] = "insert key"
    /\ keys' = keys \union {"dev"}
    /\ Goto(c, "serving")
    /\ UNCHANGED <<tables, unchecked, column, mask, seen, History, author, lost>>

(***************************************************************************)
(* Containers that serve.                                                  *)
(***************************************************************************)

\* TLEFetcher.init_ground_stations: the same look, then rows that leave the
\* elevation mask to the default of the column.  The task fails when it loses
\* the race or a table or the column is not there; the container serves on.
IngestLooks(c) ==
    /\ pc[c] = "serving"
    /\ "ground_stations" \in tables
    /\ Station \ DOMAIN mask # {}
    /\ See(c, Station \ DOMAIN mask)
    /\ Goto(c, "ingest stations")
    /\ UNCHANGED <<database, History, author, lost>>

IngestInserts(c) ==
    /\ pc[c] = "ingest stations"
    /\ Goto(c, "serving")
    /\ IF column /\ seen[c] \intersect DOMAIN mask = {}
       THEN mask' = WithRows(seen[c], [s \in Station |-> DefaultMask]) /\ Inserts(c, seen[c])
       ELSE UNCHANGED <<mask, author>>
    /\ UNCHANGED <<tables, unchecked, column, keys, seen, History, lost>>

CreateKey(c) ==
    /\ pc[c] = "serving"
    /\ "api_keys" \in tables
    /\ keys' = keys \union {"other"}
    /\ UNCHANGED <<tables, unchecked, column, mask, pc, seen, History, author, lost>>

(***************************************************************************)
(* Faults and restarts.                                                    *)
(***************************************************************************)

\* A statement of init_db fails, or the container is killed.
Fault(c) ==
    /\ faults < MaxFaults
    /\ pc[c] # "failed"
    /\ Raise(c)
    /\ faults' = faults + 1
    /\ UNCHANGED <<database, seen, restarts, legacy, author, lost>>

Restart(c) ==
    /\ pc[c] = "failed"
    /\ restarts[c] < MaxRestarts
    /\ Goto(c, FirstStep(c))
    /\ See(c, {})
    /\ restarts' = [restarts EXCEPT ![c] = @ + 1]
    /\ UNCHANGED <<database, faults, legacy, author, lost>>

InitDb(c) ==
    \/ CheckTables(c) \/ CreateTables(c) \/ AddColumn(c) \/ VerifyConstraints(c)
    \/ LookForStations(c) \/ InsertStations(c) \/ LookForKeys(c) \/ InsertKey(c)

Next ==
    \E c \in Container :
        \/ InitDb(c)
        \/ IngestLooks(c) \/ IngestInserts(c) \/ CreateKey(c)
        \/ Fault(c) \/ Restart(c)

\* A container that runs goes on, and one that failed is started again as
\* long as the platform does that.
Fairness == \A c \in Container : WF_vars(InitDb(c) \/ Restart(c))

Spec == Init /\ [][Next]_vars /\ Fairness

(***************************************************************************)
(* Properties.                                                             *)
(***************************************************************************)
TypeOK ==
    /\ tables \subseteq Table
    /\ unchecked \subseteq tables
    /\ column \in BOOLEAN
    /\ DOMAIN mask \subseteq Station /\ \A s \in DOMAIN mask : mask[s] \in Nat
    /\ keys \subseteq {"dev", "other"}
    /\ pc \in [Container -> Steps]
    /\ seen \in [Container -> SUBSET (Table \union Station)]
    /\ restarts \in [Container -> 0..MaxRestarts]
    /\ faults \in 0..MaxFaults
    /\ legacy \subseteq DOMAIN mask
    /\ author \in [Station -> SUBSET Container]
    /\ lost \in [Container -> Nat]

\* A container that has been through init_db and serves finds every table
\* with its constraints, a row for every configured station and, outside
\* production, a key (init_db.py:316-318).
ServedReady ==
    \A c \in Container \ Skips : pc[c] = "serving" =>
        /\ tables = Table /\ unchecked = {}
        /\ DOMAIN mask = Station
        /\ Production \/ keys # {}

\* The two seeders disagree on the elevation mask, and a row is never
\* corrected.  The one with the wrong mask only ever inserts in a container
\* that skipped init_db: everywhere else it finds nothing to do.
MaskAsConfigured ==
    \A s \in DOMAIN mask \ legacy : author[s] \intersect Skips = {} => mask[s] = Mask[s]

\* Containers that start together can make each other fail, once while the
\* tables are created and once while the stations are inserted.  What the
\* loser wanted is then there: it cannot lose the same race again, so that
\* two restarts are enough.
RacesLost ==
    \A c \in Container :
        /\ lost[c] <= 2
        /\ lost[c] = 2 => tables = Table /\ DOMAIN mask = Station

\* Restarted often enough, every container comes to serve, unless the tables
\* that were there lack constraints, which no restart repairs.
EveryContainerServes ==
    unchecked = {} /\ MaxRestarts >= 2 + MaxFaults
        => \A c \in Container : <>(pc[c] = "serving")

\* The inductive invariant: what a container knows at each of its steps.
\* Whatever fills the tables or the rows fills them all, so that a look that
\* is out of date missed everything.
TablesDone(c) == pc[c] \in {"add column", "verify", "look for stations", "insert stations",
                            "look for keys", "insert key", "serving"}
Verified(c) == pc[c] \in {"look for stations", "insert stations", "look for keys",
                          "insert key", "serving"}
StationsDone(c) == pc[c] \in {"look for keys", "insert key", "serving"}

Knows(c) ==
    /\ TablesDone(c) => tables = Table
    /\ Verified(c) => unchecked = {}
    /\ StationsDone(c) => DOMAIN mask = Station
    /\ pc[c] = "serving" => Production \/ keys # {}
    /\ pc[c] = "create tables" =>
         /\ Table \ tables \subseteq seen[c] /\ seen[c] \subseteq Table
         /\ seen[c] \intersect tables = {} \/ tables = Table
         /\ lost[c] >= 1 => seen[c] = {}
    /\ pc[c] = "insert stations" => lost[c] <= 1
    /\ pc[c] # "ingest stations"

Looked(c) ==
    pc[c] \in {"insert stations", "ingest stations"} =>
        /\ Station \ DOMAIN mask \subseteq seen[c] /\ seen[c] \subseteq Station
        /\ seen[c] \intersect DOMAIN mask = {} \/ DOMAIN mask = Station

IInv ==
    /\ TypeOK
    /\ \A c \in Container \ Skips : Knows(c)
    /\ \A c \in Container : Looked(c)
    /\ \A c \in Skips : pc[c] \in {"serving", "ingest stations", "failed"} /\ lost[c] = 0
    /\ \A c \in Container :
         /\ lost[c] <= 2
         /\ lost[c] >= 1 => tables = Table
         /\ lost[c] = 2 => DOMAIN mask = Station
    /\ ~column => DOMAIN mask \subseteq legacy
    /\ MaskAsConfigured
=============================================================================
