-------------------------- MODULE SeedingProofs --------------------------
(***************************************************************************)
(* For any number of containers, stations, restarts and faults: what a     *)
(* container that serves can rely on, and that a container loses at most   *)
(* two races while it initialises the database.                            *)
(***************************************************************************)
EXTENDS Seeding, TLAPS

(***************************************************************************)
(* The invariant in parts, so that a step names those it can disturb.      *)
(***************************************************************************)
AllKnow == \A c \in Container \ Skips : Knows(c)
AllLooked == \A c \in Container : Looked(c)
SkippersServe ==
    \A c \in Skips : pc[c] \in {"serving", "ingest stations", "failed"} /\ lost[c] = 0
LossesBounded ==
    \A c \in Container :
        /\ lost[c] <= 2
        /\ lost[c] >= 1 => tables = Table
        /\ lost[c] = 2 => DOMAIN mask = Station
NoRowsWithoutColumn == ~column => DOMAIN mask \subseteq legacy

\* The invariant in the parts its proof handles one by one.
LEMMA Parts ==
    IInv <=> /\ TypeOK /\ AllKnow /\ AllLooked /\ SkippersServe /\ LossesBounded
             /\ NoRowsWithoutColumn /\ MaskAsConfigured
BY DEF IInv, AllKnow, AllLooked, SkippersServe, LossesBounded, NoRowsWithoutColumn

USE DEF Goto, See, Raise, Inserts, database, History,
        TablesDone, Verified, StationsDone

\* The database only grows, and the tables and the rows of the stations only
\* by everything that was missing.
Grows ==
    /\ tables' = tables \/ tables' = Table
    /\ unchecked' = unchecked
    /\ DOMAIN mask' = DOMAIN mask \/ DOMAIN mask' = Station
    /\ keys \subseteq keys'

\* A container that takes no step knows what it knew.
LEMMA OthersKnow ==
    ASSUME TypeOK, Grows, NEW o \in Container,
           pc'[o] = pc[o], seen'[o] = seen[o], lost'[o] = lost[o]
    PROVE  (Knows(o) => Knows(o)') /\ (Looked(o) => Looked(o)')
<1>1. tables \subseteq Table /\ DOMAIN mask \subseteq Station BY DEF TypeOK
<1>2. Knows(o) => Knows(o)'
  <2>1. SUFFICES ASSUME Knows(o) PROVE Knows(o)' OBVIOUS
  <2>2. (keys # {}) => (keys' # {}) BY DEF Grows
  <2>3. QED BY <1>1, <2>1, <2>2 DEF Grows, Knows
<1>3. Looked(o) => Looked(o)'
  BY <1>1 DEF Grows, Looked
<1>4. QED BY <1>2, <1>3

\* What a step of c has to show.
LEMMA StepKeeps ==
    ASSUME IInv, NEW c \in Container, TypeOK', Grows,
           \A o \in Container \ {c} :
              pc'[o] = pc[o] /\ seen'[o] = seen[o] /\ lost'[o] = lost[o],
           c \notin Skips => Knows(c)',
           Looked(c)',
           c \in Skips => pc'[c] \in {"serving", "ingest stations", "failed"} /\ lost'[c] = 0,
           lost'[c] <= 2,
           lost'[c] >= 1 => tables' = Table,
           lost'[c] = 2 => DOMAIN mask' = Station,
           NoRowsWithoutColumn',
           MaskAsConfigured'
    PROVE  IInv'
<1>1. TypeOK BY DEF IInv
<1>2. AllKnow' /\ AllLooked'
  BY <1>1, OthersKnow, Parts DEF AllKnow, AllLooked
<1>3. SkippersServe'
  BY Parts, SeedingAssumption DEF SkippersServe
<1>4. LossesBounded'
  <2>1. tables \subseteq Table /\ DOMAIN mask \subseteq Station BY <1>1 DEF TypeOK
  <2>2. LossesBounded BY Parts
  <2>3. QED BY <2>1, <2>2 DEF LossesBounded, Grows
<1>5. QED BY <1>2, <1>3, <1>4
  DEF IInv, AllKnow, AllLooked, SkippersServe, LossesBounded, NoRowsWithoutColumn

\* A container looks which tables are there.
LEMMA CheckTablesKeeps ==
    ASSUME IInv, NEW c \in Container, CheckTables(c) PROVE IInv'
<1> USE SeedingAssumption
<1>1. TypeOK /\ SkippersServe /\ LossesBounded /\ NoRowsWithoutColumn /\ MaskAsConfigured
      /\ Looked(c) /\ (c \notin Skips => Knows(c))
  BY Parts DEF AllKnow, AllLooked
<1>2. TypeOK'
  <2>1. pc' \in [Container -> Steps] /\ seen' \in [Container -> SUBSET (Table \union Station)]
    BY <1>1 DEF TypeOK, CheckTables, Steps
  <2>2. QED BY <1>1, <2>1 DEF TypeOK, CheckTables
<1>3. Grows
  BY <1>1 DEF TypeOK, CheckTables, Grows
<1>4. /\ \A o \in Container \ {c} : pc'[o] = pc[o] /\ seen'[o] = seen[o] /\ lost'[o] = lost[o]
      /\ c \in Skips => pc'[c] \in {"serving", "ingest stations", "failed"} /\ lost'[c] = 0
  BY <1>1 DEF TypeOK, CheckTables, SkippersServe
<1>5. (c \notin Skips => Knows(c)') /\ Looked(c)'
  BY <1>1 DEF TypeOK, CheckTables, Knows, Looked, LossesBounded
<1>6. /\ lost'[c] <= 2
      /\ lost'[c] >= 1 => tables' = Table
      /\ lost'[c] = 2 => DOMAIN mask' = Station
      /\ NoRowsWithoutColumn' /\ MaskAsConfigured'
  BY <1>1 DEF TypeOK, CheckTables, LossesBounded, NoRowsWithoutColumn, MaskAsConfigured
<1>7. QED BY <1>2, <1>3, <1>4, <1>5, <1>6, StepKeeps

\* It verifies the constraints.
LEMMA VerifyConstraintsKeeps ==
    ASSUME IInv, NEW c \in Container, VerifyConstraints(c) PROVE IInv'
<1> USE SeedingAssumption
<1>1. TypeOK /\ SkippersServe /\ LossesBounded /\ NoRowsWithoutColumn /\ MaskAsConfigured
      /\ Looked(c) /\ (c \notin Skips => Knows(c))
  BY Parts DEF AllKnow, AllLooked
<1>2. TypeOK'
  <2>1. pc' \in [Container -> Steps] /\ seen' \in [Container -> SUBSET (Table \union Station)]
    BY <1>1 DEF TypeOK, VerifyConstraints, Steps
  <2>2. QED BY <1>1, <2>1 DEF TypeOK, VerifyConstraints
<1>3. Grows
  BY <1>1 DEF TypeOK, VerifyConstraints, Grows
<1>4. /\ \A o \in Container \ {c} : pc'[o] = pc[o] /\ seen'[o] = seen[o] /\ lost'[o] = lost[o]
      /\ c \in Skips => pc'[c] \in {"serving", "ingest stations", "failed"} /\ lost'[c] = 0
  BY <1>1 DEF TypeOK, VerifyConstraints, SkippersServe
<1>5. (c \notin Skips => Knows(c)') /\ Looked(c)'
  BY <1>1 DEF TypeOK, VerifyConstraints, Knows, Looked, LossesBounded
<1>6. /\ lost'[c] <= 2
      /\ lost'[c] >= 1 => tables' = Table
      /\ lost'[c] = 2 => DOMAIN mask' = Station
      /\ NoRowsWithoutColumn' /\ MaskAsConfigured'
  BY <1>1 DEF TypeOK, VerifyConstraints, LossesBounded, NoRowsWithoutColumn, MaskAsConfigured
<1>7. QED BY <1>2, <1>3, <1>4, <1>5, <1>6, StepKeeps

\* It looks for ground stations.
LEMMA LookForStationsKeeps ==
    ASSUME IInv, NEW c \in Container, LookForStations(c) PROVE IInv'
<1> USE SeedingAssumption
<1>1. TypeOK /\ SkippersServe /\ LossesBounded /\ NoRowsWithoutColumn /\ MaskAsConfigured
      /\ Looked(c) /\ (c \notin Skips => Knows(c))
  BY Parts DEF AllKnow, AllLooked
<1>2. TypeOK'
  <2>1. pc' \in [Container -> Steps] /\ seen' \in [Container -> SUBSET (Table \union Station)]
    BY <1>1 DEF TypeOK, LookForStations, Steps
  <2>2. QED BY <1>1, <2>1 DEF TypeOK, LookForStations
<1>3. Grows
  BY <1>1 DEF TypeOK, LookForStations, Grows
<1>4. /\ \A o \in Container \ {c} : pc'[o] = pc[o] /\ seen'[o] = seen[o] /\ lost'[o] = lost[o]
      /\ c \in Skips => pc'[c] \in {"serving", "ingest stations", "failed"} /\ lost'[c] = 0
  BY <1>1 DEF TypeOK, LookForStations, SkippersServe
<1>5. (c \notin Skips => Knows(c)') /\ Looked(c)'
  <2>1. /\ pc[c] = "look for stations" /\ seen'[c] = Station \ DOMAIN mask
        /\ pc'[c] = IF Station \ DOMAIN mask = {} THEN "look for keys" ELSE "insert stations"
        /\ lost[c] \in Nat /\ DOMAIN mask \subseteq Station
        /\ UNCHANGED <<database, lost>>
    BY <1>1 DEF TypeOK, LookForStations
  <2>2. lost[c] = 2 => DOMAIN mask = Station
    BY <1>1 DEF LossesBounded
  <2>3. pc'[c] = "insert stations" => lost'[c] <= 1
    <3>1. pc'[c] = "insert stations" => lost[c] # 2 BY <2>1, <2>2
    <3>2. lost[c] \in Nat /\ lost[c] <= 2 /\ lost' = lost BY <1>1, <2>1 DEF LossesBounded
    <3>3. lost[c] # 2 => lost[c] <= 1 BY <3>2
    <3>4. QED BY <3>1, <3>2, <3>3
  <2>4. pc'[c] = "look for keys" => DOMAIN mask' = Station
    BY <2>1
  <2>5. c \notin Skips => tables = Table /\ unchecked = {}
    BY <1>1, <2>1 DEF Knows
  <2>6. (c \notin Skips => Knows(c)')
    BY <2>1, <2>3, <2>4, <2>5 DEF Knows
  <2>7. Looked(c)'
    BY <2>1 DEF Looked
  <2>8. QED BY <2>6, <2>7
<1>6. /\ lost'[c] <= 2
      /\ lost'[c] >= 1 => tables' = Table
      /\ lost'[c] = 2 => DOMAIN mask' = Station
      /\ NoRowsWithoutColumn' /\ MaskAsConfigured'
  BY <1>1 DEF TypeOK, LookForStations, LossesBounded, NoRowsWithoutColumn, MaskAsConfigured
<1>7. QED BY <1>2, <1>3, <1>4, <1>5, <1>6, StepKeeps

\* It looks for API keys.
LEMMA LookForKeysKeeps ==
    ASSUME IInv, NEW c \in Container, LookForKeys(c) PROVE IInv'
<1> USE SeedingAssumption
<1>1. TypeOK /\ SkippersServe /\ LossesBounded /\ NoRowsWithoutColumn /\ MaskAsConfigured
      /\ Looked(c) /\ (c \notin Skips => Knows(c))
  BY Parts DEF AllKnow, AllLooked
<1>2. TypeOK'
  <2>1. pc' \in [Container -> Steps] /\ seen' \in [Container -> SUBSET (Table \union Station)]
    BY <1>1 DEF TypeOK, LookForKeys, Steps
  <2>2. QED BY <1>1, <2>1 DEF TypeOK, LookForKeys
<1>3. Grows
  BY <1>1 DEF TypeOK, LookForKeys, Grows
<1>4. /\ \A o \in Container \ {c} : pc'[o] = pc[o] /\ seen'[o] = seen[o] /\ lost'[o] = lost[o]
      /\ c \in Skips => pc'[c] \in {"serving", "ingest stations", "failed"} /\ lost'[c] = 0
  BY <1>1 DEF TypeOK, LookForKeys, SkippersServe
<1>5. (c \notin Skips => Knows(c)') /\ Looked(c)'
  BY <1>1 DEF TypeOK, LookForKeys, Knows, Looked, LossesBounded
<1>6. /\ lost'[c] <= 2
      /\ lost'[c] >= 1 => tables' = Table
      /\ lost'[c] = 2 => DOMAIN mask' = Station
      /\ NoRowsWithoutColumn' /\ MaskAsConfigured'
  BY <1>1 DEF TypeOK, LookForKeys, LossesBounded, NoRowsWithoutColumn, MaskAsConfigured
<1>7. QED BY <1>2, <1>3, <1>4, <1>5, <1>6, StepKeeps

\* It inserts the key of a development database.
LEMMA InsertKeyKeeps ==
    ASSUME IInv, NEW c \in Container, InsertKey(c) PROVE IInv'
<1> USE SeedingAssumption
<1>1. TypeOK /\ SkippersServe /\ LossesBounded /\ NoRowsWithoutColumn /\ MaskAsConfigured
      /\ Looked(c) /\ (c \notin Skips => Knows(c))
  BY Parts DEF AllKnow, AllLooked
<1>2. TypeOK'
  <2>1. pc' \in [Container -> Steps] /\ seen' \in [Container -> SUBSET (Table \union Station)]
    BY <1>1 DEF TypeOK, InsertKey, Steps
  <2>2. QED BY <1>1, <2>1 DEF TypeOK, InsertKey
<1>3. Grows
  BY <1>1 DEF TypeOK, InsertKey, Grows
<1>4. /\ \A o \in Container \ {c} : pc'[o] = pc[o] /\ seen'[o] = seen[o] /\ lost'[o] = lost[o]
      /\ c \in Skips => pc'[c] \in {"serving", "ingest stations", "failed"} /\ lost'[c] = 0
  BY <1>1 DEF TypeOK, InsertKey, SkippersServe
<1>5. (c \notin Skips => Knows(c)') /\ Looked(c)'
  BY <1>1 DEF TypeOK, InsertKey, Knows, Looked, LossesBounded
<1>6. /\ lost'[c] <= 2
      /\ lost'[c] >= 1 => tables' = Table
      /\ lost'[c] = 2 => DOMAIN mask' = Station
      /\ NoRowsWithoutColumn' /\ MaskAsConfigured'
  BY <1>1 DEF TypeOK, InsertKey, LossesBounded, NoRowsWithoutColumn, MaskAsConfigured
<1>7. QED BY <1>2, <1>3, <1>4, <1>5, <1>6, StepKeeps

\* The ingestion of a container that serves looks for stations.
LEMMA IngestLooksKeeps ==
    ASSUME IInv, NEW c \in Container, IngestLooks(c) PROVE IInv'
<1> USE SeedingAssumption
<1>1. TypeOK /\ SkippersServe /\ LossesBounded /\ NoRowsWithoutColumn /\ MaskAsConfigured
      /\ Looked(c) /\ (c \notin Skips => Knows(c))
  BY Parts DEF AllKnow, AllLooked
<1>2. TypeOK'
  <2>1. pc' \in [Container -> Steps] /\ seen' \in [Container -> SUBSET (Table \union Station)]
    BY <1>1 DEF TypeOK, IngestLooks, Steps
  <2>2. QED BY <1>1, <2>1 DEF TypeOK, IngestLooks
<1>3. Grows
  BY <1>1 DEF TypeOK, IngestLooks, Grows
<1>4. /\ \A o \in Container \ {c} : pc'[o] = pc[o] /\ seen'[o] = seen[o] /\ lost'[o] = lost[o]
      /\ c \in Skips => pc'[c] \in {"serving", "ingest stations", "failed"} /\ lost'[c] = 0
  BY <1>1 DEF TypeOK, IngestLooks, SkippersServe
<1>5. (c \notin Skips => Knows(c)') /\ Looked(c)'
  BY <1>1 DEF TypeOK, IngestLooks, Knows, Looked, LossesBounded
<1>6. /\ lost'[c] <= 2
      /\ lost'[c] >= 1 => tables' = Table
      /\ lost'[c] = 2 => DOMAIN mask' = Station
      /\ NoRowsWithoutColumn' /\ MaskAsConfigured'
  BY <1>1 DEF TypeOK, IngestLooks, LossesBounded, NoRowsWithoutColumn, MaskAsConfigured
<1>7. QED BY <1>2, <1>3, <1>4, <1>5, <1>6, StepKeeps

\* A container that serves creates a key.
LEMMA CreateKeyKeeps ==
    ASSUME IInv, NEW c \in Container, CreateKey(c) PROVE IInv'
<1> USE SeedingAssumption
<1>1. TypeOK /\ SkippersServe /\ LossesBounded /\ NoRowsWithoutColumn /\ MaskAsConfigured
      /\ Looked(c) /\ (c \notin Skips => Knows(c))
  BY Parts DEF AllKnow, AllLooked
<1>2. TypeOK'
  <2>1. pc' \in [Container -> Steps] /\ seen' \in [Container -> SUBSET (Table \union Station)]
    BY <1>1 DEF TypeOK, CreateKey, Steps
  <2>2. QED BY <1>1, <2>1 DEF TypeOK, CreateKey
<1>3. Grows
  BY <1>1 DEF TypeOK, CreateKey, Grows
<1>4. /\ \A o \in Container \ {c} : pc'[o] = pc[o] /\ seen'[o] = seen[o] /\ lost'[o] = lost[o]
      /\ c \in Skips => pc'[c] \in {"serving", "ingest stations", "failed"} /\ lost'[c] = 0
  BY <1>1 DEF TypeOK, CreateKey, SkippersServe
<1>5. (c \notin Skips => Knows(c)') /\ Looked(c)'
  BY <1>1 DEF TypeOK, CreateKey, Knows, Looked, LossesBounded
<1>6. /\ lost'[c] <= 2
      /\ lost'[c] >= 1 => tables' = Table
      /\ lost'[c] = 2 => DOMAIN mask' = Station
      /\ NoRowsWithoutColumn' /\ MaskAsConfigured'
  BY <1>1 DEF TypeOK, CreateKey, LossesBounded, NoRowsWithoutColumn, MaskAsConfigured
<1>7. QED BY <1>2, <1>3, <1>4, <1>5, <1>6, StepKeeps

\* A statement fails or the container is killed.
LEMMA FaultKeeps ==
    ASSUME IInv, NEW c \in Container, Fault(c) PROVE IInv'
<1> USE SeedingAssumption
<1>1. TypeOK /\ SkippersServe /\ LossesBounded /\ NoRowsWithoutColumn /\ MaskAsConfigured
      /\ Looked(c) /\ (c \notin Skips => Knows(c))
  BY Parts DEF AllKnow, AllLooked
<1>2. TypeOK'
  <2>1. pc' \in [Container -> Steps] /\ seen' \in [Container -> SUBSET (Table \union Station)]
    BY <1>1 DEF TypeOK, Fault, Steps
  <2>2. QED BY <1>1, <2>1 DEF TypeOK, Fault
<1>3. Grows
  BY <1>1 DEF TypeOK, Fault, Grows
<1>4. /\ \A o \in Container \ {c} : pc'[o] = pc[o] /\ seen'[o] = seen[o] /\ lost'[o] = lost[o]
      /\ c \in Skips => pc'[c] \in {"serving", "ingest stations", "failed"} /\ lost'[c] = 0
  BY <1>1 DEF TypeOK, Fault, SkippersServe
<1>5. (c \notin Skips => Knows(c)') /\ Looked(c)'
  BY <1>1 DEF TypeOK, Fault, Knows, Looked, LossesBounded
<1>6. /\ lost'[c] <= 2
      /\ lost'[c] >= 1 => tables' = Table
      /\ lost'[c] = 2 => DOMAIN mask' = Station
      /\ NoRowsWithoutColumn' /\ MaskAsConfigured'
  BY <1>1 DEF TypeOK, Fault, LossesBounded, NoRowsWithoutColumn, MaskAsConfigured
<1>7. QED BY <1>2, <1>3, <1>4, <1>5, <1>6, StepKeeps

\* A container starts again.
LEMMA RestartKeeps ==
    ASSUME IInv, NEW c \in Container, Restart(c) PROVE IInv'
<1> USE SeedingAssumption
<1>1. TypeOK /\ SkippersServe /\ LossesBounded /\ NoRowsWithoutColumn /\ MaskAsConfigured
      /\ Looked(c) /\ (c \notin Skips => Knows(c))
  BY Parts DEF AllKnow, AllLooked
<1>2. TypeOK'
  <2>1. pc' \in [Container -> Steps]
    BY <1>1 DEF TypeOK, Restart, FirstStep, Steps
  <2>2. seen' \in [Container -> SUBSET (Table \union Station)]
    BY <1>1 DEF TypeOK, Restart
  <2>3. restarts' \in [Container -> 0..MaxRestarts]
    BY <1>1 DEF TypeOK, Restart
  <2>4. QED BY <1>1, <2>1, <2>2, <2>3 DEF TypeOK, Restart, FirstStep
<1>3. Grows
  BY <1>1 DEF TypeOK, Restart, FirstStep, Grows
<1>4. /\ \A o \in Container \ {c} : pc'[o] = pc[o] /\ seen'[o] = seen[o] /\ lost'[o] = lost[o]
      /\ c \in Skips => pc'[c] \in {"serving", "ingest stations", "failed"} /\ lost'[c] = 0
  BY <1>1 DEF TypeOK, Restart, FirstStep, SkippersServe
<1>5. (c \notin Skips => Knows(c)') /\ Looked(c)'
  BY <1>1 DEF TypeOK, Restart, FirstStep, Knows, Looked, LossesBounded
<1>6. /\ lost'[c] <= 2
      /\ lost'[c] >= 1 => tables' = Table
      /\ lost'[c] = 2 => DOMAIN mask' = Station
      /\ NoRowsWithoutColumn' /\ MaskAsConfigured'
  BY <1>1 DEF TypeOK, Restart, FirstStep, LossesBounded, NoRowsWithoutColumn, MaskAsConfigured
<1>7. QED BY <1>2, <1>3, <1>4, <1>5, <1>6, StepKeeps

\* A container that loses a race fails, and what it wanted is there.
LEMMA LosingKeeps ==
    ASSUME IInv, NEW c \in Container, c \notin Skips, LoseRace(c),
           tables = Table, lost[c] <= 1, lost[c] = 1 => DOMAIN mask = Station
    PROVE  IInv'
<1> USE SeedingAssumption
<1>1. TypeOK /\ SkippersServe /\ LossesBounded /\ NoRowsWithoutColumn /\ MaskAsConfigured
      /\ Looked(c) /\ Knows(c)
  BY Parts DEF AllKnow, AllLooked
<1>2. TypeOK'
  <2>1. pc' \in [Container -> Steps]
    BY <1>1 DEF TypeOK, LoseRace, Steps
  <2>2. lost' \in [Container -> Nat]
    BY <1>1 DEF TypeOK, LoseRace
  <2>3. QED BY <1>1, <2>1, <2>2 DEF TypeOK, LoseRace
<1>3. Grows
  BY <1>1 DEF TypeOK, LoseRace, Grows
<1>4. \A o \in Container \ {c} : pc'[o] = pc[o] /\ seen'[o] = seen[o] /\ lost'[o] = lost[o]
  BY <1>1 DEF TypeOK, LoseRace
<1>5. pc'[c] = "failed" /\ lost'[c] = lost[c] + 1
  BY <1>1 DEF TypeOK, LoseRace
<1>6. Knows(c)' /\ Looked(c)'
  BY <1>5 DEF Knows, Looked
<1>7. /\ lost'[c] <= 2
      /\ lost'[c] >= 1 => tables' = Table
      /\ lost'[c] = 2 => DOMAIN mask' = Station
  BY <1>1, <1>5 DEF TypeOK, LoseRace
<1>8. NoRowsWithoutColumn' /\ MaskAsConfigured'
  BY <1>1 DEF NoRowsWithoutColumn, MaskAsConfigured, LoseRace
<1>9. QED BY <1>2, <1>3, <1>4, <1>6, <1>7, <1>8, StepKeeps

\* A container creates the tables.
LEMMA CreateTablesKeeps ==
    ASSUME IInv, NEW c \in Container, CreateTables(c) PROVE IInv'
<1> USE SeedingAssumption
<1>1. TypeOK /\ SkippersServe /\ LossesBounded /\ NoRowsWithoutColumn /\ MaskAsConfigured
      /\ Looked(c) /\ (c \notin Skips => Knows(c))
  BY Parts DEF AllKnow, AllLooked
<1>2. c \notin Skips /\ Knows(c) /\ pc[c] = "create tables" /\ lost[c] \in Nat
  BY <1>1 DEF CreateTables, SkippersServe, TypeOK
<1>3. /\ Table \ tables \subseteq seen[c] /\ seen[c] \subseteq Table
      /\ seen[c] \intersect tables = {} \/ tables = Table
      /\ lost[c] >= 1 => seen[c] = {}
  BY <1>2 DEF Knows
<1>4. CASE seen[c] \intersect tables # {}
  <2>1. LoseRace(c) BY <1>4 DEF CreateTables
  <2>2. tables = Table /\ seen[c] # {} BY <1>3, <1>4
  <2>3. ~(lost[c] >= 1) BY <1>3, <2>2
  <2>4. lost[c] <= 1 /\ lost[c] # 1
    <3>1. lost[c] \in Nat BY <1>2
    <3>2. QED BY <2>3, <3>1
  <2>5. QED BY <1>2, <2>1, <2>2, <2>4, LosingKeeps
<1>5. CASE seen[c] \intersect tables = {}
  <2>1. /\ tables' = tables \union seen[c]
        /\ column' = (column \/ "ground_stations" \in seen[c])
        /\ pc' = [pc EXCEPT ![c] = "add column"]
        /\ UNCHANGED <<unchecked, mask, keys, seen, restarts, faults, legacy, author, lost>>
    BY <1>5 DEF CreateTables
  <2>2. tables' = Table
    BY <1>1, <1>3, <2>1 DEF TypeOK
  <2>3. TypeOK'
    <3>1. pc' \in [Container -> Steps]
      BY <1>1, <2>1 DEF TypeOK, Steps
    <3>2. column' \in BOOLEAN BY <2>1
    <3>3. unchecked' \subseteq tables' BY <1>1, <2>1 DEF TypeOK
    <3>4. QED BY <1>1, <2>1, <2>2, <3>1, <3>2, <3>3 DEF TypeOK
  <2>4. Grows BY <1>1, <2>1, <2>2 DEF Grows, TypeOK
  <2>5. /\ pc'[c] = "add column"
        /\ \A o \in Container \ {c} : pc'[o] = pc[o] /\ seen'[o] = seen[o] /\ lost'[o] = lost[o]
    BY <1>1, <2>1 DEF TypeOK
  <2>6. Knows(c)' /\ Looked(c)'
    BY <2>2, <2>5 DEF Knows, Looked
  <2>7. /\ lost'[c] <= 2
        /\ lost'[c] >= 1 => tables' = Table
        /\ lost'[c] = 2 => DOMAIN mask' = Station
    BY <1>1, <2>1, <2>2 DEF LossesBounded
  <2>8. NoRowsWithoutColumn' /\ MaskAsConfigured'
    BY <1>1, <2>1 DEF NoRowsWithoutColumn, MaskAsConfigured
  <2>9. QED BY <1>2, <2>3, <2>4, <2>5, <2>6, <2>7, <2>8, StepKeeps
<1>6. QED BY <1>4, <1>5

\* The rows of a new column have the default, but they were there before.
LEMMA AddColumnKeeps ==
    ASSUME IInv, NEW c \in Container, AddColumn(c) PROVE IInv'
<1> USE SeedingAssumption
<1>1. TypeOK /\ SkippersServe /\ LossesBounded /\ NoRowsWithoutColumn /\ MaskAsConfigured
      /\ Looked(c) /\ (c \notin Skips => Knows(c))
  BY Parts DEF AllKnow, AllLooked
<1>2. /\ DOMAIN mask' = DOMAIN mask
      /\ \A s \in DOMAIN mask : mask'[s] \in Nat
      /\ column' \in BOOLEAN /\ faults' \in 0..MaxFaults
      /\ column => column' /\ mask' = mask
  <2>1. CASE column' = TRUE /\ mask' = (IF column THEN mask ELSE [s \in DOMAIN mask |-> DefaultMask])
             /\ UNCHANGED faults
    BY <1>1, <2>1 DEF TypeOK
  <2>2. CASE faults < MaxFaults /\ faults' = faults + 1 /\ UNCHANGED <<column, mask>>
    BY <1>1, <2>2 DEF TypeOK
  <2>3. QED BY <2>1, <2>2 DEF AddColumn
<1>3. TypeOK'
  <2>1. pc' \in [Container -> Steps]
    BY <1>1 DEF AddColumn, TypeOK, Steps
  <2>2. QED BY <1>1, <1>2, <2>1 DEF AddColumn, TypeOK
<1>4. Grows BY <1>2 DEF AddColumn, Grows
<1>5. /\ \A o \in Container \ {c} : pc'[o] = pc[o] /\ seen'[o] = seen[o] /\ lost'[o] = lost[o]
      /\ pc[c] = "add column" /\ pc'[c] = "verify" /\ c \notin Skips
  BY <1>1 DEF AddColumn, TypeOK, SkippersServe
<1>6. Knows(c)' /\ Looked(c)'
  BY <1>1, <1>5 DEF AddColumn, Knows, Looked
<1>7. /\ lost'[c] <= 2
      /\ lost'[c] >= 1 => tables' = Table
      /\ lost'[c] = 2 => DOMAIN mask' = Station
  BY <1>1, <1>2 DEF AddColumn, LossesBounded
<1>8. NoRowsWithoutColumn'
  BY <1>1, <1>2 DEF AddColumn, NoRowsWithoutColumn
<1>9. MaskAsConfigured'
  <2>1. column => mask' = mask BY <1>2
  <2>2. ~column => DOMAIN mask' \subseteq legacy'
    BY <1>1, <1>2 DEF AddColumn, NoRowsWithoutColumn
  <2>3. legacy' = legacy /\ author' = author BY DEF AddColumn
  <2>4. QED BY <1>1, <2>1, <2>2, <2>3 DEF MaskAsConfigured
<1>10. QED BY <1>3, <1>4, <1>5, <1>6, <1>7, <1>8, <1>9, StepKeeps

\* Inserting what a look found missing, with the configured masks unless the
\* container skips init_db, completes the stations.
LEMMA InsertingKeeps ==
    ASSUME IInv, NEW c \in Container, NEW value \in [Station -> Nat],
           NEW next \in {"look for keys", "serving"},
           pc[c] \in {"insert stations", "ingest stations"},
           column, seen[c] \intersect DOMAIN mask = {},
           c \notin Skips => value = Mask,
           mask' = WithRows(seen[c], value), Inserts(c, seen[c]), Goto(c, next),
           UNCHANGED <<tables, unchecked, column, keys, seen, restarts, faults, legacy, lost>>,
           c \in Skips => next = "serving",
           c \notin Skips => next = "look for keys" /\ tables = Table /\ unchecked = {}
    PROVE  IInv'
<1> USE SeedingAssumption
<1>1. TypeOK /\ SkippersServe /\ LossesBounded /\ NoRowsWithoutColumn /\ MaskAsConfigured
      /\ Looked(c) /\ (c \notin Skips => Knows(c))
  BY Parts DEF AllKnow, AllLooked
<1>2. /\ Station \ DOMAIN mask \subseteq seen[c] /\ seen[c] \subseteq Station
      /\ DOMAIN mask \subseteq Station
  BY <1>1 DEF Looked, TypeOK
<1>3. /\ DOMAIN mask' = Station
      /\ \A s \in DOMAIN mask : mask'[s] = mask[s]
      /\ \A s \in seen[c] : mask'[s] = value[s]
  <2>1. /\ DOMAIN mask' = DOMAIN mask \union seen[c]
        /\ \A s \in DOMAIN mask : mask'[s] = mask[s]
        /\ \A s \in seen[c] \ DOMAIN mask : mask'[s] = value[s]
    <3>1. mask' = WithRows(seen[c], value) OBVIOUS
    <3>2. QED BY <3>1 DEF WithRows
  <2>2. \A s \in seen[c] : s \notin DOMAIN mask OBVIOUS
  <2>3. QED BY <1>2, <2>1, <2>2
<1>4. /\ \A s \in Station \ seen[c] : author'[s] = author[s]
      /\ \A s \in seen[c] : author'[s] = author[s] \union {c}
      /\ author' \in [Station -> SUBSET Container]
  BY <1>1, <1>2 DEF TypeOK
<1>5. TypeOK'
  <2>1. pc' \in [Container -> Steps]
    BY <1>1 DEF TypeOK, Steps
  <2>2. \A s \in DOMAIN mask' : mask'[s] \in Nat
    BY <1>1, <1>2, <1>3 DEF TypeOK
  <2>3. legacy' \subseteq DOMAIN mask'
    BY <1>1, <1>2, <1>3 DEF TypeOK
  <2>4. QED BY <1>1, <1>3, <1>4, <2>1, <2>2, <2>3 DEF TypeOK
<1>6. Grows BY <1>3 DEF Grows
<1>7. /\ \A o \in Container \ {c} : pc'[o] = pc[o] /\ seen'[o] = seen[o] /\ lost'[o] = lost[o]
      /\ pc'[c] = next
  BY <1>1 DEF TypeOK
<1>8. (c \notin Skips => Knows(c)') /\ Looked(c)'
  BY <1>3, <1>7 DEF Knows, Looked
<1>9. c \in Skips => pc'[c] \in {"serving", "ingest stations", "failed"} /\ lost'[c] = 0
  BY <1>1, <1>7 DEF SkippersServe
<1>10. /\ lost'[c] <= 2
       /\ lost'[c] >= 1 => tables' = Table
       /\ lost'[c] = 2 => DOMAIN mask' = Station
  BY <1>1, <1>3 DEF LossesBounded
<1>11. NoRowsWithoutColumn'
  BY DEF NoRowsWithoutColumn
<1>12. MaskAsConfigured'
  <2>1. SUFFICES ASSUME NEW s \in Station, s \notin legacy, author'[s] \intersect Skips = {}
                 PROVE  mask'[s] = Mask[s]
    BY <1>3 DEF MaskAsConfigured
  <2>2. CASE s \in seen[c]
    <3>1. c \notin Skips BY <1>4, <2>1, <2>2
    <3>2. QED BY <1>3, <2>2, <3>1
  <2>3. CASE s \notin seen[c]
    <3>1. s \in DOMAIN mask BY <1>2, <2>3
    <3>2. author[s] \intersect Skips = {} BY <1>4, <2>1, <2>3
    <3>3. QED BY <1>1, <1>3, <2>1, <3>1, <3>2 DEF MaskAsConfigured
  <2>4. QED BY <2>2, <2>3
<1>13. QED BY <1>5, <1>6, <1>7, <1>8, <1>9, <1>10, <1>11, <1>12, StepKeeps

\* A step that touches only where a container stands.
LEMMA MovingKeeps ==
    ASSUME IInv, NEW c \in Container, NEW next \in {"failed", "serving"},
           c \notin Skips => next = "failed",
           Goto(c, next), UNCHANGED <<database, seen, restarts, faults, legacy, author, lost>>
    PROVE  IInv'
<1> USE SeedingAssumption
<1>1. TypeOK /\ SkippersServe /\ LossesBounded /\ NoRowsWithoutColumn /\ MaskAsConfigured
  BY Parts
<1>2. TypeOK'
  <2>1. pc' \in [Container -> Steps] BY <1>1 DEF TypeOK, Steps
  <2>2. QED BY <1>1, <2>1 DEF TypeOK
<1>3. Grows BY DEF Grows
<1>4. /\ \A o \in Container \ {c} : pc'[o] = pc[o] /\ seen'[o] = seen[o] /\ lost'[o] = lost[o]
      /\ pc'[c] = next
  BY <1>1 DEF TypeOK
<1>5. (c \notin Skips => Knows(c)') /\ Looked(c)'
  BY <1>4 DEF Knows, Looked
<1>6. c \in Skips => pc'[c] \in {"serving", "ingest stations", "failed"} /\ lost'[c] = 0
  BY <1>1, <1>4 DEF SkippersServe
<1>7. /\ lost'[c] <= 2
      /\ lost'[c] >= 1 => tables' = Table
      /\ lost'[c] = 2 => DOMAIN mask' = Station
  BY <1>1 DEF LossesBounded
<1>8. NoRowsWithoutColumn' /\ MaskAsConfigured'
  BY <1>1 DEF NoRowsWithoutColumn, MaskAsConfigured
<1>9. QED BY <1>2, <1>3, <1>4, <1>5, <1>6, <1>7, <1>8, StepKeeps

\* A container inserts its stations.
LEMMA InsertStationsKeeps ==
    ASSUME IInv, NEW c \in Container, InsertStations(c) PROVE IInv'
<1> USE SeedingAssumption
<1>1. TypeOK /\ SkippersServe /\ LossesBounded /\ Looked(c) /\ (c \notin Skips => Knows(c))
  BY Parts DEF AllKnow, AllLooked
<1>2. pc[c] = "insert stations" /\ c \notin Skips /\ lost[c] \in Nat
  BY <1>1 DEF InsertStations, SkippersServe, TypeOK
<1>3. tables = Table /\ unchecked = {} /\ lost[c] <= 1
  BY <1>1, <1>2 DEF Knows
<1>4. CASE column /\ seen[c] \intersect DOMAIN mask # {}
  <2>1. LoseRace(c) BY <1>4 DEF InsertStations
  <2>2. DOMAIN mask = Station BY <1>1, <1>2, <1>4 DEF Looked
  <2>3. QED BY <1>2, <1>3, <2>1, <2>2, LosingKeeps
<1>5. CASE ~column
  <2>1. Goto(c, "failed") /\ UNCHANGED <<database, seen, restarts, faults, legacy, author, lost>>
    BY <1>5 DEF InsertStations
  <2>2. QED BY <2>1, MovingKeeps
<1>6. CASE column /\ seen[c] \intersect DOMAIN mask = {}
  <2>1. /\ mask' = WithRows(seen[c], Mask) /\ Inserts(c, seen[c]) /\ Goto(c, "look for keys")
        /\ UNCHANGED <<tables, unchecked, column, keys, seen, restarts, faults, legacy, lost>>
    BY <1>6 DEF InsertStations
  <2>2. Mask \in [Station -> Nat] OBVIOUS
  <2> HIDE DEF Inserts, Goto
  <2>3. pc[c] \in {"insert stations", "ingest stations"} BY <1>2
  <2>4. QED BY <1>2, <1>3, <1>6, <2>1, <2>2, <2>3, InsertingKeeps
<1>7. QED BY <1>4, <1>5, <1>6

\* A container that went through init_db finds nothing to ingest, so the
\* one that does skipped it.
LEMMA IngestInsertsKeeps ==
    ASSUME IInv, NEW c \in Container, IngestInserts(c) PROVE IInv'
<1> USE SeedingAssumption
<1>1. c \in Skips /\ pc[c] = "ingest stations"
  BY Parts DEF AllKnow, Knows, IngestInserts
<1>2. CASE column /\ seen[c] \intersect DOMAIN mask = {}
  <2> DEFINE value == [s \in Station |-> DefaultMask]
  <2>1. value \in [Station -> Nat] OBVIOUS
  <2>2. /\ mask' = WithRows(seen[c], value) /\ Inserts(c, seen[c]) /\ Goto(c, "serving")
        /\ UNCHANGED <<tables, unchecked, column, keys, seen, restarts, faults, legacy, lost>>
    BY <1>2 DEF IngestInserts
  <2> HIDE DEF value, Inserts, Goto
  <2>3. pc[c] \in {"insert stations", "ingest stations"} BY <1>1
  <2>4. c \notin Skips => value = Mask /\ "serving" = "look for keys" /\ tables = Table /\ unchecked = {}
    BY <1>1
  <2>5. QED BY <1>2, <2>1, <2>2, <2>3, <2>4, InsertingKeeps
<1>3. CASE ~(column /\ seen[c] \intersect DOMAIN mask = {})
  <2>1. Goto(c, "serving") /\ UNCHANGED <<database, seen, restarts, faults, legacy, author, lost>>
    BY <1>3 DEF IngestInserts
  <2>2. QED BY <1>1, <2>1, MovingKeeps
<1>4. QED BY <1>2, <1>3

\* The invariant holds before the first step.
LEMMA InitKeeps == Init => IInv
<1> SUFFICES ASSUME Init PROVE IInv OBVIOUS
<1> USE SeedingAssumption
<1>1. DOMAIN mask \subseteq Station /\ \A s \in DOMAIN mask : mask[s] \in Nat
  BY DEF Init
<1>2. tables \subseteq Table /\ unchecked \subseteq tables
  BY DEF Init, Table
<1>3. column \in BOOLEAN /\ keys \subseteq {"dev", "other"} BY DEF Init
<1>4. pc \in [Container -> Steps] BY DEF Init, FirstStep, Steps
<1>5. TypeOK BY <1>1, <1>2, <1>3, <1>4 DEF Init, TypeOK
<1>6. \A c \in Container : pc[c] = IF c \in Skips THEN "serving" ELSE "check tables"
  BY DEF Init, FirstStep
<1>7. AllKnow /\ AllLooked /\ SkippersServe
  BY <1>6 DEF Init, AllKnow, AllLooked, SkippersServe, Knows, Looked
<1>8. LossesBounded BY DEF Init, LossesBounded
<1>9. NoRowsWithoutColumn /\ MaskAsConfigured BY DEF Init, NoRowsWithoutColumn, MaskAsConfigured
<1>10. QED BY <1>5, <1>7, <1>8, <1>9, Parts

\* Every step keeps it.
LEMMA NextKeeps == IInv /\ [Next]_vars => IInv'
<1> SUFFICES ASSUME IInv, [Next]_vars PROVE IInv' OBVIOUS
<1>1. ASSUME NEW c \in Container, InitDb(c) PROVE IInv'
  BY <1>1, CheckTablesKeeps, CreateTablesKeeps, AddColumnKeeps, VerifyConstraintsKeeps,
     LookForStationsKeeps, InsertStationsKeeps, LookForKeysKeeps, InsertKeyKeeps DEF InitDb
<1>2. ASSUME NEW c \in Container,
             IngestLooks(c) \/ IngestInserts(c) \/ CreateKey(c) \/ Fault(c) \/ Restart(c)
      PROVE  IInv'
  BY <1>2, IngestLooksKeeps, IngestInsertsKeeps, CreateKeyKeeps, FaultKeeps, RestartKeeps
<1>3. CASE UNCHANGED vars
  BY <1>3 DEF vars, IInv, TypeOK, Knows, Looked, MaskAsConfigured
<1>4. QED BY <1>1, <1>2, <1>3 DEF Next

\* Every container knows what its step relies on, whatever the others do.
THEOREM InvariantHolds == Spec => []IInv
BY InitKeeps, NextKeeps, PTL DEF Spec

\* A container that went through init_db and serves has a complete database.
THEOREM ServedIsReady == Spec => []ServedReady
<1>1. IInv => ServedReady
  <2>1. SUFFICES ASSUME IInv, NEW c \in Container \ Skips, pc[c] = "serving"
                 PROVE  /\ tables = Table /\ unchecked = {}
                        /\ DOMAIN mask = Station
                        /\ Production \/ keys # {}
    BY DEF ServedReady
  <2>2. QED BY <2>1, Parts DEF AllKnow, Knows
<1>2. QED BY <1>1, InvariantHolds, PTL

\* A container loses at most one race for the tables and one for the stations.
THEOREM TwoRacesAtMost == Spec => []RacesLost
<1>1. IInv => RacesLost
  <2>1. SUFFICES ASSUME IInv, NEW c \in Container
                 PROVE  lost[c] <= 2 /\ (lost[c] = 2 => tables = Table /\ DOMAIN mask = Station)
    BY DEF RacesLost
  <2>2. QED BY <2>1, Parts DEF LossesBounded
<1>2. QED BY <1>1, InvariantHolds, PTL

\* A row that no skipping container inserted has the configured mask.
THEOREM MasksAreAsConfigured == Spec => []MaskAsConfigured
BY InvariantHolds, PTL DEF IInv

=============================================================================
