------------------------------ MODULE TleIngest -----------------------------
(***************************************************************************)
(* TLEFetcher of ingestion/fetcher.py on the tles table: fetch_all with    *)
(* its sources and attempts, and _parse_and_store, which compares a feed   *)
(* with what it has read from the table at its start and writes in         *)
(* batches.  Ingests come from Celery (ingest_tles, every six hours), from *)
(* the scheduler of the API process and from POST /tasks/ingest-tles, and  *)
(* nothing keeps two of them from running at once.                         *)
(*                                                                         *)
(* PostgreSQL runs at READ COMMITTED and the session does not autoflush:   *)
(* a batch is the UPDATE that retires rows, which sees what is committed   *)
(* when it starts, then the UPDATEs and INSERTs of the commit.  That the   *)
(* first UPDATE may wait for the row locks of another batch is left out:   *)
(* it then retires the same rows, later.                                   *)
(***************************************************************************)
EXTENDS Integers, Sequences, FiniteSets

CONSTANTS
  Sat,          \* norad ids
  Epoch,        \* TLE epochs
  Text,         \* what compute_pair_hash and the name tell apart
  Feed,         \* the catalogues a source may serve, see Blocks
  Ingest,       \* executions of fetch_all
  ApiIngest,    \* those of the API process, which are not retried
  NumSources,   \* CELESTRAK_URL and the TLE_FALLBACK_URLS
  MaxAttempts,  \* _HTTP_MAX_RETRIES
  BatchSize,    \* _BATCH_SIZE
  MaxRestarts   \* bound: retries and redeliveries of one ingest_tles message

Key == Sat \X Epoch   \* the unique constraint of the table

(***************************************************************************)
(* Three lines of a catalogue.  kind is "blank" when all are empty; sound  *)
(* means that both lines have the right form, ranges and checksums;        *)
(* sat is read from line 1 and sat2 from line 2.                           *)
(***************************************************************************)
Blocks ==
  [kind : {"blank", "tle"}, sound : BOOLEAN,
   sat : Sat, epoch : Epoch, sat2 : Sat, text : Text]

ASSUME IngestAssumption ==
  /\ Feed \subseteq Seq(Blocks)
  /\ Text # {}
  /\ ApiIngest \subseteq Ingest
  /\ NumSources \in Nat \ {0} /\ MaxAttempts \in Nat \ {0}
  /\ BatchSize \in Nat \ {0} /\ MaxRestarts \in Nat

VARIABLES
  existing,   \* the keys in the table
  current,    \* those with is_current
  text,       \* text[k]: name, lines and checksum of row k
  pc,         \* pc[i]: see States
  restarts,   \* restarts[i]: how often the message started again
  url,        \* url[i]: the source at hand
  attempt,    \* attempt[i]: the attempt at it
  feed,       \* feed[i]: the catalogue that was downloaded
  at,         \* at[i]: the next block of it
  curKeys,    \* curKeys[i]: the keys of current_tles
  known,      \* known[i]: all_epochs
  obj,        \* obj[i][k]: the text of the session's object for row k
  added,      \* added[i]: added_this_run
  retire,     \* retire[i]: retire_this_batch
  dirty,      \* dirty[i]: rows changed in place since the last commit
  fresh,      \* fresh[i]: rows added since the last commit
  pending,    \* pending[i]: batch_pending
  hit,        \* hit[i]: the rows the UPDATE of this batch has retired
  overlapped  \* history: whether two ingests have ever worked at once

tableVars   == <<existing, current, text>>
fetchVars   == <<url, attempt, feed>>
readVars    == <<curKeys, known>>
batchVars   == <<obj, added, retire, dirty, fresh, pending>>
sessionVars == <<at, readVars, batchVars, hit>>
vars        == <<tableVars, pc, restarts, fetchVars, sessionVars, overlapped>>

(***************************************************************************)
(* idle        not triggered             queued      waiting for a worker  *)
(* fetching    in _fetch_url             downloaded  about to read the     *)
(* reading     has read the current      parsing     in the loop           *)
(*             rows, not yet the epochs  committing  the batch's UPDATE is *)
(* stored      _parse_and_store is back              done, not its commit  *)
(* done        returned                  failed      gave up               *)
(***************************************************************************)
States == {"idle", "queued", "fetching", "downloaded", "reading", "parsing",
           "committing", "stored", "done", "failed"}

\* Between the first read of the table and the last commit.
AtWork == {"reading", "parsing", "committing"}

TypeOK ==
  /\ existing \subseteq Key
  /\ current \subseteq existing
  /\ text \in [Key -> Text]
  /\ pc \in [Ingest -> States]
  /\ restarts \in [Ingest -> 0..MaxRestarts]
  /\ url \in [Ingest -> 1..NumSources]
  /\ attempt \in [Ingest -> 1..MaxAttempts]
  /\ feed \in [Ingest -> Feed \cup {<<>>}]
  /\ at \in [Ingest -> Nat \ {0}]
  /\ curKeys \in [Ingest -> SUBSET Key]
  /\ known \in [Ingest -> SUBSET Key]
  /\ obj \in [Ingest -> [Key -> Text]]
  /\ added \in [Ingest -> SUBSET Sat]
  /\ retire \in [Ingest -> SUBSET Sat]
  /\ dirty \in [Ingest -> SUBSET Key]
  /\ fresh \in [Ingest -> SUBSET Key]
  /\ pending \in [Ingest -> 0..BatchSize]
  /\ hit \in [Ingest -> SUBSET Key]
  /\ overlapped \in BOOLEAN

\* The text of a row that does not exist.
AnyText == CHOOSE t \in Text : TRUE

SatsOf(keys) == {k[1] : k \in keys}

Init ==
  /\ existing = {}
  /\ current = {}
  /\ text = [k \in Key |-> AnyText]
  /\ pc = [i \in Ingest |-> "idle"]
  /\ restarts = [i \in Ingest |-> 0]
  /\ url = [i \in Ingest |-> 1]
  /\ attempt = [i \in Ingest |-> 1]
  /\ feed = [i \in Ingest |-> <<>>]
  /\ at = [i \in Ingest |-> 1]
  /\ curKeys = [i \in Ingest |-> {}]
  /\ known = [i \in Ingest |-> {}]
  /\ obj = [i \in Ingest |-> text]
  /\ added = [i \in Ingest |-> {}]
  /\ retire = [i \in Ingest |-> {}]
  /\ dirty = [i \in Ingest |-> {}]
  /\ fresh = [i \in Ingest |-> {}]
  /\ pending = [i \in Ingest |-> 0]
  /\ hit = [i \in Ingest |-> {}]
  /\ overlapped = FALSE

Goto(i, from, to) ==
  /\ pc[i] = from
  /\ pc' = [pc EXCEPT ![i] = to]

-----------------------------------------------------------------------------
(* fetch_all and _fetch_url *)

\* The message is sent, or the job of the API process is started.
Trigger(i) ==
  /\ Goto(i, "idle", "queued")
  /\ UNCHANGED <<tableVars, restarts, fetchVars, sessionVars, overlapped>>

Start(i) ==
  /\ Goto(i, "queued", "fetching")
  /\ url' = [url EXCEPT ![i] = 1]
  /\ attempt' = [attempt EXCEPT ![i] = 1]
  /\ UNCHANGED <<tableVars, restarts, feed, sessionVars, overlapped>>

\* A transient status, a network error or a timeout.
TryAgain(i) ==
  /\ pc[i] = "fetching"
  /\ attempt[i] < MaxAttempts
  /\ attempt' = [attempt EXCEPT ![i] = @ + 1]
  /\ UNCHANGED <<tableVars, pc, restarts, url, feed, sessionVars, overlapped>>

\* Bug: after the last source comes the first.
NextSourceRound(i) ==
  /\ pc[i] = "fetching"
  /\ url' = [url EXCEPT ![i] = (@ % NumSources) + 1]
  /\ attempt' = [attempt EXCEPT ![i] = 1]
  /\ UNCHANGED <<tableVars, pc, restarts, feed, sessionVars, overlapped>>

\* Any other status, a page of HTML or an empty text at once, a transient
\* error on the last attempt.  After the last source fetch_all raises: Fail.
NextSource(i) ==
  /\ pc[i] = "fetching"
  /\ url[i] < NumSources
  /\ url' = [url EXCEPT ![i] = @ + 1]
  /\ attempt' = [attempt EXCEPT ![i] = 1]
  /\ UNCHANGED <<tableVars, pc, restarts, feed, sessionVars, overlapped>>

Download(i) ==
  /\ Goto(i, "fetching", "downloaded")
  /\ \E f \in Feed : feed' = [feed EXCEPT ![i] = f]
  /\ UNCHANGED <<tableVars, restarts, url, attempt, sessionVars, overlapped>>

-----------------------------------------------------------------------------
(* _parse_and_store *)

\* The first SELECT: the current rows, as objects of the session.
ReadCurrent(i) ==
  /\ Goto(i, "downloaded", "reading")
  /\ curKeys' = [curKeys EXCEPT ![i] = current]
  /\ obj' = [obj EXCEPT ![i] = text]
  /\ overlapped' = (overlapped \/ \E j \in Ingest \ {i} : pc[j] \in AtWork)
  /\ UNCHANGED <<tableVars, restarts, fetchVars, at, known, added, retire, dirty,
                 fresh, pending, hit>>

\* Bug: the guard of the unique constraint knows the current rows only.
ReadEpochsOfCurrent(i) ==
  /\ Goto(i, "reading", "parsing")
  /\ known' = [known EXCEPT ![i] = current]
  /\ UNCHANGED <<tableVars, restarts, fetchVars, at, curKeys, batchVars, hit,
                 overlapped>>

\* The second SELECT: the keys of all rows.
ReadEpochs(i) ==
  /\ Goto(i, "reading", "parsing")
  /\ known' = [known EXCEPT ![i] = existing]
  /\ UNCHANGED <<tableVars, restarts, fetchVars, at, curKeys, batchVars, hit,
                 overlapped>>

\* validate_pair: both lines are sound and of the same satellite.
Accepted(b) == b.kind = "tle" /\ b.sound /\ b.sat = b.sat2

KeyOf(b) == <<b.sat, b.epoch>>

\* The current row of this very epoch has another text: change it in place.
Update(i, b) ==
  /\ KeyOf(b) \in curKeys[i]
  /\ obj[i][KeyOf(b)] # b.text
  /\ obj' = [obj EXCEPT ![i][KeyOf(b)] = b.text]
  /\ dirty' = [dirty EXCEPT ![i] = @ \cup {KeyOf(b)}]
  /\ pending' = [pending EXCEPT ![i] = @ + 1]
  /\ UNCHANGED <<added, retire, fresh>>

\* Bug: a second epoch of a satellite in one catalogue is inserted as well.
InsertTwice(i, b) ==
  /\ KeyOf(b) \notin curKeys[i] \cup known[i]
  /\ retire' = [retire EXCEPT ![i] =
                  @ \cup ({b.sat} \cap (SatsOf(curKeys[i]) \ added[i]))]
  /\ fresh' = [fresh EXCEPT ![i] = @ \cup {KeyOf(b)}]
  /\ known' = [known EXCEPT ![i] = @ \cup {KeyOf(b)}]
  /\ added' = [added EXCEPT ![i] = @ \cup {b.sat}]
  /\ obj' = [obj EXCEPT ![i][KeyOf(b)] = b.text]
  /\ pending' = [pending EXCEPT ![i] = @ + 1]
  /\ UNCHANGED dirty

\* A new epoch of a satellite not seen yet in this run: retire, insert.  A
\* satellite leaves current_norad_ids when it enters added_this_run.
Insert(i, b) ==
  /\ KeyOf(b) \notin curKeys[i] \cup known[i]
  /\ b.sat \notin added[i]
  /\ retire' = [retire EXCEPT ![i] = @ \cup ({b.sat} \cap SatsOf(curKeys[i]))]
  /\ fresh' = [fresh EXCEPT ![i] = @ \cup {KeyOf(b)}]
  /\ known' = [known EXCEPT ![i] = @ \cup {KeyOf(b)}]
  /\ added' = [added EXCEPT ![i] = @ \cup {b.sat}]
  /\ obj' = [obj EXCEPT ![i][KeyOf(b)] = b.text]
  /\ pending' = [pending EXCEPT ![i] = @ + 1]
  /\ UNCHANGED dirty

\* What is neither changed nor inserted: blank and rejected blocks, identical
\* rows, retired epochs that reappear, further epochs of one satellite.
Skipped(i, b) ==
  \/ ~Accepted(b)
  \/ KeyOf(b) \in curKeys[i] /\ obj[i][KeyOf(b)] = b.text
  \/ KeyOf(b) \in known[i] \ curKeys[i]
  \/ KeyOf(b) \notin curKeys[i] \cup known[i] /\ b.sat \in added[i]

InLoop(i) == pc[i] = "parsing" /\ at[i] <= Len(feed[i]) /\ pending[i] < BatchSize

\* One turn of the loop.
Parse(i) ==
  /\ InLoop(i)
  /\ at' = [at EXCEPT ![i] = @ + 1]
  /\ LET b == feed[i][at[i]]
     IN  \/ Skipped(i, b) /\ UNCHANGED <<known, batchVars>>
         \/ Accepted(b) /\ Update(i, b) /\ UNCHANGED known
         \/ Accepted(b) /\ Insert(i, b)
  /\ UNCHANGED <<tableVars, pc, restarts, fetchVars, curKeys, hit, overlapped>>

\* Bug: nothing is written after the loop.
FlushInLoopOnly(i) ==
  \/ /\ pending[i] >= BatchSize
     /\ Goto(i, "parsing", "committing")
     /\ hit' = [hit EXCEPT ![i] = {k \in current : k[1] \in retire[i]}]
     /\ UNCHANGED <<tableVars, restarts, fetchVars, at, readVars, batchVars, overlapped>>
  \/ /\ pending[i] < BatchSize
     /\ at[i] > Len(feed[i])
     /\ Goto(i, "parsing", "stored")
     /\ UNCHANGED <<tableVars, restarts, fetchVars, sessionVars, overlapped>>

\* _flush_batch, its UPDATE ... WHERE norad_id IN (...) AND is_current: after
\* a full batch, and after the loop.
Flush(i) ==
  /\ pending[i] >= BatchSize \/ at[i] > Len(feed[i])
  /\ Goto(i, "parsing", "committing")
  /\ hit' = [hit EXCEPT ![i] = {k \in current : k[1] \in retire[i]}]
  /\ UNCHANGED <<tableVars, restarts, fetchVars, at, readVars, batchVars, overlapped>>

\* The rows as the commit leaves them.
WrittenBy(i) ==
  [k \in Key |-> IF k \in dirty[i] \cup fresh[i] THEN obj[i][k] ELSE text[k]]

EmptyBatch(i) ==
  /\ retire' = [retire EXCEPT ![i] = {}]
  /\ dirty' = [dirty EXCEPT ![i] = {}]
  /\ fresh' = [fresh EXCEPT ![i] = {}]
  /\ pending' = [pending EXCEPT ![i] = 0]
  /\ hit' = [hit EXCEPT ![i] = {}]

\* Bug: with autoflush the rows are inserted before the UPDATE, which retires
\* them at once.
CommitInsertedFirst(i) ==
  /\ fresh[i] \cap existing = {}
  /\ Goto(i, "committing", IF at[i] > Len(feed[i]) THEN "stored" ELSE "parsing")
  /\ existing' = existing \cup fresh[i]
  /\ current' = {k \in (current \ hit[i]) \cup fresh[i] : k[1] \notin retire[i]}
  /\ text' = WrittenBy(i)
  /\ EmptyBatch(i)
  /\ UNCHANGED <<restarts, fetchVars, at, readVars, obj, added, overlapped>>

\* The commit, with the UPDATEs and INSERTs of the session.  A key that has
\* appeared meanwhile violates the unique constraint: see Fail.
Commit(i) ==
  /\ fresh[i] \cap existing = {}
  /\ Goto(i, "committing", IF at[i] > Len(feed[i]) THEN "stored" ELSE "parsing")
  /\ existing' = existing \cup fresh[i]
  /\ current' = (current \ hit[i]) \cup fresh[i]
  /\ text' = WrittenBy(i)
  /\ EmptyBatch(i)
  /\ UNCHANGED <<restarts, fetchVars, at, readVars, obj, added, overlapped>>

-----------------------------------------------------------------------------
(* The end *)

\* The session is closed, what was not committed is rolled back.
Close(i) ==
  /\ EmptyBatch(i)
  /\ feed' = [feed EXCEPT ![i] = <<>>]
  /\ at' = [at EXCEPT ![i] = 1]
  /\ curKeys' = [curKeys EXCEPT ![i] = {}]
  /\ known' = [known EXCEPT ![i] = {}]
  /\ obj' = [obj EXCEPT ![i] = [k \in Key |-> AnyText]]
  /\ added' = [added EXCEPT ![i] = {}]
  /\ UNCHANGED <<tableVars, url, attempt, overlapped>>

\* propagate_batch is sent (by ingest_tles only) and the task returns.
Return(i) ==
  /\ Goto(i, "stored", "done")
  /\ UNCHANGED restarts
  /\ Close(i)

\* No source is left, an error of the database or the broker, a time limit, a
\* lost worker.  Celery delivers the message again, to begin from the start;
\* what earlier batches have committed stays.
Fail(i) ==
  /\ pc[i] \notin {"idle", "queued", "done", "failed"}
  /\ \/ /\ i \notin ApiIngest
        /\ restarts[i] < MaxRestarts
        /\ restarts' = [restarts EXCEPT ![i] = @ + 1]
        /\ pc' = [pc EXCEPT ![i] = "queued"]
     \/ /\ i \in ApiIngest \/ restarts[i] = MaxRestarts
        /\ pc' = [pc EXCEPT ![i] = "failed"]
        /\ UNCHANGED restarts
  /\ Close(i)

FetchAll(i) ==
  \/ Start(i)
  \/ TryAgain(i)
  \/ NextSource(i)
  \/ Download(i)

ParseAndStore(i) ==
  \/ ReadCurrent(i)
  \/ ReadEpochs(i)
  \/ Parse(i)
  \/ Flush(i)
  \/ Commit(i)

Progress(i) == FetchAll(i) \/ ParseAndStore(i) \/ Return(i) \/ Fail(i)

Next == \E i \in Ingest : Trigger(i) \/ Progress(i)

Spec == Init /\ [][Next]_vars

\* A task that was started goes on, or fails; nothing has to be triggered.
FairSpec == Spec /\ \A i \in Ingest : WF_vars(Progress(i))

-----------------------------------------------------------------------------
(* Properties *)

\* "Inserting again would leave two is_current=True rows" (lines 373-374): as
\* long as no two ingests work at once, no satellite has two of them, whatever
\* the catalogue repeats, wherever a batch ends and wherever a run is cut off.
OneCurrentPerSat ==
  ~overlapped => \A k, l \in current : k[1] = l[1] => k = l

\* A satellite in the table always has a current row, also while ingests
\* overlap: the retirement and the row that replaces it are one transaction.
EverySatHasCurrent == SatsOf(existing) = SatsOf(current)

\* The guard on line 354 keeps the INSERTs off the unique constraint, unless
\* another ingest has added the key meanwhile.
NoDuplicateKey ==
  ~overlapped => \A i \in Ingest :
    pc[i] = "committing" => fresh[i] \cap existing = {}

\* When the last batch of an undisturbed run commits, the table says what the
\* catalogue says: every accepted epoch is in it, but for further epochs of a
\* satellite that was added in this run, and no current row has another text.
StoredFeed(i) ==
  LET valid == {n \in DOMAIN feed[i] : Accepted(feed[i][n])}
      key(n) == KeyOf(feed[i][n])
  IN  \A n \in valid :
        /\ \/ key(n) \in existing'
           \/ \E m \in valid : m < n /\ key(m)[1] = key(n)[1] /\ key(m) \in current'
        /\ key(n) \in current' =>
             \E m \in valid : key(m) = key(n) /\ text'[key(n)] = feed[i][m].text

FeedStored ==
  [][\A i \in Ingest :
       pc[i] # "stored" /\ pc'[i] = "stored" /\ ~overlapped' => StoredFeed(i)]_vars

\* An ingest that was triggered returns or gives up: the attempts, the
\* sources, the catalogue and the restarts all come to an end.
EveryIngestEnds ==
  \A i \in Ingest : pc[i] = "queued" ~> pc[i] \in {"done", "failed"}

-----------------------------------------------------------------------------
(* The inductive invariant *)

\* What is retired is replaced in the same batch.
RetiredAreReplaced ==
  \A i \in Ingest :
    /\ pc[i] \in {"parsing", "committing"} \/ (retire[i] = {} /\ fresh[i] = {})
    /\ retire[i] \subseteq SatsOf(fresh[i])
    /\ SatsOf(hit[i]) \subseteq retire[i]

\* As long as no two ingests have worked at once, at most one is at work.
OneAtWork ==
  ~overlapped => \A i, j \in Ingest : pc[i] \in AtWork /\ pc[j] \in AtWork => i = j

\* What an undisturbed ingest has read is still so: the current rows of the
\* satellites it has not added, and all the keys but those it will add.
ReadIsValid ==
  ~overlapped => \A i \in Ingest :
    /\ pc[i] \in AtWork =>
         /\ curKeys[i] \subseteq existing
         /\ \A k \in Key : k[1] \notin added[i] => (k \in current <=> k \in curKeys[i])
    /\ pc[i] \in {"parsing", "committing"} => known[i] = existing \cup fresh[i]

\* The rows to be added are of different satellites and under new keys, and
\* take the place of all current rows of these satellites.
FreshRowsFit ==
  ~overlapped => \A i \in Ingest :
    /\ SatsOf(fresh[i]) \subseteq added[i]
    /\ fresh[i] \cap existing = {}
    /\ \A k, l \in fresh[i] : k[1] = l[1] => k = l
    /\ \A k \in current : k[1] \in SatsOf(fresh[i]) =>
         /\ k[1] \in retire[i]
         /\ pc[i] = "committing" => k \in hit[i]

IInv ==
  /\ TypeOK
  /\ OneCurrentPerSat
  /\ EverySatHasCurrent
  /\ RetiredAreReplaced
  /\ OneAtWork
  /\ ReadIsValid
  /\ FreshRowsFit

-----------------------------------------------------------------------------
(* Why an undisturbed ingest stores its catalogue: inductive beside IInv. *)

\* The accepted entries that the loop has come past.
Handled(i) == {n \in DOMAIN feed[i] : n < at[i] /\ Accepted(feed[i][n])}

\* The rows this ingest has added and those it is about to add.
Placed(i) == fresh[i] \cup {k \in current : k[1] \in added[i] \ SatsOf(fresh[i])}

\* The objects of the session are the rows, but for what is to be written.
SessionAgrees(i) == \A k \in Key \ (dirty[i] \cup fresh[i]) : obj[i][k] = text[k]

\* Every satellite added has a row with the text of an entry; every entry has a
\* row, or an earlier one of its satellite was added; and no current row that
\* an entry names has another text.
HandledIsStored(i) ==
  LET key(n) == KeyOf(feed[i][n])
  IN  /\ added[i] \subseteq SatsOf(Placed(i))
      /\ \A k \in Placed(i) :
           \E m \in Handled(i) : key(m) = k /\ obj[i][k] = feed[i][m].text
      /\ \A n \in Handled(i) :
           /\ \/ key(n) \in known[i]
              \/ \E m \in Handled(i) : m < n /\ key(m)[1] = key(n)[1] /\ key(m) \in Placed(i)
           /\ key(n) \in curKeys[i] =>
                \E m \in Handled(i) : key(m) = key(n) /\ obj[i][key(n)] = feed[i][m].text

FeedInv ==
  /\ \A i \in Ingest :
       pc[i] \in {"parsing", "committing", "stored"} \/ (at[i] = 1 /\ added[i] = {})
  /\ ~overlapped => \A i \in Ingest :
       /\ pc[i] \in AtWork => SessionAgrees(i)
       /\ pc[i] \in {"parsing", "committing"} => HandledIsStored(i)

=============================================================================
