--------------------------- MODULE TleIngestProofs --------------------------
(***************************************************************************)
(* What the tles table looks like under any number of ingests, for all     *)
(* catalogues, batch sizes and restarts.  Two inductive invariants of      *)
(* TleIngest, IInv for the table and FeedInv for what is stored in it, are *)
(* preserved by every action.                                              *)
(***************************************************************************)
EXTENDS TleIngest, TLAPS

\* Up to the download an ingest touches neither the table nor its session.
LEMMA FetchStep ==
  ASSUME IInv, NEW i \in Ingest, Trigger(i) \/ FetchAll(i)
  PROVE  IInv'
<1>1. /\ UNCHANGED <<tableVars, restarts, sessionVars, overlapped>>
      /\ \E s \in States \ AtWork : pc' = [pc EXCEPT ![i] = s]
  <2>1. CASE Trigger(i)
    BY <2>1 DEF Trigger, Goto, States, AtWork
  <2>2. CASE Start(i)
    BY <2>2 DEF Start, Goto, States, AtWork
  <2>3. CASE TryAgain(i)
    BY <2>3 DEF TryAgain, States, AtWork, IInv, TypeOK
  <2>4. CASE NextSource(i)
    BY <2>4 DEF NextSource, States, AtWork, IInv, TypeOK
  <2>5. CASE Download(i)
    BY <2>5 DEF Download, Goto, States, AtWork
  <2>. QED
    BY <2>1, <2>2, <2>3, <2>4, <2>5 DEF FetchAll
<1>2. PICK s \in States \ AtWork : pc' = [pc EXCEPT ![i] = s]
  BY <1>1
<1>3. pc[i] \notin AtWork
  BY DEF Trigger, FetchAll, Start, TryAgain, NextSource, Download, Goto, AtWork
<1>. USE DEF tableVars, sessionVars, readVars, batchVars
<1>4. TypeOK'
  <2>1. /\ url' \in [Ingest -> 1..NumSources]
        /\ attempt' \in [Ingest -> 1..MaxAttempts]
        /\ feed' \in [Ingest -> Feed \cup {<<>>}]
    <3>. USE IngestAssumption DEF IInv, TypeOK, fetchVars
    <3>1. CASE Trigger(i)
      BY <3>1 DEF Trigger
    <3>2. CASE Start(i)
      BY <3>2 DEF Start
    <3>3. CASE TryAgain(i)
      BY <3>3 DEF TryAgain
    <3>4. CASE NextSource(i)
      BY <3>4 DEF NextSource
    <3>5. CASE Download(i)
      BY <3>5 DEF Download
    <3>. QED
      BY <3>1, <3>2, <3>3, <3>4, <3>5 DEF FetchAll
  <2>. QED
    BY <1>1, <1>2, <2>1 DEF IInv, TypeOK
<1>5. \A j \in Ingest : pc'[j] \in AtWork => pc[j] = pc'[j]
  BY <1>2 DEF IInv, TypeOK
<1>6. OneAtWork' /\ ReadIsValid'
  BY <1>1, <1>5 DEF IInv, OneAtWork, ReadIsValid, AtWork
<1>7. RetiredAreReplaced'
  BY <1>1, <1>2, <1>3 DEF IInv, TypeOK, RetiredAreReplaced, AtWork
<1>8. FreshRowsFit'
  BY <1>1, <1>5 DEF IInv, FreshRowsFit, AtWork
<1>9. OneCurrentPerSat' /\ EverySatHasCurrent'
  BY <1>1 DEF IInv, OneCurrentPerSat, EverySatHasCurrent
<1>. QED
  BY <1>4, <1>6, <1>7, <1>8, <1>9 DEF IInv

\* The two reads.
LEMMA ReadStep ==
  ASSUME IInv, NEW i \in Ingest, ReadCurrent(i) \/ ReadEpochs(i)
  PROVE  IInv'
<1>. USE DEF tableVars, fetchVars, sessionVars, readVars, batchVars, Goto
<1>1. CASE ReadCurrent(i)
  <2>1. TypeOK'
    BY <1>1 DEF IInv, TypeOK, ReadCurrent, States
  <2>2. OneAtWork'
    BY <1>1 DEF IInv, TypeOK, OneAtWork, ReadCurrent, AtWork
  <2>3. ReadIsValid'
    BY <1>1 DEF IInv, TypeOK, ReadIsValid, ReadCurrent, AtWork
  <2>4. RetiredAreReplaced'
    BY <1>1 DEF IInv, TypeOK, RetiredAreReplaced, ReadCurrent
  <2>5. FreshRowsFit'
    BY <1>1 DEF IInv, TypeOK, FreshRowsFit, ReadCurrent
  <2>6. OneCurrentPerSat' /\ EverySatHasCurrent'
    BY <1>1 DEF IInv, OneCurrentPerSat, EverySatHasCurrent, ReadCurrent
  <2>. QED
    BY <2>1, <2>2, <2>3, <2>4, <2>5, <2>6 DEF IInv
<1>2. CASE ReadEpochs(i)
  <2>1. TypeOK'
    BY <1>2 DEF IInv, TypeOK, ReadEpochs, States
  <2>2. OneAtWork'
    BY <1>2 DEF IInv, TypeOK, OneAtWork, ReadEpochs, AtWork
  <2>3. fresh[i] = {}
    BY <1>2 DEF IInv, TypeOK, RetiredAreReplaced, ReadEpochs
  <2>4. ReadIsValid'
    BY <1>2, <2>3 DEF IInv, TypeOK, ReadIsValid, ReadEpochs, AtWork
  <2>5. RetiredAreReplaced'
    BY <1>2 DEF IInv, TypeOK, RetiredAreReplaced, ReadEpochs
  <2>6. FreshRowsFit'
    BY <1>2 DEF IInv, TypeOK, FreshRowsFit, ReadEpochs
  <2>7. OneCurrentPerSat' /\ EverySatHasCurrent'
    BY <1>2 DEF IInv, OneCurrentPerSat, EverySatHasCurrent, ReadEpochs
  <2>. QED
    BY <2>1, <2>2, <2>4, <2>5, <2>6, <2>7 DEF IInv
<1>. QED
  BY <1>1, <1>2

\* A turn of the loop that inserts a row.
LEMMA InsertStep ==
  ASSUME IInv, NEW i \in Ingest, Parse(i), NEW b \in Blocks, Insert(i, b)
  PROVE  IInv'
<1>. USE DEF tableVars, fetchVars, sessionVars, readVars, batchVars
<1>. DEFINE k == KeyOf(b)
<1>1. k \in Key /\ k[1] = b.sat /\ b.sat \in Sat
  BY DEF Blocks, KeyOf, Key
<1>2. /\ pc[i] = "parsing"
      /\ UNCHANGED <<tableVars, pc, overlapped, curKeys, hit>>
  BY DEF Parse, InLoop
<1>3. /\ retire' = [retire EXCEPT ![i] = @ \cup ({b.sat} \cap SatsOf(curKeys[i]))]
      /\ fresh' = [fresh EXCEPT ![i] = @ \cup {k}]
      /\ known' = [known EXCEPT ![i] = @ \cup {k}]
      /\ added' = [added EXCEPT ![i] = @ \cup {b.sat}]
  BY DEF Insert
<1>4. SatsOf(fresh'[i]) = SatsOf(fresh[i]) \cup {b.sat}
  BY <1>1, <1>3 DEF SatsOf, IInv, TypeOK
<1>5. TypeOK'
  <2>1. b.text \in Text
    BY DEF Blocks
  <2>2. obj' \in [Ingest -> [Key -> Text]]
    BY <1>1, <2>1 DEF Insert, IInv, TypeOK
  <2>3. pending' \in [Ingest -> 0..BatchSize]
    BY IngestAssumption DEF Insert, Parse, InLoop, IInv, TypeOK
  <2>4. at' \in [Ingest -> Nat \ {0}]
    BY DEF Parse, IInv, TypeOK
  <2>5. /\ retire' \in [Ingest -> SUBSET Sat]
        /\ fresh' \in [Ingest -> SUBSET Key]
        /\ known' \in [Ingest -> SUBSET Key]
        /\ added' \in [Ingest -> SUBSET Sat]
    BY <1>1, <1>3 DEF IInv, TypeOK
  <2>. QED
    BY <1>2, <2>2, <2>3, <2>4, <2>5 DEF Insert, Parse, IInv, TypeOK
<1>6. OneAtWork'
  BY <1>2 DEF IInv, OneAtWork
<1>7. ReadIsValid'
  BY <1>1, <1>2, <1>3 DEF IInv, TypeOK, ReadIsValid, AtWork
<1>8. RetiredAreReplaced'
  <2>1. retire'[i] \subseteq SatsOf(fresh'[i])
    BY <1>3, <1>4 DEF IInv, TypeOK, RetiredAreReplaced
  <2>2. SatsOf(hit[i]) \subseteq retire'[i]
    BY <1>3 DEF IInv, TypeOK, RetiredAreReplaced
  <2>. QED
    BY <1>2, <1>3, <2>1, <2>2 DEF IInv, TypeOK, RetiredAreReplaced
<1>9. FreshRowsFit'
  <2>. SUFFICES ASSUME ~overlapped PROVE FreshRowsFit'
    BY <1>2 DEF FreshRowsFit
  <2>1. k \notin existing /\ b.sat \notin SatsOf(fresh[i])
    BY <1>2 DEF Insert, IInv, ReadIsValid, FreshRowsFit
  <2>2. \A l \in fresh[i] : l[1] # b.sat
    BY <2>1 DEF SatsOf
  <2>3. \A l \in current : l[1] = b.sat => b.sat \in SatsOf(curKeys[i])
    BY <1>2 DEF Insert, IInv, TypeOK, ReadIsValid, AtWork, SatsOf
  <2>4. SatsOf(fresh'[i]) \subseteq added'[i]
    BY <1>3, <1>4 DEF IInv, TypeOK, FreshRowsFit
  <2>5. fresh'[i] \cap existing = {}
    BY <1>3, <2>1 DEF IInv, TypeOK, FreshRowsFit
  <2>6. \A l, m \in fresh'[i] : l[1] = m[1] => l = m
    BY <1>1, <1>3, <2>2 DEF IInv, TypeOK, FreshRowsFit
  <2>7. \A l \in current : l[1] \in SatsOf(fresh'[i]) => l[1] \in retire'[i]
    BY <1>3, <1>4, <2>3 DEF IInv, TypeOK, FreshRowsFit
  <2>. QED
    BY <1>2, <1>3, <2>4, <2>5, <2>6, <2>7 DEF IInv, TypeOK, FreshRowsFit
<1>10. OneCurrentPerSat' /\ EverySatHasCurrent'
  BY <1>2 DEF IInv, OneCurrentPerSat, EverySatHasCurrent
<1>. QED
  BY <1>5, <1>6, <1>7, <1>8, <1>9, <1>10 DEF IInv

\* The other turns change at most the objects of current rows.
LEMMA NoInsertStep ==
  ASSUME IInv, NEW i \in Ingest, Parse(i), NEW b \in Blocks,
         UNCHANGED <<known, added, retire, fresh>>,
         \/ UNCHANGED <<obj, dirty, pending>>
         \/ Update(i, b)
  PROVE  IInv'
<1>. USE DEF tableVars, fetchVars, sessionVars, readVars, batchVars
<1>1. UNCHANGED <<tableVars, pc, overlapped, curKeys, hit>>
  BY DEF Parse
<1>2. TypeOK'
  <2>1. KeyOf(b) \in Key /\ b.text \in Text
    BY DEF Blocks, KeyOf, Key
  <2>2. obj' \in [Ingest -> [Key -> Text]]
    <3>1. CASE Update(i, b)
      BY <2>1, <3>1 DEF Update, IInv, TypeOK
    <3>. QED
      BY <3>1 DEF IInv, TypeOK
  <2>3. pending' \in [Ingest -> 0..BatchSize]
    <3>1. pending[i] + 1 \in 0..BatchSize
      BY IngestAssumption DEF Parse, InLoop, IInv, TypeOK
    <3>2. CASE Update(i, b)
      BY <3>1, <3>2 DEF Update, IInv, TypeOK
    <3>. QED
      BY <3>2 DEF IInv, TypeOK
  <2>4. dirty' \in [Ingest -> SUBSET Key]
    <3>1. CASE Update(i, b)
      BY <2>1, <3>1 DEF Update, IInv, TypeOK
    <3>. QED
      BY <3>1 DEF IInv, TypeOK
  <2>5. at' \in [Ingest -> Nat \ {0}]
    BY DEF Parse, IInv, TypeOK
  <2>. QED
    BY <1>1, <2>2, <2>3, <2>4, <2>5 DEF Parse, IInv, TypeOK
<1>3. OneAtWork' /\ ReadIsValid'
  BY <1>1 DEF IInv, OneAtWork, ReadIsValid
<1>4. RetiredAreReplaced' /\ FreshRowsFit'
  BY <1>1 DEF IInv, RetiredAreReplaced, FreshRowsFit
<1>5. OneCurrentPerSat' /\ EverySatHasCurrent'
  BY <1>1 DEF IInv, OneCurrentPerSat, EverySatHasCurrent
<1>. QED
  BY <1>2, <1>3, <1>4, <1>5 DEF IInv

\* The loop.
LEMMA ParseStep ==
  ASSUME IInv, NEW i \in Ingest, Parse(i)
  PROVE  IInv'
<1>. DEFINE b == feed[i][at[i]]
<1>1. b \in Blocks
  <2>1. feed[i] \in Feed \cup {<<>>} /\ at[i] \in Nat \ {0}
    BY DEF IInv, TypeOK
  <2>2. feed[i] \in Seq(Blocks)
    <3>1. <<>> \in Seq(Blocks)
      OBVIOUS
    <3>. QED
      BY <2>1, <3>1, IngestAssumption
  <2>3. at[i] <= Len(feed[i]) /\ Len(feed[i]) \in Nat
    BY <2>2 DEF Parse, InLoop
  <2>4. at[i] \in 1..Len(feed[i])
    BY <2>1, <2>3
  <2>. QED
    BY <2>2, <2>4
<1>2. \/ UNCHANGED <<known, batchVars>>
      \/ Update(i, b) /\ UNCHANGED known
      \/ Insert(i, b)
  BY DEF Parse
<1>. HIDE DEF b
<1>3. CASE UNCHANGED <<known, batchVars>>
  BY <1>1, <1>3, NoInsertStep DEF batchVars
<1>4. CASE Update(i, b) /\ UNCHANGED known
  BY <1>1, <1>4, NoInsertStep DEF Update
<1>5. CASE Insert(i, b)
  BY <1>1, <1>5, InsertStep
<1>. QED
  BY <1>2, <1>3, <1>4, <1>5

\* The UPDATE of a batch.
LEMMA FlushStep ==
  ASSUME IInv, NEW i \in Ingest, Flush(i)
  PROVE  IInv'
<1>. USE DEF tableVars, fetchVars, sessionVars, readVars, batchVars, Goto
<1>. DEFINE H == {k \in current : k[1] \in retire[i]}
<1>1. /\ pc[i] = "parsing"
      /\ pc' = [pc EXCEPT ![i] = "committing"]
      /\ hit' = [hit EXCEPT ![i] = H]
      /\ UNCHANGED <<tableVars, overlapped, readVars, batchVars>>
  BY DEF Flush
<1>2. H \subseteq current /\ SatsOf(H) \subseteq retire[i]
  BY DEF SatsOf
<1>3. TypeOK'
  BY <1>1, <1>2 DEF Flush, IInv, TypeOK, States
<1>4. OneAtWork'
  BY <1>1 DEF IInv, TypeOK, OneAtWork, AtWork
<1>5. ReadIsValid'
  BY <1>1 DEF IInv, TypeOK, ReadIsValid, AtWork
<1>6. RetiredAreReplaced'
  BY <1>1, <1>2 DEF IInv, TypeOK, RetiredAreReplaced
<1>7. FreshRowsFit'
  BY <1>1 DEF IInv, TypeOK, FreshRowsFit
<1>8. OneCurrentPerSat' /\ EverySatHasCurrent'
  BY <1>1 DEF IInv, OneCurrentPerSat, EverySatHasCurrent
<1>. QED
  BY <1>3, <1>4, <1>5, <1>6, <1>7, <1>8 DEF IInv

\* The commit of a batch: the only step that changes the table.
LEMMA CommitStep ==
  ASSUME IInv, NEW i \in Ingest, Commit(i)
  PROVE  IInv'
<1>. USE DEF fetchVars, readVars, Goto
<1>1. PICK s \in {"stored", "parsing"} : pc' = [pc EXCEPT ![i] = s]
  BY DEF Commit
<1>2. /\ pc[i] = "committing"
      /\ fresh[i] \cap existing = {}
      /\ existing' = existing \cup fresh[i]
      /\ current' = (current \ hit[i]) \cup fresh[i]
      /\ text' = WrittenBy(i)
      /\ EmptyBatch(i)
      /\ UNCHANGED <<restarts, fetchVars, at, readVars, obj, added, overlapped>>
  BY DEF Commit
<1>3. TypeOK'
  <2>1. text' \in [Key -> Text]
    BY <1>2 DEF WrittenBy, IInv, TypeOK
  <2>2. 0 \in 0..BatchSize
    BY IngestAssumption
  <2>. QED
    BY <1>1, <1>2, <2>1, <2>2 DEF EmptyBatch, IInv, TypeOK, States
<1>4. OneAtWork'
  BY <1>1, <1>2 DEF IInv, TypeOK, OneAtWork, AtWork
<1>5. ReadIsValid'
  <2>. SUFFICES ASSUME ~overlapped, NEW j \in Ingest, pc'[j] \in AtWork
                PROVE  /\ curKeys[j] \subseteq existing'
                       /\ \A k \in Key : k[1] \notin added[j] =>
                            (k \in current' <=> k \in curKeys[j])
                       /\ known[j] = existing' \cup fresh'[j]
    BY <1>2 DEF ReadIsValid, AtWork
  <2>1. j = i /\ pc'[i] = "parsing"
    BY <1>1, <1>2 DEF IInv, TypeOK, OneAtWork, AtWork
  <2>2. SatsOf(fresh[i]) \subseteq added[i] /\ SatsOf(hit[i]) \subseteq added[i]
    BY <1>2 DEF IInv, RetiredAreReplaced, FreshRowsFit
  <2>3. \A k \in fresh[i] \cup hit[i] : k[1] \in added[i]
    BY <2>2 DEF SatsOf
  <2>4. /\ curKeys[i] \subseteq existing
        /\ \A k \in Key : k[1] \notin added[i] => (k \in current <=> k \in curKeys[i])
        /\ known[i] = existing \cup fresh[i]
    BY <1>2 DEF IInv, ReadIsValid, AtWork
  <2>5. fresh'[i] = {}
    BY <1>2 DEF EmptyBatch, IInv, TypeOK
  <2>. QED
    BY <1>2, <2>1, <2>3, <2>4, <2>5
<1>6. RetiredAreReplaced'
  <2>1. SatsOf({}) = {}
    BY DEF SatsOf
  <2>. QED
    BY <1>1, <1>2, <2>1 DEF EmptyBatch, IInv, TypeOK, RetiredAreReplaced
<1>7. FreshRowsFit'
  <2>. SUFFICES ASSUME ~overlapped, NEW j \in Ingest
                PROVE  fresh'[j] = {}
    BY <1>2 DEF FreshRowsFit, SatsOf
  <2>1. CASE j = i
    BY <1>2, <2>1 DEF EmptyBatch, IInv, TypeOK
  <2>2. CASE j # i
    <3>1. pc[j] \notin AtWork
      BY <1>2, <2>2 DEF IInv, OneAtWork, AtWork
    <3>. QED
      BY <1>2, <2>2, <3>1 DEF EmptyBatch, IInv, TypeOK, RetiredAreReplaced, AtWork
  <2>. QED
    BY <2>1, <2>2
<1>8. OneCurrentPerSat'
  <2>. SUFFICES ASSUME ~overlapped, NEW k \in current', NEW l \in current', k[1] = l[1]
                PROVE  k = l
    BY <1>2 DEF OneCurrentPerSat
  <2>1. \A m \in current : m[1] \in SatsOf(fresh[i]) => m \in hit[i]
    BY <1>2 DEF IInv, FreshRowsFit
  <2>2. \A m \in fresh[i] : m[1] \in SatsOf(fresh[i])
    BY DEF SatsOf
  <2>3. \A m, n \in fresh[i] : m[1] = n[1] => m = n
    BY DEF IInv, FreshRowsFit
  <2>4. \A m, n \in current : m[1] = n[1] => m = n
    BY DEF IInv, OneCurrentPerSat
  <2>. QED
    BY <1>2, <2>1, <2>2, <2>3, <2>4
<1>9. EverySatHasCurrent'
  <2>1. SatsOf(hit[i]) \subseteq SatsOf(fresh[i])
    BY DEF IInv, RetiredAreReplaced
  <2>2. SatsOf(existing) = SatsOf(current)
    BY DEF IInv, EverySatHasCurrent
  <2>. QED
    BY <1>2, <2>1, <2>2 DEF EverySatHasCurrent, SatsOf
<1>. QED
  BY <1>3, <1>4, <1>5, <1>6, <1>7, <1>8, <1>9 DEF IInv

\* The end of an ingest, good or bad.
LEMMA CloseStep ==
  ASSUME IInv, NEW i \in Ingest, Return(i) \/ Fail(i)
  PROVE  IInv'
<1>1. PICK s \in States \ AtWork : pc' = [pc EXCEPT ![i] = s]
  BY DEF Return, Fail, Goto, States, AtWork
<1>2. Close(i) /\ restarts' \in [Ingest -> 0..MaxRestarts]
  <2>1. CASE UNCHANGED restarts
    BY <2>1 DEF Return, Fail, IInv, TypeOK
  <2>2. CASE /\ restarts[i] < MaxRestarts
             /\ restarts' = [restarts EXCEPT ![i] = @ + 1]
             /\ Fail(i)
    <3>1. restarts[i] + 1 \in 0..MaxRestarts
      BY <2>2, IngestAssumption DEF IInv, TypeOK
    <3>. QED
      BY <2>2, <3>1 DEF Fail, IInv, TypeOK
  <2>. QED
    BY <2>1, <2>2 DEF Return, Fail
<1>3. UNCHANGED <<tableVars, overlapped>>
  BY <1>2 DEF Close
<1>. USE DEF tableVars
<1>4. TypeOK'
  <2>1. AnyText \in Text
    BY IngestAssumption DEF AnyText
  <2>2. 0 \in 0..BatchSize
    BY IngestAssumption
  <2>. QED
    BY <1>1, <1>2, <2>1, <2>2 DEF Close, EmptyBatch, IInv, TypeOK
<1>5. \A j \in Ingest : pc'[j] \in AtWork => j # i /\ pc[j] = pc'[j]
  BY <1>1 DEF IInv, TypeOK
<1>6. OneAtWork' /\ ReadIsValid'
  <2>1. OneAtWork'
    BY <1>3, <1>5 DEF IInv, OneAtWork
  <2>2. ASSUME NEW j \in Ingest, pc'[j] \in AtWork
        PROVE  /\ pc[j] = pc'[j] /\ curKeys'[j] = curKeys[j] /\ known'[j] = known[j]
               /\ added'[j] = added[j] /\ fresh'[j] = fresh[j]
    BY <1>2, <1>5, <2>2 DEF Close, EmptyBatch, IInv, TypeOK
  <2>3. {"parsing", "committing"} \subseteq AtWork
    BY DEF AtWork
  <2>4. ReadIsValid'
    BY <1>3, <2>2, <2>3 DEF IInv, ReadIsValid
  <2>. QED
    BY <2>1, <2>4
<1>7. RetiredAreReplaced'
  <2>1. SatsOf({}) = {}
    BY DEF SatsOf
  <2>. QED
    BY <1>1, <1>2, <2>1 DEF Close, EmptyBatch, IInv, TypeOK, RetiredAreReplaced
<1>8. FreshRowsFit'
  <2>1. SatsOf({}) = {}
    BY DEF SatsOf
  <2>. QED
    BY <1>1, <1>2, <1>3, <2>1 DEF Close, EmptyBatch, IInv, TypeOK, FreshRowsFit
<1>9. OneCurrentPerSat' /\ EverySatHasCurrent'
  BY <1>3 DEF IInv, OneCurrentPerSat, EverySatHasCurrent
<1>. QED
  BY <1>4, <1>6, <1>7, <1>8, <1>9 DEF IInv

\* The invariant holds before the first step.
LEMMA InitIInv == Init => IInv
<1>. SUFFICES ASSUME Init PROVE IInv
  OBVIOUS
<1>1. AnyText \in Text
  BY IngestAssumption DEF AnyText
<1>2. TypeOK
  <2>1. 0 \in 0..MaxRestarts /\ 0 \in 0..BatchSize /\ 1 \in 1..NumSources
        /\ 1 \in 1..MaxAttempts
    BY IngestAssumption
  <2>2. text \in [Key -> Text]
    BY <1>1 DEF Init
  <2>3. obj \in [Ingest -> [Key -> Text]]
    BY <2>2 DEF Init
  <2>4. pc \in [Ingest -> States]
    BY DEF Init, States
  <2>5. /\ restarts \in [Ingest -> 0..MaxRestarts] /\ url \in [Ingest -> 1..NumSources]
        /\ attempt \in [Ingest -> 1..MaxAttempts] /\ pending \in [Ingest -> 0..BatchSize]
        /\ at \in [Ingest -> Nat \ {0}]
    BY <2>1 DEF Init
  <2>. QED
    BY <2>2, <2>3, <2>4, <2>5 DEF Init, TypeOK
<1>3. SatsOf({}) = {}
  BY DEF SatsOf
<1>. QED
  BY <1>2, <1>3
     DEF Init, IInv, OneCurrentPerSat, EverySatHasCurrent, RetiredAreReplaced,
         OneAtWork, ReadIsValid, FreshRowsFit, AtWork

\* The invariant holds in every state of every behaviour.
THEOREM IInvHolds == Spec => []IInv
<1>1. IInv /\ [Next]_vars => IInv'
  <2>. SUFFICES ASSUME IInv, [Next]_vars PROVE IInv'
    OBVIOUS
  <2>1. ASSUME NEW i \in Ingest, Trigger(i) \/ Progress(i) PROVE IInv'
    BY <2>1, FetchStep, ReadStep, ParseStep, FlushStep, CommitStep, CloseStep
       DEF Progress, ParseAndStore
  <2>2. CASE UNCHANGED vars
    BY <2>2
       DEF vars, tableVars, fetchVars, sessionVars, readVars, batchVars, IInv, TypeOK,
           OneCurrentPerSat, EverySatHasCurrent, RetiredAreReplaced, OneAtWork,
           ReadIsValid, FreshRowsFit
  <2>. QED
    BY <2>1, <2>2 DEF Next
<1>. QED
  BY <1>1, InitIInv, PTL DEF Spec

\* Without overlap no satellite ever has two current rows, for any catalogue,
\* batch size and number of restarts.
THEOREM OneCurrentPerSatHolds == Spec => []OneCurrentPerSat
<1>1. IInv => OneCurrentPerSat
  BY DEF IInv
<1>. QED
  BY <1>1, IInvHolds, PTL

\* A satellite in the table has a current row, however many ingests overlap.
THEOREM EverySatHasCurrentHolds == Spec => []EverySatHasCurrent
<1>1. IInv => EverySatHasCurrent
  BY DEF IInv
<1>. QED
  BY <1>1, IInvHolds, PTL

\* Without overlap no INSERT ever meets the unique constraint.
THEOREM NoDuplicateKeyHolds == Spec => []NoDuplicateKey
<1>1. IInv => NoDuplicateKey
  BY DEF IInv, FreshRowsFit, NoDuplicateKey
<1>. QED
  BY <1>1, IInvHolds, PTL

-----------------------------------------------------------------------------
(* FeedStored.  FeedInv is inductive beside IInv. *)

\* A step leaves the session of ingest j as it is.
SameSession(j) ==
  UNCHANGED <<pc[j], feed[j], at[j], curKeys[j], known[j], obj[j], added[j], dirty[j], fresh[j]>>

\* A feed without a block.
LEMMA EmptyFeed == <<>> \in Seq(Blocks)
OBVIOUS

\* The whole state is the same, as far as ingest j sees it.
LEMMA SameHandled ==
  ASSUME NEW j \in Ingest, SameSession(j), UNCHANGED <<current, text>>
  PROVE  /\ SessionAgrees(j) => SessionAgrees(j)'
         /\ HandledIsStored(j) => HandledIsStored(j)'
<1>1. /\ feed'[j] = feed[j] /\ at'[j] = at[j] /\ curKeys'[j] = curKeys[j]
      /\ known'[j] = known[j] /\ obj'[j] = obj[j] /\ added'[j] = added[j]
      /\ dirty'[j] = dirty[j] /\ fresh'[j] = fresh[j] /\ current' = current /\ text' = text
  BY DEF SameSession
<1>2. SessionAgrees(j) => SessionAgrees(j)'
  BY <1>1 DEF SessionAgrees
<1>3. Handled(j)' = Handled(j)
  BY <1>1 DEF Handled
<1>4. Placed(j)' = Placed(j)
  BY <1>1 DEF Placed
<1>5. HandledIsStored(j) => HandledIsStored(j)'
  BY <1>1, <1>3, <1>4 DEF HandledIsStored
<1>. QED
  BY <1>2, <1>5

\* A step of i that leaves the table and the other sessions alone.
LEMMA OwnStep ==
  ASSUME FeedInv, NEW i \in Ingest,
         UNCHANGED <<current, text>>, ~overlapped' => ~overlapped,
         \A j \in Ingest \ {i} : SameSession(j),
         pc'[i] \in {"parsing", "committing", "stored"} \/ (at'[i] = 1 /\ added'[i] = {}),
         ~overlapped' /\ pc'[i] \in AtWork => SessionAgrees(i)',
         ~overlapped' /\ pc'[i] \in {"parsing", "committing"} => HandledIsStored(i)'
  PROVE  FeedInv'
<1>1. \A j \in Ingest \ {i} : pc'[j] = pc[j] /\ at'[j] = at[j] /\ added'[j] = added[j]
  BY DEF SameSession
<1>2. \A j \in Ingest \ {i} :
        pc'[j] \in {"parsing", "committing", "stored"} \/ (at'[j] = 1 /\ added'[j] = {})
  BY <1>1 DEF FeedInv
<1>3. ASSUME NEW j \in Ingest \ {i}, ~overlapped'
      PROVE  /\ pc'[j] \in AtWork => SessionAgrees(j)'
             /\ pc'[j] \in {"parsing", "committing"} => HandledIsStored(j)'
  BY <1>1, <1>3, SameHandled DEF FeedInv
<1>. QED
  BY <1>2, <1>3 DEF FeedInv

\* The download, the first message and the end: i is not at work afterwards.
LEMMA FeedOutside ==
  ASSUME IInv, FeedInv, NEW i \in Ingest,
         Trigger(i) \/ FetchAll(i) \/ Return(i) \/ Fail(i)
  PROVE  FeedInv'
<1>. USE DEF tableVars, sessionVars, readVars, batchVars, fetchVars
<1>1. /\ UNCHANGED <<current, text, overlapped>>
      /\ pc'[i] \notin {"parsing", "committing", "stored", "reading"}
      /\ at'[i] = 1 /\ added'[i] = {}
      /\ \A j \in Ingest \ {i} : SameSession(j)
  <2>. USE DEF SameSession, IInv, TypeOK
  <2>1. CASE Trigger(i)
    BY <2>1 DEF Trigger, Goto, FeedInv
  <2>2. CASE Start(i)
    BY <2>2 DEF Start, Goto, FeedInv
  <2>3. CASE TryAgain(i)
    BY <2>3 DEF TryAgain, FeedInv
  <2>4. CASE NextSource(i)
    BY <2>4 DEF NextSource, FeedInv
  <2>5. CASE Download(i)
    BY <2>5 DEF Download, Goto, FeedInv
  <2>6. CASE Return(i)
    BY <2>6 DEF Return, Goto, Close, EmptyBatch
  <2>7. CASE Fail(i)
    <3>1. PICK s \in {"queued", "failed"} : pc' = [pc EXCEPT ![i] = s]
      BY <2>7 DEF Fail
    <3>. QED
      BY <2>7, <3>1 DEF Fail, Close, EmptyBatch
  <2>. QED
    BY <2>1, <2>2, <2>3, <2>4, <2>5, <2>6, <2>7 DEF FetchAll
<1>. QED
  BY <1>1, OwnStep DEF AtWork

\* The two reads.
LEMMA FeedRead ==
  ASSUME IInv, FeedInv, NEW i \in Ingest, ReadCurrent(i) \/ ReadEpochs(i)
  PROVE  FeedInv'
<1>. USE DEF tableVars, sessionVars, readVars, batchVars, fetchVars, Goto
<1>1. /\ UNCHANGED <<current, text, at, added, feed, fresh, dirty>>
      /\ ~overlapped' => ~overlapped
      /\ \A j \in Ingest \ {i} : SameSession(j)
      /\ at[i] = 1 /\ added[i] = {}
  <2>1. CASE ReadCurrent(i)
    BY <2>1 DEF ReadCurrent, SameSession, IInv, TypeOK, FeedInv
  <2>2. CASE ReadEpochs(i)
    BY <2>2 DEF ReadEpochs, SameSession, IInv, TypeOK, FeedInv
  <2>. QED
    BY <2>1, <2>2
<1>2. CASE ReadCurrent(i)
  <2>1. pc'[i] = "reading" /\ obj'[i] = text
    BY <1>2 DEF ReadCurrent, IInv, TypeOK
  <2>2. SessionAgrees(i)'
    BY <1>1, <2>1 DEF SessionAgrees
  <2>. QED
    BY <1>1, <2>1, <2>2, OwnStep
<1>3. CASE ReadEpochs(i)
  <2>1. pc[i] = "reading" /\ pc'[i] = "parsing" /\ UNCHANGED <<obj, overlapped>>
    BY <1>3 DEF ReadEpochs, IInv, TypeOK
  <2>2. ~overlapped => SessionAgrees(i)'
    BY <1>1, <2>1 DEF FeedInv, SessionAgrees, AtWork
  <2>3. fresh[i] = {}
    BY <2>1 DEF IInv, RetiredAreReplaced
  <2>4. Handled(i)' = {}
    <3>1. \A n \in DOMAIN feed[i] : ~(n < 1)
      <4>1. feed[i] \in Seq(Blocks)
        BY IngestAssumption, EmptyFeed DEF IInv, TypeOK
      <4>. QED
        BY <4>1
    <3>. QED
      BY <1>1, <3>1 DEF Handled
  <2>5. Placed(i)' = {}
    BY <1>1, <2>3 DEF Placed
  <2>6. HandledIsStored(i)'
    BY <1>1, <2>4, <2>5 DEF HandledIsStored
  <2>. QED
    BY <1>1, <2>1, <2>2, <2>6, OwnStep
<1>. QED
  BY <1>2, <1>3

\* The UPDATE of a batch changes nothing that FeedInv speaks of.
LEMMA FeedFlush ==
  ASSUME IInv, FeedInv, NEW i \in Ingest, Flush(i)
  PROVE  FeedInv'
<1>. USE DEF tableVars, sessionVars, readVars, batchVars, fetchVars, Goto
<1>1. /\ UNCHANGED <<current, text, at, added, feed, fresh, dirty, obj, known, curKeys, overlapped>>
      /\ pc[i] = "parsing" /\ pc'[i] = "committing"
      /\ \A j \in Ingest \ {i} : SameSession(j)
  BY DEF Flush, SameSession, IInv, TypeOK
<1>2. ~overlapped => SessionAgrees(i)'
  BY <1>1 DEF FeedInv, SessionAgrees, AtWork
<1>3. Handled(i)' = Handled(i) /\ Placed(i)' = Placed(i)
  BY <1>1 DEF Handled, Placed
<1>4. ~overlapped => HandledIsStored(i)'
  BY <1>1, <1>3 DEF FeedInv, HandledIsStored
<1>. QED
  BY <1>1, <1>2, <1>4, OwnStep

\* A turn of the loop: the entry at hand joins those that were handled.
LEMMA FeedParse ==
  ASSUME IInv, FeedInv, NEW i \in Ingest, Parse(i)
  PROVE  FeedInv'
<1>. USE DEF tableVars, sessionVars, readVars, batchVars, fetchVars
<1>. DEFINE a == at[i]
            b == feed[i][a]
            k == KeyOf(b)
            key(n) == KeyOf(feed[i][n])
<1>1. feed[i] \in Seq(Blocks) /\ a \in DOMAIN feed[i] /\ b \in Blocks
  <2>1. feed[i] \in Seq(Blocks) /\ a \in Nat \ {0}
    BY IngestAssumption, EmptyFeed DEF IInv, TypeOK
  <2>2. a \in 1..Len(feed[i])
    BY <2>1 DEF Parse, InLoop
  <2>. QED
    BY <2>1, <2>2
<1>2. k \in Key /\ k[1] = b.sat
  BY <1>1 DEF KeyOf, Key, Blocks
<1>3. /\ UNCHANGED <<existing, current, text, pc, feed, curKeys, overlapped>>
      /\ pc[i] = "parsing"
      /\ at' = [at EXCEPT ![i] = a + 1]
      /\ \/ Skipped(i, b) /\ UNCHANGED <<known, batchVars>>
         \/ Accepted(b) /\ Update(i, b) /\ UNCHANGED known
         \/ Accepted(b) /\ Insert(i, b)
  BY DEF Parse, InLoop
<1>4. \A j \in Ingest \ {i} : SameSession(j)
  BY <1>3 DEF SameSession, Update, Insert, IInv, TypeOK
<1>5. Handled(i)' = Handled(i) \cup (IF Accepted(b) THEN {a} ELSE {})
  <2>1. at'[i] = a + 1 /\ feed'[i] = feed[i]
    BY <1>3 DEF IInv, TypeOK
  <2>2. \A n \in DOMAIN feed[i] : n < a + 1 <=> (n < a \/ n = a)
    BY <1>1
  <2>. QED
    BY <1>1, <2>1, <2>2 DEF Handled
<1>. SUFFICES ASSUME ~overlapped PROVE SessionAgrees(i)' /\ HandledIsStored(i)'
  BY <1>3, <1>4, OwnStep
<1>6. SessionAgrees(i) /\ HandledIsStored(i)
  BY <1>3 DEF FeedInv, AtWork
<1>7. known[i] = existing \cup fresh[i] /\ curKeys[i] \subseteq known[i]
  BY <1>3 DEF IInv, ReadIsValid, AtWork
<1>8. \A n \in Handled(i) : n < a
  BY DEF Handled
<1>. HIDE DEF b, k, a
<1>9. CASE Skipped(i, b) /\ UNCHANGED <<known, batchVars>>
  <2>1. SessionAgrees(i)'
    BY <1>3, <1>6, <1>9 DEF SessionAgrees
  <2>2. Placed(i)' = Placed(i)
    BY <1>3, <1>9 DEF Placed
  <2>3. CASE ~Accepted(b)
    BY <1>3, <1>5, <1>6, <1>9, <2>1, <2>2, <2>3 DEF HandledIsStored
  <2>4. CASE Accepted(b)
    <3>1. key(a) = k
      BY DEF k, b
    <3>2. k \in curKeys[i] => obj[i][k] = b.text
      BY <1>9, <2>4, <1>7 DEF Skipped, k
    <3>3. k \in known[i] \/ \E m \in Handled(i) : m < a /\ key(m)[1] = k[1] /\ key(m) \in Placed(i)
      <4>1. CASE k \notin known[i] /\ b.sat \in added[i]
        <5>1. PICK l \in Placed(i) : l[1] = b.sat
          BY <4>1, <1>6 DEF HandledIsStored, SatsOf
        <5>2. PICK m \in Handled(i) : key(m) = l
          BY <5>1, <1>6 DEF HandledIsStored
        <5>. QED
          BY <5>1, <5>2, <1>2, <1>8
      <4>. QED
        BY <4>1, <1>9, <2>4, <1>7 DEF Skipped, k
    <3>4. Handled(i)' = Handled(i) \cup {a}
      BY <1>5, <2>4
    <3>5. b = feed[i][a]
      BY DEF b
    <3>6. HandledIsStored(i)'
      BY <1>3, <1>6, <1>9, <2>2, <3>1, <3>2, <3>3, <3>4, <3>5 DEF HandledIsStored
    <3>. QED
      BY <2>1, <3>6
  <2>. QED
    BY <2>3, <2>4
<1>10. CASE Accepted(b) /\ Update(i, b) /\ UNCHANGED known
  <2>1. /\ obj' = [obj EXCEPT ![i][k] = b.text]
        /\ dirty'[i] = dirty[i] \cup {k}
        /\ k \in curKeys[i]
        /\ UNCHANGED <<added, fresh>>
    BY <1>10 DEF Update, k, IInv, TypeOK
  <2>2. obj'[i][k] = b.text /\ \A l \in Key \ {k} : obj'[i][l] = obj[i][l]
    BY <1>2, <2>1 DEF IInv, TypeOK
  <2>3. SessionAgrees(i)'
    BY <1>3, <1>6, <2>1, <2>2 DEF SessionAgrees
  <2>4. Placed(i)' = Placed(i) /\ Placed(i) \subseteq Key
    BY <1>3, <2>1 DEF Placed, IInv, TypeOK
  <2>5. Handled(i)' = Handled(i) \cup {a}
    BY <1>5, <1>10
  <2>6. key(a) = k /\ b = feed[i][a]
    BY DEF k, b
  <2>7. \A l \in Placed(i)' : \E m \in Handled(i)' : key(m) = l /\ obj'[i][l] = feed[i][m].text
    BY <1>6, <2>2, <2>4, <2>5, <2>6 DEF HandledIsStored
  <2>8. \A n \in Handled(i)' : key(n) \in curKeys[i] =>
          \E m \in Handled(i)' : key(m) = key(n) /\ obj'[i][key(n)] = feed[i][m].text
    <3>1. \A n \in Handled(i) : key(n) \in Key \/ key(n) \notin curKeys[i]
      BY DEF IInv, TypeOK
    <3>. QED
      BY <1>6, <2>2, <2>5, <2>6, <3>1 DEF HandledIsStored
  <2>9. \A n \in Handled(i)' :
          \/ key(n) \in known[i]
          \/ \E m \in Handled(i)' : m < n /\ key(m)[1] = key(n)[1] /\ key(m) \in Placed(i)
    BY <1>6, <1>7, <2>1, <2>5, <2>6 DEF HandledIsStored
  <2>10. HandledIsStored(i)'
    BY <1>3, <1>6, <1>10, <2>1, <2>4, <2>7, <2>8, <2>9 DEF HandledIsStored
  <2>. QED
    BY <2>3, <2>10
<1>11. CASE Accepted(b) /\ Insert(i, b)
  <2>1. /\ obj' = [obj EXCEPT ![i][k] = b.text]
        /\ fresh'[i] = fresh[i] \cup {k}
        /\ known'[i] = known[i] \cup {k}
        /\ added'[i] = added[i] \cup {k[1]}
        /\ k \notin curKeys[i] \cup known[i] /\ k[1] \notin added[i]
        /\ UNCHANGED dirty
    BY <1>2, <1>11 DEF Insert, k, IInv, TypeOK
  <2>2. obj'[i][k] = b.text /\ \A l \in Key \ {k} : obj'[i][l] = obj[i][l]
    BY <1>2, <2>1 DEF IInv, TypeOK
  <2>3. SessionAgrees(i)'
    BY <1>3, <1>6, <2>1, <2>2 DEF SessionAgrees
  <2>4. Placed(i)' = Placed(i) \cup {k} /\ Placed(i) \subseteq Key
    <3>1. SatsOf(fresh'[i]) = SatsOf(fresh[i]) \cup {k[1]}
      BY <2>1 DEF SatsOf
    <3>2. added'[i] \ SatsOf(fresh'[i]) = added[i] \ SatsOf(fresh[i])
      BY <2>1, <3>1
    <3>. QED
      BY <1>3, <2>1, <3>2 DEF Placed, IInv, TypeOK
  <2>5. Handled(i)' = Handled(i) \cup {a}
    BY <1>5, <1>11
  <2>6. key(a) = k /\ b = feed[i][a]
    BY DEF k, b
  <2>7. \A l \in Placed(i)' : \E m \in Handled(i)' : key(m) = l /\ obj'[i][l] = feed[i][m].text
    BY <1>6, <2>2, <2>4, <2>5, <2>6 DEF HandledIsStored
  <2>8. \A n \in Handled(i)' : key(n) \in curKeys[i] =>
          \E m \in Handled(i)' : key(m) = key(n) /\ obj'[i][key(n)] = feed[i][m].text
    <3>1. \A n \in Handled(i) : key(n) \in Key \/ key(n) \notin curKeys[i]
      BY DEF IInv, TypeOK
    <3>. QED
      BY <1>6, <2>1, <2>2, <2>5, <2>6, <3>1 DEF HandledIsStored
  <2>9. \A n \in Handled(i)' :
          \/ key(n) \in known'[i]
          \/ \E m \in Handled(i)' : m < n /\ key(m)[1] = key(n)[1] /\ key(m) \in Placed(i)'
    BY <1>6, <2>1, <2>4, <2>5, <2>6 DEF HandledIsStored
  <2>10. added'[i] \subseteq SatsOf(Placed(i)')
    BY <1>6, <2>1, <2>4 DEF HandledIsStored, SatsOf
  <2>11. HandledIsStored(i)'
    BY <1>3, <2>7, <2>8, <2>9, <2>10 DEF HandledIsStored
  <2>. QED
    BY <2>3, <2>11
<1>. QED
  BY <1>3, <1>9, <1>10, <1>11

\* A commit leaves the rows of the satellites that were added, and every row
\* has the text of its object.
LEMMA CommitPlaces ==
  ASSUME IInv, ~overlapped, NEW i \in Ingest, Commit(i), SessionAgrees(i)
  PROVE  /\ Placed(i) = {k \in current' : k[1] \in added[i]}
         /\ Placed(i)' = Placed(i)
         /\ text' = obj[i]
<1>1. /\ pc[i] = "committing"
      /\ current' = (current \ hit[i]) \cup fresh[i]
      /\ text' = WrittenBy(i)
      /\ fresh'[i] = {} /\ UNCHANGED added
  BY DEF Commit, Goto, EmptyBatch, IInv, TypeOK
<1>2. SatsOf(fresh[i]) \subseteq added[i] /\ SatsOf(hit[i]) \subseteq SatsOf(fresh[i])
  BY DEF IInv, FreshRowsFit, RetiredAreReplaced
<1>3. \A k \in fresh[i] : k[1] \in SatsOf(fresh[i])
  BY DEF SatsOf
<1>4. \A k \in hit[i] : k[1] \in SatsOf(fresh[i])
  BY <1>2 DEF SatsOf
<1>5. \A k \in current : k[1] \in SatsOf(fresh[i]) => k \in hit[i]
  BY <1>1 DEF IInv, FreshRowsFit
<1>6. Placed(i) = {k \in current' : k[1] \in added[i]}
  BY <1>1, <1>2, <1>3, <1>4, <1>5 DEF Placed
<1>7. Placed(i)' = {k \in current' : k[1] \in added[i]}
  <2>1. SatsOf({}) = {}
    BY DEF SatsOf
  <2>. QED
    BY <1>1, <2>1 DEF Placed
<1>8. text' = obj[i]
  <2>1. obj[i] \in [Key -> Text]
    BY DEF IInv, TypeOK
  <2>2. \A k \in Key : WrittenBy(i)[k] = obj[i][k]
    BY DEF WrittenBy, SessionAgrees
  <2>. QED
    BY <1>1, <2>1, <2>2 DEF WrittenBy
<1>. QED
  BY <1>6, <1>7, <1>8

\* A commit keeps what is known of the feeds.
LEMMA FeedCommit ==
  ASSUME IInv, FeedInv, NEW i \in Ingest, Commit(i)
  PROVE  FeedInv'
<1>. USE DEF fetchVars, readVars, Goto
<1>1. PICK s \in {"stored", "parsing"} : pc' = [pc EXCEPT ![i] = s]
  BY DEF Commit
<1>2. /\ pc[i] = "committing"
      /\ UNCHANGED <<feed, at, curKeys, known, obj, added, overlapped>>
  BY DEF Commit
<1>3. \A j \in Ingest : pc'[j] \in {"parsing", "committing", "stored"} \/ (at'[j] = 1 /\ added'[j] = {})
  BY <1>1, <1>2 DEF FeedInv, IInv, TypeOK
<1>4. ASSUME ~overlapped, NEW j \in Ingest, pc'[j] \in AtWork
      PROVE  SessionAgrees(j)' /\ HandledIsStored(j)'
  <2>1. j = i
    <3>1. pc[j] \in AtWork \/ j = i
      BY <1>1, <1>4 DEF IInv, TypeOK
    <3>2. pc[i] \in AtWork
      BY <1>2 DEF AtWork
    <3>. QED
      BY <1>4, <3>1, <3>2 DEF IInv, OneAtWork
  <2>2. SessionAgrees(i) /\ HandledIsStored(i)
    BY <1>2, <1>4 DEF FeedInv, AtWork
  <2>3. Placed(i)' = Placed(i) /\ text' = obj[i]
    BY <1>4, <2>2, CommitPlaces
  <2>4. Handled(i)' = Handled(i)
    BY <1>2 DEF Handled
  <2>5. SessionAgrees(i)'
    BY <1>2, <2>3 DEF SessionAgrees
  <2>6. HandledIsStored(i)'
    BY <1>2, <2>2, <2>3, <2>4 DEF HandledIsStored
  <2>. QED
    BY <2>1, <2>5, <2>6
<1>. QED
  BY <1>2, <1>3, <1>4 DEF FeedInv, AtWork

\* Both invariants hold in every reachable state.
LEMMA FeedInvHolds == Spec => [](IInv /\ FeedInv)
<1>1. Init => FeedInv
  BY DEF Init, FeedInv, AtWork
<1>2. IInv /\ FeedInv /\ [Next]_vars => FeedInv'
  <2>. SUFFICES ASSUME IInv, FeedInv, [Next]_vars PROVE FeedInv'
    OBVIOUS
  <2>1. ASSUME NEW i \in Ingest, Trigger(i) \/ Progress(i) PROVE FeedInv'
    BY <2>1, FeedOutside, FeedRead, FeedParse, FeedFlush, FeedCommit
       DEF Progress, ParseAndStore
  <2>2. CASE UNCHANGED vars
    <3>. USE <2>2 DEF vars, tableVars, fetchVars, sessionVars, readVars, batchVars
    <3>1. \A j \in Ingest : SameSession(j)
      BY DEF SameSession
    <3>2. UNCHANGED <<pc, at, added, current, text, overlapped>>
      OBVIOUS
    <3>. QED
      BY <3>1, <3>2, SameHandled DEF FeedInv
  <2>. QED
    BY <2>1, <2>2 DEF Next
<1>. QED
  BY <1>1, <1>2, IInvHolds, PTL DEF Spec

\* When the last batch of an undisturbed ingest commits, the table says what
\* the catalogue says, for any catalogue, batch size and number of restarts.
THEOREM FeedStoredHolds == Spec => FeedStored
<1>1. ASSUME IInv, FeedInv, [Next]_vars, NEW i \in Ingest,
             pc[i] # "stored", pc'[i] = "stored", ~overlapped'
      PROVE  StoredFeed(i)
  <2>1. Commit(i)
    <3>1. PICK j \in Ingest : Trigger(j) \/ Progress(j)
      BY <1>1 DEF Next, vars
    <3>. USE DEF IInv, TypeOK
    <3>2. ~(Trigger(j) \/ FetchAll(j) \/ Return(j) \/ Fail(j))
      BY <1>1 DEF Trigger, FetchAll, Start, TryAgain, NextSource, Download, Return, Fail, Goto
    <3>3. ~(ReadCurrent(j) \/ ReadEpochs(j) \/ Parse(j) \/ Flush(j))
      BY <1>1 DEF ReadCurrent, ReadEpochs, Parse, Flush, Goto
    <3>4. Commit(j)
      BY <3>1, <3>2, <3>3 DEF Progress, ParseAndStore
    <3>5. j = i
      BY <1>1, <3>4 DEF Commit, Goto
    <3>. QED
      BY <3>4, <3>5
  <2>2. /\ pc[i] = "committing" /\ ~overlapped /\ at[i] > Len(feed[i])
        /\ existing' = existing \cup fresh[i]
        /\ current' = (current \ hit[i]) \cup fresh[i]
    BY <1>1, <2>1 DEF Commit, Goto, IInv, TypeOK
  <2>3. SessionAgrees(i) /\ HandledIsStored(i)
    BY <1>1, <2>2 DEF FeedInv, AtWork
  <2>4. Placed(i) = {k \in current' : k[1] \in added[i]} /\ text' = obj[i]
    BY <1>1, <2>1, <2>2, <2>3, CommitPlaces
  <2>5. Handled(i) = {n \in DOMAIN feed[i] : Accepted(feed[i][n])}
    <3>1. feed[i] \in Seq(Blocks) /\ at[i] \in Nat
      BY <1>1, IngestAssumption, EmptyFeed DEF IInv, TypeOK
    <3>2. \A n \in DOMAIN feed[i] : n < at[i]
      BY <2>2, <3>1
    <3>. QED
      BY <3>2 DEF Handled
  <2>6. known[i] = existing' /\ curKeys[i] \subseteq existing
    BY <1>1, <2>2 DEF IInv, ReadIsValid, AtWork
  <2>7. \A k \in current' : k[1] \in added[i] \/ k \in curKeys[i]
    <3>1. \A k \in fresh[i] : k[1] \in added[i]
      BY <1>1, <2>2 DEF IInv, FreshRowsFit, SatsOf
    <3>2. \A k \in current : k[1] \in added[i] \/ k \in curKeys[i]
      BY <1>1, <2>2 DEF IInv, TypeOK, ReadIsValid, AtWork
    <3>. QED
      BY <2>2, <3>1, <3>2
  <2>8. ASSUME NEW n \in Handled(i)
        PROVE  /\ \/ KeyOf(feed[i][n]) \in existing'
                  \/ \E m \in Handled(i) : /\ m < n
                                           /\ KeyOf(feed[i][m])[1] = KeyOf(feed[i][n])[1]
                                           /\ KeyOf(feed[i][m]) \in current'
               /\ KeyOf(feed[i][n]) \in current' =>
                    \E m \in Handled(i) : /\ KeyOf(feed[i][m]) = KeyOf(feed[i][n])
                                          /\ text'[KeyOf(feed[i][n])] = feed[i][m].text
    <3>1. Placed(i) \subseteq current'
      BY <2>4
    <3>2. \/ KeyOf(feed[i][n]) \in existing'
          \/ \E m \in Handled(i) : /\ m < n
                                   /\ KeyOf(feed[i][m])[1] = KeyOf(feed[i][n])[1]
                                   /\ KeyOf(feed[i][m]) \in current'
      BY <2>3, <2>6, <2>8, <3>1 DEF HandledIsStored
    <3>3. CASE KeyOf(feed[i][n]) \in current'
      <4>1. KeyOf(feed[i][n]) \in Placed(i) \/ KeyOf(feed[i][n]) \in curKeys[i]
        BY <2>4, <2>7, <3>3
      <4>. QED
        BY <2>3, <2>4, <2>8, <3>2, <4>1 DEF HandledIsStored
    <3>. QED
      BY <3>2, <3>3
  <2>. QED
    BY <2>5, <2>8 DEF StoredFeed
<1>2. IInv /\ FeedInv /\ [Next]_vars =>
        [\A i \in Ingest :
           pc[i] # "stored" /\ pc'[i] = "stored" /\ ~overlapped' => StoredFeed(i)]_vars
  BY <1>1
<1>. QED
  BY <1>2, FeedInvHolds, PTL DEF Spec, FeedStored

=============================================================================
