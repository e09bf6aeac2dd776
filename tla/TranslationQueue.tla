--------------------------- MODULE TranslationQueue ---------------------------
(***************************************************************************)
(* The translation of one field of one entity into one language: the jobs  *)
(* that edits of the field queue, the worker that has them translated, the *)
(* record that readers are served from, and the cache in front of it.      *)
(*                                                                         *)
(* Nothing here is a transaction.  Every statement on the database is a    *)
(* step of its own, and what follows it in memory is part of the next one, *)
(* so edits, readers, manual corrections and the worker interleave between *)
(* any two statements.  Any statement may fail; what was written before    *)
(* stays.  A restart of the server, at any time, loses the queue, the      *)
(* timers, the cache and every request, and keeps the tables.              *)
(***************************************************************************)
EXTENDS Integers, Sequences

CONSTANTS
    Editors,     \* requests that edit the field
    Readers,     \* requests that read its translation
    Texts,       \* contents the field may have
    MaxJobs,     \* bound on the jobs ever queued
    MaxRetries,  \* maxRetries of a job
    Allowed      \* which of Practices happen

Practices == {"overrides"}

ASSUME QueueAssumption ==
    /\ Texts \subseteq Nat
    /\ 0 \in Texts
    /\ {MaxJobs, MaxRetries} \subseteq Nat \ {0}
    /\ Allowed \subseteq Practices

VARIABLES
    isName,    \* the field is a name that readers may have translated
    source,    \* the content of the field
    record,    \* the row of entity_translations
    jobs,      \* the rows of translation_jobs
    cache,     \* the entry of translationCache, or NoText
    edit,      \* edit[e]: how far the request to translate an edit is, Idle or Lost
    reader,    \* reader[u]: what a reader or a manual correction is at, or Idle
    worker,    \* the job the worker is at, or Idle
    queue,     \* jobs that wait for the worker
    timers     \* jobs that wait to be queued again after a failure

vars == <<isName, source, record, jobs, cache, edit, reader, worker, queue, timers>>

\* The translation of a content is written as the content itself.
Manual == -1 \* what somebody translated by hand
NoText == -2
Idle == [step |-> "idle"]
Lost == [step |-> "lost"] \* saved, and not or only half queued

Translations == Texts \cup {Manual}
JobIds == 1..MaxJobs
JobStatuses == {"pending", "processing", "completed", "failed"}
RecordStatuses == {"pending", "completed", "failed", "approved"}

Records == [status : RecordStatuses, text : Translations, job : JobIds]

TypeOK ==
    /\ isName \in BOOLEAN
    /\ source \in Texts
    /\ record \in Records
    /\ jobs \in Seq([text : Texts, status : JobStatuses, tries : 0..MaxRetries])
    /\ Len(jobs) \in JobIds
    /\ cache \in Translations \cup {NoText}
    /\ edit \in [Editors -> {Idle, Lost} \cup [step : {"edited"}, text : Texts]
           \cup [step : {"queueing"}, text : Texts, seen : Records]
           \cup [step : {"inserted"}, job : JobIds]]
    /\ reader \in [Readers -> {Idle}
           \cup [step : {"filling", "naming", "storing", "stored"}, text : Translations]
           \cup [step : {"correcting", "corrected"}]]
    /\ worker \in {Idle} \cup
           [step : {"candidate", "claiming", "translating", "translated", "saving",
                    "writing", "written", "failing", "failed"}, job : JobIds]
    /\ queue \subseteq JobIds
    /\ timers \subseteq JobIds

\* A field that was translated once.
Init ==
    /\ isName \in BOOLEAN
    /\ source = 0
    /\ jobs = <<[text |-> source, status |-> "completed", tries |-> 0]>>
    /\ record = [status |-> "completed", text |-> source, job |-> 1]
    /\ cache = NoText
    /\ edit = [e \in Editors |-> Idle]
    /\ reader = [u \in Readers |-> Idle]
    /\ worker = Idle
    /\ queue = {}
    /\ timers = {}

Final == {"approved", "completed"}

-----------------------------------------------------------------------------
(* Editing: the content is saved, then queueTranslation is called and not  *)
(* waited for.                                                             *)

Edit(e, text) ==
    /\ edit[e] \in {Idle, Lost}
    /\ text # source
    /\ Len(jobs) < MaxJobs
    /\ source' = text
    /\ edit' = [edit EXCEPT ![e] = [step |-> "edited", text |-> text]]
    /\ UNCHANGED <<isName, record, jobs, cache, reader, worker, queue, timers>>

\* It reads the record and leaves approved translations alone;
LookUp(e) ==
    /\ edit[e].step = "edited"
    /\ edit' = [edit EXCEPT ![e] =
           IF record.status = "approved" THEN Idle
           ELSE [step |-> "queueing", text |-> edit[e].text, seen |-> record]]
    /\ UNCHANGED <<isName, source, record, jobs, cache, reader, worker, queue, timers>>

\* a job for the same content that has not failed is enough;
Covers(j, text) ==
    jobs[j].text = text /\ jobs[j].status \in {"pending", "processing", "completed"}

\* otherwise the label in the cache is dropped and a job is inserted,
QueueJob(e) ==
    LET q == edit[e] IN
    /\ q.step = "queueing"
    /\ IF Covers(q.seen.job, q.text)
       THEN /\ edit' = [edit EXCEPT ![e] = Idle]
            /\ UNCHANGED <<jobs, cache>>
       ELSE /\ Len(jobs) < MaxJobs
            /\ cache' = NoText
            /\ jobs' = Append(jobs, [text |-> q.text, status |-> "pending", tries |-> 0])
            /\ edit' = [edit EXCEPT ![e] = [step |-> "inserted", job |-> Len(jobs) + 1]]
    /\ UNCHANGED <<isName, source, record, reader, worker, queue, timers>>

\* and the record is set to pending, whatever it is by now.
AwaitJob(e) ==
    LET q == edit[e] IN
    /\ q.step = "inserted"
    /\ record' = [record EXCEPT !.status = "pending", !.job = q.job]
    /\ queue' = queue \cup {q.job}
    /\ edit' = [edit EXCEPT ![e] = Idle]
    /\ UNCHANGED <<isName, source, jobs, cache, reader, worker, timers>>

\* A statement of it fails: the caller writes that to its log and goes on.
Lose(e) ==
    /\ edit[e] \notin {Idle, Lost}
    /\ edit' = [edit EXCEPT ![e] = Lost]
    /\ UNCHANGED <<isName, source, record, jobs, cache, reader, worker, queue, timers>>

-----------------------------------------------------------------------------
(* The worker: runTranslationJobs, one job at a time.  The jobs it has     *)
(* claimed with this one are for other fields.                             *)

Working(step) == worker.step = step
Proceed(step) == worker' = [worker EXCEPT !.step = step]

Take(j) ==
    /\ worker = Idle
    /\ j \in queue
    /\ queue' = queue \ {j}
    /\ worker' = IF jobs[j].status = "pending" THEN [step |-> "candidate", job |-> j] ELSE Idle
    /\ UNCHANGED <<isName, source, record, jobs, cache, edit, reader, timers>>

\* canProcessTranslationJob
Processable(j) == record.job = j /\ record.status \notin Final

CheckRecord ==
    /\ Working("candidate")
    /\ IF Processable(worker.job) THEN Proceed("claiming") ELSE worker' = Idle
    /\ UNCHANGED <<isName, source, record, jobs, cache, edit, reader, queue, timers>>

SetJob(j, status) == jobs' = [jobs EXCEPT ![j].status = status]

Claim ==
    /\ Working("claiming")
    /\ IF jobs[worker.job].status = "pending"
       THEN SetJob(worker.job, "processing") /\ Proceed("translating")
       ELSE worker' = Idle /\ UNCHANGED jobs
    /\ UNCHANGED <<isName, source, record, cache, edit, reader, queue, timers>>

\* The external service answers, or not.
Translate ==
    /\ Working("translating")
    /\ Proceed("translated") \/ Proceed("failing")
    /\ UNCHANGED <<isName, source, record, jobs, cache, edit, reader, queue, timers>>

\* saveTranslatedJob completes the job first,
CompleteJob ==
    /\ Working("translated")
    /\ SetJob(worker.job, "completed")
    /\ Proceed("saving")
    /\ UNCHANGED <<isName, source, record, cache, edit, reader, queue, timers>>

\* reads the record,
ReadForSave ==
    /\ Working("saving")
    /\ IF Processable(worker.job) THEN Proceed("writing") ELSE worker' = Idle
    /\ UNCHANGED <<isName, source, record, jobs, cache, edit, reader, queue, timers>>

\* [A plausible bug: that the record was read just now is taken as enough.]
WriteRecordAsRead ==
    /\ Working("writing")
    /\ record' = [status |-> "completed", text |-> jobs[worker.job].text, job |-> worker.job]
    /\ Proceed("written")
    /\ UNCHANGED <<isName, source, jobs, cache, edit, reader, queue, timers>>

\* [A plausible bug: only approved translations are left alone.]
WriteRecordOfAnyJob ==
    /\ Working("writing")
    /\ record.status # "approved"
    /\ record' = [status |-> "completed", text |-> jobs[worker.job].text, job |-> worker.job]
    /\ Proceed("written")
    /\ UNCHANGED <<isName, source, jobs, cache, edit, reader, queue, timers>>

\* writes it if it is still what it was,
WriteRecord ==
    /\ Working("writing")
    /\ IF Processable(worker.job)
       THEN /\ record' = [record EXCEPT !.status = "completed", !.text = jobs[worker.job].text]
            /\ Proceed("written")
       ELSE worker' = Idle /\ UNCHANGED record
    /\ UNCHANGED <<isName, source, jobs, cache, edit, reader, queue, timers>>

\* and caches the label.
CacheSaved ==
    /\ Working("written")
    /\ cache' = jobs[worker.job].text
    /\ worker' = Idle
    /\ UNCHANGED <<isName, source, record, jobs, edit, reader, queue, timers>>

\* A statement of the save fails, or its answer is lost; what was done stays.
FailSave ==
    /\ worker.step \in {"translated", "saving", "writing", "written"}
    /\ Proceed("failing")
    /\ UNCHANGED <<isName, source, record, jobs, cache, edit, reader, queue, timers>>

\* [A plausible bug: the last retry is counted too late.]
FailJobLate ==
    LET tries == jobs[worker.job].tries + 1 IN
    /\ Working("failing")
    /\ jobs' = [jobs EXCEPT ![worker.job].tries = tries,
                            ![worker.job].status = IF tries > MaxRetries THEN "failed" ELSE "pending"]
    /\ Proceed("failed")
    /\ UNCHANGED <<isName, source, record, cache, edit, reader, queue, timers>>

\* failTranslatedJob: the job is tried again until it failed too often,
FailJob ==
    LET tries == jobs[worker.job].tries + 1 IN
    /\ Working("failing")
    /\ jobs' = [jobs EXCEPT ![worker.job].tries = tries,
                            ![worker.job].status = IF tries >= MaxRetries THEN "failed" ELSE "pending"]
    /\ Proceed("failed")
    /\ UNCHANGED <<isName, source, record, cache, edit, reader, queue, timers>>

\* and the record says so, if it waits for this job.
FailRecord ==
    LET j == worker.job
        gaveUp == jobs[j].tries >= MaxRetries
    IN  /\ Working("failed")
        /\ record' = IF Processable(j)
                     THEN [record EXCEPT !.status = IF gaveUp THEN "failed" ELSE "pending"]
                     ELSE record
        /\ timers' = IF gaveUp THEN timers ELSE timers \cup {j}
        /\ worker' = Idle
        /\ UNCHANGED <<isName, source, jobs, cache, edit, reader, queue>>

\* A statement fails where no failure is handled: before the save, or in
\* failTranslatedJob itself, for this job or for another one of the batch.
\* The worker drops what it has claimed as it is.
BreakOff ==
    /\ worker.step \in {"candidate", "claiming", "translating", "translated", "failing", "failed"}
    /\ worker' = Idle
    /\ UNCHANGED <<isName, source, record, jobs, cache, edit, reader, queue, timers>>

Timer(j) ==
    /\ j \in timers
    /\ timers' = timers \ {j}
    /\ queue' = queue \cup {j}
    /\ UNCHANGED <<isName, source, record, jobs, cache, edit, reader, worker>>

\* [A plausible bug: jobs that were being processed are not recovered.]
RecoverPendingOnly ==
    LET j == record.job IN
    /\ record.status \notin Final
    /\ jobs[j].status = "pending"
    /\ j \notin queue
    /\ queue' = queue \cup {j}
    /\ UNCHANGED <<isName, source, record, jobs, cache, edit, reader, worker, timers>>

\* recoverPendingTranslations, at the start of the server and every 30 minutes:
\* the job the record waits for, also when it was being processed 30 minutes
\* ago.  The worker, which gives up after one minute, is not at it then.
Recover ==
    LET j == record.job IN
    /\ record.status \notin Final
    /\ jobs[j].status \in {"pending", "processing"}
    /\ jobs[j].status = "processing" /\ worker # Idle => worker.job # j
    /\ j \notin queue
    /\ SetJob(j, "pending")
    /\ queue' = queue \cup {j}
    /\ UNCHANGED <<isName, source, record, cache, edit, reader, worker, timers>>

\* retryFailedJobs
RetryFailed ==
    LET j == record.job IN
    /\ jobs[j].status = "failed"
    /\ record.status \notin Final
    /\ jobs' = [jobs EXCEPT ![j].status = "pending", ![j].tries = 0]
    /\ record' = [record EXCEPT !.status = "pending"]
    /\ queue' = queue \cup {j}
    /\ UNCHANGED <<isName, source, cache, edit, reader, worker, timers>>

-----------------------------------------------------------------------------
(* Readers and manual corrections.                                         *)

\* getEntityTranslations: what is not in the cache is read from the record.
ReadRecord(u) ==
    /\ reader[u] = Idle
    /\ cache = NoText
    /\ record.status \in Final
    /\ reader' = [reader EXCEPT ![u] = [step |-> "filling", text |-> record.text]]
    /\ UNCHANGED <<isName, source, record, jobs, cache, edit, worker, queue, timers>>

FillCache(u) ==
    /\ reader[u].step \in {"filling", "stored"}
    /\ cache' = reader[u].text
    /\ reader' = [reader EXCEPT ![u] = Idle]
    /\ UNCHANGED <<isName, source, record, jobs, edit, worker, queue, timers>>

\* ensureStoredNameTranslations: a reader has a name that has no translation
\* translated while he waits,
TranslateName(u) ==
    /\ isName
    /\ reader[u] = Idle
    /\ cache = NoText
    /\ record.status \notin Final
    /\ reader' = [reader EXCEPT ![u] = [step |-> "naming", text |-> source]]
    /\ UNCHANGED <<isName, source, record, jobs, cache, edit, worker, queue, timers>>

\* and storeCompletedEntityTranslation reads the record
LookUpName(u) ==
    /\ reader[u].step = "naming"
    /\ reader' = [reader EXCEPT ![u] =
           IF record.status = "approved" THEN [step |-> "filling", text |-> record.text]
           ELSE IF record.status = "completed" /\ record.text = reader[u].text
                THEN [step |-> "filling", text |-> record.text]
                ELSE [step |-> "storing", text |-> reader[u].text]]
    /\ UNCHANGED <<isName, source, record, jobs, cache, edit, worker, queue, timers>>

\* and then writes it, whatever it is by now and whatever job it waits for.
StoreName(u) ==
    /\ reader[u].step = "storing"
    /\ record' = [record EXCEPT !.status = "completed", !.text = reader[u].text]
    /\ reader' = [reader EXCEPT ![u].step = "stored"]
    /\ UNCHANGED <<isName, source, jobs, cache, edit, worker, queue, timers>>

\* manualOverrideTranslation
BeginOverride(u) ==
    /\ reader[u] = Idle
    /\ reader' = [reader EXCEPT ![u] = [step |-> "correcting"]]
    /\ UNCHANGED <<isName, source, record, jobs, cache, edit, worker, queue, timers>>

Override(u) ==
    /\ reader[u].step = "correcting"
    /\ record' = [record EXCEPT !.status = "approved", !.text = Manual]
    /\ reader' = [reader EXCEPT ![u] = [step |-> "corrected"]]
    /\ UNCHANGED <<isName, source, jobs, cache, edit, worker, queue, timers>>

CacheOverride(u) ==
    /\ reader[u].step = "corrected"
    /\ cache' = Manual
    /\ reader' = [reader EXCEPT ![u] = Idle]
    /\ UNCHANGED <<isName, source, record, jobs, edit, worker, queue, timers>>

\* The entry of the cache is too old.
Expire ==
    /\ cache # NoText
    /\ cache' = NoText
    /\ UNCHANGED <<isName, source, record, jobs, edit, reader, worker, queue, timers>>

Crash ==
    /\ cache' = NoText
    /\ edit' = [e \in Editors |-> IF edit[e] = Idle THEN Idle ELSE Lost]
    /\ reader' = [u \in Readers |-> Idle]
    /\ worker' = Idle
    /\ queue' = {}
    /\ timers' = {}
    /\ UNCHANGED <<isName, source, record, jobs>>

-----------------------------------------------------------------------------
Editing ==
    \E e \in Editors :
        \/ \E text \in Texts : Edit(e, text)
        \/ LookUp(e) \/ QueueJob(e) \/ AwaitJob(e) \/ Lose(e)

WorkerStep ==
    \/ \E j \in JobIds : Take(j)
    \/ CheckRecord \/ Claim \/ Translate
    \/ CompleteJob \/ ReadForSave \/ WriteRecord \/ CacheSaved
    \/ FailSave \/ FailJob \/ FailRecord \/ BreakOff

Reading ==
    \E u \in Readers :
        \/ ReadRecord(u) \/ FillCache(u)
        \/ TranslateName(u) \/ LookUpName(u) \/ StoreName(u)
        \/ "overrides" \in Allowed /\ (BeginOverride(u) \/ Override(u) \/ CacheOverride(u))

Next ==
    \/ Editing \/ WorkerStep \/ Reading
    \/ \E j \in JobIds : Timer(j)
    \/ Recover \/ RetryFailed \/ Expire \/ Crash

\* The worker of a running server takes the next step or fails at it, its
\* timers go off, and recovery runs every 30 minutes.
Fairness ==
    /\ WF_vars(WorkerStep)
    /\ \A j \in JobIds : WF_vars(Timer(j))
    /\ WF_vars(Recover)

Spec == Init /\ [][Next]_vars /\ Fairness

-----------------------------------------------------------------------------
(* Properties.                                                             *)

\* With one edit at a time, none of them lost, the completed translation of a
\* field that is not a name is that of its content, though jobs for older
\* contents may still be under way, fail, be retried or be recovered.
TranslationIsCurrent ==
    ~isName /\ record.status = "completed" /\ (\A e \in Editors : edit[e] = Idle) =>
        record.text = source

\* And so it is for names.
NameIsCurrent ==
    isName /\ record.status = "completed" /\ (\A e \in Editors : edit[e] = Idle) =>
        record.text = source

\* What was approved by hand is undone by no job, however old it is and
\* wherever the worker was when it was approved.
JobsRespectApproval ==
    [][record.status = "approved" /\ record' # record => worker' = worker]_vars

\* A job that the record waits for is not stuck, wherever the server stops and
\* whichever statements fail: it is completed or fails for good, or nobody waits
\* for it any more (_core/index.ts:1228-1231).  This supposes that in the end no
\* statement fails, the server stays up and nobody retries failed jobs.
Awaited ==
    record.status \notin Final /\ jobs[record.job].status \in {"pending", "processing"}

Undisturbed == ~([]<><<BreakOff>>_vars \/ []<><<Crash>>_vars \/ []<><<RetryFailed>>_vars)

AwaitedJobEnds == Undisturbed => (Awaited ~> ~Awaited)

\* A pending record is not pending for ever: it is translated, or its job
\* fails for good.
PendingIsSettled ==
    Undisturbed => (record.status = "pending" ~> record.status # "pending")

\* "Manual Override protection" (translationEngine.ts:457): a translation that
\* was approved stays so.
ApprovedIsKept ==
    [][record.status = "approved" => record'.status = "approved"]_vars

\* "Never let a stale in-memory label survive while the replacement
\* translation is pending" (translationEngine.ts:489-492).
NoStaleLabel ==
    record.status = "pending" /\ worker.step # "written" => cache = NoText
=============================================================================
