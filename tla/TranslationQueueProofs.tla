----------------------- MODULE TranslationQueueProofs -----------------------
(***************************************************************************)
(* What TranslationQueue promises, for any requests, texts and bounds.     *)
(*                                                                         *)
(* The types rest on two facts that no single step shows: whatever waits,  *)
(* works or is half done refers to a job that is there, and a job that     *)
(* may still be tried has a try left (Typing).  That the translation is    *)
(* the current one rests on what the record waits for: with one edit at a  *)
(* time it is the job of the present text, or an edit is about to see to   *)
(* it (Current).                                                           *)
(***************************************************************************)
EXTENDS TranslationQueue, SequenceTheorems, TLAPS

Jobs == [text : Texts, status : JobStatuses, tries : 0..MaxRetries]

Numbers == 1..Len(jobs)

EditStates ==
    {Idle, Lost} \cup [step : {"edited"}, text : Texts]
           \cup [step : {"queueing"}, text : Texts, seen : Records]
           \cup [step : {"inserted"}, job : JobIds]

ReaderStates ==
    {Idle} \cup [step : {"filling", "naming", "storing", "stored"}, text : Translations]
           \cup [step : {"correcting", "corrected"}]

WorkerSteps ==
    {"candidate", "claiming", "translating", "translated", "saving", "writing",
     "written", "failing", "failed"}

\* The worker has claimed its job and has not given it up.
Busy == {"translating", "translated", "saving", "writing", "written", "failing"}

WellFormed ==
    /\ isName \in BOOLEAN
    /\ source \in Texts
    /\ cache \in Translations \cup {NoText}
    /\ reader \in [Readers -> ReaderStates]

RecordFine == record \in Records /\ record.job \in Numbers

JobsFine ==
    /\ jobs \in Seq(Jobs)
    /\ Len(jobs) \in JobIds
    /\ \A j \in Numbers : jobs[j].status # "failed" => jobs[j].tries < MaxRetries

EditsFine ==
    /\ edit \in [Editors -> EditStates]
    /\ \A e \in Editors :
        /\ edit[e].step = "queueing" => edit[e].seen.job \in Numbers
        /\ edit[e].step = "inserted" => edit[e].job \in Numbers

WorkerFine ==
    /\ worker \in {Idle} \cup [step : WorkerSteps, job : JobIds]
    /\ worker # Idle => worker.job \in Numbers
    /\ worker.step \in Busy => jobs[worker.job].status \in {"processing", "completed"}

WaitingFine == queue \subseteq Numbers /\ timers \subseteq Numbers

Typing ==
    /\ WellFormed
    /\ RecordFine
    /\ JobsFine
    /\ EditsFine
    /\ WorkerFine
    /\ WaitingFine

-----------------------------------------------------------------------------
(* Jobs.                                                                   *)

LEMMA Bounds ==
    /\ MaxJobs \in Nat \ {0}
    /\ MaxRetries \in Nat \ {0}
    /\ 0 \in Texts
    BY QueueAssumption

\* A job that is there is a row of the table.
LEMMA JobRow ==
    ASSUME JobsFine, NEW j \in Numbers
    PROVE  jobs[j] \in Jobs /\ j \in JobIds
  <1>1. jobs[j] \in Jobs
    BY ElementOfSeq DEF JobsFine, Numbers
  <1>2. Len(jobs) \in 1..MaxJobs /\ j \in 1..Len(jobs) /\ MaxJobs \in Nat
    BY Bounds DEF JobsFine, JobIds, Numbers
  <1>3. j \in 1..MaxJobs
    BY <1>2
  <1> QED BY <1>1, <1>3 DEF JobIds

\* One job is replaced by a row with a try left, or a failed one.
LEMMA JobReplaced ==
    ASSUME JobsFine, NEW j \in Numbers, NEW row \in Jobs,
           jobs' = [jobs EXCEPT ![j] = row],
           row.status # "failed" => row.tries < MaxRetries
    PROVE  /\ JobsFine'
           /\ Numbers' = Numbers
           /\ \A i \in Numbers : jobs'[i] = IF i = j THEN row ELSE jobs[i]
  <1>1. /\ jobs' \in Seq(Jobs)
        /\ Len(jobs') = Len(jobs)
        /\ \A i \in 1..Len(jobs) : jobs'[i] = IF i = j THEN row ELSE jobs[i]
    BY ExceptSeq DEF JobsFine, Numbers
  <1>2. Numbers' = Numbers
    BY <1>1 DEF Numbers
  <1>3. \A i \in Numbers : jobs'[i] = IF i = j THEN row ELSE jobs[i]
    BY <1>1 DEF Numbers
  <1>4. ASSUME NEW i \in Numbers, jobs'[i].status # "failed"
        PROVE  jobs'[i].tries < MaxRetries
    BY <1>3, <1>4 DEF JobsFine
  <1> QED BY <1>1, <1>2, <1>3, <1>4 DEF JobsFine

\* The status of a job is set.
LEMMA JobSet ==
    ASSUME JobsFine, NEW j \in Numbers, NEW status \in JobStatuses,
           status = "failed" \/ jobs[j].status # "failed", SetJob(j, status)
    PROVE  /\ JobsFine'
           /\ Numbers' = Numbers
           /\ \A i \in Numbers : /\ jobs'[i].text = jobs[i].text
                                 /\ i # j => jobs'[i] = jobs[i]
           /\ jobs'[j].status = status
  <1> DEFINE row == [jobs[j] EXCEPT !.status = status]
  <1>1. jobs[j] \in Jobs
    BY JobRow
  <1>2. row \in Jobs /\ row.text = jobs[j].text /\ row.status = status
        /\ row.tries = jobs[j].tries
    BY <1>1 DEF Jobs
  <1>3. row.status # "failed" => row.tries < MaxRetries
    BY <1>2 DEF JobsFine
  <1>4. jobs' = [jobs EXCEPT ![j] = row]
    BY DEF SetJob
  <1> HIDE DEF row
  <1>5. /\ JobsFine'
        /\ Numbers' = Numbers
        /\ \A i \in Numbers : jobs'[i] = IF i = j THEN row ELSE jobs[i]
    BY <1>2, <1>3, <1>4, JobReplaced
  <1> QED BY <1>2, <1>5

\* The status and the tries of a job are set.
LEMMA JobTried ==
    ASSUME JobsFine, NEW j \in Numbers, NEW status \in JobStatuses,
           NEW tries \in 0..MaxRetries, status = "failed" \/ tries < MaxRetries
    PROVE  \/ jobs' = [jobs EXCEPT ![j].tries = tries, ![j].status = status]
           \/ jobs' = [jobs EXCEPT ![j].status = status, ![j].tries = tries]
           => /\ JobsFine'
              /\ Numbers' = Numbers
              /\ \A i \in Numbers : /\ jobs'[i].text = jobs[i].text
                                    /\ i # j => jobs'[i] = jobs[i]
              /\ jobs'[j].status = status
  <1>0. SUFFICES ASSUME \/ jobs' = [jobs EXCEPT ![j].tries = tries, ![j].status = status]
                        \/ jobs' = [jobs EXCEPT ![j].status = status, ![j].tries = tries]
                 PROVE  /\ JobsFine'
                        /\ Numbers' = Numbers
                        /\ \A i \in Numbers : /\ jobs'[i].text = jobs[i].text
                                              /\ i # j => jobs'[i] = jobs[i]
                        /\ jobs'[j].status = status
    OBVIOUS
  <1>1. jobs[j] \in Jobs
    BY JobRow
  <1>2. ASSUME NEW old \in Jobs
        PROVE  /\ [old EXCEPT !.tries = tries] \in Jobs
               /\ [old EXCEPT !.status = status] \in Jobs
               /\ [old EXCEPT !.tries = tries].tries = tries
               /\ [old EXCEPT !.tries = tries].status = old.status
               /\ [old EXCEPT !.tries = tries].text = old.text
               /\ [old EXCEPT !.status = status].status = status
               /\ [old EXCEPT !.status = status].tries = old.tries
               /\ [old EXCEPT !.status = status].text = old.text
    BY DEF Jobs
  <1>3. jobs \in [1..Len(jobs) -> Jobs] /\ j \in 1..Len(jobs)
    BY LenProperties DEF JobsFine, Numbers
  <1> DEFINE one == [[jobs[j] EXCEPT !.tries = tries] EXCEPT !.status = status]
             other == [[jobs[j] EXCEPT !.status = status] EXCEPT !.tries = tries]
  <1>4. jobs' = [jobs EXCEPT ![j] = one] \/ jobs' = [jobs EXCEPT ![j] = other]
    BY <1>0, <1>3
  <1>5. /\ one \in Jobs /\ other \in Jobs
        /\ one.status = status /\ other.status = status
        /\ one.tries = tries /\ other.tries = tries
        /\ one.text = jobs[j].text /\ other.text = jobs[j].text
    BY <1>1, <1>2
  <1> HIDE DEF one, other
  <1>6. PICK row \in Jobs : /\ jobs' = [jobs EXCEPT ![j] = row]
                            /\ row.status = status
                            /\ row.tries = tries
                            /\ row.text = jobs[j].text
    BY <1>4, <1>5
  <1>7. row.status # "failed" => row.tries < MaxRetries
    BY <1>6
  <1>8. /\ JobsFine'
        /\ Numbers' = Numbers
        /\ \A i \in Numbers : jobs'[i] = IF i = j THEN row ELSE jobs[i]
    BY <1>6, <1>7, JobReplaced
  <1> QED BY <1>6, <1>8

-----------------------------------------------------------------------------
(* Types.                                                                  *)

\* What a step leaves alone is as well formed as before, as long as no job
\* disappears and the job the worker has claimed keeps its status.
LEMMA Kept ==
    ASSUME Typing, Numbers \subseteq Numbers'
    PROVE  /\ UNCHANGED <<isName, source, cache, reader>> => WellFormed'
           /\ UNCHANGED record => RecordFine'
           /\ UNCHANGED edit => EditsFine'
           /\ UNCHANGED <<queue, timers>> => WaitingFine'
           /\ UNCHANGED worker /\ (worker.step \in Busy =>
                  jobs'[worker.job].status = jobs[worker.job].status) => WorkerFine'
  <1>1. UNCHANGED <<isName, source, cache, reader>> => WellFormed'
    BY DEF Typing, WellFormed
  <1>2. UNCHANGED record => RecordFine'
    BY DEF Typing, RecordFine
  <1>3. UNCHANGED edit => EditsFine'
    BY DEF Typing, EditsFine
  <1>4. UNCHANGED <<queue, timers>> => WaitingFine'
    BY DEF Typing, WaitingFine
  <1>5. UNCHANGED worker /\ (worker.step \in Busy =>
            jobs'[worker.job].status = jobs[worker.job].status) => WorkerFine'
    BY DEF Typing, WorkerFine
  <1> QED BY <1>1, <1>2, <1>3, <1>4, <1>5

LEMMA JobsKept ==
    ASSUME Typing, UNCHANGED jobs
    PROVE  Numbers' = Numbers /\ JobsFine'
    BY DEF Typing, JobsFine, Numbers

\* The worker goes on with its job.
LEMMA WorkerGoesOn ==
    ASSUME Typing, worker # Idle, NEW step \in WorkerSteps, Proceed(step),
           Numbers' = Numbers,
           step \in Busy => jobs'[worker.job].status \in {"processing", "completed"}
    PROVE  WorkerFine'
  <1>1. worker \in [step : WorkerSteps, job : JobIds]
    BY DEF Typing, WorkerFine
  <1>2. worker' = [worker EXCEPT !.step = step]
    BY DEF Proceed
  <1>3. /\ worker' \in [step : WorkerSteps, job : JobIds]
        /\ worker'.job = worker.job
        /\ worker'.step = step
    BY <1>1, <1>2
  <1>4. worker.job \in Numbers
    BY DEF Typing, WorkerFine
  <1> QED BY <1>3, <1>4 DEF WorkerFine

LEMMA WorkerRests ==
    ASSUME worker' = Idle
    PROVE  WorkerFine'
    BY DEF WorkerFine, Idle, Busy

\* The worker is at a step, hence at a job.
LEMMA WorkerAt ==
    ASSUME Typing, worker.step # "idle"
    PROVE  /\ worker # Idle
           /\ worker.job \in Numbers
           /\ jobs[worker.job] \in Jobs
  <1>1. worker # Idle /\ worker.job \in Numbers
    BY DEF Typing, WorkerFine, Idle
  <1> QED BY <1>1, JobRow DEF Typing

LEMMA InitTyping == Init => Typing
  <1> SUFFICES ASSUME Init PROVE Typing
    OBVIOUS
  <1> DEFINE row == [text |-> 0, status |-> "completed", tries |-> 0]
  <1>1. row \in Jobs
    BY Bounds DEF Jobs, JobStatuses
  <1>2. jobs = <<row>> /\ source = 0
    BY DEF Init
  <1>3. jobs \in Seq(Jobs) /\ Len(jobs) = 1 /\ jobs[1] = row
    <2> HIDE DEF row
    <2> QED BY <1>1, <1>2
  <1>4. 1 \in JobIds
    BY Bounds DEF JobIds
  <1>5. Numbers = {1}
    BY <1>3 DEF Numbers
  <1>6. JobsFine
    BY <1>3, <1>4, <1>5, Bounds DEF JobsFine
  <1>7. record \in Records
    BY <1>2, <1>4, Bounds DEF Init, Records, RecordStatuses, Translations
  <1>8. RecordFine
    BY <1>5, <1>7 DEF Init, RecordFine
  <1>9. WellFormed
    BY <1>2, Bounds DEF Init, WellFormed, ReaderStates
  <1>10. EditsFine
    BY DEF Init, EditsFine, EditStates, Idle
  <1>11. WorkerFine /\ WaitingFine
    BY DEF Init, WorkerFine, WaitingFine, Idle, Busy
  <1> QED BY <1>6, <1>8, <1>9, <1>10, <1>11 DEF Typing

\* What an edit, and a reader, holds at each of its steps.
LEMMA EditAt ==
    ASSUME EditsFine, NEW e \in Editors
    PROVE  /\ edit[e].step \in {"idle", "lost", "edited", "queueing", "inserted"}
           /\ edit[e].step = "idle" => edit[e] = Idle
           /\ edit[e].step \in {"edited", "queueing"} => edit[e].text \in Texts
           /\ edit[e].step = "queueing" => edit[e].seen \in Records
           /\ edit[e].step = "inserted" => edit[e].job \in JobIds /\ edit[e].job \in Numbers
  <1>1. edit[e] \in EditStates
    BY DEF EditsFine
  <1>2. edit[e].step = "inserted" => edit[e].job \in Numbers
    BY DEF EditsFine
  <1> QED BY <1>1, <1>2 DEF EditStates, Idle, Lost

LEMMA ReaderAt ==
    ASSUME WellFormed, NEW u \in Readers
    PROVE  reader[u].step \in {"filling", "naming", "storing", "stored"} =>
               reader[u] \in [step : {"filling", "naming", "storing", "stored"},
                              text : Translations]
  <1>1. reader[u] \in ReaderStates
    BY DEF WellFormed
  <1> QED BY <1>1 DEF ReaderStates, Idle

LEMMA EditReplaced ==
    ASSUME EditsFine, NEW e \in Editors, NEW q \in EditStates,
           edit' = [edit EXCEPT ![e] = q], Numbers \subseteq Numbers',
           q.step = "queueing" => q.seen.job \in Numbers',
           q.step = "inserted" => q.job \in Numbers'
    PROVE  EditsFine'
  <1>1. edit' \in [Editors -> EditStates]
    BY DEF EditsFine
  <1>2. \A f \in Editors : edit'[f] = IF f = e THEN q ELSE edit[f]
    BY DEF EditsFine
  <1>3. ASSUME NEW f \in Editors
        PROVE  /\ edit'[f].step = "queueing" => edit'[f].seen.job \in Numbers'
               /\ edit'[f].step = "inserted" => edit'[f].job \in Numbers'
    <2>1. CASE f = e
      BY <1>2, <2>1
    <2>2. CASE f # e
      BY <1>2, <2>2 DEF EditsFine
    <2> QED BY <2>1, <2>2
  <1> QED BY <1>1, <1>3 DEF EditsFine

LEMMA TypingOfEditing == Typing /\ Editing => Typing'
  <1> SUFFICES ASSUME Typing, NEW e \in Editors,
                      (\E text \in Texts : Edit(e, text)) \/ LookUp(e) \/ QueueJob(e)
                          \/ AwaitJob(e) \/ Lose(e)
               PROVE  Typing'
    BY DEF Editing
  <1>1. /\ EditsFine /\ JobsFine /\ RecordFine /\ WellFormed /\ WaitingFine /\ WorkerFine
        /\ Idle \in EditStates /\ Idle.step = "idle"
        /\ Lost \in EditStates /\ Lost.step = "lost"
    BY DEF Typing, EditStates, Idle, Lost
  <1>2. ASSUME NEW text \in Texts, Edit(e, text) PROVE Typing'
    <2> DEFINE q == [step |-> "edited", text |-> text]
    <2>1. q \in EditStates /\ q.step = "edited"
      BY DEF EditStates
    <2>2. Numbers' = Numbers /\ JobsFine'
      BY <1>2, JobsKept DEF Edit
    <2>3. edit' = [edit EXCEPT ![e] = q]
      BY <1>2 DEF Edit
    <2> HIDE DEF q
    <2>4. EditsFine'
      BY <1>1, <2>1, <2>2, <2>3, EditReplaced
    <2>5. WellFormed'
      BY <1>1, <1>2 DEF Edit, WellFormed
    <2>6. RecordFine' /\ WaitingFine' /\ WorkerFine'
      BY <1>2, <2>2, Kept DEF Edit
    <2> QED BY <2>2, <2>4, <2>5, <2>6 DEF Typing
  <1>3. CASE LookUp(e)
    <2> DEFINE q == IF record.status = "approved" THEN Idle
                    ELSE [step |-> "queueing", text |-> edit[e].text, seen |-> record]
    <2>1. edit[e].text \in Texts /\ record \in Records /\ record.job \in Numbers
      BY <1>1, <1>3, EditAt DEF LookUp, RecordFine
    <2>2. /\ q \in EditStates
          /\ q.step = "queueing" => q.seen.job \in Numbers
          /\ q.step # "inserted"
      BY <1>1, <2>1 DEF EditStates
    <2>3. Numbers' = Numbers /\ JobsFine'
      BY <1>3, JobsKept DEF LookUp
    <2>4. edit' = [edit EXCEPT ![e] = q]
      BY <1>3 DEF LookUp
    <2> HIDE DEF q
    <2>5. EditsFine'
      BY <1>1, <2>2, <2>3, <2>4, EditReplaced
    <2>6. WellFormed' /\ RecordFine' /\ WaitingFine' /\ WorkerFine'
      BY <1>3, <2>3, Kept DEF LookUp
    <2> QED BY <2>3, <2>5, <2>6 DEF Typing
  <1>4. CASE QueueJob(e)
    <2>1. CASE Covers(edit[e].seen.job, edit[e].text)
      <3>1. edit' = [edit EXCEPT ![e] = Idle] /\ UNCHANGED <<jobs, cache>>
        BY <1>4, <2>1 DEF QueueJob
      <3>2. Numbers' = Numbers /\ JobsFine'
        BY <3>1, JobsKept
      <3>3. EditsFine'
        BY <1>1, <3>1, <3>2, EditReplaced
      <3>4. WellFormed' /\ RecordFine' /\ WaitingFine' /\ WorkerFine'
        BY <1>4, <3>1, <3>2, Kept DEF QueueJob
      <3> QED BY <3>2, <3>3, <3>4 DEF Typing
    <2>2. CASE ~Covers(edit[e].seen.job, edit[e].text)
      <3> DEFINE row == [text |-> edit[e].text, status |-> "pending", tries |-> 0]
                 q == [step |-> "inserted", job |-> Len(jobs) + 1]
      <3>1. /\ Len(jobs) < MaxJobs /\ cache' = NoText
            /\ jobs' = Append(jobs, row)
            /\ edit' = [edit EXCEPT ![e] = q]
        BY <1>4, <2>2 DEF QueueJob
      <3>2. /\ row \in Jobs /\ row.status = "pending" /\ row.tries = 0
            /\ row.text = edit[e].text
        <4>1. edit[e].text \in Texts
          BY <1>1, <1>4, EditAt DEF QueueJob
        <4> QED BY <4>1, Bounds DEF Jobs, JobStatuses
      <3>3. jobs \in Seq(Jobs) /\ Len(jobs) \in Nat /\ MaxJobs \in Nat
        BY <1>1, LenProperties, Bounds DEF JobsFine
      <3>4. q.step = "inserted" /\ q.job = Len(jobs) + 1
        OBVIOUS
      <3>5. Len(jobs) + 1 \in JobIds
        BY <3>1, <3>3 DEF JobIds
      <3>6. q \in EditStates
        BY <3>5 DEF EditStates
      <3> HIDE DEF row, q
      <3>7. /\ jobs' \in Seq(Jobs) /\ Len(jobs') = Len(jobs) + 1
            /\ \A i \in 1..Len(jobs) : jobs'[i] = jobs[i]
            /\ jobs'[Len(jobs) + 1] = row
        BY <3>1, <3>2, <3>3, AppendProperties
      <3>8. Numbers' = Numbers \cup {Len(jobs) + 1}
        BY <3>3, <3>7 DEF Numbers
      <3>9. \A i \in Numbers' : jobs'[i].status # "failed" => jobs'[i].tries < MaxRetries
        <4>1. ASSUME NEW i \in Numbers, jobs'[i].status # "failed"
              PROVE  jobs'[i].tries < MaxRetries
          BY <1>1, <3>7, <4>1 DEF JobsFine, Numbers
        <4>2. jobs'[Len(jobs) + 1].tries < MaxRetries
          BY <3>2, <3>7, Bounds
        <4> QED BY <3>8, <4>1, <4>2
      <3>10. JobsFine'
        BY <3>5, <3>7, <3>9 DEF JobsFine, JobIds
      <3>11. EditsFine'
        BY <1>1, <3>1, <3>4, <3>6, <3>8, EditReplaced
      <3>12. WellFormed'
        BY <1>1, <1>4, <3>1 DEF QueueJob, WellFormed
      <3>13. RecordFine' /\ WaitingFine'
        BY <1>4, <3>8, Kept DEF QueueJob
      <3>14. WorkerFine'
        <4>1. worker.step \in Busy => worker.job \in Numbers
          BY WorkerAt DEF Busy
        <4>2. worker.step \in Busy => jobs'[worker.job].status = jobs[worker.job].status
          BY <3>7, <4>1 DEF Numbers
        <4> QED BY <1>4, <3>8, <4>2, Kept DEF QueueJob
      <3> QED BY <3>10, <3>11, <3>12, <3>13, <3>14 DEF Typing
    <2> QED BY <2>1, <2>2
  <1>5. CASE AwaitJob(e)
    <2>1. edit[e].job \in Numbers /\ edit[e].job \in JobIds
      BY <1>1, <1>5, EditAt DEF AwaitJob
    <2>2. Numbers' = Numbers /\ JobsFine'
      BY <1>5, JobsKept DEF AwaitJob
    <2>3. EditsFine'
      BY <1>1, <1>5, <2>2, EditReplaced DEF AwaitJob
    <2>4. RecordFine'
      BY <1>1, <1>5, <2>1, <2>2 DEF AwaitJob, RecordFine, Records, RecordStatuses
    <2>5. WaitingFine'
      BY <1>1, <1>5, <2>1, <2>2 DEF AwaitJob, WaitingFine
    <2>6. WellFormed' /\ WorkerFine'
      BY <1>5, <2>2, Kept DEF AwaitJob
    <2> QED BY <2>2, <2>3, <2>4, <2>5, <2>6 DEF Typing
  <1>6. CASE Lose(e)
    <2>1. Numbers' = Numbers /\ JobsFine'
      BY <1>6, JobsKept DEF Lose
    <2>2. EditsFine'
      BY <1>1, <1>6, <2>1, EditReplaced DEF Lose
    <2>3. WellFormed' /\ RecordFine' /\ WaitingFine' /\ WorkerFine'
      BY <1>6, <2>1, Kept DEF Lose
    <2> QED BY <2>1, <2>2, <2>3 DEF Typing
  <1> QED BY <1>2, <1>3, <1>4, <1>5, <1>6

LEMMA TypingOfReading == Typing /\ Reading => Typing'
  <1> SUFFICES ASSUME Typing, NEW u \in Readers,
                      ReadRecord(u) \/ FillCache(u) \/ TranslateName(u) \/ LookUpName(u)
                          \/ StoreName(u) \/ BeginOverride(u) \/ Override(u)
                          \/ CacheOverride(u)
               PROVE  Typing'
    BY DEF Reading
  <1>1. WellFormed /\ RecordFine /\ record \in Records /\ record.text \in Translations
    BY DEF Typing, RecordFine, Records
  <1>2. Numbers' = Numbers /\ JobsFine'
    BY JobsKept DEF ReadRecord, FillCache, TranslateName, LookUpName, StoreName,
                    BeginOverride, Override, CacheOverride
  <1>3. EditsFine' /\ WorkerFine' /\ WaitingFine'
    <2>1. UNCHANGED <<edit, worker, queue, timers, jobs>>
      BY DEF ReadRecord, FillCache, TranslateName, LookUpName, StoreName,
             BeginOverride, Override, CacheOverride
    <2> QED BY <1>2, <2>1, Kept
  <1>4. WellFormed'
    <2>1. ASSUME NEW q \in ReaderStates, reader' = [reader EXCEPT ![u] = q]
          PROVE  reader' \in [Readers -> ReaderStates]
      BY <1>1, <2>1 DEF WellFormed
    <2>2. ASSUME NEW step \in {"filling", "naming", "storing", "stored"},
                 NEW text \in Translations
          PROVE  [step |-> step, text |-> text] \in ReaderStates
      BY DEF ReaderStates
    <2>3. /\ Idle \in ReaderStates
          /\ [step |-> "correcting"] \in ReaderStates
          /\ [step |-> "corrected"] \in ReaderStates
      BY DEF ReaderStates
    <2>4. source \in Translations /\ Manual \in Translations
      BY <1>1 DEF WellFormed, Translations
    <2>5. CASE ReadRecord(u)
      BY <1>1, <2>1, <2>2, <2>5 DEF ReadRecord, WellFormed
    <2>6. CASE FillCache(u)
      <3>1. reader[u].text \in Translations
        BY <1>1, <2>6, ReaderAt DEF FillCache
      <3> QED BY <1>1, <2>1, <2>3, <2>6, <3>1 DEF FillCache, WellFormed
    <2>7. CASE TranslateName(u)
      BY <1>1, <2>1, <2>2, <2>4, <2>7 DEF TranslateName, WellFormed
    <2>8. CASE LookUpName(u)
      <3>1. reader[u].text \in Translations
        BY <1>1, <2>8, ReaderAt DEF LookUpName
      <3> DEFINE q == IF record.status = "approved"
                      THEN [step |-> "filling", text |-> record.text]
                      ELSE IF record.status = "completed" /\ record.text = reader[u].text
                           THEN [step |-> "filling", text |-> record.text]
                           ELSE [step |-> "storing", text |-> reader[u].text]
      <3>2. q \in ReaderStates
        BY <1>1, <2>2, <3>1
      <3>3. reader' = [reader EXCEPT ![u] = q]
        BY <2>8 DEF LookUpName
      <3> HIDE DEF q
      <3> QED BY <1>1, <2>1, <2>8, <3>2, <3>3 DEF LookUpName, WellFormed
    <2>9. CASE StoreName(u)
      <3>1. reader[u] \in [step : {"filling", "naming", "storing", "stored"},
                           text : Translations]
        BY <1>1, <2>9, ReaderAt DEF StoreName
      <3>2. [reader[u] EXCEPT !.step = "stored"] \in ReaderStates
        BY <3>1 DEF ReaderStates
      <3>3. reader' = [reader EXCEPT ![u] = [reader[u] EXCEPT !.step = "stored"]]
        BY <2>9 DEF StoreName
      <3> QED BY <1>1, <2>1, <2>9, <3>2, <3>3 DEF StoreName, WellFormed
    <2>10. CASE BeginOverride(u)
      BY <1>1, <2>1, <2>3, <2>10 DEF BeginOverride, WellFormed
    <2>11. CASE Override(u)
      BY <1>1, <2>1, <2>3, <2>11 DEF Override, WellFormed
    <2>12. CASE CacheOverride(u)
      BY <1>1, <2>1, <2>3, <2>4, <2>12 DEF CacheOverride, WellFormed
    <2> QED BY <2>5, <2>6, <2>7, <2>8, <2>9, <2>10, <2>11, <2>12
  <1>5. RecordFine'
    <2>1. CASE StoreName(u)
      <3>1. reader[u].text \in Translations
        BY <1>1, <2>1, ReaderAt DEF StoreName
      <3> QED BY <1>1, <1>2, <2>1, <3>1 DEF StoreName, RecordFine, Records, RecordStatuses
    <2>2. CASE Override(u)
      BY <1>1, <1>2, <2>2 DEF Override, RecordFine, Records, RecordStatuses, Translations
    <2>3. CASE ~StoreName(u) /\ ~Override(u)
      <3>1. UNCHANGED record
        BY <2>3 DEF ReadRecord, FillCache, TranslateName, LookUpName, BeginOverride,
                    CacheOverride
      <3> QED BY <1>2, <3>1, Kept
    <2> QED BY <2>1, <2>2, <2>3
  <1> QED BY <1>2, <1>3, <1>4, <1>5 DEF Typing

LEMMA TypingOfWorker == Typing /\ WorkerStep => Typing'
  <1> SUFFICES ASSUME Typing, WorkerStep PROVE Typing'
    OBVIOUS
  <1> DEFINE j == worker.job
  <1>1. JobsFine /\ RecordFine /\ WorkerFine /\ WaitingFine /\ WellFormed
    BY DEF Typing
  <1>2. ASSUME NEW i \in JobIds, Take(i) PROVE Typing'
    <2>1. Numbers' = Numbers /\ JobsFine'
      BY <1>2, JobsKept DEF Take
    <2>2. i \in Numbers
      BY <1>1, <1>2 DEF Take, WaitingFine
    <2>3. WorkerFine'
      <3>1. CASE worker' = Idle
        BY <3>1, WorkerRests
      <3>2. CASE worker' = [step |-> "candidate", job |-> i]
        <4>1. /\ worker' \in [step : WorkerSteps, job : JobIds]
              /\ worker'.job = i /\ worker'.step = "candidate"
          BY <3>2 DEF WorkerSteps
        <4> QED BY <2>1, <2>2, <4>1 DEF WorkerFine, Busy
      <3> QED BY <1>2, <3>1, <3>2 DEF Take
    <2>4. WaitingFine'
      BY <1>1, <1>2, <2>1 DEF Take, WaitingFine
    <2>5. WellFormed' /\ RecordFine' /\ EditsFine'
      BY <1>2, <2>1, Kept DEF Take
    <2> QED BY <2>1, <2>3, <2>4, <2>5 DEF Typing
  <1>3. CASE CheckRecord \/ ReadForSave \/ Translate \/ FailSave
    <2>1. UNCHANGED <<isName, source, record, jobs, cache, edit, reader, queue, timers>>
      BY <1>3 DEF CheckRecord, ReadForSave, Translate, FailSave
    <2>2. Numbers' = Numbers /\ JobsFine'
      BY <2>1, JobsKept
    <2>3. /\ worker # Idle
          /\ worker.step \in Busy => jobs'[j].status \in {"processing", "completed"}
      BY <1>1, <1>3, <2>1, WorkerAt
         DEF CheckRecord, ReadForSave, Translate, FailSave, Working, WorkerFine
    <2>4. \/ worker' = Idle
          \/ worker.step \in Busy /\ \E step \in WorkerSteps : Proceed(step)
          \/ Proceed("claiming")
      BY <1>3 DEF CheckRecord, ReadForSave, Translate, FailSave, Working, Busy, WorkerSteps
    <2>5. "claiming" \in WorkerSteps \ Busy
      BY DEF WorkerSteps, Busy
    <2> HIDE DEF j
    <2>6. WorkerFine'
      <3>1. CASE worker.step \in Busy /\ \E step \in WorkerSteps : Proceed(step)
        BY <2>2, <2>3, <3>1, WorkerGoesOn DEF j
      <3>2. CASE Proceed("claiming")
        BY <2>2, <2>3, <2>5, <3>2, WorkerGoesOn
      <3> QED BY <2>4, <3>1, <3>2, WorkerRests
    <2>7. WellFormed' /\ RecordFine' /\ EditsFine' /\ WaitingFine'
      BY <2>1, <2>2, Kept
    <2> QED BY <2>2, <2>6, <2>7 DEF Typing
  <1>4. CASE Claim
    <2>1. worker # Idle /\ j \in Numbers
      BY <1>4, WorkerAt DEF Claim, Working
    <2>2. CASE jobs[j].status = "pending"
      <3>1. SetJob(j, "processing") /\ Proceed("translating")
        BY <1>4, <2>2 DEF Claim
      <3>2. JobsFine' /\ Numbers' = Numbers /\ jobs'[j].status = "processing"
        BY <1>1, <2>1, <2>2, <3>1, JobSet DEF JobStatuses
      <3>3. WorkerFine'
        BY <2>1, <3>1, <3>2, WorkerGoesOn DEF WorkerSteps
      <3>4. WellFormed' /\ RecordFine' /\ EditsFine' /\ WaitingFine'
        BY <1>4, <3>2, Kept DEF Claim
      <3> QED BY <3>2, <3>3, <3>4 DEF Typing
    <2>3. CASE jobs[j].status # "pending"
      <3>1. worker' = Idle /\ UNCHANGED jobs
        BY <1>4, <2>3 DEF Claim
      <3>2. JobsFine' /\ Numbers' = Numbers
        BY <3>1, JobsKept
      <3>3. WellFormed' /\ RecordFine' /\ EditsFine' /\ WaitingFine'
        BY <1>4, <3>2, Kept DEF Claim
      <3> QED BY <3>1, <3>2, <3>3, WorkerRests DEF Typing
    <2> QED BY <2>2, <2>3
  <1>5. CASE CompleteJob
    <2>1. worker # Idle /\ j \in Numbers
      BY <1>5, WorkerAt DEF CompleteJob, Working
    <2>2. jobs[j].status # "failed"
      BY <1>1, <1>5 DEF CompleteJob, Working, WorkerFine, Busy
    <2>3. JobsFine' /\ Numbers' = Numbers /\ jobs'[j].status = "completed"
      BY <1>1, <1>5, <2>1, <2>2, JobSet DEF JobStatuses, CompleteJob
    <2>4. WorkerFine'
      BY <1>5, <2>1, <2>3, WorkerGoesOn DEF CompleteJob, WorkerSteps
    <2>5. WellFormed' /\ RecordFine' /\ EditsFine' /\ WaitingFine'
      BY <1>5, <2>3, Kept DEF CompleteJob
    <2> QED BY <2>3, <2>4, <2>5 DEF Typing
  <1>6. CASE WriteRecord
    <2>1. worker # Idle /\ jobs[j] \in Jobs
      BY <1>6, WorkerAt DEF WriteRecord, Working
    <2>2. Numbers' = Numbers /\ JobsFine'
      BY <1>6, JobsKept DEF WriteRecord
    <2>3. "written" \in WorkerSteps /\ jobs'[j].status \in {"processing", "completed"}
      BY <1>1, <1>6 DEF WorkerSteps, Busy, WorkerFine, WriteRecord, Working
    <2>4. WorkerFine'
      BY <1>6, <2>1, <2>2, <2>3, WorkerGoesOn, WorkerRests DEF WriteRecord
    <2>5. RecordFine'
      <3>1. CASE UNCHANGED record
        BY <2>2, <3>1, Kept
      <3>2. CASE record' = [record EXCEPT !.status = "completed", !.text = jobs[j].text]
        <4>1. jobs[j].text \in Translations
          BY <2>1 DEF Jobs, Translations
        <4> QED BY <1>1, <2>2, <3>2, <4>1 DEF RecordFine, Records, RecordStatuses
      <3> QED BY <1>6, <3>1, <3>2 DEF WriteRecord
    <2>6. WellFormed' /\ EditsFine' /\ WaitingFine'
      BY <1>6, <2>2, Kept DEF WriteRecord
    <2> QED BY <2>2, <2>4, <2>5, <2>6 DEF Typing
  <1>7. CASE CacheSaved
    <2>1. jobs[j].text \in Translations
      <3>1. jobs[j] \in Jobs
        BY <1>7, WorkerAt DEF CacheSaved, Working
      <3> QED BY <3>1 DEF Jobs, Translations
    <2>2. Numbers' = Numbers /\ JobsFine'
      BY <1>7, JobsKept DEF CacheSaved
    <2>3. WellFormed' /\ WorkerFine'
      BY <1>1, <1>7, <2>1, WorkerRests DEF CacheSaved, WellFormed
    <2>4. RecordFine' /\ EditsFine' /\ WaitingFine'
      BY <1>7, <2>2, Kept DEF CacheSaved
    <2> QED BY <2>2, <2>3, <2>4 DEF Typing
  <1>8. CASE FailJob
    <2> DEFINE tries == jobs[j].tries + 1
               status == IF tries >= MaxRetries THEN "failed" ELSE "pending"
    <2>1. worker # Idle /\ j \in Numbers /\ jobs[j] \in Jobs
      BY <1>8, WorkerAt DEF FailJob, Working
    <2>2. jobs[j].status # "failed"
      BY <1>1, <1>8 DEF FailJob, Working, WorkerFine, Busy
    <2>3. jobs[j].tries \in Nat /\ jobs[j].tries < MaxRetries /\ MaxRetries \in Nat
      BY <1>1, <2>1, <2>2, Bounds DEF JobsFine, Jobs
    <2>4. tries \in 0..MaxRetries /\ (status = "failed" \/ tries < MaxRetries)
      BY <2>3
    <2>5. status \in JobStatuses
      BY DEF JobStatuses
    <2>6. jobs' = [jobs EXCEPT ![j].tries = tries, ![j].status = status]
      BY <1>8 DEF FailJob
    <2> HIDE DEF tries, status, j
    <2>7. JobsFine' /\ Numbers' = Numbers
      BY <1>1, <2>1, <2>4, <2>5, <2>6, JobTried
    <2>8. "failed" \in WorkerSteps \ Busy
      BY DEF WorkerSteps, Busy
    <2>9. WorkerFine'
      BY <1>8, <2>1, <2>7, <2>8, WorkerGoesOn DEF FailJob
    <2>10. WellFormed' /\ RecordFine' /\ EditsFine' /\ WaitingFine'
      BY <1>8, <2>7, Kept DEF FailJob
    <2> QED BY <2>7, <2>9, <2>10 DEF Typing
  <1>9. CASE FailRecord
    <2>1. j \in Numbers
      BY <1>9, WorkerAt DEF FailRecord, Working
    <2>2. Numbers' = Numbers /\ JobsFine'
      BY <1>9, JobsKept DEF FailRecord
    <2>3. RecordFine'
      <3>1. \/ UNCHANGED record
            \/ record' = [record EXCEPT !.status = "failed"]
            \/ record' = [record EXCEPT !.status = "pending"]
        BY <1>9 DEF FailRecord
      <3> QED BY <1>1, <2>2, <3>1 DEF RecordFine, Records, RecordStatuses
    <2>4. WaitingFine' /\ WorkerFine'
      BY <1>1, <1>9, <2>1, <2>2, WorkerRests DEF FailRecord, WaitingFine
    <2>5. WellFormed' /\ EditsFine'
      BY <1>9, <2>2, Kept DEF FailRecord
    <2> QED BY <2>2, <2>3, <2>4, <2>5 DEF Typing
  <1>10. CASE BreakOff
    <2>1. Numbers' = Numbers /\ JobsFine'
      BY <1>10, JobsKept DEF BreakOff
    <2>2. WorkerFine'
      BY <1>10, WorkerRests DEF BreakOff
    <2>3. WellFormed' /\ RecordFine' /\ EditsFine' /\ WaitingFine'
      BY <1>10, <2>1, Kept DEF BreakOff
    <2> QED BY <2>1, <2>2, <2>3 DEF Typing
  <1> QED
    BY <1>2, <1>3, <1>4, <1>5, <1>6, <1>7, <1>8, <1>9, <1>10 DEF WorkerStep

\* Recovery and retrying by hand leave the job alone that the worker has.
LEMMA Restarted ==
    ASSUME Typing, Recover \/ RetryFailed
    PROVE  /\ JobsFine' /\ Numbers' = Numbers
           /\ \A i \in Numbers : jobs'[i].text = jobs[i].text
           /\ worker.step \in Busy => jobs'[worker.job].status = jobs[worker.job].status
  <1> DEFINE j == record.job
  <1>1. JobsFine /\ WorkerFine /\ j \in Numbers
    BY DEF Typing, RecordFine
  <1>2. worker.step \in Busy => worker.job \in Numbers
    BY WorkerAt DEF Busy
  <1>3. CASE Recover
    <2>1. jobs[j].status # "failed" /\ SetJob(j, "pending")
      BY <1>3 DEF Recover
    <2>2. /\ JobsFine' /\ Numbers' = Numbers
          /\ \A i \in Numbers : /\ jobs'[i].text = jobs[i].text
                                /\ i # j => jobs'[i] = jobs[i]
          /\ jobs'[j].status = "pending"
      BY <1>1, <2>1, JobSet DEF JobStatuses
    <2>3. worker.step \in Busy /\ worker.job = j => jobs[j].status = "pending"
      BY <1>1, <1>3 DEF Recover, Busy, Idle
    <2> QED BY <1>2, <2>2, <2>3
  <1>4. CASE RetryFailed
    <2>1. 0 \in 0..MaxRetries /\ 0 < MaxRetries /\ "pending" \in JobStatuses
      BY Bounds DEF JobStatuses
    <2>2. jobs[j].status = "failed"
          /\ jobs' = [jobs EXCEPT ![j].status = "pending", ![j].tries = 0]
      BY <1>4 DEF RetryFailed
    <2>3. /\ JobsFine' /\ Numbers' = Numbers
          /\ \A i \in Numbers : /\ jobs'[i].text = jobs[i].text
                                /\ i # j => jobs'[i] = jobs[i]
      BY <1>1, <2>1, <2>2, JobTried
    <2>4. worker.step \in Busy => worker.job # j
      BY <1>1, <2>2 DEF WorkerFine
    <2> QED BY <1>2, <2>3, <2>4
  <1> QED BY <1>3, <1>4

LEMMA TypingStep == Typing /\ [Next]_vars => Typing'
  <1> SUFFICES ASSUME Typing, [Next]_vars PROVE Typing'
    OBVIOUS
  <1>1. JobsFine /\ RecordFine /\ WaitingFine /\ WellFormed
    BY DEF Typing
  <1>2. ASSUME NEW j \in JobIds, Timer(j) PROVE Typing'
    <2>1. Numbers' = Numbers /\ JobsFine'
      BY <1>2, JobsKept DEF Timer
    <2>2. WaitingFine'
      BY <1>1, <1>2, <2>1 DEF Timer, WaitingFine
    <2>3. WellFormed' /\ RecordFine' /\ EditsFine' /\ WorkerFine'
      BY <1>2, <2>1, Kept DEF Timer
    <2> QED BY <2>1, <2>2, <2>3 DEF Typing
  <1>3. CASE Recover \/ RetryFailed
    <2>1. record.job \in Numbers
      BY <1>1 DEF RecordFine
    <2>2. /\ JobsFine' /\ Numbers' = Numbers
          /\ worker.step \in Busy => jobs'[worker.job].status = jobs[worker.job].status
      BY <1>3, Restarted
    <2>3. WaitingFine'
      BY <1>1, <1>3, <2>1, <2>2 DEF Recover, RetryFailed, WaitingFine
    <2>4. RecordFine'
      <3>1. UNCHANGED record \/ record' = [record EXCEPT !.status = "pending"]
        BY <1>3 DEF Recover, RetryFailed
      <3> QED BY <1>1, <2>2, <3>1 DEF RecordFine, Records, RecordStatuses
    <2>5. UNCHANGED <<isName, source, cache, reader, edit, worker>>
      BY <1>3 DEF Recover, RetryFailed
    <2>6. WellFormed' /\ EditsFine' /\ WorkerFine'
      BY <2>2, <2>5, Kept
    <2> QED BY <2>2, <2>3, <2>4, <2>6 DEF Typing
  <1>4. CASE Expire
    <2>1. Numbers' = Numbers /\ JobsFine'
      BY <1>4, JobsKept DEF Expire
    <2>2. WellFormed'
      BY <1>1, <1>4 DEF Expire, WellFormed
    <2>3. RecordFine' /\ EditsFine' /\ WorkerFine' /\ WaitingFine'
      BY <1>4, <2>1, Kept DEF Expire
    <2> QED BY <2>1, <2>2, <2>3 DEF Typing
  <1>5. CASE Crash
    <2>1. Numbers' = Numbers /\ JobsFine'
      BY <1>5, JobsKept DEF Crash
    <2>3. WellFormed'
      BY <1>1, <1>5 DEF Crash, WellFormed, ReaderStates
    <2>4. EditsFine'
      BY <1>5 DEF Crash, EditsFine, EditStates, Idle, Lost
    <2>5. WorkerFine' /\ WaitingFine'
      BY <1>5, WorkerRests DEF Crash, WaitingFine
    <2>6. RecordFine'
      BY <1>5, <2>1, Kept DEF Crash
    <2> QED BY <2>1, <2>3, <2>4, <2>5, <2>6 DEF Typing
  <1>6. CASE UNCHANGED vars
    <2>1. Numbers' = Numbers /\ JobsFine'
      BY <1>6, JobsKept DEF vars
    <2> QED BY <1>6, <2>1, Kept DEF vars, Typing
  <1> QED
    BY <1>2, <1>3, <1>4, <1>5, <1>6, TypingOfEditing, TypingOfReading, TypingOfWorker
       DEF Next

\* Every row, request and reference stays one the code may write, for any
\* number of edits, readers, jobs, failures and restarts; in particular no job is tried
\* more often than its bound, whatever retries and recoveries overlap.
THEOREM TypeCorrect == Spec => []TypeOK
  <1>1. Typing => TypeOK
    <2> SUFFICES ASSUME Typing PROVE TypeOK
      OBVIOUS
    <2>1. Numbers \subseteq JobIds
      BY JobRow DEF Typing
    <2> QED
      BY <2>1 DEF Typing, TypeOK, WellFormed, RecordFine, JobsFine, EditsFine, WorkerFine,
                  WaitingFine, Jobs, EditStates, ReaderStates, WorkerSteps
  <1> QED BY <1>1, InitTyping, TypingStep, PTL DEF Spec


-----------------------------------------------------------------------------
(* Approved translations.                                                  *)

\* The worker's writes of the record, and its report of a failure, look at
\* the record in the statement that writes it, and every other step of the
\* worker leaves the record alone: a translation approved at any time, between
\* any two statements of a save, is not undone by a job.
THEOREM JobsLeaveApproved == Spec => JobsRespectApproval
  <1> DEFINE Respect == record.status = "approved" /\ record' # record => worker' = worker
  <1>1. ASSUME [Next]_vars PROVE [Respect]_vars
    <2> SUFFICES ASSUME record.status = "approved", record' # record, Next
                 PROVE  UNCHANGED worker
      BY <1>1
    <2>1. \A j : ~Processable(j)
      BY DEF Processable, Final
    <2>2. CASE Editing
      BY <2>2 DEF Editing, Edit, LookUp, QueueJob, AwaitJob, Lose
    <2>3. CASE Reading
      BY <2>3 DEF Reading, ReadRecord, FillCache, TranslateName, LookUpName, StoreName,
                  BeginOverride, Override, CacheOverride
    <2>4. CASE WorkerStep
      <3>1. UNCHANGED record
        BY <2>1, <2>4
           DEF WorkerStep, Take, CheckRecord, Claim, Translate, CompleteJob, ReadForSave,
               WriteRecord, CacheSaved, FailSave, FailJob, FailRecord, BreakOff
      <3> QED BY <3>1
    <2> QED
      BY <2>2, <2>3, <2>4 DEF Next, Timer, Recover, RetryFailed, Expire, Crash
  <1> QED BY <1>1, PTL DEF Spec, JobsRespectApproval

-----------------------------------------------------------------------------
(* The current translation.                                                *)

\* A job is for the same content for ever.
LEMMA ContentsStay ==
    ASSUME Typing, [Next]_vars
    PROVE  /\ Numbers \subseteq Numbers'
           /\ \A i \in Numbers : jobs'[i].text = jobs[i].text
  <1> DEFINE Stay == /\ Numbers \subseteq Numbers'
                     /\ \A i \in Numbers : jobs'[i].text = jobs[i].text
             j == worker.job
  <1>1. JobsFine /\ WorkerFine
    BY DEF Typing
  <1>2. CASE UNCHANGED jobs
    BY <1>2, JobsKept
  <1>3. ASSUME NEW e \in Editors, QueueJob(e), jobs' # jobs PROVE Stay
    <2>1. PICK row : jobs' = Append(jobs, row) /\ row = [text |-> edit[e].text,
                                             status |-> "pending", tries |-> 0]
      BY <1>3 DEF QueueJob
    <2>2. row \in Jobs
      <3>1. edit[e].text \in Texts
        BY <1>3, EditAt DEF QueueJob, Typing
      <3> QED BY <2>1, <3>1, Bounds DEF Jobs, JobStatuses
    <2>3. jobs \in Seq(Jobs) /\ Len(jobs) \in Nat
      BY <1>1, LenProperties DEF JobsFine
    <2>4. Len(jobs') = Len(jobs) + 1 /\ \A i \in 1..Len(jobs) : jobs'[i] = jobs[i]
      BY <2>1, <2>2, <2>3, AppendProperties
    <2>5. 1..Len(jobs) \subseteq 1..Len(jobs')
      BY <2>3, <2>4
    <2> QED BY <2>4, <2>5 DEF Numbers
  <1>4. CASE \/ worker.step = "claiming" /\ SetJob(j, "processing")
                 /\ jobs[j].status = "pending"
             \/ CompleteJob
    <2>1. worker.step # "idle" /\ jobs[j].status # "failed"
      BY <1>1, <1>4 DEF CompleteJob, Working, WorkerFine, Busy
    <2>2. j \in Numbers
      BY <2>1, WorkerAt
    <2>3. PICK status \in JobStatuses : SetJob(j, status)
      BY <1>4 DEF CompleteJob, JobStatuses
    <2> QED BY <1>1, <2>1, <2>2, <2>3, JobSet
  <1>5. CASE FailJob
    <2> DEFINE tries == jobs[j].tries + 1
               status == IF tries >= MaxRetries THEN "failed" ELSE "pending"
    <2>1. j \in Numbers /\ jobs[j] \in Jobs
      BY <1>5, WorkerAt DEF FailJob, Working
    <2>2. jobs[j].status # "failed"
      BY <1>1, <1>5 DEF FailJob, Working, WorkerFine, Busy
    <2>3. jobs[j].tries \in Nat /\ jobs[j].tries < MaxRetries /\ MaxRetries \in Nat
      BY <1>1, <2>1, <2>2, Bounds DEF JobsFine, Jobs
    <2>4. tries \in 0..MaxRetries /\ (status = "failed" \/ tries < MaxRetries)
      BY <2>3
    <2>5. status \in JobStatuses
      BY DEF JobStatuses
    <2>6. jobs' = [jobs EXCEPT ![j].tries = tries, ![j].status = status]
      BY <1>5 DEF FailJob
    <2> HIDE DEF tries, status, j
    <2> QED BY <1>1, <2>1, <2>4, <2>5, <2>6, JobTried
  <1>6. CASE Recover \/ RetryFailed
    BY <1>6, Restarted
  <1>7. CASE Editing
    BY <1>2, <1>3, <1>7 DEF Editing, Edit, LookUp, AwaitJob, Lose
  <1>8. CASE Reading
    <2>1. UNCHANGED jobs
      BY <1>8 DEF Reading, ReadRecord, FillCache, TranslateName, LookUpName, StoreName,
                  BeginOverride, Override, CacheOverride
    <2> QED BY <1>2, <2>1
  <1>9. CASE WorkerStep
    <2>1. CASE Claim
      BY <1>2, <1>4, <2>1 DEF Claim, Working
    <2>2. CASE ~Claim /\ ~CompleteJob /\ ~FailJob
      <3>1. UNCHANGED jobs
        BY <1>9, <2>2
           DEF WorkerStep, Take, CheckRecord, Translate, ReadForSave, WriteRecord,
               CacheSaved, FailSave, FailRecord, BreakOff
      <3> QED BY <1>2, <3>1
    <2> QED BY <1>4, <1>5, <2>1, <2>2
  <1>10. CASE (\E i \in JobIds : Timer(i)) \/ Expire \/ Crash \/ UNCHANGED vars
    <2>1. UNCHANGED jobs
      BY <1>10 DEF Timer, Expire, Crash, vars
    <2> QED BY <1>2, <2>1
  <1> QED
    BY <1>6, <1>7, <1>8, <1>9, <1>10 DEF Next

\* Nobody has the translation of a field that is not a name made while he waits.
Unnamed == \A u \in Readers : reader[u].step \notin {"naming", "storing"}

\* A completed translation is that of the job the record refers to.
ByItsJob == record.status = "completed" => record.text = jobs[record.job].text

\* While nobody edits, that job is for the present content, unless somebody
\* approved a translation instead.
Promised ==
    (\A e \in Editors : edit[e] = Idle) /\ record.status # "approved" =>
        jobs[record.job].text = source

\* An edit is the last one until it is queued; what it has read of the record
\* is what it waits for still; what it has inserted is a job for its content.
EditIsLast ==
    \A e \in Editors :
        /\ edit[e].step \in {"edited", "queueing"} => edit[e].text = source
        /\ edit[e].step = "queueing" => edit[e].seen.job = record.job
        /\ edit[e].step = "inserted" => jobs[edit[e].job].text = source

Current == ~isName => Unnamed /\ ByItsJob /\ Promised /\ EditIsLast

\* One edit at a time.
OneEditor == \A e, f \in Editors : e = f

LEMMA InitCurrent == Init => Current
  <1> SUFFICES ASSUME Init PROVE Unnamed /\ ByItsJob /\ Promised /\ EditIsLast
    BY DEF Current
  <1>1. jobs[1].text = source /\ record.job = 1 /\ record.text = source
    BY DEF Init
  <1>2. \A e \in Editors : edit[e].step = "idle"
    BY DEF Init, Idle
  <1>3. \A u \in Readers : reader[u].step = "idle"
    BY DEF Init, Idle
  <1> QED BY <1>1, <1>2, <1>3 DEF Unnamed, ByItsJob, Promised, EditIsLast

\* What a step must show that leaves the contents and the edits alone.
LEMMA CurrentKept ==
    ASSUME Typing, Typing', [Next]_vars, Unnamed, ByItsJob, Promised, EditIsLast,
           UNCHANGED source
    PROVE  /\ UNCHANGED reader => Unnamed'
           /\ UNCHANGED record => ByItsJob'
           /\ UNCHANGED edit /\ record'.job = record.job =>
                /\ EditIsLast'
                /\ (record'.status # "approved" => record.status # "approved") => Promised'
  <1>1. /\ Numbers \subseteq Numbers'
        /\ \A i \in Numbers : jobs'[i].text = jobs[i].text
    BY ContentsStay
  <1>2. record.job \in Numbers
    BY DEF Typing, RecordFine
  <1>3. \A e \in Editors : edit[e].step = "inserted" => edit[e].job \in Numbers
    BY DEF Typing, EditsFine
  <1>4. UNCHANGED reader => Unnamed'
    BY DEF Unnamed
  <1>5. UNCHANGED record => ByItsJob'
    BY <1>1, <1>2 DEF ByItsJob
  <1>6. ASSUME UNCHANGED edit, record'.job = record.job PROVE EditIsLast'
    BY <1>1, <1>3, <1>6 DEF EditIsLast
  <1>7. ASSUME UNCHANGED edit, record'.job = record.job,
               record'.status # "approved" => record.status # "approved"
        PROVE  Promised'
    BY <1>1, <1>2, <1>7 DEF Promised
  <1> QED BY <1>4, <1>5, <1>6, <1>7

LEMMA CurrentOfEditing ==
    ASSUME OneEditor, Typing, Typing', Editing, Unnamed, ByItsJob, Promised, EditIsLast
    PROVE  Unnamed' /\ ByItsJob' /\ Promised' /\ EditIsLast'
  <1>1. [Next]_vars
    BY DEF Next
  <1>2. /\ Numbers \subseteq Numbers'
        /\ \A i \in Numbers : jobs'[i].text = jobs[i].text
    BY <1>1, ContentsStay
  <1>3. record.job \in Numbers /\ edit \in [Editors -> EditStates] /\ EditsFine
    BY DEF Typing, RecordFine, EditsFine
  <1>4. Unnamed'
    BY DEF Editing, Edit, LookUp, QueueJob, AwaitJob, Lose, Unnamed
  <1>5. PICK e \in Editors :
            \/ \E text \in Texts : Edit(e, text)
            \/ LookUp(e) \/ QueueJob(e) \/ AwaitJob(e) \/ Lose(e)
    BY DEF Editing
  <1>6. /\ EditIsLast' <=>
              /\ edit'[e].step \in {"edited", "queueing"} => edit'[e].text = source'
              /\ edit'[e].step = "queueing" => edit'[e].seen.job = record'.job
              /\ edit'[e].step = "inserted" => jobs'[edit'[e].job].text = source'
        /\ Promised' <=> (edit'[e] = Idle /\ record'.status # "approved" =>
                            jobs'[record'.job].text = source')
    <2>1. \A f \in Editors : f = e
      BY DEF OneEditor
    <2> QED BY <2>1 DEF EditIsLast, Promised
  <1>7. ASSUME NEW text \in Texts, Edit(e, text)
        PROVE  ByItsJob' /\ Promised' /\ EditIsLast'
    <2>1. edit'[e] = [step |-> "edited", text |-> text] /\ source' = text
          /\ UNCHANGED <<record, jobs>>
      BY <1>3, <1>7 DEF Edit
    <2>2. edit'[e] # Idle
      BY <2>1 DEF Idle
    <2> QED BY <1>6, <2>1, <2>2 DEF ByItsJob
  <1>8. CASE LookUp(e)
    <2>1. UNCHANGED <<record, jobs, source>> /\ edit[e].text = source
      BY <1>8 DEF LookUp, EditIsLast
    <2>2. CASE record.status = "approved"
      <3>1. edit'[e] = Idle
        BY <1>3, <1>8, <2>2 DEF LookUp
      <3> QED BY <1>4, <1>6, <2>1, <2>2, <3>1 DEF ByItsJob, Idle
    <2>3. CASE record.status # "approved"
      <3>1. edit'[e] = [step |-> "queueing", text |-> edit[e].text, seen |-> record]
        BY <1>3, <1>8, <2>3 DEF LookUp
      <3>2. edit'[e] # Idle /\ edit'[e].step = "queueing" /\ edit'[e].text = source
            /\ edit'[e].seen = record
        BY <2>1, <3>1 DEF Idle
      <3> QED BY <1>4, <1>6, <2>1, <3>2 DEF ByItsJob
    <2> QED BY <2>2, <2>3
  <1>9. CASE QueueJob(e)
    <2>1. UNCHANGED <<record, source>> /\ edit[e].text = source
          /\ edit[e].seen.job = record.job
      BY <1>9 DEF QueueJob, EditIsLast
    <2>2. ByItsJob'
      BY <1>2, <1>3, <2>1 DEF ByItsJob
    <2>3. CASE Covers(edit[e].seen.job, edit[e].text)
      <3>1. edit'[e] = Idle /\ jobs[record.job].text = source
        BY <1>3, <1>9, <2>1, <2>3 DEF QueueJob, Covers
      <3> QED BY <1>2, <1>3, <1>4, <1>6, <2>1, <2>2, <3>1 DEF Idle
    <2>4. CASE ~Covers(edit[e].seen.job, edit[e].text)
      <3> DEFINE row == [text |-> edit[e].text, status |-> "pending", tries |-> 0]
      <3>1. /\ jobs' = Append(jobs, row)
            /\ edit'[e] = [step |-> "inserted", job |-> Len(jobs) + 1]
        BY <1>3, <1>9, <2>4 DEF QueueJob
      <3>2. row.text = source
        BY <2>1
      <3>3. row \in Jobs
        <4>1. edit[e].text \in Texts
          BY <1>3, <1>9, EditAt DEF QueueJob
        <4> QED BY <4>1, Bounds DEF Jobs, JobStatuses
      <3>4. jobs \in Seq(Jobs)
        BY DEF Typing, JobsFine
      <3> HIDE DEF row
      <3>5. jobs'[Len(jobs) + 1] = row
        BY <3>1, <3>3, <3>4, AppendProperties
      <3>6. edit'[e] # Idle /\ edit'[e].step = "inserted"
            /\ jobs'[edit'[e].job].text = source
        BY <3>1, <3>2, <3>5 DEF Idle
      <3> QED BY <1>4, <1>6, <2>1, <2>2, <3>6
    <2> QED BY <2>3, <2>4
  <1>10. CASE AwaitJob(e)
    <2>1. /\ edit'[e] = Idle
          /\ record'.job = edit[e].job /\ record'.status = "pending"
          /\ UNCHANGED <<jobs, source>>
      BY <1>3, <1>10 DEF AwaitJob, Typing, RecordFine, Records
    <2>2. jobs[edit[e].job].text = source
      BY <1>10 DEF AwaitJob, EditIsLast
    <2> QED BY <1>4, <1>6, <2>1, <2>2 DEF ByItsJob, Idle
  <1>11. CASE Lose(e)
    <2>1. edit'[e] = Lost /\ UNCHANGED <<record, jobs, source>>
      BY <1>3, <1>11 DEF Lose
    <2>2. edit'[e] # Idle /\ edit'[e].step = "lost"
      BY <2>1 DEF Idle, Lost
    <2> QED BY <1>4, <1>6, <2>1, <2>2 DEF ByItsJob
  <1> QED BY <1>4, <1>5, <1>7, <1>8, <1>9, <1>10, <1>11

LEMMA CurrentStep ==
    ASSUME OneEditor, Typing, Typing', Current, [Next]_vars
    PROVE  Current'
  <1> SUFFICES ASSUME ~isName, ~isName' PROVE Unnamed' /\ ByItsJob' /\ Promised' /\ EditIsLast'
    <2>1. UNCHANGED isName
      BY DEF Next, vars, Editing, Edit, LookUp, QueueJob, AwaitJob, Lose, WorkerStep, Take,
             CheckRecord, Claim, Translate, CompleteJob, ReadForSave, WriteRecord,
             CacheSaved, FailSave, FailJob, FailRecord, BreakOff, Reading, ReadRecord, FillCache,
             TranslateName, LookUpName, StoreName, BeginOverride, Override, CacheOverride,
             Timer, Recover, RetryFailed, Expire, Crash
    <2> QED BY <2>1 DEF Current
  <1>1. Unnamed /\ ByItsJob /\ Promised /\ EditIsLast
    BY DEF Current
  <1>2. /\ record \in Records /\ record.job \in Numbers
        /\ \A i \in Numbers : jobs'[i].text = jobs[i].text
    BY ContentsStay DEF Typing, RecordFine
  <1>3. CASE Editing
    BY <1>1, <1>3, CurrentOfEditing
  <1>4. CASE UNCHANGED <<source, edit, reader, record>>
    BY <1>1, <1>4, CurrentKept
  <1>5. CASE Reading
    <2>1. UNCHANGED <<source, edit, jobs>>
      BY <1>5 DEF Reading, ReadRecord, FillCache, TranslateName, LookUpName, StoreName,
                  BeginOverride, Override, CacheOverride
    <2>2. PICK u \in Readers :
              \/ ReadRecord(u) \/ FillCache(u) \/ BeginOverride(u) \/ CacheOverride(u)
              \/ Override(u)
      BY <1>1, <1>5 DEF Reading, TranslateName, LookUpName, StoreName, Unnamed
    <2>3. Unnamed'
      <3>1. \A v \in Readers : v # u => reader'[v] = reader[v]
        BY <2>2 DEF ReadRecord, FillCache, BeginOverride, CacheOverride, Override,
                    Typing, WellFormed
      <3>2. reader'[u].step \in {"filling", "idle", "correcting", "corrected"}
        BY <2>2 DEF ReadRecord, FillCache, BeginOverride, CacheOverride, Override,
                    Typing, WellFormed, Idle
      <3> QED BY <1>1, <3>1, <3>2 DEF Unnamed
    <2>4. \/ UNCHANGED record
          \/ record'.status = "approved" /\ record'.job = record.job
      BY <1>2, <2>2 DEF ReadRecord, FillCache, BeginOverride, CacheOverride, Override, Records
    <2>5. ByItsJob'
      BY <1>1, <2>1, <2>4 DEF ByItsJob
    <2> QED BY <1>1, <2>1, <2>3, <2>4, <2>5, CurrentKept
  <1>6. CASE WriteRecord \/ FailRecord
    <2>1. UNCHANGED <<source, edit, reader, jobs>>
      BY <1>6 DEF WriteRecord, FailRecord
    <2>2. \/ UNCHANGED record
          \/ /\ record'.job = record.job
             /\ record.status # "approved"
             /\ \/ record'.status \in {"failed", "pending"}
                \/ record'.text = jobs[record.job].text
      BY <1>2, <1>6 DEF WriteRecord, FailRecord, Processable, Final, Records
    <2>3. ByItsJob'
      BY <1>1, <2>1, <2>2 DEF ByItsJob
    <2> QED BY <1>1, <2>1, <2>2, <2>3, CurrentKept
  <1>7. CASE WorkerStep
    <2>1. CASE ~WriteRecord /\ ~FailRecord
      <3>1. UNCHANGED <<source, edit, reader, record>>
        BY <1>7, <2>1
           DEF WorkerStep, Take, CheckRecord, Claim, Translate, CompleteJob, ReadForSave,
               CacheSaved, FailSave, FailJob, BreakOff
      <3> QED BY <1>4, <3>1
    <2> QED BY <1>6, <2>1
  <1>8. CASE RetryFailed
    <2>1. UNCHANGED <<source, edit, reader>> /\ record'.status = "pending"
          /\ record'.job = record.job /\ record.status # "approved"
      BY <1>2, <1>8 DEF RetryFailed, Final, Records
    <2>2. ByItsJob'
      BY <2>1 DEF ByItsJob
    <2> QED BY <1>1, <2>1, <2>2, CurrentKept
  <1>9. CASE Crash
    <2>1. /\ UNCHANGED <<source, record, jobs>>
          /\ \A e \in Editors : edit'[e] \in {Idle, Lost} /\ (edit'[e] = Idle => edit[e] = Idle)
          /\ \A u \in Readers : reader'[u] = Idle
      BY <1>9 DEF Crash, Idle, Lost
    <2> QED BY <1>1, <2>1 DEF Unnamed, ByItsJob, Promised, EditIsLast, Idle, Lost
  <1>10. CASE (\E i \in JobIds : Timer(i)) \/ Recover \/ Expire \/ UNCHANGED vars
    <2>1. UNCHANGED <<source, edit, reader, record>>
      BY <1>10 DEF Timer, Recover, Expire, vars
    <2> QED BY <1>4, <2>1
  <1> QED
    BY <1>3, <1>5, <1>7, <1>8, <1>9, <1>10 DEF Next

\* With one edit at a time, a field that is not a name has the translation of
\* its present content when it is said to be completed and no edit is under
\* way or lost: whatever older jobs are retried, recovered or answered late,
\* whatever is corrected by hand, whichever statements fail and wherever the
\* server stops meanwhile.
THEOREM CompletedIsCurrent ==
    ASSUME OneEditor
    PROVE  Spec => []TranslationIsCurrent
  <1>1. Typing /\ Current => TranslationIsCurrent
    BY DEF Current, Promised, ByItsJob, TranslationIsCurrent
  <1>2. Typing /\ Typing' /\ Current /\ [Next]_vars => Current'
    BY CurrentStep
  <1> QED BY <1>1, <1>2, InitTyping, InitCurrent, TypingStep, PTL DEF Spec
=============================================================================
