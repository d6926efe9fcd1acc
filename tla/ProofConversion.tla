---------------------------- MODULE ProofConversion ----------------------------
(***************************************************************************)
(* The service that converts saved SP1 proofs for Mina.  It processes the  *)
(* files it finds when it starts, one after the other, then watches the    *)
(* directory and processes every file that appears.  What it has processed *)
(* it knows only in memory.  The writer of the files and the watcher       *)
(* (chokidar) are not in the repository.                                   *)
(***************************************************************************)
EXTENDS Integers, FiniteSets

CONSTANTS
    MaxBlock,      \* bound: the highest L2 block of a proof
    Misnamed,      \* files that are not named after a range of blocks
    MaxFiles,      \* bound: files that are saved
    MaxFailures,   \* bound: steps that fail
    MaxRestarts    \* bound: how often the service stops

ASSUME ConversionAssumption ==
    /\ MaxBlock \in Nat /\ MaxFiles \in Nat /\ MaxFailures \in Nat /\ MaxRestarts \in Nat
    /\ Misnamed \cap [start : Int, end : Int] = {}

VARIABLES
    saved,             \* contents of SAVED_PROOFS_DIR
    converted,         \* contents of CONVERTED_PROOFS_DIR
    phase,             \* where init is
    listing,           \* files of the first scan yet to process
    known,             \* files that are no news to the watcher
    processedFiles,
    jobs,              \* calls of processProofFile under way
    lost,              \* history: files this process has failed on, or will not be told of
    failures, restarts

conversionVars == <<saved, converted, phase, listing, known, processedFiles, jobs, lost,
                    failures, restarts>>
processVars == <<phase, listing, known>>

\* A file is named {start}_{end}.bin.
Ranges == {f \in [start : 0 .. MaxBlock, end : 0 .. MaxBlock] : f.start < f.end}
Files == Ranges \cup Misnamed
Content == {"none", "part", "whole"}

Present == {f \in Files : saved[f] # "none"}

ConversionInit ==
    /\ saved = [f \in Files |-> "none"] /\ converted = [f \in Files |-> "none"]
    /\ phase = "down"
    /\ listing = {} /\ known = {} /\ processedFiles = {} /\ jobs = {} /\ lost = {}
    /\ failures = 0 /\ restarts = 0

\* External: a proof is written, which takes its time.
BeginSave(f) ==
    /\ saved[f] = "none" /\ Cardinality(Present) < MaxFiles
    /\ saved' = [saved EXCEPT ![f] = "part"]
    /\ UNCHANGED <<converted, processVars, processedFiles, jobs, lost, failures, restarts>>

EndSave(f) ==
    /\ saved[f] = "part"
    /\ saved' = [saved EXCEPT ![f] = "whole"]
    /\ UNCHANGED <<converted, processVars, processedFiles, jobs, lost, failures, restarts>>

-----------------------------------------------------------------------------
\* Mutant: nothing is done about the files that are there already.
StartUnscanned ==
    /\ phase = "down"
    /\ phase' = "scanning" /\ listing' = {} /\ known' = Present
    /\ UNCHANGED <<saved, converted, processedFiles, jobs, lost, failures, restarts>>

\* init and processExistingFiles: the directory is read.
Start ==
    /\ phase = "down"
    /\ phase' = "scanning" /\ listing' = Present /\ known' = Present
    /\ UNCHANGED <<saved, converted, processedFiles, jobs, lost, failures, restarts>>

\* Reading the directory fails, which is only logged: the watcher is started all the same,
\* and reports nothing of what is there already.
ScanFails ==
    /\ phase = "down"
    /\ failures < MaxFailures /\ failures' = failures + 1
    /\ phase' = "starting"
    /\ UNCHANGED <<saved, converted, listing, known, processedFiles, jobs, lost, restarts>>

\* Mutant: a file counts as processed only later.
ProcessUnmarked(f) ==
    /\ jobs' = jobs \cup {[file |-> f, step |-> "parse"]}
    /\ UNCHANGED processedFiles

\* processProofFile up to its first await.
Process(f) ==
    IF f \in processedFiles THEN UNCHANGED <<processedFiles, jobs>>
    ELSE /\ processedFiles' = processedFiles \cup {f}
         /\ jobs' = jobs \cup {[file |-> f, step |-> "parse"]}

\* Existing files are awaited one by one.
ProcessExisting(f) ==
    /\ phase = "scanning" /\ jobs = {} /\ f \in listing
    /\ listing' = listing \ {f}
    /\ Process(f)
    /\ UNCHANGED <<saved, converted, phase, known, lost, failures, restarts>>

StartWatching ==
    /\ phase = "scanning" /\ jobs = {} /\ listing = {}
    /\ phase' = "starting"
    /\ UNCHANGED <<saved, converted, listing, known, processedFiles, jobs, lost, failures, restarts>>

\* External: the watcher has looked at the directory; with ignoreInitial it does not report
\* what it found.  What processExistingFiles has not read, or has come since, is lost.
Ready ==
    /\ phase = "starting"
    /\ phase' = "watching" /\ known' = Present
    /\ lost' = lost \cup (Present \ known)
    /\ UNCHANGED <<saved, converted, listing, processedFiles, jobs, failures, restarts>>

\* The add event, which comes as soon as there is a file.
Add(f) ==
    /\ phase = "watching" /\ f \in Present \ known
    /\ known' = known \cup {f}
    /\ Process(f)
    /\ UNCHANGED <<saved, converted, phase, listing, lost, failures, restarts>>

-----------------------------------------------------------------------------
\* One call of processProofFile.
Ends(job) == jobs' = jobs \ {job}

Goes(job, step) == jobs' = (jobs \ {job}) \cup {[job EXCEPT !.step = step]}

\* The file is read as it is, and nothing tells a part from the whole; a file that is
\* not named after its blocks is not tried again.
Parse(job) ==
    /\ job.step = "parse"
    /\ IF job.file \in Misnamed THEN Ends(job) /\ UNCHANGED lost
       ELSE IF saved[job.file] = "whole" THEN Goes(job, "convert") /\ UNCHANGED lost
       ELSE Goes(job, "fail") /\ lost' = lost \cup {job.file}
    /\ UNCHANGED <<saved, converted, processVars, processedFiles, failures, restarts>>

Convert(job) ==
    /\ job.step = "convert"
    /\ Goes(job, "save")
    /\ converted' = [converted EXCEPT ![job.file] = "part"]
    /\ UNCHANGED <<saved, processVars, processedFiles, lost, failures, restarts>>

Save(job) ==
    /\ job.step = "save"
    /\ Ends(job)
    /\ converted' = [converted EXCEPT ![job.file] = "whole"]
    /\ UNCHANGED <<saved, processVars, processedFiles, lost, failures, restarts>>

\* Converting a part of a proof fails; the catch clause forgets the file.
ConvertPart(job) ==
    /\ job.step = "fail"
    /\ Ends(job)
    /\ processedFiles' = processedFiles \ {job.file}
    /\ UNCHANGED <<saved, converted, processVars, lost, failures, restarts>>

\* Reading fails, which parseProofFile catches, or converting or saving does.
JobFails(job) ==
    /\ failures < MaxFailures /\ failures' = failures + 1
    /\ Ends(job)
    /\ processedFiles' = IF job.step = "parse" THEN processedFiles
                         ELSE processedFiles \ {job.file}
    /\ lost' = lost \cup {job.file}
    /\ UNCHANGED <<saved, converted, processVars, restarts>>

\* SIGTERM, SIGINT or the end of the process: what was under way is not ended.
Stop ==
    /\ phase # "down" /\ restarts < MaxRestarts
    /\ restarts' = restarts + 1
    /\ phase' = "down" /\ listing' = {} /\ known' = {}
    /\ processedFiles' = {} /\ jobs' = {} /\ lost' = {}
    /\ UNCHANGED <<saved, converted, failures>>

ServiceStep ==
    \/ Start \/ StartWatching \/ Ready
    \/ \E f \in Files : ProcessExisting(f) \/ Add(f)
    \/ \E job \in jobs : Parse(job) \/ Convert(job) \/ Save(job) \/ ConvertPart(job)

ConversionNext ==
    \/ \E f \in Files : BeginSave(f) \/ EndSave(f)
    \/ ServiceStep
    \/ ScanFails
    \/ \E job \in jobs : JobFails(job)
    \/ Stop

\* The service runs and is started again when it stops; files that are begun are ended.
ConversionFairness ==
    /\ WF_conversionVars(ServiceStep)
    /\ \A f \in Files : WF_conversionVars(EndSave(f))

-----------------------------------------------------------------------------
\* Types; a file has at most one call under way, is known to it as processed meanwhile, and
\* before the watcher runs there is one call at a time.
ConversionTypeOK ==
    /\ saved \in [Files -> Content] /\ converted \in [Files -> Content]
    /\ phase \in {"down", "scanning", "starting", "watching"}
    /\ listing \subseteq Present /\ known \subseteq Present
    /\ processedFiles \subseteq Files /\ lost \subseteq Files
    /\ jobs \subseteq [file : processedFiles, step : {"parse", "convert", "save", "fail"}]
    /\ \A job1, job2 \in jobs : job1 = job2 \/ (job1.file # job2.file /\ phase = "watching")
    /\ failures \in 0 .. MaxFailures /\ restarts \in 0 .. MaxRestarts

\* Every proof that is saved is in the end converted for good, also if it was there before
\* the service or the service is stopped while it converts it, unless the running process
\* failed on it, read it too soon, or was not told of it.
EveryFileConverted ==
    \A f \in Ranges : <>[](f \in Present => converted[f] = "whole" \/ f \in lost)
================================================================================
