------------------------- MODULE MinaSettlementProofs -------------------------
(***************************************************************************)
(* Types of the conversion service and the order of settlements, for any   *)
(* numbers of files, operators, failures and restarts.                     *)
(***************************************************************************)
EXTENDS MinaSettlement, TLAPS

\* An operator's transaction made for an initialised contract settles a converted proof that
\* begins where the state it was made for ends.
Backed(t) ==
    t.previousState # Empty => \E f \in Ranges : Settles(f, t.previousState, t.newState)

TxsBacked ==
    /\ txs = [s \in Senders |-> txs[s]]
    /\ \A op \in Operators : \A t \in txs[op] : Backed(t)

SettlementInv == ConversionTypeOK /\ TxsBacked

-----------------------------------------------------------------------------
\* The conversion service

\* A call that begins is the only one of its file, and alone unless the service watches.
LEMMA ProcessKeepsCalls ==
    ASSUME ConversionTypeOK, NEW f \in Files, Process(f),
           phase = "watching" \/ jobs = {}
    PROVE  /\ processedFiles' \subseteq Files
           /\ jobs' \subseteq [file : processedFiles', step : {"parse", "convert", "save", "fail"}]
           /\ \A job1, job2 \in jobs' :
                job1 = job2 \/ (job1.file # job2.file /\ phase = "watching")
<1>1. CASE f \in processedFiles
    BY <1>1 DEF Process, ConversionTypeOK
<1>2. CASE f \notin processedFiles
    <2>1. /\ processedFiles' = processedFiles \cup {f}
          /\ jobs' = jobs \cup {[file |-> f, step |-> "parse"]}
        BY <1>2 DEF Process
    <2>2. \A job \in jobs : job.file # f
        BY <1>2 DEF ConversionTypeOK
    <2>q. QED
        BY <2>1, <2>2 DEF ConversionTypeOK
<1>q. QED
    BY <1>1, <1>2

\* A call that goes on or ends stays or becomes no call of another file.
LEMMA CallsShrink ==
    ASSUME ConversionTypeOK, NEW job \in jobs,
           Ends(job) \/ \E step \in {"convert", "save", "fail"} : Goes(job, step)
    PROVE  /\ \A one \in jobs' : \E old \in jobs : one.file = old.file /\
                one.step \in {"parse", "convert", "save", "fail"} /\
                one \in [file : processedFiles, step : {"parse", "convert", "save", "fail"}]
           /\ \A job1, job2 \in jobs' :
                job1 = job2 \/ (job1.file # job2.file /\ phase = "watching")
<1>1. job \in [file : processedFiles, step : {"parse", "convert", "save", "fail"}]
    BY DEF ConversionTypeOK
<1>2. CASE Ends(job)
    BY <1>2 DEF Ends, ConversionTypeOK
<1>3. ASSUME NEW step \in {"convert", "save", "fail"}, Goes(job, step)
      PROVE  /\ \A one \in jobs' : \E old \in jobs : one.file = old.file /\
                   one.step \in {"parse", "convert", "save", "fail"} /\
                   one \in [file : processedFiles, step : {"parse", "convert", "save", "fail"}]
             /\ \A job1, job2 \in jobs' :
                   job1 = job2 \/ (job1.file # job2.file /\ phase = "watching")
    <2>1. PICK moved : moved = [job EXCEPT !.step = step]
        OBVIOUS
    <2>2. /\ moved.file = job.file /\ moved.step = step
          /\ moved \in [file : processedFiles, step : {"parse", "convert", "save", "fail"}]
        BY <1>1, <2>1
    <2>3. jobs' = (jobs \ {job}) \cup {moved}
        BY <1>3, <2>1 DEF Goes
    <2>q. QED
        BY <1>1, <2>2, <2>3 DEF ConversionTypeOK
<1>q. QED
    BY <1>2, <1>3

\* Every step of the service and of the writer of proofs keeps the types.
LEMMA ConversionKeepsTypes == ConversionTypeOK /\ ConversionNext => ConversionTypeOK'
<1> SUFFICES ASSUME ConversionTypeOK, ConversionNext PROVE ConversionTypeOK'
    OBVIOUS
<1> USE ConversionAssumption
<1>a. saved' = saved => Present' = Present
    BY DEF Present
<1>1. ASSUME NEW f \in Files, BeginSave(f) \/ EndSave(f) PROVE ConversionTypeOK'
    <2>1. saved' \in [Files -> Content] /\ Present \subseteq Present'
        BY <1>1 DEF BeginSave, EndSave, ConversionTypeOK, Content, Present
    <2>2. UNCHANGED <<converted, processVars, processedFiles, jobs, lost, failures, restarts>>
        BY <1>1 DEF BeginSave, EndSave
    <2>q. QED
        BY <2>1, <2>2 DEF ConversionTypeOK, processVars
<1>2. CASE Start \/ ScanFails
    BY <1>a, <1>2 DEF Start, ScanFails, ConversionTypeOK
<1>3. CASE StartWatching
    BY <1>a, <1>3 DEF StartWatching, ConversionTypeOK
<1>4. CASE Ready
    <2>1. Present \subseteq Files
        BY DEF Present
    <2>q. QED
        BY <1>a, <1>4, <2>1 DEF Ready, ConversionTypeOK
<1>5. ASSUME NEW f \in Files, ProcessExisting(f) PROVE ConversionTypeOK'
    BY <1>a, <1>5, ProcessKeepsCalls DEF ProcessExisting, ConversionTypeOK
<1>6. ASSUME NEW f \in Files, Add(f) PROVE ConversionTypeOK'
    BY <1>a, <1>6, ProcessKeepsCalls DEF Add, ConversionTypeOK
<1>7. ASSUME NEW job \in jobs, Parse(job) \/ Convert(job) \/ Save(job) PROVE ConversionTypeOK'
    <2>1. job.file \in Files
        BY DEF ConversionTypeOK
    <2>2. Ends(job) \/ \E step \in {"convert", "save", "fail"} : Goes(job, step)
        BY <1>7 DEF Parse, Convert, Save
    <2>3. /\ processedFiles' = processedFiles /\ phase' = phase /\ listing' = listing
          /\ known' = known /\ saved' = saved /\ failures' = failures /\ restarts' = restarts
        BY <1>7 DEF Parse, Convert, Save, processVars
    <2>4. lost' \subseteq Files /\ converted' \in [Files -> Content]
        BY <1>7, <2>1 DEF Parse, Convert, Save, ConversionTypeOK, Content
    <2>5. /\ jobs' \subseteq [file : processedFiles', step : {"parse", "convert", "save", "fail"}]
          /\ \A job1, job2 \in jobs' :
               job1 = job2 \/ (job1.file # job2.file /\ phase' = "watching")
        BY <2>2, <2>3, CallsShrink DEF ConversionTypeOK
    <2>q. QED
        BY <1>a, <2>3, <2>4, <2>5 DEF ConversionTypeOK
<1>8. ASSUME NEW job \in jobs, ConvertPart(job) \/ JobFails(job) PROVE ConversionTypeOK'
    <2>1. jobs' = jobs \ {job} /\ job.file \in Files
        BY <1>8 DEF ConvertPart, JobFails, Ends, ConversionTypeOK
    <2>2. /\ processedFiles' \subseteq Files
          /\ processedFiles \ {job.file} \subseteq processedFiles'
        BY <1>8 DEF ConvertPart, JobFails, ConversionTypeOK
    <2>3. \A one \in jobs' : one.file # job.file /\ one \in jobs
        BY <2>1 DEF ConversionTypeOK
    <2>4. \A one \in jobs' :
            one \in [file : processedFiles', step : {"parse", "convert", "save", "fail"}]
        BY <2>2, <2>3 DEF ConversionTypeOK
    <2>5. failures' \in 0 .. MaxFailures /\ lost' \subseteq Files
        BY <1>8, <2>1 DEF ConvertPart, JobFails, ConversionTypeOK
    <2>6. /\ phase' = phase /\ listing' = listing /\ known' = known
          /\ saved' = saved /\ converted' = converted /\ restarts' = restarts
        BY <1>8 DEF ConvertPart, JobFails, processVars
    <2>q. QED
        BY <1>a, <2>1, <2>2, <2>4, <2>5, <2>6 DEF ConversionTypeOK
<1>9. CASE Stop
    BY <1>a, <1>9 DEF Stop, ConversionTypeOK
<1>q. QED
    BY <1>1, <1>2, <1>3, <1>4, <1>5, <1>6, <1>7, <1>8, <1>9 DEF ConversionNext, ServiceStep

\* What has been converted, if only in part, does not vanish.
LEMMA ConvertedStays ==
    ASSUME ConversionTypeOK, ConversionNext, NEW f \in Files, converted[f] # "none"
    PROVE  converted'[f] # "none"
<1>1. \/ converted' = converted
      \/ \E job \in jobs, content \in {"part", "whole"} :
            converted' = [converted EXCEPT ![job.file] = content]
    BY DEF ConversionNext, ServiceStep, BeginSave, EndSave, Start, ScanFails, StartWatching,
           Ready, ProcessExisting, Add, Parse, Convert, Save, ConvertPart, JobFails, Stop
<1>q. QED
    BY <1>1 DEF ConversionTypeOK

-----------------------------------------------------------------------------
\* The contract

LEMMA InitInv == Init => SettlementInv
<1> SUFFICES ASSUME Init PROVE SettlementInv
    OBVIOUS
<1>1. ConversionTypeOK
    BY ConversionAssumption DEF Init, ConversionInit, ConversionTypeOK, Content
<1>2. TxsBacked
    BY DEF Init, SettlementInit, TxsBacked, Senders
<1>q. QED
    BY <1>1, <1>2 DEF SettlementInv

\* What operators send is backed, whoever else sends and whatever waits already.
LEMMA SendsKeepsInv ==
    ASSUME SettlementInv, NEW s \in Senders, NEW new, Sends(s, new),
           s \in Operators => Backed([previousState |-> state, newState |-> new])
    PROVE  SettlementInv'
<1>1. UNCHANGED conversionVars
    BY DEF Sends
<1>2. ConversionTypeOK'
    BY <1>1 DEF SettlementInv, ConversionTypeOK, conversionVars, Present
<1>3. converted' = converted
    BY <1>1 DEF conversionVars
<1>4. txs' = [txs EXCEPT ![s] = {[previousState |-> state, newState |-> new]}]
    BY DEF Sends
<1>5. \A op \in Operators : \A t \in txs'[op] : Backed(t)
    BY <1>4 DEF SettlementInv, TxsBacked, Senders
<1>6. \A op \in Operators : \A t \in txs'[op] : Backed(t)'
    BY <1>3, <1>5 DEF Backed, Settles
<1>7. txs' = [other \in Senders |-> txs'[other]]
    BY <1>4 DEF SettlementInv, TxsBacked
<1>q. QED
    BY <1>2, <1>6, <1>7 DEF SettlementInv, TxsBacked

LEMMA OperatesKeepsInv ==
    ASSUME SettlementInv, NEW op \in Operators, Operates(op)
    PROVE  SettlementInv'
<1>0. op \in Senders
    BY DEF Senders
<1>1. PICK da \in DACommitments :
        \/ InitializeState(op, InitialOf(da)) \/ UpdateInitially(op, InitialOf(da))
        \/ \E f \in Ranges : converted[f] = "whole" /\ Update(op, InputsOf(f, da))
    BY DEF Operates
<1>2. CASE InitializeState(op, InitialOf(da)) \/ UpdateInitially(op, InitialOf(da))
    <2>1. state = Empty /\ Sends(op, InitialOf(da))
        BY <1>2 DEF InitializeState, UpdateInitially, ProvesInitialize
    <2>q. QED
        BY <1>0, <2>1, SendsKeepsInv DEF Backed
<1>3. ASSUME NEW f \in Ranges, converted[f] = "whole", Update(op, InputsOf(f, da))
      PROVE  SettlementInv'
    <2> DEFINE new == FromExternalInputs(InputsOf(f, da))
    <2>1. /\ Sends(op, new)
          /\ InputsOf(f, da).previousL2StateRoot = state.latestL2StateRoot
        BY <1>3 DEF Update, ProvesUpdate
    <2>2. Settles(f, state, new)
        BY <1>3, <2>1 DEF Settles, FromExternalInputs, InputsOf
    <2>3. Backed([previousState |-> state, newState |-> new])
        BY <2>2 DEF Backed
    <2>q. QED
        BY <1>0, <2>1, <2>3, SendsKeepsInv
<1>q. QED
    BY <1>1, <1>2, <1>3

\* Nothing is known of what others send.
LEMMA InterferesKeepsInv ==
    ASSUME SettlementInv, NEW other \in Others, Interferes(other)
    PROVE  SettlementInv'
<1>1. PICK new : Sends(other, new)
    BY DEF Interferes, InitializeState, UpdateInitially, Update
<1>2. other \in Senders /\ other \notin Operators
    BY SettlementAssumption DEF Senders
<1>q. QED
    BY <1>1, <1>2, SendsKeepsInv

LEMMA StepInv == SettlementInv /\ [Next]_allVars => SettlementInv'
<1> SUFFICES ASSUME SettlementInv, [Next]_allVars PROVE SettlementInv'
    OBVIOUS
<1>1. CASE ConversionNext /\ UNCHANGED settlementVars
    <2>1. ConversionTypeOK'
        BY <1>1, ConversionKeepsTypes DEF SettlementInv
    <2>2. \A op \in Operators : \A t \in txs[op] : Backed(t)'
        BY <1>1, ConvertedStays
           DEF SettlementInv, TxsBacked, Backed, Settles, Files, settlementVars
    <2>q. QED
        BY <1>1, <2>1, <2>2 DEF SettlementInv, TxsBacked, settlementVars
<1>2. ASSUME NEW op \in Operators, Operates(op) PROVE SettlementInv'
    BY <1>2, OperatesKeepsInv
<1>3. ASSUME NEW other \in Others, Interferes(other) PROVE SettlementInv'
    BY <1>3, InterferesKeepsInv
<1>4. ASSUME NEW s \in Senders, Execute(s) PROVE SettlementInv'
    <2>1. UNCHANGED conversionVars /\ txs' = [txs EXCEPT ![s] = {}]
        BY <1>4 DEF Execute
    <2>2. ConversionTypeOK'
        BY <2>1 DEF SettlementInv, ConversionTypeOK, conversionVars, Present
    <2>3. \A op \in Operators : \A t \in txs'[op] : Backed(t)'
        BY <2>1 DEF SettlementInv, TxsBacked, Backed, Settles, conversionVars, Senders
    <2>4. txs' = [other \in Senders |-> txs'[other]]
        BY <2>1 DEF SettlementInv, TxsBacked
    <2>q. QED
        BY <2>2, <2>3, <2>4 DEF SettlementInv, TxsBacked
<1>5. CASE UNCHANGED allVars
    <2>1. UNCHANGED conversionVars /\ state' = state /\ txs' = txs
        BY <1>5 DEF allVars, settlementVars
    <2>2. ConversionTypeOK'
        BY <2>1 DEF SettlementInv, ConversionTypeOK, conversionVars, Present
    <2>3. TxsBacked'
        BY <2>1 DEF SettlementInv, TxsBacked, Backed, Settles, conversionVars
    <2>q. QED
        BY <2>2, <2>3 DEF SettlementInv
<1>q. QED
    BY <1>1, <1>2, <1>3, <1>4, <1>5 DEF Next

LEMMA AlwaysInv == Spec => []SettlementInv
BY InitInv, StepInv, PTL DEF Spec

\* A file has at most one call of processProofFile under way, whatever the watcher reports,
\* fails or restarts (index.js:75-100).
THEOREM ConversionTypesHold == Spec => []ConversionTypeOK
<1>1. SettlementInv => ConversionTypeOK
    BY DEF SettlementInv
<1>q. QED
    BY <1>1, AlwaysInv, PTL

\* What an operator's transaction does to an initialised contract is to settle a converted
\* proof from the root of that moment, whatever waits and whatever others have put into the
\* contract since it was made (index.ts:157-176).
THEOREM SettlementsInOrder == Spec => SettledInOrder
<1> DEFINE Order == \A op \in Operators :
              txs[op] # {} /\ txs'[op] = {} /\ state # Empty /\ state' # state
                => \E f \in Ranges : Settles(f, state, state')
<1>1. SettlementInv /\ [Next]_allVars => [Order]_allVars
  <2> SUFFICES ASSUME SettlementInv, Next, NEW op \in Operators,
                      txs[op] # {}, txs'[op] = {}, state # Empty, state' # state
               PROVE  \E f \in Ranges : Settles(f, state, state')
    BY DEF Order
  <2>1. PICK s \in Senders : Execute(s)
    <3>1. \A x, new : ~Sends(x, new)
        BY DEF Sends
    <3>2. \A other \in Senders : ~Operates(other) /\ ~Interferes(other)
        BY <3>1 DEF Operates, Interferes, InitializeState, UpdateInitially, Update
    <3>q. QED
        BY <3>2 DEF Next, settlementVars, Senders
  <2>2. PICK t \in txs[s] :
          /\ txs' = [txs EXCEPT ![s] = {}]
          /\ state' = IF t.previousState = state THEN t.newState ELSE state
      BY <2>1 DEF Execute
  <2>3. s = op
      BY <2>2 DEF SettlementInv, TxsBacked, Senders
  <2>4. t.previousState = state /\ state' = t.newState
      BY <2>2
  <2>q. QED
      BY <2>3, <2>4 DEF SettlementInv, TxsBacked, Backed
<1>q. QED
    BY <1>1, AlwaysInv, PTL DEF Spec, SettledInOrder
===============================================================================
