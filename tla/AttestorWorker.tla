---------------------------- MODULE AttestorWorker ----------------------------
(***************************************************************************)
(* One attestor process for one phase of a round (attestor.rs), the two    *)
(* files it appends to (JsonlStore of the market-data crate), the relayer  *)
(* that carries its reports to the program, and its crashes and restarts.  *)
(*                                                                         *)
(* A run polls the source until the window is over, appending every answer *)
(* to the evidence file; then it reads the file back and signs one report  *)
(* per asset, in the order of its configuration. A restarted process knows *)
(* only its files: it goes through the whole schedule again, and the polls *)
(* whose time is past follow one another at once.                          *)
(*                                                                         *)
(* The clock counts slots of the source chain, so that an instant is also  *)
(* the newest block a quote may have.                                      *)
(***************************************************************************)
EXTENDS PriceReport

CONSTANTS
    AssetCount,         \* assets of the round, 1..AssetCount in order
    ChunkSize,          \* MAX_PRICE_REQUEST_MINTS
    AttestorCount,      \* REQUIRED_ATTESTOR_COUNT
    AttestorIndex,      \* attestor_index
    SampleInterval,     \* sample_interval_secs
    ProviderLimit,      \* provider_limit_milli_rps
    SubmissionGrace,    \* attestation_grace_secs of the source configuration
    QuotesAt,           \* the decimals the source may give for a price, by block
    Lags,               \* blocks by which a quote may be behind
    Missing,            \* an asset the answer omits
    NoRelay,            \* no report of the asset on chain
    MaxStarts,          \* bound: runs of the process
    LastInstant         \* bound: the clock

RoundAssets == 1..AssetCount

\* The assets of the request number k of a poll.
Chunk(k) == {a \in RoundAssets : (a - 1) \div ChunkSize = k - 1}

Chunks == (AssetCount + ChunkSize - 1) \div ChunkSize

\* What AttestorConfig::load refuses, with ReportPolicyAssumption.
ConfigAccepted ==
    /\ AssetCount \in Nat \ {0} /\ ChunkSize \in Nat \ {0}
    /\ AttestorIndex \in 0..(AttestorCount - 1)
    /\ PlanFits(AttestorCount, Chunks, SampleInterval, ProviderLimit)

ASSUME WorkerAssumption == ConfigAccepted

VARIABLES
    clock,
    worker,         \* "stopped", "sleeping", "requesting", "reporting", "failed", "done"
    poll,           \* iteration of the sampling loop
    request,        \* the request of the poll that is under way
    observedAt,     \* observed_at_unix_ms, read once per poll
    evidence,       \* the records that were written whole, in order
    evidenceFile,   \* how its last line ends: "whole", "unterminated" or "torn"
    toReport,       \* the asset whose report is next
    signed,         \* the reports that were written whole, in order
    reportFile,     \* as evidenceFile
    relayed,        \* the PriceAttestation accounts of this attestor, by asset
    starts

pollVars == <<poll, request, observedAt>>
evidenceVars == <<evidence, evidenceFile>>
reportVars == <<toReport, signed, reportFile>>
workerVars == <<clock, worker, pollVars, evidenceVars, reportVars, relayed, starts>>

WorkerInit ==
    /\ clock = 0
    /\ worker = "stopped"
    /\ poll = 0 /\ request = 1 /\ observedAt = 0
    /\ evidence = <<>> /\ evidenceFile = "whole"
    /\ toReport = 1 /\ signed = <<>> /\ reportFile = "whole"
    /\ relayed = [a \in RoundAssets |-> NoRelay]
    /\ starts = 0

TickSlot ==
    /\ clock < LastInstant
    /\ clock' = clock + 1
    /\ UNCHANGED <<worker, pollVars, evidenceVars, reportVars, relayed, starts>>

------------------------------------------------------------------------------
\* Mutated form: the file is created anew.
TruncatedOnOpen(records) == <<>>

\* open_append keeps what the file holds.
KeptOnOpen(records) == records

\* A line is appended whole to a whole file; after a line that lacks its end
\* it becomes part of that line, which no longer parses.
Append1(records, file, record) == IF file = "whole" THEN Append(records, record) ELSE records
AfterAppend(file) == IF file = "whole" THEN "whole" ELSE "torn"

\* read_jsonl refuses the file for one line that does not parse.
Readable(file) == file # "torn"

\* samples_for_mint and max_source_block_id over the records of this phase.
SamplesFor(asset, records) ==
    FlattenSeq([i \in DOMAIN records |->
        IF asset \in DOMAIN records[i] THEN <<records[i][asset]>> ELSE <<>>])

BlocksSeen(records) ==
    UNION {{records[i][a].block : a \in DOMAIN records[i]} : i \in DOMAIN records}

------------------------------------------------------------------------------
ScheduledAt(k) ==
    SampledFrom + StaggerOffset(AttestorCount, AttestorIndex, SampleInterval)
                + SampleInterval * k

\* Someone starts the process, the first time or again.
StartRun ==
    /\ worker \in {"stopped", "failed", "done"}
    /\ starts < MaxStarts
    /\ starts' = starts + 1
    /\ worker' = "sleeping"
    /\ poll' = 0 /\ request' = 1 /\ observedAt' = 0
    /\ evidence' = KeptOnOpen(evidence)
    /\ UNCHANGED <<clock, evidenceFile, reportVars, relayed>>

\* sleep_until_millis returns at once when the time is past.
BeginPoll ==
    /\ worker = "sleeping"
    /\ ScheduledAt(poll) < SampledUntil
    /\ clock >= ScheduledAt(poll)
    /\ worker' = "requesting"
    /\ observedAt' = clock
    /\ UNCHANGED <<clock, poll, request, evidenceVars, reportVars, relayed, starts>>

\* What the source may answer at this instant for the assets of a request.
Quotes ==
    UNION {{[block |-> b, usdPrice |-> d] : d \in QuotesAt[b]} :
               b \in {clock - lag : lag \in Lags} \cap Nat}

Answers == [Chunk(request) -> Quotes \cup {Missing}]

\* parse_jupiter_price_response: an omitted asset is left out, one unusable
\* price refuses the answer. A refused or failed request leaves a record
\* without observations.
Observations(answer) ==
    LET given == {a \in DOMAIN answer : answer[a] # Missing} IN
    IF \A a \in given : UsableDecimal(answer[a].usdPrice)
    THEN [a \in given |-> [block |-> answer[a].block, at |-> observedAt,
                           price |-> ScaledDecimal(answer[a].usdPrice)]]
    ELSE <<>>

NextRequest ==
    \/ /\ request < Chunks
       /\ request' = request + 1
       /\ UNCHANGED <<worker, poll, observedAt>>
    \/ /\ request = Chunks
       /\ worker' = "sleeping"
       /\ poll' = poll + 1 /\ request' = 1 /\ observedAt' = 0

\* The answer comes, or does not, after any time.
RecordAnswer ==
    /\ worker = "requesting"
    /\ \E record \in {Observations(answer) : answer \in Answers} \cup {<<>>} :
           evidence' = Append1(evidence, evidenceFile, record)
    /\ evidenceFile' = AfterAppend(evidenceFile)
    /\ NextRequest
    /\ UNCHANGED <<clock, reportVars, relayed, starts>>

\* The schedule is exhausted: the files are read back.
EndCollection ==
    /\ worker = "sleeping"
    /\ ScheduledAt(poll) >= SampledUntil
    /\ worker' = IF /\ Readable(evidenceFile) /\ Readable(reportFile)
                    /\ BlocksSeen(evidence) # {}
                 THEN "reporting" ELSE "failed"
    /\ toReport' = 1
    /\ UNCHANGED <<clock, pollVars, evidenceVars, signed, reportFile, relayed, starts>>

Report(asset, records) ==
    CanonicalReport(asset, SamplesFor(asset, records), Max(BlocksSeen(records)))

Reportable(asset, records) ==
    /\ BlocksSeen(records) # {}
    /\ EnoughEvidence(SamplesFor(asset, records), Max(BlocksSeen(records)))

\* Mutated form: a report that differs is taken for another report.
SameReport(left, right) == left = right

\* same_logical_report: the round, the phase and the attestor are fixed here.
SameLogicalReport(left, right) == left.asset = right.asset

Earlier(report) == {r \in ToSet(signed) : SameLogicalReport(r, report)}

NextAsset ==
    /\ toReport' = toReport + 1
    /\ worker' = IF toReport = AssetCount THEN "done" ELSE worker

EmitReport ==
    /\ worker = "reporting"
    /\ Reportable(toReport, evidence)
    /\ Earlier(Report(toReport, evidence)) = {}
    /\ signed' = Append1(signed, reportFile, Report(toReport, evidence))
    /\ reportFile' = AfterAppend(reportFile)
    /\ NextAsset
    /\ UNCHANGED <<clock, pollVars, evidenceVars, relayed, starts>>

KeepReport ==
    /\ worker = "reporting"
    /\ Reportable(toReport, evidence)
    /\ Report(toReport, evidence) \in Earlier(Report(toReport, evidence))
    /\ NextAsset
    /\ UNCHANGED <<clock, pollVars, evidenceVars, signed, reportFile, relayed, starts>>

\* An asset without enough evidence, or with another report on file, ends the
\* run, and the assets after it are not reported.
FailReport ==
    /\ worker = "reporting"
    /\ Reportable(toReport, evidence) =>
           /\ Earlier(Report(toReport, evidence)) # {}
           /\ Report(toReport, evidence) \notin Earlier(Report(toReport, evidence))
    /\ worker' = "failed"
    /\ UNCHANGED <<clock, pollVars, evidenceVars, reportVars, relayed, starts>>

------------------------------------------------------------------------------
\* The process dies between two steps, or while it appends: the line is cut
\* off inside, or just before its end.
CrashBetween ==
    /\ worker \in {"sleeping", "requesting", "reporting"}
    /\ worker' = "stopped"
    /\ UNCHANGED <<clock, pollVars, evidenceVars, reportVars, relayed, starts>>

CrashInEvidence ==
    /\ worker = "requesting"
    /\ worker' = "stopped"
    /\ \/ evidenceFile' = "torn" /\ UNCHANGED evidence
       \/ /\ evidenceFile = "whole" /\ evidenceFile' = "unterminated"
          /\ \E answer \in Answers : evidence' = Append(evidence, Observations(answer))
    /\ UNCHANGED <<clock, pollVars, reportVars, relayed, starts>>

CrashInReport ==
    /\ worker = "reporting"
    /\ Reportable(toReport, evidence)
    /\ Earlier(Report(toReport, evidence)) = {}
    /\ worker' = "stopped"
    /\ \/ reportFile' = "torn" /\ UNCHANGED signed
       \/ /\ reportFile = "whole" /\ reportFile' = "unterminated"
          /\ signed' = Append(signed, Report(toReport, evidence))
    /\ UNCHANGED <<clock, pollVars, evidenceVars, toReport, relayed, starts>>

\* The program measures the age of a report again when it is submitted.
SubmitSignedReport(r) ==
    /\ clock >= SampledUntil /\ clock <= SampledUntil + SubmissionGrace
    /\ relayed[r.asset] = NoRelay
    /\ r.observations >= MinObservations /\ r.blocks >= MinSourceBlocks
    /\ r.last <= clock /\ clock - r.last <= MaxSourceBlockLag
    /\ relayed' = [relayed EXCEPT ![r.asset] = r]

\* A relayer sends a report as it found it in the file, at any time.
RelayReport(r) ==
    /\ SubmitSignedReport(r)
    /\ UNCHANGED <<clock, worker, pollVars, evidenceVars, reportVars, starts>>

WorkerNext ==
    \/ TickSlot
    \/ StartRun
    \/ BeginPoll
    \/ RecordAnswer
    \/ EndCollection
    \/ EmitReport
    \/ KeepReport
    \/ FailReport
    \/ CrashBetween
    \/ CrashInEvidence
    \/ CrashInReport
    \/ \E r \in ToSet(signed) : RelayReport(r)

WorkerSpec == WorkerInit /\ [][WorkerNext]_workerVars

------------------------------------------------------------------------------
Reported(asset) == \E r \in ToSet(signed) : r.asset = asset

(***************************************************************************)
(* Every report that was signed can be made again from the records up to   *)
(* some line of the evidence, however often the process died and however   *)
(* much it polled again afterwards.                                        *)
(***************************************************************************)
ReportsReplayFromEvidence ==
    \A r \in ToSet(signed) :
        \E n \in 1..Len(evidence) :
            /\ Reportable(r.asset, SubSeq(evidence, 1, n))
            /\ r = Report(r.asset, SubSeq(evidence, 1, n))

(***************************************************************************)
(* An attestor never contradicts itself: whatever a later run makes of the *)
(* evidence it adds, there is one report per asset, and it is the one that *)
(* the program got.                                                        *)
(***************************************************************************)
AttestorNeverContradictsItself ==
    /\ \A i, j \in DOMAIN signed : signed[i].asset = signed[j].asset => i = j
    /\ \A a \in RoundAssets :
           relayed[a] # NoRelay => relayed[a] \in ToSet(signed)

(***************************************************************************)
(* attestor.rs: the worker "emits one signed report per asset and phase":  *)
(* a run that has ended has left out no asset with enough evidence.        *)
(***************************************************************************)
EvidencedAssetsReported ==
    worker \in {"failed", "done"} /\ Readable(evidenceFile) /\ Readable(reportFile) =>
        \A a \in RoundAssets :
            Reportable(a, evidence) /\ ScheduledAt(poll) >= SampledUntil => Reported(a)

=============================================================================
