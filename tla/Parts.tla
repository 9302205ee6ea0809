------------------------------- MODULE Parts -------------------------------
(***************************************************************************)
(* The smaller parts of a session, each on its own small instance: a       *)
(* behaviour chooses one of them and keeps to it. Their variables are told *)
(* apart by renaming those that share a name.                              *)
(***************************************************************************)
EXTENDS Broker, ModelCalls, Context, Subscriptions

CONSTANTS
    Agents, Files, Texts, Budget, MaxWrites, MaxLost,
    Requests, Pids, MaxRestarts,
    WatchIds, MaxReports,
    Sessions, Slots,
    Limited, MaxCompactions, MaxLength,
    PageSize, MaxLines,
    Servers, Tools, Cursors, Queries, Score(_, _), MaxPages, MaxSize

VARIABLES
    part,
    root, copy, rootNew, copyNew, sync, writes, lost, excused,
    hosted, record, mine, process, request, restarts,
    worker, running, reports, unsent, reply, polling, asked, listener, late, registered, heard,
    harness, link, serve, start, repl, shut, held, kernel, free, up,
    convo, opening, lastGood, floor, steering, before, turn, sent, snapshot, attempt,
    compacted, spent, prompted,
    lines, whole, logged, window, writer, page, asks, floorLine,
    listing, server, pages, cursors, size, catalog, walk, cursor, reported, ended

Skills == INSTANCE SkillsSync WITH call <- sync
Hosts == INSTANCE Services
Paths == INSTANCE Watches WITH sent <- reports, opening <- asked, queue <- heard
Workers == INSTANCE Worker
Talk == INSTANCE Transcript WITH stage <- turn, context <- convo
File == INSTANCE Ledger WITH count <- logged
Mcp == INSTANCE Catalog

skillsVars == <<root, copy, rootNew, copyNew, sync, writes, lost, excused>>
hostVars == <<hosted, record, mine, process, request, restarts>>
pathVars == <<worker, running, reports, unsent, reply, polling, asked, listener, late,
              registered, heard>>
slotVars == <<harness, link, serve, start, repl, shut, held, kernel, free, up>>
turnVars == <<depth, arrived, queue, inside, engine, totalTurns>>
talksVars == <<convo, opening, lastGood, floor, steering, before, turn, sent, snapshot,
               attempt, compacted, spent, prompted>>
filesVars == <<lines, whole, logged, window, writer, page, asks, floorLine>>
mcpVars == <<listing, server, pages, cursors, size, catalog, walk, cursor, reported, ended>>
allVars == <<part, brokerVars, contextVars, subVars, skillsVars, hostVars, pathVars, slotVars,
             turnVars, talksVars, filesVars, mcpVars>>
----------------------------------------------------------------------------
AllParts == {"broker", "context", "events", "skills", "services", "paths", "worker", "turns",
             "transcript", "ledger", "mcp"}

\* What a part may choose at its start is chosen only where it is the part that runs.
PartsInit ==
    /\ part \in AllParts
    /\ InitBroker /\ (part = "broker" \/ ~split)
    /\ InitContext
    /\ InitSubscriptions
    /\ Skills!InitSkills /\ (part = "skills" \/ rootNew = [a \in Agents |-> {}])
    /\ Hosts!InitServices /\ (part = "services" \/ ~hosted)
    /\ Paths!InitWatches
    /\ Workers!InitWorker
    /\ InitCalls /\ (part = "turns" \/ \A t \in DOMAIN depth : depth[t] = 0)
    /\ Talk!InitTalk
    /\ File!InitLedger
    /\ Mcp!InitCatalog

\* The parts that do not run; the others' variables follow in the order above.
Rest1 == UNCHANGED <<part, subVars, skillsVars, hostVars>>
Rest2 == UNCHANGED <<contextVars, pathVars, slotVars, turnVars>>
Rest3 == UNCHANGED <<talksVars, filesVars, mcpVars>>

BrokerSteps == part = "broker" /\ NextBroker /\ Rest1 /\ Rest2 /\ Rest3
ContextSteps ==
    /\ part = "context" /\ NextContext
    /\ UNCHANGED <<brokerVars, pathVars, slotVars, turnVars>> /\ Rest1 /\ Rest3
EventSteps ==
    /\ part = "events" /\ NextSubscriptions
    /\ UNCHANGED <<part, brokerVars, skillsVars, hostVars>> /\ Rest2 /\ Rest3
SkillSteps ==
    /\ part = "skills" /\ Skills!NextSkills
    /\ UNCHANGED <<part, brokerVars, subVars, hostVars>> /\ Rest2 /\ Rest3
ServiceSteps ==
    /\ part = "services" /\ Hosts!NextServices
    /\ UNCHANGED <<part, brokerVars, subVars, skillsVars>> /\ Rest2 /\ Rest3
PathSteps ==
    /\ part = "paths" /\ Paths!NextWatches
    /\ UNCHANGED <<brokerVars, contextVars, slotVars, turnVars>> /\ Rest1 /\ Rest3
WorkerSteps ==
    /\ part = "worker" /\ Workers!NextWorker
    /\ UNCHANGED <<brokerVars, contextVars, pathVars, turnVars>> /\ Rest1 /\ Rest3
TurnSteps ==
    /\ part = "turns" /\ NextCalls
    /\ UNCHANGED <<brokerVars, contextVars, pathVars, slotVars>> /\ Rest1 /\ Rest3
TalkSteps ==
    /\ part = "transcript" /\ Talk!NextTalk
    /\ UNCHANGED <<brokerVars, filesVars, mcpVars>> /\ Rest1 /\ Rest2
FileSteps ==
    /\ part = "ledger" /\ File!NextLedger
    /\ UNCHANGED <<brokerVars, talksVars, mcpVars>> /\ Rest1 /\ Rest2
McpSteps ==
    /\ part = "mcp" /\ Mcp!NextCatalog
    /\ UNCHANGED <<brokerVars, talksVars, filesVars>> /\ Rest1 /\ Rest2

PartsNext ==
    \/ BrokerSteps \/ ContextSteps \/ EventSteps \/ SkillSteps \/ ServiceSteps \/ PathSteps
    \/ WorkerSteps \/ TurnSteps \/ TalkSteps \/ FileSteps \/ McpSteps

PartsSpec == PartsInit /\ [][PartsNext]_allVars
----------------------------------------------------------------------------
\* SkillsSync: what differs between the root and a mirror is still to be sent, but for
\* the two cases the module names.
NoDrift == Skills!NoDrift

\* Services: the service that runs is the one on record, and no stranger is taken for it.
RecordIsService == Hosts!OneServiceOnRecord /\ Hosts!StrangerIsNotMine

\* Watches: no report of a watch is missed, and a reader is told when none can follow.
ReportsAreHeard == Paths!NoReportMissed /\ Paths!EndOfPollIsTold

\* Worker: a slot of the listener is free or serves a session, and a kernel the
\* harness was given ends with its session.
SessionsAreCleared == Workers!SlotsAreReturned /\ Workers!KernelEndsWithSession

\* Transcript: no request has a result without its call or, as long as max_tokens is not
\* reached, a call without its results.
RequestsAreWhole == Talk!NoResultOrphaned /\ Talk!EveryCallAnswered

\* Ledger: a history read while the ledger is written loads and is whole.
HistoryIsWhole == File!HistoryIsWhole

\* Catalog: the tools known are those reported to the end, and a search shows each once.
ToolsAreWhole == Mcp!CatalogIsWhole /\ Mcp!MatchesOnce
=============================================================================
