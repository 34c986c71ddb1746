--------------------------- MODULE Collaboration ---------------------------
(***************************************************************************)
(* Structured multi-agent collaboration: one session on its blackboard     *)
(* (services/collaboration_service.py, services/blackboard_service.py),    *)
(* the CoalitionWorkflow that drives it through Temporal activities        *)
(* (workflows/coalition_workflow.py), requests to the advance endpoint     *)
(* that contribute to the same session, and the event stream a panel       *)
(* watches (api/v1/collaborations.py).                                     *)
(*                                                                         *)
(* advance_phase is two transactions at READ COMMITTED without a lock on   *)
(* the session: the first reads the session, checks the agent and appends  *)
(* the entry; its commit expires the session object, so the second reads   *)
(* the row again before it computes the next phase and commits.  Each is   *)
(* split where another transaction may commit.                             *)
(***************************************************************************)
EXTENDS Integers, Sequences, FiniteSets, SequencesExt, FiniteSetsExt

CONSTANTS Patterns,      \* the patterns a session may follow here
          Casts,         \* role_assignments: functions from roles to agents
          RoundLimits,   \* max_rounds of a session created by a request
          Driven,        \* the patterns whose sessions a CoalitionWorkflow may drive
          Requests,      \* clients of the advance endpoint
          Joint,         \* the patterns whose driven sessions they contribute to, too
          Panels,        \* panels on the event stream
          MaxEntries,    \* bound on a blackboard that clients post to, by pattern
          MaxCrashes     \* bound on the crashes of a process

PatternPhases == [
  propose_critique_revise |-> <<"propose", "critique", "revise", "verify">>,
  plan_verify             |-> <<"propose", "verify">>,
  research_synthesize     |-> <<"research", "synthesize", "verify">>,
  debate_resolve          |-> <<"propose", "debate", "resolve">>,
  incident_investigation  |-> <<"triage", "investigate", "analyze", "command">>]

PhaseRoles == [
  propose |-> <<"planner">>,        critique |-> <<"critic">>,      revise |-> <<"planner">>,
  verify |-> <<"verifier">>,        synthesize |-> <<"synthesizer">>, research |-> <<"researcher">>,
  debate |-> <<"critic", "planner">>, resolve |-> <<"synthesizer">>,  triage |-> <<"triage_agent">>,
  investigate |-> <<"investigator">>, analyze |-> <<"analyst">>,      command |-> <<"commander">>]

(* The phases whose entries are proposals or syntheses. *)
Drafting == {"propose", "revise", "synthesize", "command"}

(* A JSONB object comes back with its keys by length, then bytewise. *)
RoleOrder == <<"critic", "analyst", "planner", "verifier", "commander", "researcher",
               "synthesizer", "investigator", "triage_agent">>

Phases == DOMAIN PhaseRoles
Agents == UNION {{cast[role] : role \in DOMAIN cast} : cast \in Casts}
RolesOf(p) == UNION {ToSet(PhaseRoles[p[i]]) : i \in DOMAIN p}
Worker == "worker"
Threads == Requests \cup {Worker}

ASSUME CollaborationAssumption ==
  /\ Patterns \subseteq DOMAIN PatternPhases
  /\ \A cast \in Casts : DOMAIN cast \subseteq ToSet(RoleOrder)
  /\ RoundLimits \subseteq 1..10 /\ Driven \subseteq Patterns /\ Joint \subseteq Driven
  /\ Worker \notin Requests
  /\ MaxEntries \in [Patterns -> Nat] /\ MaxCrashes \in Nat

VARIABLES
  session,   \* the row of collaboration_sessions
  board,     \* blackboard_entries; an entry's board_version is its position
  thread,    \* a running advance_phase, per request and for the worker's activity
  flow,      \* the CoalitionWorkflow
  panel,     \* the panels' streams
  crashes

vars == <<session, board, thread, flow, panel, crashes>>

Idle == [at |-> "idle", agent |-> "", agrees |-> "omitted", phase |-> "", wrote |-> "",
         entry |-> 0, loaded |-> <<>>]

Path == PatternPhases[session.pattern]
Phase(row) == PatternPhases[row.pattern][row.index]

(* create_session accepts a cast that fills every role of the pattern. *)
Init ==
  /\ session \in [pattern : Patterns, roles : Casts, status : {"active"}, index : {1}, rounds : {0},
                  limit : RoundLimits \cup {Len(PatternPhases[p]) : p \in Driven},
                  consensus : {""}, outcome : {0}]
  /\ RolesOf(Path) \subseteq DOMAIN session.roles
  /\ board = <<>>
  /\ thread = [c \in Threads |-> Idle]
  /\ flow \in [at : IF session.pattern \in Driven THEN {"none", "prepare"} ELSE {"none"}, step : {1},
               attempt : {1}, agent : {""}, phase : {""}, why : {""}, report : {0}]
  /\ session.limit \in (IF flow.at = "none" THEN RoundLimits ELSE {Len(Path)})
  /\ panel = [v \in Panels |-> [at |-> "closed", shown |-> <<>>, seen |-> {}]]
  /\ crashes = 0

-----------------------------------------------------------------------------
(* advance_phase. *)

(* The agent's role is the first the assignments give it. *)
RoleOf(row, agent) ==
  LET held == {i \in DOMAIN RoleOrder : /\ RoleOrder[i] \in DOMAIN row.roles
                                        /\ row.roles[RoleOrder[i]] = agent} IN
  IF held = {} THEN "" ELSE RoleOrder[Min(held)]

MayContribute(row, agent, agrees) ==
  /\ row.status = "active"
  /\ row.index = Len(PatternPhases[row.pattern]) => agrees # "omitted"
  /\ RoleOf(row, agent) \in ToSet(PhaseRoles[Phase(row)])

(* Read the session and check; nothing happens to a request that is refused. *)
BeginAdvance(c, agent, agrees, wrote) ==
  /\ thread[c].at = "idle" /\ MayContribute(session, agent, agrees)
  /\ thread' = [thread EXCEPT ![c] = [Idle EXCEPT !.at = "checked", !.agent = agent, !.agrees = agrees,
                                                  !.phase = Phase(session), !.wrote = wrote]]

(* Mutant of AddEntry: the phase is read again, after the check. *)
AddEntryNow(c) ==
  /\ thread[c].at = "checked" /\ (c \in Requests => Len(board) < MaxEntries[session.pattern])
  /\ board' = Append(board, [phase |-> Phase(session), agent |-> thread[c].agent,
                             wrote |-> thread[c].wrote])
  /\ thread' = [thread EXCEPT ![c].at = "posted", ![c].entry = Len(board) + 1]
  /\ UNCHANGED <<session, flow, panel, crashes>>
(* add_entry: the version and the entry, under the lock of the board's row. *)
AddEntry(c) ==
  /\ thread[c].at = "checked" /\ (c \in Requests => Len(board) < MaxEntries[session.pattern])
  /\ board' = Append(board, [phase |-> thread[c].phase, agent |-> thread[c].agent,
                             wrote |-> thread[c].wrote])
  /\ thread' = [thread EXCEPT ![c].at = "posted", ![c].entry = Len(board) + 1]
  /\ UNCHANGED <<session, flow, panel, crashes>>

ReloadSession(c) ==
  /\ thread[c].at = "posted"
  /\ thread' = [thread EXCEPT ![c].at = "loaded", ![c].loaded = session]
  /\ UNCHANGED <<session, board, flow, panel, crashes>>

(* The last proposal or synthesis on the board, else the contribution itself. *)
TheContribution(entry) == entry                                \* mutant of Accepted: the verifier's note
Accepted(entry) ==
  LET drafts == {i \in DOMAIN board : board[i].phase \in Drafting} IN
  IF drafts = {} THEN entry ELSE Max(drafts)

LoopStart(p) == IF Contains(p, "critique") THEN CHOOSE i \in DOMAIN p : p[i] = "critique" ELSE 2

(* Mutant of Advanced: the end one phase early. *)
AdvancedEarly(row, agrees, entry) ==
  LET p == PatternPhases[row.pattern] IN
  IF row.index + 1 < Len(p) THEN [row EXCEPT !.index = @ + 1]
  ELSE [row EXCEPT !.rounds = @ + 1, !.status = "completed", !.outcome = Accepted(entry),
                   !.consensus = IF agrees = "yes" THEN "yes" ELSE "partial"]
Advanced(row, agrees, entry) ==
  LET p == PatternPhases[row.pattern] IN
  IF row.index < Len(p) THEN [row EXCEPT !.index = @ + 1]
  ELSE IF agrees # "yes" /\ row.rounds + 1 < row.limit
    THEN [row EXCEPT !.rounds = @ + 1, !.index = LoopStart(p)]
    ELSE [row EXCEPT !.rounds = @ + 1, !.status = "completed", !.outcome = Accepted(entry),
                     !.consensus = IF agrees = "yes" THEN "yes" ELSE "partial"]

(* The flush writes the columns whose value differs from the loaded one. *)
Flushed(new, loaded) == [f \in DOMAIN session |-> IF new[f] = loaded[f] THEN session[f] ELSE new[f]]

CommitAdvance(c) ==
  LET t   == thread[c]
      new == Advanced(t.loaded, t.agrees, t.entry) IN
  /\ t.at = "loaded"
  /\ session' = Flushed(new, t.loaded)
  /\ thread' = [thread EXCEPT ![c] = IF c = Worker THEN [t EXCEPT !.at = "advanced", !.loaded = new]
                                                  ELSE Idle]
  /\ UNCHANGED <<board, flow, panel, crashes>>

(* POST /collaborations/{id}/advance, by any agent with any verdict. *)
Request(c) ==
  /\ flow.at = "none" \/ session.pattern \in Joint
  /\ \E agent \in Agents, agrees \in {"yes", "no", "omitted"} :
       BeginAdvance(c, agent, agrees, Phase(session))
  /\ UNCHANGED <<session, board, flow, panel, crashes>>

-----------------------------------------------------------------------------
(* The workflow. *)

(* Mutant of Retried: no limit. *)
RetriedForever(why) == flow' = [flow EXCEPT !.why = why]
(* A failed or lost attempt is retried; after the third the workflow fails. *)
Retried(why) ==
  flow' = IF flow.attempt < 3 THEN [flow EXCEPT !.attempt = @ + 1, !.why = why]
                              ELSE [flow EXCEPT !.at = "failed", !.why = why]

(* prepare_collaboration_step: whose turn it is. *)
Prepared ==
  LET role == PhaseRoles[Phase(session)][1] IN
  [flow EXCEPT !.at = "cli", !.attempt = 1, !.agent = session.roles[role], !.phase = Phase(session)]

Prepare ==
  /\ flow.at = "prepare"
  /\ flow' = Prepared
  /\ UNCHANGED <<session, board, thread, panel, crashes>>

(* The child workflow answers, with a text or the text of an error, or fails
   by its execution timeout, and the workflow with it. *)
CliAnswers ==
  /\ flow.at = "cli"
  /\ flow' = [flow EXCEPT !.at = "record", !.attempt = 1]
  /\ UNCHANGED <<session, board, thread, panel, crashes>>
CliTimesOut ==
  /\ flow.at = "cli"
  /\ flow' = [flow EXCEPT !.at = "failed", !.why = "cli"]
  /\ UNCHANGED <<session, board, thread, panel, crashes>>

(* record_collaboration_step: an attempt always says that it agrees. *)
RecordBegins ==
  /\ flow.at = "record"
  /\ BeginAdvance(Worker, flow.agent, "yes", flow.phase)
  /\ UNCHANGED <<session, board, flow, panel, crashes>>

RecordRefused ==
  /\ flow.at = "record" /\ thread[Worker].at = "idle"
  /\ ~MayContribute(session, flow.agent, "yes")
  /\ Retried(IF session.status = "active" THEN "role" ELSE "inactive")
  /\ UNCHANGED <<session, board, thread, panel, crashes>>

-----------------------------------------------------------------------------
(* Redis pub/sub: who has subscribed gets it, nobody else ever will. *)

Live(v) == panel[v].at = "live"

HearsAgain(s, version) ==                                           \* mutant of Hears
  [s EXCEPT !.shown = Append(@, version), !.seen = @ \cup {version}]
Hears(s, version) ==
  IF version \in s.seen THEN s
  ELSE [s EXCEPT !.shown = Append(@, version), !.seen = @ \cup {version}]

RecordPublishes ==
  /\ thread[Worker].at = "advanced"
  /\ panel' = [v \in Panels |-> IF Live(v) THEN Hears(panel[v], thread[Worker].entry) ELSE panel[v]]
  /\ thread' = [thread EXCEPT ![Worker].at = "published"]
  /\ UNCHANGED <<session, board, flow, crashes>>

(* The loop ends when its step completed the session, or after max_rounds steps. *)
AfterStep ==
  [flow EXCEPT !.attempt = 1, !.step = @ + 1,
               !.at = IF thread[Worker].loaded.status = "completed" \/ flow.step >= session.limit
                        THEN "finalize" ELSE "prepare"]

RecordReturns ==
  /\ flow.at = "record" /\ thread[Worker].at = "published"
  /\ flow' = AfterStep
  /\ thread' = [thread EXCEPT ![Worker] = Idle]
  /\ UNCHANGED <<session, board, panel, crashes>>

(* finalize_collaboration: the panels are told and the outcome is reported. *)
Finalize ==
  /\ flow.at = "finalize"
  /\ panel' = [v \in Panels |-> IF Live(v) THEN [panel[v] EXCEPT !.at = "done"] ELSE panel[v]]
  /\ flow' = [flow EXCEPT !.at = "completed", !.report = session.outcome]
  /\ UNCHANGED <<session, board, thread, crashes>>

(* The process of an activity dies, or its result is lost: an open
   transaction is rolled back, a committed one stands, and the attempt times
   out. *)
WorkerCrash ==
  /\ crashes < MaxCrashes /\ flow.at \in {"prepare", "record", "finalize"}
  /\ crashes' = crashes + 1
  /\ thread' = [thread EXCEPT ![Worker] = Idle]
  /\ Retried("lost")
  /\ UNCHANGED <<session, board, panel>>

RequestCrash(c) ==
  /\ c \in Requests /\ crashes < MaxCrashes /\ thread[c].at # "idle"
  /\ crashes' = crashes + 1
  /\ thread' = [thread EXCEPT ![c] = Idle]
  /\ UNCHANGED <<session, board, flow, panel>>

-----------------------------------------------------------------------------
(* A panel's stream: the entries in the database first, then the channel. *)

CatchUp(v) ==
  /\ panel[v].at = "closed"
  /\ panel' = [panel EXCEPT ![v] = [at |-> "caught up", shown |-> [i \in 1..Len(board) |-> i],
                                    seen |-> 1..Len(board)]]
  /\ UNCHANGED <<session, board, thread, flow, crashes>>

Subscribe(v) ==
  /\ panel[v].at = "caught up"
  /\ panel' = [panel EXCEPT ![v].at = "live"]
  /\ UNCHANGED <<session, board, thread, flow, crashes>>

-----------------------------------------------------------------------------
AdvanceStep(c) == AddEntry(c) \/ ReloadSession(c) \/ CommitAdvance(c)
WorkflowStep == \/ Prepare \/ CliAnswers \/ RecordBegins \/ RecordRefused
                \/ AdvanceStep(Worker) \/ RecordPublishes \/ RecordReturns \/ Finalize

Next == \/ WorkflowStep \/ CliTimesOut \/ WorkerCrash
        \/ \E c \in Requests : Request(c) \/ AdvanceStep(c) \/ RequestCrash(c)
        \/ \E v \in Panels : CatchUp(v) \/ Subscribe(v)

Spec == Init /\ [][Next]_vars

(* Temporal schedules every task of the workflow and times out what is lost. *)
FairSpec == Spec /\ WF_vars(WorkflowStep)

-----------------------------------------------------------------------------
(* Properties. *)

TypeOK ==
  /\ session.pattern \in Patterns /\ session.roles \in Casts
  /\ session.status \in {"active", "completed"} /\ session.consensus \in {"", "yes", "partial"}
  /\ session.index \in DOMAIN Path /\ session.rounds \in Nat /\ session.limit \in 1..10
  /\ session.outcome \in 0..Len(board)
  /\ board \in Seq([phase : Phases, agent : Agents, wrote : Phases])
  /\ \A c \in Threads :
       /\ thread[c].at \in {"idle", "checked", "posted", "loaded", "advanced", "published"}
       /\ thread[c].agrees \in {"yes", "no", "omitted"}
       /\ thread[c].entry \in 0..Len(board)
  /\ flow.at \in {"none", "prepare", "cli", "record", "finalize", "completed", "failed"}
  /\ flow.attempt \in 1..3 /\ flow.report \in 0..Len(board)
  /\ \A v \in Panels : /\ panel[v].at \in {"closed", "caught up", "live", "done"}
                       /\ panel[v].seen = ToSet(panel[v].shown) /\ panel[v].seen \subseteq 1..Len(board)
  /\ crashes \in 0..MaxCrashes

(* Whoever speaks in a phase has a role the phase requires: also when another
   contribution moved the session on between the check and the entry. *)
EntriesByRole ==
  \A i \in DOMAIN board : RoleOf(session, board[i].agent) \in ToSet(PhaseRoles[board[i].phase])

(* One contributor at a time: a driven session takes no requests, another one
   those of a single client. *)
OneContributor ==
  IF flow.at = "none" THEN \A c, d \in Requests : c = d ELSE session.pattern \notin Joint

(* The agent that a driven pattern prepares for a phase may not speak in the
   next, so that no retry posts its text there. *)
RetryIsRefused ==
  \A p \in {PatternPhases[q] : q \in Driven}, cast \in Casts : RolesOf(p) \subseteq DOMAIN cast =>
    \A k \in 1..(Len(p) - 1) :
      RoleOf([roles |-> cast], cast[PhaseRoles[p[k]][1]]) \notin ToSet(PhaseRoles[p[k + 1]])

(* With one contributor the board replays the pattern, each phase once or,
   after a crash before the phase was advanced, again; a disagreement in the
   last phase starts another round; the session is where its last entry left
   it, and it is completed only from the last phase; and each text was written
   for the phase it is recorded in, also by a retry of the activity. *)
WrittenForPhase == \A i \in DOMAIN board : board[i].wrote = board[i].phase
Position(i) == CHOOSE k \in DOMAIN Path : Path[k] = board[i].phase
Successor(k) == IF k < Len(Path) THEN k + 1 ELSE LoopStart(Path)
PatternReplayed ==
  /\ WrittenForPhase
  /\ board # <<>> => Position(1) = 1
  /\ \A i \in 2..Len(board) : Position(i) \in {Position(i - 1), Successor(Position(i - 1))}
  /\ IF board = <<>>
       THEN session.index = 1
       ELSE LET last == Position(Len(board)) IN
            /\ session.index \in {last, Successor(last)}
            /\ session.status = "completed" => last = Len(Path)
BoardFollowsPattern == OneContributor => PatternReplayed

(* With one contributor a completed session has as its outcome a proposal or a
   synthesis, the last of its board and never the verifier's note; and its end
   is final: nothing is contributed or changed after it, by no retry either. *)
DraftIsOutcome ==
  session.status = "completed" =>
    /\ session.outcome \in DOMAIN board /\ board[session.outcome].phase \in Drafting
    /\ \A i \in DOMAIN board : board[i].phase \in Drafting => i <= session.outcome
    /\ session.consensus # ""
EndIsFinal == session.status = "completed" => UNCHANGED <<session, board>>
OutcomeIsAccepted == [](OneContributor => DraftIsOutcome) /\ [][OneContributor => EndIsFinal]_vars

(* A panel shows every entry once and in the order of the board, although the
   stream reads from the database and from the channel. *)
ShownInOrder == \A v \in Panels : \A i, k \in DOMAIN panel[v].shown : i < k => panel[v].shown[i] < panel[v].shown[k]

(* The workflow ends whatever is lost on the way. *)
WorkflowEnds == flow.at = "prepare" ~> flow.at \in {"completed", "failed"}

(* Stated by the repository, and not so: "All phases complete" where a session
   is completed; "No events lost" on a stream that is live; "use the first
   available agent as fallback" for every role. *)
AllPhasesComplete ==
  session.status = "completed" => \A k \in DOMAIN Path : \E i \in DOMAIN board : board[i].phase = Path[k]
NoEventsLost ==
  \A v \in Panels : Live(v) /\ thread[Worker].at = "published" => thread[Worker].entry \in panel[v].seen
                    /\ \A i \in DOMAIN board : i < thread[Worker].entry => i \in panel[v].seen
FallbackAgentIsHeard == flow.why # "role"
=============================================================================
