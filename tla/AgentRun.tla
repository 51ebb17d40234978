------------------------------ MODULE AgentRun ------------------------------
(***************************************************************************)
(* One level: N agents at once, each in a container of its own, drive the   *)
(* model through the scenario's phases (run_sdd_scenario), their calls      *)
(* passing the de-streaming proxy; then the gates score their workspaces    *)
(* one after the other (bench_sdd._score_level, run_gates) and bench_report *)
(* makes the level's record.                                                *)
(*                                                                         *)
(* An agent acts through the tool calls it hears: it writes into its        *)
(* workspace, or wipes all of /out with a shell command.  Text is a model   *)
(* value, the work done in a phase is the phase itself, and a gate asks for *)
(* the work of some phases.  claude, LiteLLM and vLLM are external.         *)
(***************************************************************************)
EXTENDS Integers, Sequences, FiniteSets, FiniteSetsExt, SequencesExt

CONSTANTS
  N,              \* devs: agents of the level
  Phases,         \* how many phases the scenario has
  Needs,          \* of each gate: the phases whose work it asks for
  Completions,    \* what the model may decide on in one call
  Walls,          \* how long a phase may take, in seconds
  MinValidWall,   \* MIN_VALID_WALL_S
  MaxTurns,       \* --max-turns
  None            \* no text, no file

Agents == 1 .. N
Phase == 1 .. Phases
Gates == DOMAIN Needs
Tools == {"write", "wipe"}
Finish == {"stop", "tool_calls"}

ASSUME SizesAssumption ==
  {N, Phases, MaxTurns} \subseteq Nat \ {0} /\ Walls \subseteq Nat /\ MinValidWall \in Nat
ASSUME GatesAssumption == IsFiniteSet(Gates) /\ \A g \in Gates : Needs[g] \subseteq Phase
ASSUME CompletionsAssumption ==
  \A c \in Completions :
    /\ c = [content |-> c.content, tools |-> c.tools, finish |-> c.finish]
    /\ c.tools \in Seq(Tools) /\ c.finish \in Finish
ASSUME NoneAssumption == None \notin [Phase -> [tokens : Nat, wall : Nat]]

VARIABLES
  pc,       \* of each agent's container: "phase", "ended" or "cut" (claude is, with or without
            \* a result event), "writing", "exited", "unreadable" or "crashed" (its process is),
            \* "died" (the container is)
  phase,    \* the phase it is in
  turns,    \* completions of this phase
  disk,     \* its /out: the workspace and the work in it, transcripts, generation.json
  metrics,  \* phase_metrics
  record,   \* its agent_record
  level,    \* the dev_record
  spent     \* history: completions and seconds over all its phases, and the completions of
            \* those that ended without a result event

vars == <<pc, phase, turns, disk, metrics, record, level, spent>>

Running == {"phase", "ended", "cut", "writing"}

Empty == [workspace |-> FALSE, work |-> {}, transcripts |-> {}, generation |-> None]

Init ==
  /\ pc = [a \in Agents |-> "phase"] /\ phase = [a \in Agents |-> 1]
  /\ turns = [a \in Agents |-> 0]
  /\ disk = [a \in Agents |-> [Empty EXCEPT !.workspace = TRUE]]
  /\ metrics = [a \in Agents |-> <<>>]
  /\ record = [a \in Agents |-> None] /\ level = None
  /\ spent = [a \in Agents |-> [turns |-> 0, wall |-> 0, silent |-> 0]]

-----------------------------------------------------------------------------
(* destream_proxy.                                                           *)

\* vLLM's streaming parser leaks a tool call into the text.
Upstream(decided, stream) ==
  IF stream /\ decided.tools # <<>>
  THEN [content |-> "leaked", tools |-> <<>>, finish |-> "stop"]
  ELSE decided

\* Mutant: the request goes up as it came.
ForwardedAsIs(stream) == stream

\* body["stream"] = False
Forwarded(stream) == FALSE

\* Mutant: every tool call has the first index.
ChunksAtOne(c) ==
  <<[delta |-> "role"]>>
  \o (IF c.content = None THEN <<>> ELSE <<[delta |-> "content", text |-> c.content]>>)
  \o [i \in DOMAIN c.tools |-> [delta |-> "tool_calls", index |-> 1, tool |-> c.tools[i]]]
  \o <<[delta |-> "finish", reason |-> c.finish]>>

\* _chunks_from_completion: the role, the text if any, one chunk per tool call, the end.
Chunks(c) ==
  <<[delta |-> "role"]>>
  \o (IF c.content = None THEN <<>> ELSE <<[delta |-> "content", text |-> c.content]>>)
  \o [i \in DOMAIN c.tools |-> [delta |-> "tool_calls", index |-> i, tool |-> c.tools[i]]]
  \o <<[delta |-> "finish", reason |-> c.finish]>>

\* The client puts the deltas together again, tool calls by their index.
Reassembled(chunks) ==
  LET kind(k) == {i \in DOMAIN chunks : chunks[i].delta = k}
      indices == {chunks[i].index : i \in kind("tool_calls")}
  IN [content |-> IF kind("content") = {} THEN None ELSE chunks[Max(kind("content"))].text,
      tools |-> [x \in indices |->
                   chunks[Max({i \in kind("tool_calls") : chunks[i].index = x})].tool],
      finish |-> chunks[Max(kind("finish"))].reason]

\* do_POST on chat/completions: what the client gets of what the model decided on.
Heard(decided, stream) ==
  LET completion == Upstream(decided, Forwarded(stream))
  IN IF stream THEN Reassembled(Chunks(completion)) ELSE completion

-----------------------------------------------------------------------------
(* The agent: claude in a phase.                                             *)

\* A tool call on /out; writing makes the workspace again.
Use(files, tool, p) ==
  IF tool = "wipe" THEN Empty
  ELSE [files EXCEPT !.workspace = TRUE, !.work = @ \cup {p}]

UseAll(files, tools, p) == FoldLeft(LAMBDA f, tool : Use(f, tool, p), files, tools)

\* Claude Code always streams; it goes on while it hears tool calls and has turns left.
Call(a) ==
  /\ pc[a] = "phase" /\ turns[a] < MaxTurns
  /\ \E decided \in Completions :
       LET heard == Heard(decided, TRUE)
           last == heard.finish = "stop" \/ turns[a] + 1 = MaxTurns
       IN /\ disk' = [disk EXCEPT ![a] = UseAll(@, heard.tools, phase[a])]
          /\ pc' = [pc EXCEPT ![a] = IF last THEN "ended" ELSE "phase"]
  /\ turns' = [turns EXCEPT ![a] = @ + 1]
  /\ spent' = [spent EXCEPT ![a].turns = @ + 1]
  /\ UNCHANGED <<phase, metrics, record, level>>

\* A call that fails (an HTTP error is passed on, any other failure drops the connection) is
\* tried again by claude, until it gives up and says so in its result event; or claude
\* crashes or is killed, and the transcript ends without one.
GiveUp(a) ==
  /\ pc[a] = "phase"
  /\ \E end \in {"ended", "cut"} : pc' = [pc EXCEPT ![a] = end]
  /\ UNCHANGED <<phase, turns, disk, metrics, record, level, spent>>

-----------------------------------------------------------------------------
(* run_sdd_scenario.run.                                                     *)

\* Mutant: the directories are those made at the start.
MakeDirsNot(files) == files

\* mkdir(parents=True, exist_ok=True) before every write.
MakeDirs(files) == [files EXCEPT !.workspace = TRUE]

\* Mutant: one phase more.
FollowingLate(p) == IF p > Phases THEN "writing" ELSE "phase"

\* The loop over the phases.
Following(p) == IF p = Phases THEN "writing" ELSE "phase"

\* parse_metrics: the tokens are those of the result event, of which there may be none.
TokensOf(a) == IF pc[a] = "ended" THEN turns[a] ELSE 0

\* claude has exited: the transcript is written, then parsed; a line that is no JSON ends
\* the process, with the phases so far.
EndPhase(a) ==
  /\ pc[a] \in {"ended", "cut"}
  /\ LET files == MakeDirs(disk[a]) IN
     \E wall \in Walls, readable \in BOOLEAN :
       /\ disk' = [disk EXCEPT ![a] =
                     IF files.workspace THEN [files EXCEPT !.transcripts = @ \cup {phase[a]}]
                     ELSE files]
       /\ pc' = [pc EXCEPT ![a] = IF ~files.workspace THEN "crashed"
                                  ELSE IF ~readable THEN "unreadable"
                                  ELSE Following(phase[a])]
       /\ metrics' = IF files.workspace /\ readable
                     THEN [metrics EXCEPT ![a] =
                             Append(@, [tokens |-> TokensOf(a), wall |-> wall])]
                     ELSE metrics
       /\ spent' = [spent EXCEPT ![a] =
                       [turns |-> @.turns, wall |-> @.wall + wall,
                        silent |-> IF pc[a] = "cut" THEN @.silent + turns[a] ELSE @.silent]]
  /\ phase' = [phase EXCEPT ![a] = IF pc'[a] = "phase" THEN @ + 1 ELSE @]
  /\ turns' = [turns EXCEPT ![a] = 0]
  /\ UNCHANGED <<record, level>>

\* generation.json
WriteGeneration(a) ==
  /\ pc[a] = "writing"
  /\ disk' = [disk EXCEPT ![a].generation = metrics[a]]
  /\ pc' = [pc EXCEPT ![a] = "exited"]
  /\ UNCHANGED <<phase, turns, metrics, record, level, spent>>

\* The container is killed from outside.  (After an abort there is no scoring: BenchRun.)
Die(a) ==
  /\ pc[a] \in Running
  /\ pc' = [pc EXCEPT ![a] = "died"]
  /\ UNCHANGED <<phase, turns, disk, metrics, record, level, spent>>

-----------------------------------------------------------------------------
(* Scoring: run_gates in a container, agent_record, dev_record.              *)

\* gates.run_gates; without the workspace it raises and no hard-score.json is written.
HardScore(files) ==
  IF files.workspace THEN [g \in Gates |-> Needs[g] \subseteq files.work] ELSE None

\* Mutant: no gate failed.
AllPassedOfAny(results) == results = None \/ \A g \in DOMAIN results : results[g]

\* passed = bool(gates) and all(...)
AllPassed(results) ==
  results # None /\ DOMAIN results # {} /\ \A g \in DOMAIN results : results[g]

\* agent_record: no hard-score.json, no gates passed; no generation.json, no tokens.
AgentRecord(hard, generation, timedOut) ==
  LET total(field) ==
        IF generation = None THEN 0
        ELSE FoldLeft(LAMBDA sum, m : sum + m[field], 0, generation)
  IN [passed |-> AllPassed(hard) /\ ~timedOut, gate_timeout |-> timedOut,
      tokens |-> total("tokens"), wall |-> total("wall")]

\* Every container is gone.  The gates of the next agent run to their end, or do not start,
\* or are stopped after GATES_TIMEOUT, in which case what they wrote is not looked at.
Score(a) ==
  /\ \A b \in Agents : pc[b] \notin Running
  /\ record[a] = None /\ \A b \in Agents : b < a => record[b] # None
  /\ \E gates \in {"ran", "failed", "timed out"} :
       LET hard == IF gates = "ran" THEN HardScore(disk[a]) ELSE None
       IN record' = [record EXCEPT ![a] =
            AgentRecord(hard, disk[a].generation, gates = "timed out")]
  /\ UNCHANGED <<pc, phase, turns, disk, metrics, level, spent>>

\* The j-th smallest value of f, and twice the median.
Ranked(f, j) ==
  CHOOSE x \in {f[a] : a \in Agents} :
    /\ Cardinality({a \in Agents : f[a] < x}) < j
    /\ Cardinality({a \in Agents : f[a] <= x}) >= j
\* Mutant: the time of all agents together.
TwiceMedianSum(f) == 2 * FoldFunction(LAMBDA x, sum : x + sum, 0, f)
TwiceMedian(f) == Ranked(f, (N + 1) \div 2) + Ranked(f, N \div 2 + 1)

\* dev_record
EndLevel ==
  /\ level = None /\ \A a \in Agents : record[a] # None
  /\ level' = [agents_ok |-> Cardinality({a \in Agents : record[a].passed}),
               valid |-> TwiceMedian([a \in Agents |-> record[a].wall]) >= 2 * MinValidWall,
               tokens_per_dev |-> TwiceMedian([a \in Agents |-> record[a].tokens]) \div 2]
  /\ UNCHANGED <<pc, phase, turns, disk, metrics, record, spent>>

Next ==
  \/ \E a \in Agents :
       Call(a) \/ GiveUp(a) \/ EndPhase(a) \/ WriteGeneration(a) \/ Die(a) \/ Score(a)
  \/ EndLevel
  \/ level # None /\ UNCHANGED vars   \* the only place to stop

Spec == Init /\ [][Next]_vars

-----------------------------------------------------------------------------
(* Properties.                                                               *)

\* What the variables hold.
TypeOK ==
  /\ pc \in [Agents -> Running \cup {"exited", "unreadable", "crashed", "died"}]
  /\ phase \in [Agents -> Phase] /\ turns \in [Agents -> 0 .. MaxTurns]
  /\ \A a \in Agents :
       /\ disk[a].workspace \in BOOLEAN
       /\ disk[a].work \subseteq Phase /\ disk[a].transcripts \subseteq Phase
       /\ disk[a].generation \in {None, metrics[a]}
       /\ Len(metrics[a]) <= Phases
       /\ record[a] # None => record[a].passed \in BOOLEAN /\ record[a].tokens \in Nat
  /\ level # None => level.agents_ok \in 0 .. N /\ level.tokens_per_dev \in Nat

\* An agent hears what the model decided on, text, tool calls in their order and the end,
\* whether it asked for a stream or not (destream_proxy's reason to be).
HearsWhatWasDecided ==
  \A a \in Agents : pc[a] = "phase" =>
    \A decided \in Completions, stream \in BOOLEAN : Heard(decided, stream) = decided

\* An agent passes only on work that is there when the gates run, that none of its own
\* later commands destroyed, and that every gate was asked about within GATES_TIMEOUT; a
\* scoring that did not take place is no success.
PassedWorkIsThere ==
  \A a \in Agents : record[a] # None /\ record[a].passed =>
    /\ ~record[a].gate_timeout
    /\ Gates # {} /\ disk[a].workspace /\ UNION {Needs[g] : g \in Gates} \subseteq disk[a].work

\* A model that wipes /out costs the run its own work and nothing else: the scenario goes on
\* to its end, and the report has the time of all phases, those before the wipe too, and
\* their tokens, but for the phases that claude ended without a result event, which count
\* none (run_sdd_scenario: "the destruction surfaces as gate failures, not a crash").
WipedWorkIsStillMeasured ==
  \A a \in Agents :
    /\ pc[a] # "crashed"
    /\ pc[a] = "exited" => Len(disk[a].generation) = Phases
    /\ record[a] # None /\ pc[a] = "exited" =>
         /\ record[a].tokens = spent[a].turns - spent[a].silent
         /\ record[a].wall = spent[a].wall

\* A level counts as valid only if at least half of its agents really worked as long as
\* MIN_VALID_WALL_S, and if more than half did and left their generation.json it is valid.
GarbageLevelIsInvalid ==
  LET worked(a) == spent[a].wall >= MinValidWall
      half(S) == 2 * Cardinality(S) >= N
      most(S) == 2 * Cardinality(S) > N
  IN level # None =>
       /\ level.valid => half({a \in Agents : worked(a)})
       /\ most({a \in Agents : worked(a) /\ pc[a] = "exited"}) => level.valid
       /\ level.agents_ok = Cardinality({a \in Agents : record[a].passed})
=============================================================================
