------------------------- MODULE ConversationMemory -------------------------
(***************************************************************************)
(* What the voice assistant's language model knows of a long conversation: *)
(* LmStudioNativeLLMService (src/sona/interaction/reasoning.py) with the   *)
(* windows of context_memory.py.                                           *)
(*                                                                         *)
(* The server keeps the conversation as a chain of responses and the       *)
(* service keeps only the id of the last one.  Next to it lives the list   *)
(* of messages (Pipecat's context).  The chain is replaced in three ways:  *)
(* by a response, by the recovery of a chain the server has forgotten, and *)
(* by a background compaction, each of which took its inputs some awaits   *)
(* earlier.  A chain is modelled by the set of user turns it tells the     *)
(* server about.  An answer that is interrupted leaves no assistant        *)
(* message, and neither does one that failed.                              *)
(***************************************************************************)
EXTENDS Integers, FiniteSets

CONSTANTS
  RecentPairs,   \* recent_turn_pairs
  RecoveryPairs, \* _RECOVERY_RECENT_TURN_PAIRS
  Prompts,       \* system prompts, one per persona
  MaxAsked,      \* bound on user turns
  MaxClears,     \* bound on clear_context
  MaxFaults,     \* bound on failures of the server
  None           \* no chain, request, task or replacement

Turns == 1 .. MaxAsked
Responses == [by : {"stream", "recovery", "compaction"}, gen : Nat, covers : SUBSET Turns]

ASSUME ConversationAssumption ==
  /\ None \notin Prompts \union Responses
  /\ RecentPairs \in Nat \ {0} /\ RecoveryPairs \in Nat \ {0}
  /\ MaxAsked \in Nat /\ MaxClears \in Nat /\ MaxFaults \in Nat

VARIABLES
  \* The context: user turns since+1 .. asked, the ones with an assistant message, an
  \* assistant message before the first of them, the system prompt, and the prompt of a
  \* replacement that is still on its way through the pipeline.
  since, asked, answered, stray, prompt, clearing,
  slipped,    \* a turn was asked while such a replacement was on its way (no part of the code)
  \* The service.
  generation, \* _request_generation
  previous,   \* _previous_response_id: None, or [by, gen, covers]
  told,       \* _system_prompt
  completed,  \* _completed_user_turns
  memory,     \* _memory_packet.snapshot: [end, content], end in pairs
  task,       \* _compaction_task
  req,        \* the request that the service works on
  speaking,   \* the turn whose answer is being spoken, and its conversation
  nativeClosed,     \* _native_client_closed
  clears, faults

context == <<since, asked, answered, stray, prompt, clearing, slipped>>
chain == <<previous, told, completed>>
conversationVars ==
  <<context, generation, chain, memory, task, req, speaking, nativeClosed, clears, faults>>

Empty == [end |-> 0, content |-> {}]
ConversationInit ==
  /\ since = 0 /\ asked = 0 /\ answered = {} /\ stray = FALSE
  /\ prompt \in Prompts /\ clearing = None /\ slipped = FALSE
  /\ generation = 0 /\ previous = None /\ told = None /\ completed = 0
  /\ memory = Empty /\ task = None /\ req = None /\ speaking = None /\ nativeClosed = FALSE
  /\ clears = 0 /\ faults = 0
-----------------------------------------------------------------------------
(***************************************************************************)
(* Windows.  A pair is named by its user turn: of user turns that follow   *)
(* each other the last one stands for all (normalize_completed_turns), and *)
(* an assistant message before the first user turn is refused.             *)
(***************************************************************************)
First(pairs, n) == {p \in pairs : Cardinality({q \in pairs : q < p}) < n}

\* Where the summary may end: all but `keep' pairs, and further while the recent pairs are
\* too long, but never the last one.
Fitted(pairs, keep) == (Cardinality(pairs) - keep) .. (Cardinality(pairs) - 1)

HasWindow(pairs, old, keep) == Cardinality(pairs) - old.end > keep

\* The summary takes the old snapshot and the pairs after it.
Summaries(pairs, old, keep) ==
  {[end |-> e, content |-> old.content \union (First(pairs, e) \ First(pairs, old.end))] :
     e \in Fitted(pairs, keep)}
Covers(pairs, snapshot) == snapshot.content \union (pairs \ First(pairs, snapshot.end))

\* The snapshots that a recovery can go on with; none when there is no recent pair.
Recoverable(pairs, old) ==
  IF HasWindow(pairs, old, RecoveryPairs) THEN Summaries(pairs, old, RecoveryPairs)
  ELSE IF Cardinality(pairs) > old.end THEN {old} ELSE {}
-----------------------------------------------------------------------------
Spend == faults < MaxFaults /\ faults' = faults + 1

\* reset_conversation
Forget ==
  /\ previous' = None /\ told' = None /\ completed' = 0
  /\ task' = None /\ memory' = Empty

\* A user turn reaches the service with the messages of that moment.
OtherConversation(turns) == told # prompt \/ turns <= completed
Request(gen, turns, phase, base) ==
  [gen |-> gen, turn |-> asked', turns |-> turns, since |-> since, prompt |-> prompt,
   known |-> answered, malformed |-> stray, phase |-> phase, base |-> base, retry |-> TRUE]
Ask ==
  /\ ~nativeClosed /\ req = None /\ speaking = None
  /\ asked < MaxAsked /\ asked' = asked + 1
  /\ LET turns == asked' - since
         reset == previous # None /\ OtherConversation(turns)
         fresh == reset \/ previous = None
         gen == generation + (IF reset THEN 2 ELSE 1)
     IN /\ generation' = gen
        /\ IF reset THEN Forget ELSE UNCHANGED <<chain, memory, task>>
        /\ slipped' = ((slipped /\ ~reset) \/ clearing # None)
        /\ req' = IF ~fresh THEN Request(gen, turns, "stream", previous)
                  ELSE IF turns = 1 \/ (answered = {} /\ ~stray)
                  THEN Request(gen, turns, "stream", None)
                  ELSE IF stray THEN None
                  ELSE Request(gen, turns, "seed", None)
  /\ UNCHANGED <<since, answered, stray, prompt, clearing, speaking, nativeClosed, clears,
                 faults>>

\* _recover_invalid_chain, for a new request and for one that the server refused.  Its
\* candidate is stale when the conversation was cleared meanwhile.
\* Mutant of Recovers: the generation is not looked at.
RecoversAnyway(snapshot) == snapshot \in Recoverable(req.known, memory)
Recovers(snapshot) == snapshot \in Recoverable(req.known, memory) /\ req.gen = generation
Seed(snapshot) == [by |-> "recovery", gen |-> req.gen, covers |-> Covers(req.known, snapshot)]
Recovered ==
  /\ req # None /\ req.phase \in {"seed", "rebuild"}
  /\ \E snapshot \in Recoverable(req.known, memory) :
       /\ Recovers(snapshot)
       /\ memory' = snapshot
       /\ req' = [req EXCEPT !.phase = "stream", !.base = Seed(snapshot)]
       /\ IF req.phase = "seed"
          THEN previous' = Seed(snapshot) /\ told' = req.prompt /\ completed' = req.turns - 1
          ELSE UNCHANGED chain
  /\ UNCHANGED <<context, generation, task, speaking, nativeClosed, clears, faults>>
RecoveryFails ==
  /\ req # None /\ req.phase \in {"seed", "rebuild"} /\ req' = None
  /\ \/ Spend
     \/ (\A s \in Recoverable(req.known, memory) : ~Recovers(s)) /\ UNCHANGED faults
  /\ UNCHANGED <<context, generation, chain, memory, task, speaking, nativeClosed, clears>>

Streaming == req # None /\ req.phase = "stream"
Current == req.gen = generation

\* The server does not know the previous response any more.
Refused ==
  /\ Streaming /\ req.base # None /\ req.retry /\ Spend
  /\ IF Current
     THEN /\ previous' = None /\ told' = None /\ completed' = 0
          /\ req' = IF req.malformed THEN None
                    ELSE IF req.known = {}
                    THEN [req EXCEPT !.base = None, !.retry = FALSE]
                    ELSE [req EXCEPT !.phase = "rebuild", !.retry = FALSE]
     ELSE req' = None /\ UNCHANGED chain
  /\ UNCHANGED <<context, generation, memory, task, speaking, nativeClosed, clears>>
StreamFails ==
  /\ Streaming /\ Spend /\ req' = None
  /\ UNCHANGED <<context, generation, chain, memory, task, speaking, nativeClosed, clears>>
ReadTimeout ==
  /\ Streaming /\ Spend /\ req' = None
  /\ IF Current THEN Forget /\ generation' = generation + 1
     ELSE UNCHANGED <<generation, chain, memory, task>>
  /\ UNCHANGED <<context, speaking, nativeClosed, clears>>

\* _schedule_compaction, with the answer that was just received: at most one candidate.
Schedule(pairs) ==
  \/ UNCHANGED task
  \/ /\ task = None /\ ~req.malformed
     /\ memory.end <= Cardinality(pairs) /\ HasWindow(pairs, memory, RecentPairs)
     /\ task' = [gen |-> req.gen, turns |-> Cardinality(pairs), from |-> previous',
                 at |-> completed', pairs |-> pairs, old |-> memory, prompt |-> req.prompt]
CoveredBefore == IF req.base = None THEN {} ELSE req.base.covers
Commit ==
  IF Current
  THEN /\ previous' = [by |-> "stream", gen |-> req.gen,
                       covers |-> CoveredBefore \union {req.turn}]
       /\ told' = req.prompt /\ completed' = req.turns
       /\ Schedule(req.known \union {req.turn})
  ELSE UNCHANGED <<chain, task>>
StreamEnds ==
  /\ Streaming /\ Commit
  /\ req' = None /\ speaking' = [turn |-> req.turn, since |-> req.since]
  /\ UNCHANGED <<context, generation, memory, nativeClosed, clears, faults>>
-----------------------------------------------------------------------------
(***************************************************************************)
(* The compaction.                                                         *)
(***************************************************************************)
\* Mutants of StillCurrent: only the life of the service is looked at; the turns and the
\* response are, the generation is not.
StillOpen == ~nativeClosed
SameResponse == ~nativeClosed /\ task.turns = completed /\ previous = task.from
StillCurrent ==
  /\ task.gen = generation /\ task.turns = completed
  /\ ~nativeClosed /\ previous = task.from
Replace(snapshot) ==
  /\ previous' = [by |-> "compaction", gen |-> task.gen, covers |-> Covers(task.pairs, snapshot)]
  /\ told' = task.prompt /\ memory' = snapshot
  /\ UNCHANGED completed
CompactionEnds ==
  /\ task # None /\ task' = None
  /\ \/ UNCHANGED <<chain, memory>> \* no need after all, or the summary or the prewarming failed
     \/ \E snapshot \in Summaries(task.pairs, task.old, RecentPairs) :
          IF StillCurrent THEN Replace(snapshot) ELSE UNCHANGED <<chain, memory>>
  /\ UNCHANGED <<context, generation, req, speaking, nativeClosed, clears, faults>>
-----------------------------------------------------------------------------
(***************************************************************************)
(* The pipeline around the service.                                        *)
(***************************************************************************)
\* The answer has been spoken and becomes an assistant message of the context there is.
Heard ==
  /\ speaking # None /\ speaking' = None
  /\ IF speaking.since = since
     THEN answered' = answered \union {speaking.turn} /\ UNCHANGED stray
     ELSE stray' = TRUE /\ UNCHANGED answered
  /\ UNCHANGED <<since, asked, prompt, clearing, slipped, generation, chain, memory, task, req,
                 nativeClosed, clears, faults>>
Interrupted ==
  /\ req # None \/ speaking # None
  /\ req' = None /\ speaking' = None
  /\ UNCHANGED <<context, generation, chain, memory, task, nativeClosed, clears, faults>>

\* clear_context resets the service at once; the empty context follows through the pipeline.
ClearContext ==
  /\ ~nativeClosed /\ clearing = None /\ clears < MaxClears /\ clears' = clears + 1
  /\ Forget /\ generation' = generation + 1
  /\ clearing' \in Prompts
  /\ UNCHANGED <<since, asked, answered, stray, prompt, slipped, req, speaking, nativeClosed,
                 faults>>
ContextReplaced ==
  /\ clearing # None /\ clearing' = None
  /\ prompt' = clearing /\ since' = asked /\ answered' = {} /\ stray' = FALSE
  /\ UNCHANGED <<asked, slipped, generation, chain, memory, task, req, speaking, nativeClosed,
                 clears, faults>>
CloseNative ==
  /\ ~nativeClosed /\ nativeClosed' = TRUE /\ task' = None /\ req' = None /\ speaking' = None
  /\ UNCHANGED <<context, generation, chain, memory, clears, faults>>

ConversationNext ==
  \/ Ask \/ Recovered \/ RecoveryFails \/ Refused \/ StreamFails \/ ReadTimeout \/ StreamEnds
  \/ CompactionEnds \/ Heard \/ Interrupted \/ ClearContext \/ ContextReplaced \/ CloseNative
ConversationSpec == ConversationInit /\ [][ConversationNext]_conversationVars
-----------------------------------------------------------------------------
Chains == {None} \union Responses
ConversationTypes ==
  /\ since \in 0 .. asked /\ asked \in 0 .. MaxAsked /\ answered \subseteq Turns
  /\ stray \in BOOLEAN /\ prompt \in Prompts /\ clearing \in Prompts \union {None}
  /\ generation \in Nat /\ previous \in Chains /\ told \in Prompts \union {None}
  /\ completed \in Nat /\ memory \in [end : Nat, content : SUBSET Turns]
  /\ nativeClosed \in BOOLEAN /\ clears \in 0 .. MaxClears /\ faults \in 0 .. MaxFaults

\* The server that a request goes to has been told, in the chain that the request continues,
\* every question and answer of this conversation that was heard to the end, and nothing of
\* a conversation that the user has cleared (get_chat_completions, _run_compaction and
\* _recover_invalid_chain).  A turn that slips in before the cleared context arrives is left
\* out: the packet of its recovery, or the one it finds, can outlive the clearing.
KnowsTheConversation ==
  ConversationTypes /\ (Streaming /\ ~slipped =>
    /\ req.known \subseteq CoveredBefore
    /\ CoveredBefore \subseteq (req.since + 1) .. (req.turn - 1))

\* A snapshot stands for the first pairs of the messages it is used with: as many as it says,
\* and with their content, so that the next window begins right after them.
SnapshotIsPrefix ==
  Streaming /\ Current /\ ~slipped =>
    /\ memory.end <= Cardinality(req.known)
    /\ memory.content = First(req.known, memory.end)

\* A compaction replaces the chain between two requests, never under a request whose response
\* will continue the chain that was there before.
ReplacedBetweenRequests ==
  [][previous' # previous /\ previous' # None /\ previous'.by = "compaction" =>
       ~(req # None /\ req.gen = generation)]_conversationVars
=============================================================================
