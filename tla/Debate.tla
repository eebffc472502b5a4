------------------------------- MODULE Debate -------------------------------
(***************************************************************************)
(* The public site's LLM page: the debate and the chat it streams          *)
(* (llm.component.ts over LlmService), and the servers of those streams: a *)
(* worker task that makes the participants speak in turns into a queue and *)
(* the consumer that streams it (backend/app/services/multi_chat.py), and  *)
(* the chat generator (chat.py).                                           *)
(*                                                                         *)
(* The browser runs one handler at a time; an aborted stream rejects in    *)
(* the microtasks of the handler that aborts it, so that handler and the   *)
(* rejection's catch and finally are one action.  Queue and connection are *)
(* one sequence.  A chunk's text is the turn it belongs to.                *)
(***************************************************************************)
EXTENDS Naturals, FiniteSets, Sequences, SequencesExt

CONSTANTS
  Debates, Chats,   \* calls of multiChat and chat (TLC's bound on their number)
  agents,           \* the participants' ids, in order
  role,             \* the role a debate gives to each of them
  max_turns,
  MaxChunks,        \* TLC's bound on the chunks of a turn or an answer
  MaxQueued,        \* TLC's bound on the chunks on their way
  Limit,            \* conversationTimeRemaining at the start
  None

Streams == Debates \cup Chats
Agents == ToSet(agents)
Turns == max_turns * Len(agents)

ASSUME AgentsAssumption ==
  agents \in Seq(Nat \ {0}) /\ agents # <<>> /\ IsInjective(agents)
ASSUME BoundsAssumption == {max_turns, MaxChunks, MaxQueued, Limit} \subseteq Nat \ {0}
ASSUME StreamsAssumption == Debates \cap Chats = {}

VARIABLES
  messages,                   \* the chat: whose the last message is
  isThinking,
  isConversationActive,
  conversationTimeRemaining,
  conversationTimer,          \* whether the interval is running
  conversationStatus,
  multiMessages,              \* finished messages: [agent, content, of]
  currentAgentMessage,
  abortController,            \* the stream whose controller the component holds
  stream,                     \* the browser's side: idle, open, closed
  worker,                     \* the server's side: [pc, turn, said]
  queue,                      \* chunks on their way to the browser
  disturbed                   \* history: debates that did not have the page to themselves

debate_vars ==
  <<messages, isThinking, isConversationActive, conversationTimeRemaining, conversationTimer,
    conversationStatus, multiMessages, currentAgentMessage, abortController, stream, worker,
    queue, disturbed>>
chat == <<messages, isThinking>>
clock == <<conversationTimeRemaining, conversationTimer>>
transcript == <<multiMessages, currentAgentMessage>>
server == <<worker, queue>>

Statuses == {"", "Connecting", "speaking", "Debate Stopped", "Debate Time Limit Reached",
             "Connection Error", "Debate Concluded"}
Chunk == [agent : Agents \cup {0}, turn : 0..Turns, kind : {"chunk", "turn_complete", "end"}]
\* content: the turns the text is made of; of: the debate it came from.
Message == [agent : Agents \cup {0}, content : SUBSET (0..Turns), of : Debates]

ASSUME NoneAssumption == None \notin Streams \cup Message

DebateTypeOK ==
  /\ messages \in {"none", "user", "assistant", "system"}
  /\ {isThinking, isConversationActive, conversationTimer} \subseteq BOOLEAN
  /\ conversationTimeRemaining \in 0..Limit
  /\ conversationStatus \in Statuses
  /\ multiMessages \in Seq(Message)
  /\ currentAgentMessage \in Message \cup {None}
  /\ abortController \in Streams \cup {None}
  /\ stream \in [Streams -> {"idle", "open", "closed"}]
  /\ worker \in [Streams -> [pc : {"off", "preflight", "speaking", "ended"},
                             turn : 0..Turns + 1, said : 0..MaxChunks]]
  /\ queue \in [Streams -> Seq(Chunk)]
  /\ disturbed \subseteq Debates

DebateInit ==
  /\ messages = "none" /\ isThinking = FALSE
  /\ isConversationActive = FALSE
  /\ conversationTimeRemaining = Limit /\ conversationTimer = FALSE
  /\ conversationStatus = ""
  /\ multiMessages = <<>> /\ currentAgentMessage = None
  /\ abortController = None
  /\ stream = [s \in Streams |-> "idle"]
  /\ worker = [s \in Streams |-> [pc |-> "off", turn |-> 0, said |-> 0]]
  /\ queue = [s \in Streams |-> <<>>]
  /\ disturbed = {}

-----------------------------------------------------------------------------
(* The server.                                                             *)

Speaker(turn) == agents[((turn - 1) % Len(agents)) + 1]

\* agent_id_map: of several participants with one role the last one counts.
agent_id(d, agent) == agents[CHOOSE i \in DOMAIN agents :
  /\ role[d][agents[i]] = role[d][agent]
  /\ \A j \in DOMAIN agents : role[d][agents[j]] = role[d][agent] => j <= i]

room(s) == Len(queue[s]) < MaxQueued
put(s, items) == queue' = [queue EXCEPT ![s] = @ \o items]
stream_chunk(d, turn) == [agent |-> agent_id(d, Speaker(turn)), turn |-> turn, kind |-> "chunk"]
turn_complete(d, turn) == [stream_chunk(d, turn) EXCEPT !.kind = "turn_complete"]
system_chunk == [agent |-> 0, turn |-> 0, kind |-> "chunk"]
\* The worker's None, turned into the final chunk by the consumer.
final_chunk == [agent |-> 0, turn |-> 0, kind |-> "end"]

Over == [pc |-> "ended", turn |-> 0, said |-> 0]
Ended(s) == worker' = [worker EXCEPT ![s] = Over]
ui == <<chat, isConversationActive, clock, conversationStatus, transcript, abortController,
        stream, disturbed>>

\* run_dynamic_loop's check of Ollama.
preflight(d) ==
  /\ d \in Debates /\ worker[d].pc = "preflight"
  /\ \/ /\ worker' = [worker EXCEPT ![d] = [pc |-> "speaking", turn |-> 1, said |-> 0]]
        /\ UNCHANGED queue
     \/ /\ Ended(d)
        /\ put(d, <<system_chunk, final_chunk>>)
  /\ UNCHANGED ui

speak(d) ==
  /\ worker[d].pc = "speaking" /\ worker[d].said < MaxChunks /\ room(d)
  /\ worker' = [worker EXCEPT ![d].said = @ + 1]
  /\ put(d, <<stream_chunk(d, worker[d].turn)>>)
  /\ UNCHANGED ui

\* Mutant: nothing tells the consumer that the last turn is over.
end_turn_silently(d) ==
  LET turn == worker[d].turn IN
  /\ d \in Debates /\ worker[d].pc = "speaking" /\ room(d)
  /\ IF turn < Turns
     THEN /\ worker' = [worker EXCEPT ![d] = [@ EXCEPT !.turn = turn + 1, !.said = 0]]
          /\ put(d, <<turn_complete(d, turn)>>)
     ELSE /\ Ended(d)
          /\ put(d, <<turn_complete(d, turn)>>)
  /\ UNCHANGED ui

\* The turn's end, whether the model finished, answered an error or broke off: a
\* turn that streamed nothing gets an error or a stock sentence.
end_turn(d) ==
  LET turn == worker[d].turn
      text == IF worker[d].said = 0 THEN <<stream_chunk(d, turn)>> ELSE <<>> IN
  /\ worker[d].pc = "speaking" /\ room(d)
  /\ IF turn < Turns
     THEN /\ worker' = [worker EXCEPT ![d] = [@ EXCEPT !.turn = turn + 1, !.said = 0]]
          /\ put(d, text \o <<turn_complete(d, turn)>>)
     ELSE /\ Ended(d)
          /\ put(d, text \o <<turn_complete(d, turn), final_chunk>>)
  /\ UNCHANGED ui

\* The loop itself raises; its finally still ends the stream.
loop_fails(d) ==
  /\ worker[d].pc = "speaking" /\ room(d)
  /\ Ended(d)
  /\ put(d, <<system_chunk, final_chunk>>)
  /\ UNCHANGED ui

\* chat_with_llm: chunks of the answer, the last of which may be the error's.
answer_chunk(c) ==
  /\ c \in Chats /\ worker[c].pc = "preflight" /\ worker[c].said < MaxChunks /\ room(c)
  /\ worker' = [worker EXCEPT ![c].said = @ + 1]
  /\ put(c, <<system_chunk>>)
  /\ UNCHANGED ui
answer_end(c) ==
  /\ c \in Chats /\ worker[c].pc = "preflight"
  /\ Ended(c)
  /\ put(c, <<final_chunk>>)
  /\ UNCHANGED ui

-----------------------------------------------------------------------------
(* The chat.                                                               *)

Live == {d \in Debates : stream[d] = "open"}

\* Mutant: the controller is not kept.
Fetch_and_forget(s) ==
  /\ stream' = [stream EXCEPT ![s] = "open"]
  /\ worker' = [worker EXCEPT ![s].pc = "preflight"]
  /\ abortController' = None

\* fetch: the stream opens and its server starts.
Fetch(s) ==
  /\ stream' = [stream EXCEPT ![s] = "open"]
  /\ worker' = [worker EXCEPT ![s].pc = "preflight"]
  /\ abortController' = s

sendMessage(c) ==
  /\ ~isThinking /\ stream[c] = "idle"
  /\ messages' = "user"
  /\ isThinking' = TRUE
  /\ Fetch(c)
  /\ disturbed' = disturbed \cup Live
  /\ UNCHANGED <<isConversationActive, clock, conversationStatus, transcript, queue>>

clear_chat ==
  /\ ~isThinking /\ messages # "none"
  /\ messages' = "none"
  /\ UNCHANGED <<isThinking, isConversationActive, clock, conversationStatus, transcript,
                 abortController, stream, server, disturbed>>

Receive(s, kind) ==
  /\ stream[s] = "open" /\ queue[s] # <<>> /\ Head(queue[s]).kind = kind
  /\ queue' = [queue EXCEPT ![s] = Tail(@)]

chat_chunk(c) ==
  /\ c \in Chats /\ Receive(c, "chunk")
  /\ messages' = "assistant"
  /\ isThinking' = (isThinking /\ messages = "assistant")
  /\ UNCHANGED <<isConversationActive, clock, conversationStatus, transcript,
                 abortController, stream, worker, disturbed>>

\* The stream ends, breaks or is aborted: nothing more is read, and the server's
\* consumer cancels its worker.
Close(s) ==
  /\ stream' = [stream EXCEPT ![s] = "closed"]
  /\ worker' = [worker EXCEPT ![s] = Over]
  /\ queue' = [queue EXCEPT ![s] = <<>>]
AtEnd(s) == stream[s] = "open" /\ queue[s] # <<>> /\ Head(queue[s]).kind = "end"

\* then and catch: both forget the controller, whoever's it is.
chat_end(c) ==
  /\ stream[c] = "open"
  /\ \/ AtEnd(c) /\ UNCHANGED messages
     \/ messages' = "system"
  /\ Close(c)
  /\ isThinking' = FALSE
  /\ abortController' = None
  /\ UNCHANGED <<isConversationActive, clock, conversationStatus, transcript, disturbed>>

-----------------------------------------------------------------------------
(* The debate.                                                             *)

startMultiConversation(d) ==
  /\ ~isConversationActive /\ stream[d] = "idle"
  /\ isConversationActive' = TRUE
  /\ conversationTimeRemaining' = Limit
  /\ conversationTimer' = TRUE
  /\ conversationStatus' = "Connecting"
  /\ currentAgentMessage' = None
  /\ Fetch(d)
  /\ disturbed' = disturbed \cup Live
       \cup IF Live # {} \/ \E c \in Chats : stream[c] = "open" THEN {d} ELSE {}
  /\ UNCHANGED <<chat, multiMessages, queue>>

\* The callback of multiChat: a chunk of the agent speaking is added to its
\* message, another agent's begins a new one.
chunk(d) ==
  LET item == Head(queue[d])
      message == [agent |-> item.agent, content |-> {item.turn}, of |-> d] IN
  /\ Receive(d, "chunk") /\ d \in Debates
  /\ \/ /\ currentAgentMessage = None
        /\ currentAgentMessage' = message
        /\ conversationStatus' = "speaking"
        /\ UNCHANGED multiMessages
     \/ /\ currentAgentMessage # None /\ currentAgentMessage.agent = item.agent
        /\ currentAgentMessage' = [currentAgentMessage EXCEPT !.content = @ \cup {item.turn}]
        /\ conversationStatus' = "speaking"
        /\ UNCHANGED multiMessages
     \/ /\ currentAgentMessage # None /\ currentAgentMessage.agent # item.agent
        /\ multiMessages' = Append(multiMessages, currentAgentMessage)
        /\ currentAgentMessage' = message
        /\ UNCHANGED conversationStatus
  /\ UNCHANGED <<chat, isConversationActive, clock, abortController, stream, worker, disturbed>>

\* Mutant: a finished message stays the current one.
finish_turn_twice(d) ==
  /\ Receive(d, "turn_complete")
  /\ multiMessages' = IF currentAgentMessage = None THEN multiMessages
                      ELSE Append(multiMessages, currentAgentMessage)
  /\ UNCHANGED <<currentAgentMessage, chat, isConversationActive, clock, conversationStatus,
                 abortController, stream, worker, disturbed>>

finish_turn(d) ==
  /\ Receive(d, "turn_complete")
  /\ multiMessages' = IF currentAgentMessage = None THEN multiMessages
                      ELSE Append(multiMessages, currentAgentMessage)
  /\ currentAgentMessage' = None
  /\ UNCHANGED <<chat, isConversationActive, clock, conversationStatus, abortController,
                 stream, worker, disturbed>>

\* The finally of startMultiConversation, whoever's debate is running by then.
Settle(status) ==
  /\ isConversationActive' = FALSE
  /\ abortController' = None
  /\ conversationTimer' = FALSE
  /\ conversationStatus' =
       IF status \in {"Debate Time Limit Reached", "Connection Error", "Debate Stopped"}
       THEN status ELSE "Debate Concluded"

debate_concludes(d) ==
  /\ AtEnd(d) /\ Close(d)
  /\ Settle(conversationStatus)
  /\ UNCHANGED <<chat, conversationTimeRemaining, transcript, disturbed>>

connection_breaks(d) ==
  /\ stream[d] = "open" /\ Close(d)
  /\ Settle("Connection Error")
  /\ UNCHANGED <<chat, conversationTimeRemaining, transcript, disturbed>>

\* stopMultiConversation aborts the controller it finds, and with it a stream:
\* the debate's, whose finally then runs, or the chat's, or none.
stopMultiConversation(status) ==
  /\ isConversationActive' = FALSE
  /\ conversationTimer' = FALSE
  /\ conversationStatus' = status
  /\ abortController' = None
  /\ IF abortController = None THEN UNCHANGED <<stream, server>> ELSE Close(abortController)
  /\ isThinking' = (isThinking /\ abortController \notin Chats)

stop ==
  /\ isConversationActive
  /\ stopMultiConversation("Debate Stopped")
  /\ UNCHANGED <<messages, conversationTimeRemaining, transcript, disturbed>>

tick ==
  /\ conversationTimer /\ isConversationActive
  /\ conversationTimeRemaining' = conversationTimeRemaining - 1
  /\ IF conversationTimeRemaining = 1
     THEN stopMultiConversation("Debate Time Limit Reached")
     ELSE UNCHANGED <<isConversationActive, conversationTimer, conversationStatus,
                      abortController, stream, server, isThinking>>
  /\ UNCHANGED <<messages, transcript, disturbed>>

\* CLEAR and RESET, which are disabled while a conversation is active.
clearMultiDebate ==
  /\ ~isConversationActive
  /\ multiMessages' = <<>>
  /\ currentAgentMessage' = None
  /\ conversationStatus' = ""
  /\ conversationTimeRemaining' = Limit
  /\ UNCHANGED <<chat, isConversationActive, conversationTimer, abortController, stream,
                 server, disturbed>>

\* A reload: what saveState kept, or nothing after a day, and every stream is cut.
loadState ==
  /\ \E s \in Streams : stream[s] # "idle"
  /\ multiMessages' \in {multiMessages, <<>>}
  /\ currentAgentMessage' = None
  /\ messages' = "none" /\ isThinking' = FALSE
  /\ isConversationActive' = FALSE
  /\ conversationTimeRemaining' = Limit /\ conversationTimer' = FALSE
  /\ conversationStatus' = ""
  /\ abortController' = None
  /\ stream' = [s \in Streams |-> IF stream[s] = "open" THEN "closed" ELSE stream[s]]
  /\ worker' = [s \in Streams |-> IF stream[s] = "open" THEN Over ELSE worker[s]]
  /\ queue' = [s \in Streams |-> <<>>]
  /\ UNCHANGED disturbed

Quiet ==
  /\ \A s \in Streams : stream[s] = "closed"
  /\ UNCHANGED debate_vars

DebateNext ==
  \/ \E d \in Debates :
       \/ preflight(d) \/ speak(d) \/ end_turn(d) \/ loop_fails(d)
       \/ startMultiConversation(d) \/ chunk(d) \/ finish_turn(d)
       \/ debate_concludes(d) \/ connection_breaks(d)
  \/ \E c \in Chats :
       \/ sendMessage(c) \/ answer_chunk(c) \/ answer_end(c) \/ chat_chunk(c) \/ chat_end(c)
  \/ clear_chat \/ stop \/ tick \/ clearMultiDebate \/ loadState \/ Quiet

\* Ollama's calls have timeouts, so every turn ends; and the browser reads on.
DebateFairness ==
  \A d \in Debates :
    /\ WF_debate_vars(preflight(d)) /\ WF_debate_vars(end_turn(d)) /\ WF_debate_vars(chunk(d))
    /\ WF_debate_vars(finish_turn(d)) /\ WF_debate_vars(debate_concludes(d))

DebateSpec == DebateInit /\ [][DebateNext]_debate_vars /\ DebateFairness

-----------------------------------------------------------------------------
(* Properties.                                                             *)

Shown == multiMessages \o IF currentAgentMessage = None THEN <<>> ELSE <<currentAgentMessage>>

\* How many messages of its debate the transcript has up to the j-th.
Place(list, j) == Cardinality({k \in 1..j : list[k].of = list[j].of})

\* A debate that had the page to itself reads as it was spoken: one message per
\* turn, each under an agent with its speaker's role, none mixed with or out of
\* order among others, also where all agents have one role and hence one id.
SpokenInTurn ==
  \A j \in DOMAIN Shown :
    LET m == Shown[j]
        i == Place(Shown, j) IN
    m.of \notin disturbed =>
      \/ m.content = {i} /\ m.agent # 0 /\ role[m.of][m.agent] = role[m.of][Speaker(i)]
      \/ /\ m.content = {0} /\ m.agent = 0
         /\ \A k \in DOMAIN Shown : k > j => Shown[k].of # m.of

\* Page and server are what they should be, and the transcript reads as spoken.
DebateConsistent == DebateTypeOK /\ SpokenInTurn

\* STOP and the time limit reach a debate that had the page to itself: its timer
\* runs and the controller they would abort is its own.
StopReachesTheDebate ==
  \A d \in Live \ disturbed :
    isConversationActive /\ conversationTimer /\ abortController = d

\* Every debate ends (multi_chat.py: "until the client disconnects or the turn
\* limit is reached").
EveryDebateEnds == \A d \in Debates : stream[d] = "open" ~> stream[d] = "closed"
=============================================================================
