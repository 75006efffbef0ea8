------------------------------ MODULE AcpChannel ------------------------------
(***************************************************************************)
(* Messages to the external agent and its answers: the task of a message   *)
(* (handle_acp_ai_message in acp_handler.rs), AcpService and its mutex     *)
(* (server/src/acp.rs), the gateway (acp/gateway.rs), the connection's     *)
(* request loop (acp/connection.rs), and the sockets of the project, each  *)
(* of which translates every update into what its own client is sent.      *)
(*                                                                         *)
(* The agent is another program.  It may send updates while it works on a  *)
(* prompt, may die, and is not trusted with anything else.                 *)
(***************************************************************************)
EXTENDS Naturals, Sequences, SequencesExt, FiniteSets

CONSTANTS
    Messages,       \* ai_message requests routed to ACP; each one is its stream id
    Conversations,  \* the client's session ids
    Sockets,        \* WebSocket connections that stay with the project
    Placements,     \* functions from Messages to Conversations: where each may belong
    Asker,          \* [Messages -> Sockets]: by which socket it comes
    MaxChunks,      \* bound: updates the agent sends per prompt
    Buffer,         \* BROADCAST_BUFFER: a slower socket loses the oldest updates
    NoOne           \* the empty entry of a map, the free mutex

ASSUME ChannelAssumption ==
    /\ MaxChunks \in Nat
    /\ Buffer \in Nat \ {0}
    /\ NoOne \notin Messages \cup Sockets
    /\ NoOne \notin [kind : {"create", "prompt", "cancel"}, by : Messages \cup Sockets]
    /\ Placements \subseteq [Messages -> Conversations]
    /\ Asker \in [Messages -> Sockets]

\* An ACP session is named by the message that created it.
AcpSessions == Messages

VARIABLES
    mail,           \* per message: its task's step, its conversation and ACP session
    conversations,  \* acp_conversations: conversation -> ACP session
    streams,        \* acp_session_streams: ACP session -> the stream its updates go to
    accumulated,    \* acp_accumulated_text: stream -> the prompts its chunks came from
    registered,     \* AcpSessionManager.sessions
    gateway,        \* who holds AcpService.gateway across an await, or NoOne
    agent,          \* the child process: "none", "up" or "dead"; child stays Some
    requests,       \* the connection's request_rx, oldest first
    serving,        \* the request its loop awaits
    notifications,  \* updates the agent has sent, not yet forwarded
    sent,           \* how many updates the agent has sent for a prompt
    socket,         \* per socket: its share of updates_tx and where its loop is
    completed       \* the complete events each client was sent

channelVars == <<mail, conversations, streams, accumulated, registered, gateway, agent,
                 requests, serving, notifications, sent, socket, completed>>

-----------------------------------------------------------------------------

\* What updates_tx carries: a session and the prompt its chunk is from, or no chunk
\* for Done.
NoUpdate == [session |-> NoOne, chunk |-> NoOne]

ChannelInit ==
    /\ \E place \in Placements :
        mail = [m \in Messages |->
                    [pc |-> "idle", conversation |-> place[m], session |-> NoOne]]
    /\ conversations = [c \in Conversations |-> NoOne]
    /\ streams = [a \in AcpSessions |-> NoOne]
    /\ accumulated = [m \in Messages |-> <<>>]
    /\ registered = {}
    /\ gateway = NoOne
    /\ agent = "none"
    /\ requests = <<>>
    /\ serving = NoOne
    /\ notifications = <<>>
    /\ sent = [m \in Messages |-> 0]
    /\ socket = [s \in Sockets |-> [inbox |-> <<>>, update |-> NoUpdate, stream |-> NoOne,
                                    cancel |-> NoOne, waits |-> FALSE]]
    /\ completed = [s \in Sockets |-> [m \in Messages |-> 0]]

-----------------------------------------------------------------------------
(* Helpers of the actions.                                                 *)

SetMail(m, fields) == mail' = [mail EXCEPT ![m] = fields]
Step(m, pc) == SetMail(m, [mail[m] EXCEPT !.pc = pc])

connVars == <<requests, serving, notifications, sent>>
socketVars == <<socket, completed>>
mapVars == <<conversations, streams, accumulated>>

\* handle_acp_ai_message holds the map's lock while it awaits create_session.
ConversationsLocked == \E m \in Messages : mail[m].pc \in {"create", "creating"}

\* A socket's loop stands still while it awaits a cancel.
Idle(s) == socket[s].cancel = NoOne

\* rate_limit and ensure_agent_running begin every call of AcpService: either may
\* refuse it; the second spawns the agent when there is none and never replaces a
\* dead one, because initialize looks at child alone.
ensure_agent_running == gateway = NoOne /\ agent' = IF agent = "none" THEN "up" ELSE agent

\* broadcast::Sender::send: every socket gets it; one that is Buffer updates
\* behind loses the oldest.
Broadcast(update) ==
    socket' = [s \in Sockets |->
        LET inbox == Append(socket[s].inbox, update)
        IN  [socket[s] EXCEPT !.inbox = IF Len(inbox) > Buffer THEN Tail(inbox) ELSE inbox]]

-----------------------------------------------------------------------------
(* The task of a message.                                                  *)

\* handle_ws_text spawns handle_acp_ai_message.
Message(m) ==
    /\ mail[m].pc = "idle"
    /\ Idle(Asker[m])
    /\ Step(m, "open")
    /\ UNCHANGED <<mapVars, registered, gateway, agent, connVars, socketVars>>

\* Mutant: the session of any conversation will do.
OpenAnyConversation(m) ==
    /\ mail[m].pc = "open"
    /\ ~ConversationsLocked
    /\ \/ \E c \in Conversations :
            /\ conversations[c] # NoOne
            /\ SetMail(m, [mail[m] EXCEPT !.pc = "map", !.session = conversations[c]])
       \/ /\ \A c \in Conversations : conversations[c] = NoOne
          /\ Step(m, "create")
    /\ UNCHANGED <<mapVars, registered, gateway, agent, connVars, socketVars>>

\* The conversation's ACP session, or the way to a new one.
OpenConversation(m) ==
    /\ mail[m].pc = "open"
    /\ ~ConversationsLocked
    /\ LET a == conversations[mail[m].conversation]
       IN  IF a # NoOne THEN SetMail(m, [mail[m] EXCEPT !.pc = "map", !.session = a])
                        ELSE Step(m, "create")
    /\ UNCHANGED <<mapVars, registered, gateway, agent, connVars, socketVars>>

\* AcpService::create_session: refused, or the gateway is held until the agent answers.
CreateSession(m) ==
    /\ mail[m].pc = "create"
    /\ \/ /\ Step(m, "failed")
          /\ UNCHANGED <<gateway, agent, requests>>
       \/ /\ ensure_agent_running
          /\ gateway' = m
          /\ requests' = Append(requests, [kind |-> "create", by |-> m])
          /\ Step(m, "creating")
    /\ UNCHANGED <<mapVars, registered, serving, notifications, sent, socketVars>>

\* From here on the session's updates go to this message's stream.
MapStream(m) ==
    /\ mail[m].pc = "map"
    /\ streams' = [streams EXCEPT ![mail[m].session] = m]
    /\ Step(m, "prompt")
    /\ UNCHANGED <<conversations, accumulated, registered, gateway, agent, connVars, socketVars>>

\* AcpService::send_prompt: refused, or an unknown session, or a task is spawned
\* that puts the prompt into the queue.
SendPrompt(m) ==
    /\ mail[m].pc = "prompt"
    /\ \/ Step(m, "failed") /\ UNCHANGED agent
       \/ /\ ensure_agent_running
          /\ Step(m, IF mail[m].session \in registered THEN "dispatched" ELSE "failed")
    /\ UNCHANGED <<mapVars, registered, gateway, connVars, socketVars>>

\* AcpConnection::spawn_prompt, the spawned future.
EnqueuePrompt(m) ==
    /\ mail[m].pc = "dispatched"
    /\ requests' = Append(requests, [kind |-> "prompt", by |-> m])
    /\ Step(m, "queued")
    /\ UNCHANGED <<mapVars, registered, gateway, agent, serving, notifications, sent, socketVars>>

\* The prompt's future is ready, with an answer or an error: Done, on its own way
\* to updates_tx.
SendDone(m) ==
    /\ mail[m].pc = "ended"
    /\ Broadcast([session |-> mail[m].session, chunk |-> NoOne])
    /\ Step(m, "done")
    /\ UNCHANGED <<mapVars, registered, gateway, agent, connVars, completed>>

-----------------------------------------------------------------------------
(* The connection's request loop and the agent.                            *)

\* request_rx.recv(): one request at a time.
ServeRequest ==
    /\ serving = NoOne
    /\ requests # <<>>
    /\ serving' = Head(requests)
    /\ requests' = Tail(requests)
    /\ UNCHANGED <<mail, mapVars, registered, gateway, agent, notifications, sent, socketVars>>

\* new_session is answered: the session is registered, the conversation has it,
\* and the gateway and the map are free again; or it failed.
AnswerCreate ==
    /\ serving # NoOne
    /\ serving.kind = "create"
    /\ LET m == serving.by
       IN  \/ /\ agent = "up"
              /\ registered' = registered \cup {m}
              /\ conversations' = [conversations EXCEPT ![mail[m].conversation] = m]
              /\ SetMail(m, [mail[m] EXCEPT !.pc = "map", !.session = m])
           \/ /\ Step(m, "failed")
              /\ UNCHANGED <<registered, conversations>>
    /\ gateway' = NoOne
    /\ serving' = NoOne
    /\ UNCHANGED <<streams, accumulated, agent, requests, notifications, sent, socketVars>>

\* The agent reports progress on the prompt it works on.
AgentUpdates ==
    /\ agent = "up"
    /\ serving # NoOne
    /\ serving.kind = "prompt"
    /\ LET m == serving.by
       IN  /\ sent[m] < MaxChunks
           /\ sent' = [sent EXCEPT ![m] = @ + 1]
           /\ notifications' = Append(notifications, m)
    /\ UNCHANGED <<mail, mapVars, registered, gateway, agent, requests, serving, socketVars>>

\* Mutant: a prompt of an agent that died is waited for forever.
EndTurnOfALiveAgent ==
    /\ agent = "up"
    /\ serving # NoOne
    /\ serving.kind = "prompt"
    /\ Step(serving.by, "ended")
    /\ serving' = NoOne
    /\ UNCHANGED <<mapVars, registered, gateway, agent, requests, notifications, sent, socketVars>>

\* The agent ends its turn, or the connection reports that it is gone.
EndTurn ==
    /\ serving # NoOne
    /\ serving.kind = "prompt"
    /\ Step(serving.by, "ended")
    /\ serving' = NoOne
    /\ UNCHANGED <<mapVars, registered, gateway, agent, requests, notifications, sent, socketVars>>

\* The notification is sent to the agent; AcpService::cancel then removes the session
\* and frees the gateway, and the socket's loop goes on.  conversations keeps it.
AnswerCancel ==
    /\ serving # NoOne
    /\ serving.kind = "cancel"
    /\ LET s == serving.by
       IN  /\ registered' = IF agent = "up" THEN registered \ {socket[s].cancel} ELSE registered
           /\ socket' = [socket EXCEPT ![s].cancel = NoOne, ![s].waits = FALSE]
    /\ gateway' = NoOne
    /\ serving' = NoOne
    /\ UNCHANGED <<mail, mapVars, agent, requests, notifications, sent, completed>>

AgentDies ==
    /\ agent = "up"
    /\ agent' = "dead"
    /\ UNCHANGED <<mail, mapVars, registered, gateway, connVars, socketVars>>

\* forward_updates.
ForwardUpdate ==
    /\ notifications # <<>>
    /\ LET m == Head(notifications)
       IN  Broadcast([session |-> mail[m].session, chunk |-> m])
    /\ notifications' = Tail(notifications)
    /\ UNCHANGED <<mail, mapVars, registered, gateway, agent, requests, serving, sent, completed>>

-----------------------------------------------------------------------------
(* A socket's loop.                                                        *)

\* translate_acp_update copies the stream of the session and lets the map go; an
\* update of a session without a stream is dropped.
LookUpStream(s) ==
    /\ Idle(s)
    /\ socket[s].inbox # <<>>
    /\ socket[s].stream = NoOne
    /\ LET m == streams[Head(socket[s].inbox).session]
       IN  socket' = [socket EXCEPT
                        ![s].inbox = Tail(@),
                        ![s].stream = m,
                        ![s].update = IF m # NoOne THEN Head(socket[s].inbox) ELSE NoUpdate]
    /\ UNCHANGED <<mail, mapVars, registered, gateway, agent, connVars, completed>>

\* A chunk is appended to the stream's text, by every socket that translates it.
TranslateChunk(s) ==
    /\ Idle(s)
    /\ socket[s].stream # NoOne
    /\ LET update == socket[s].update
       IN  /\ update.chunk # NoOne
           /\ accumulated' = [accumulated EXCEPT ![socket[s].stream] = Append(@, update.chunk)]
    /\ socket' = [socket EXCEPT ![s].update = NoUpdate, ![s].stream = NoOne]
    /\ UNCHANGED <<mail, conversations, streams, registered, gateway, agent, connVars, completed>>

\* Mutant: the stream stays the session's.
TranslateDoneAndKeep(s) ==
    /\ Idle(s)
    /\ socket[s].stream # NoOne
    /\ LET update == socket[s].update
           m == socket[s].stream
       IN  /\ update.chunk = NoOne
           /\ UNCHANGED streams
           /\ accumulated' = [accumulated EXCEPT ![m] = <<>>]
           /\ completed' = [completed EXCEPT ![s][m] = @ + 1]
    /\ socket' = [socket EXCEPT ![s].update = NoUpdate, ![s].stream = NoOne]
    /\ UNCHANGED <<mail, conversations, registered, gateway, agent, connVars>>

\* Done: the session has no stream any more, the stream's text goes to the client
\* of this socket with ai_response_complete.
TranslateDone(s) ==
    /\ Idle(s)
    /\ socket[s].stream # NoOne
    /\ LET update == socket[s].update
           m == socket[s].stream
       IN  /\ update.chunk = NoOne
           /\ streams' = [streams EXCEPT ![update.session] = NoOne]
           /\ accumulated' = [accumulated EXCEPT ![m] = <<>>]
           /\ completed' = [completed EXCEPT ![s][m] = @ + 1]
    /\ socket' = [socket EXCEPT ![s].update = NoUpdate, ![s].stream = NoOne]
    /\ UNCHANGED <<mail, conversations, registered, gateway, agent, connVars>>

\* ai_cancel, by the client that asked: the session whose stream the request id is.
AskCancel(m) ==
    /\ Idle(Asker[m])
    /\ socket[Asker[m]].stream = NoOne
    /\ \E a \in AcpSessions :
        /\ streams[a] = m
        /\ socket' = [socket EXCEPT ![Asker[m]].cancel = a]
    /\ UNCHANGED <<mail, mapVars, registered, gateway, agent, connVars, completed>>

\* AcpService::cancel: refused, an unknown session, or the gateway is held until the
\* request loop comes to the cancel.
CancelSession(s) ==
    /\ socket[s].cancel # NoOne
    /\ ~socket[s].waits
    /\ \/ /\ socket' = [socket EXCEPT ![s].cancel = NoOne]
          /\ UNCHANGED <<agent, gateway, requests>>
       \/ /\ ensure_agent_running
          /\ socket[s].cancel \in registered
          /\ gateway' = s
          /\ requests' = Append(requests, [kind |-> "cancel", by |-> s])
          /\ socket' = [socket EXCEPT ![s].waits = TRUE]
    /\ UNCHANGED <<mail, mapVars, registered, serving, notifications, sent, completed>>

-----------------------------------------------------------------------------

ServerStep ==
    \/ \E m \in Messages :
        OpenConversation(m) \/ CreateSession(m) \/ MapStream(m) \/ SendPrompt(m)
        \/ EnqueuePrompt(m) \/ SendDone(m)
    \/ ServeRequest \/ AnswerCreate \/ EndTurn \/ AnswerCancel \/ ForwardUpdate
    \/ \E s \in Sockets : LookUpStream(s) \/ TranslateChunk(s) \/ TranslateDone(s) \/ CancelSession(s)

ChannelNext ==
    \/ \E m \in Messages : Message(m) \/ AskCancel(m)
    \/ AgentUpdates \/ AgentDies
    \/ ServerStep

ChannelSpec == ChannelInit /\ [][ChannelNext]_channelVars

-----------------------------------------------------------------------------
(* Properties.                                                             *)

MailSteps == {"idle", "open", "create", "creating", "map", "prompt", "dispatched", "queued",
              "ended", "done", "failed"}

\* Type invariant.
ChannelTypeOK ==
    /\ \A m \in Messages :
        /\ mail[m].pc \in MailSteps
        /\ mail[m].conversation \in Conversations
        /\ mail[m].session \in AcpSessions \cup {NoOne}
        /\ accumulated[m] \in Seq(Messages)
    /\ conversations \in [Conversations -> AcpSessions \cup {NoOne}]
    /\ streams \in [AcpSessions -> Messages \cup {NoOne}]
    /\ registered \subseteq AcpSessions
    /\ gateway \in Messages \cup Sockets \cup {NoOne}
    /\ agent \in {"none", "up", "dead"}
    /\ \A i \in DOMAIN requests : requests[i].kind \in {"create", "prompt", "cancel"}
    /\ notifications \in Seq(Messages)
    /\ sent \in [Messages -> 0..MaxChunks]
    /\ \A s \in Sockets :
        /\ Len(socket[s].inbox) <= Buffer
        /\ socket[s].stream # NoOne => socket[s].update # NoUpdate
        /\ socket[s].waits <=> gateway = s

\* acp_handler.rs, translate_acp_update: whatever overtakes what, the text of a
\* message only holds what the agent said in the message's own conversation.
ConversationsDoNotMix ==
    \A m \in Messages : \A i \in DOMAIN accumulated[m] :
        mail[accumulated[m][i]].conversation = mail[m].conversation

\* acp_handler.rs, Done: a client is told at most once that a message is complete,
\* and not before the agent ended a turn of its conversation.
CompleteOnceAfterATurn ==
    \A s \in Sockets, m \in Messages :
        /\ completed[s][m] <= 1
        /\ completed[s][m] = 1 =>
            \E n \in Messages : mail[n].pc = "done" /\ mail[n].session = mail[m].session

\* acp_handler.rs, acp.rs, connection.rs: the lock of acp_conversations is held across
\* create_session, the gateway across the connection's queue, and a socket's loop
\* across a cancel.  However they wait for one another, while a message is under way
\* or a cancel waits something of the server can go on.
ChannelNeverStuck ==
    \/ \E m \in Messages : mail[m].pc \notin {"idle", "done", "failed"}
    \/ \E s \in Sockets : socket[s].cancel # NoOne
    => ENABLED ServerStep
=============================================================================
