----------------------------- MODULE EventChannel -----------------------------
(***************************************************************************)
(* The event channel of an AirPlay 2 connection: ap2_event_receiver.c,     *)
(* ap2_event_message_handler.c, and what handle_setup_2 and the cleanup of *)
(* the conversation do with it.  SETUP opens a port and starts a thread,   *)
(* which waits for the source to connect, tells it what the receiver is    *)
(* (updateInfo), waits for its answer, and then keeps the channel open     *)
(* until the conversation's cleanup cancels it and joins it.               *)
(* The message and its cipher are left out.  The threads are numbered by   *)
(* the SETUP that started them.  A thread notices that it has been         *)
(* cancelled in accept, write, read and usleep, and not in                 *)
(* pthread_mutex_lock.                                                     *)
(***************************************************************************)
EXTENDS Integers, FiniteSets

CONSTANT MaxSetups  \* of a connection

Threads == 1 .. MaxSetups

VARIABLES
  conversation,       \* "serving", "joining" the event thread, or "gone"
  setups,             \* made so far; event_socket is the port of the last
  rtp_event_thread,   \* the last thread, 0 for none
  thread,             \* where each is, the port it listens to, and whether it was cancelled
  event_sender_mutex, \* who has it, 0 for nobody
  event_channel_fd,   \* whose channel, 0 as it began, -1 when it was closed
  open,               \* the channels open at our end
  source,             \* the source at each port
  airplay_gid         \* is it there?

conversationVars == <<conversation, setups, rtp_event_thread>>
channelVars == <<event_channel_fd, open>>
eventVars ==
  <<conversationVars, thread, event_sender_mutex, channelVars, source, airplay_gid>>

NoThread == [at |-> "none", port |-> 0, cancelled |-> FALSE]

EventInit ==
  /\ conversation = "serving" /\ setups = 0 /\ rtp_event_thread = 0
  /\ thread = [t \in Threads |-> NoThread]
  /\ event_sender_mutex = 0
  /\ event_channel_fd = 0 /\ open = {}
  /\ source = [t \in Threads |-> "away"]
  /\ airplay_gid = FALSE

Goes(t, to) == thread' = [thread EXCEPT ![t].at = to]

------------------------------------------------------------------------------
(* The conversation.                                                       *)

\* SETUP without streams: a port is opened, and a thread started; the handle of a thread that
\* is there already is lost.
Setup ==
  /\ conversation = "serving" /\ setups < MaxSetups
  /\ setups' = setups + 1
  /\ rtp_event_thread' = setups'
  /\ Goes(setups', "lock")
  /\ airplay_gid' = TRUE
  /\ UNCHANGED <<conversation, event_sender_mutex, channelVars, source>>

BeginCleanup ==
  /\ conversation = "serving"
  /\ conversation' = "joining"
  /\ thread' = [t \in Threads |->
                  [thread[t] EXCEPT !.cancelled = @ \/ t = rtp_event_thread]]
  /\ UNCHANGED <<setups, rtp_event_thread, event_sender_mutex, channelVars, source, airplay_gid>>

\* pthread_join, and what is left of the connection is freed.
Join ==
  /\ conversation = "joining"
  /\ rtp_event_thread /= 0 => thread[rtp_event_thread].at = "exited"
  /\ conversation' = "gone"
  /\ rtp_event_thread' = 0
  /\ airplay_gid' = FALSE
  /\ UNCHANGED <<setups, thread, event_sender_mutex, channelVars, source>>

------------------------------------------------------------------------------
(* The event thread: ap2_event_receiver.                                   *)

Lock(t) ==
  /\ thread[t].at = "lock" /\ event_sender_mutex = 0
  /\ event_sender_mutex' = t
  /\ thread' = [thread EXCEPT ![t].at = "accept", ![t].port = setups]
  /\ UNCHANGED <<conversationVars, channelVars, source, airplay_gid>>

\* accept returns with the mutex held, which is let go.
Accept(t) ==
  /\ thread[t].at = "accept"
  /\ \/ /\ source[thread[t].port] = "connected"
        /\ event_channel_fd' = t /\ open' = open \union {t}
        /\ Goes(t, "update")
     \/ event_channel_fd' = -1 /\ UNCHANGED open /\ Goes(t, "exited")
  /\ event_sender_mutex' = 0
  /\ UNCHANGED <<conversationVars, source, airplay_gid>>

\* ap2_event_send_update_info makes the message, with the group's identifier, and
\* ap2_event_port_send_message takes the mutex and looks whether there is a channel.
BeginSend(t) ==
  /\ thread[t].at = "update" /\ event_sender_mutex = 0
  /\ IF event_channel_fd /= 0
       THEN event_sender_mutex' = t /\ Goes(t, "write")
       ELSE UNCHANGED event_sender_mutex /\ Goes(t, "sleep")
  /\ UNCHANGED <<conversationVars, channelVars, source, airplay_gid>>

Channel == IF event_channel_fd > 0 THEN source[thread[event_channel_fd].port] ELSE "closed"

\* The mutex is let go when the write fails, and when the answer has come or the channel ended.
Write(t) ==
  /\ thread[t].at = "write"
  /\ \/ Channel = "connected" /\ Goes(t, "read") /\ UNCHANGED event_sender_mutex
     \/ Channel = "closed" /\ Goes(t, "sleep") /\ event_sender_mutex' = 0
  /\ UNCHANGED <<conversationVars, channelVars, source, airplay_gid>>

Read(t) ==
  /\ thread[t].at = "read"
  /\ Goes(t, "sleep") /\ event_sender_mutex' = 0
  /\ UNCHANGED <<conversationVars, channelVars, source, airplay_gid>>

\* A thread that notices that it was cancelled runs the handlers it has pushed: the one that
\* lets the mutex go, if it has it, and, when it has a channel, the receiver's own.
BugHandlers(t) == UNCHANGED event_sender_mutex
Handlers(t) == event_sender_mutex' = IF event_sender_mutex = t THEN 0 ELSE event_sender_mutex
ActOnCancel(t) ==
  /\ thread[t].cancelled
  /\ \/ thread[t].at = "accept" /\ Goes(t, "exited")
     \/ thread[t].at \in {"write", "read", "sleep"} /\ Goes(t, "cleanup")
  /\ Handlers(t)
  /\ UNCHANGED <<conversationVars, channelVars, source, airplay_gid>>

\* ap2_event_receiver_cleanup_handler closes the channel with the mutex, and frees the group.
BugClose == UNCHANGED open
Close == open' = open \ {event_channel_fd}
CleanUp(t) ==
  /\ thread[t].at = "cleanup" /\ event_sender_mutex = 0
  /\ Close /\ event_channel_fd' = -1
  /\ airplay_gid' = FALSE
  /\ Goes(t, "exited")
  /\ UNCHANGED <<conversationVars, event_sender_mutex, source>>

------------------------------------------------------------------------------
(* The source connects, and goes, when it likes.                           *)

Connect(t) ==
  /\ t <= setups /\ source[t] = "away"
  /\ source' = [source EXCEPT ![t] = "connected"]
  /\ UNCHANGED <<conversationVars, thread, event_sender_mutex, channelVars, airplay_gid>>

SourceCloses(t) ==
  /\ source[t] = "connected"
  /\ source' = [source EXCEPT ![t] = "closed"]
  /\ UNCHANGED <<conversationVars, thread, event_sender_mutex, channelVars, airplay_gid>>

EventNext ==
  \/ Setup \/ BeginCleanup \/ Join
  \/ \E t \in Threads :
       \/ Lock(t) \/ Accept(t) \/ BeginSend(t) \/ Write(t) \/ Read(t)
       \/ ActOnCancel(t) \/ CleanUp(t)
       \/ Connect(t) \/ SourceCloses(t)

------------------------------------------------------------------------------
(* Properties.                                                             *)

EventTypeOK ==
  /\ conversation \in {"serving", "joining", "gone"}
  /\ setups \in 0 .. MaxSetups /\ rtp_event_thread \in 0 .. setups
  /\ \A t \in Threads :
       /\ thread[t].at \in
            {"none", "lock", "accept", "update", "write", "read", "sleep", "cleanup", "exited"}
       /\ thread[t].port \in 0 .. setups /\ thread[t].cancelled \in BOOLEAN
       /\ source[t] \in {"away", "connected", "closed"}
  /\ event_sender_mutex \in 0 .. MaxSetups /\ event_channel_fd \in -1 .. MaxSetups
  /\ open \subseteq Threads /\ airplay_gid \in BOOLEAN

\* The cleanup does not wait for the source: the thread that it joins has ended, or goes on of
\* its own accord, wherever it was when it was cancelled.  False for a second SETUP, whose
\* thread waits for the mutex that the first holds while the source has not connected.
\* From the cancellation points, and the handlers that let the mutex go.
JoinNeedsNoSource ==
  conversation = "joining" /\ rtp_event_thread /= 0 =>
    LET t == rtp_event_thread IN
      \/ thread[t].at \in {"accept", "write", "read", "sleep", "exited"}
      \/ event_sender_mutex = 0

\* When the conversation is gone, so are its threads, its channel is closed, and nobody has the
\* mutex that is about to be destroyed.  False for a second SETUP, which loses the first thread.
\* From rtsp_conversation_thread_cleanup_function and the receiver's handler.
NothingLeftOpen ==
  conversation = "gone" =>
    /\ \A t \in Threads : thread[t].at \in {"none", "exited"}
    /\ open = {} /\ event_sender_mutex = 0

\* A thread tells its own source, with the mutex, and of a group that has not been freed.
\* From ap2_event_port_send_message and generateTxtDataValueInfo.
TellsItsSource ==
  \A t \in Threads :
    /\ thread[t].at \in {"write", "read"} => event_channel_fd = t /\ event_sender_mutex = t
    /\ thread[t].at = "update" => airplay_gid
=============================================================================
