---------------------------- MODULE ConvolverPool ----------------------------
(***************************************************************************)
(* The convolution filter and its threads: ConvolverThreadPool.cpp,        *)
(* convolver.cpp, and the part of player_thread_func that uses them.  The  *)
(* player hands the channels of a block to the pool, each to the convolver *)
(* of its number, and waits until all have been convolved in place; when   *)
(* the blocks or the impulse response files change it sets the convolvers  *)
(* up anew.  Flushes, stops and the D-Bus interface clear the convolvers   *)
(* from their own threads, and D-Bus replaces the list of files.           *)
(* What a convolver computes is left out: it is known by the rate (which   *)
(* stands for the length of blocks too), the channels of the file, and the *)
(* version of the list of files that it was set up from.                   *)
(***************************************************************************)
EXTENDS Integers, Sequences, FiniteSets

CONSTANTS
  MaxChannels, \* the convolvers
  Workers,    \* threads of the pool
  Clearers,   \* other threads that clear the convolvers
  Kinds,      \* of blocks: [rate, channels]
  Lists,      \* of files: sets of [rate, channels]
  Apart,      \* no thread clears, or frees the names of files, while a block is worked at
  MaxBlocks, MaxVersions  \* bounds

Channels == 1 .. MaxChannels
NoKind == [rate |-> 0, channels |-> 1]

VARIABLES
  taskQueue, activeTasks, stop,
  worker,       \* what each worker does, and its task
  step,         \* where the player is
  channel,      \* the next channel
  block,        \* the block in hand: its number and kind
  convolved,    \* how often each channel of it has been convolved
  is_valid, current,  \* convolver_is_valid, and the rate and channels of the file sought
  enabled,      \* config.convolution_enabled
  files,        \* the list: its version and the kinds it has files for
  updating,     \* how far D-Bus is in replacing it
  updated,      \* config.convolution_ir_files_updated
  convolver,    \* what each was set up for
  clearing      \* per clearer: "no", "wait", or the channels still to clear

poolVars == <<taskQueue, activeTasks, stop, worker>>
playVars == <<step, channel, block, convolved, is_valid, current>>
fileVars == <<files, updating, updated>>
convolutionVars == <<poolVars, playVars, fileVars, enabled, convolver, clearing>>

Idle == [at |-> "check", channel |-> 0]
Unset == [file |-> NoKind, version |-> 0]

\* convolver_pool_init.
PoolInit ==
  /\ taskQueue = <<>> /\ activeTasks = 0 /\ stop = FALSE
  /\ worker = [w \in Workers |-> Idle]
  /\ step = "idle" /\ channel = 1
  /\ block = [number |-> 0, kind |-> NoKind]
  /\ convolved = [c \in Channels |-> 0]
  /\ is_valid = FALSE /\ current = NoKind
  /\ enabled = TRUE
  /\ files \in {[version |-> 1, fits |-> f] : f \in Lists}
  /\ updating = "no" /\ updated = FALSE
  /\ convolver = [c \in Channels |-> Unset]
  /\ clearing = [t \in Clearers |-> "no"]

------------------------------------------------------------------------------
(* The workers: workerThread.                                              *)

\* With the mutex: a task is taken, or the worker leaves, or it sleeps until it is notified.
TakeTask(w) ==
  /\ worker[w].at = "check"
  /\ IF taskQueue /= <<>>
       THEN /\ worker' = [worker EXCEPT ![w] = [at |-> "task", channel |-> Head(taskQueue)]]
            /\ taskQueue' = Tail(taskQueue)
       ELSE /\ worker' = [worker EXCEPT ![w].at = IF stop THEN "gone" ELSE "asleep"]
            /\ UNCHANGED taskQueue
  /\ UNCHANGED <<activeTasks, stop, playVars, fileVars, enabled, convolver, clearing>>

\* task(), without the mutex.
Convolve(w) ==
  /\ worker[w].at = "task"
  /\ convolved' = [convolved EXCEPT ![worker[w].channel] = @ + 1]
  /\ worker' = [worker EXCEPT ![w].at = "done"]
  /\ UNCHANGED <<taskQueue, activeTasks, stop, step, channel, block, is_valid, current, fileVars,
       enabled, convolver, clearing>>

\* Who waits for all to be done looks again.
BugWoken == step
Woken == IF step = "asleep" THEN "wait" ELSE step
WokenClearers == [t \in Clearers |-> IF clearing[t] = "asleep" THEN "wait" ELSE clearing[t]]

CompleteTask(w) ==
  /\ worker[w].at = "done"
  /\ worker' = [worker EXCEPT ![w] = Idle]
  /\ activeTasks' = activeTasks - 1
  /\ step' = Woken /\ clearing' = WokenClearers
  /\ UNCHANGED <<taskQueue, stop, channel, block, convolved, is_valid, current, fileVars, enabled,
       convolver>>

WorkerStep(w) == TakeTask(w) \/ Convolve(w) \/ CompleteTask(w)

BugAllDone == taskQueue = <<>>
AllDone == taskQueue = <<>> /\ activeTasks = 0

------------------------------------------------------------------------------
(* The player.                                                             *)

NobodyClears == \A t \in Clearers : clearing[t] \in {"no", "wait", "asleep"}

\* Have we got the right convolution set-up?
Suits(kind) ==
  current.rate = kind.rate /\ current.channels \in {1, kind.channels} /\ ~updated

\* A block comes: it is worked at if convolution is enabled.
NextBlock ==
  /\ step = "idle" /\ ~stop
  /\ block.number < MaxBlocks
  /\ Apart => NobodyClears
  /\ \E kind \in Kinds :
       /\ block' = [number |-> block.number + 1, kind |-> kind]
       /\ IF enabled /\ ~Suits(kind)
            THEN is_valid' = FALSE /\ current' = kind /\ updated' = FALSE /\ step' = "search"
            ELSE /\ UNCHANGED <<is_valid, current, updated>>
                 /\ step' = IF enabled /\ is_valid THEN "submit" ELSE "idle"
  /\ channel' = 1
  /\ convolved' = [c \in Channels |-> 0]
  /\ UNCHANGED <<poolVars, files, updating, enabled, convolver, clearing>>

\* The list is searched for a file with the channels of the block, and then for one of a
\* single channel.
Search ==
  /\ step = "search"
  /\ current' = IF block.kind \in files.fits THEN current ELSE [current EXCEPT !.channels = 1]
  /\ step' = IF current' \in files.fits THEN "init" ELSE "idle"
  /\ UNCHANGED <<poolVars, channel, block, convolved, is_valid, fileVars, enabled, convolver,
       clearing>>

\* The loops go through the channels of the source.
NextChannel(after) ==
  IF channel < block.kind.channels THEN channel' = channel + 1 /\ UNCHANGED step
                                   ELSE channel' = 1 /\ step' = after

\* convolver_init sets up a convolver with initConvolver.
InitConvolver ==
  /\ step = "init" /\ AllDone
  /\ convolver' =
       [convolver EXCEPT ![channel] = [file |-> current, version |-> files.version]]
  /\ NextChannel("submit")
  /\ is_valid' = (is_valid \/ step' = "submit")
  /\ UNCHANGED <<poolVars, block, convolved, current, fileVars, enabled, clearing>>

\* A worker that sleeps is notified, if there is one.
Notified(workers) ==
  LET sleepers == {w \in Workers : workers[w].at = "asleep"} IN
    IF sleepers = {} THEN {workers} ELSE {[workers EXCEPT ![w].at = "check"] : w \in sleepers}

\* processAsync, for one channel after the other.
ProcessAsync ==
  /\ step = "submit"
  /\ taskQueue' = Append(taskQueue, channel)
  /\ activeTasks' = activeTasks + 1
  /\ worker' \in Notified(worker)
  /\ NextChannel("wait")
  /\ UNCHANGED <<stop, block, convolved, is_valid, current, fileVars, enabled, convolver, clearing>>

\* waitForAll, and the block goes on.
WaitForAll ==
  /\ step = "wait"
  /\ step' = IF AllDone THEN "over" ELSE "asleep"
  /\ UNCHANGED <<poolVars, channel, block, convolved, is_valid, current, fileVars, enabled,
       convolver, clearing>>

\* The samples are put back and their buffers freed.
PutBack ==
  /\ step = "over" /\ step' = "idle"
  /\ UNCHANGED <<poolVars, channel, block, convolved, is_valid, current, fileVars, enabled,
       convolver, clearing>>

PlayerWorks == Search \/ InitConvolver \/ ProcessAsync \/ WaitForAll \/ PutBack

------------------------------------------------------------------------------
(* Other threads.                                                          *)

\* clearAllStates: flushes, stops, and the D-Bus interface when it disables convolution.
BeginClear(t) ==
  /\ clearing[t] = "no" /\ ~stop
  /\ clearing' = [clearing EXCEPT ![t] = "wait"]
  /\ enabled' \in {enabled, FALSE}
  /\ UNCHANGED <<poolVars, playVars, fileVars, convolver>>

Enable ==
  /\ ~enabled /\ enabled' = TRUE
  /\ UNCHANGED <<poolVars, playVars, fileVars, convolver, clearing>>

WaitToClear(t) ==
  /\ clearing[t] = "wait"
  /\ clearing' = [clearing EXCEPT ![t] = IF AllDone THEN "clear" ELSE "asleep"]
  /\ AllDone /\ Apart => step = "idle"
  /\ UNCHANGED <<poolVars, playVars, fileVars, enabled, convolver>>

\* The states are cleared, without the mutex; a convolver stays as it was set up.
Clear(t) ==
  /\ clearing[t] = "clear"
  /\ clearing' = [clearing EXCEPT ![t] = "no"]
  /\ UNCHANGED <<poolVars, playVars, fileVars, enabled, convolver>>

ClearerStep(t) == WaitToClear(t) \/ Clear(t)

\* notify_convolution_impulse_response_files_callback: the list is freed, another is read, and
\* the player is told.
FreeFiles ==
  /\ updating = "no" /\ files.version < MaxVersions
  /\ Apart => step \notin {"search", "init"}
  /\ updating' = "freed"
  /\ files' = [files EXCEPT !.fits = {}]
  /\ UNCHANGED <<poolVars, playVars, updated, enabled, convolver, clearing>>

ParseFiles ==
  /\ updating = "freed" /\ updating' = "parsed"
  /\ \E f \in Lists : files' = [version |-> files.version + 1, fits |-> f]
  /\ UNCHANGED <<poolVars, playVars, updated, enabled, convolver, clearing>>

BugTold == UNCHANGED updated
Told == updated' = TRUE
TellPlayer ==
  /\ updating = "parsed" /\ updating' = "no"
  /\ Told
  /\ UNCHANGED <<poolVars, playVars, files, enabled, convolver, clearing>>

\* convolver_pool_closedown, at exit: every worker is woken, and joined.
Shutdown ==
  /\ ~stop /\ step = "idle" /\ \A t \in Clearers : clearing[t] = "no"
  /\ block.number = MaxBlocks
  /\ stop' = TRUE
  /\ worker' = [w \in Workers |-> [worker[w] EXCEPT !.at = IF @ = "asleep" THEN "check" ELSE @]]
  /\ UNCHANGED <<taskQueue, activeTasks, playVars, fileVars, enabled, convolver, clearing>>

PoolNext ==
  \/ \E w \in Workers : WorkerStep(w)
  \/ NextBlock \/ PlayerWorks
  \/ \E t \in Clearers : BeginClear(t) \/ ClearerStep(t)
  \/ Enable \/ FreeFiles \/ ParseFiles \/ TellPlayer
  \/ Shutdown

------------------------------------------------------------------------------
(* Properties.                                                             *)

PoolTypeOK ==
  /\ Len(taskQueue) <= Cardinality(Channels)
  /\ activeTasks \in 0 .. Cardinality(Channels) /\ stop \in BOOLEAN
  /\ \A w \in Workers : worker[w].at \in {"check", "asleep", "task", "done", "gone"}
  /\ step \in {"idle", "search", "init", "submit", "wait", "asleep", "over"}
  /\ channel \in Channels
  /\ block.number \in 0 .. MaxBlocks /\ current.channels \in Channels
  /\ convolved \in [Channels -> Nat]
  /\ {is_valid, enabled, updated} \subseteq BOOLEAN
  /\ files.version \in 1 .. MaxVersions /\ updating \in {"no", "freed", "parsed"}
  /\ \A c \in Channels : convolver[c].version \in 0 .. MaxVersions
  /\ \A t \in Clearers : clearing[t] \in {"no", "wait", "asleep", "clear"}

Working == {w \in Workers : worker[w].at \in {"task", "done"}}

\* Could this file be for that block?
IsFor(file, kind) == file.rate = kind.rate /\ file.channels \in {1, kind.channels}

\* When the player takes the samples back, every channel has been convolved once, by a
\* convolver set up for such a block, and no worker touches them any more; until then no
\* channel is with two workers.  False when blocks differ in their channels: after a file of
\* a single channel was used, or none was found, no other set-up is looked for.
\* From the counting of tasks in processAsync, workerThread and waitForAll.
ConvolvedOnce ==
  /\ step = "over" =>
       /\ Working = {}
       /\ \A c \in 1 .. block.kind.channels :
            convolved[c] = 1 /\ IsFor(convolver[c].file, block.kind)
  /\ \A v, w \in Working : v /= w => worker[v].channel /= worker[w].channel

\* No convolver is cleared or set up while it convolves; false unless Apart.
\* From clearAllStates and initConvolver, which let the mutex go before they act.
ClearedAlone ==
  (\E t \in Clearers : clearing[t] = "clear") => Working = {} /\ step \notin {"init", "submit"}

\* Between blocks, with no list on its way, the convolvers are those of the list there is, if
\* it has a file for the blocks that come.
\* From the order in which D-Bus replaces the list and tells, and the player is told and looks.
UsesTheFilesThere ==
  step = "idle" /\ updating = "no" /\ ~updated /\ current.rate = block.kind.rate
    /\ (\E file \in files.fits : IsFor(file, block.kind)) =>
      /\ is_valid
      /\ \A c \in 1 .. block.kind.channels :
           convolver[c].file \in files.fits /\ convolver[c].version = files.version

\* Who sleeps has nothing to wake up for: no worker while there are tasks and nobody awake to
\* take them, or at exit, and no one who waits for all to be done when they are.
\* From the notifications of the pool's two condition variables.
NobodyOversleeps ==
  /\ taskQueue /= <<>> => \E w \in Workers : worker[w].at \notin {"asleep", "gone"}
  /\ stop => \A w \in Workers : worker[w].at /= "asleep"
  /\ AllDone => step /= "asleep" /\ \A t \in Clearers : clearing[t] /= "asleep"
=============================================================================
