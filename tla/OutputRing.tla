----------------------------- MODULE OutputRing -----------------------------
(***************************************************************************)
(* The back ends that put the player's frames in a ring, from which a      *)
(* callback in a thread of the sound server's takes them: PulseAudio,      *)
(* PipeWire and JACK.  The first two have a ring of their own, with its    *)
(* pointers and an occupancy under buffer_mutex; PulseAudio's callback     *)
(* also holds the lock of the main loop, PipeWire's no other lock.  JACK's *)
(* ring is that of its library, without locks.                             *)
(*                                                                          *)
(* Frames are numbered as they are put in.  Positions count frames: toq    *)
(* and eoq may be at the end of the ring, where the code's pointers are     *)
(* before they wrap.                                                        *)
(***************************************************************************)
EXTENDS Integers, Sequences, SequencesExt

CONSTANTS
  Sizes,      \* lengths of the ring that configurations lead to
  MaxAsk,     \* most frames the server asks for at once
  MaxFrames,  \* how many frames are put in
  MaxQueued,  \* most frames the server holds
  Calm        \* a configuration changes only when the ring is empty

VARIABLES
  backend,    \* "pulse", "pipewire" or "jack"
  cells,      \* what is in the ring, position by position
  toq, eoq, audio_occupancy,
  freed,      \* audio_lmb has been freed
  mutex,      \* who has buffer_mutex
  loop,       \* who has the lock of the server's loop
  running,    \* the stream is active and not corked
  enable_fill,
  on_process_is_running,
  flush_please,
  queued,     \* with the server: frames, and 0 for silence
  callback,   \* the callback: where it is, what it has still to hand over
  client,     \* the player: where it is
  fresh,      \* the next frame
  want,       \* the frames that are to be heard, in order
  flushed,    \* frames up to this one were in the ring when it was flushed
  handed,     \* the last frame handed to the server
  fault       \* memory that was freed has been read

ringVars == <<backend, cells, toq, eoq, audio_occupancy, freed, mutex, loop, running, enable_fill,
              on_process_is_running, flush_please, queued, callback, client, fresh, want, flushed,
              handed, fault>>

Size == Len(cells)
Quarter == (Size + 3) \div 4
Idle == [at |-> "idle", asked |-> 0, taken |-> <<>>]
Resting == [at |-> "idle", out |-> 0, before |-> 0, same |-> TRUE, occupancy |-> 0]

RingInit ==
  /\ backend \in {"pulse", "pipewire", "jack"}
  /\ \E s \in Sizes : cells = [i \in 1 .. s |-> 0]
  /\ toq = 0 /\ eoq = 0 /\ audio_occupancy = 0
  /\ freed = FALSE
  /\ mutex = "nobody" /\ loop = "nobody"
  /\ running = (backend = "jack")
  /\ enable_fill = TRUE
  /\ on_process_is_running = FALSE /\ flush_please = FALSE
  /\ queued = <<>>
  /\ callback = Idle /\ client = Resting
  /\ fresh = 1 /\ want = <<>> /\ flushed = 0 /\ handed = 0
  /\ fault = FALSE

-----------------------------------------------------------------------------
\* The ring.

Least(a, b) == IF a < b THEN a ELSE b

\* A pointer after n frames: at the end it stays there until more are moved.
BugMoved(p, n) == IF n < Size - p THEN p + n ELSE n - (Size - p) + 1
Moved(p, n) == IF n <= Size - p THEN p + n ELSE n - (Size - p)
Cell(p, i) == ((p + i) % Size) + 1
Put(p, n) == [k \in 1 .. Size |->
               IF \E i \in 0 .. n - 1 : Cell(p, i) = k
                 THEN fresh + (CHOOSE i \in 0 .. n - 1 : Cell(p, i) = k)
                 ELSE cells[k]]
Taken(n) == [i \in 1 .. n |-> cells[Cell(toq, i - 1)]]
Numbered(n) == [i \in 1 .. n |-> fresh + i - 1]

\* What does not fit is dropped.
Fill(n) ==
  LET put == Least(n, Size - audio_occupancy)
  IN  /\ cells' = Put(eoq, put)
      /\ eoq' = Moved(eoq, put)
      /\ audio_occupancy' = audio_occupancy + put
      /\ fresh' = fresh + put
      /\ want' = want \o Numbered(put)

Emptied ==
  /\ toq' = 0 /\ eoq' = 0 /\ audio_occupancy' = 0
  /\ want' = <<>>
  /\ flushed' = fresh - 1

-----------------------------------------------------------------------------
\* The player: play, flush, stop, configure and delay.

\* PipeWire's stream is made active by the first play.
Activate ==
  /\ backend = "pipewire" /\ client.at = "idle" /\ ~ running /\ loop = "nobody"
  /\ running' = TRUE /\ on_process_is_running' = FALSE
  /\ client' = [client EXCEPT !.at = "put"]
  /\ UNCHANGED <<backend, cells, toq, eoq, audio_occupancy, freed, mutex, loop, enable_fill,
                 flush_please, queued, callback, fresh, want, flushed, handed, fault>>

Play ==
  /\ mutex = "nobody"
  /\ IF backend = "pipewire" /\ ~ running THEN client.at = "put" ELSE client.at \in {"idle", "put"}
  /\ \E n \in 1 .. Least(MaxAsk, MaxFrames + 1 - fresh) :
       /\ Fill(n)
       /\ client' = [client EXCEPT !.at =
            IF backend = "pulse" /\ audio_occupancy' >= Quarter /\ ~ running THEN "uncork" ELSE "idle"]
  /\ UNCHANGED <<backend, toq, freed, mutex, loop, running, enable_fill, on_process_is_running,
                 flush_please, queued, callback, flushed, handed, fault>>

Uncork ==
  /\ client.at = "uncork" /\ loop = "nobody"
  /\ running' = TRUE
  /\ client' = Resting
  /\ UNCHANGED <<backend, cells, toq, eoq, audio_occupancy, freed, mutex, loop, enable_fill,
                 on_process_is_running, flush_please, queued, callback, fresh, want, flushed, handed, fault>>

\* PulseAudio's flush and stop first flush and cork the stream, and then empty
\* the ring.
FlushStream ==
  /\ backend = "pulse" /\ client.at = "idle" /\ loop = "nobody"
  /\ IF running THEN running' = FALSE /\ queued' = <<>> ELSE UNCHANGED <<running, queued>>
  /\ client' = [client EXCEPT !.at = "empty"]
  /\ UNCHANGED <<backend, cells, toq, eoq, audio_occupancy, freed, mutex, loop, enable_fill,
                 on_process_is_running, flush_please, callback, fresh, want, flushed, handed, fault>>

\* PipeWire's flush and stop empty the ring; flush then has silence sent, stop
\* makes the stream inactive.
EmptyRing ==
  /\ mutex = "nobody"
  /\ \/ /\ backend = "pulse" /\ client.at = "empty"
        /\ client' = Resting /\ UNCHANGED enable_fill
     \/ /\ backend = "pipewire" /\ client.at = "idle"
        /\ \/ enable_fill' = TRUE /\ client' = Resting
           \/ UNCHANGED enable_fill /\ client' = [client EXCEPT !.at = "deactivate"]
  /\ Emptied
  /\ UNCHANGED <<backend, cells, freed, mutex, loop, running, on_process_is_running, flush_please,
                 queued, callback, fresh, handed, fault>>

Deactivate ==
  /\ client.at = "deactivate" /\ loop = "nobody"
  /\ running' = FALSE
  /\ client' = Resting
  /\ UNCHANGED <<backend, cells, toq, eoq, audio_occupancy, freed, mutex, loop, enable_fill,
                 on_process_is_running, flush_please, queued, callback, fresh, want, flushed, handed, fault>>

\* JACK's flush is left to the callback.
AskForFlush ==
  /\ backend = "jack" /\ client.at = "idle"
  /\ flush_please' = TRUE
  /\ flushed' = fresh - 1
  /\ UNCHANGED <<backend, cells, toq, eoq, audio_occupancy, freed, mutex, loop, running, enable_fill,
                 on_process_is_running, queued, callback, client, fresh, want, handed, fault>>

\* PulseAudio: the ring is freed before the stream that reads it is stopped.
FreeRing ==
  /\ backend = "pulse" /\ client.at = "idle" /\ (Calm => audio_occupancy = 0)
  /\ freed' = TRUE
  /\ client' = [client EXCEPT !.at = "disconnect"]
  /\ UNCHANGED <<backend, cells, toq, eoq, audio_occupancy, mutex, loop, running, enable_fill,
                 on_process_is_running, flush_please, queued, callback, fresh, want, flushed, handed, fault>>

Disconnect ==
  /\ client.at = "disconnect" /\ loop = "nobody"
  /\ running' = FALSE /\ queued' = <<>>
  /\ client' = [client EXCEPT !.at = "allocate"]
  /\ UNCHANGED <<backend, cells, toq, eoq, audio_occupancy, freed, mutex, loop, enable_fill,
                 on_process_is_running, flush_please, callback, fresh, want, flushed, handed, fault>>

Allocate ==
  /\ client.at = "allocate"
  /\ \E s \in Sizes : cells' = [i \in 1 .. s |-> 0]
  /\ Emptied
  /\ freed' = FALSE
  /\ client' = Resting
  /\ UNCHANGED <<backend, mutex, loop, running, enable_fill, on_process_is_running, flush_please,
                 queued, callback, fresh, handed, fault>>

\* PipeWire: all of it with the lock of the loop, after the stream has been
\* disconnected, which waits for its callback.
Reconnect ==
  /\ backend = "pipewire" /\ client.at = "idle" /\ loop = "nobody" /\ callback.at = "idle"
  /\ \E s \in Sizes : cells' = [i \in 1 .. s |-> 0]
  /\ Emptied
  /\ running' = FALSE /\ enable_fill' = TRUE /\ queued' = <<>>
  /\ UNCHANGED <<backend, freed, mutex, loop, on_process_is_running, flush_please, callback, client,
                 fresh, handed, fault>>

\* PipeWire's delay: the server's figures before and after the occupancy, which
\* is read without the mutex, until both are the same, which they are not after
\* the server has been given or has played a buffer.  out is how far the
\* result is from the frames that are in the ring, in the callback's hands and
\* with the server.
BeginDelay ==
  /\ backend = "pipewire" /\ client.at = "idle" /\ on_process_is_running
  /\ client' = [Resting EXCEPT !.at = "first", !.before = Len(queued)]
  /\ UNCHANGED <<backend, cells, toq, eoq, audio_occupancy, freed, mutex, loop, running, enable_fill,
                 on_process_is_running, flush_please, queued, callback, fresh, want, flushed, handed, fault>>
ReadOccupancy ==
  /\ client.at = "first"
  /\ client' = [client EXCEPT !.at = "second", !.occupancy = audio_occupancy]
  /\ UNCHANGED <<backend, cells, toq, eoq, audio_occupancy, freed, mutex, loop, running, enable_fill,
                 on_process_is_running, flush_please, queued, callback, fresh, want, flushed, handed, fault>>
BugSameFigures == TRUE
SameFigures == client.same
EndDelay ==
  /\ client.at = "second"
  /\ client' = IF SameFigures
       THEN [Resting EXCEPT !.at = "told", !.out = (client.before + client.occupancy) -
               (audio_occupancy + Len(callback.taken) + Len(queued))]
       ELSE [Resting EXCEPT !.at = "first", !.before = Len(queued)]
  /\ UNCHANGED <<backend, cells, toq, eoq, audio_occupancy, freed, mutex, loop, running, enable_fill,
                 on_process_is_running, flush_please, queued, callback, fresh, want, flushed, handed, fault>>
UseDelay ==
  /\ client.at = "told"
  /\ client' = Resting
  /\ UNCHANGED <<backend, cells, toq, eoq, audio_occupancy, freed, mutex, loop, running, enable_fill,
                 on_process_is_running, flush_please, queued, callback, fresh, want, flushed, handed, fault>>

-----------------------------------------------------------------------------
\* The server's thread.

BeginCallback ==
  /\ backend # "jack" /\ callback.at = "idle" /\ mutex = "nobody" /\ running
  /\ backend = "pulse" => loop = "nobody"
  /\ loop' = IF backend = "pulse" THEN "callback" ELSE loop
  /\ mutex' = "callback"
  /\ on_process_is_running' = (on_process_is_running \/ backend = "pipewire")
  /\ \E n \in 1 .. MaxAsk : callback' = [Idle EXCEPT !.at = "copy", !.asked = n]
  /\ UNCHANGED <<backend, cells, toq, eoq, audio_occupancy, freed, running, enable_fill, flush_please,
                 queued, client, fresh, want, flushed, handed, fault>>

\* Frames leave the ring; PulseAudio may give a buffer for fewer than are asked.
CopyOut ==
  /\ callback.at = "copy" /\ audio_occupancy > 0
  /\ \E n \in 1 .. Least(callback.asked, audio_occupancy) :
       /\ backend = "pipewire" => n = Least(callback.asked, audio_occupancy)
       /\ callback' = [callback EXCEPT !.at = "hand", !.asked = @ - n, !.taken = Taken(n)]
       /\ toq' = Moved(toq, n)
       /\ audio_occupancy' = audio_occupancy - n
       /\ want' = SubSeq(want, n + 1, Len(want))
  /\ enable_fill' = (enable_fill /\ backend # "pipewire")
  /\ fault' = (fault \/ freed)
  /\ UNCHANGED <<backend, cells, eoq, freed, mutex, loop, running, on_process_is_running, flush_please,
                 queued, client, fresh, flushed, handed>>

\* PipeWire has silence for the server only until there is audio.
Silence ==
  /\ callback.at = "copy" /\ audio_occupancy = 0 /\ backend = "pipewire" /\ enable_fill
  /\ callback' = [callback EXCEPT !.at = "hand", !.taken = [i \in 1 .. callback.asked |-> 0]]
  /\ UNCHANGED <<backend, cells, toq, eoq, audio_occupancy, freed, mutex, loop, running, enable_fill,
                 on_process_is_running, flush_please, queued, client, fresh, want, flushed, handed, fault>>

Figures == client' = IF client.at \in {"first", "second"} THEN [client EXCEPT !.same = FALSE] ELSE client

Fits == Len(queued) + Len(callback.taken) <= MaxQueued
HandOver ==
  /\ callback.at = "hand" /\ Fits
  /\ queued' = queued \o callback.taken
  /\ handed' = IF Last(callback.taken) = 0 THEN handed ELSE Last(callback.taken)
  /\ callback' = [callback EXCEPT !.at = IF backend = "pulse" THEN "copy" ELSE "done", !.taken = <<>>]
  /\ UNCHANGED <<backend, cells, toq, eoq, audio_occupancy, freed, mutex, loop, running, enable_fill,
                 on_process_is_running, flush_please, fresh, want, flushed, fault>>
  /\ Figures

EndCallback ==
  /\ \/ callback.at = "done"
     \/ callback.at = "copy" /\ audio_occupancy = 0 /\ ~ (backend = "pipewire" /\ enable_fill)
     \/ callback.at = "copy" /\ callback.asked = 0
  /\ callback' = Idle /\ mutex' = "nobody" /\ loop' = "nobody"
  /\ UNCHANGED <<backend, cells, toq, eoq, audio_occupancy, freed, running, enable_fill,
                 on_process_is_running, flush_please, queued, client, fresh, want, flushed, handed, fault>>

\* JACK's callback takes what there is, up to what is asked, or, when a flush
\* has been asked for, all of it and hands over nothing.
Process ==
  /\ backend = "jack"
  /\ \E asked \in 1 .. MaxAsk :
       LET n == IF flush_please THEN audio_occupancy ELSE Least(asked, audio_occupancy)
       IN  /\ toq' = Moved(toq, n)
           /\ audio_occupancy' = audio_occupancy - n
           /\ want' = SubSeq(want, n + 1, Len(want))
           /\ queued' = IF flush_please \/ n = 0 THEN queued ELSE queued \o Taken(n)
           /\ handed' = IF flush_please \/ n = 0 THEN handed ELSE Last(Taken(n))
           /\ Len(queued') <= MaxQueued
  /\ flush_please' = FALSE
  /\ UNCHANGED <<backend, cells, eoq, freed, mutex, loop, running, enable_fill,
                 on_process_is_running, callback, client, fresh, flushed, fault>>

Heard ==
  /\ running /\ queued # <<>>
  /\ queued' = Tail(queued)
  /\ Figures
  /\ UNCHANGED <<backend, cells, toq, eoq, audio_occupancy, freed, mutex, loop, running, enable_fill,
                 on_process_is_running, flush_please, callback, fresh, want, flushed, handed, fault>>

RingNext ==
  \/ Activate \/ Play \/ Uncork \/ FlushStream \/ EmptyRing \/ Deactivate \/ AskForFlush
  \/ FreeRing \/ Disconnect \/ Allocate \/ Reconnect
  \/ BeginDelay \/ ReadOccupancy \/ EndDelay \/ UseDelay
  \/ BeginCallback \/ CopyOut \/ Silence \/ HandOver \/ EndCallback \/ Process \/ Heard

RingSpec == RingInit /\ [][RingNext]_ringVars

-----------------------------------------------------------------------------
RingTypeOK ==
  /\ toq \in 0 .. Size /\ eoq \in 0 .. Size
  /\ audio_occupancy \in 0 .. Size
  /\ fresh \in 1 .. MaxFrames + 1
  /\ callback.at \in {"idle", "copy", "hand", "done"}
  /\ mutex \in {"nobody", "callback"} /\ loop \in {"nobody", "callback"}

\* What is between the pointers is what was put in and not yet taken, in order.
RingHoldsFrames ==
  freed \/ (/\ Taken(audio_occupancy) = want
            /\ (toq + audio_occupancy) % Size = eoq % Size)

\* No frame that a flush found in the ring is handed over after it, and those
\* handed over are in order.
HandedInOrder ==
  /\ callback.at = "hand" /\ Last(callback.taken) # 0 =>
       /\ callback.taken[1] > handed
       /\ \A i \in 2 .. Len(callback.taken) : callback.taken[i] > callback.taken[i - 1]
  /\ want # <<>> /\ ~ flush_please => want[1] > flushed

\* Memory that was freed is not read.
RingNotFreed == ~ fault

\* PipeWire's figure is never too large, and leaves out at most the frames
\* that the callback is just handing over.
DelayIsClose == client.at = "told" => client.out \in -MaxAsk .. 0
=============================================================================
