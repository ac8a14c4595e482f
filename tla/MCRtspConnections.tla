------------------------- MODULE MCRtspConnections -------------------------
(* Instances of RtspConnections for TLC: which clients there are.          *)
EXTENDS RtspConnections, TLC

CONSTANTS c1, c2, c3

AirPlay2Client == {"SETUP_PTP", "STREAMS", "TEARDOWN_STREAMS", "TEARDOWN", "FEEDBACK"}
RemoteControl == {"SETUP_RC", "STREAMS", "TEARDOWN", "FEEDBACK"}
ClassicClient == {"ANNOUNCE", "SETUP", "RECORD", "TEARDOWN", "FEEDBACK"}

\* Two AirPlay 2 sources, and a Classic AirPlay one, all after the player.
RivalRequests ==
  (c1 :> AirPlay2Client) @@ (c2 :> AirPlay2Client) @@ (c3 :> ClassicClient)

\* One source and two remote controls: nobody breaks in.
SoleRequests ==
  (c1 :> AirPlay2Client) @@ (c2 :> RemoteControl) @@ (c3 :> RemoteControl)

\* Two sources that only set up and play.
TwoSources == [c \in Conns |-> {"SETUP_PTP", "STREAMS", "FEEDBACK"}]
=============================================================================
