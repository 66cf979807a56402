---------------------------- MODULE AudioStream ----------------------------
(***************************************************************************)
(* What a listener can count on, whatever buffers and interrupts are used. *)
(* The wire is silent or carries one chunk of one track; a track starts at *)
(* its first byte and only because it was asked for; a chunk begins where  *)
(* the one before it ended; the stream may end at any point, and then      *)
(* nothing that was asked for is left over.                                *)
(*                                                                         *)
(* Two flaws are part of it.  Each time sound starts from silence one of   *)
(* the first two chunks is sent a second time, unless the stream ends      *)
(* before; no other chunk ever is.  And a command may replace the chunk on *)
(* the wire while it is being sent, so what is heard of it is torn.        *)
(*                                                                         *)
(* This is the abstract specification of sound_player.c together with      *)
(* nrfx_i2s.c; module SoundPlayer implements it as long as an interrupt is *)
(* served before the block in transmission ends.                           *)
(***************************************************************************)
EXTENDS Naturals

CONSTANTS
    Tracks,         \* the tracks of the sound library
    DataSize,       \* bytes of audio data of each track
    BlockBytes,     \* the most bytes sent as one block
    Silent,         \* nothing on the wire
    NoTrack         \* no track waits to be started

VARIABLES
    wire,           \* the chunk being sent, or Silent
    pending,        \* the track that will start at the next boundary
    sending         \* the place of that chunk among those sent since silence

streamVars == <<wire, pending, sending>>

ChunkAt(track, from) ==
    [track |-> track,
     off   |-> from,
     len   |-> IF DataSize[track] - from > BlockBytes
                 THEN BlockBytes ELSE DataSize[track] - from]

First(track) == ChunkAt(track, 0)

Playable(track) == DataSize[track] > 0

StreamInit ==
    /\ wire = Silent
    /\ pending = NoTrack
    /\ sending = "none"

\* A track is asked for and has to wait: for the chunk on the wire to end, or for
\* the transfer before it to have stopped.
Request(track) ==
    /\ Playable(track)
    /\ pending' = track
    /\ UNCHANGED <<wire, sending>>

\* A track is asked for in silence and starts at once.
Start(track) ==
    /\ Playable(track)
    /\ wire = Silent
    /\ wire' = First(track)
    /\ pending' = NoTrack
    /\ sending' = "first"

\* A track is asked for while no other chunk is queued: its first chunk replaces
\* the one on the wire, in the middle of it.
Overwrite(track) ==
    /\ Playable(track)
    /\ wire # Silent
    /\ pending = NoTrack
    /\ wire' = First(track)
    /\ UNCHANGED <<pending, sending>>

\* The chunk on the wire is sent again: one of the first two, once.
Repeat ==
    /\ sending \in {"first", "second"}
    /\ sending' = "again"
    /\ UNCHANGED <<wire, pending>>

\* Another chunk goes on the wire.  By the end of the second one of the two has
\* been repeated.
Onward ==
    /\ wire # Silent
    /\ sending # "second"
    /\ sending' = IF sending = "first" THEN "second" ELSE "later"

\* The track that was waiting starts.
StartPending ==
    /\ Onward
    /\ pending # NoTrack
    /\ wire' = First(pending)
    /\ pending' = NoTrack

\* The next chunk of the same track follows without a gap or an overlap.
Continue ==
    /\ Onward
    /\ pending = NoTrack
    /\ wire.off + wire.len < DataSize[wire.track]
    /\ wire' = ChunkAt(wire.track, wire.off + wire.len)
    /\ UNCHANGED pending

Finish ==
    /\ wire' = Silent
    /\ pending' = NoTrack
    /\ sending' = "none"

StreamNext ==
    \/ \E track \in Tracks : Request(track) \/ Start(track) \/ Overwrite(track)
    \/ Repeat
    \/ StartPending
    \/ Continue
    \/ Finish

StreamSpec == StreamInit /\ [][StreamNext]_streamVars
=============================================================================
