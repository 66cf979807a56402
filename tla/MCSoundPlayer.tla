--------------------------- MODULE MCSoundPlayer ---------------------------
(***************************************************************************)
(* A library of four tracks that between them meet every case: whole       *)
(* blocks, a short last block, an empty data section, and a format that    *)
(* passes ValidWavData but that the player cannot configure.               *)
(***************************************************************************)
EXTENDS SoundPlayerClaims

CONSTANTS sound1, sound2, empty, odd, mono16k, stereo48k, mono12k

MCBuffers == 0 .. 1

MCTracks == {sound1, sound2, empty, odd}

MCFormats == {mono16k, stereo48k, mono12k}

MCConfigurable == {mono16k, stereo48k}

MCFmt == [t \in MCTracks |->
            CASE t = sound1 -> mono16k
              [] t = sound2 -> stereo48k
              [] t = empty  -> mono16k
              [] t = odd    -> mono12k]

MCDataSize == [t \in MCTracks |->
                 CASE t = sound1 -> 7
                   [] t = sound2 -> 4
                   [] t = empty  -> 0
                   [] t = odd    -> 3]
=============================================================================
