---------------------------- MODULE MCVoiceThread ----------------------------
(* Instance of VoiceThread for TLC. *)
EXTENDS VoiceThread

CONSTANT Lobby

\* A whisper to the holder of session 1, a shout to the lobby and its links, no target.
SessionOrShout ==
    {[sessions |-> {1}, channel |-> NoChannel, links |-> FALSE],
     [sessions |-> {}, channel |-> Lobby, links |-> TRUE],
     [sessions |-> {}, channel |-> NoChannel, links |-> FALSE]}
=============================================================================
