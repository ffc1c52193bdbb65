---------------------------- MODULE MCVoiceTurns ----------------------------
(* Small instances of the voice delivery for TLC. *)
EXTENDS VoiceTurns, TLC

Interchangeable == Permutations(Utterance)
============================================================================
