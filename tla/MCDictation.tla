----------------------------- MODULE MCDictation -----------------------------
EXTENDS Dictation
=============================================================================
