----------------------------- MODULE MCChatTurn -----------------------------
EXTENDS ChatTurn
=============================================================================
