----------------------------- MODULE MCChatPage -----------------------------
EXTENDS ChatPage
=============================================================================
