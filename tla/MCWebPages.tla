----------------------------- MODULE MCWebPages -----------------------------
EXTENDS WebPages
MCExisting == <<1>>
=============================================================================
