----------------------------- MODULE MCFrontend -----------------------------
EXTENDS Frontend
MCLines == {1, 2}
=============================================================================
