------------------------------ MODULE MCSession ------------------------------
\* Two accounts and a guest, one browser.
EXTENDS Session
=============================================================================
