------------------------------ MODULE MCTokens ------------------------------
\* Two deployers, so that deploys overlap, and one page.
EXTENDS Tokens
=============================================================================
