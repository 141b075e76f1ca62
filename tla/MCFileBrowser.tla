---------------------------- MODULE MCFileBrowser ----------------------------
\* Files of the same name in both directories, so that one can be taken for the
\* other.
EXTENDS FileBrowser, TLC

CONSTANTS root, user, a, b, x, y

MCFull == <<root, a>> :> x @@ <<user, a>> :> y
=============================================================================
