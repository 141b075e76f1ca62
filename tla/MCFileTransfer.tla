--------------------------- MODULE MCFileTransfer ---------------------------
(* An instance of FileTransfer: an upload of two chunks and a download of    *)
(* the same path.                                                            *)
EXTENDS FileTransfer, TLC

CONSTANTS u1, d1, path

MCUpload == {u1}
MCDownload == {d1}
MCPath == {path}
MCPathOf == u1 :> path @@ d1 :> path
MCSize == u1 :> 2
MCCell == {<<"old", 1>>, <<"old", 2>>}
MCStored == {Absent, <<>>, <<<<"old", 1>>, <<"old", 2>>>>}
=============================================================================
