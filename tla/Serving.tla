-------------------------------- MODULE Serving --------------------------------
(* What a client is served besides WebDAV: transfers through the API and     *)
(* thumbnails.  They share no state but the drive they read.                 *)
EXTENDS DriveApi, Thumbnails

\* What a client is given is whole and of what it asked for.  What it gave is kept
\* whole, but where a save in place broke off or met another one, and whoever is told
\* that it was kept is told so of all of it, whatever breaks off on the way
\* (server/api_drive.go, server/utils.go, drive/fs/index.go, server/thumbnail/index.go).
ServedIsWhole == TransfersHold /\ ThumbsHold
=============================================================================
