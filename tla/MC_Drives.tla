------------------------------- MODULE MC_Drives -------------------------------
(* An instance of each part of what works on a drive: part is the one a   *)
(* behaviour is of. They share no state, and the others stay as they were *)
(* at the start.                                                          *)
EXTENDS DriveCache, OAuth, DriveConfig, TreeCopy, DriveFile, DriveReload, ScriptPool, TLC

VARIABLE part

Parts == {"cache", "oauth", "config", "copy", "file", "reload", "script"}
-----------------------------------------------------------------------------
SomeForms == ("sftp" :> ("password" :> "masked" @@ "host" :> "plain")) @@ ("ftp" :> ("password" :> "password"))


SomeContents == {<<>>, <<1, 2>>}
SomeListings == {<<>>, <<"a", "b", "c">>, <<"a", "c">>}
SomeOffsets == {-1, 0, 1}
-----------------------------------------------------------------------------
PartInit ==
  /\ part \in Parts
  /\ OAuthInit /\ ScriptInit
  /\ ConfigInit /\ (part = "config" \/ registered = {})
  /\ DriveCacheInit /\ (part = "cache" \/ (backend = "s3" /\ names = Unknown))
  /\ CopyInit /\ (part = "copy" \/ (native = "all" /\ To \notin DOMAIN trees))
  /\ FileInit /\ (part = "file" \/ (handle = "file" /\ content = <<>> /\ openFlag = "read"))
  /\ DrivesInit /\ (part = "reload" \/ \A w \in Writers : name[w] = CHOOSE n \in DriveNames : TRUE)

CachePart == part = "cache" /\ DriveCacheNext
\* What the tokens are is of no more interest once one was not stored.
OauthPart == part = "oauth" /\ ~apart /\ OAuthNext
ConfigPart == part = "config" /\ ConfigNext
CopyPart == part = "copy" /\ CopyNext
FilePart == part = "file" /\ FileNext
ReloadPart == part = "reload" /\ DrivesNext
ScriptPart == part = "script" /\ ScriptNext

PartNext ==
  /\ UNCHANGED part
  /\ \/ CachePart /\ UNCHANGED <<oauthVars, configVars, copyVars, fileVars, driveVars, scriptVars>>
     \/ OauthPart /\ UNCHANGED <<cacheVars, configVars, copyVars, fileVars, driveVars, scriptVars>>
     \/ ConfigPart /\ UNCHANGED <<cacheVars, oauthVars, copyVars, fileVars, driveVars, scriptVars>>
     \/ CopyPart /\ UNCHANGED <<cacheVars, oauthVars, configVars, fileVars, driveVars, scriptVars>>
     \/ FilePart /\ UNCHANGED <<cacheVars, oauthVars, configVars, copyVars, driveVars, scriptVars>>
     \/ ReloadPart /\ UNCHANGED <<cacheVars, oauthVars, configVars, copyVars, fileVars, scriptVars>>
     \/ ScriptPart /\ UNCHANGED <<cacheVars, oauthVars, configVars, copyVars, fileVars, driveVars>>

partVars == <<part, cacheVars, oauthVars, configVars, copyVars, fileVars, driveVars, scriptVars>>

PartSpec == PartInit /\ [][PartNext]_partVars

Symmetry == Permutations(Clients) \cup Permutations(FileNames)
=============================================================================
