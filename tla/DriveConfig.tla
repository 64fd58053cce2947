------------------------------ MODULE DriveConfig ------------------------------
(* The configurations of the drives, and how the administration shows and edits    *)
(* them (server/api_admin_drives.go, storage/drives.go): what is secret is shown    *)
(* as a placeholder, and a placeholder that comes back stands for what is stored.   *)
EXTENDS Naturals, FiniteSets

CONSTANTS
  Owned,       \* names of drives
  Editors,     \* clients of the administration
  FormOf,      \* of each type, what each field is: "password", "masked" (one with a Secret), or "plain"
  Typed,       \* what a user types into a field
  MaxEdits     \* bound: changes of the table

ASSUME ConfigAssumption == MaxEdits \in Nat /\ "hidden" \notin Typed /\ "mask" \notin Typed

VARIABLES
  configs,     \* the table: [type, fields], or NoDrive
  registered,  \* the types this build of the program registers
  offered,     \* what a client was shown last, and of which drive; ghost: its type was known
  saving,      \* an update between its reading of the row and its writing; ghosts: the row, the fields that were edited, known
  edits,
  typed        \* ghost: what was ever typed for a field of a drive

configVars == <<configs, registered, offered, saving, edits, typed>>

NoDrive == [type |-> "none"]
NoSave == [name |-> "none"]
Types == DOMAIN FormOf
FieldsOf(t) == DOMAIN FormOf[t]
\* Bound: a field is empty or holds one of Typed.
Values == Typed \cup {""}
Secretive(t, f) == FormOf[t][f] \in {"password", "masked"}
Placeholder(t, f) == IF FormOf[t][f] = "masked" THEN "mask" ELSE "hidden"

ConfigInit ==
  /\ configs = [n \in Owned |-> NoDrive] /\ registered \in SUBSET Types
  /\ offered = [c \in Editors |-> NoSave] /\ saving = [c \in Editors |-> NoSave] /\ edits = 0
  /\ typed = [n \in Owned |-> {}]

\* escapeDriveConfigSecrets.
Escape(t, config) == [f \in FieldsOf(t) |-> IF Secretive(t, f) /\ config[f] # "" THEN Placeholder(t, f) ELSE config[f]]

\* A field of the row that is read: none that another type had, maybe.
SavedValue(saved, f) == IF f \in FieldsOf(saved.type) THEN saved.fields[f] ELSE ""
\* Mutant: what a Secret stood for is not put back.
UnescapePasswords(t, saved, config) == [f \in FieldsOf(t) |-> IF Secretive(t, f) /\ config[f] = "hidden" THEN SavedValue(saved, f) ELSE config[f]]
\* unescapeDriveConfigSecrets.
Unescape(t, saved, config) ==
  [f \in FieldsOf(t) |-> IF Secretive(t, f) /\ config[f] \in {"hidden", Placeholder(t, f)} THEN SavedValue(saved, f) ELSE config[f]]

\* getDrives: what is stored of a drive of a type that is not registered, as it is stored.
ShowDrive(c, n) ==
  /\ configs[n] # NoDrive
  /\ LET t == configs[n].type  config == configs[n].fields
     IN  offered' = [offered EXCEPT ![c] = [name |-> n, type |-> t, known |-> t \in registered,
                                            fields |-> IF t \in registered THEN Escape(t, config) ELSE config]]
  /\ UNCHANGED <<configs, registered, saving, edits, typed>>

Pairs(config) == {<<f, config[f]>> : f \in DOMAIN config}

\* Of a name that is taken it is refused.
AddDrive(n, row) == configs[n] = NoDrive /\ configs' = [configs EXCEPT ![n] = row]
\* createDrive: of any type.
CreateDrive(n, t, config) ==
  /\ edits < MaxEdits /\ edits' = edits + 1
  /\ AddDrive(n, [type |-> t, fields |-> config])
  /\ typed' = [typed EXCEPT ![n] = @ \cup Pairs(config)]
  /\ UNCHANGED <<registered, offered, saving>>

\* updateDrive, refused of a type that is not registered, reads the row: the client sends what it was shown, with
\* fields it changed.
BeginUpdate(c, fs, v) ==
  /\ offered[c] # NoSave /\ saving[c] = NoSave /\ edits < MaxEdits /\ edits' = edits + 1
  /\ offered[c].type \in registered /\ configs[offered[c].name] # NoDrive
  /\ LET n == offered[c].name  t == offered[c].type
         sent == [f \in FieldsOf(t) |-> IF f \in fs THEN v ELSE offered[c].fields[f]]
     IN  /\ saving' = [saving EXCEPT ![c] = [name |-> n, type |-> t, fields |-> Unescape(t, configs[n], sent), read |-> configs[n],
                                               changed |-> fs, known |-> offered[c].known]]
         /\ typed' = [typed EXCEPT ![n] = @ \cup {<<f, v>> : f \in fs}]
  /\ UNCHANGED <<configs, registered, offered>>

\* UpdateDrive: an upsert.
EndUpdate(c) ==
  /\ saving[c] # NoSave
  /\ configs' = [configs EXCEPT ![saving[c].name] = [type |-> saving[c].type, fields |-> saving[c].fields]]
  /\ saving' = [saving EXCEPT ![c] = NoSave] /\ UNCHANGED <<registered, offered, edits, typed>>
FailUpdate(c) == saving[c] # NoSave /\ saving' = [saving EXCEPT ![c] = NoSave] /\ UNCHANGED <<configs, registered, offered, edits, typed>>

DeleteConfig(n) ==
  /\ configs[n] # NoDrive /\ edits < MaxEdits /\ edits' = edits + 1
  /\ configs' = [configs EXCEPT ![n] = NoDrive] /\ UNCHANGED <<registered, offered, saving, typed>>

\* The program is started again, from another build maybe, whose packages register other types.
Restart(types) ==
  /\ edits < MaxEdits /\ edits' = edits + 1
  /\ registered' = types /\ saving' = [c \in Editors |-> NoSave]
  /\ UNCHANGED <<configs, offered, typed>>

EditorStep(c) ==
  \/ \E n \in Owned : ShowDrive(c, n)
  \/ \E t \in Types : \E fs \in SUBSET FieldsOf(t), v \in Values : offered[c] # NoSave /\ offered[c].type = t /\ BeginUpdate(c, fs, v)
  \/ EndUpdate(c) \/ FailUpdate(c)
ConfigNext ==
  \/ \E c \in Editors : EditorStep(c)
  \/ \E n \in Owned : DeleteConfig(n) \/ \E t \in Types : \E config \in [FieldsOf(t) -> Values] : CreateDrive(n, t, config)
  \/ \E types \in SUBSET Types : Restart(types)
ConfigSpec == ConfigInit /\ [][ConfigNext]_configVars
-----------------------------------------------------------------------------
\* The type invariant.
ConfigTypeOK ==
  /\ \A n \in Owned : configs[n] = NoDrive \/ (configs[n].type \in Types /\ DOMAIN configs[n].fields = FieldsOf(configs[n].type))
  /\ \A c \in Editors : saving[c] = NoSave \/ saving[c].name \in Owned

\* A client is never shown a secret, only that there is one, of a drive whose type is registered, which is not
\* what a drive of another type gets: all that was typed for it is shown, and nothing is written for it.
SecretsAreHidden ==
  \A c \in Editors :
    /\ offered[c] # NoSave /\ offered[c].known => \A f \in FieldsOf(offered[c].type) :
         Secretive(offered[c].type, f) => offered[c].fields[f] \in {"", Placeholder(offered[c].type, f)}
    /\ offered[c] # NoSave /\ ~offered[c].known => \A f \in FieldsOf(offered[c].type) :
         offered[c].fields[f] = "" \/ <<f, offered[c].fields[f]>> \in typed[offered[c].name]
    /\ saving[c] # NoSave => saving[c].type \in registered

\* What a drive is configured with was typed for that field of it once, or is empty:
\* no placeholder is ever taken for a value, whatever deletions, creations of the name
\* with another type, other updates and other builds come between.
StoredWasTyped ==
  \A n \in Owned : configs[n] # NoDrive => \A f \in FieldsOf(configs[n].type) : configs[n].fields[f] = "" \/ <<f, configs[n].fields[f]>> \in typed[n]

\* An update that no other one overtakes keeps each secret its client was shown as a placeholder
\* and did not touch.
UntouchedIsKept ==
  [][\A c \in Editors : EndUpdate(c) /\ saving[c].known /\ configs[saving[c].name] = saving[c].read /\ saving[c].type = saving[c].read.type =>
       \A f \in FieldsOf(saving[c].type) \ saving[c].changed : Secretive(saving[c].type, f) /\ saving[c].fields[f] # "" =>
         configs'[saving[c].name].fields[f] = configs[saving[c].name].fields[f]]_configVars

\* The secrets of registered types neither leave the server nor are replaced by what stands for them.
SecretsHold == [](ConfigTypeOK /\ SecretsAreHidden /\ StoredWasTyped) /\ UntouchedIsKept
=============================================================================
