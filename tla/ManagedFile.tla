---------------------------- MODULE ManagedFile ------------------------------
(***************************************************************************)
(* system/managedfile.py write_and_apply on one file of one service, as    *)
(* agent/handlers/samba.py uses it for nasos.conf: write, back up,         *)
(* validate, apply, and roll back when one of the last two fails in the    *)
(* way it is expected to.  An exception of another class ends the call     *)
(* where it stands, with the new content in place.                         *)
(*                                                                         *)
(* Each RPC runs in a task of its own and takes no lock, so calls overlap  *)
(* when two requests do.  An action is what happens between two awaits.    *)
(* testparm and smbd read the file that is there when they look, which     *)
(* need not be the one the caller wrote.                                   *)
(***************************************************************************)
EXTENDS Naturals, FiniteSets, FiniteSetsExt

CONSTANTS
    Calls,         \* calls of write_and_apply
    Contents,      \* rendered contents
    Good,          \* those testparm accepts
    NoFile,        \* the file does not exist
    Down,          \* the service does not run
    NoContent,     \* no call has succeeded, nothing is kept
    MaxBackups,    \* MAX_BACKUPS
    MaxCalls,      \* bound: calls under way at once
    MaxTime        \* bound: seconds

ASSUME GoodAssumption == Good \subseteq Contents
ASSUME NoFileAssumption == {NoFile, Down, NoContent} \cap Contents = {}
ASSUME BoundsAssumption ==
    /\ MaxBackups \in Nat \ {0} /\ MaxCalls \in Nat \ {0} /\ MaxTime \in Nat

VARIABLES
    file,      \* the content on disk, or NoFile
    loaded,    \* the content the service runs with, or Down
    backups,   \* backups[t]: <name>.<stamp>, stamps being whole seconds
    now,       \* the wall clock
    at,        \* where a call is
    content,   \* what it renders
    previous,  \* what it found
    settled,   \* history: what the last call that ended may have left on disk
    astray     \* history: a call ended where it stood, and none returned since

callVars == <<at, content, previous>>
fileVars == <<file, loaded, backups, now, at, content, previous, settled, astray>>

OnDisk == Contents \cup {NoFile}
Stamps == 0..MaxTime

FileInit ==
    /\ file \in Good \cup {NoFile}
    /\ loaded = file
    /\ backups = [t \in Stamps |-> NoContent]
    /\ now = 0
    /\ at = [k \in Calls |-> "idle"]
    /\ content = [k \in Calls |-> NoContent]
    /\ previous = [k \in Calls |-> NoContent]
    /\ settled = {file} /\ astray = FALSE

Active == {k \in Calls : at[k] \notin {"idle", "returned", "raised"}}

MovesTo(k, s) == at' = [at EXCEPT ![k] = s]

-----------------------------------------------------------------------------
(* Up to the first await: the previous content is read and the new one is   *)
(* renamed over it.                                                         *)

Write(k, c) ==
    /\ at[k] = "idle" /\ Cardinality(Active) < MaxCalls
    /\ content' = [content EXCEPT ![k] = c]
    /\ previous' = [previous EXCEPT ![k] = file]
    /\ file' = c
    /\ MovesTo(k, "written")
    /\ UNCHANGED <<loaded, backups, now, settled, astray>>

\* The stamps that have a backup file.
Kept(b) == {t \in Stamps : b[t] # NoContent}

\* Fault: the pruning keeps the oldest.
Pruned_newest(b) ==
    [t \in Stamps |-> IF Cardinality({u \in Kept(b) : u < t}) < MaxBackups
                      THEN b[t] ELSE NoContent]
\* existing[:-MAX_BACKUPS] is unlinked: the MAX_BACKUPS last names stay.
Pruned(b) ==
    [t \in Stamps |-> IF Cardinality({u \in Kept(b) : u > t}) < MaxBackups
                      THEN b[t] ELSE NoContent]

\* _backup: a second backup in one second replaces the first.
BackedUp(k) ==
    IF previous[k] = NoFile THEN backups
    ELSE Pruned([backups EXCEPT ![now] = previous[k]])

Backup(k) ==
    /\ at[k] = "written"
    /\ backups' = BackedUp(k)
    /\ MovesTo(k, "backedUp")
    /\ UNCHANGED <<file, loaded, now, content, previous, settled, astray>>

-----------------------------------------------------------------------------
(* validate                                                                 *)

\* testparm is content with a missing include.
Valid(c) == c \in Good \cup {NoFile}

\* testparm's verdict is about the file as it is now.
Verdict == IF Valid(file) THEN "valid" ELSE "invalid"

Validate(k) ==
    /\ at[k] = "backedUp"
    /\ MovesTo(k, Verdict)
    /\ UNCHANGED <<file, loaded, backups, now, content, previous, settled, astray>>

\* Fault: the new content stays where it is.
Restored_not(k) == file
\* _restore: the previous content is written back, or the file unlinked.
Restored(k) == previous[k]

\* Validation failed: restore and raise.
Reject(k) ==
    /\ at[k] = "invalid"
    /\ file' = Restored(k)
    /\ settled' = {previous[k]}
    /\ MovesTo(k, "raised")
    /\ UNCHANGED <<loaded, backups, now, content, previous, astray>>

-----------------------------------------------------------------------------
(* apply                                                                    *)

\* The service comes up with what is on disk.
ApplyWorks(k) ==
    /\ at[k] = "valid"
    /\ loaded' = file
    /\ MovesTo(k, "applied")
    /\ UNCHANGED <<file, backups, now, content, previous, settled, astray>>

\* ConfigApplyError, restore.  smb.service did not come up, or it did and
\* nmb.service did not.
ApplyFails(k) ==
    /\ at[k] = "valid"
    /\ loaded' \in {file, Down}
    /\ file' = Restored(k)
    /\ MovesTo(k, "restored")
    /\ UNCHANGED <<backups, now, content, previous, settled, astray>>

\* "best-effort: bring the service back up on the old config"
Reloaded == {file, Down}

ApplyAgain(k) ==
    /\ at[k] = "restored"
    /\ loaded' \in Reloaded
    /\ settled' = {previous[k]}
    /\ MovesTo(k, "raised")
    /\ UNCHANGED <<file, backups, now, content, previous, astray>>

Returns(k) ==
    /\ at[k] = "applied"
    /\ settled' = {content[k]} /\ astray' = FALSE
    /\ MovesTo(k, "returned")
    /\ UNCHANGED <<file, loaded, backups, now, content, previous>>

\* Whatever else ends a call: restorecon or testparm cannot be run, no backup
\* can be written, systemd does not tell the service's state, the agent stops.
\* write_and_apply catches none of it.
EndsAstray(k) ==
    /\ settled' = {previous[k], content[k]}
    /\ astray' = TRUE
    /\ MovesTo(k, "raised")
    /\ UNCHANGED <<backups, now, content, previous>>

Raises(k) ==
    /\ k \in Active
    /\ EndsAstray(k)
    /\ UNCHANGED <<file, loaded>>

\* The same in _restore, before or after its rename; nothing is applied again.
RestoreRaises(k) ==
    /\ \/ at[k] = "invalid" /\ UNCHANGED loaded
       \/ at[k] = "valid" /\ loaded' \in {file, Down}
    /\ file' \in {file, Restored(k)}
    /\ EndsAstray(k)

Tick ==
    /\ now < MaxTime
    /\ now' = now + 1
    /\ UNCHANGED <<file, loaded, backups, callVars, settled, astray>>

Step(k) ==
    \/ Backup(k) \/ Validate(k) \/ Reject(k)
    \/ ApplyWorks(k) \/ ApplyFails(k) \/ ApplyAgain(k) \/ Returns(k)
    \/ Raises(k) \/ RestoreRaises(k)

FileNext ==
    \/ \E k \in Calls, c \in Contents : Write(k, c)
    \/ \E k \in Calls : Step(k)
    \/ Tick

FileSpec == FileInit /\ [][FileNext]_fileVars

-----------------------------------------------------------------------------
(* Properties.                                                              *)

\* The variables have their types.
FileTypeOK ==
    /\ file \in OnDisk
    /\ loaded \in OnDisk \cup {Down}
    /\ backups \in [Stamps -> Contents \cup {NoContent}]
    /\ now \in Stamps
    /\ at \in [Calls -> {"idle", "written", "backedUp", "valid", "invalid",
                         "applied", "restored", "returned", "raised"}]
    /\ content \in [Calls -> Contents \cup {NoContent}]
    /\ previous \in [Calls -> OnDisk \cup {NoContent}]
    /\ settled \subseteq OnDisk /\ astray \in BOOLEAN

\* Between calls the file is what the last call was to leave: its content if
\* it returned, the content before it if it failed to validate or to apply,
\* either if it met an exception it does not expect.  As long as no call met
\* one, or since one returned after it, testparm accepts the file and the
\* service runs with it or does not run.  So a sequence of rejected contents
\* and failed applies never piles up to a broken configuration, and one call
\* that returns makes good what went astray.
QuietIsSettled ==
    Active = {} =>
      /\ file \in settled
      /\ astray \/ (Valid(file) /\ loaded \in {file, Down})

\* The content a call is replacing is on disk as a backup as long as the call
\* is under way, from the moment it has made one, also when there are
\* MAX_BACKUPS already; and there are never more.
ReplacedIsKept ==
    /\ Cardinality(Kept(backups)) <= MaxBackups
    /\ \A k \in Active : at[k] # "written" /\ previous[k] # NoFile =>
         \E t \in Stamps : backups[t] = previous[k]
==============================================================================
