-------------------------------- MODULE Trash --------------------------------
(***************************************************************************)
(* internal/trash and the disk it works on: every path holds a file or     *)
(* nothing, and the quarantine directory mirrors the paths with the second *)
(* of the move added, so an entry is the file that was at a path in a      *)
(* second.  A second move from the same path in the same second takes the  *)
(* place of the first (os.Rename and O_TRUNC both overwrite).              *)
(*                                                                         *)
(* The operators describe one step on the disk, for the actions of         *)
(* BookFiles; moveFile, which renames or copies and removes, may fail      *)
(* without a trace, after the copy, or having emptied the place.           *)
(***************************************************************************)
EXTENDS Naturals

CONSTANTS
    Path,
    Content,        \* what a file can be
    Watched,        \* the files whose end the ghosts record
    NoFile,
    RetentionDays,  \* here in seconds, the unit of the clock
    MaxSecond       \* bound on now

NoFileAssumption == NoFile \notin Content /\ Watched \subseteq Content
TrashBounds == RetentionDays \in Nat \ {0} /\ MaxSecond \in Nat

(* Restore may date an entry a second ahead. *)
Second == 0 .. MaxSecond + 1

VARIABLES
    file,           \* path -> what is there
    quarantine,     \* path -> second -> what was moved away from there then
    now,
    purged,         \* ghost: what a sweep or a user deleted for good
    overwritten     \* ghost: what a move landed on, or a clean-up took for its own

TrashTypeOK ==
    /\ file \in [Path -> Content \union {NoFile}]
    /\ quarantine \in [Path -> [Second -> Content \union {NoFile}]]
    /\ now \in 0 .. MaxSecond
    /\ purged \subseteq Watched /\ overwritten \subseteq Watched

Files(set) == set \ {NoFile}
OnDisk == Files({file[p] : p \in Path})
(* List, by the path and the second that an entry's place encodes. *)
Entries == {e \in Path \X Second : quarantine[e[1]][e[2]] # NoFile}
InTrash == {quarantine[e[1]][e[2]] : e \in Entries}

(* Ghost: files land where the old ones are, or take their place away. *)
Lost(olds) == overwritten' = overwritten \union (olds \cap Watched)
LandOn(old) == Lost({old})

--------------------------------------------------------------------------------
\* moveFile between a path and its place in the quarantine

MoveAside(p, t) ==
    /\ file[p] # NoFile
    /\ quarantine' = [quarantine EXCEPT ![p][t] = file[p]]
    /\ file' = [file EXCEPT ![p] = NoFile]
    /\ LandOn(quarantine[p][t])

(* It returns an error: nothing at the source or no rename and no copy; the
   copy was made and the source could not be removed; the copy broke off.
   The source stays.  Also: what the caller's clean-up loses. *)
MoveAsideFails(p, t, also) ==
    \/ UNCHANGED quarantine /\ Lost(also)
    \/ /\ file[p] # NoFile
       /\ \E copied \in {file[p], NoFile} : quarantine' = [quarantine EXCEPT ![p][t] = copied]
       /\ Lost({quarantine[p][t]} \union also)

MoveBack(p, t) ==
    /\ quarantine[p][t] # NoFile
    /\ file' = [file EXCEPT ![p] = quarantine[p][t]]
    /\ quarantine' = [quarantine EXCEPT ![p][t] = NoFile]
    /\ LandOn(file[p])

(* The temporary file is renamed to its path. *)
Swap(p, content) ==
    /\ file' = [file EXCEPT ![p] = content]
    /\ LandOn(file[p])
    /\ UNCHANGED quarantine

--------------------------------------------------------------------------------
\* What a user or the clock does to the quarantine

(* Where Restore puts the occupant: a second later when it would land on the
   entry that is being restored. *)
OccupantSecond(t) == IF t = now THEN now + 1 ELSE now

(* The occupant first, then the entry; an error can come after either. *)
Restore(p, t) ==
    /\ <<p, t>> \in Entries
    /\ IF file[p] = NoFile THEN MoveBack(p, t)
       ELSE LET u == OccupantSecond(t)
                aside == [quarantine EXCEPT ![p][u] = file[p]]
            IN  /\ LandOn(quarantine[p][u])
                /\ \/ /\ file' = [file EXCEPT ![p] = aside[p][t]]
                      /\ quarantine' = [aside EXCEPT ![p][t] = NoFile]
                   \/ file' = [file EXCEPT ![p] = NoFile] /\ quarantine' = aside
    /\ UNCHANGED <<now, purged>>

DeleteNow(p, t) ==
    /\ <<p, t>> \in Entries
    /\ quarantine' = [quarantine EXCEPT ![p][t] = NoFile]
    /\ purged' = purged \union ({quarantine[p][t]} \cap Watched)
    /\ UNCHANGED <<file, now, overwritten>>

Expired(t) == t + RetentionDays <= now

Sweep ==
    /\ quarantine' = [p \in Path |-> [t \in Second |-> IF Expired(t) THEN NoFile ELSE quarantine[p][t]]]
    /\ quarantine' # quarantine
    /\ purged' = purged \union
           ({quarantine[p][t] : p \in Path, t \in {s \in Second : Expired(s)}} \cap Watched)
    /\ UNCHANGED <<file, now, overwritten>>

Tick ==
    /\ now < MaxSecond
    /\ now' = now + 1
    /\ UNCHANGED <<file, quarantine, purged, overwritten>>

================================================================================
