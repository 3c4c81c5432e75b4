-------------------------------- MODULE Files --------------------------------
(***************************************************************************)
(* The two files rayctl keeps, platform.json and session.json.  Their      *)
(* commands share nothing, so a behaviour is one of either.                *)
(***************************************************************************)
EXTENDS ConfigStore, SessionStore

VARIABLE subject

filesVars == <<vars, sessionVars, subject>>

FilesInit ==
  \/ /\ subject = "platform.json"
     /\ Init
     /\ SessionInit
     /\ task = [c \in Users |-> CHOOSE t \in Tasks : TRUE]
     /\ sessions = [n \in SProfiles |-> None]
  \/ /\ subject = "session.json"
     /\ SessionInit
     /\ Init /\ file = Absent

FilesNext ==
  \/ subject = "platform.json" /\ Next /\ UNCHANGED <<sessionVars, subject>>
  \/ subject = "session.json" /\ SessionNext /\ UNCHANGED <<vars, subject>>

FilesSpec == FilesInit /\ [][FilesNext]_filesVars
==============================================================================
