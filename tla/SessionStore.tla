---------------------------- MODULE SessionStore ----------------------------
(***************************************************************************)
(* session.json (internal/session/session.go, cmd/auth.go): the console    *)
(* sessions of the profiles.  auth login and logout, and every command     *)
(* that finds no token and signs in itself, load the file, change their    *)
(* own entry and replace the file whole, by the same steps as ConfigStore, *)
(* but no lock covers the read and the write.                              *)
(***************************************************************************)
EXTENDS Naturals

CONSTANTS
  Users,       \* the commands
  SProfiles,   \* the profiles
  Paired,      \* the profile "x" of each "x-pt", if their environments are d and pt
  Tasks,       \* what a command may be: its kind, its profile and the tokens it needs
  Nobody       \* who obtained the sessions there were at first

ASSUME SessionAssumption ==
  /\ \A t \in Tasks : t.profile \in SProfiles
  /\ \A n \in DOMAIN Paired : Paired[n] \in SProfiles

VARIABLES
  task,
  at,          \* where each command is
  held,        \* the session it has obtained
  loaded,      \* the sessions it has read
  sessions,    \* session.json
  expired,     \* whose sessions have expired
  used,        \* observer: the sessions each command's tokens are from
  overtaken    \* observer: somebody replaced the file since the command read it

sessionVars == <<task, at, held, loaded, sessions, expired, used, overtaken>>

None == [of |-> "none", by |-> Nobody, has |-> {}]
Session(n, who, tokens) == [of |-> n, by |-> who, has |-> tokens]

\* What a sign-in may give: the ID token may be missing.
TokenSets == {{"access"}, {"access", "id"}}

\* session.json with the sessions of some profiles.
StoreOf(S, tokens) ==
  [n \in SProfiles |-> IF n \in S THEN Session(n, Nobody, tokens) ELSE None]

Stores == {StoreOf(S, tokens) : S \in SUBSET SProfiles, tokens \in TokenSets}

SessionInit ==
  /\ task \in [Users -> Tasks]
  /\ at = [c \in Users |-> "start"]
  /\ held = [c \in Users |-> None]
  /\ sessions \in Stores
  /\ loaded = [c \in Users |-> sessions]
  /\ expired = {}
  /\ used = [c \in Users |-> {}]
  /\ overtaken = [c \in Users |-> FALSE]

Go(c, from, to) == at[c] = from /\ at' = [at EXCEPT ![c] = to]
ProfileOf(c) == task[c].profile

\* ValidAccessToken, ValidIDToken.
Valid(s, token) == token \in s.has /\ s.by \notin expired

\* The sessions that serve a profile: its own, then the paired one's.
ServingAny(n) == {sessions[m] : m \in SProfiles}   \* mutant: the environment is not asked
Serving(n) == {sessions[m] : m \in {n} \cup {Paired[k] : k \in DOMAIN Paired \cap {n}}}

TokenFrom(n, token) ==
  IF Valid(sessions[n], token) THEN sessions[n]
  ELSE IF \E s \in Serving(n) : Valid(s, token)
    THEN CHOOSE s \in Serving(n) : Valid(s, token) ELSE None

\* A command that needs tokens looks for them in the sessions, and signs in if
\* one of them is not there or no longer valid.
FindTokens(c) ==
  LET found == {TokenFrom(ProfileOf(c), token) : token \in task[c].needs} IN
  /\ task[c].kind = "use"
  /\ IF None \notin found
       THEN Go(c, "start", "done") /\ used' = [used EXCEPT ![c] = found]
       ELSE Go(c, "start", "signin") /\ UNCHANGED used
  /\ UNCHANGED <<task, held, loaded, sessions, expired, overtaken>>

\* Logging in starts with the sign-in, unless the user brings a token; logging
\* out leaves nothing in the entry.
Begin(c) ==
  /\ \/ task[c].kind = "login" /\ Go(c, "start", "signin") /\ UNCHANGED held
     \/ task[c].kind = "logout" /\ Go(c, "start", "signed") /\ UNCHANGED held
     \/ /\ task[c].kind = "import" /\ Go(c, "start", "signed")
        /\ held' = [held EXCEPT ![c] = Session(ProfileOf(c), c, {"access"})]
  /\ UNCHANGED <<task, loaded, sessions, expired, used, overtaken>>

\* Challenge, captcha, password, redirects and the exchange of the code: requests
\* that touch nothing of rayctl's, any of which may fail.
SignIn(c) ==
  /\ \/ /\ Go(c, "signin", "signed")
        /\ \E tokens \in TokenSets :
             held' = [held EXCEPT ![c] = Session(ProfileOf(c), c, tokens)]
     \/ Go(c, "signin", "failed") /\ UNCHANGED held
  /\ UNCHANGED <<task, loaded, sessions, expired, used, overtaken>>

\* Load: only now, when the session has been obtained.
LoadSessions(c) ==
  /\ Go(c, "signed", "loaded")
  /\ loaded' = [loaded EXCEPT ![c] = sessions]
  /\ overtaken' = [overtaken EXCEPT ![c] = FALSE]
  /\ UNCHANGED <<task, held, sessions, expired, used>>

OnlyIts(c) == [[n \in SProfiles |-> None] EXCEPT ![ProfileOf(c)] = held[c]]  \* mutant
Edited(c) == [loaded[c] EXCEPT ![ProfileOf(c)] = held[c]]

\* writeSessionAtomically: the file changes when the temporary one gets its name.
Replace(c) ==
  /\ Go(c, "loaded", "saved")
  /\ sessions' = Edited(c)
  /\ overtaken' = [d \in Users |-> d # c]
  /\ UNCHANGED <<task, held, loaded, expired, used>>

\* A command that signed in has its tokens, if they are in the session.
TakeTokens(c) ==
  /\ IF task[c].kind = "use" /\ \E token \in task[c].needs : ~Valid(held[c], token)
       THEN Go(c, "saved", "failed") /\ UNCHANGED used
       ELSE /\ Go(c, "saved", "done")
            /\ used' = IF task[c].kind = "use" THEN [used EXCEPT ![c] = {held[c]}] ELSE used
  /\ UNCHANGED <<task, held, loaded, sessions, expired, overtaken>>

\* A system call fails, or the command is killed; no temporary file is ever read.
StopUser(c) ==
  /\ at[c] \in {"signed", "loaded", "saved"}
  /\ at' = [at EXCEPT ![c] = "failed"]
  /\ UNCHANGED <<task, held, loaded, sessions, expired, used, overtaken>>

\* A session lasts for some time.
Expire(who) ==
  /\ who \notin expired
  /\ expired' = expired \cup {who}
  /\ UNCHANGED <<task, at, held, loaded, sessions, used, overtaken>>

UserStep(c) ==
  \/ FindTokens(c) \/ Begin(c) \/ SignIn(c) \/ LoadSessions(c)
  \/ Replace(c) \/ TakeTokens(c) \/ StopUser(c)

SessionNext ==
  \/ \E c \in Users : UserStep(c)
  \/ \E who \in Users \cup {Nobody} : Expire(who)

SessionSpec == SessionInit /\ [][SessionNext]_sessionVars
-----------------------------------------------------------------------------
\* A command acts with tokens of its own profile, or of the profile paired with
\* it, and with none that it could see to have expired.
TokensAreItsOwn ==
  [][\A c \in Users : \A s \in used'[c] \ used[c] :
       /\ \/ s.of = ProfileOf(c)
          \/ ProfileOf(c) \in DOMAIN Paired /\ s.of = Paired[ProfileOf(c)]
       /\ s.by \notin expired]_sessionVars

\* Another profile's session is lost, or comes back after a logout, only by a
\* command that had read the file before somebody else replaced it: commands that
\* do not overlap keep each other's.  (Nothing prevents the overlap.)
LostOnlyByOverlap ==
  [][\A c \in Users :
       at[c] = "loaded" /\ at'[c] = "saved" /\ ~overtaken[c] =>
         \A n \in SProfiles \ {ProfileOf(c)} : sessions'[n] = sessions[n]]_sessionVars
=============================================================================
