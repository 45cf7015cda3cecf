------------------------------ MODULE Credentials ------------------------------
(***************************************************************************)
(* What saving the settings promises about password logins: one credential *)
(* per role, each changed by its own row of the table in the comment of    *)
(* SshdSettings.writeAuthorizedUser(), and lost, all of them at once, only *)
(* when the file could not be written.  A name with a colon is accepted by *)
(* the screen and does not survive.                                        *)
(***************************************************************************)
CONSTANTS Role, Blank, NoEntry, Usable(_)

VARIABLES cred,              \* [Role -> an entry or NoEntry]
          name, password, passwordUpdated,     \* the fields of the screen
          saving

(* The table: the entry of a role after its fields were stored. *)
Stored(old, n, updated, pw) ==
  CASE n = Blank                             -> NoEntry
    [] n # Blank /\ updated /\ pw = Blank    -> NoEntry
    [] n # Blank /\ ~updated /\ old = NoEntry -> NoEntry
    [] n # Blank /\ ~updated /\ old # NoEntry ->
         IF Usable(n) THEN [user |-> n[2], hash |-> old.hash] ELSE NoEntry
    [] n # Blank /\ updated /\ pw # Blank    ->
         IF Usable(n) THEN [user |-> n[2], hash |-> pw] ELSE NoEntry

Store(r) ==
  /\ saving
  /\ cred' = [cred EXCEPT ![r] = Stored(@, name[r], passwordUpdated[r], password[r])]
  /\ UNCHANGED <<name, password, passwordUpdated, saving>>

(* The write failed, or the app was killed, after the file was truncated:  *)
(* the save is over.                                                       *)
Lose ==
  /\ saving /\ ~saving'
  /\ cred' = [r \in Role |-> NoEntry]

(* The screen opens, is typed into, starts saving, closes; what is being   *)
(* saved stays as it is.                                                   *)
Screen ==
  /\ UNCHANGED cred
  /\ saving /\ saving' => UNCHANGED <<name, password, passwordUpdated>>

(* Somebody in a shell adds a line for one role. *)
HandEdit ==
  /\ ~saving
  /\ \E r \in Role : /\ cred'[r] # NoEntry
                     /\ \A q \in Role \ {r} : cred'[q] = cred[q]
  /\ UNCHANGED <<name, password, passwordUpdated, saving>>

Next == (\E r \in Role : Store(r)) \/ Lose \/ Screen \/ HandEdit

vars == <<cred, name, password, passwordUpdated, saving>>

Spec == cred = [r \in Role |-> NoEntry] /\ [][Next]_vars
=============================================================================
