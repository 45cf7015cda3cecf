----------------------------- MODULE DropbearAuth -----------------------------
(***************************************************************************)
(* User authentication in one dropbear session (svr-auth.c,                *)
(* svr-authpasswd.c, svr-authpubkey.c) with the app's extensions           *)
(* (jni-dropbear.c, fill_passwd() in common-session.c): the login role     *)
(* comes from AUTHORIZED_USERS_FILE, which the app rewrites while sessions *)
(* are open.                                                               *)
(*                                                                         *)
(* Whether a password or a signature is right is left open: both outcomes  *)
(* are possible for every attempt.  What the client may get by guessing is *)
(* not a question for this module; what the session does with either       *)
(* outcome is.                                                             *)
(***************************************************************************)
EXTENDS Naturals

CONSTANTS User, NoUser,
          LongName,            \* a name longer than MAX_USERNAME_LEN
          maxauthtries,        \* svr_opts.maxauthtries, option -T
          MAX_PUBKEY_QUERIES,
          multiauthmethod,     \* svr_opts.multiauthmethod, option -t
          singleUse            \* enable_single_use_passwords

ASSUME UserAssumption == NoUser \notin User /\ LongName \notin User \cup {NoUser}
ASSUME TriesAssumption == maxauthtries \in Nat /\ MAX_PUBKEY_QUERIES \in Nat
ASSUME OptionAssumption == multiauthmethod \in BOOLEAN /\ singleUse \in BOOLEAN

Role == {"root", "shell", "user"}
Method == {"pubkey", "password"}

VARIABLES authtypes,   \* methods still offered
          username,    \* ses.authstate.username
          role,        \* the role pw_dir and pw_shell were chosen for
          failcount,
          serv_pubkey_query_count,
          authdone,
          open,        \* the session process runs
          users,       \* role on the user's line in the file, or "none"
          offered,     \* history: authtypes when the session began
          passed,      \* history: methods the client succeeded with
          pwRole,      \* history: role of what the right password was for
          edited       \* history: the file changed since the first request

sesVars == <<authtypes, username, role, failcount, serv_pubkey_query_count,
             authdone, open>>
histVars == <<offered, passed, pwRole>>
vars == <<sesVars, users, histVars, edited>>

(* Every variable holds a value of its kind; a name that is too long never *)
(* becomes the user of the session.                                        *)
TypeOK ==
  /\ authtypes \in SUBSET Method
  /\ username \in User \cup {NoUser}
  /\ role \in Role \cup {"none"}
  /\ failcount \in Nat
  /\ serv_pubkey_query_count \in Nat
  /\ authdone \in BOOLEAN
  /\ open \in BOOLEAN
  /\ users \in [User -> Role \cup {"none"}]
  /\ offered \in SUBSET Method
  /\ passed \in SUBSET Method
  /\ pwRole \in Role \cup {"none"}
  /\ edited \in BOOLEAN

(***************************************************************************)
(* svr_authinitialise(): keys count when public key login is enabled and   *)
(* authorized_keys exists, passwords when AUTHORIZED_USERS_FILE exists or  *)
(* single-use passwords are on.                                            *)
(***************************************************************************)
Init ==
  /\ users \in [User -> Role \cup {"none"}]
  /\ authtypes \in SUBSET Method
  /\ (singleUse \/ \E u \in User : users[u] # "none") => "password" \in authtypes
  /\ offered = authtypes
  /\ username = NoUser
  /\ role = "none"
  /\ failcount = 0
  /\ serv_pubkey_query_count = 0
  /\ authdone = FALSE
  /\ open = TRUE
  /\ passed = {}
  /\ pwRole = "none"
  /\ edited = FALSE

-----------------------------------------------------------------------------
(* Parts of the handlers.                                                  *)

(* sshd4a_find_user() and sshd4a_get_role_for_user(). *)
sshd4a_get_role_for_user(u) == IF users[u] = "none" THEN "user" ELSE users[u]

Waiting == open /\ ~authdone

(* Mutant of checkusername: accepts another name, keeps the first's role. *)
checkusername_Rename(u) ==
  /\ username' = IF u = LongName THEN username ELSE u
  /\ role' = IF u # LongName /\ username = NoUser
             THEN sshd4a_get_role_for_user(u) ELSE role
  /\ edited' = (edited /\ (u = LongName \/ username # NoUser))

(* Mutant of checkusername: keeps a name whatever its length. *)
checkusername_Long(u) ==
  /\ username \in {NoUser, u}
  /\ IF username = NoUser
     THEN /\ username' = u
          /\ role' = IF u = LongName THEN "user" ELSE sshd4a_get_role_for_user(u)
          /\ edited' = FALSE
     ELSE UNCHANGED <<username, role, edited>>

(***************************************************************************)
(* checkusername(): the first name fixes the user and, in fill_passwd(),   *)
(* the role; a name that is too long changes nothing.                      *)
(***************************************************************************)
checkusername(u) ==
  /\ u = LongName \/ username \in {NoUser, u}
  /\ IF u # LongName /\ username = NoUser
     THEN /\ username' = u
          /\ role' = sshd4a_get_role_for_user(u)
          /\ edited' = FALSE
     ELSE UNCHANGED <<username, role, edited>>

(* The answer to a failed request; too many counted ones end the session. *)
send_msg_userauth_failure(incrfail) ==
  /\ failcount' = IF incrfail THEN failcount + 1 ELSE failcount
  /\ open' = (failcount' <= maxauthtries)
  /\ UNCHANGED authdone

send_msg_userauth_success ==
  /\ authdone' = TRUE
  /\ UNCHANGED <<failcount, open>>

(* Mutant of Passed: deletes the flag of the other method. *)
Passed_WrongFlag(method) ==
  /\ passed' = passed \cup {method}
  /\ \/ /\ multiauthmethod /\ authtypes \ {method} # {}
        /\ authtypes' = authtypes \cap {method}
        /\ send_msg_userauth_failure(FALSE)
     \/ /\ ~(multiauthmethod /\ authtypes \ {method} # {})
        /\ send_msg_userauth_success
        /\ UNCHANGED authtypes

(* The client passed one method: done, or one of several with option -t. *)
Passed(method) ==
  /\ passed' = passed \cup {method}
  /\ \/ /\ multiauthmethod /\ authtypes \ {method} # {}
        /\ authtypes' = authtypes \ {method}
        /\ send_msg_userauth_failure(FALSE)
     \/ /\ ~(multiauthmethod /\ authtypes \ {method} # {})
        /\ send_msg_userauth_success
        /\ UNCHANGED authtypes

(* A failed request changes nothing else. *)
Failed(incrfail) ==
  /\ send_msg_userauth_failure(incrfail)
  /\ UNCHANGED <<authtypes, serv_pubkey_query_count, passed, pwRole>>

-----------------------------------------------------------------------------
(* recv_msg_userauth_request(), one action per method.                     *)

Exit ==
  /\ open' = FALSE
  /\ UNCHANGED <<authtypes, username, role, failcount, serv_pubkey_query_count,
                 authdone, users, histVars, edited>>

(* Another service, a null byte in the name, or a second name. *)
BadRequest == Waiting /\ Exit

(***************************************************************************)
(* Method "none": the blank password branch needs an empty pw_passwd, and  *)
(* fill_passwd() leaves none empty.                                        *)
(***************************************************************************)
RequestNone(u) ==
  /\ Waiting
  /\ checkusername(u)
  /\ Failed(FALSE)
  /\ UNCHANGED <<users, offered>>

(* A method that is unknown or not in authtypes. *)
RequestOther(u) ==
  /\ Waiting
  /\ checkusername(u)
  /\ Failed(TRUE)
  /\ UNCHANGED <<users, offered>>

(***************************************************************************)
(* svr_auth_password(1): a wrong, too long or changed password, a blank    *)
(* hash.                                                                   *)
(***************************************************************************)
PasswordFails(u) ==
  /\ Waiting
  /\ "password" \in authtypes
  /\ checkusername(u)
  /\ Failed(TRUE)
  /\ UNCHANGED <<users, offered>>

(* The password is right for the user's line, or is the single-use one. *)
PasswordPasses(u) ==
  /\ Waiting
  /\ "password" \in authtypes
  /\ checkusername(u)
  /\ username' # NoUser
  /\ Passed("password")
  /\ pwRole' = sshd4a_get_role_for_user(username')
  /\ UNCHANGED <<serv_pubkey_query_count, users, offered>>

(***************************************************************************)
(* A password after nothing but a name that was too long: username is a    *)
(* null pointer.  strcmp() faults on the first line of the file; without a *)
(* line the single-use password is compared, or its null pointer is read.  *)
(***************************************************************************)
PasswordUnnamed(u) ==
  /\ Waiting
  /\ "password" \in authtypes
  /\ u = LongName /\ username = NoUser
  /\ \/ /\ ~singleUse \/ (\E v \in User : users[v] # "none")
        /\ Exit
     \/ /\ singleUse /\ (\A v \in User : users[v] = "none")
        /\ Passed("password")
        /\ UNCHANGED <<username, role, serv_pubkey_query_count, users, offered, pwRole, edited>>

(* svr_auth_pubkey(): invalid name, or a signature algorithm not known. *)
PubkeyIgnored(u) ==
  /\ Waiting
  /\ "pubkey" \in authtypes
  /\ checkusername(u)
  /\ Failed(FALSE)
  /\ UNCHANGED <<users, offered>>

(* Mutant of free_query_limit: every query is free. *)
free_query_limit_Never == MAX_PUBKEY_QUERIES + maxauthtries

free_query_limit ==
  IF MAX_PUBKEY_QUERIES > maxauthtries THEN MAX_PUBKEY_QUERIES - maxauthtries ELSE 0

(* checkpubkey() refuses the key; exit() comes before the query is counted. *)
PubkeyRefused(u) ==
  /\ Waiting
  /\ "pubkey" \in authtypes
  /\ u # LongName
  /\ checkusername(u)
  /\ send_msg_userauth_failure(serv_pubkey_query_count >= free_query_limit)
  /\ serv_pubkey_query_count' =
       IF open' THEN serv_pubkey_query_count + 1 ELSE serv_pubkey_query_count
  /\ UNCHANGED <<authtypes, passed, pwRole, users, offered>>

(* The key is known and the client only asked: send_msg_userauth_pk_ok(). *)
PubkeyQuery(u) ==
  /\ Waiting
  /\ "pubkey" \in authtypes
  /\ u # LongName
  /\ checkusername(u)
  /\ UNCHANGED <<authtypes, failcount, serv_pubkey_query_count, authdone, open,
                 users, histVars>>

(* The key is known, the key blob or the signature is wrong. *)
PubkeyFails(u) ==
  /\ Waiting
  /\ "pubkey" \in authtypes
  /\ u # LongName
  /\ checkusername(u)
  /\ Failed(TRUE)
  /\ UNCHANGED <<users, offered>>

PubkeyPasses(u) ==
  /\ Waiting
  /\ "pubkey" \in authtypes
  /\ u # LongName
  /\ checkusername(u)
  /\ Passed("pubkey")
  /\ UNCHANGED <<serv_pubkey_query_count, users, offered, pwRole>>

recv_msg_userauth_request(u) ==
  \/ RequestNone(u)
  \/ RequestOther(u)
  \/ PasswordFails(u)
  \/ PasswordPasses(u)
  \/ PasswordUnnamed(u)
  \/ PubkeyIgnored(u)
  \/ PubkeyRefused(u)
  \/ PubkeyQuery(u)
  \/ PubkeyFails(u)
  \/ PubkeyPasses(u)

-----------------------------------------------------------------------------
(* AUTH_TIMEOUT before, disconnect or end of the login after authdone. *)
SessionEnds == open /\ Exit

(***************************************************************************)
(* The app saves its settings, or somebody edits the file: a reader sees   *)
(* any lines next, among them none while the file is being rewritten.      *)
(***************************************************************************)
EditFile ==
  /\ \E f \in [User -> Role \cup {"none"}] : f # users /\ users' = f
  /\ edited' = TRUE
  /\ UNCHANGED <<sesVars, histVars>>

Next ==
  \/ \E u \in User \cup {LongName} : recv_msg_userauth_request(u)
  \/ BadRequest
  \/ SessionEnds
  \/ EditFile

Spec == Init /\ [][Next]_vars

-----------------------------------------------------------------------------
(* Properties *)

(* Two-factor login (option -t): a session is authenticated only when the  *)
(* client has passed every method that was offered when it began, in       *)
(* whatever order and after whatever failures.                             *)
AllMethodsPassed ==
  authdone => passed # {} /\ (multiauthmethod => offered \subseteq passed)

(* The role of a login belongs to what its password was checked against:   *)
(* both are looked up separately, the role for the first request and the   *)
(* password for each attempt.  It holds as long as nobody edits the file   *)
(* between the two.                                                        *)
RoleOfCredential ==
  authdone /\ ~edited /\ pwRole # "none" => role = pwRole

(* default_options.h: MAX_PUBKEY_QUERIES, or maxauthtries if that is       *)
(* larger, bounds the keys a session that goes on has been refused, also   *)
(* when other failures are mixed in.                                       *)
QueriesBounded ==
  open => /\ serv_pubkey_query_count <= MAX_PUBKEY_QUERIES
             \/ serv_pubkey_query_count <= maxauthtries
          /\ failcount <= maxauthtries
=============================================================================
