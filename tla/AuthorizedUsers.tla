---------------------------- MODULE AuthorizedUsers ----------------------------
(***************************************************************************)
(* The file of password logins, one line user:hash[:role] per entry.  The  *)
(* settings screen edits it (SshdSettings.java, UserPassStorage.java,      *)
(* SettingsFragment.java) by reading all of it into a map by role and      *)
(* writing all of it back, once per role; dropbear reads it, with a parser *)
(* of its own and by user name, whenever somebody logs in                  *)
(* (jni-dropbear.c); and somebody in a shell may add to it by hand.        *)
(*                                                                         *)
(* A line is kept as it is in the file, so that the two parsers can differ *)
(* on it.  A typed name has a form, and the screen refuses none:           *)
(*   "plain"        no colon                                               *)
(*   "tail"         name:rest, also name:rest:more                         *)
(*   "hidden"       :name or name:, the first or the second field of the   *)
(*                  line is empty                                          *)
(*   "hiddenTail"   :name:rest or name::rest, the same with a rest         *)
(***************************************************************************)
EXTENDS Naturals, Sequences, FiniteSetsExt, SequencesExt

CONSTANTS Name, Hash,    \* a password and its hash are one value
          Blank,         \* no or only white space in a field
          Rest,          \* what follows the colon of a name: no hash
          NoEntry,
          OddName,       \* the names that are also typed with a colon
          otherMethod,   \* single-use passwords or public keys are enabled
          MaxTyped,      \* bound: fields typed
          MaxHandEdits   \* bound: lines added by hand

Role == {"user", "root", "shell"}
Hidden == {"hidden", "hiddenTail"}
WithRest == {"tail", "hiddenTail"}
Form == {"plain"} \cup Hidden \cup WithRest

ASSUME TokenAssumption ==
  /\ Blank \notin Hash /\ Rest \notin Hash \cup {Blank}
  /\ Blank \notin Form \X Name
  /\ NoEntry \notin [user : Name, hash : Hash]
  /\ NoEntry \notin [user : Name, password : Hash \cup {Rest}, role : Role]
  /\ OddName \subseteq Name
  /\ otherMethod \in BOOLEAN
ASSUME LimitAssumption == MaxTyped \in Nat /\ MaxHandEdits \in Nat

Typed == ({"plain"} \X Name) \cup ((Form \ {"plain"}) \X OddName)

VARIABLES file,             \* records [form, user, hash, role], one per line;
                            \* <<>> also when there is no file
          screen,           \* "closed", "open", "warned" (no login method)
          name, password, passwordUpdated,   \* the three UserPassStorage
          todo,             \* roles handleOnBackPressed() has yet to store
          saving,           \* it is running
          all,              \* the map writeAllAuthorizedUsers() is writing
          popping,          \* a failed save leaves the screen in two seconds
          ok,               \* history: the last save was complete, and since
                            \* then nobody edited the file
          typed, handEdits  \* counters for the bounds

fields == <<name, password, passwordUpdated>>
vars == <<file, screen, fields, todo, saving, all, popping, ok, typed, handEdits>>

Line == [form : Form, user : Name, hash : Hash, role : Role]

(* An entry of a role, and what the app makes of a "tail" line. *)
RoleEntry == [key : {Blank} \X Role, user : Form \X Name, hash : Hash]
TailEntry == [key : Hash \X Role, user : {"plain"} \X Name, hash : {Rest}]
Entry == RoleEntry \cup TailEntry

OneEntryPerKey(m) == \A i, j \in DOMAIN m : m[i].key = m[j].key => i = j

(* Every line has a hash, also one that went through the app's parser and  *)
(* back with a colon in its name; a map has one entry per key.             *)
TypeOK ==
  /\ file \in Seq(Line)
  /\ screen \in {"closed", "open", "warned"}
  /\ name \in [Role -> (Form \X Name) \cup {Blank}]
  /\ password \in [Role -> Hash \cup {Blank}]
  /\ passwordUpdated \in [Role -> BOOLEAN]
  /\ todo \in {<<>>, <<"shell">>, <<"root", "shell">>, <<"user", "root", "shell">>}
  /\ saving \in BOOLEAN /\ popping \in BOOLEAN /\ ok \in BOOLEAN
  /\ all \in Seq(Entry) /\ OneEntryPerKey(all)
  /\ typed \in 0 .. MaxTyped /\ handEdits \in 0 .. MaxHandEdits

-----------------------------------------------------------------------------
(* Reading and writing the file in the app.                                *)

(***************************************************************************)
(* readAllAuthorizedUsers(), one line through split(":", 3): an entry of   *)
(* the map.  Its key is the text after the second colon, which for a       *)
(* "tail" name is the hash and the role together.                          *)
(***************************************************************************)
ParsedLine(l) ==
  IF l.form = "tail"
  THEN [key |-> <<l.hash, l.role>>, user |-> <<"plain", l.user>>, hash |-> Rest]
  ELSE [key |-> <<Blank, l.role>>, user |-> <<"plain", l.user>>, hash |-> l.hash]

(* Mutant of Put: the map is left with the new entry only. *)
Put_Alone(m, e) == <<e>>

(* LinkedHashMap.put(): a known key keeps its place. *)
Put(m, e) ==
  IF \E i \in DOMAIN m : m[i].key = e.key
  THEN [i \in DOMAIN m |-> IF m[i].key = e.key THEN e ELSE m[i]]
  ELSE Append(m, e)

(* Mutant of RemoveKey: the entry stays. *)
RemoveKey_Not(m, k) == m

(* LinkedHashMap.remove(): there is one entry with the key at most. *)
RemoveKey(m, k) ==
  LET at == {i \in DOMAIN m : m[i].key = k}
  IN  IF at = {} THEN m ELSE RemoveAt(m, CHOOSE i \in at : TRUE)

(* A line whose first or second field is empty is skipped. *)
readAllAuthorizedUsers ==
  LET map[i \in 0 .. Len(file)] ==
        IF i = 0 THEN <<>>
        ELSE IF file[i].form \in Hidden THEN map[i - 1]
        ELSE Put(map[i - 1], ParsedLine(file[i]))
  IN  map[Len(file)]

readAuthorizedUser(r) ==
  LET found == {e \in ToSet(readAllAuthorizedUsers) : e.key = <<Blank, r>>}
  IN  IF found = {} THEN NoEntry
      ELSE LET e == CHOOSE e \in found : TRUE IN [user |-> e.user[2], hash |-> e.hash]

(***************************************************************************)
(* writeAllAuthorizedUsers(), one entry: the fields with colons between    *)
(* them, "user" left out.  What was parsed from a "tail" line becomes the  *)
(* same line again.                                                        *)
(***************************************************************************)
LineOf(e) ==
  [form |-> IF e.hash = Rest THEN "tail" ELSE e.user[1], user |-> e.user[2],
   hash |-> IF e.hash = Rest THEN e.key[1] ELSE e.hash, role |-> e.key[2]]

-----------------------------------------------------------------------------
(* Reading the file in dropbear.                                           *)

(* Mutant of NativeLine: the third field is ignored. *)
NativeLine_NoRole(l) ==
  [user |-> l.user,
   password |-> IF l.form \in WithRest THEN Rest ELSE l.hash,
   role |-> "user"]

(* One line through strtok_r(), which skips empty fields. *)
NativeLine(l) ==
  [user |-> l.user,
   password |-> IF l.form \in WithRest THEN Rest ELSE l.hash,
   role |-> IF l.form \in WithRest THEN "user" ELSE l.role]

(* The first line with the user's name. *)
sshd4a_find_user(u) ==
  LET found == {i \in DOMAIN file : file[i].user = u}
  IN  IF found = {} THEN NoEntry ELSE NativeLine(file[Min(found)])

(* Password logins sshd4a_svr_auth_password() accepts, with their role. *)
Logins ==
  {[user |-> u, hash |-> sshd4a_find_user(u).password,
    role |-> sshd4a_find_user(u).role] :
     u \in {v \in Name : /\ sshd4a_find_user(v) # NoEntry
                         /\ sshd4a_find_user(v).password \in Hash}}

-----------------------------------------------------------------------------
Init ==
  /\ file = <<>>
  /\ screen = "closed"
  /\ name = [r \in Role |-> Blank]
  /\ password = [r \in Role |-> Blank]
  /\ passwordUpdated = [r \in Role |-> FALSE]
  /\ todo = <<>>
  /\ saving = FALSE
  /\ all = <<>>
  /\ popping = FALSE
  /\ ok = FALSE
  /\ typed = 0
  /\ handEdits = 0

(* SettingsViewModel.init(): three UserPassStorage objects read the file. *)
OpenScreen ==
  /\ screen = "closed"
  /\ screen' = "open"
  /\ name' = [r \in Role |->
                 LET up == readAuthorizedUser(r)
                 IN  IF up = NoEntry THEN Blank ELSE <<"plain", up.user>>]
  /\ password' = [r \in Role |-> Blank]
  /\ passwordUpdated' = [r \in Role |-> FALSE]
  /\ ok' = FALSE
  /\ UNCHANGED <<file, todo, saving, all, popping, typed, handEdits>>

Typing == screen = "open" /\ ~saving /\ typed < MaxTyped /\ typed' = typed + 1

putUsername(r, n) ==
  /\ Typing
  /\ n # name[r]
  /\ name' = [name EXCEPT ![r] = n]
  /\ UNCHANGED <<file, screen, password, passwordUpdated, todo, saving, all,
                 popping, ok, handEdits>>

(* The password field is enabled by a user name. *)
putPassword(r, p) ==
  /\ Typing
  /\ name[r] # Blank
  /\ password' = [password EXCEPT ![r] = p]
  /\ passwordUpdated' = [passwordUpdated EXCEPT ![r] = TRUE]
  /\ UNCHANGED <<file, screen, name, todo, saving, all, popping, ok, handEdits>>

handleOnBackPressed ==
  /\ screen = "open" /\ ~saving
  /\ saving' = TRUE
  /\ todo' = <<"user", "root", "shell">>
  /\ UNCHANGED <<file, screen, fields, all, popping, ok, typed, handEdits>>

-----------------------------------------------------------------------------
(* storeCredentials() of the next role.                                    *)

(* writeAuthorizedUser() up to its writes: the new map, or none to write. *)
NewMap(r) ==
  LET m == readAllAuthorizedUsers
      old == readAuthorizedUser(r)
      key == <<Blank, r>>
      new(h) == [key |-> key, user |-> name[r], hash |-> h]
  IN  CASE name[r] = Blank ->
             [write |-> TRUE, map |-> RemoveKey(m, key)]
        [] name[r] # Blank /\ ~passwordUpdated[r] ->
             [write |-> old # NoEntry,
              map |-> IF old = NoEntry THEN m ELSE Put(m, new(old.hash))]
        [] name[r] # Blank /\ passwordUpdated[r] /\ password[r] = Blank ->
             [write |-> old # NoEntry, map |-> RemoveKey(m, key)]
        [] name[r] # Blank /\ passwordUpdated[r] /\ password[r] # Blank ->
             [write |-> TRUE, map |-> Put(m, new(password[r]))]

Storing == saving /\ todo # <<>> /\ all = <<>>

(* Nothing to write, or an empty map, which deletes the file. *)
StoreNothing ==
  /\ Storing
  /\ \E n \in {NewMap(Head(todo))} :
       \/ ~n.write /\ UNCHANGED file
       \/ n.write /\ n.map = <<>> /\ file' = <<>>
  /\ todo' = Tail(todo)
  /\ UNCHANGED <<screen, fields, saving, all, popping, ok, typed, handEdits>>

(* new FileWriter() truncates the file; its buffer is written on close. *)
Truncate ==
  /\ Storing
  /\ \E n \in {NewMap(Head(todo))} : n.write /\ n.map # <<>> /\ all' = n.map
  /\ file' = <<>>
  /\ UNCHANGED <<screen, fields, todo, saving, popping, ok, typed, handEdits>>

writeAllAuthorizedUsers ==
  /\ all # <<>>
  /\ file' = [i \in DOMAIN all |-> LineOf(all[i])]
  /\ all' = <<>>
  /\ todo' = Tail(todo)
  /\ UNCHANGED <<screen, fields, saving, popping, ok, typed, handEdits>>

(* hasAtLeastOneAuthMethod(): any key counts, a role or not. *)
hasAtLeastOneAuthMethod == otherMethod \/ readAllAuthorizedUsers # <<>>

(* The view model goes with the screen; name is kept as what was shown. *)
Discard ==
  /\ password' = [r \in Role |-> Blank]
  /\ passwordUpdated' = [r \in Role |-> FALSE]
  /\ popping' = FALSE

(***************************************************************************)
(* The end of handleOnBackPressed(): leave the screen, or warn.  After an  *)
(* error a popBackStack() is posted as well; of a screen that is closed by *)
(* then it throws, and the process ends as in Kill.                        *)
(***************************************************************************)
Leave(complete) ==
  /\ saving' = FALSE
  /\ \/ hasAtLeastOneAuthMethod /\ screen' = "closed" /\ Discard
     \/ /\ ~hasAtLeastOneAuthMethod /\ screen' = "warned"
        /\ popping' = (popping \/ ~complete)
        /\ UNCHANGED <<password, passwordUpdated>>
  /\ ok' = complete
  /\ UNCHANGED <<file, name, typed, handEdits>>

Stored == saving /\ todo = <<>> /\ Leave(TRUE) /\ UNCHANGED <<todo, all>>

(* An IOException, before or after the truncation, skips the other roles. *)
StoreFails ==
  /\ saving /\ todo # <<>>
  /\ all # <<>> \/ NewMap(Head(todo)).write
  /\ all' = <<>> /\ todo' = <<>>
  /\ Leave(FALSE)

(* The two seconds are over: warned or open again, the screen closes. *)
DelayedPop ==
  /\ popping /\ ~saving
  /\ screen' = "closed" /\ Discard
  /\ UNCHANGED <<file, name, todo, saving, all, ok, typed, handEdits>>

(* The warning's two buttons. *)
AnswerWarning ==
  /\ screen = "warned"
  /\ \/ screen' = "open" /\ ok' = FALSE /\ UNCHANGED <<password, passwordUpdated, popping>>
     \/ screen' = "closed" /\ UNCHANGED ok /\ Discard
  /\ UNCHANGED <<file, name, todo, saving, all, typed, handEdits>>

(* The app's process is killed, the file stays as it is. *)
Kill ==
  /\ screen # "closed"
  /\ screen' = "closed"
  /\ name' = [r \in Role |-> Blank] /\ Discard
  /\ todo' = <<>> /\ all' = <<>> /\ saving' = FALSE /\ ok' = FALSE
  /\ UNCHANGED <<file, typed, handEdits>>

(* Somebody in a shell adds a line, not while the screen is saving. *)
HandEdit ==
  /\ ~saving
  /\ handEdits < MaxHandEdits
  /\ handEdits' = handEdits + 1
  /\ \E n \in Typed, h \in Hash, r \in Role :
       file' = Append(file, [form |-> n[1], user |-> n[2], hash |-> h, role |-> r])
  /\ ok' = FALSE
  /\ UNCHANGED <<screen, fields, todo, saving, all, popping, typed>>

Next ==
  \/ OpenScreen
  \/ \E r \in Role :
       \/ \E n \in Typed \cup {Blank} : putUsername(r, n)
       \/ \E p \in Hash \cup {Blank} : putPassword(r, p)
  \/ handleOnBackPressed
  \/ StoreNothing
  \/ Truncate
  \/ writeAllAuthorizedUsers
  \/ Stored
  \/ StoreFails
  \/ DelayedPop
  \/ AnswerWarning
  \/ Kill
  \/ HandEdit

Spec == Init /\ [][Next]_vars

-----------------------------------------------------------------------------
(* Properties *)

NothingHidden == \A i \in DOMAIN file : file[i].form \notin Hidden

(* The app's parser, by role, and dropbear's, by name, give the same       *)
(* credentials the same roles, whatever was saved and added, as long as no *)
(* two lines share a name or a role and the app skips none, as it does     *)
(* with a colon before or right behind the name.                           *)
ReadersAgree ==
  /\ NothingHidden
  /\ \A i, j \in DOMAIN file :
       i # j => file[i].user # file[j].user /\ ParsedLine(file[i]).key # ParsedLine(file[j]).key
  => Logins = {[user |-> readAuthorizedUser(r).user, hash |-> readAuthorizedUser(r).hash,
                role |-> r] : r \in {q \in Role : readAuthorizedUser(q) # NoEntry}}

(* The line sshd4a_find_user() finds is one the app skips. *)
FoundHidden(u) ==
  \E i \in DOMAIN file :
    /\ file[i].user = u /\ file[i].form \in Hidden
    /\ \A j \in 1 .. i - 1 : file[j].user # u

(* After a save without an error a role whose name is cleared has no login *)
(* left, and only the names the screen showed log in, each with its own    *)
(* role: also when somebody added lines by hand, or names have colons in   *)
(* them.  A line the app skips is the exception: a save that has nothing   *)
(* to write for any role keeps it, and its login, under another name.      *)
OnlyShownLogsIn ==
  ok => \A l \in Logins :
          /\ name[l.role] # Blank
          /\ name[l.role][2] = l.user \/ FoundHidden(l.user)

Usable(n) == n[1] = "plain"

(* The entry of a role: of the map being written, else of the file. *)
Cred ==
  [r \in Role |->
     IF \E e \in ToSet(all) : e.key = <<Blank, r>> /\ Usable(e.user)
     THEN LET e == CHOOSE e \in ToSet(all) : e.key = <<Blank, r>>
          IN  [user |-> e.user[2], hash |-> e.hash]
     ELSE readAuthorizedUser(r)]

Promise == INSTANCE Credentials WITH cred <- Cred

(* Saving implements the table of writeAuthorizedUser(): each role by its  *)
(* row, no other role's entry touched, and entries lost only by a write    *)
(* that failed after the truncation.                                       *)
ImplementsCredentials == Promise!Spec
=============================================================================
