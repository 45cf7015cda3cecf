-------------------------- MODULE DropbearAuthProofs --------------------------
(* Theorems about DropbearAuth, for any users, limits and options. *)
EXTENDS DropbearAuth, TLAPS

-----------------------------------------------------------------------------
(* The inductive invariant, in parts. *)

(* A method leaves the offered ones only when it was passed. *)
MethodsOK ==
  /\ authtypes \subseteq offered
  /\ multiauthmethod => offered \ authtypes \subseteq passed
  /\ authdone => passed # {} /\ (multiauthmethod => offered \subseteq passed)

(* A refused key was free or counted as a failure. *)
CountsOK == open => /\ failcount <= maxauthtries
                    /\ serv_pubkey_query_count <= free_query_limit + failcount

(* The role and the password come from the same lines until an edit. *)
RoleOK ==
  /\ username = NoUser => pwRole = "none"
  /\ username # NoUser /\ ~edited
       => /\ role = sshd4a_get_role_for_user(username)
          /\ pwRole \in {"none", role}

IndInv == TypeOK /\ MethodsOK /\ CountsOK /\ RoleOK

-----------------------------------------------------------------------------
(* The queries that are free, with those that count, make up the limit. *)
LEMMA FreeLimit ==
  /\ free_query_limit \in Nat
  /\ \/ free_query_limit + maxauthtries = MAX_PUBKEY_QUERIES
     \/ free_query_limit + maxauthtries = maxauthtries
BY TriesAssumption DEF free_query_limit

(* Counting another failure keeps the bound on the queries. *)
LEMMA MoreFailures ==
  ASSUME NEW queries \in Nat, NEW free \in Nat, NEW old \in Nat, NEW new \in Nat,
         queries <= free + old, old <= new
  PROVE  queries <= free + new
OBVIOUS

(* The invariant holds when a session begins. *)
LEMMA InitInv == Init => IndInv
<1>. SUFFICES ASSUME Init PROVE IndInv
  OBVIOUS
<1>1. TypeOK
  <2>1. authdone \in BOOLEAN /\ open \in BOOLEAN /\ edited \in BOOLEAN
    BY Zenon DEF Init
  <2>2. failcount \in Nat /\ serv_pubkey_query_count \in Nat
    BY TriesAssumption DEF Init
  <2>3. /\ authtypes \in SUBSET Method /\ offered \in SUBSET Method /\ passed \in SUBSET Method
        /\ username \in User \cup {NoUser}
        /\ role \in Role \cup {"none"} /\ pwRole \in Role \cup {"none"}
        /\ users \in [User -> Role \cup {"none"}]
    BY Zenon DEF Init
  <2>. QED
    BY <2>1, <2>2, <2>3 DEF TypeOK
<1>2. MethodsOK
  <2>1. ~authdone /\ authtypes = offered
    BY Zenon DEF Init
  <2>. QED
    BY <2>1 DEF MethodsOK
<1>4. RoleOK
  BY DEF Init, RoleOK
<1>3. CountsOK
  BY FreeLimit, TriesAssumption DEF Init, CountsOK
<1>. QED
  BY <1>1, <1>2, <1>3, <1>4 DEF IndInv

(* What checkusername() keeps, whatever the rest of the request does with  *)
(* the password.                                                           *)
LEMMA NameKept ==
  ASSUME IndInv, NEW u \in User \cup {LongName}, checkusername(u), users' = users
  PROVE  /\ username' \in User \cup {NoUser}
         /\ role' \in Role \cup {"none"}
         /\ edited' \in BOOLEAN
         /\ username' = NoUser => username = NoUser
         /\ username' # NoUser /\ ~edited' => role' = sshd4a_get_role_for_user(username')
         /\ \/ username = NoUser
            \/ username' = username /\ role' = role /\ edited' = edited
<1>. USE DEF checkusername
<1>1. CASE u # LongName /\ username = NoUser
  <2>1. username' = u /\ role' = sshd4a_get_role_for_user(u) /\ edited' = FALSE
    BY <1>1
  <2>2. u \in User /\ u # NoUser
    BY <1>1, UserAssumption
  <2>. QED
    BY <1>1, <2>1, <2>2 DEF IndInv, TypeOK, sshd4a_get_role_for_user, Role
<1>2. CASE ~(u # LongName /\ username = NoUser)
  <2>1. username' = username /\ role' = role /\ edited' = edited
    BY <1>2
  <2>. QED
    BY <2>1 DEF IndInv, TypeOK, RoleOK
<1>. QED
  BY <1>1, <1>2

(* A step that keeps passwords out of it keeps RoleOK. *)
LEMMA RoleKept ==
  ASSUME IndInv, NEW u \in User \cup {LongName}, checkusername(u), users' = users,
         pwRole' = pwRole
  PROVE  RoleOK'
<1>1. CASE username = NoUser
  BY <1>1, NameKept DEF IndInv, RoleOK, sshd4a_get_role_for_user
<1>2. CASE username' = username /\ role' = role /\ edited' = edited
  BY <1>2 DEF IndInv, RoleOK, sshd4a_get_role_for_user
<1>. QED
  BY <1>1, <1>2, NameKept

-----------------------------------------------------------------------------
(* The answers. *)

(* A failure answer keeps the counts, and its flags are Booleans. *)
LEMMA FailureCounts ==
  ASSUME IndInv, Waiting, NEW incrfail \in BOOLEAN, send_msg_userauth_failure(incrfail)
  PROVE  /\ failcount' \in Nat
         /\ failcount <= failcount'
         /\ incrfail => failcount' = failcount + 1
         /\ open' \in BOOLEAN
         /\ open' => failcount' <= maxauthtries
         /\ authdone' = authdone /\ ~authdone
<1>1. failcount \in Nat /\ failcount <= maxauthtries /\ maxauthtries \in Nat
  BY TriesAssumption DEF IndInv, TypeOK, CountsOK, Waiting
<1>2. failcount' = IF incrfail THEN failcount + 1 ELSE failcount
  BY DEF send_msg_userauth_failure
<1>3. /\ failcount' \in Nat
      /\ failcount <= failcount'
      /\ incrfail => failcount' = failcount + 1
  BY <1>1, <1>2
<1>4. open' = (failcount' <= maxauthtries)
  BY Zenon DEF send_msg_userauth_failure
<1>5. (failcount' <= maxauthtries) \in BOOLEAN
  BY <1>1, <1>3
<1>6. open' \in BOOLEAN /\ (open' => failcount' <= maxauthtries)
  BY <1>4, <1>5, Zenon
<1>7. authdone' = authdone /\ ~authdone
  BY Zenon DEF send_msg_userauth_failure, Waiting
<1>. QED
  BY <1>3, <1>6, <1>7

(* Requests that fail: with a counted failure or without one. *)
LEMMA FailedInv ==
  ASSUME IndInv, Waiting, NEW u \in User \cup {LongName}, checkusername(u),
         NEW incrfail \in BOOLEAN, Failed(incrfail), UNCHANGED <<users, offered>>
  PROVE  IndInv'
<1>1. send_msg_userauth_failure(incrfail)
  BY DEF Failed
<1>2. UNCHANGED <<authtypes, serv_pubkey_query_count, passed, pwRole>>
  BY DEF Failed
<1>3. TypeOK'
  BY <1>1, <1>2, FailureCounts, NameKept DEF IndInv, TypeOK
<1>4. MethodsOK'
  BY <1>1, <1>2, FailureCounts DEF IndInv, MethodsOK
<1>5. CountsOK'
  <2>1. open
    BY DEF Waiting
  <2>2. /\ serv_pubkey_query_count <= free_query_limit + failcount
        /\ serv_pubkey_query_count \in Nat /\ failcount \in Nat
    BY <2>1, TriesAssumption DEF IndInv, CountsOK, TypeOK
  <2>3. free_query_limit' = free_query_limit /\ free_query_limit \in Nat
    BY FreeLimit DEF free_query_limit
  <2>4. failcount' \in Nat /\ failcount <= failcount' /\ (open' => failcount' <= maxauthtries)
    BY <1>1, FailureCounts, TriesAssumption
  <2>6. failcount' \in Nat /\ failcount <= failcount'
    BY <2>4
  <2>7. serv_pubkey_query_count' = serv_pubkey_query_count
    BY <1>2
  <2>5. serv_pubkey_query_count' <= free_query_limit + failcount'
    <3>1. serv_pubkey_query_count <= free_query_limit + failcount'
      BY <2>2, <2>3, <2>6, MoreFailures
    <3>. QED
      BY <2>7, <3>1
  <2>. QED
    BY <2>3, <2>4, <2>5 DEF CountsOK
<1>6. RoleOK'
  BY <1>2, RoleKept
<1>. QED
  BY <1>3, <1>4, <1>5, <1>6 DEF IndInv

(* A refused key: free of charge, or counted. *)
LEMMA RefusedInv ==
  ASSUME IndInv, NEW u \in User \cup {LongName}, PubkeyRefused(u)
  PROVE  IndInv'
<1>. DEFINE incr == serv_pubkey_query_count >= free_query_limit
<1>0. Waiting /\ open /\ checkusername(u) /\ users' = users
  BY DEF PubkeyRefused, Waiting
<1>a. /\ serv_pubkey_query_count \in Nat /\ failcount \in Nat /\ free_query_limit \in Nat
      /\ serv_pubkey_query_count <= free_query_limit + failcount
      /\ free_query_limit' = free_query_limit
  BY <1>0, FreeLimit, TriesAssumption DEF IndInv, TypeOK, CountsOK, free_query_limit
<1>1. incr \in BOOLEAN /\ send_msg_userauth_failure(incr)
  BY <1>a DEF PubkeyRefused
<1>2. /\ failcount' \in Nat
      /\ failcount <= failcount'
      /\ incr => failcount' = failcount + 1
      /\ open' \in BOOLEAN
      /\ open' => failcount' <= maxauthtries
      /\ authdone' = authdone /\ ~authdone
  <2>. HIDE DEF incr
  <2>. QED
    BY <1>0, <1>1, FailureCounts
<1>3. serv_pubkey_query_count' \in {serv_pubkey_query_count, serv_pubkey_query_count + 1}
  BY DEF PubkeyRefused
<1>4. UNCHANGED <<authtypes, passed, pwRole, users, offered>>
  BY DEF PubkeyRefused
<1>5. TypeOK'
  <2>1. serv_pubkey_query_count' \in Nat
    BY <1>a, <1>3
  <2>. HIDE DEF incr
  <2>. QED
    BY <1>0, <1>2, <1>4, <2>1, NameKept DEF IndInv, TypeOK
<1>6. MethodsOK'
  BY <1>2, <1>4 DEF IndInv, MethodsOK
<1>7. CountsOK'
  <2>1. failcount' \in Nat
    BY <1>2, TriesAssumption
  <2>2. serv_pubkey_query_count' <= free_query_limit + failcount'
    <3>1. CASE serv_pubkey_query_count >= free_query_limit
      <4>1. failcount' = failcount + 1
        BY <1>2, <3>1
      <4>. QED
        BY <1>a, <1>3, <4>1
    <3>2. CASE ~(serv_pubkey_query_count >= free_query_limit)
      <4>1. serv_pubkey_query_count + 1 <= free_query_limit
        BY <1>a, <3>2
      <4>. QED
        <5>1. serv_pubkey_query_count' \in Nat /\ serv_pubkey_query_count' <= free_query_limit + 0
          BY <1>a, <1>3, <4>1
        <5>2. 0 <= failcount' /\ 0 \in Nat
          BY <2>1
        <5>. QED
          BY <1>a, <2>1, <5>1, <5>2, MoreFailures
    <3>. QED
      BY <3>1, <3>2
  <2>. QED
    BY <1>a, <1>2, <2>2 DEF CountsOK
<1>8. RoleOK'
  BY <1>0, <1>4, RoleKept
<1>. QED
  BY <1>5, <1>6, <1>7, <1>8 DEF IndInv

(* A method is passed: the methods offered and passed, and the counts. *)
LEMMA PassedFacts ==
  ASSUME IndInv, Waiting, NEW m \in Method, m \in authtypes, Passed(m),
         UNCHANGED <<serv_pubkey_query_count, offered>>
  PROVE  /\ MethodsOK' /\ CountsOK'
         /\ authtypes' \in SUBSET Method /\ passed' \in SUBSET Method
         /\ failcount' = failcount
         /\ authdone' \in BOOLEAN /\ open' \in BOOLEAN
<1>1. passed' = passed \cup {m}
  BY DEF Passed
<1>2. CASE authtypes' = authtypes \ {m} /\ send_msg_userauth_failure(FALSE)
  <2>1. open' \in BOOLEAN /\ authdone' = authdone /\ ~authdone
        /\ (open' => failcount' <= maxauthtries)
    BY <1>2, FailureCounts
  <2>2. failcount' = failcount
    BY <1>2 DEF send_msg_userauth_failure
  <2>3. MethodsOK'
    BY <1>1, <1>2, <2>1 DEF IndInv, MethodsOK
  <2>4. CountsOK'
    <3>1. open
      BY DEF Waiting
    <3>. QED
      BY <2>1, <2>2, <3>1 DEF IndInv, CountsOK, free_query_limit
  <2>. QED
    BY <1>1, <1>2, <2>1, <2>2, <2>3, <2>4 DEF IndInv, TypeOK
<1>3. CASE /\ ~(multiauthmethod /\ authtypes \ {m} # {})
           /\ send_msg_userauth_success
           /\ UNCHANGED authtypes
  <2>1. authdone' = TRUE /\ failcount' = failcount /\ open' = open
    BY <1>3 DEF send_msg_userauth_success
  <2>2. multiauthmethod => authtypes = {m}
    BY <1>3
  <2>3. /\ authtypes' \subseteq offered'
        /\ multiauthmethod => offered' \ authtypes' \subseteq passed'
        /\ passed' # {} /\ (multiauthmethod => offered' \subseteq passed')
    BY <1>1, <1>3, <2>2 DEF IndInv, MethodsOK
  <2>4. MethodsOK'
    BY <2>3 DEF MethodsOK
  <2>5. CountsOK'
    BY <2>1 DEF IndInv, CountsOK, free_query_limit
  <2>. QED
    BY <1>1, <1>3, <2>1, <2>4, <2>5 DEF IndInv, TypeOK
<1>. QED
  BY <1>2, <1>3 DEF Passed

-----------------------------------------------------------------------------
(* The steps. *)

(* A right signature preserves it. *)
LEMMA PubkeyPassesInv ==
  ASSUME IndInv, NEW u \in User \cup {LongName}, PubkeyPasses(u)
  PROVE  IndInv'
<1>1. /\ Waiting /\ checkusername(u) /\ "pubkey" \in Method /\ "pubkey" \in authtypes
      /\ Passed("pubkey")
      /\ UNCHANGED <<serv_pubkey_query_count, users, offered, pwRole>>
  BY DEF PubkeyPasses, Method
<1>2. TypeOK'
  BY <1>1, PassedFacts, NameKept DEF IndInv, TypeOK
<1>3. MethodsOK' /\ CountsOK'
  BY <1>1, PassedFacts
<1>4. RoleOK'
  BY <1>1, RoleKept
<1>. QED
  BY <1>2, <1>3, <1>4 DEF IndInv

(* A right password preserves it. *)
LEMMA PasswordPassesInv ==
  ASSUME IndInv, NEW u \in User \cup {LongName}, PasswordPasses(u)
  PROVE  IndInv'
<1>1. /\ Waiting /\ checkusername(u) /\ "password" \in Method /\ "password" \in authtypes
      /\ Passed("password")
      /\ UNCHANGED <<serv_pubkey_query_count, users, offered>>
      /\ username' # NoUser
      /\ pwRole' = sshd4a_get_role_for_user(username')
  BY DEF PasswordPasses, Method
<1>2. username' \in User
  BY <1>1, NameKept
<1>3. pwRole' \in Role
  BY <1>1, <1>2 DEF IndInv, TypeOK, sshd4a_get_role_for_user, Role
<1>4. TypeOK'
  BY <1>1, <1>3, PassedFacts, NameKept DEF IndInv, TypeOK
<1>5. MethodsOK' /\ CountsOK'
  BY <1>1, PassedFacts
<1>6. ~edited' => role' = sshd4a_get_role_for_user(username')
  BY <1>1, NameKept
<1>7. RoleOK'
  BY <1>1, <1>6 DEF RoleOK, sshd4a_get_role_for_user
<1>. QED
  BY <1>4, <1>5, <1>7 DEF IndInv

(* The session ends. *)
LEMMA ExitInv ==
  ASSUME IndInv, Exit
  PROVE  IndInv'
<1>1. ~open' /\ open' \in BOOLEAN
  BY Zenon DEF Exit
<1>2. UNCHANGED <<authtypes, username, role, failcount, serv_pubkey_query_count,
                 authdone, users, histVars, edited>>
  BY DEF Exit
<1>3. TypeOK'
  BY <1>1, <1>2 DEF IndInv, TypeOK, histVars
<1>4. MethodsOK' /\ RoleOK'
  BY <1>2 DEF IndInv, MethodsOK, RoleOK, sshd4a_get_role_for_user, histVars
<1>5. CountsOK'
  BY <1>1 DEF CountsOK
<1>. QED
  BY <1>3, <1>4, <1>5 DEF IndInv

(* A password without a stored name preserves it. *)
LEMMA PasswordUnnamedInv ==
  ASSUME IndInv, NEW u \in User \cup {LongName}, PasswordUnnamed(u)
  PROVE  IndInv'
<1>1. CASE Exit
  BY <1>1, ExitInv
<1>2. CASE /\ Passed("password")
           /\ UNCHANGED <<username, role, serv_pubkey_query_count, users, offered, pwRole, edited>>
  <2>1. Waiting /\ "password" \in Method /\ "password" \in authtypes
    BY DEF PasswordUnnamed, Method
  <2>2. TypeOK' /\ MethodsOK' /\ CountsOK'
    BY <1>2, <2>1, PassedFacts DEF IndInv, TypeOK
  <2>3. RoleOK'
    BY <1>2 DEF IndInv, RoleOK, sshd4a_get_role_for_user
  <2>. QED
    BY <2>2, <2>3 DEF IndInv
<1>. QED
  BY <1>1, <1>2 DEF PasswordUnnamed

(* A query for a known key preserves it. *)
LEMMA PubkeyQueryInv ==
  ASSUME IndInv, NEW u \in User \cup {LongName}, PubkeyQuery(u)
  PROVE  IndInv'
<1>1. /\ checkusername(u)
      /\ UNCHANGED <<authtypes, failcount, serv_pubkey_query_count, authdone, open,
                     users, histVars>>
  BY DEF PubkeyQuery
<1>2. TypeOK'
  BY <1>1, NameKept DEF IndInv, TypeOK, histVars
<1>3. MethodsOK' /\ CountsOK'
  BY <1>1 DEF IndInv, MethodsOK, CountsOK, free_query_limit, histVars
<1>4. RoleOK'
  BY <1>1, RoleKept DEF histVars
<1>. QED
  BY <1>2, <1>3, <1>4 DEF IndInv

(* A change of the users file preserves it. *)
LEMMA EditInv ==
  ASSUME IndInv, EditFile
  PROVE  IndInv'
<1>1. edited' /\ edited' \in BOOLEAN
  BY Zenon DEF EditFile
<1>2. users' \in [User -> Role \cup {"none"}] /\ UNCHANGED <<sesVars, histVars>>
  BY DEF EditFile
<1>3. TypeOK'
  BY <1>1, <1>2 DEF IndInv, TypeOK, sesVars, histVars
<1>4. MethodsOK' /\ CountsOK'
  BY <1>2 DEF IndInv, MethodsOK, CountsOK, free_query_limit, sesVars, histVars
<1>5. RoleOK'
  BY <1>1, <1>2 DEF IndInv, RoleOK, sesVars, histVars
<1>. QED
  BY <1>3, <1>4, <1>5 DEF IndInv

(* Every authentication request preserves it. *)
LEMMA RequestInv ==
  ASSUME IndInv, NEW u \in User \cup {LongName}, recv_msg_userauth_request(u)
  PROVE  IndInv'
<1>1. CASE RequestNone(u) \/ PubkeyIgnored(u)
  <2>1. /\ Waiting /\ checkusername(u) /\ Failed(FALSE)
        /\ UNCHANGED <<users, offered>>
    BY <1>1 DEF RequestNone, PubkeyIgnored
  <2>. QED
    BY <2>1, FailedInv
<1>2. CASE RequestOther(u) \/ PasswordFails(u) \/ PubkeyFails(u)
  <2>1. /\ Waiting /\ checkusername(u) /\ Failed(TRUE)
        /\ UNCHANGED <<users, offered>>
    BY <1>2 DEF RequestOther, PasswordFails, PubkeyFails
  <2>. QED
    BY <2>1, FailedInv
<1>. QED
  BY <1>1, <1>2, PasswordPassesInv, PasswordUnnamedInv, RefusedInv, PubkeyQueryInv,
     PubkeyPassesInv
     DEF recv_msg_userauth_request

(* Every step of the specification preserves the invariant. *)
LEMMA NextInv == IndInv /\ [Next]_vars => IndInv'
<1>. SUFFICES ASSUME IndInv, [Next]_vars PROVE IndInv'
  OBVIOUS
<1>1. ASSUME NEW u \in User \cup {LongName}, recv_msg_userauth_request(u) PROVE IndInv'
  BY <1>1, RequestInv
<1>2. CASE BadRequest \/ SessionEnds
  BY <1>2, ExitInv DEF BadRequest, SessionEnds
<1>3. CASE EditFile
  BY <1>3, EditInv
<1>4. CASE UNCHANGED vars
  <2>1. TypeOK' /\ MethodsOK' /\ CountsOK'
    BY <1>4 DEF vars, sesVars, histVars, IndInv, TypeOK, MethodsOK, CountsOK, free_query_limit
  <2>2. RoleOK'
    BY <1>4 DEF vars, sesVars, histVars, IndInv, RoleOK, sshd4a_get_role_for_user
  <2>. QED
    BY <2>1, <2>2 DEF IndInv
<1>. QED
  BY <1>1, <1>2, <1>3, <1>4 DEF Next

(* The invariant holds in every reachable state. *)
LEMMA Invariance == Spec => []IndInv
BY InitInv, NextInv, PTL DEF Spec

-----------------------------------------------------------------------------
(* Every variable keeps its type; failcount stops right after maxauthtries. *)
THEOREM TypeCorrect == Spec => []TypeOK
<1>1. IndInv => TypeOK
  BY DEF IndInv
<1>. QED
  BY <1>1, Invariance, PTL

(* With option -t no method that was offered can be skipped. *)
THEOREM NoMethodSkipped == Spec => []AllMethodsPassed
<1>1. IndInv => AllMethodsPassed
  BY DEF IndInv, MethodsOK, AllMethodsPassed
<1>. QED
  BY <1>1, Invariance, PTL

(* Without an edit of the file, role and password belong together. *)
THEOREM RoleBelongs == Spec => []RoleOfCredential
<1>1. IndInv => RoleOfCredential
  BY DEF IndInv, RoleOK, RoleOfCredential
<1>. QED
  BY <1>1, Invariance, PTL

(* The two limits of a session hold together, for any values of them. *)
THEOREM QueryLimit == Spec => []QueriesBounded
<1>1. ASSUME IndInv, open
      PROVE  /\ \/ serv_pubkey_query_count <= MAX_PUBKEY_QUERIES
                \/ serv_pubkey_query_count <= maxauthtries
             /\ failcount <= maxauthtries
  <2>1. /\ serv_pubkey_query_count \in Nat /\ failcount \in Nat
        /\ failcount <= maxauthtries
        /\ serv_pubkey_query_count <= free_query_limit + failcount
    BY <1>1, TriesAssumption DEF IndInv, TypeOK, CountsOK
  <2>2. serv_pubkey_query_count <= free_query_limit + maxauthtries
    BY <2>1, FreeLimit, TriesAssumption, MoreFailures
  <2>. QED
    BY <2>1, <2>2, FreeLimit
<1>2. IndInv => QueriesBounded
  BY <1>1 DEF QueriesBounded
<1>. QED
  BY <1>2, Invariance, PTL
=============================================================================
