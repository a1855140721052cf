--------------------------- MODULE ServicesProofs ---------------------------
(***************************************************************************)
(* What holds of the components that MCServices joins, for every value of  *)
(* their constants: the invariants of RefreshSession, DefinitionVersions,  *)
(* EvidenceProjection and CaseProofs, then the types of all six, those of  *)
(* TriggerIntake and AuditTrail by the theorems of their own modules.      *)
(***************************************************************************)
EXTENDS MCServices, TriggerIntakeProofs, AuditTrailProofs, SequenceTheorems,
        FiniteSetTheorems, WellFoundedInduction, NaturalsInduction, TLAPS

----------------------------------------------------------------------------
(* Refresh sessions. *)

(* The sessions a token belongs to, or will once more when a rotation that   *)
(* has passed its check is written.                                          *)
Claims(l, k) ==
    \/ Holds(l, k)
    \/ /\ k # NoToken
       /\ \E t \in Tabs : /\ refreshing[t].pc = "rotate"
                          /\ refreshing[t].login = l /\ refreshing[t].token = k

(* No token is newer than the last one made.                                 *)
MintedSound ==
    /\ \A l \in Logins : session[l].current <= minted /\ session[l].previous <= minted
    /\ cookie <= minted
    /\ \A t \in Tabs : refreshing[t].token <= minted /\ refreshing[t].answer <= minted

(* A session before its login has nothing; one that has ended stays revoked. *)
FamilySound ==
    /\ \A l \in Logins :
          IF session[l].current = NoToken THEN session[l].previous = NoToken /\ ~session[l].revoked
                                          ELSE session[l].current # session[l].previous
    /\ \A l \in ended : session[l].revoked
    /\ \A l, m \in Logins, k \in Tokens : Claims(l, k) /\ Claims(m, k) => l = m

(* A refresh of a token whose session has ended is of a token that no other  *)
(* session claims, and does not come to its rotation.                        *)
RefreshSound(t) ==
    /\ refreshing[t].pc = "idle" => refreshing[t] = NotRefreshing
    /\ refreshing[t].pc # "idle" => refreshing[t].token # NoToken
    /\ refreshing[t].pc \in {"revoke", "rotate", "answered"} =>
          /\ refreshing[t].login \in Logins
          /\ session[refreshing[t].login].current # NoToken
    /\ refreshing[t].answer = NoToken <=> refreshing[t].pc # "answered"
    /\ refreshing[t].late => /\ refreshing[t].pc \in {"find", "revoke"}
                             /\ \A l \in Logins : Claims(l, refreshing[t].token) => l \in ended

Live(k) == \E l \in Logins : session[l].current = k /\ ~session[l].revoked

(* Undisturbed, one call is in flight at a time, with the browser's cookie,  *)
(* and the session has come as far as that call.                             *)
Alone == \A t, u \in Tabs :
    /\ refreshing[t].pc # "idle" => /\ leaving[u].pc = "idle"
                                    /\ refreshing[u].pc # "idle" => t = u
    /\ leaving[t].pc # "idle" /\ leaving[u].pc # "idle" => t = u
Undisturbed ==
    /\ Alone
    /\ cookie # NoToken => \/ \E t \in Tabs : "answered" \in {refreshing[t].pc, leaving[t].pc}
                           \/ Live(cookie)
    /\ \A t \in Tabs :
          /\ refreshing[t].pc # "revoke"
          /\ refreshing[t].pc \in {"find", "rotate"} => refreshing[t].token = cookie
          /\ refreshing[t].pc \in {"rotate", "answered"} => ~session[refreshing[t].login].revoked
          /\ refreshing[t].pc = "rotate" => session[refreshing[t].login].current = cookie
          /\ refreshing[t].pc = "answered" =>
                session[refreshing[t].login].current = refreshing[t].answer
          /\ leaving[t].pc = "revoke" => leaving[t].token = cookie
          /\ leaving[t].pc = "answered" =>
                \A l \in Logins : Holds(l, leaving[t].token) => session[l].revoked

SessionInv ==
    /\ SessionTypeOK /\ MintedSound /\ FamilySound
    /\ \A t \in Tabs : RefreshSound(t)
    /\ disturbed \/ Undisturbed
    /\ LogoutEnds

SessionRecs == [current : Tokens \union {NoToken}, previous : Tokens \union {NoToken}, revoked : BOOLEAN]
RefreshRecs == [pc : {"idle", "find", "revoke", "rotate", "answered"},
                token : Tokens \union {NoToken}, login : Logins \union {NoLogin},
                answer : Tokens \union {NoToken}, late : BOOLEAN]
LeaveRecs == [pc : {"idle", "revoke", "answered"}, token : Tokens \union {NoToken}]

LEMMA SessionTyped ==
  ASSUME SessionTypeOK
  PROVE  /\ session \in [Logins -> SessionRecs] /\ refreshing \in [Tabs -> RefreshRecs]
         /\ leaving \in [Tabs -> LeaveRecs] /\ cookie \in Tokens \union {NoToken}
         /\ minted \in 0..MaxTokens /\ minted \in Int
         /\ \A k \in Tokens \union {NoToken} : k \in Int
         /\ \A k \in Tokens : k > 0 /\ k # NoToken
         /\ NoToken = 0
  BY SessionAssumption DEF SessionTypeOK, SessionRecs, RefreshRecs, LeaveRecs, Tokens, NoToken

LEMMA NotRefreshingTyped ==
  /\ NotRefreshing \in RefreshRecs /\ NotRefreshing.pc = "idle" /\ NotRefreshing.token = NoToken
  /\ NotRefreshing.answer = NoToken /\ NotRefreshing.late = FALSE
  BY DEF NotRefreshing, RefreshRecs

LEMMA NotLeavingTyped ==
  NotLeaving \in LeaveRecs /\ NotLeaving.pc = "idle"
  BY DEF NotLeaving, LeaveRecs

(* What a step leaves of a tab's refresh and of its logout.                  *)
Flight(t, f) ==
    /\ refreshing' \in [Tabs -> RefreshRecs]
    /\ refreshing'[t] = f
    /\ \A u \in Tabs \ {t} : refreshing'[u] = refreshing[u]
Leaves(t, f) ==
    /\ leaving' \in [Tabs -> LeaveRecs]
    /\ leaving'[t] = f
    /\ \A u \in Tabs \ {t} : leaving'[u] = leaving[u]

LEMMA FlightSet ==
  ASSUME SessionTypeOK, NEW t \in Tabs, NEW f \in RefreshRecs,
         refreshing' = [refreshing EXCEPT ![t] = f]
  PROVE  Flight(t, f)
  BY SessionTyped DEF Flight

LEMMA LeavesSet ==
  ASSUME SessionTypeOK, NEW t \in Tabs, NEW f \in LeaveRecs,
         leaving' = [leaving EXCEPT ![t] = f]
  PROVE  Leaves(t, f)
  BY SessionTyped DEF Leaves

LEMMA ClaimedMinted ==
  ASSUME SessionTypeOK, MintedSound, NEW l \in Logins, NEW k, Claims(l, k)
  PROVE  k \in Tokens /\ k <= minted
  BY SessionTyped DEF Claims, Holds, MintedSound, SessionRecs, RefreshRecs

(* While the sessions stay as they are, a token gets a new claim only from a *)
(* refresh that has passed its check.                                        *)
LEMMA ClaimsKept ==
  ASSUME SessionInv, UNCHANGED session,
         refreshing' = refreshing \/ \E t \in Tabs : \E f : Flight(t, f) /\ (f.pc = "rotate" => Claims(f.login, f.token))
  PROVE  \A l \in Logins : \A k : (Claims(l, k)' => Claims(l, k))
  <1> SUFFICES ASSUME NEW l \in Logins, NEW k, Claims(l, k)' PROVE Claims(l, k)
    OBVIOUS
  <1>1. CASE Holds(l, k)'
    BY <1>1 DEF Holds, Claims
  <1>2. ASSUME k # NoToken, NEW t \in Tabs, refreshing'[t].pc = "rotate",
               refreshing'[t].login = l, refreshing'[t].token = k
        PROVE  Claims(l, k)
    <2>1. CASE refreshing'[t] = refreshing[t]
      BY <1>2, <2>1 DEF Claims
    <2>2. CASE refreshing'[t] # refreshing[t]
      BY <1>2, <2>2 DEF Flight
    <2> QED
      BY <2>1, <2>2
  <1> QED
    BY <1>1, <1>2 DEF Claims

LEMMA FamilyKept ==
  ASSUME SessionInv, UNCHANGED <<session, ended>>,
         \A l \in Logins : \A k : (Claims(l, k)' => Claims(l, k))
  PROVE  FamilySound'
  BY DEF SessionInv, FamilySound

LEMMA RefreshKept ==
  ASSUME SessionInv, UNCHANGED <<session, ended>>,
         \A l \in Logins : \A k : (Claims(l, k)' => Claims(l, k)),
         NEW t \in Tabs, refreshing'[t] = refreshing[t]
  PROVE  RefreshSound(t)'
  BY DEF SessionInv, RefreshSound

LEMMA LogoutEndsKept ==
  ASSUME LogoutEnds, UNCHANGED left, disturbed => disturbed',
         \A l \in left : session[l].revoked => session'[l].revoked
  PROVE  LogoutEnds'
  BY DEF LogoutEnds

----------------------------------------------------------------------------
(* The steps that leave the sessions as they are. *)

LEMMA BarKeeps == ASSUME SessionInv, NEW l \in Logins, Bar(l) PROVE SessionInv'
  <1>1. /\ UNCHANGED <<session, minted, cookie, signedIn, refreshing, leaving, unheard, ended, left, disturbed>>
        /\ barred' = barred \union {l}
    BY DEF Bar, browser, history
  <1>2. SessionTypeOK'
    BY <1>1 DEF SessionInv, SessionTypeOK
  <1>3. \A m \in Logins : \A k : (Claims(m, k)' => Claims(m, k))
    BY <1>1 DEF Claims, Holds
  <1>4. FamilySound' /\ \A t \in Tabs : RefreshSound(t)'
    BY <1>1, <1>3, FamilyKept, RefreshKept
  <1>5. MintedSound' /\ LogoutEnds'
    BY <1>1 DEF SessionInv, MintedSound, LogoutEnds
  <1>6. disturbed' \/ Undisturbed'
    BY <1>1 DEF SessionInv, Undisturbed, Alone, Live, Holds
  <1> QED
    BY <1>2, <1>4, <1>5, <1>6 DEF SessionInv

(* A refresh moves on: the cookie and the sessions stay.                     *)
LEMMA FlightKeeps ==
  ASSUME SessionInv, UNCHANGED <<session, barred, minted, cookie, signedIn, leaving, ended, left>>,
         unheard' \in 0..MaxUnheard, disturbed' \in BOOLEAN, disturbed => disturbed',
         NEW t \in Tabs, NEW f \in RefreshRecs, Flight(t, f),
         f.pc = "rotate" => Claims(f.login, f.token),
         f.token <= minted /\ f.answer = NoToken,
         RefreshSound(t)', disturbed' \/ Undisturbed'
  PROVE  SessionInv'
  <1>1. \A m \in Logins : \A k : (Claims(m, k)' => Claims(m, k))
    BY ClaimsKept
  <1>2. FamilySound' /\ \A u \in Tabs \ {t} : RefreshSound(u)'
    BY <1>1, FamilyKept, RefreshKept DEF Flight
  <1>3. MintedSound'
    BY SessionTyped DEF SessionInv, MintedSound, Flight
  <1>4. LogoutEnds'
    BY LogoutEndsKept DEF SessionInv
  <1>5. SessionTypeOK'
    BY DEF SessionInv, SessionTypeOK, Flight, RefreshRecs
  <1> QED
    BY <1>2, <1>3, <1>4, <1>5 DEF SessionInv

LEMMA SendRefreshKeeps == ASSUME SessionInv, NEW t \in Tabs, SendRefresh(t) PROVE SessionInv'
  <1>1. PICK late \in BOOLEAN : late = (\E l \in ended : Holds(l, cookie))
    OBVIOUS
  <1>2. PICK f : f = [NotRefreshing EXCEPT !.pc = "find", !.token = cookie, !.late = late]
    OBVIOUS
  <1>3. cookie \in Tokens /\ cookie # NoToken
    BY SessionTyped DEF SendRefresh, SessionInv
  <1>4. /\ f \in RefreshRecs /\ f.pc = "find" /\ f.token = cookie /\ f.late = late
        /\ f.answer = NoToken
    BY <1>1, <1>2, <1>3 DEF NotRefreshing, RefreshRecs
  <1>5. /\ UNCHANGED <<session, barred, minted, cookie, signedIn, leaving, unheard, ended, left>>
        /\ disturbed' = (disturbed \/ ~Quiet)
    BY DEF SendRefresh, browser
  <1>6. Flight(t, f)
    BY <1>1, <1>2, <1>4, FlightSet DEF SendRefresh, SessionInv
  <1>7. RefreshSound(t)'
    <2>1. ASSUME late, NEW l \in Logins, Claims(l, cookie)' PROVE l \in ended
      <3>1. Claims(l, cookie)
        BY <1>4, <1>5, <1>6, <2>1, ClaimsKept
      <3>2. PICK m \in ended : Holds(m, cookie)
        BY <1>1, <2>1
      <3>3. m \in Logins /\ Claims(m, cookie)
        BY <3>2 DEF Claims, SessionInv, SessionTypeOK
      <3> QED
        BY <1>3, <3>1, <3>2, <3>3 DEF SessionInv, FamilySound
    <2>2. late => \A l \in Logins : Claims(l, refreshing[t].token)' => l \in ended'
      BY <1>4, <1>5, <1>6, <2>1 DEF Flight, Claims, Holds
    <2> QED
      BY <1>3, <1>4, <1>6, <2>2 DEF RefreshSound, Flight
  <1>8. disturbed' \/ Undisturbed'
    <2> SUFFICES ASSUME ~disturbed, Quiet PROVE Undisturbed'
      BY <1>5
    <2>1. /\ \A u \in Tabs : leaving'[u].pc = "idle"
          /\ \A u \in Tabs \ {t} : refreshing'[u].pc = "idle"
          /\ refreshing'[t] = f
      BY <1>5, <1>6 DEF Flight, Quiet
    <2>2. Live(cookie)
      BY <1>3 DEF SessionInv, Undisturbed, Quiet
    <2> QED
      BY <1>4, <1>5, <2>1, <2>2 DEF Undisturbed, Alone, Live
  <1>9. disturbed' \in BOOLEAN /\ f.token <= minted /\ unheard' \in 0..MaxUnheard
    BY <1>4, <1>5 DEF SessionInv, SessionTypeOK, MintedSound
  <1> QED
    BY <1>4, <1>5, <1>6, <1>7, <1>8, <1>9, FlightKeeps

(* A refresh that ends leaves nothing in flight.                             *)
LEMMA RefusedKeeps ==
  ASSUME SessionInv, UNCHANGED <<session, barred, minted, cookie, signedIn, leaving, ended, left>>,
         unheard' \in 0..MaxUnheard, disturbed' \in BOOLEAN, disturbed => disturbed',
         NEW t \in Tabs, Refused(t), disturbed' \/ refreshing[t].pc # "answered"
  PROVE  SessionInv'
  <1>1. Flight(t, NotRefreshing)
    BY FlightSet, NotRefreshingTyped DEF Refused, SessionInv
  <1>2. RefreshSound(t)'
    BY <1>1, NotRefreshingTyped DEF RefreshSound, Flight
  <1>3. disturbed' \/ Undisturbed'
    <2> SUFFICES ASSUME ~disturbed, refreshing[t].pc # "answered" PROVE Undisturbed'
      OBVIOUS
    <2>1. Undisturbed
      BY DEF SessionInv
    <2>2. \A u \in Tabs : refreshing'[u] = refreshing[u] \/ refreshing'[u].pc = "idle"
      BY <1>1, NotRefreshingTyped DEF Flight
    <2>3. Alone'
      BY <2>1, <2>2 DEF Undisturbed, Alone
    <2>4. Live(cookie)' <=> Live(cookie)
      BY DEF Live
    <2>5. cookie # NoToken =>
              (\E u \in Tabs : "answered" \in {refreshing'[u].pc, leaving'[u].pc}) \/ Live(cookie)
      BY <1>1, <2>1 DEF Undisturbed, Flight
    <2> QED
      BY <2>1, <2>2, <2>3, <2>4, <2>5 DEF Undisturbed, Holds
  <1>4. 0 <= minted
    BY SessionAssumption DEF SessionInv, SessionTypeOK
  <1> QED
    BY <1>1, <1>2, <1>3, <1>4, NotRefreshingTyped, FlightKeeps DEF NoToken

LEMMA LoseRefreshKeeps == ASSUME SessionInv, NEW t \in Tabs, LoseRefresh(t) PROVE SessionInv'
  <1>1. unheard' \in 0..MaxUnheard
    BY SessionAssumption DEF SessionInv, SessionTypeOK, LoseRefresh
  <1> QED
    BY <1>1, RefusedKeeps DEF LoseRefresh, Refused, browser

LEMMA FindSessionKeeps == ASSUME SessionInv, NEW t \in Tabs, FindSession(t) PROVE SessionInv'
  <1>1. /\ refreshing[t].pc = "find" /\ SessionTypeOK /\ RefreshSound(t)
        /\ refreshing[t] \in RefreshRecs
        /\ UNCHANGED <<session, barred, minted, cookie, signedIn, leaving, unheard, ended, left, disturbed>>
    BY SessionTyped DEF FindSession, SessionInv, browser, history
  <1>2. PICK k : k = refreshing[t].token
    OBVIOUS
  <1>3. CASE Refused(t)
    BY <1>1, <1>3, RefusedKeeps DEF SessionTypeOK
  <1>4. ASSUME NEW l \in Logins, NEW pc \in {"revoke", "rotate"}, Holds(l, k),
               refreshing' = [refreshing EXCEPT ![t].login = l, ![t].pc = pc],
               pc = "revoke" => session[l].previous = k,
               pc = "rotate" => session[l].previous # k /\ ~session[l].revoked
        PROVE  SessionInv'
    <2>1. PICK f : f = [refreshing[t] EXCEPT !.login = l, !.pc = pc]
      OBVIOUS
    <2>2. /\ f \in RefreshRecs /\ f.pc = pc /\ f.login = l /\ f.token = k
          /\ f.answer = NoToken /\ f.late = refreshing[t].late
      BY <1>1, <1>2, <2>1 DEF RefreshRecs, RefreshSound
    <2>3. Flight(t, f)
      BY <1>1, <1>4, <2>1, <2>2, FlightSet
    <2>4. Claims(l, k) /\ k # NoToken /\ session[l].current # NoToken
      BY <1>4 DEF Claims, Holds, SessionInv, FamilySound
    <2>5. \A m \in Logins : Claims(m, k)' => Claims(m, k)
      BY <1>1, <2>2, <2>3, <2>4, ClaimsKept
    <2>6. f.late => pc = "revoke" /\ \A m \in Logins : Claims(m, k) => m \in ended
      BY <1>1, <1>2, <1>4, <2>2, <2>4 DEF RefreshSound, SessionInv, FamilySound
    <2>7. RefreshSound(t)'
      <3>1. f.late => \A m \in Logins : Claims(m, refreshing[t].token)' => m \in ended'
        BY <1>1, <2>2, <2>3, <2>5, <2>6 DEF Flight, Claims, Holds
      <3> QED
        BY <1>1, <2>2, <2>3, <2>4, <2>6, <3>1 DEF RefreshSound, Flight
    <2>8. disturbed \/ Undisturbed'
      <3> SUFFICES ASSUME ~disturbed PROVE Undisturbed'
        OBVIOUS
      <3>1. Undisturbed /\ k = cookie
        BY <1>1, <1>2 DEF SessionInv, Undisturbed
      <3>2. /\ \A u \in Tabs : leaving[u].pc = "idle"
            /\ \A u \in Tabs \ {t} : refreshing[u].pc = "idle"
        BY <1>1, <3>1 DEF Undisturbed, Alone
      <3>3. PICK m \in Logins : session[m].current = k /\ ~session[m].revoked
        BY <1>1, <2>4, <3>1, <3>2 DEF Undisturbed, Live
      <3>4. l = m
        BY <1>2, <2>4, <3>3, <1>1, SessionTyped DEF Claims, Holds, SessionInv, FamilySound, RefreshRecs
      <3>5. pc = "rotate" /\ session[l].current = cookie
        BY <1>4, <2>4, <3>1, <3>3, <3>4 DEF SessionInv, FamilySound
      <3>6. Alone'
        BY <1>1, <2>3, <3>2 DEF Alone, Flight
      <3>7. Live(cookie)'
        BY <1>1, <3>1, <3>3 DEF Live
      <3>8. \A u \in Tabs : refreshing'[u] = f \/ refreshing'[u].pc = "idle"
        BY <2>3, <3>2 DEF Flight
      <3> QED
        BY <1>1, <1>4, <2>2, <3>1, <3>2, <3>5, <3>6, <3>7, <3>8 DEF Undisturbed
    <2>9. k <= minted
      BY <1>2 DEF SessionInv, MintedSound
    <2> QED
      BY <1>1, <2>2, <2>3, <2>4, <2>7, <2>8, <2>9, FlightKeeps DEF SessionTypeOK
  <1> QED
    BY <1>2, <1>3, <1>4 DEF FindSession

----------------------------------------------------------------------------
(* What the browser hears, and the logout. *)

LEMMA HearRefreshKeeps == ASSUME SessionInv, NEW t \in Tabs, HearRefresh(t) PROVE SessionInv'
  <1>1. /\ refreshing[t].pc = "answered" /\ cookie' = refreshing[t].answer
        /\ signedIn' = signedIn \union {t}
        /\ UNCHANGED <<session, barred, minted, leaving, unheard, ended, left, disturbed>>
    BY DEF HearRefresh, history
  <1>2. Flight(t, NotRefreshing)
    BY FlightSet, NotRefreshingTyped DEF HearRefresh, SessionInv
  <1>3. cookie' \in Tokens /\ cookie' <= minted /\ cookie' # NoToken
    BY <1>1, SessionTyped DEF SessionInv, RefreshSound, RefreshRecs, MintedSound
  <1>4. \A m \in Logins : \A k : (Claims(m, k)' => Claims(m, k))
    BY <1>1, <1>2, NotRefreshingTyped, ClaimsKept
  <1>5. FamilySound' /\ \A u \in Tabs \ {t} : RefreshSound(u)'
    BY <1>1, <1>2, <1>4, FamilyKept, RefreshKept DEF Flight
  <1>6. RefreshSound(t)'
    BY <1>2, NotRefreshingTyped DEF RefreshSound, Flight
  <1>7. SessionTypeOK'
    BY <1>1, <1>2, <1>3 DEF SessionInv, SessionTypeOK, Flight, RefreshRecs
  <1>8. MintedSound'
    <2>1. \A u \in Tabs : refreshing'[u] = refreshing[u] \/ refreshing'[u] = NotRefreshing
      BY <1>2 DEF Flight
    <2>2. NoToken <= minted
      BY SessionTyped, SessionAssumption DEF SessionInv, SessionTypeOK
    <2> QED
      BY <1>1, <1>3, <2>1, <2>2, NotRefreshingTyped DEF SessionInv, MintedSound
  <1>9. disturbed' \/ Undisturbed'
    <2> SUFFICES ASSUME ~disturbed PROVE Undisturbed'
      BY <1>1
    <2>1. Undisturbed /\ refreshing[t].login \in Logins
      BY <1>1 DEF SessionInv, RefreshSound
    <2>2. \A u \in Tabs : leaving[u].pc = "idle" /\ refreshing'[u].pc = "idle"
      BY <1>1, <1>2, <2>1, NotRefreshingTyped DEF Undisturbed, Alone, Flight
    <2>3. Live(cookie)'
      BY <1>1, <2>1 DEF Undisturbed, Live
    <2> QED
      BY <1>1, <2>2, <2>3 DEF Undisturbed, Alone
  <1>10. LogoutEnds'
    BY <1>1, LogoutEndsKept DEF SessionInv
  <1> QED
    BY <1>5, <1>6, <1>7, <1>8, <1>9, <1>10 DEF SessionInv

LEMMA SendLogoutKeeps == ASSUME SessionInv, NEW t \in Tabs, SendLogout(t) PROVE SessionInv'
  <1>1. /\ UNCHANGED <<session, barred, minted, cookie, signedIn, refreshing, unheard, ended, left>>
        /\ disturbed' = (disturbed \/ ~Quiet)
    BY DEF SendLogout, browser
  <1>2. PICK f : f = [pc |-> "revoke", token |-> cookie]
    OBVIOUS
  <1>3. f \in LeaveRecs /\ f.pc = "revoke" /\ f.token = cookie
    BY <1>2 DEF LeaveRecs, SessionInv, SessionTypeOK
  <1>4. Leaves(t, f)
    BY <1>2, <1>3, LeavesSet DEF SendLogout, SessionInv
  <1>5. SessionTypeOK'
    BY <1>1, <1>4 DEF SessionInv, SessionTypeOK, Leaves, LeaveRecs
  <1>6. \A m \in Logins : \A k : (Claims(m, k)' => Claims(m, k))
    BY <1>1, ClaimsKept
  <1>7. FamilySound' /\ (\A u \in Tabs : RefreshSound(u)') /\ MintedSound'
    BY <1>1, <1>6, FamilyKept, RefreshKept DEF SessionInv, MintedSound
  <1>8. disturbed' \/ Undisturbed'
    <2> SUFFICES ASSUME ~disturbed, Quiet PROVE Undisturbed'
      BY <1>1
    <2>1. /\ \A u \in Tabs : refreshing'[u].pc = "idle"
          /\ \A u \in Tabs \ {t} : leaving'[u].pc = "idle"
          /\ leaving'[t] = f
      BY <1>1, <1>4 DEF Leaves, Quiet
    <2>2. cookie # NoToken => Live(cookie)
      BY DEF SessionInv, Undisturbed, Quiet
    <2> QED
      BY <1>1, <1>3, <2>1, <2>2 DEF Undisturbed, Alone, Live
  <1>9. LogoutEnds'
    BY <1>1, LogoutEndsKept DEF SessionInv
  <1> QED
    BY <1>5, <1>7, <1>8, <1>9 DEF SessionInv

LEMMA HearLogoutKeeps == ASSUME SessionInv, NEW t \in Tabs, HearLogout(t) PROVE SessionInv'
  <1>1. /\ leaving[t].pc = "answered" /\ cookie' = NoToken /\ signedIn' = signedIn \ {t}
        /\ left' = left \union {l \in Logins : Holds(l, leaving[t].token)}
        /\ UNCHANGED <<session, barred, minted, refreshing, unheard, ended, disturbed>>
    BY DEF HearLogout
  <1>2. Leaves(t, NotLeaving)
    BY LeavesSet, NotLeavingTyped DEF HearLogout, SessionInv
  <1>3. SessionTypeOK'
    BY <1>1, <1>2 DEF SessionInv, SessionTypeOK, Leaves, LeaveRecs
  <1>4. \A m \in Logins : \A k : (Claims(m, k)' => Claims(m, k))
    BY <1>1, ClaimsKept
  <1>5. NoToken <= minted
    BY SessionTyped, SessionAssumption DEF SessionInv, SessionTypeOK
  <1>6. FamilySound' /\ (\A u \in Tabs : RefreshSound(u)') /\ MintedSound'
    BY <1>1, <1>4, <1>5, FamilyKept, RefreshKept DEF SessionInv, MintedSound
  <1>7. disturbed' \/ Undisturbed'
    <2> SUFFICES ASSUME ~disturbed PROVE Undisturbed'
      BY <1>1
    <2>1. Undisturbed
      BY DEF SessionInv
    <2>2. \A u \in Tabs : refreshing'[u].pc = "idle" /\ leaving'[u].pc = "idle"
      BY <1>1, <1>2, <2>1, NotLeavingTyped DEF Undisturbed, Alone, Leaves
    <2> QED
      BY <1>1, <2>2 DEF Undisturbed, Alone
  <1>8. LogoutEnds'
    BY <1>1 DEF SessionInv, LogoutEnds, Undisturbed
  <1> QED
    BY <1>3, <1>6, <1>7, <1>8 DEF SessionInv

----------------------------------------------------------------------------
(* The steps that write a session. *)

LEMMA NextToken ==
  ASSUME SessionInv, minted < MaxTokens
  PROVE  \E n \in Tokens : /\ n = minted + 1 /\ n \in 0..MaxTokens /\ n # NoToken
                           /\ \A k \in Tokens \union {NoToken} : k <= minted => k <= n /\ k # n
                           /\ \A l \in Logins : ~Claims(l, n)
  <1>1. minted + 1 \in Tokens /\ minted + 1 \in 0..MaxTokens
    BY SessionAssumption DEF SessionInv, SessionTypeOK, Tokens
  <1>2. \A k \in Tokens \union {NoToken} : k <= minted => k <= minted + 1 /\ k # minted + 1
    BY SessionTyped DEF SessionInv
  <1>3. \A l \in Logins : ~Claims(l, minted + 1)
    BY <1>1, <1>2, ClaimedMinted DEF SessionInv
  <1> QED
    BY <1>1, <1>2, <1>3, SessionTyped DEF SessionInv

(* A session gets a new current token: the new token is its alone.           *)
LEMMA NewFamily ==
  ASSUME SessionInv, NEW l \in Logins, NEW n, n # NoToken, \A m \in Logins : ~Claims(m, n),
         UNCHANGED ended,
         \A m \in Logins : \A k : Claims(m, k)' => Claims(m, k) \/ (m = l /\ k = n),
         \A m \in Logins \ {l} : session'[m] = session[m],
         session'[l].current = n, session'[l].previous # n,
         session'[l].revoked = session[l].revoked
  PROVE  FamilySound'
  <1>1. \A m \in Logins :
            IF session'[m].current = NoToken THEN session'[m].previous = NoToken /\ ~session'[m].revoked
                                            ELSE session'[m].current # session'[m].previous
    BY DEF SessionInv, FamilySound
  <1>2. \A m \in ended' : session'[m].revoked
    BY DEF SessionInv, FamilySound, SessionTypeOK
  <1>3. ASSUME NEW a \in Logins, NEW b \in Logins, NEW k \in Tokens, Claims(a, k)', Claims(b, k)'
        PROVE  a = b
    BY <1>3 DEF SessionInv, FamilySound
  <1> QED
    BY <1>1, <1>2, <1>3 DEF FamilySound

(* What a refresh in flight relies on is not disturbed by a new token.       *)
LEMMA NewTokenRefresh ==
  ASSUME SessionInv, NEW l \in Logins, NEW n, n # NoToken, UNCHANGED ended,
         \A m \in Logins : \A k : Claims(m, k)' => Claims(m, k) \/ (m = l /\ k = n),
         \A m \in Logins \ {l} : session'[m] = session[m], session'[l].current = n,
         NEW t \in Tabs, refreshing'[t] = refreshing[t], refreshing[t].token # n
  PROVE  RefreshSound(t)'
  BY DEF SessionInv, RefreshSound

LEMMA LoginKeeps == ASSUME SessionInv, NEW t \in Tabs, NEW l \in Logins, Login(t, l) PROVE SessionInv'
  <1>1. PICK n \in Tokens : /\ n = minted + 1 /\ n \in 0..MaxTokens /\ n # NoToken
                            /\ \A k \in Tokens \union {NoToken} : k <= minted => k <= n /\ k # n
                            /\ \A m \in Logins : ~Claims(m, n)
    BY NextToken DEF Login
  <1>2. /\ session[l].current = NoToken /\ minted' = n /\ cookie' = n
        /\ session' = [session EXCEPT ![l].current = n]
        /\ signedIn' = signedIn \union {t} /\ disturbed' = (disturbed \/ ~Quiet)
        /\ UNCHANGED <<barred, refreshing, leaving, unheard, ended, left>>
    BY <1>1 DEF Login
  <1>3. /\ session' \in [Logins -> SessionRecs] /\ session'[l].current = n
        /\ session'[l].previous = NoToken /\ session'[l].revoked = FALSE
        /\ session[l].previous = NoToken /\ session[l].revoked = FALSE
        /\ \A m \in Logins \ {l} : session'[m] = session[m]
    BY <1>1, <1>2, SessionTyped DEF SessionInv, SessionRecs, FamilySound
  <1>4. SessionTypeOK'
    BY <1>1, <1>2, <1>3 DEF SessionInv, SessionTypeOK, SessionRecs
  <1>5. \A m \in Logins : \A k : Claims(m, k)' => Claims(m, k) \/ (m = l /\ k = n)
    BY <1>2, <1>3 DEF Claims, Holds
  <1>6. FamilySound'
    BY <1>1, <1>2, <1>3, <1>5, NewFamily
  <1>7. MintedSound'
    <2>1. /\ \A m \in Logins : session'[m].current <= n /\ session'[m].previous <= n
          /\ n <= n
      BY <1>1, <1>2, <1>3, SessionTyped, SessionAssumption DEF SessionInv, MintedSound, SessionRecs, SessionTypeOK
    <2>2. \A u \in Tabs : refreshing[u].token <= n /\ refreshing[u].answer <= n
      BY <1>1, SessionTyped DEF SessionInv, MintedSound, RefreshRecs
    <2> QED
      BY <1>2, <2>1, <2>2 DEF MintedSound
  <1>8. \A u \in Tabs : RefreshSound(u)'
    <2>1. \A u \in Tabs : refreshing[u].token # n
      BY <1>1, SessionTyped DEF SessionInv, MintedSound, RefreshRecs
    <2> QED
      BY <1>1, <1>2, <1>3, <1>5, <2>1, NewTokenRefresh
  <1>9. disturbed' \/ Undisturbed'
    <2> SUFFICES ASSUME ~disturbed, Quiet PROVE Undisturbed'
      BY <1>2
    <2>1. Live(cookie)'
      BY <1>2, <1>3 DEF Live
    <2> QED
      BY <1>2, <2>1 DEF Undisturbed, Alone, Quiet
  <1>10. LogoutEnds'
    BY <1>2, <1>3, LogoutEndsKept DEF SessionInv, SessionTypeOK
  <1> QED
    BY <1>4, <1>6, <1>7, <1>8, <1>9, <1>10 DEF SessionInv

LEMMA RotateKeeps == ASSUME SessionInv, NEW t \in Tabs, Rotate(t) PROVE SessionInv'
  <1>1. PICK n \in Tokens : /\ n = minted + 1 /\ n \in 0..MaxTokens /\ n # NoToken
                            /\ \A k \in Tokens \union {NoToken} : k <= minted => k <= n /\ k # n
                            /\ \A m \in Logins : ~Claims(m, n)
    BY NextToken DEF Rotate
  <1>2. PICK l \in Logins, k \in Tokens :
            /\ l = refreshing[t].login /\ k = refreshing[t].token
            /\ k <= minted /\ k # n /\ k # NoToken /\ Claims(l, k)
    <2>1. /\ refreshing[t].login \in Logins /\ refreshing[t].token # NoToken
          /\ refreshing[t].token \in Tokens /\ refreshing[t].token <= minted
      BY SessionTyped DEF SessionInv, RefreshSound, Rotate, RefreshRecs, MintedSound
    <2> QED
      BY <1>1, <2>1 DEF Claims, Rotate
  <1>3. PICK f : f = [refreshing[t] EXCEPT !.pc = "answered", !.answer = n]
    OBVIOUS
  <1>4. /\ f \in RefreshRecs /\ f.pc = "answered" /\ f.answer = n /\ f.login = l /\ f.token = k
        /\ f.late = FALSE /\ refreshing[t].pc = "rotate"
    <2>1. refreshing[t] \in RefreshRecs /\ refreshing[t].late = FALSE /\ refreshing[t].pc = "rotate"
      BY SessionTyped DEF SessionInv, RefreshSound, Rotate, RefreshRecs
    <2> QED
      BY <1>1, <1>2, <1>3, <2>1 DEF RefreshRecs
  <1>5. /\ minted' = n
        /\ session' = [session EXCEPT ![l].previous = k, ![l].current = n]
        /\ UNCHANGED <<barred, cookie, signedIn, leaving, unheard, ended, left, disturbed>>
    BY <1>1, <1>2 DEF Rotate, browser, history
  <1>6. Flight(t, f)
    <2>1. refreshing' = [refreshing EXCEPT ![t] = f] /\ SessionTypeOK /\ f \in RefreshRecs
      BY <1>1, <1>3, <1>4 DEF Rotate, SessionInv
    <2> QED
      BY <2>1, FlightSet
  <1>7. /\ session' \in [Logins -> SessionRecs] /\ session'[l].current = n
        /\ session'[l].previous = k /\ session'[l].revoked = session[l].revoked
        /\ \A m \in Logins \ {l} : session'[m] = session[m]
    BY <1>1, <1>2, <1>5, SessionTyped DEF SessionInv, SessionRecs
  <1>8. SessionTypeOK'
    BY <1>1, <1>5, <1>6, <1>7 DEF SessionInv, SessionTypeOK, SessionRecs, Flight, RefreshRecs
  <1>9. \A m \in Logins : \A j : Claims(m, j)' => Claims(m, j) \/ (m = l /\ j = n)
    <2> SUFFICES ASSUME NEW m \in Logins, NEW j, Claims(m, j)', ~(m = l /\ j = n)
                 PROVE  Claims(m, j)
      OBVIOUS
    <2>1. CASE Holds(m, j)'
      BY <1>2, <1>7, <2>1 DEF Claims, Holds
    <2>2. CASE ~Holds(m, j)'
      BY <1>4, <1>6, <2>2 DEF Claims, Flight
    <2> QED
      BY <2>1, <2>2
  <1>10. FamilySound'
    <2>1. n # NoToken /\ (\A m \in Logins : ~Claims(m, n)) /\ k # n
      BY <1>1, <1>2
    <2>2. session'[l].current = n /\ session'[l].previous # n /\ UNCHANGED ended
      BY <1>5, <1>7, <2>1
    <2> QED
      BY <1>7, <1>9, <2>1, <2>2, NewFamily
  <1>11. MintedSound'
    <2>1. \A m \in Logins : session'[m].current <= n /\ session'[m].previous <= n
      BY <1>1, <1>2, <1>7, SessionTyped, SessionAssumption DEF SessionInv, MintedSound, SessionRecs, SessionTypeOK
    <2>2. \A u \in Tabs : refreshing[u].token <= n /\ refreshing[u].answer <= n
      BY <1>1, SessionTyped DEF SessionInv, MintedSound, RefreshRecs
    <2>3. n <= n /\ k <= n /\ cookie <= n
      <3>1. cookie \in Tokens \union {NoToken} /\ cookie <= minted /\ SessionTypeOK
        BY SessionTyped DEF SessionInv, MintedSound
      <3>2. n \in Int
        BY <1>1
      <3> QED
        BY <1>1, <1>2, <3>1, <3>2
    <2>4. \A u \in Tabs : refreshing'[u].token <= n /\ refreshing'[u].answer <= n
      BY <1>4, <1>6, <2>2, <2>3 DEF Flight
    <2> QED
      BY <1>5, <2>1, <2>3, <2>4 DEF MintedSound
  <1>12. \A u \in Tabs : RefreshSound(u)'
    <2>1. \A u \in Tabs : refreshing[u].token # n
      BY <1>1, SessionTyped DEF SessionInv, MintedSound, RefreshRecs
    <2>2. \A u \in Tabs \ {t} : RefreshSound(u)'
      BY <1>1, <1>5, <1>6, <1>7, <1>9, <2>1, NewTokenRefresh DEF Flight
    <2>3. RefreshSound(t)'
      BY <1>1, <1>2, <1>4, <1>6, <1>7 DEF RefreshSound, Flight
    <2> QED
      BY <2>2, <2>3
  <1>13. disturbed' \/ Undisturbed'
    <2> SUFFICES ASSUME ~disturbed PROVE Undisturbed'
      BY <1>5
    <2>1. Undisturbed
      BY DEF SessionInv
    <2>2. /\ \A u \in Tabs : leaving[u].pc = "idle"
          /\ \A u \in Tabs \ {t} : refreshing'[u].pc = "idle"
          /\ refreshing'[t] = f /\ ~session'[l].revoked
      BY <1>2, <1>4, <1>6, <1>7, <2>1 DEF Undisturbed, Alone, Flight
    <2>3. Alone'
      BY <1>5, <2>2 DEF Alone
    <2> QED
      BY <1>4, <1>5, <1>7, <2>2, <2>3 DEF Undisturbed
  <1>14. LogoutEnds'
    BY <1>5, <1>7, LogoutEndsKept DEF SessionInv, SessionTypeOK
  <1> QED
    BY <1>8, <1>10, <1>11, <1>12, <1>13, <1>14 DEF SessionInv

(* Sessions are revoked: their tokens stay, and no other token gets a claim. *)
LEMMA RevokeKeeps ==
  ASSUME SessionInv, NEW S \in SUBSET Logins, UNCHANGED <<barred, minted, cookie, signedIn, unheard, left, disturbed>>,
         session' = [l \in Logins |-> IF l \in S THEN [session[l] EXCEPT !.revoked = TRUE] ELSE session[l]],
         ended' = ended \union S, \A l \in S : session[l].current # NoToken,
         refreshing' = refreshing \/ \E t \in Tabs : Flight(t, NotRefreshing),
         leaving' \in [Tabs -> LeaveRecs],
         disturbed \/ Undisturbed'
  PROVE  SessionInv'
  <1>1. /\ session' \in [Logins -> SessionRecs]
        /\ \A l \in Logins : /\ session'[l].current = session[l].current
                             /\ session'[l].previous = session[l].previous
                             /\ session[l].revoked => session'[l].revoked
        /\ \A l \in S : session'[l].revoked
        /\ \A l \in Logins \ S : session'[l] = session[l]
    BY SessionTyped DEF SessionInv, SessionRecs
  <1>2. refreshing' \in [Tabs -> RefreshRecs]
    BY SessionTyped DEF SessionInv, Flight
  <1>3. \A t \in Tabs : refreshing'[t] = refreshing[t] \/ refreshing'[t] = NotRefreshing
    BY DEF Flight
  <1>4. \A l \in Logins : \A k : (Claims(l, k)' => Claims(l, k))
    BY <1>1, <1>3, NotRefreshingTyped DEF Claims, Holds
  <1>5. SessionTypeOK'
    BY <1>1, <1>2 DEF SessionInv, SessionTypeOK, SessionRecs, RefreshRecs, LeaveRecs
  <1>6. FamilySound'
    <2>1. \A m \in Logins :
            IF session'[m].current = NoToken THEN session'[m].previous = NoToken /\ ~session'[m].revoked
                                            ELSE session'[m].current # session'[m].previous
      BY <1>1 DEF SessionInv, FamilySound
    <2>2. \A m \in ended' : session'[m].revoked
      BY <1>1 DEF SessionInv, FamilySound, SessionTypeOK
    <2> QED
      BY <1>4, <2>1, <2>2 DEF FamilySound, SessionInv
  <1>7. MintedSound'
    <2>1. NoToken <= minted
      BY SessionTyped, SessionAssumption DEF SessionInv, SessionTypeOK
    <2> QED
      BY <1>1, <1>3, <2>1, NotRefreshingTyped DEF SessionInv, MintedSound
  <1>8. \A t \in Tabs : RefreshSound(t)'
    <2> SUFFICES ASSUME NEW t \in Tabs PROVE RefreshSound(t)'
      OBVIOUS
    <2>1. CASE refreshing'[t] = refreshing[t]
      BY <1>1, <1>4, <2>1 DEF SessionInv, RefreshSound
    <2>2. CASE refreshing'[t] = NotRefreshing
      BY <2>2, NotRefreshingTyped DEF RefreshSound
    <2> QED
      BY <1>3, <2>1, <2>2
  <1>9. LogoutEnds'
    BY <1>1, LogoutEndsKept DEF SessionInv, SessionTypeOK
  <1> QED
    BY <1>5, <1>6, <1>7, <1>8, <1>9 DEF SessionInv

LEMMA RevokeFamilyKeeps == ASSUME SessionInv, NEW t \in Tabs, RevokeFamily(t) PROVE SessionInv'
  <1>1. PICK l \in Logins : l = refreshing[t].login /\ session[l].current # NoToken
    BY DEF SessionInv, RefreshSound, RevokeFamily
  <1>2. /\ session' = [session EXCEPT ![l].revoked = TRUE] /\ ended' = ended \union {l}
        /\ UNCHANGED <<barred, minted, cookie, signedIn, leaving, unheard, left, disturbed>>
    BY <1>1 DEF RevokeFamily, browser
  <1>3. session' = [m \in Logins |-> IF m \in {l} THEN [session[m] EXCEPT !.revoked = TRUE] ELSE session[m]]
    BY <1>2, SessionTyped DEF SessionInv
  <1>4. Flight(t, NotRefreshing)
    BY FlightSet, NotRefreshingTyped DEF RevokeFamily, Refused, SessionInv
  <1>5. disturbed
    BY DEF RevokeFamily, SessionInv, Undisturbed
  <1>6. leaving' \in [Tabs -> LeaveRecs]
    BY <1>2, SessionTyped DEF SessionInv
  <1> QED
    BY <1>1, <1>2, <1>3, <1>4, <1>5, <1>6, RevokeKeeps

LEMMA RevokeCurrentKeeps == ASSUME SessionInv, NEW t \in Tabs, RevokeCurrent(t) PROVE SessionInv'
  <1>1. PICK k : k = leaving[t].token
    OBVIOUS
  <1>2. PICK S : S = {l \in Logins : session[l].current = k /\ k # NoToken}
    OBVIOUS
  <1>3. /\ leaving[t].pc = "revoke" /\ ended' = ended \union S
        /\ session' = [l \in Logins |-> IF l \in S THEN [session[l] EXCEPT !.revoked = TRUE] ELSE session[l]]
        /\ UNCHANGED <<barred, minted, cookie, signedIn, refreshing, unheard, left, disturbed>>
    BY <1>1, <1>2 DEF RevokeCurrent, browser
  <1>4. PICK f : f = [leaving[t] EXCEPT !.pc = "answered"]
    OBVIOUS
  <1>5. f \in LeaveRecs /\ f.pc = "answered" /\ f.token = k
    BY <1>1, <1>4, SessionTyped DEF SessionInv, LeaveRecs
  <1>6. Leaves(t, f)
    BY <1>4, <1>5, LeavesSet DEF RevokeCurrent, SessionInv
  <1>7. disturbed \/ Undisturbed'
    <2> SUFFICES ASSUME ~disturbed PROVE Undisturbed'
      OBVIOUS
    <2>1. Undisturbed /\ k = cookie
      BY <1>1, <1>3 DEF SessionInv, Undisturbed
    <2>2. /\ \A u \in Tabs : refreshing'[u].pc = "idle"
          /\ \A u \in Tabs \ {t} : leaving'[u].pc = "idle" /\ leaving[u].pc = "idle"
          /\ leaving'[t] = f
      BY <1>3, <1>6, <2>1 DEF Undisturbed, Alone, Leaves
    <2>3. ASSUME NEW l \in Logins, Holds(l, k)' PROVE session'[l].revoked
      <3>1. Holds(l, k) /\ k # NoToken /\ k \in Tokens
        BY <1>3, <2>1, <2>3, SessionTyped DEF Holds, SessionInv, SessionRecs
      <3>2. PICK m \in Logins : session[m].current = k
        BY <1>3, <2>1, <2>2, <3>1 DEF Undisturbed, Live
      <3>3. l = m
        BY <3>1, <3>2 DEF Claims, Holds, SessionInv, FamilySound
      <3>4. l \in S
        BY <1>2, <3>1, <3>2, <3>3
      <3> QED
        BY <1>3, <3>4, SessionTyped DEF SessionInv, SessionRecs
    <2>4. Alone'
      BY <1>5, <2>2 DEF Alone
    <2>5. \A l \in Logins : Holds(l, leaving[t].token)' => session'[l].revoked
      BY <1>5, <2>2, <2>3 DEF Holds
    <2> QED
      BY <1>5, <2>2, <2>4, <2>5 DEF Undisturbed
  <1>8. S \subseteq Logins /\ \A l \in S : session[l].current # NoToken
    BY <1>2
  <1>9. leaving' \in [Tabs -> LeaveRecs]
    BY <1>6 DEF Leaves
  <1> QED
    BY <1>3, <1>7, <1>8, <1>9, RevokeKeeps

----------------------------------------------------------------------------
LEMMA SessionStep == ASSUME SessionInv, [SessionNext]_sessionVars PROVE SessionInv'
  <1>1. ASSUME NEW l \in Logins, Bar(l) PROVE SessionInv'
    BY <1>1, BarKeeps
  <1>2. ASSUME NEW t \in Tabs,
               \/ \E l \in Logins : Login(t, l)
               \/ SendRefresh(t) \/ FindSession(t) \/ RevokeFamily(t) \/ Rotate(t)
               \/ HearRefresh(t) \/ LoseRefresh(t)
               \/ SendLogout(t) \/ RevokeCurrent(t) \/ HearLogout(t)
        PROVE  SessionInv'
    BY <1>2, LoginKeeps, SendRefreshKeeps, FindSessionKeeps, RevokeFamilyKeeps, RotateKeeps,
       HearRefreshKeeps, LoseRefreshKeeps, SendLogoutKeeps, RevokeCurrentKeeps, HearLogoutKeeps
  <1>3. CASE UNCHANGED sessionVars
    <2>1. UNCHANGED <<session, barred, minted, cookie, signedIn, refreshing, leaving, unheard, ended,
                      left, disturbed>>
      BY <1>3 DEF sessionVars, browser, history
    <2>2. \A m \in Logins : \A k : (Claims(m, k)' => Claims(m, k))
      BY <2>1 DEF Claims, Holds
    <2>3. FamilySound' /\ \A t \in Tabs : RefreshSound(t)'
      BY <2>1, <2>2, FamilyKept, RefreshKept
    <2>4. SessionTypeOK' /\ MintedSound' /\ LogoutEnds'
      BY <2>1 DEF SessionInv, SessionTypeOK, MintedSound, LogoutEnds
    <2>5. disturbed' \/ Undisturbed'
      BY <2>1 DEF SessionInv, Undisturbed, Alone, Live, Holds
    <2> QED
      BY <2>3, <2>4, <2>5 DEF SessionInv
  <1> QED
    BY <1>1, <1>2, <1>3 DEF SessionNext

LEMMA SessionInitial == ASSUME SessionInit PROVE SessionInv
  <1>1. SessionTypeOK
    <2>1. 0 \in 0..MaxTokens /\ 0 \in 0..MaxUnheard
      BY SessionAssumption
    <2>2. session \in [Logins -> SessionRecs]
      BY DEF SessionInit, SessionRecs
    <2>3. refreshing \in [Tabs -> RefreshRecs] /\ leaving \in [Tabs -> LeaveRecs]
      BY NotRefreshingTyped, NotLeavingTyped DEF SessionInit
    <2> QED
      BY <2>1, <2>2, <2>3 DEF SessionInit, SessionTypeOK, SessionRecs, RefreshRecs, LeaveRecs
  <1>2. MintedSound
    BY NotRefreshingTyped DEF SessionInit, MintedSound, NoToken
  <1>3. \A l \in Logins, k \in Tokens : ~Claims(l, k)
    BY NotRefreshingTyped DEF SessionInit, Claims, Holds
  <1>4. FamilySound
    BY <1>3 DEF SessionInit, FamilySound
  <1>5. \A t \in Tabs : RefreshSound(t)
    BY NotRefreshingTyped DEF SessionInit, RefreshSound
  <1>6. Undisturbed /\ LogoutEnds
    BY NotRefreshingTyped, NotLeavingTyped DEF SessionInit, Undisturbed, Alone, LogoutEnds
  <1> QED
    BY <1>1, <1>2, <1>4, <1>5, <1>6 DEF SessionInv

(* What every reachable state of the sessions and the browser has.           *)
THEOREM SessionInvariant == SessionSpec => []SessionInv
  <1>1. SessionInit => SessionInv
    BY SessionInitial
  <1>2. SessionInv /\ [SessionNext]_sessionVars => SessionInv'
    BY SessionStep
  <1> QED
    BY <1>1, <1>2, PTL DEF SessionSpec

(* refresh answers a token only for a session that has never been revoked    *)
(* when the refresh was sent, whatever refreshes that had passed their check *)
(* write after the revocation.                                               *)
THEOREM RevokedSessionRefused == SessionSpec => []RevokedIsRefused
  <1>1. SessionInv => RevokedIsRefused
    BY DEF SessionInv, RefreshSound, RevokedIsRefused
  <1> QED
    BY <1>1, SessionInvariant, PTL

(* As long as no two calls overlap and no answer is lost, the cookie is the  *)
(* current token of a session that goes on, and a logout that was answered   *)
(* has revoked its session.                                                  *)
THEOREM BrowserFollowed == SessionSpec => []SessionFollowsBrowser
  <1>1. SessionInv => SessionFollowsBrowser
    BY DEF SessionInv, Undisturbed, Quiet, Live, SessionFollowsBrowser, CookieIsLive
  <1> QED
    BY <1>1, SessionInvariant, PTL

----------------------------------------------------------------------------
(* Versions that governance drafts, publishes and retires. *)

TextRecs == [status : {"NONE", "DRAFT", "PUBLISHED", "RETIRED"}, content : Nat]
EditorRecs == [pc : {"idle", "create", "update", "publish", "retire"},
               version : VersionIds \union {EditorIdle.version}, flag : BOOLEAN]
PinRecs == [version : VersionIds, content : Nat]

VersionsTyped ==
    /\ text \in [VersionIds -> TextRecs] /\ contents \in Nat
    /\ isDefault \subseteq Definitions /\ public \subseteq Definitions
    /\ editor \in [Editors -> EditorRecs] /\ pins \subseteq PinRecs
    /\ retiredOnce \subseteq VersionIds /\ crossed \subseteq VersionIds
    /\ hadDefault \in BOOLEAN /\ flagMoved \in BOOLEAN

Issued(v) == text[v].status \in {"PUBLISHED", "RETIRED"}

(* A request works on a version, and one that retires found it published.    *)
EditorSound(e) ==
    /\ editor[e].pc # "idle" => editor[e].version \in VersionIds
    /\ editor[e].pc = "retire" => Issued(editor[e].version)
    /\ editor[e].pc = "publish" /\ editor[e].flag => editor[e].version[1] \in Definitions

(* Once a version was published no request that would change or publish it   *)
(* is left, unless they crossed.                                             *)
IssuedSound(v) ==
    Issued(v) => \/ v \in crossed
                 \/ \A e \in Editors : ~ (editor[e].version = v /\ editor[e].pc \in {"update", "publish"})

PinSound(p) == p.version \in crossed \/ (Issued(p.version) /\ text[p.version].content = p.content)

DefaultSound ==
    ~flagMoved => IF hadDefault THEN \E d : isDefault \intersect public = {d}
                                ELSE isDefault \intersect public = {}

VersionsInv ==
    /\ VersionsTyped
    /\ \A e \in Editors : EditorSound(e)
    /\ \A v \in VersionIds : IssuedSound(v)
    /\ \A p \in pins : PinSound(p)
    /\ RetiredStands /\ DefaultSound

LEMMA IdleEditor ==
    EditorIdle \in EditorRecs /\ EditorIdle.pc = "idle"
  BY DEF EditorIdle, EditorRecs

(* What a step leaves of a request and of a version.                         *)
Turns(e, f) ==
    /\ editor' \in [Editors -> EditorRecs] /\ editor'[e] = f
    /\ \A g \in Editors \ {e} : editor'[g] = editor[g]
Rewrites(v, s, c) ==
    /\ text' \in [VersionIds -> TextRecs]
    /\ text'[v].status = s /\ text'[v].content = c
    /\ \A w \in VersionIds \ {v} : text'[w] = text[w]

LEMMA EditorGone ==
  ASSUME VersionsTyped, NEW e \in Editors, EditorRests(e)
  PROVE  Turns(e, EditorIdle)
  BY IdleEditor DEF EditorRests, VersionsTyped, Turns

LEMMA EditorEnters ==
  ASSUME VersionsTyped, NEW e \in Editors, NEW f \in EditorRecs, editor' = [editor EXCEPT ![e] = f]
  PROVE  Turns(e, f)
  BY DEF VersionsTyped, Turns

LEMMA TextSet ==
  ASSUME VersionsTyped, NEW v \in VersionIds, NEW s \in {"NONE", "DRAFT", "PUBLISHED", "RETIRED"},
         text' = [text EXCEPT ![v].status = s]
  PROVE  Rewrites(v, s, text[v].content)
  BY DEF VersionsTyped, Rewrites, TextRecs

----------------------------------------------------------------------------
(* A request begins, and leaves the versions alone. *)

LEMMA EnterKeeps ==
  ASSUME VersionsInv, UNCHANGED <<text, contents, flagVars, pins, historyVars>>,
         NEW e \in Editors, NEW f, Turns(e, f),
         f.pc # "idle" => f.version \in VersionIds,
         f.pc = "retire" => Issued(f.version),
         f.pc = "publish" /\ f.flag => f.version[1] \in Definitions,
         f.pc \in {"update", "publish"} => ~Issued(f.version)
  PROVE  VersionsInv'
  <1>1. UNCHANGED <<text, contents, isDefault, public, hadDefault, flagMoved, pins, retiredOnce, crossed>>
    BY DEF flagVars, historyVars
  <1>2. VersionsTyped'
    BY <1>1 DEF VersionsInv, VersionsTyped, Turns
  <1>3. \A g \in Editors : EditorSound(g)'
    BY <1>1 DEF VersionsInv, EditorSound, Issued, Turns
  <1>4. \A v \in VersionIds : IssuedSound(v)'
    BY <1>1 DEF VersionsInv, IssuedSound, Issued, Turns
  <1>5. (\A p \in pins' : PinSound(p)') /\ RetiredStands' /\ DefaultSound'
    BY <1>1 DEF VersionsInv, PinSound, Issued, RetiredStands, DefaultSound
  <1> QED
    BY <1>2, <1>3, <1>4, <1>5 DEF VersionsInv

LEMMA EntersKeep ==
  ASSUME VersionsInv, NEW e \in Editors,
         \/ \E t \in Templates : EnterCreate(e, t)
         \/ \E v \in VersionIds : EnterUpdate(e, v) \/ EnterPublish(e, v) \/ EnterRetire(e, v)
         \/ GiveUpEdit(e)
  PROVE  VersionsInv'
  <1>1. VersionsTyped
    BY DEF VersionsInv
  <1>2. ASSUME NEW t \in Templates, EnterCreate(e, t) PROVE VersionsInv'
    <2>1. PICK n \in 1..MaxNumber : EditorMoves(e, "create", <<t, n>>, FALSE)
      BY <1>2 DEF EnterCreate
    <2>2. PICK v \in VersionIds : v = <<t, n>>
      BY DEF VersionIds
    <2>3. PICK f : f = [pc |-> "create", version |-> v, flag |-> FALSE]
      OBVIOUS
    <2>4. f \in EditorRecs /\ f.pc = "create" /\ f.version = v
      BY <2>3 DEF EditorRecs
    <2>5. Turns(e, f)
      BY <1>1, <2>1, <2>2, <2>3, <2>4, EditorEnters DEF EditorMoves
    <2> QED
      BY <1>2, <2>4, <2>5, EnterKeeps DEF EnterCreate
  <1>3. ASSUME NEW v \in VersionIds, EnterUpdate(e, v) PROVE VersionsInv'
    <2>1. PICK f : f = [pc |-> "update", version |-> v, flag |-> FALSE]
      OBVIOUS
    <2>2. f \in EditorRecs /\ f.pc = "update" /\ f.version = v
      BY <2>1 DEF EditorRecs
    <2>3. Turns(e, f)
      BY <1>1, <1>3, <2>1, <2>2, EditorEnters DEF EnterUpdate, EditorMoves
    <2> QED
      BY <1>3, <2>2, <2>3, EnterKeeps DEF EnterUpdate, Issued
  <1>4. ASSUME NEW v \in VersionIds, EnterPublish(e, v) PROVE VersionsInv'
    <2>1. PICK f : f = [pc |-> "publish", version |-> v, flag |-> v[1] \in isDefault]
      OBVIOUS
    <2>2. f \in EditorRecs /\ f.pc = "publish" /\ f.version = v /\ (f.flag => v[1] \in isDefault)
      <3>1. CASE v[1] \in isDefault
        <4>1. f = [pc |-> "publish", version |-> v, flag |-> TRUE]
          BY <2>1, <3>1
        <4> QED
          BY <3>1, <4>1 DEF EditorRecs
      <3>2. CASE v[1] \notin isDefault
        <4>1. (v[1] \in isDefault) = FALSE
          BY <3>2
        <4>2. f = [pc |-> "publish", version |-> v, flag |-> FALSE]
          BY <2>1, <4>1, Zenon
        <4> QED
          BY <4>2 DEF EditorRecs
      <3> QED
        BY <3>1, <3>2
    <2>3. Turns(e, f)
      BY <1>1, <1>4, <2>1, <2>2, EditorEnters DEF EnterPublish, EditorMoves
    <2>4. f.flag => v[1] \in Definitions
      BY <1>1, <2>2 DEF VersionsTyped
    <2> QED
      BY <1>4, <2>2, <2>3, <2>4, EnterKeeps DEF EnterPublish, Issued
  <1>5. ASSUME NEW v \in VersionIds, EnterRetire(e, v) PROVE VersionsInv'
    <2>1. PICK f : f = [pc |-> "retire", version |-> v, flag |-> FALSE]
      OBVIOUS
    <2>2. f \in EditorRecs /\ f.pc = "retire" /\ f.version = v
      BY <2>1 DEF EditorRecs
    <2>3. Turns(e, f)
      BY <1>1, <1>5, <2>1, <2>2, EditorEnters DEF EnterRetire, EditorMoves
    <2> QED
      BY <1>5, <2>2, <2>3, EnterKeeps DEF EnterRetire, Issued
  <1>6. CASE GiveUpEdit(e)
    BY <1>1, <1>6, EditorGone, IdleEditor, EnterKeeps DEF GiveUpEdit
  <1> QED
    BY <1>2, <1>3, <1>4, <1>5, <1>6

----------------------------------------------------------------------------
(* The writes. *)

(* A version's row changes: an issued one stays issued, its content stays    *)
(* unless requests crossed, and a published one comes with no request left   *)
(* that would change it.                                                     *)
LEMMA RewriteKeeps ==
  ASSUME VersionsInv, UNCHANGED <<isDefault, public, hadDefault, flagMoved, pins, crossed>>,
         contents' \in Nat,
         NEW v \in VersionIds, NEW s, NEW c, Rewrites(v, s, c),
         Issued(v) => s \in {"PUBLISHED", "RETIRED"} /\ (v \in crossed \/ c = text[v].content),
         s \in {"PUBLISHED", "RETIRED"} => Issued(v),
         retiredOnce' \subseteq retiredOnce \union {v},
         v \in retiredOnce' => v \in crossed \/ s = "RETIRED",
         editor' = editor \/ \E e \in Editors : Turns(e, EditorIdle)
  PROVE  VersionsInv'
  <1>1. \A w \in VersionIds : Issued(w)' <=> Issued(w)
    BY DEF Rewrites, Issued
  <1>2. \A e \in Editors : editor'[e] = editor[e] \/ editor'[e] = EditorIdle
    BY DEF Turns
  <1>3. VersionsTyped'
    BY DEF VersionsInv, VersionsTyped, Rewrites, Turns
  <1>4. \A e \in Editors : EditorSound(e)'
    <2> SUFFICES ASSUME NEW e \in Editors PROVE EditorSound(e)'
      OBVIOUS
    <2>1. CASE editor'[e] = editor[e]
      <3>1. EditorSound(e)
        BY DEF VersionsInv
      <3>2. editor[e].pc = "retire" => Issued(editor[e].version)'
        BY <1>1, <2>1, <3>1 DEF EditorSound
      <3> QED
        BY <2>1, <3>1, <3>2 DEF EditorSound, Issued
    <2>2. CASE editor'[e] = EditorIdle
      BY <2>2, IdleEditor DEF EditorSound
    <2> QED
      BY <1>2, <2>1, <2>2
  <1>5. \A w \in VersionIds : IssuedSound(w)'
    BY <1>1, <1>2, IdleEditor DEF VersionsInv, IssuedSound
  <1>6. \A p \in pins' : PinSound(p)'
    <2> SUFFICES ASSUME NEW p \in pins PROVE PinSound(p)'
      OBVIOUS
    <2>1. PinSound(p) /\ p.version \in VersionIds
      BY DEF VersionsInv, VersionsTyped, PinRecs
    <2>2. CASE p.version # v
      BY <1>1, <2>1, <2>2 DEF PinSound, Rewrites
    <2>3. CASE p.version = v
      BY <1>1, <2>1, <2>3 DEF PinSound, Rewrites
    <2> QED
      BY <2>2, <2>3
  <1>7. RetiredStands'
    BY DEF VersionsInv, VersionsTyped, RetiredStands, Rewrites
  <1>8. DefaultSound'
    BY DEF VersionsInv, DefaultSound
  <1> QED
    BY <1>3, <1>4, <1>5, <1>6, <1>7, <1>8 DEF VersionsInv

LEMMA RestsKeep ==
  ASSUME VersionsInv, UNCHANGED <<text, contents, flagVars, pins, historyVars>>,
         NEW e \in Editors, EditorRests(e)
  PROVE  VersionsInv'
  BY EditorGone, IdleEditor, EnterKeeps DEF VersionsInv

LEMMA CommitCreateKeeps == ASSUME VersionsInv, NEW e \in Editors, CommitCreate(e) PROVE VersionsInv'
  <1>1. PICK v \in VersionIds : v = editor[e].version
    BY DEF VersionsInv, EditorSound, CommitCreate, EditorAt
  <1>2. EditorRests(e) /\ UNCHANGED <<flagVars, pins, historyVars>>
    BY DEF CommitCreate
  <1>3. CASE text[v].status = "NONE" /\ contents' = contents + 1
             /\ text' = [text EXCEPT ![v] = [status |-> "DRAFT", content |-> contents + 1]]
    <2>1. contents' \in Nat /\ contents + 1 \in Nat
      BY <1>3 DEF VersionsInv, VersionsTyped
    <2>2. Rewrites(v, "DRAFT", contents + 1)
      BY <1>3, <2>1 DEF Rewrites, TextRecs, VersionsInv, VersionsTyped
    <2>3. Turns(e, EditorIdle)
      BY <1>2, EditorGone DEF VersionsInv
    <2>4. ~Issued(v) /\ (v \in retiredOnce => v \in crossed)
      BY <1>3 DEF Issued, VersionsInv, RetiredStands
    <2> QED
      BY <1>2, <2>1, <2>2, <2>3, <2>4, RewriteKeeps DEF flagVars, historyVars
  <1>4. CASE UNCHANGED <<text, contents>>
    BY <1>2, <1>4, RestsKeep
  <1> QED
    BY <1>1, <1>3, <1>4 DEF CommitCreate

LEMMA CommitUpdateKeeps == ASSUME VersionsInv, NEW e \in Editors, CommitUpdate(e) PROVE VersionsInv'
  <1>1. PICK v \in VersionIds : v = editor[e].version /\ editor[e].pc = "update"
    BY DEF VersionsInv, EditorSound, CommitUpdate, EditorAt
  <1>2. PICK n : n = contents + 1
    OBVIOUS
  <1>3. /\ n \in Nat /\ contents' = n /\ EditorRests(e) /\ UNCHANGED <<flagVars, pins, historyVars>>
        /\ text' = [text EXCEPT ![v].content = n]
    BY <1>1, <1>2 DEF CommitUpdate, VersionsInv, VersionsTyped
  <1>4. Rewrites(v, text[v].status, n)
    BY <1>3 DEF Rewrites, TextRecs, VersionsInv, VersionsTyped
  <1>5. Issued(v) => v \in crossed
    BY <1>1 DEF VersionsInv, IssuedSound
  <1>6. v \in retiredOnce => v \in crossed \/ text[v].status = "RETIRED"
    BY DEF VersionsInv, RetiredStands
  <1>7. Turns(e, EditorIdle)
    BY <1>3, EditorGone DEF VersionsInv
  <1> QED
    BY <1>3, <1>4, <1>5, <1>6, <1>7, RewriteKeeps DEF flagVars, historyVars, Issued

LEMMA RetireKeeps ==
  ASSUME VersionsInv, NEW v \in VersionIds, Issued(v),
         text' = [text EXCEPT ![v].status = "RETIRED"], retiredOnce' = retiredOnce \union {v},
         UNCHANGED <<contents, flagVars, pins, crossed>>,
         editor' = editor \/ \E e \in Editors : Turns(e, EditorIdle)
  PROVE  VersionsInv'
  <1>1. Rewrites(v, "RETIRED", text[v].content) /\ contents' \in Nat
    BY TextSet DEF VersionsInv, VersionsTyped
  <1> QED
    BY <1>1, RewriteKeeps DEF flagVars

LEMMA RetirementsKeep ==
  ASSUME VersionsInv, \/ \E e \in Editors : CommitRetire(e)
                      \/ \E v \in VersionIds : RetireDefinition(v)
  PROVE  VersionsInv'
  <1>1. ASSUME NEW e \in Editors, CommitRetire(e) PROVE VersionsInv'
    <2>1. PICK v \in VersionIds : v = editor[e].version /\ Issued(v)
      BY <1>1 DEF VersionsInv, EditorSound, CommitRetire, EditorAt
    <2>2. Turns(e, EditorIdle)
      BY <1>1, EditorGone DEF VersionsInv, CommitRetire
    <2> QED
      BY <1>1, <2>1, <2>2, RetireKeeps DEF CommitRetire
  <1>2. ASSUME NEW v \in VersionIds, RetireDefinition(v) PROVE VersionsInv'
    BY <1>2, RetireKeeps DEF RetireDefinition, Issued
  <1> QED
    BY <1>1, <1>2

(* The publication of a default leaves it the only published one.            *)
LEMMA MoveDefaultKeeps ==
  ASSUME VersionsInv, NEW e \in Editors, EditorAt(e, "publish"), MoveDefault(e)
  PROVE  /\ DefaultSound'
         /\ isDefault' \subseteq Definitions /\ public' \subseteq Definitions
         /\ hadDefault' \in BOOLEAN /\ flagMoved' \in BOOLEAN
  <1>1. PICK d : d = editor[e].version[1]
    OBVIOUS
  <1>2. /\ isDefault' = IF editor[e].flag THEN isDefault \intersect {d} ELSE isDefault
        /\ public' = IF d \in Definitions THEN public \union {d} ELSE public
        /\ hadDefault' = (hadDefault \/ editor[e].flag)
        /\ flagMoved' = (flagMoved \/ (d \in Definitions /\ editor[e].flag # (d \in isDefault)))
    BY <1>1 DEF MoveDefault
  <1>3. editor[e].flag \in BOOLEAN /\ (editor[e].flag => d \in Definitions)
    BY <1>1 DEF VersionsInv, VersionsTyped, EditorRecs, EditorSound, EditorAt
  <1>4. isDefault \subseteq Definitions /\ public \subseteq Definitions
        /\ hadDefault \in BOOLEAN /\ flagMoved \in BOOLEAN
    BY DEF VersionsInv, VersionsTyped
  <1>5. isDefault' \subseteq Definitions /\ public' \subseteq Definitions
    BY <1>2, <1>4
  <1>6. CASE editor[e].flag
    <2>1. hadDefault' = TRUE
      BY <1>2, <1>6
    <2>2. ~flagMoved' => d \in isDefault
      BY <1>2, <1>3, <1>6
    <2>3. d \in isDefault => isDefault' \intersect public' = {d}
      BY <1>2, <1>3, <1>6
    <2>4. flagMoved' \in BOOLEAN
      BY <1>2
    <2> QED
      BY <1>5, <2>1, <2>2, <2>3, <2>4 DEF DefaultSound
  <1>7. CASE ~editor[e].flag
    <2>1. (hadDefault' <=> hadDefault) /\ hadDefault' \in BOOLEAN /\ flagMoved' \in BOOLEAN
      BY <1>2, <1>4, <1>7
    <2>2. ~flagMoved' => ~flagMoved /\ (d \in Definitions => d \notin isDefault)
      BY <1>2, <1>3, <1>7
    <2>3. ~flagMoved' => isDefault' \intersect public' = isDefault \intersect public
      BY <1>2, <1>4, <1>7, <2>2
    <2>4. DefaultSound'
      BY <2>1, <2>2, <2>3 DEF DefaultSound, VersionsInv
    <2> QED
      BY <1>5, <2>1, <2>4
  <1> QED
    BY <1>3, <1>6, <1>7

LEMMA CommitPublishKeeps == ASSUME VersionsInv, NEW e \in Editors, CommitPublish(e) PROVE VersionsInv'
  <1>1. PICK v \in VersionIds : v = editor[e].version /\ editor[e].pc = "publish"
    BY DEF VersionsInv, EditorSound, CommitPublish, EditorAt
  <1>2. /\ text' = [text EXCEPT ![v].status = "PUBLISHED"]
        /\ MoveDefault(e) /\ EditorRests(e)
        /\ crossed' = IF \E f \in Editors \ {e} : editor[f].version = v /\ editor[f].pc \in {"update", "publish"}
                      THEN crossed \union {v} ELSE crossed
        /\ UNCHANGED <<contents, pins, retiredOnce>>
    BY <1>1 DEF CommitPublish, Publish
  <1>3. Rewrites(v, "PUBLISHED", text[v].content) /\ Turns(e, EditorIdle)
    BY <1>2, TextSet, EditorGone DEF VersionsInv
  <1>4. /\ DefaultSound'
        /\ isDefault' \subseteq Definitions /\ public' \subseteq Definitions
        /\ hadDefault' \in BOOLEAN /\ flagMoved' \in BOOLEAN
    BY <1>1, <1>2, MoveDefaultKeeps DEF EditorAt
  <1>5. crossed \subseteq crossed' /\ crossed' \subseteq VersionIds
    BY <1>2 DEF VersionsInv, VersionsTyped
  <1>6. Issued(v) => v \in crossed
    BY <1>1 DEF VersionsInv, IssuedSound
  <1>7. Issued(v)' /\ \A w \in VersionIds \ {v} : Issued(w)' <=> Issued(w)
    BY <1>3 DEF Rewrites, Issued
  <1>8. VersionsTyped'
    BY <1>2, <1>3, <1>4, <1>5 DEF VersionsInv, VersionsTyped, Rewrites, Turns
  <1>9. \A f \in Editors : EditorSound(f)'
    <2> SUFFICES ASSUME NEW f \in Editors PROVE EditorSound(f)'
      OBVIOUS
    <2>1. CASE f = e
      BY <1>3, <2>1, IdleEditor DEF EditorSound, Turns
    <2>2. CASE f # e
      <3>1. editor'[f] = editor[f] /\ EditorSound(f)
        BY <1>3, <2>2 DEF Turns, VersionsInv
      <3>2. editor[f].pc = "retire" => Issued(editor[f].version)'
        BY <1>7, <3>1 DEF EditorSound
      <3> QED
        BY <3>1, <3>2 DEF EditorSound, Issued
    <2> QED
      BY <2>1, <2>2
  <1>10. \A w \in VersionIds : IssuedSound(w)'
    <2> SUFFICES ASSUME NEW w \in VersionIds PROVE IssuedSound(w)'
      OBVIOUS
    <2>1. CASE w = v
      BY <1>2, <1>3, <2>1, IdleEditor DEF IssuedSound, Turns
    <2>2. CASE w # v
      <3>1. \A f \in Editors : editor'[f] = editor[f] \/ editor'[f].pc = "idle"
        BY <1>3, IdleEditor DEF Turns
      <3> QED
        BY <1>5, <1>7, <2>2, <3>1 DEF VersionsInv, IssuedSound
    <2> QED
      BY <2>1, <2>2
  <1>11. \A p \in pins' : PinSound(p)'
    <2> SUFFICES ASSUME NEW p \in pins PROVE PinSound(p)'
      BY <1>2
    <2>1. PinSound(p) /\ p.version \in VersionIds
      BY DEF VersionsInv, VersionsTyped, PinRecs
    <2>2. CASE p.version # v
      BY <1>3, <1>5, <1>7, <2>1, <2>2 DEF PinSound, Rewrites
    <2>3. CASE p.version = v
      BY <1>5, <1>6, <2>1, <2>3 DEF PinSound
    <2> QED
      BY <2>2, <2>3
  <1>12. RetiredStands'
    <2>1. \A w \in retiredOnce \ crossed : w \in VersionIds /\ text[w].status = "RETIRED" /\ w # v
      BY <1>6 DEF VersionsInv, VersionsTyped, RetiredStands, Issued
    <2> QED
      BY <1>2, <1>3, <1>5, <2>1 DEF RetiredStands, Rewrites
  <1> QED
    BY <1>4, <1>8, <1>9, <1>10, <1>11, <1>12 DEF VersionsInv

LEMMA FlagKeeps == ASSUME VersionsInv, NEW d \in Definitions, Flag(d) PROVE VersionsInv'
  <1>1. /\ d \notin public /\ isDefault' \in {isDefault \union {d}, isDefault \ {d}}
        /\ UNCHANGED <<text, contents, public, hadDefault, flagMoved, editor, pins, retiredOnce, crossed>>
    BY DEF Flag, historyVars
  <1>2. isDefault' \intersect public = isDefault \intersect public /\ isDefault' \subseteq Definitions
    BY <1>1 DEF VersionsInv, VersionsTyped
  <1>3. VersionsTyped'
    BY <1>1, <1>2 DEF VersionsInv, VersionsTyped
  <1>4. DefaultSound'
    BY <1>1, <1>2 DEF VersionsInv, DefaultSound
  <1> QED
    BY <1>1, <1>3, <1>4 DEF VersionsInv, EditorSound, IssuedSound, PinSound, Issued, RetiredStands

LEMMA PinKeeps == ASSUME VersionsInv, NEW v \in VersionIds, Pin(v) PROVE VersionsInv'
  <1>1. PICK p : p = [version |-> v, content |-> text[v].content]
    OBVIOUS
  <1>2. p \in PinRecs /\ p.version = v /\ p.content = text[v].content /\ Issued(v)
    BY <1>1 DEF PinRecs, VersionsInv, VersionsTyped, TextRecs, Pin, Issued
  <1>3. /\ pins' = pins \union {p}
        /\ UNCHANGED <<text, contents, isDefault, public, hadDefault, flagMoved, editor, retiredOnce, crossed>>
    BY <1>1 DEF Pin, flagVars, historyVars
  <1>4. VersionsTyped'
    BY <1>2, <1>3 DEF VersionsInv, VersionsTyped
  <1>5. \A q \in pins' : PinSound(q)'
    BY <1>2, <1>3 DEF VersionsInv, PinSound, Issued
  <1> QED
    BY <1>3, <1>4, <1>5 DEF VersionsInv, EditorSound, IssuedSound, Issued, RetiredStands, DefaultSound

----------------------------------------------------------------------------
LEMMA VersionsStep == ASSUME VersionsInv, [DefinitionsNext]_definitionVars PROVE VersionsInv'
  <1>1. ASSUME NEW e \in Editors, Editing(e) PROVE VersionsInv'
    BY <1>1, EntersKeep, CommitCreateKeeps, CommitUpdateKeeps, CommitPublishKeeps, RetirementsKeep
    DEF Editing
  <1>2. ASSUME NEW d \in Definitions, Flag(d) PROVE VersionsInv'
    BY <1>2, FlagKeeps
  <1>3. ASSUME NEW v \in VersionIds, RetireDefinition(v) \/ Pin(v) PROVE VersionsInv'
    BY <1>3, RetirementsKeep, PinKeeps
  <1>4. CASE UNCHANGED definitionVars
    <2>1. UNCHANGED <<text, contents, isDefault, public, hadDefault, flagMoved, editor, pins, retiredOnce,
                      crossed>>
      BY <1>4 DEF definitionVars, flagVars, historyVars
    <2>2. VersionsTyped'
      BY <2>1 DEF VersionsInv, VersionsTyped
    <2> QED
      BY <2>1, <2>2 DEF VersionsInv, EditorSound, IssuedSound, PinSound, Issued, RetiredStands, DefaultSound
  <1> QED
    BY <1>1, <1>2, <1>3, <1>4 DEF DefinitionsNext

LEMMA VersionsInitial == ASSUME DefinitionsInit PROVE VersionsInv
  <1>1. text \in [VersionIds -> TextRecs] /\ \A v \in VersionIds : ~Issued(v)
    BY DEF DefinitionsInit, TextRecs, Missing, Issued
  <1>2. editor \in [Editors -> EditorRecs] /\ \A e \in Editors : editor[e].pc = "idle"
    BY IdleEditor DEF DefinitionsInit
  <1>3. VersionsTyped
    BY <1>1, <1>2 DEF DefinitionsInit, VersionsTyped
  <1>4. \A v \in VersionIds : IssuedSound(v)
    BY <1>1 DEF IssuedSound
  <1>5. DefaultSound
    BY DEF DefinitionsInit, DefaultSound
  <1> QED
    BY <1>2, <1>3, <1>4, <1>5 DEF DefinitionsInit, VersionsInv, EditorSound, RetiredStands

(* What every reachable state of the versions has.                           *)
THEOREM VersionsInvariant == DefinitionsSpec => []VersionsInv
  <1>1. DefinitionsInit => VersionsInv
    BY VersionsInitial
  <1>2. VersionsInv /\ [DefinitionsNext]_definitionVars => VersionsInv'
    BY VersionsStep
  <1> QED
    BY <1>1, <1>2, PTL DEF DefinitionsSpec

(* What was started under a version finds the content it was started with, a *)
(* retired version stays retired and the tenant has one published default,   *)
(* as long as no two requests crossed on the version or the flag.            *)
THEOREM PublishedStands == DefinitionsSpec => []GovernanceStands
  <1>1. VersionsInv => GovernanceStands
    <2> SUFFICES ASSUME VersionsInv PROVE GovernanceStands
      OBVIOUS
    <2>1. DefaultStands
      <3>1. \A d : Cardinality({d}) = 1
        BY FS_Singleton
      <3>2. Cardinality({}) = 0
        BY FS_EmptySet
      <3> QED
        BY <3>1, <3>2 DEF VersionsInv, DefaultSound, DefaultStands
    <2>2. PinnedStands /\ RetiredStands
      BY DEF VersionsInv, PinSound, PinnedStands
    <2> QED
      BY <2>1, <2>2 DEF GovernanceStands
  <1> QED
    BY <1>1, VersionsInvariant, PTL

----------------------------------------------------------------------------
(* The events of an asset and the case that shows it. *)

\* Types; a flush at work has a row, and one that marks a row has sent it.
RelayTyped ==
    /\ carried \in [AssetEvents -> Versions \union {NoVersion}]
    /\ appended \in 0..MaxAppended
    /\ published \subseteq 1..appended /\ waiting \subseteq 1..appended
    /\ flush \in [Flushes -> [pc : {"idle", "send", "mark"}, left : SUBSET (1..appended)]]
    /\ \A f \in Flushes : flush[f].pc # "idle" => flush[f].left # {}
    /\ partition \in Seq(1..appended)
    /\ offset \in 0..Len(partition) /\ safe \in 0..offset
    /\ seen \subseteq AssetEvents
    /\ shown \in [event : 0..MaxAppended, version : Versions \union {NoVersion}]

Carried(e) == \E i \in 1..Len(partition) : partition[i] = e

\* What counts as sent is in the partition.
RelaySound ==
    /\ \A e \in published : Carried(e)
    /\ \A f \in Flushes : flush[f].pc = "mark" => Carried(NextRow(f))

\* An event came behind a later one among the first h messages.
OvertakenWithin(h) ==
    \E j \in 1..h : /\ \A i \in 1..(j - 1) : partition[i] # partition[j]
                    /\ \E i \in 1..(j - 1) : partition[i] > partition[j]

\* The case shows the last of the events S, and the version that the last of them with
\* a version carried.
ShowsLatest(S) ==
    /\ \A e \in S : e <= shown.event
    /\ shown.event \in S \union {0}
    /\ \/ shown.version = NoVersion /\ \A e \in S : carried[e] = NoVersion
       \/ \E e \in S : /\ carried[e] # NoVersion /\ shown.version = carried[e]
                       /\ \A d \in S : carried[d] # NoVersion => d <= e

\* The first h messages, and no others, have been read at least once.
ReadTo(h) ==
    /\ offset <= h /\ seen = {partition[i] : i \in 1..h}
    /\ OvertakenWithin(h) \/ ShowsLatest(seen)

ViewSound ==
    /\ \E h \in 0..Len(partition) : ReadTo(h)
    /\ timeline = [e \in AssetEvents |-> IF e \in seen THEN 1 ELSE 0]

ProjectionInv == RelayTyped /\ RelaySound /\ ViewSound

----------------------------------------------------------------------------
(* Flushes. *)

LessThan == {p \in Nat \X Nat : p[1] < p[2]}

LEMMA LeastIn ==
  ASSUME NEW S \in SUBSET Nat, S # {}
  PROVE  \E e \in S : \A d \in S : e <= d
  <1>1. IsWellFoundedOn(LessThan, Nat)
    BY NatLessThanWellFounded DEF OpToRel, LessThan
  <1>2. PICK e \in S : \A d \in S : ~ (<<d, e>> \in LessThan)
    BY <1>1, WFMin
  <1>3. ASSUME NEW d \in S PROVE e <= d
    <2>1. d \in Nat /\ e \in Nat /\ ~ (d < e)
      BY <1>2 DEF LessThan
    <2> QED
      BY <2>1
  <1> QED
    BY <1>3

\* A flush sends rows that are in the outbox.
LEMMA NextRowIn ==
  ASSUME RelayTyped, NEW f \in Flushes, flush[f].pc # "idle"
  PROVE  NextRow(f) \in flush[f].left /\ NextRow(f) \in 1..appended
  <1>1. flush[f].left \subseteq 1..appended /\ flush[f].left # {} /\ appended \in Nat
    BY ProjectionAssumption DEF RelayTyped, ProjectionAssumption
  <1>2. flush[f].left \in SUBSET Nat
    BY <1>1
  <1>3. \E e \in flush[f].left : \A d \in flush[f].left : e <= d
    BY <1>1, <1>2, LeastIn
  <1> QED
    BY <1>1, <1>3 DEF NextRow

FlushStates == [pc : {"idle", "send", "mark"}, left : SUBSET (1..appended)]

\* The row a flush is at depends on what it has left alone.
LEMMA NextRowStays ==
  ASSUME NEW f, flush'[f].left = flush[f].left
  PROVE  NextRow(f)' = NextRow(f)
  BY DEF NextRow

LEMMA FlushPassesEffect ==
  ASSUME RelayTyped, NEW f \in Flushes, FlushPasses(f), UNCHANGED appended
  PROVE  /\ flush' \in [Flushes -> FlushStates]
         /\ flush'[f].pc \in {"idle", "send"}
         /\ flush'[f].pc # "idle" => flush'[f].left # {}
         /\ \A g \in Flushes \ {f} : flush'[g] = flush[g]
  <1>1. PICK S : S = flush[f].left \ {NextRow(f)}
    OBVIOUS
  <1>2. PICK v : v = IF S = {} THEN FlushIdle ELSE [pc |-> "send", left |-> S]
    OBVIOUS
  <1>3. flush \in [Flushes -> FlushStates] /\ flush[f] \in FlushStates
    BY DEF RelayTyped, FlushStates
  <1>4. v \in FlushStates /\ v.pc \in {"idle", "send"} /\ (v.pc # "idle" => v.left # {})
    BY <1>1, <1>2, <1>3 DEF FlushStates, FlushIdle
  <1>5. flush' = [flush EXCEPT ![f] = v]
    BY <1>1, <1>2 DEF FlushPasses
  <1> QED
    BY <1>3, <1>4, <1>5

\* A step of a flush that leaves the partition alone, or sends the row it is at.
LEMMA RelayKeeps ==
  ASSUME RelayTyped, RelaySound, NEW f \in Flushes, flush' \in [Flushes -> FlushStates],
         \A g \in Flushes \ {f} : flush'[g] = flush[g],
         flush'[f].pc # "idle" => flush'[f].left # {},
         UNCHANGED <<carried, appended, offset, safe, seen, shown>>,
         published' \subseteq 1..appended, waiting' \subseteq 1..appended,
         partition' \in Seq(1..appended), Len(partition) <= Len(partition'),
         \A i \in 1..Len(partition) : partition'[i] = partition[i],
         \A e \in published' : e \in published \/ Carried(e)',
         flush'[f].pc = "mark" => Carried(NextRow(f))'
  PROVE  RelayTyped' /\ RelaySound'
  <1>0. Len(partition) \in Nat /\ Len(partition') \in Nat
    BY LenProperties DEF RelayTyped
  <1>1. RelayTyped'
    <2>1. \A g \in Flushes : flush'[g].pc # "idle" => flush'[g].left # {}
      BY DEF RelayTyped
    <2>2. offset' \in 0..Len(partition')
      BY <1>0 DEF RelayTyped
    <2> QED
      BY <2>1, <2>2 DEF RelayTyped, FlushStates
  <1>2. \A e : Carried(e) => Carried(e)'
    BY <1>0 DEF Carried
  <1>3. \A e \in published' : Carried(e)'
    BY <1>2 DEF RelaySound
  <1>4. ASSUME NEW g \in Flushes, flush'[g].pc = "mark" PROVE Carried(NextRow(g))'
    <2>1. CASE g = f
      BY <1>4, <2>1
    <2>2. CASE g # f
      <3>1. Carried(NextRow(g)) /\ NextRow(g)' = NextRow(g)
        BY <1>4, <2>2, NextRowStays DEF RelaySound
      <3>2. PICK e : e = NextRow(g)
        OBVIOUS
      <3>3. Carried(e)'
        BY <1>2, <3>1, <3>2
      <3> QED
        BY <3>1, <3>2, <3>3 DEF Carried
    <2> QED
      BY <2>1, <2>2
  <1> QED
    BY <1>1, <1>3, <1>4 DEF RelaySound

\* What was read stays read when the partition grows or is read again.
LEMMA ViewKeeps ==
  ASSUME RelayTyped, ViewSound, partition' \in Seq(1..appended), Len(partition) <= Len(partition'),
         \A i \in 1..Len(partition) : partition'[i] = partition[i],
         UNCHANGED <<carried, view>>, offset' \in Nat, offset' <= offset
  PROVE  ViewSound'
  <1>0. Len(partition) \in Nat /\ Len(partition') \in Nat /\ offset \in Nat
    BY LenProperties DEF RelayTyped
  <1>1. PICK h \in 0..Len(partition) : ReadTo(h)
    BY DEF ViewSound
  <1>2. h \in 0..Len(partition') /\ offset' <= h
    BY <1>0, <1>1 DEF ReadTo
  <1>3. \A i \in 1..h : i \in 1..Len(partition) /\ partition'[i] = partition[i]
    BY <1>0
  <1>4. {partition'[i] : i \in 1..h} = {partition[i] : i \in 1..h}
    BY <1>3
  <1>5. OvertakenWithin(h) => OvertakenWithin(h)'
    <2>1. \A j \in 1..h : \A i \in 1..(j - 1) : i \in 1..h
      BY <1>0
    <2> QED
      BY <1>3, <2>1 DEF OvertakenWithin
  <1>6. seen' = seen /\ timeline' = timeline /\ shown' = shown /\ carried' = carried
    BY DEF view
  <1>7. ShowsLatest(seen) => ShowsLatest(seen)'
    BY <1>6 DEF ShowsLatest
  <1>8. ReadTo(h)'
    BY <1>1, <1>2, <1>4, <1>5, <1>6, <1>7 DEF ReadTo
  <1> QED
    BY <1>2, <1>6, <1>8 DEF ViewSound

LEMMA SendRowSafe ==
  ASSUME ProjectionInv, NEW f \in Flushes, SendRow(f)
  PROVE  ProjectionInv'
  <1> USE DEF view
  <1>1. RelayTyped /\ RelaySound /\ ViewSound
    BY DEF ProjectionInv
  <1>2. PICK e : e = NextRow(f)
    OBVIOUS
  <1>3. e \in 1..appended /\ flush[f].left # {}
    BY <1>1, <1>2, NextRowIn DEF SendRow, RelayTyped
  <1>4. /\ partition \in Seq(1..appended) /\ Len(partition) \in Nat
        /\ offset \in 0..Len(partition)
    BY <1>1, LenProperties DEF RelayTyped
  <1>5. /\ partition' \in Seq(1..appended) /\ Len(partition') = Len(partition) + 1
        /\ partition'[Len(partition) + 1] = e
        /\ \A i \in 1..Len(partition) : partition'[i] = partition[i]
    BY <1>2, <1>3, <1>4, AppendProperties DEF SendRow
  <1>6. /\ flush' \in [Flushes -> FlushStates]
        /\ flush'[f].pc = "mark" /\ flush'[f].left = flush[f].left
        /\ \A g \in Flushes \ {f} : flush'[g] = flush[g]
    <2>1. flush \in [Flushes -> FlushStates] /\ flush' = [flush EXCEPT ![f].pc = "mark"]
      BY <1>1 DEF RelayTyped, FlushStates, SendRow
    <2> QED
      BY <2>1 DEF FlushStates
  <1>7. Carried(NextRow(f))'
    <2>1. NextRow(f)' = e
      BY <1>2, <1>6, NextRowStays
    <2>2. Len(partition) + 1 \in 1..Len(partition')
      BY <1>4, <1>5
    <2> QED
      BY <1>5, <2>1, <2>2 DEF Carried
  <1>8. /\ published' \subseteq 1..appended /\ waiting' \subseteq 1..appended
        /\ UNCHANGED <<carried, appended, published, offset, safe, seen, shown, timeline>>
    BY <1>1 DEF RelayTyped, SendRow
  <1>9. Len(partition) <= Len(partition') /\ offset' \in Nat /\ offset' <= offset
    BY <1>4, <1>5, <1>8
  <1>10. RelayTyped' /\ RelaySound'
    BY <1>1, <1>3, <1>5, <1>6, <1>7, <1>8, <1>9, RelayKeeps
  <1>11. ViewSound'
    BY <1>1, <1>5, <1>8, <1>9, ViewKeeps
  <1> QED
    BY <1>10, <1>11 DEF ProjectionInv

\* The other steps of a flush leave the partition alone.
LEMMA FlushSafe ==
  ASSUME ProjectionInv, NEW f \in Flushes, StartFlush(f) \/ MarkRow(f) \/ RowFails(f)
  PROVE  ProjectionInv'
  <1> USE DEF view
  <1>1. RelayTyped /\ RelaySound /\ ViewSound
    BY DEF ProjectionInv
  <1>2. /\ partition \in Seq(1..appended) /\ Len(partition) \in Nat
        /\ offset \in 0..Len(partition) /\ published \subseteq 1..appended
        /\ waiting \subseteq 1..appended /\ flush \in [Flushes -> FlushStates]
    BY <1>1, LenProperties DEF RelayTyped, FlushStates
  <1>3. UNCHANGED <<carried, appended, partition, offset, safe, seen, shown, timeline>>
    BY DEF StartFlush, MarkRow, RowFails
  <1>4. Len(partition) <= Len(partition') /\ offset' \in Nat /\ offset' <= offset
    BY <1>2, <1>3
  <1>5. ViewSound'
    BY <1>1, <1>2, <1>3, <1>4, ViewKeeps
  <1>6. CASE StartFlush(f)
    <2>1. PICK v : v = [pc |-> "send", left |-> Due]
      OBVIOUS
    <2>2. v \in FlushStates /\ v.pc = "send" /\ v.left # {}
      BY <1>6, <2>1 DEF FlushStates, StartFlush, Due
    <2>3. flush' = [flush EXCEPT ![f] = v]
      BY <1>6, <2>1 DEF StartFlush
    <2>4. /\ flush' \in [Flushes -> FlushStates] /\ flush'[f] = v
          /\ \A g \in Flushes \ {f} : flush'[g] = flush[g]
      BY <1>2, <2>2, <2>3
    <2>5. published' = published /\ waiting' = waiting
      BY <1>6 DEF StartFlush
    <2>6. RelayTyped' /\ RelaySound'
      BY <1>1, <1>2, <1>3, <1>4, <2>2, <2>4, <2>5, RelayKeeps
    <2> QED
      BY <1>5, <2>6 DEF ProjectionInv
  <1>7. CASE MarkRow(f) \/ RowFails(f)
    <2>1. flush[f].pc # "idle" /\ FlushPasses(f)
      BY <1>7 DEF MarkRow, RowFails
    <2>2. /\ flush' \in [Flushes -> FlushStates] /\ flush'[f].pc \in {"idle", "send"}
          /\ flush'[f].pc # "idle" => flush'[f].left # {}
          /\ \A g \in Flushes \ {f} : flush'[g] = flush[g]
      BY <1>1, <1>3, <2>1, FlushPassesEffect
    <2>3. NextRow(f) \in 1..appended
      BY <1>1, <2>1, NextRowIn
    <2>4. published' \subseteq 1..appended /\ waiting' \subseteq 1..appended
      BY <1>2, <1>7, <2>3 DEF MarkRow, RowFails
    <2>5. \A e \in published' : e \in published \/ Carried(e)'
      <3>1. CASE MarkRow(f)
        <4>1. PICK r : r = NextRow(f)
          OBVIOUS
        <4>2. Carried(r)
          BY <1>1, <3>1, <4>1 DEF RelaySound, MarkRow
        <4>3. Carried(r)'
          BY <1>3, <4>2 DEF Carried
        <4> QED
          BY <3>1, <4>1, <4>3 DEF MarkRow
      <3>2. CASE RowFails(f)
        BY <3>2 DEF RowFails
      <3> QED
        BY <1>7, <3>1, <3>2
    <2>6. RelayTyped' /\ RelaySound'
      BY <1>1, <1>2, <1>3, <1>4, <2>2, <2>4, <2>5, RelayKeeps
    <2> QED
      BY <1>5, <2>6 DEF ProjectionInv
  <1> QED
    BY <1>6, <1>7

\* A new row in the outbox, and a row whose time has come again.
LEMMA OutboxSafe ==
  ASSUME ProjectionInv, AppendEvent \/ \E e \in AssetEvents : RowComesDue(e)
  PROVE  ProjectionInv'
  <1> USE DEF view
  <1>1. RelayTyped /\ RelaySound /\ ViewSound
    BY DEF ProjectionInv
  <1>2. /\ appended \in Nat /\ appended' \in Nat /\ appended <= appended' /\ appended' \in 0..MaxAppended
        /\ 1..appended \subseteq 1..appended'
    BY <1>1, ProjectionAssumption DEF RelayTyped, ProjectionAssumption, AppendEvent, RowComesDue
  <1>3. /\ UNCHANGED <<carried, published, flush, partition, offset, safe, seen, shown, timeline>>
        /\ waiting' \subseteq waiting
    BY DEF AppendEvent, RowComesDue
  <1>4. partition \in Seq(1..appended) /\ Len(partition) \in Nat /\ offset \in 0..Len(partition)
    BY <1>1, LenProperties DEF RelayTyped
  <1>5. partition' \in Seq(1..appended')
    BY <1>2, <1>3, <1>4, SeqMonotonic
  <1>6. flush' \in [Flushes -> [pc : {"idle", "send", "mark"}, left : SUBSET (1..appended')]]
    BY <1>1, <1>2, <1>3 DEF RelayTyped
  <1>7. RelayTyped'
    BY <1>1, <1>2, <1>3, <1>5, <1>6 DEF RelayTyped
  <1>8. RelaySound'
    BY <1>1, <1>3 DEF RelaySound, Carried, NextRow
  <1>9. ViewSound'
    <2>1. offset' \in Nat /\ offset' <= offset /\ Len(partition) <= Len(partition')
          /\ partition' \in Seq(1..appended)
      BY <1>3, <1>4
    <2> QED
      BY <1>1, <1>3, <2>1, ViewKeeps
  <1> QED
    BY <1>7, <1>8, <1>9 DEF ProjectionInv

----------------------------------------------------------------------------
(* The consumer. *)

\* A message read for the first time: it is the next after all that were read, and if
\* none was overtaken it is the last of them.
LEMMA NewEvent ==
  ASSUME ProjectionInv, offset < Len(partition), NEW e, e = partition[offset + 1], e \notin seen
  PROVE  /\ seen = {partition[i] : i \in 1..offset}
         /\ OvertakenWithin(offset) \/ ShowsLatest(seen)
         /\ OvertakenWithin(offset + 1) \/ \A d \in seen : d <= e
         /\ OvertakenWithin(offset) => OvertakenWithin(offset + 1)
  <1>0. /\ partition \in Seq(1..appended) /\ Len(partition) \in Nat /\ offset \in Nat
        /\ \A i \in 1..Len(partition) : partition[i] \in 1..appended
    BY LenProperties, ElementOfSeq DEF ProjectionInv, RelayTyped
  <1>1. PICK h \in 0..Len(partition) : ReadTo(h)
    BY DEF ProjectionInv, ViewSound
  <1>2. h = offset
    <2>1. offset + 1 \notin 1..h
      BY <1>1 DEF ReadTo
    <2> QED
      BY <1>0, <1>1, <2>1 DEF ReadTo
  <1>3. seen = {partition[i] : i \in 1..offset} /\ (OvertakenWithin(offset) \/ ShowsLatest(seen))
    BY <1>1, <1>2 DEF ReadTo
  <1>4. ASSUME NEW d \in seen, ~(d <= e) PROVE OvertakenWithin(offset + 1)
    <2>1. PICK k \in 1..offset : d = partition[k]
      BY <1>3
    <2>2. d \in Nat /\ e \in Nat
      BY <1>0, <2>1
    <2>3. offset + 1 \in 1..(offset + 1) /\ (offset + 1) - 1 = offset
      BY <1>0
    <2>4. partition[k] > partition[offset + 1]
      BY <1>4, <2>1, <2>2
    <2>5. \A i \in 1..offset : partition[i] # partition[offset + 1]
      BY <1>3
    <2> QED
      BY <2>1, <2>3, <2>4, <2>5 DEF OvertakenWithin
  <1>5. OvertakenWithin(offset) => OvertakenWithin(offset + 1)
    <2>1. \A j \in 1..offset : j \in 1..(offset + 1)
      BY <1>0
    <2> QED
      BY <2>1 DEF OvertakenWithin
  <1> QED
    BY <1>3, <1>4, <1>5

\* Its projection shows the latest again.
LEMMA ProjectedLatest ==
  ASSUME RelayTyped, ShowsLatest(seen), NEW e \in AssetEvents, \A d \in seen : d <= e,
         seen' = seen \union {e}, UNCHANGED carried,
         shown' = [event |-> e, version |-> IF carried[e] = NoVersion THEN shown.version ELSE carried[e]]
  PROVE  ShowsLatest(seen)'
  <1>0. seen \subseteq Nat /\ e \in Nat /\ AssetEvents \subseteq Nat
    BY ProjectionAssumption DEF RelayTyped, AssetEvents, ProjectionAssumption
  <1>1. shown'.event = e /\ e \in seen' /\ \A d \in seen' : d <= e
    BY <1>0
  <1>2. CASE carried[e] = NoVersion
    <2>1. shown'.version = shown.version
      BY <1>2
    <2>2. CASE shown.version = NoVersion /\ \A d \in seen : carried[d] = NoVersion
      BY <1>1, <1>2, <2>1, <2>2 DEF ShowsLatest
    <2>3. CASE \E b \in seen : /\ carried[b] # NoVersion /\ shown.version = carried[b]
                               /\ \A d \in seen : carried[d] # NoVersion => d <= b
      BY <1>1, <1>2, <2>1, <2>3 DEF ShowsLatest
    <2> QED
      BY <2>2, <2>3 DEF ShowsLatest
  <1>3. CASE carried[e] # NoVersion
    <2>1. shown'.version = carried[e]
      BY <1>3
    <2> QED
      BY <1>1, <1>3, <2>1 DEF ShowsLatest
  <1> QED
    BY <1>2, <1>3

LEMMA ConsumeSafe ==
  ASSUME ProjectionInv, ConsumeEvent
  PROVE  ProjectionInv'
  <1> USE DEF relay, view
  <1>1. RelayTyped /\ RelaySound /\ ViewSound
    BY DEF ProjectionInv
  <1>2. /\ partition \in Seq(1..appended) /\ Len(partition) \in Nat /\ offset \in Nat
        /\ \A i \in 1..Len(partition) : partition[i] \in 1..appended
        /\ safe \in 0..offset /\ appended \in 0..MaxAppended /\ MaxAppended \in Nat
    BY <1>1, LenProperties, ElementOfSeq, ProjectionAssumption DEF RelayTyped, ProjectionAssumption
  <1>3. /\ offset < Len(partition) /\ offset' = offset + 1 /\ offset' \in 1..Len(partition)
        /\ UNCHANGED <<carried, appended, published, waiting, flush, partition, safe>>
    BY <1>2 DEF ConsumeEvent
  <1>4. PICK e : e = partition[offset + 1]
    OBVIOUS
  <1>5. e \in 1..appended /\ e \in AssetEvents /\ e \in 1..MaxAppended
    BY <1>2, <1>3, <1>4 DEF AssetEvents
  <1>6. RelaySound'
    BY <1>1, <1>3 DEF RelaySound, Carried, NextRow
  <1>7. CASE e \in seen
    <2>1. seen' = seen /\ shown' = shown /\ timeline' = timeline
      BY <1>4, <1>7 DEF ConsumeEvent, Project
    <2>2. RelayTyped'
      BY <1>1, <1>2, <1>3, <2>1 DEF RelayTyped
    <2>3. PICK h \in 0..Len(partition) : ReadTo(h)
      BY <1>1 DEF ViewSound
    <2>4. \E k \in 0..Len(partition) : ReadTo(k)'
      <3>1. CASE offset + 1 <= h
        <4>1. ReadTo(h)'
          BY <1>3, <2>1, <2>3, <3>1 DEF ReadTo, OvertakenWithin, ShowsLatest
        <4> QED
          BY <4>1
      <3>2. CASE ~(offset + 1 <= h)
        <4>1. h = offset
          BY <1>2, <2>3, <3>2 DEF ReadTo
        <4>2. {partition[i] : i \in 1..(offset + 1)} = {partition[i] : i \in 1..offset} \union {e}
          <5>1. 1..(offset + 1) = (1..offset) \union {offset + 1}
            BY <1>2
          <5> QED
            BY <1>4, <5>1
        <4>3. seen = {partition[i] : i \in 1..(offset + 1)}
          BY <1>7, <2>3, <4>1, <4>2 DEF ReadTo
        <4>4. OvertakenWithin(offset) => OvertakenWithin(offset + 1)
          <5>1. \A j \in 1..offset : j \in 1..(offset + 1)
            BY <1>2
          <5> QED
            BY <5>1 DEF OvertakenWithin
        <4>5. PICK k : k = offset + 1
          OBVIOUS
        <4>6. OvertakenWithin(k) \/ ShowsLatest(seen)
          BY <2>3, <4>1, <4>4, <4>5 DEF ReadTo
        <4>7. ReadTo(k)'
          BY <1>3, <2>1, <4>3, <4>5, <4>6, <1>2 DEF ReadTo, OvertakenWithin, ShowsLatest
        <4> QED
          BY <1>3, <4>5, <4>7
      <3> QED
        BY <3>1, <3>2
    <2>5. ViewSound'
      BY <1>1, <1>3, <2>1, <2>4 DEF ViewSound
    <2> QED
      BY <1>6, <2>2, <2>5 DEF ProjectionInv
  <1>8. CASE e \notin seen
    <2>1. /\ seen' = seen \union {e}
          /\ shown' = [event |-> e, version |-> IF carried[e] = NoVersion THEN shown.version ELSE carried[e]]
          /\ timeline' = [timeline EXCEPT ![e] = @ + 1]
      BY <1>4, <1>8 DEF ConsumeEvent, Project
    <2>2. RelayTyped'
      <3>1. shown' \in [event : 0..MaxAppended, version : Versions \union {NoVersion}]
        BY <1>1, <1>2, <1>5, <2>1 DEF RelayTyped
      <3> QED
        BY <1>1, <1>2, <1>3, <1>5, <2>1, <3>1 DEF RelayTyped
    <2>3. /\ seen = {partition[i] : i \in 1..offset}
          /\ OvertakenWithin(offset) \/ ShowsLatest(seen)
          /\ OvertakenWithin(offset + 1) \/ \A d \in seen : d <= e
          /\ OvertakenWithin(offset) => OvertakenWithin(offset + 1)
      BY <1>3, <1>4, <1>8, NewEvent
    <2>4. PICK k : k = offset + 1
      OBVIOUS
    <2>5. k \in 0..Len(partition) /\ offset' = k
      BY <1>2, <1>3, <2>4
    <2>6. seen' = {partition'[i] : i \in 1..k}
      <3>1. 1..k = (1..offset) \union {offset + 1}
        BY <1>2, <2>4
      <3> QED
        BY <1>3, <1>4, <2>1, <2>3, <3>1
    <2>7. OvertakenWithin(k)' \/ ShowsLatest(seen)'
      <3>1. CASE OvertakenWithin(k)
        BY <1>3, <3>1 DEF OvertakenWithin
      <3>2. CASE ~OvertakenWithin(k)
        <4>1. ShowsLatest(seen) /\ \A d \in seen : d <= e
          BY <2>3, <2>4, <3>2
        <4> QED
          BY <1>1, <1>3, <1>5, <2>1, <4>1, ProjectedLatest
      <3> QED
        BY <3>1, <3>2
    <2>8. ReadTo(k)'
      BY <1>2, <2>5, <2>6, <2>7, <2>4 DEF ReadTo
    <2>9. timeline' = [d \in AssetEvents |-> IF d \in seen' THEN 1 ELSE 0]
      <3>1. timeline = [d \in AssetEvents |-> IF d \in seen THEN 1 ELSE 0]
        BY <1>1 DEF ViewSound
      <3>2. timeline' = [timeline EXCEPT ![e] = 1]
        BY <1>5, <1>8, <2>1, <3>1
      <3> QED
        BY <1>5, <2>1, <3>1, <3>2
    <2>10. ViewSound'
      BY <1>3, <2>5, <2>8, <2>9 DEF ViewSound
    <2> QED
      BY <1>6, <2>2, <2>10 DEF ProjectionInv
  <1> QED
    BY <1>7, <1>8

\* Offsets are committed, and read again from there.
LEMMA OffsetSafe ==
  ASSUME ProjectionInv, CommitRead \/ ReadAgain
  PROVE  ProjectionInv'
  <1> USE DEF relay, view
  <1>1. RelayTyped /\ RelaySound /\ ViewSound
    BY DEF ProjectionInv
  <1>2. /\ partition \in Seq(1..appended) /\ Len(partition) \in Nat
        /\ offset \in 0..Len(partition) /\ safe \in 0..offset
    BY <1>1, LenProperties DEF RelayTyped
  <1>3. /\ UNCHANGED <<carried, appended, published, waiting, flush, partition, seen, shown, timeline>>
        /\ offset' \in Nat /\ offset' <= offset /\ safe' \in 0..offset'
    BY <1>2 DEF CommitRead, ReadAgain
  <1>4. RelayTyped' /\ RelaySound'
    BY <1>1, <1>2, <1>3 DEF RelayTyped, RelaySound, Carried, NextRow
  <1>5. Len(partition) <= Len(partition')
    BY <1>2, <1>3
  <1>6. ViewSound'
    BY <1>1, <1>2, <1>3, <1>5, ViewKeeps
  <1> QED
    BY <1>4, <1>6 DEF ProjectionInv

LEMMA ProjectionStep ==
  ASSUME ProjectionInv, [ProjectionNext]_projectionVars
  PROVE  ProjectionInv'
  <1>1. CASE UNCHANGED projectionVars
    <2> USE DEF projectionVars, relay, view
    <2>1. RelayTyped' /\ RelaySound'
      BY <1>1 DEF ProjectionInv, RelayTyped, RelaySound, Carried, NextRow
    <2>2. /\ Len(partition) \in Nat /\ offset \in 0..Len(partition)
          /\ partition \in Seq(1..appended)
      BY LenProperties DEF ProjectionInv, RelayTyped
    <2>3. offset' \in Nat /\ offset' <= offset /\ Len(partition) <= Len(partition')
      BY <1>1, <2>2
    <2>4. ViewSound'
      BY <1>1, <2>2, <2>3, ViewKeeps DEF ProjectionInv
    <2> QED
      BY <2>1, <2>4 DEF ProjectionInv
  <1> QED
    BY <1>1, SendRowSafe, FlushSafe, OutboxSafe, ConsumeSafe, OffsetSafe DEF ProjectionNext

\* What holds of the events of an asset, whatever the flushes, failures and readings.
THEOREM ProjectionInvariant == ProjectionSpec => []ProjectionInv
  <1>1. ProjectionInit => ProjectionInv
    <2> SUFFICES ASSUME ProjectionInit PROVE ProjectionInv
      OBVIOUS
    <2> USE DEF ProjectionInit
    <2>1. RelayTyped
      <3>1. FlushIdle \in [pc : {"idle", "send", "mark"}, left : SUBSET (1..appended)]
            /\ FlushIdle.pc = "idle"
        BY DEF FlushIdle
      <3>2. partition \in Seq(1..appended) /\ Len(partition) = 0
        BY EmptySeq
      <3> QED
        BY <3>1, <3>2, ProjectionAssumption DEF RelayTyped, ProjectionAssumption
    <2>2. RelaySound
      BY DEF RelaySound, FlushIdle
    <2>3. ReadTo(0)
      BY DEF ReadTo, ShowsLatest
    <2>4. ViewSound
      <3>1. Len(partition) = 0 /\ 0 \in 0..0
        BY EmptySeq
      <3> QED
        BY <2>3, <3>1 DEF ViewSound
    <2> QED
      BY <2>1, <2>2, <2>4 DEF ProjectionInv
  <1>2. ProjectionInv /\ [ProjectionNext]_projectionVars => ProjectionInv'
    BY ProjectionStep
  <1> QED
    BY <1>1, <1>2, PTL DEF ProjectionSpec

\* Once everything is published and read the case shows the last event and the last
\* version, and its timeline each event once, unless an event was overtaken: the
\* consumer's inbox row, its projection and its timeline row are one transaction, and
\* a flush marks a row only after it was sent.
THEOREM ProjectionSettles == ProjectionSpec => []SettledIsLatest
  <1>1. ProjectionInv => SettledIsLatest
    <2> SUFFICES ASSUME ProjectionInv, published = 1..appended, offset = Len(partition)
                 PROVE  /\ \A e \in 1..appended : timeline[e] = 1
                        /\ Overtaken \/ /\ shown.event = appended
                                        /\ shown.version = IF Carriers = {} THEN NoVersion
                                              ELSE carried[CHOOSE e \in Carriers : \A d \in Carriers : d <= e]
      BY DEF SettledIsLatest
    <2>1. /\ partition \in Seq(1..appended) /\ Len(partition) \in Nat
          /\ DOMAIN partition = 1..Len(partition)
          /\ \A i \in 1..Len(partition) : partition[i] \in 1..appended
          /\ appended \in 0..MaxAppended /\ MaxAppended \in Nat
      BY LenProperties, ElementOfSeq, ProjectionAssumption
      DEF ProjectionInv, RelayTyped, ProjectionAssumption
    <2>2. PICK h \in 0..Len(partition) : ReadTo(h)
      BY DEF ProjectionInv, ViewSound
    <2>3. h = Len(partition)
      BY <2>1, <2>2 DEF ReadTo
    <2>4. seen = 1..appended
      <3>1. seen = {partition[i] : i \in 1..Len(partition)}
        BY <2>2, <2>3 DEF ReadTo
      <3>2. \A e \in 1..appended : \E i \in 1..Len(partition) : partition[i] = e
        BY DEF ProjectionInv, RelaySound, Carried
      <3> QED
        BY <2>1, <3>1, <3>2
    <2>5. \A e \in 1..appended : timeline[e] = 1
      <3>1. timeline = [e \in AssetEvents |-> IF e \in seen THEN 1 ELSE 0]
        BY DEF ProjectionInv, ViewSound
      <3>2. 1..appended \subseteq AssetEvents
        BY <2>1 DEF AssetEvents
      <3> QED
        BY <2>4, <3>1, <3>2
    <2>6. ASSUME ~Overtaken
          PROVE  /\ shown.event = appended
                 /\ shown.version = IF Carriers = {} THEN NoVersion
                       ELSE carried[CHOOSE e \in Carriers : \A d \in Carriers : d <= e]
      <3>1. ShowsLatest(1..appended)
        BY <2>1, <2>2, <2>3, <2>4, <2>6 DEF ReadTo, OvertakenWithin, Overtaken
      <3>2. shown.event = appended
        <4>1. CASE appended = 0
          BY <3>1, <4>1 DEF ShowsLatest
        <4>2. CASE appended # 0
          <5>1. appended \in 1..appended
            BY <2>1, <4>2
          <5>2. appended <= shown.event /\ shown.event \in (1..appended) \union {0}
            BY <3>1, <5>1 DEF ShowsLatest
          <5> QED
            BY <2>1, <5>2
        <4> QED
          BY <4>1, <4>2
      <3>3. CASE Carriers = {}
        <4>1. \A e \in 1..appended : carried[e] = NoVersion
          BY <3>3 DEF Carriers
        <4> QED
          BY <3>1, <3>2, <3>3, <4>1 DEF ShowsLatest
      <3>4. CASE Carriers # {}
        <4>1. PICK e \in 1..appended : /\ carried[e] # NoVersion /\ shown.version = carried[e]
                                       /\ \A d \in 1..appended : carried[d] # NoVersion => d <= e
          BY <3>1, <3>4 DEF ShowsLatest, Carriers
        <4>2. e \in Carriers /\ \A d \in Carriers : d <= e
          BY <4>1 DEF Carriers
        <4>3. \A b \in Carriers : (\A d \in Carriers : d <= b) => b = e
          <5>1. Carriers \subseteq Nat
            BY <2>1 DEF Carriers
          <5> QED
            BY <4>2, <5>1
        <4>4. (CHOOSE b \in Carriers : \A d \in Carriers : d <= b) = e
          BY <4>2, <4>3
        <4> QED
          BY <3>2, <3>4, <4>1, <4>4
      <3> QED
        BY <3>3, <3>4
    <2> QED
      BY <2>5, <2>6
  <1> QED
    BY <1>1, ProjectionInvariant, PTL

----------------------------------------------------------------------------
(* What a case shows of its proofs. *)

States_Saga == {"ABSENT", "PENDING", "SUBMITTED", "CONFIRMED", "FAILED_RETRYABLE"}
Requests_CP == [target : Targets \union {NoTarget}, at : Nat, state : States_Saga, bound : BOOLEAN]
Checks == [local : BOOLEAN, answer : Answers]
CallerStates == [pc : {"idle", "create", "compare", "query", "record"},
                 proof : ProofIds \union {NoProof}, target : Targets \union {NoTarget},
                 local : BOOLEAN, answer : Answers]

Rows_CP == [confirmed : SUBSET Targets, active : SUBSET Targets,
            decision : Targets \union {NoTarget, "none"}, issue : BOOLEAN]
Summaries == [left : SUBSET Parts, current : EvidenceVersions \union {NoTarget}, decided : Nat, rows : Rows_CP]
Walks == [pc : {"idle", "walk", "done"}, start : SUBSET ProofIds, cursor : ProofIds \union {NoProof},
          items : Seq(ProofIds)]

\* Types; requests are made one by one, so that there are finitely many.
ProofsTyped ==
    /\ current \in EvidenceVersions \union {NoTarget} /\ available \subseteq EvidenceVersions
    /\ decided \in 0..MaxDecisions /\ now_CP \in Nat
    /\ proof \in [ProofIds -> Requests_CP] /\ IsFiniteSet(Requested)
    /\ held \in [ProofIds -> {"none", "own", "other"}]
    /\ latest \in [ProofIds -> Checks]
    /\ caller_CP \in [Callers_CP -> CallerStates]
    /\ summary \in Summaries /\ pages \in Walks

\* What may be proved: versions, and the decisions there are.
Provable == EvidenceVersions \union 1..decided

\* A request is for something that was there to be proved, and confirmed only with an
\* entry on the ledger.
SagaSound ==
    /\ \A p \in Requested : proof[p].target \in Provable
    /\ \A p \in Requested : proof[p].state = "CONFIRMED" => held[p] # "none"
    /\ \A u \in Callers_CP : caller_CP[u].pc = "create" => caller_CP[u].target \in Provable

\* A match, recorded or on its way, is the ledger's own record.
CheckSound ==
    /\ \A p \in ProofIds : latest[p].answer = "match" => held[p] = "own"
    /\ \A u \in Callers_CP :
          /\ caller_CP[u].pc \in {"compare", "query", "record"} => caller_CP[u].proof \in Requested
          /\ caller_CP[u].pc = "record" /\ caller_CP[u].answer = "match"
                => held[caller_CP[u].proof] = "own"

\* What the summary has read was so: what it takes for confirmed the ledger holds, and
\* the decision it shows was made.
SummarySound ==
    /\ summary.decided \in 0..decided
    /\ \A x \in summary.rows.confirmed : HeldFor(x)
    /\ summary.rows.decision \in summary.rows.confirmed => summary.rows.decision \in 1..decided

\* The pages read so far are the proofs up to the cursor, each once; every proof that
\* was there when the walk began and is not listed is still to come.
Listed(p) == \E i \in 1..Len(pages.items) : pages.items[i] = p
WalkSound ==
    /\ pages.start \subseteq Requested
    /\ \A i \in 1..Len(pages.items) : pages.items[i] \in Requested
    /\ \A i, j \in 1..Len(pages.items) : pages.items[i] = pages.items[j] => i = j
    /\ pages.pc = "walk" =>
          /\ pages.cursor \in Requested \union {NoProof}
          /\ \A p \in Requested : Listed(p) => ~AfterCursor(p)
          /\ \A p \in pages.start : Listed(p) \/ AfterCursor(p)
    /\ pages.pc = "done" => \A p \in pages.start : Listed(p)

CaseProofsInv == ProofsTyped /\ SagaSound /\ CheckSound /\ SummarySound /\ WalkSound


----------------------------------------------------------------------------
(* The order of the list. *)

\* A finite set with a strict total order has a sequence of all its members in that
\* order: each member at the place given by the number of those before it.
LEMMA OrderedSequence ==
    ASSUME NEW S, IsFiniteSet(S), NEW R,
           \A x \in S : <<x, x>> \notin R,
           \A x, y, z \in S : <<x, y>> \in R /\ <<y, z>> \in R => <<x, z>> \in R,
           \A x, y \in S : x = y \/ <<x, y>> \in R \/ <<y, x>> \in R
    PROVE  \E s \in [1..Cardinality(S) -> S] :
              \A i, j \in 1..Cardinality(S) : i < j => <<s[i], s[j]>> \in R
<1> DEFINE n == Cardinality(S)
           Preceding(x) == {y \in S : <<y, x>> \in R}
           rank == [x \in S |-> Cardinality(Preceding(x)) + 1]
<1>1. n \in Nat
  BY FS_CardinalityType
<1>2. ASSUME NEW x \in S
      PROVE  /\ IsFiniteSet(Preceding(x)) /\ Cardinality(Preceding(x)) \in Nat
             /\ Cardinality(Preceding(x)) < n
  <2>1. Preceding(x) \in SUBSET S /\ Preceding(x) # S
    OBVIOUS
  <2>2. IsFiniteSet(Preceding(x)) /\ Cardinality(Preceding(x)) <= n /\ (n = Cardinality(Preceding(x)) => S = Preceding(x))
    BY <2>1, FS_Subset
  <2>3. Cardinality(Preceding(x)) \in Nat
    BY <2>2, FS_CardinalityType
  <2> QED
    BY <1>1, <2>1, <2>2, <2>3
<1>3. rank \in [S -> 1..n]
  <2>1. ASSUME NEW x \in S PROVE Cardinality(Preceding(x)) + 1 \in 1..n
    <3> HIDE DEF Preceding, n
    <3> QED
      BY <1>1, <1>2
  <2> QED
    BY <2>1
<1>4. ASSUME NEW x \in S, NEW y \in S, <<x, y>> \in R
      PROVE  rank[x] < rank[y]
  <2>1. Preceding(x) \in SUBSET Preceding(y) /\ x \in Preceding(y) /\ x \notin Preceding(x)
    BY <1>4
  <2>2. Cardinality(Preceding(x)) <= Cardinality(Preceding(y))
        /\ (Cardinality(Preceding(y)) = Cardinality(Preceding(x)) => Preceding(y) = Preceding(x))
    BY <1>2, <2>1, FS_Subset
  <2>3. Cardinality(Preceding(x)) < Cardinality(Preceding(y))
    <3> HIDE DEF Preceding
    <3> QED
      BY <1>2, <2>1, <2>2
  <2>4. rank[x] = Cardinality(Preceding(x)) + 1 /\ rank[y] = Cardinality(Preceding(y)) + 1
    OBVIOUS
  <2> HIDE DEF Preceding, rank
  <2> QED
    BY <1>2, <2>3, <2>4
<1>5. ASSUME NEW x \in S, NEW y \in S, rank[x] = rank[y] PROVE x = y
  <2>1. rank[x] \in Nat /\ rank[y] \in Nat
    BY <1>1, <1>3
  <2>2. ~(rank[x] < rank[y]) /\ ~(rank[y] < rank[x])
    <3> HIDE DEF rank
    <3> QED
      BY <1>5, <2>1
  <2>3. <<x, y>> \notin R /\ <<y, x>> \notin R
    <3> HIDE DEF rank
    <3> QED
      BY <1>4, <2>2
  <2> QED
    BY <2>3
<1>6. rank \in Surjection(S, 1..n)
  <2>1. rank \in Injection(S, 1..n)
    <3> HIDE DEF rank
    <3> QED
      BY <1>3, <1>5 DEF Injection, IsInjective
  <2>2. IsFiniteSet(1..n) /\ Cardinality(1..n) = n
    <3>1. 1 \in Int /\ n \in Int
      BY <1>1
    <3>2. IsFiniteSet(1..n) /\ Cardinality(1..n) = IF 1 > n THEN 0 ELSE n - 1 + 1
      BY <3>1, FS_Interval
    <3> HIDE DEF n
    <3> QED
      BY <3>2, <1>1
  <2> HIDE DEF rank
  <2> QED
    BY <2>1, <2>2, FS_Injection
<1> DEFINE s == [i \in 1..n |-> CHOOSE x \in S : rank[x] = i]
<1>7. ASSUME NEW i \in 1..n PROVE s[i] \in S /\ rank[s[i]] = i
  <2>1. \E x \in S : rank[x] = i
    <3> HIDE DEF rank
    <3> QED
      BY <1>6 DEF Surjection
  <2> HIDE DEF rank, n
  <2> QED
    BY <2>1
<1>8. s \in [1..n -> S]
  <2>1. \A i \in 1..n : (CHOOSE x \in S : rank[x] = i) \in S
    <3> HIDE DEF rank
    <3> QED
      BY <1>7
  <2> HIDE DEF rank, n
  <2> QED
    BY <2>1
<1>9. ASSUME NEW i \in 1..n, NEW j \in 1..n, i < j PROVE <<s[i], s[j]>> \in R
  <2>1. s[i] \in S /\ s[j] \in S /\ rank[s[i]] = i /\ rank[s[j]] = j
    BY <1>7
  <2>2. i \in Nat /\ j \in Nat
    BY <1>1
  <2> HIDE DEF rank, s, n
  <2>3. s[i] # s[j] /\ ~(rank[s[j]] < rank[s[i]])
    BY <2>1, <2>2, <1>9
  <2> QED
    BY <2>1, <2>3, <1>4
<1> HIDE DEF s
<1> QED
  BY <1>8, <1>9

\* The time of the request and then the id make such an order.
LEMMA LaterOrders ==
    ASSUME CaseProofsAssumption, proof \in [ProofIds -> Requests_CP]
    PROVE  /\ \A p \in ProofIds : ~Later(p, p)
           /\ \A p, q, r \in ProofIds : Later(p, q) /\ Later(q, r) => Later(p, r)
           /\ \A p, q \in ProofIds : p = q \/ Later(p, q) \/ Later(q, p)
<1>1. \A p \in ProofIds : p \in Nat /\ proof[p].at \in Nat
  BY DEF CaseProofsAssumption, Requests_CP
<1>2. \A p \in ProofIds : ~Later(p, p)
  BY <1>1 DEF Later
<1>3. \A p, q, r \in ProofIds : Later(p, q) /\ Later(q, r) => Later(p, r)
  BY <1>1 DEF Later
<1>4. \A p, q \in ProofIds : p = q \/ Later(p, q) \/ Later(q, p)
  BY <1>1 DEF Later
<1> QED
  BY <1>2, <1>3, <1>4

\* What InOrder gives: every member at one place, the latest request first.
LEMMA InOrderSorts ==
    ASSUME CaseProofsAssumption, proof \in [ProofIds -> Requests_CP],
           NEW S \in SUBSET ProofIds, IsFiniteSet(S)
    PROVE  /\ Cardinality(S) \in Nat
           /\ InOrder(S) \in [1..Cardinality(S) -> S]
           /\ \A i, j \in 1..Cardinality(S) : i < j => Later(InOrder(S)[i], InOrder(S)[j])
           /\ \A p \in S : \E i \in 1..Cardinality(S) : InOrder(S)[i] = p
<1> DEFINE n == Cardinality(S)
           R == {x \in S \X S : Later(x[1], x[2])}
           Sorted(s) == \A i, j \in 1..n : i < j => Later(s[i], s[j])
<1>1. n \in Nat
  BY FS_CardinalityType
<1>2. \A x, y \in S : <<x, y>> \in R <=> Later(x, y)
  OBVIOUS
<1>3. \E s \in [1..n -> S] : \A i, j \in 1..n : i < j => <<s[i], s[j]>> \in R
  <2>1. /\ \A x \in S : <<x, x>> \notin R
        /\ \A x, y, z \in S : <<x, y>> \in R /\ <<y, z>> \in R => <<x, z>> \in R
        /\ \A x, y \in S : x = y \/ <<x, y>> \in R \/ <<y, x>> \in R
    <3> HIDE DEF R
    <3> QED
      BY <1>2, LaterOrders
  <2> HIDE DEF R
  <2> QED
    BY <2>1, OrderedSequence
<1>4. \E s \in [1..n -> S] : Sorted(s)
  <2> HIDE DEF R, n
  <2> QED
    BY <1>2, <1>3
<1>5. InOrder(S) \in [1..n -> S] /\ Sorted(InOrder(S))
  BY <1>4 DEF InOrder
<1>6. InOrder(S) \in Injection(1..n, S)
  <2> SUFFICES ASSUME NEW i \in 1..n, NEW j \in 1..n, InOrder(S)[i] = InOrder(S)[j] PROVE i = j
    BY <1>5 DEF Injection, IsInjective
  <2>1. InOrder(S)[i] \in ProofIds /\ InOrder(S)[j] \in ProofIds
    BY <1>5
  <2>2. ~Later(InOrder(S)[i], InOrder(S)[j]) /\ ~Later(InOrder(S)[j], InOrder(S)[i])
    BY <2>1, LaterOrders
  <2>3. ~(i < j) /\ ~(j < i) /\ i \in Nat /\ j \in Nat
    BY <2>2, <1>5, <1>1
  <2> QED
    BY <2>3
<1>7. InOrder(S) \in Surjection(1..n, S)
  <2>1. IsFiniteSet(1..n) /\ Cardinality(1..n) = n
    <3>1. 1 \in Int /\ n \in Int
      BY <1>1
    <3>2. IsFiniteSet(1..n) /\ Cardinality(1..n) = IF 1 > n THEN 0 ELSE n - 1 + 1
      BY <3>1, FS_Interval
    <3> HIDE DEF n
    <3> QED
      BY <3>2, <1>1
  <2> QED
    BY <2>1, <1>6, FS_Injection
<1>8. \A p \in S : \E i \in 1..n : InOrder(S)[i] = p
  BY <1>7 DEF Surjection
<1> QED
  BY <1>1, <1>5, <1>8

----------------------------------------------------------------------------
(* Requests keep their targets and times, and the ledger its entries. *)

RowsGrow ==
    /\ proof' \in [ProofIds -> Requests_CP] /\ IsFiniteSet(Requested')
    /\ held' \in [ProofIds -> {"none", "own", "other"}]
    /\ \A p \in Requested : /\ p \in Requested'
                            /\ proof'[p].target = proof[p].target /\ proof'[p].at = proof[p].at
    /\ \A p \in ProofIds : held[p] # "none" => held'[p] = held[p]

LEMMA SameRows ==
    ASSUME ProofsTyped, UNCHANGED <<proof, held>>
    PROVE  RowsGrow /\ Requested' = Requested
<1>1. Requested' = Requested
  BY DEF Requested
<1> QED
  BY <1>1 DEF RowsGrow, ProofsTyped

\* What the ledger held for a target it holds.
LEMMA HeldStays ==
    ASSUME ProofsTyped, RowsGrow, NEW x, HeldFor(x)
    PROVE  HeldFor(x)'
<1>1. PICK p \in Requested : proof[p].target = x /\ held[p] # "none"
  BY DEF HeldFor
<1>2. p \in Requested' /\ proof'[p].target = x /\ held'[p] # "none"
  BY <1>1 DEF RowsGrow, Requested
<1> QED
  BY <1>2 DEF HeldFor

\* A summary is as true later as when it was read.
LEMMA SummaryKept ==
    ASSUME ProofsTyped, SummarySound, RowsGrow, summary' = summary,
           decided' \in Nat, decided <= decided'
    PROVE  SummarySound'
<1>1. decided \in Nat /\ \A k \in 0..decided : k \in 0..decided'
  BY DEF ProofsTyped
<1>2. summary'.decided \in 0..decided'
  BY <1>1 DEF SummarySound
<1>3. ASSUME NEW x \in summary'.rows.confirmed PROVE HeldFor(x)'
  BY <1>3, HeldStays DEF SummarySound
<1>4. summary'.rows.decision \in summary'.rows.confirmed => summary'.rows.decision \in 1..decided'
  BY <1>1 DEF SummarySound
<1> QED
  BY <1>2, <1>3, <1>4 DEF SummarySound

\* The order of two requests does not change.
LEMMA LaterKept ==
    ASSUME RowsGrow, NEW p \in Requested, NEW q \in Requested
    PROVE  Later(p, q)' <=> Later(p, q)
BY DEF RowsGrow, Later

\* Nor does a walk lose its place by requests made meanwhile.
LEMMA WalkKept ==
    ASSUME ProofsTyped, WalkSound, RowsGrow, pages' = pages
    PROVE  WalkSound'
<1>1. Requested \subseteq Requested'
  BY DEF RowsGrow
<1>2. ASSUME NEW p PROVE (Listed(p)' <=> Listed(p)) /\ (Listed(p) => p \in Requested)
  BY DEF Listed, WalkSound
<1>3. ASSUME pages.pc = "walk", NEW p \in Requested PROVE AfterCursor(p)' <=> AfterCursor(p)
  <2>1. CASE pages.cursor = NoProof
    BY <2>1 DEF AfterCursor
  <2>2. CASE pages.cursor # NoProof
    <3>1. pages.cursor \in Requested
      BY <1>3, <2>2 DEF WalkSound
    <3>2. Later(pages.cursor, p)' <=> Later(pages.cursor, p)
      BY <3>1, LaterKept
    <3> QED
      BY <2>2, <3>2 DEF AfterCursor
  <2> QED
    BY <2>1, <2>2
<1>4. pages'.pc = "walk" =>
          /\ pages'.cursor \in Requested' \union {NoProof}
          /\ \A p \in Requested' : Listed(p)' => ~AfterCursor(p)'
          /\ \A p \in pages'.start : Listed(p)' \/ AfterCursor(p)'
  BY <1>1, <1>2, <1>3 DEF WalkSound
<1>5. pages'.pc = "done" => \A p \in pages'.start : Listed(p)'
  BY <1>2 DEF WalkSound
<1>6. /\ pages'.start \subseteq Requested'
      /\ \A i \in 1..Len(pages'.items) : pages'.items[i] \in Requested'
      /\ \A i, j \in 1..Len(pages'.items) : pages'.items[i] = pages'.items[j] => i = j
  BY <1>1 DEF WalkSound
<1> QED
  BY <1>4, <1>5, <1>6 DEF WalkSound

\* The case goes on: nothing that is recorded changes.
LEMMA CaseGoesOn ==
    ASSUME CaseProofsInv, UNCHANGED <<proof, held, checkVars, summary, pages>>,
           current' \in EvidenceVersions \union {NoTarget}, available' \subseteq EvidenceVersions,
           decided' \in 0..MaxDecisions, decided <= decided', now_CP' \in Nat
    PROVE  CaseProofsInv'
<1> USE DEF CaseProofsInv, checkVars
<1>1. RowsGrow /\ Requested' = Requested
  BY SameRows
<1>2. decided \in Nat /\ decided' \in Nat
  BY DEF ProofsTyped
<1>3. ProofsTyped'
  BY <1>1 DEF ProofsTyped
<1>4. SagaSound'
  <2>1. \A x : x \in Provable => x \in Provable'
    BY <1>2 DEF Provable
  <2> QED
    BY <1>1, <2>1 DEF SagaSound
<1>5. CheckSound'
  BY <1>1 DEF CheckSound
<1>6. SummarySound' /\ WalkSound'
  BY <1>1, <1>2, SummaryKept, WalkKept
<1> QED
  BY <1>3, <1>4, <1>5, <1>6

\* A step of one caller: what it takes with it must be sound.
LEMMA CallerGoesOn ==
    ASSUME CaseProofsInv, NEW u \in Callers_CP, NEW r \in CallerStates, CallerMoves(u, r),
           r.pc = "create" => r.target \in Provable,
           r.pc \in {"compare", "query", "record"} => r.proof \in Requested,
           r.pc = "record" /\ r.answer = "match" => held[r.proof] = "own",
           latest' \in [ProofIds -> Checks],
           \A p \in ProofIds : latest'[p].answer = "match" => held[p] = "own",
           UNCHANGED <<caseVars, rowVars, summary, pages>>
    PROVE  CaseProofsInv'
<1> USE DEF CaseProofsInv, caseVars, rowVars
<1>1. RowsGrow /\ Requested' = Requested /\ Provable' = Provable
  BY SameRows DEF Provable
<1>2. caller_CP' \in [Callers_CP -> CallerStates] /\ \A v \in Callers_CP : caller_CP'[v] = IF v = u THEN r ELSE caller_CP[v]
  BY DEF ProofsTyped, CallerMoves
<1>3. ProofsTyped'
  BY <1>1, <1>2 DEF ProofsTyped
<1>4. SagaSound'
  BY <1>1, <1>2 DEF SagaSound
<1>5. CheckSound'
  BY <1>1, <1>2 DEF CheckSound
<1>6. decided \in Nat
  BY DEF ProofsTyped
<1>7. SummarySound' /\ WalkSound'
  BY <1>1, <1>6, SummaryKept, WalkKept
<1> QED
  BY <1>3, <1>4, <1>5, <1>7

\* A step of a proof's saga, or its beginning.
LEMMA RowGoesOn ==
    ASSUME CaseProofsInv, NEW p \in ProofIds, NEW r \in Requests_CP, proof' = [proof EXCEPT ![p] = r],
           r.state # "ABSENT", r.target \in Provable, r.state = "CONFIRMED" => held[p] # "none",
           p \in Requested => (r.target = proof[p].target /\ r.at = proof[p].at),
           caller_CP' \in [Callers_CP -> CallerStates],
           \A u \in Callers_CP : caller_CP'[u] \in {caller_CP[u], CallerRest},
           UNCHANGED <<caseVars, now_CP, held, latest, checks, summary, pages>>
    PROVE  CaseProofsInv'
<1> USE DEF CaseProofsInv, caseVars
<1>1. proof' \in [ProofIds -> Requests_CP] /\ \A q \in ProofIds : proof'[q] = IF q = p THEN r ELSE proof[q]
  BY DEF ProofsTyped
<1>2. Requested' = Requested \union {p}
  BY <1>1 DEF Requested
<1>3. IsFiniteSet(Requested')
  BY <1>2, FS_AddElement DEF ProofsTyped
<1>4. RowsGrow
  BY <1>1, <1>2, <1>3 DEF RowsGrow, ProofsTyped, Requested
<1>5. Provable' = Provable
  BY DEF Provable
<1>6. ProofsTyped'
  BY <1>1, <1>3 DEF ProofsTyped
<1>7. SagaSound'
  <2>1. \A q \in Requested' : q \in Requested \/ q = p
    BY <1>2
  <2>2. \A q \in Requested : q \in ProofIds
    BY DEF Requested
  <2>3. \A q \in Requested' : proof'[q].target \in Provable'
    BY <1>1, <1>5, <2>1, <2>2 DEF SagaSound
  <2>4. \A q \in Requested' : proof'[q].state = "CONFIRMED" => held'[q] # "none"
    BY <1>1, <2>1, <2>2 DEF SagaSound
  <2>5. \A u \in Callers_CP : caller_CP'[u].pc = "create" => caller_CP'[u].target \in Provable'
    BY <1>5 DEF SagaSound, CallerRest
  <2> QED
    BY <2>3, <2>4, <2>5 DEF SagaSound
<1>8. CheckSound'
  <2>1. Requested \subseteq Requested'
    BY <1>2
  <2> QED
    BY <2>1 DEF CheckSound, CallerRest
<1>9. decided \in Nat
  BY DEF ProofsTyped
<1>10. SummarySound' /\ WalkSound'
  BY <1>4, <1>9, SummaryKept, WalkKept
<1> QED
  BY <1>6, <1>7, <1>8, <1>10

----------------------------------------------------------------------------
(* Every step keeps the invariant. *)

LEMMA CaseProofsStart ==
    ASSUME CaseProofsAssumption, CaseProofsInit
    PROVE  CaseProofsInv
<1> USE DEF CaseProofsInit, CaseProofsAssumption
<1>1. Requested = {}
  BY DEF Requested, NoRequest
<1>2. ProofsTyped
  <2>1. IsFiniteSet(Requested)
    BY <1>1, FS_EmptySet
  <2>2. NoRequest \in Requests_CP
    BY DEF NoRequest, Requests_CP, States_Saga
  <2>3. NoCheck \in Checks /\ CallerRest \in CallerStates
    BY DEF NoCheck, Checks, Answers, CallerRest, CallerStates
  <2>4. Unread \in Summaries
    BY DEF Unread, NoRows, Summaries, Rows_CP
  <2>5. NoPages \in Walks
    BY DEF NoPages, Walks
  <2>6. 0 \in 0..MaxDecisions
    OBVIOUS
  <2> QED
    BY <2>1, <2>2, <2>3, <2>4, <2>5, <2>6 DEF ProofsTyped
<1>3. SagaSound
  BY <1>1 DEF SagaSound, CallerRest
<1>4. CheckSound
  BY DEF CheckSound, NoCheck, CallerRest
<1>5. SummarySound
  BY DEF SummarySound, Unread, NoRows
<1>6. WalkSound
  BY <1>1 DEF WalkSound, NoPages, Listed
<1> QED
  BY <1>2, <1>3, <1>4, <1>5, <1>6 DEF CaseProofsInv

LEMMA MovesSound ==
    ASSUME CaseProofsAssumption, CaseProofsInv, CaseMoves
    PROVE  CaseProofsInv'
<1> USE DEF CaseProofsInv, rowVars, caseVars
<1>1. CASE DecideAgain
  <2>1. decided' \in 0..MaxDecisions /\ decided <= decided'
    BY <1>1 DEF DecideAgain, ProofsTyped, CaseProofsAssumption
  <2> QED
    BY <1>1, <2>1, CaseGoesOn DEF DecideAgain, ProofsTyped
<1>2. CASE ClockMoves
  <2>1. decided <= decided /\ now_CP' \in Nat
    BY <1>2 DEF ClockMoves, ProofsTyped
  <2> QED
    BY <1>2, <2>1, CaseGoesOn DEF ClockMoves, ProofsTyped
<1>3. ASSUME NEW v \in EvidenceVersions, Promote(v) PROVE CaseProofsInv'
  <2>1. decided <= decided
    BY DEF ProofsTyped
  <2> QED
    BY <1>3, <2>1, CaseGoesOn DEF Promote, ProofsTyped
<1> QED
  BY <1>1, <1>2, <1>3 DEF CaseMoves

LEMMA RequestingSound ==
    ASSUME CaseProofsAssumption, CaseProofsInv, Requesting
    PROVE  CaseProofsInv'
<1> USE DEF CaseProofsInv
<1> PICK u \in Callers_CP : EnterRequest(u) \/ CommitRequest(u)
  BY DEF Requesting
<1>0. CallerRest \in CallerStates
  BY DEF CallerRest, CallerStates, Answers
<1>1. CASE EnterRequest(u)
  <2>1. PICK x \in (available \ damaged) \union ({decided} \intersect Decisions) :
              CallerMoves(u, [CallerRest EXCEPT !.pc = "create", !.target = x])
    BY <1>1 DEF EnterRequest
  <2> DEFINE r == [CallerRest EXCEPT !.pc = "create", !.target = x]
  <2>2. x \in Provable /\ x \in Targets
    BY <2>1 DEF Provable, Decisions, Targets, ProofsTyped
  <2>3. r \in CallerStates /\ r.pc = "create" /\ r.target = x
    BY <2>2 DEF CallerStates, CallerRest, Answers
  <2>4. latest' \in [ProofIds -> Checks] /\ \A p \in ProofIds : latest'[p].answer = "match" => held[p] = "own"
    BY <1>1 DEF EnterRequest, ProofsTyped, CheckSound
  <2>5. UNCHANGED <<caseVars, rowVars, summary, pages>>
    BY <1>1 DEF EnterRequest
  <2> HIDE DEF r
  <2> QED
    BY <2>1, <2>2, <2>3, <2>4, <2>5, CallerGoesOn DEF r
<1>2. CASE CommitRequest(u)
  <2> DEFINE x == caller_CP[u].target
  <2>1. caller_CP' \in [Callers_CP -> CallerStates] /\ \A v \in Callers_CP : caller_CP'[v] \in {caller_CP[v], CallerRest}
    BY <1>0, <1>2 DEF CommitRequest, CallerMoves, ProofsTyped
  <2>2. x \in Provable /\ x \in Targets
    <3>1. x \in Provable
      BY <1>2 DEF CommitRequest, SagaSound
    <3> QED
      BY <3>1 DEF Provable, Targets, Decisions, ProofsTyped
  <2>3. UNCHANGED <<caseVars, now_CP, held, latest, checks, summary, pages>>
    BY <1>2 DEF CommitRequest
  <2>4. CASE proof' = proof
    <3>1. CallerMoves(u, CallerRest) /\ UNCHANGED <<caseVars, rowVars, summary, pages>>
      BY <1>2, <2>3, <2>4 DEF CommitRequest, rowVars
    <3>2. latest' \in [ProofIds -> Checks] /\ \A p \in ProofIds : latest'[p].answer = "match" => held[p] = "own"
      BY <2>3 DEF ProofsTyped, CheckSound
    <3> QED
      BY <1>0, <3>1, <3>2, CallerGoesOn DEF CallerRest
  <2>5. ASSUME NEW p \in ProofIds \ Requested,
               proof' = [proof EXCEPT ![p] = [target |-> x, at |-> now_CP, state |-> "PENDING", bound |-> FALSE]]
        PROVE  CaseProofsInv'
    <3> DEFINE r == [target |-> x, at |-> now_CP, state |-> "PENDING", bound |-> FALSE]
    <3>1. r \in Requests_CP /\ r.state = "PENDING" /\ r.target = x
      BY <2>2 DEF Requests_CP, States_Saga, ProofsTyped
    <3> HIDE DEF r, x
    <3> QED
      BY <2>1, <2>2, <2>3, <2>5, <3>1, RowGoesOn DEF r
  <2> QED
    BY <1>2, <2>4, <2>5 DEF CommitRequest
<1> QED
  BY <1>1, <1>2

\* A row with another state.
LEMMA RowWith ==
    ASSUME NEW r \in Requests_CP, NEW s \in States_Saga
    PROVE  LET c == [r EXCEPT !.state = s]
           IN  c \in Requests_CP /\ c.state = s /\ c.target = r.target /\ c.at = r.at
BY DEF Requests_CP

LEMMA SagaKeepsInv ==
    ASSUME CaseProofsAssumption, CaseProofsInv, Saga
    PROVE  CaseProofsInv'
<1> USE DEF CaseProofsInv
<1> PICK p \in ProofIds : \/ Resume(p) \/ Succeed(p) \/ Confirm_CP(p) \/ Fail_CP(p)
                          \/ \E entry \in {"own", "other"} : Occupied(p, entry)
  BY DEF Saga
<1>1. /\ caller_CP \in [Callers_CP -> CallerStates]
      /\ proof[p] \in Requests_CP
      /\ p \in Requested => proof[p].target \in Provable
  BY DEF ProofsTyped, SagaSound
<1>2. ASSUME p \in Requested, NEW r \in Requests_CP, proof' = [proof EXCEPT ![p] = r],
             r.state # "ABSENT", r.state = "CONFIRMED" => held[p] # "none",
             r.target = proof[p].target, r.at = proof[p].at,
             UNCHANGED <<caseVars, now_CP, held, checkVars, summary, pages>>
      PROVE  CaseProofsInv'
  <2>1. UNCHANGED <<caseVars, now_CP, held, latest, checks, summary, pages>> /\ caller_CP' = caller_CP
    BY <1>2 DEF checkVars
  <2> QED
    BY <1>1, <1>2, <2>1, RowGoesOn
<1>3. ASSUME p \in Requested, NEW s \in States_Saga, s # "ABSENT", s = "CONFIRMED" => held[p] # "none",
             SetState(p, s), UNCHANGED <<caseVars, now_CP, held, checkVars, summary, pages>>
      PROVE  CaseProofsInv'
  <2> DEFINE r == [proof[p] EXCEPT !.state = s]
  <2>1. proof' = [proof EXCEPT ![p] = r]
    BY <1>3 DEF SetState
  <2>2. r \in Requests_CP /\ r.state = s /\ r.target = proof[p].target /\ r.at = proof[p].at
    BY <1>1, RowWith
  <2> HIDE DEF r
  <2> QED
    BY <1>2, <1>3, <2>1, <2>2
<1>4. {"PENDING", "SUBMITTED", "CONFIRMED", "FAILED_RETRYABLE"} \subseteq States_Saga
  BY DEF States_Saga
<1>5. CASE Resume(p)
  BY <1>5, <1>3, <1>4 DEF Resume
<1>6. CASE Succeed(p)
  <2>1. PICK s \in {"CONFIRMED", "SUBMITTED"} :
              /\ s = "CONFIRMED" => held[p] = "own"
              /\ proof' = [proof EXCEPT ![p].state = s, ![p].bound = TRUE]
    BY <1>6 DEF Succeed
  <2> DEFINE r == [proof[p] EXCEPT !.state = s, !.bound = TRUE]
  <2>2. proof' = [proof EXCEPT ![p] = r]
    <3>1. /\ DOMAIN proof' = ProofIds
          /\ \A q \in ProofIds : proof'[q] = IF q = p THEN r ELSE proof[q]
      BY <2>1, Zenon DEF ProofsTyped
    <3> QED
      BY <2>1, <3>1 DEF ProofsTyped
  <2>3. r \in Requests_CP /\ r.state = s /\ r.target = proof[p].target /\ r.at = proof[p].at
    <3>1. s \in States_Saga
      BY <1>4
    <3> QED
      BY <1>1, <3>1 DEF Requests_CP
  <2> HIDE DEF r
  <2> QED
    BY <1>2, <1>6, <2>1, <2>2, <2>3 DEF Succeed
<1>7. CASE Confirm_CP(p)
  BY <1>7, <1>3, <1>4 DEF Confirm_CP
<1>8. CASE Fail_CP(p)
  BY <1>8, <1>3, <1>4 DEF Fail_CP
<1>9. ASSUME NEW entry \in {"own", "other"}, Occupied(p, entry) PROVE CaseProofsInv'
  <2>1. /\ held' \in [ProofIds -> {"none", "own", "other"}]
        /\ \A q \in ProofIds : held'[q] = IF q = p THEN entry ELSE held[q]
        /\ held[p] = "none"
    BY <1>9 DEF Occupied, ProofsTyped
  <2>2. UNCHANGED <<current, available, damaged, decided, now_CP, proof, latest, checks, caller_CP, summary, pages>>
    BY <1>9 DEF Occupied, caseVars, checkVars
  <2>3. Requested' = Requested /\ Provable' = Provable
    BY <2>2 DEF Requested, Provable
  <2>4. RowsGrow
    BY <2>1, <2>2, <2>3 DEF RowsGrow, ProofsTyped
  <2>5. ProofsTyped'
    BY <2>1, <2>2, <2>3 DEF ProofsTyped
  <2>6. \A q \in Requested : q \in ProofIds
    BY DEF Requested
  <2>7. SagaSound'
    BY <2>1, <2>2, <2>3, <2>6 DEF SagaSound
  <2>8. CheckSound'
    BY <2>1, <2>2, <2>3, <2>6 DEF CheckSound
  <2>9. decided \in Nat
    BY DEF ProofsTyped
  <2>10. SummarySound' /\ WalkSound'
    BY <2>2, <2>4, <2>9, SummaryKept, WalkKept
  <2> QED
    BY <2>5, <2>7, <2>8, <2>10
<1> QED
  BY <1>5, <1>6, <1>7, <1>8, <1>9

LEMMA VerifyingSound ==
    ASSUME CaseProofsAssumption, CaseProofsInv, Verifying
    PROVE  CaseProofsInv'
<1> USE DEF CaseProofsInv
<1>0. CallerRest \in CallerStates
  BY DEF CallerRest, CallerStates, Answers
<1>1. /\ latest \in [ProofIds -> Checks] /\ \A p \in ProofIds : latest[p].answer = "match" => held[p] = "own"
      /\ \A p \in Requested : p \in ProofIds
      /\ \A u \in Callers_CP : caller_CP[u] \in CallerStates
  BY DEF ProofsTyped, CheckSound, Requested
<1>2. ASSUME NEW u \in Callers_CP, FindProof(u) PROVE CaseProofsInv'
  <2>1. PICK p \in Requested : CallerMoves(u, [CallerRest EXCEPT !.pc = "compare", !.proof = p])
    BY <1>2 DEF FindProof
  <2> DEFINE r == [CallerRest EXCEPT !.pc = "compare", !.proof = p]
  <2>2. r \in CallerStates /\ r.pc = "compare" /\ r.proof = p
    BY <1>1 DEF CallerStates, CallerRest, Answers
  <2>3. UNCHANGED <<caseVars, rowVars, latest, summary, pages>>
    BY <1>2 DEF FindProof
  <2> HIDE DEF r
  <2> QED
    BY <1>1, <2>1, <2>2, <2>3, CallerGoesOn DEF r
<1>3. ASSUME NEW u \in Callers_CP, CompareLocal(u) PROVE CaseProofsInv'
  <2> DEFINE c == caller_CP[u]
             x == proof[c.proof].target
             b == IF x \in Decisions THEN x = decided ELSE x \notin damaged
             r == [c EXCEPT !.pc = "query", !.local = b]
  <2>1. c \in CallerStates /\ c.pc = "compare" /\ c.proof \in Requested
    BY <1>1, <1>3 DEF CompareLocal, CheckSound
  <2>2. b \in BOOLEAN
    <3>1. CASE x \in Decisions
      <4>1. b = (x = decided)
        BY <3>1, Zenon
      <4> QED
        BY <4>1, Zenon
    <3>2. CASE x \notin Decisions
      <4>1. b = (x \notin damaged)
        BY <3>2, Zenon
      <4> QED
        BY <4>1, Zenon
    <3> QED
      BY <3>1, <3>2
  <2>3. CallerMoves(u, r)
    BY <1>3, Zenon DEF CompareLocal
  <2> HIDE DEF b
  <2>4. r \in CallerStates /\ r.pc = "query" /\ r.proof = c.proof
    BY <2>1, <2>2 DEF CallerStates
  <2>5. UNCHANGED <<caseVars, rowVars, latest, summary, pages>>
    BY <1>3 DEF CompareLocal
  <2> HIDE DEF r
  <2> QED
    BY <1>1, <2>1, <2>3, <2>4, <2>5, CallerGoesOn
<1>4. ASSUME NEW u \in Callers_CP, AskLedger(u) PROVE CaseProofsInv'
  <2> DEFINE c == caller_CP[u]
             a == CASE held[c.proof] = "none" -> "missing"
                    [] held[c.proof] = "own" /\ c.local -> "match"
                    [] OTHER -> "differs"
             r == [c EXCEPT !.pc = "record", !.answer = a]
  <2>1. c \in CallerStates /\ c.pc = "query" /\ c.proof \in Requested
    BY <1>1, <1>4 DEF AskLedger, CheckSound
  <2>2. a \in Answers /\ (a = "match" => held[c.proof] = "own")
    <3>1. c.local \in BOOLEAN
      BY <2>1 DEF CallerStates
    <3>2. CASE held[c.proof] = "none"
      <4>1. a = "missing"
        BY <3>2
      <4> HIDE DEF a
      <4> QED
        BY <4>1 DEF Answers
    <3>3. CASE held[c.proof] = "own"
      <4>1. a = "match" \/ a = "differs"
        BY <3>3
      <4> HIDE DEF a
      <4> QED
        BY <3>3, <4>1 DEF Answers
    <3>4. CASE held[c.proof] # "none" /\ held[c.proof] # "own"
      <4>1. a = "differs"
        BY <3>4
      <4> HIDE DEF a
      <4> QED
        BY <4>1 DEF Answers
    <3> HIDE DEF a
    <3> QED
      BY <3>2, <3>3, <3>4
  <2>3. CallerMoves(u, r)
    BY <1>4, Zenon DEF AskLedger
  <2> HIDE DEF a
  <2>4. r \in CallerStates /\ r.pc = "record" /\ r.proof = c.proof /\ r.answer = a
    BY <2>1, <2>2 DEF CallerStates
  <2>5. UNCHANGED <<caseVars, rowVars, latest, summary, pages>>
    BY <1>4 DEF AskLedger
  <2> HIDE DEF r
  <2> QED
    BY <1>1, <2>1, <2>2, <2>3, <2>4, <2>5, CallerGoesOn
<1>5. ASSUME NEW u \in Callers_CP, RecordVerification(u) PROVE CaseProofsInv'
  <2> DEFINE c == caller_CP[u]
             k == [local |-> c.local, answer |-> c.answer]
  <2>1. c \in CallerStates /\ c.proof \in ProofIds /\ (c.answer = "match" => held[c.proof] = "own")
    BY <1>1, <1>5 DEF RecordVerification, CheckSound
  <2>2. k \in Checks /\ k.answer = c.answer
    BY <2>1 DEF CallerStates, Checks
  <2>3. /\ CallerMoves(u, CallerRest) /\ latest' = [latest EXCEPT ![c.proof] = k]
        /\ UNCHANGED <<caseVars, rowVars, summary, pages>>
    BY <1>5 DEF RecordVerification
  <2> HIDE DEF k
  <2>4. latest' \in [ProofIds -> Checks] /\ \A p \in ProofIds : latest'[p] = IF p = c.proof THEN k ELSE latest[p]
    BY <1>1, <2>1, <2>2, <2>3
  <2>5. \A p \in ProofIds : latest'[p].answer = "match" => held[p] = "own"
    BY <1>1, <2>1, <2>2, <2>4
  <2> QED
    BY <1>0, <2>3, <2>4, <2>5, CallerGoesOn DEF CallerRest
<1>6. ASSUME NEW u \in Callers_CP, GiveUp_CP(u) PROVE CaseProofsInv'
  <2>1. CallerMoves(u, CallerRest) /\ UNCHANGED <<caseVars, rowVars, latest, summary, pages>>
    BY <1>6 DEF GiveUp_CP
  <2> QED
    BY <1>0, <1>1, <2>1, CallerGoesOn DEF CallerRest
<1>7. ASSUME NEW v \in EvidenceVersions, Damage(v) PROVE CaseProofsInv'
  <2>1. decided <= decided
    BY DEF ProofsTyped
  <2> QED
    BY <1>7, <2>1, CaseGoesOn DEF Damage, ProofsTyped, rowVars
<1> QED
  BY <1>2, <1>3, <1>4, <1>5, <1>6, <1>7 DEF Verifying

\* The proofs a summary reads: what is confirmed has its entry, and a decision is one
\* that was made.
LEMMA RowsRead ==
    ASSUME CaseProofsAssumption, CaseProofsInv
    PROVE  /\ RowsNow \in Rows_CP
           /\ \A x \in RowsNow.confirmed : HeldFor(x)
           /\ RowsNow.decision \in RowsNow.confirmed => RowsNow.decision \in 1..decided
<1> USE DEF CaseProofsInv
<1> DEFINE Confirmed == {q \in Requested : Lifecycle(proof[q].state) = "CONFIRMED"}
           Active == {q \in Requested : Lifecycle(proof[q].state) \in {"PENDING", "SUBMITTED"}}
           C == {proof[p].target : p \in Confirmed}
           A == {proof[p].target : p \in Active}
           First == {p \in DecisionProofs : \A q \in DecisionProofs \ {p} : Later(p, q)}
           d == IF First = {} THEN NoTarget ELSE proof[CHOOSE p \in First : TRUE].target
           w == \E p \in Requested : Mismatched(p)
<1>1. \A p \in Requested : proof[p].target \in Provable /\ proof[p].target \in Targets
  BY DEF SagaSound, Provable, Targets, Decisions, ProofsTyped
<1>2. C \subseteq Targets /\ A \subseteq Targets
  BY <1>1
<1>3. d \in Targets \union {NoTarget} /\ (d # NoTarget => d \in 1..decided)
  <2>1. CASE First = {}
    BY <2>1
  <2>2. CASE First # {}
    <3>1. PICK p \in First : d = proof[p].target
      BY <2>2
    <3>2. p \in Requested /\ proof[p].target \in Decisions
      BY DEF DecisionProofs
    <3> HIDE DEF First, d
    <3>3. d \in Provable /\ d \in Nat /\ d \in Targets
      BY <1>1, <3>1, <3>2 DEF Decisions
    <3> QED
      BY <3>3 DEF Provable, CaseProofsAssumption
  <2> QED
    BY <2>1, <2>2
<1>4. RowsNow = [confirmed |-> C, active |-> A, decision |-> d, issue |-> w]
  BY Zenon DEF RowsNow
<1>5. w \in BOOLEAN
  BY Zenon
<1>6. \A x \in C : HeldFor(x)
  <2>1. ASSUME NEW p \in Confirmed PROVE proof[p].state = "CONFIRMED"
    BY DEF Lifecycle
  <2> QED
    BY <2>1 DEF SagaSound, HeldFor
<1>7. NoTarget \notin C
  BY <1>2 DEF CaseProofsAssumption, Targets, Decisions
<1> HIDE DEF C, A, d, w
<1> QED
  BY <1>2, <1>3, <1>4, <1>5, <1>6, <1>7 DEF Rows_CP

LEMMA SummingSound ==
    ASSUME CaseProofsAssumption, CaseProofsInv, Summing
    PROVE  CaseProofsInv'
<1> USE DEF CaseProofsInv
<1>1. UNCHANGED <<caseVars, rowVars, checkVars, pages>>
  BY DEF Summing, Open_CP, ReadPart
<1>2. RowsGrow /\ Requested' = Requested /\ Provable' = Provable
  BY <1>1, SameRows DEF Provable, caseVars, rowVars
<1>3. ASSUME summary' \in Summaries PROVE ProofsTyped'
  BY <1>1, <1>2, <1>3 DEF ProofsTyped, caseVars, rowVars, checkVars
<1>4. SagaSound' /\ CheckSound'
  BY <1>1, <1>2 DEF SagaSound, CheckSound, caseVars, rowVars, checkVars
<1>5. WalkSound'
  BY <1>1, <1>2, WalkKept
<1>6. \A x : HeldFor(x)' <=> HeldFor(x)
  BY <1>1, <1>2 DEF HeldFor, rowVars
<1>7. decided' = decided /\ decided \in Nat
  BY <1>1 DEF caseVars, ProofsTyped
<1>8. CASE Open_CP
  <2>1. summary' = Unread
    BY <1>8 DEF Open_CP
  <2>2. summary' \in Summaries
    BY <2>1 DEF Unread, NoRows, Summaries, Rows_CP
  <2>3. SummarySound'
    BY <2>1, <1>7 DEF SummarySound, Unread, NoRows
  <2> QED
    BY <1>3, <1>4, <1>5, <2>2, <2>3
<1>9. ASSUME NEW part \in Parts, ReadPart(part) PROVE CaseProofsInv'
  <2> DEFINE c == IF part = "evidence" THEN current ELSE summary.current
             d == IF part = "decision" THEN decided ELSE summary.decided
             w == IF part = "proofs" THEN RowsNow ELSE summary.rows
  <2>1. summary' = [summary EXCEPT !.left = @ \ {part}, !.current = c, !.decided = d, !.rows = w]
    BY <1>9 DEF ReadPart
  <2>2. c \in EvidenceVersions \union {NoTarget} /\ d \in 0..decided
    BY DEF ProofsTyped, Summaries, SummarySound
  <2>3. w \in Rows_CP
    BY RowsRead DEF ProofsTyped, Summaries
  <2>4. (\A x \in w.confirmed : HeldFor(x)) /\ (w.decision \in w.confirmed => w.decision \in 1..decided)
    BY RowsRead DEF SummarySound
  <2> HIDE DEF c, d, w
  <2>5. summary' \in Summaries /\ summary'.decided = d /\ summary'.rows = w
    <3>1. d \in Nat
      BY <1>7, <2>2
    <3> QED
      BY <2>1, <2>2, <2>3, <3>1 DEF ProofsTyped, Summaries
  <2>6. SummarySound'
    BY <1>6, <1>7, <2>2, <2>4, <2>5 DEF SummarySound
  <2> QED
    BY <1>3, <1>4, <1>5, <2>5, <2>6
<1> QED
  BY <1>8, <1>9 DEF Summing

\* A page adds the proofs that come next, each of them new to the list.
LEMMA PageRead ==
    ASSUME CaseProofsAssumption, CaseProofsInv, NextPage
    PROVE  pages' \in Walks /\ WalkSound'
<1> USE DEF CaseProofsInv
<1> DEFINE T == {p \in Requested : AfterCursor(p)}
           found == InOrder(T)
           n == Cardinality(T)
           k == IF n < PageSize THEN n ELSE PageSize
           page == SubSeq(found, 1, k)
           m == Len(pages.items)
<1>1. T \in SUBSET ProofIds /\ IsFiniteSet(T) /\ T \in SUBSET Requested
  <2>1. T \in SUBSET Requested /\ Requested \subseteq ProofIds
    BY DEF Requested
  <2> QED
    BY <2>1, FS_Subset DEF ProofsTyped
<1>2. /\ n \in Nat /\ found \in [1..n -> T]
      /\ \A i, j \in 1..n : i < j => Later(found[i], found[j])
      /\ \A p \in T : \E i \in 1..n : found[i] = p
  <2> HIDE DEF T
  <2> QED
    BY <1>1, InOrderSorts DEF ProofsTyped
<1>3. found \in Seq(T) /\ Len(found) = n
  <2> HIDE DEF found, T, n
  <2> QED
    BY <1>2
<1>4. PageSize \in Nat /\ PageSize > 0 /\ k \in 0..n /\ k \in Nat /\ (n > PageSize => k = PageSize)
      /\ (~(n > PageSize) => k = n)
  <2> HIDE DEF n
  <2> QED
    BY <1>2 DEF CaseProofsAssumption
<1>5. page \in Seq(T) /\ Len(page) = k /\ \A i \in 1..k : page[i] = found[i]
  <2> HIDE DEF found, T, n, k
  <2> QED
    BY <1>2, <1>3, <1>4
<1>6. pages.items \in Seq(ProofIds) /\ m \in Nat /\ pages.pc = "walk"
  BY DEF ProofsTyped, Walks, NextPage
<1>7. pages' = [pages EXCEPT !.items = @ \o page,
                !.cursor = IF n > PageSize THEN Last(page) ELSE @,
                !.pc = IF n > PageSize THEN "walk" ELSE "done"]
      /\ UNCHANGED <<caseVars, rowVars, checkVars, summary>>
  <2>1. SubSeq(found, 1, IF Len(found) < PageSize THEN Len(found) ELSE PageSize) = page
    BY <1>3
  <2> QED
    BY <1>3, <2>1 DEF NextPage
<1> DEFINE items == pages.items \o page
<1>8. items \in Seq(ProofIds) /\ Len(items) = m + k
      /\ (\A i \in 1..m : items[i] = pages.items[i]) /\ (\A i \in 1..k : items[m + i] = page[i])
  <2>1. page \in Seq(ProofIds)
    <3> HIDE DEF page, T
    <3> QED
      BY <1>1, <1>5, SeqMonotonic
  <2> HIDE DEF page, k
  <2> QED
    BY <1>4, <1>5, <1>6, <2>1
<1> DEFINE cursor == IF n > PageSize THEN Last(page) ELSE pages.cursor
           pc == IF n > PageSize THEN "walk" ELSE "done"
<1>9. n > PageSize => cursor \in T /\ cursor = found[k] /\ k \in 1..n
  <2> SUFFICES ASSUME n > PageSize PROVE cursor \in T /\ cursor = found[k] /\ k \in 1..n
    OBVIOUS
  <2>1. k = PageSize /\ k \in 1..k /\ k \in 1..n
    <3> HIDE DEF k, n
    <3> QED
      BY <1>2, <1>4
  <2>2. cursor = page[k]
    BY <1>5 DEF Last
  <2>3. cursor = found[k] /\ found[k] \in T
    <3> HIDE DEF cursor, page, found, k, T, n
    <3> QED
      BY <1>2, <1>5, <2>1, <2>2
  <2> QED
    BY <2>1, <2>3
<1>10. pages' \in Walks /\ pages'.items = items /\ pages'.cursor = cursor /\ pages'.pc = pc
       /\ pages'.start = pages.start
  <2>1. cursor \in ProofIds \union {NoProof}
    <3>1. CASE n > PageSize
      <4> HIDE DEF cursor, T
      <4> QED
        BY <1>1, <1>9, <3>1
    <3>2. CASE ~(n > PageSize)
      BY <3>2 DEF ProofsTyped, Walks
    <3> QED
      BY <3>1, <3>2
  <2>2. pc \in {"walk", "done"}
    OBVIOUS
  <2>3. pages' = [pages EXCEPT !.items = items, !.cursor = cursor, !.pc = pc]
    BY <1>7
  <2> HIDE DEF cursor, pc, items
  <2> QED
    BY <1>8, <2>1, <2>2, <2>3 DEF ProofsTyped, Walks
<1>11. Requested' = Requested
  BY <1>7 DEF rowVars, Requested
<1>12. \A p, q : Later(p, q)' <=> Later(p, q)
  BY <1>7 DEF rowVars, Later
<1> DEFINE OnPage(p) == \E i \in 1..k : found[i] = p
<1>13. ASSUME NEW p PROVE Listed(p)' <=> Listed(p) \/ OnPage(p)
  <2>1. Listed(p)' <=> \E i \in 1..(m + k) : items[i] = p
    <3> HIDE DEF items, m, k
    <3> QED
      BY <1>8, <1>10 DEF Listed
  <2>2. (\E i \in 1..(m + k) : items[i] = p) => (\E i \in 1..m : pages.items[i] = p) \/ \E i \in 1..k : found[i] = p
    <3> SUFFICES ASSUME NEW i \in 1..(m + k), items[i] = p
                 PROVE  (\E j \in 1..m : pages.items[j] = p) \/ \E j \in 1..k : found[j] = p
      OBVIOUS
    <3> HIDE DEF items, m, k, found, page
    <3>1. CASE i <= m
      <4>1. i \in 1..m
        BY <1>4, <1>6, <3>1
      <4> QED
        BY <1>8, <4>1
    <3>2. CASE i > m
      <4>1. i - m \in 1..k /\ m + (i - m) = i
        BY <1>4, <1>6, <3>2
      <4> QED
        BY <1>5, <1>8, <4>1
    <3> QED
      BY <1>4, <1>6, <3>1, <3>2
  <2>3. (\E i \in 1..m : pages.items[i] = p) => \E i \in 1..(m + k) : items[i] = p
    <3>1. \A i \in 1..m : i \in 1..(m + k)
      <4> HIDE DEF m, k
      <4> QED
        BY <1>4, <1>6
    <3> HIDE DEF items, m, k
    <3> QED
      BY <1>8, <3>1
  <2>4. (\E i \in 1..k : found[i] = p) => \E i \in 1..(m + k) : items[i] = p
    <3> HIDE DEF items, m, k, found, page
    <3>1. \A i \in 1..k : m + i \in 1..(m + k)
      BY <1>4, <1>6
    <3> QED
      BY <1>5, <1>8, <3>1
  <2> HIDE DEF items, m, k, found
  <2> QED
    BY <2>1, <2>2, <2>3, <2>4 DEF Listed, m
<1>14. ASSUME NEW i \in 1..k PROVE found[i] \in T /\ i \in 1..n /\ i \in Nat
  <2> HIDE DEF found, T, n, k
  <2> QED
    BY <1>2, <1>4
<1>15. Requested \subseteq ProofIds
  BY DEF Requested
<1>16. ASSUME NEW p, Listed(p) PROVE p \in Requested /\ p \notin T
  BY <1>6, <1>16 DEF WalkSound, Listed
\* No proof twice.
<1>17. ASSUME NEW i \in 1..(m + k), NEW j \in 1..(m + k), i < j PROVE items[i] # items[j]
  <2>0. i \in Nat /\ j \in Nat /\ m \in Nat /\ k \in Nat
    <3> HIDE DEF m, k
    <3> QED
      BY <1>4, <1>6
  <2>1. CASE j <= m
    <3>1. i \in 1..m /\ j \in 1..m /\ i # j
      <4> HIDE DEF m, k
      <4> QED
        BY <2>0, <2>1, <1>17
    <3>2. pages.items[i] # pages.items[j]
      BY <3>1 DEF WalkSound
    <3> HIDE DEF items, m
    <3> QED
      BY <1>8, <3>1, <3>2
  <2>2. CASE i <= m /\ j > m
    <3>1. i \in 1..m /\ j - m \in 1..k /\ m + (j - m) = j
      <4> HIDE DEF m, k
      <4> QED
        BY <2>0, <2>2, <1>17
    <3>2. items[i] = pages.items[i] /\ items[j] = found[j - m]
      <4> HIDE DEF items, m, k, page, found
      <4> QED
        BY <1>5, <1>8, <3>1
    <3>3. Listed(items[i])
      BY <3>1, <3>2 DEF Listed
    <3>4. items[j] \in T
      <4> HIDE DEF items, m, k, found, T, n
      <4> QED
        BY <1>14, <3>1, <3>2
    <3> HIDE DEF items, T
    <3> QED
      BY <1>16, <3>3, <3>4
  <2>3. CASE i > m
    <3>1. i - m \in 1..k /\ j - m \in 1..k /\ m + (i - m) = i /\ m + (j - m) = j /\ i - m < j - m
      <4> HIDE DEF m, k
      <4> QED
        BY <2>0, <2>3, <1>17
    <3>2. items[i] = found[i - m] /\ items[j] = found[j - m]
      <4> HIDE DEF items, m, k, page, found
      <4> QED
        BY <1>5, <1>8, <3>1
    <3> HIDE DEF items, m, k, found, T, n
    <3>3. Later(items[i], items[j]) /\ items[i] \in T
      BY <1>2, <1>14, <3>1, <3>2
    <3>4. ~Later(items[i], items[i])
      BY <1>1, <3>3, LaterOrders DEF ProofsTyped
    <3> QED
      BY <3>3, <3>4
  <2> QED
    BY SMTT(60), <2>0, <2>1, <2>2, <2>3
\* The cursor separates what is listed from what is to come.
<1>18. ASSUME n > PageSize, NEW p \in Requested, Listed(p) \/ OnPage(p) PROVE ~Later(cursor, p)
  <2> HIDE DEF cursor
  <2>1. cursor \in T /\ cursor \in ProofIds /\ p \in ProofIds
    <3> HIDE DEF T
    <3> QED
      BY <1>1, <1>9, <1>15, <1>18
  <2>2. CASE Listed(p)
    <3>1. pages.cursor \in ProofIds /\ ~Later(pages.cursor, p)
      BY <1>6, <1>15, <2>2 DEF WalkSound, AfterCursor
    <3>2. Later(pages.cursor, cursor)
      <4>1. pages.cursor # NoProof
        BY <3>1 DEF CaseProofsAssumption, NoProof
      <4> QED
        BY <2>1, <4>1 DEF AfterCursor
    <3> QED
      BY <2>1, <3>1, <3>2, LaterOrders DEF ProofsTyped
  <2>3. CASE OnPage(p)
    <3>1. PICK i \in 1..k : found[i] = p
      BY <2>3
    <3>2. i \in 1..n /\ k \in 1..n /\ i <= k /\ i \in Nat /\ k \in Nat /\ cursor = found[k]
      <4> HIDE DEF k, n, found, T
      <4> QED
        BY <1>4, <1>9, <1>14, <1>18
    <3>3. p = cursor \/ Later(p, cursor)
      <4> HIDE DEF k, n, found, T
      <4> QED
        BY <1>2, <3>1, <3>2
    <3> QED
      BY <2>1, <3>3, LaterOrders DEF ProofsTyped
  <2> QED
    BY <1>18, <2>2, <2>3
\* Nothing that was there is left out.
<1>19. ASSUME NEW p \in pages.start, ~Listed(p) PROVE \E i \in 1..n : found[i] = p
  <2>1. p \in T
    BY <1>6, <1>19 DEF WalkSound
  <2> HIDE DEF T, n, found
  <2> QED
    BY <1>2, <2>1
<1>20. ASSUME n > PageSize, NEW p \in pages.start PROVE Listed(p) \/ OnPage(p) \/ Later(cursor, p)
  <2> SUFFICES ASSUME ~Listed(p) PROVE OnPage(p) \/ Later(cursor, p)
    OBVIOUS
  <2>1. PICK i \in 1..n : found[i] = p
    BY <1>19
  <2> HIDE DEF cursor, k, n, found, T
  <2>2. CASE i <= k
    <3>1. i \in 1..k
      BY <1>2, <1>4, <2>2
    <3> QED
      BY <2>1, <3>1
  <2>3. CASE i > k
    BY <1>2, <1>4, <1>9, <1>20, <2>1, <2>3
  <2> QED
    BY <1>2, <1>4, <2>2, <2>3
<1>21. ASSUME ~(n > PageSize), NEW p \in pages.start PROVE Listed(p) \/ OnPage(p)
  <2> SUFFICES ASSUME ~Listed(p) PROVE OnPage(p)
    OBVIOUS
  <2>1. PICK i \in 1..n : found[i] = p
    BY <1>19
  <2>2. k = n
    BY <1>4, <1>21
  <2> QED
    BY <2>1, <2>2
<1> HIDE DEF cursor, pc, items, found, T, n, k, page, m, OnPage
<1>22. n > PageSize => cursor # NoProof /\ cursor \in Requested
  BY <1>1, <1>9, <1>15 DEF CaseProofsAssumption, NoProof
<1>23. (pc = "walk" <=> n > PageSize) /\ (pc = "done" <=> ~(n > PageSize))
  BY DEF pc
<1>24. n > PageSize => \A p : AfterCursor(p)' <=> Later(cursor, p)
  BY <1>10, <1>12, <1>22 DEF AfterCursor
<1>25. pages'.start \subseteq Requested'
  BY <1>10, <1>11 DEF WalkSound
<1>26. \A i \in 1..Len(pages'.items) : pages'.items[i] \in Requested'
  <2>1. ASSUME NEW i \in 1..Len(pages'.items) PROVE pages'.items[i] \in Requested'
    <3>0. PICK p : p = pages'.items[i]
      OBVIOUS
    <3>1. Listed(p)'
      BY <2>1, <3>0 DEF Listed
    <3>2. Listed(p) \/ OnPage(p)
      BY <3>1, <1>13
    <3>3. OnPage(p) => p \in T
      BY <1>14 DEF OnPage
    <3> QED
      BY <3>0, <3>2, <3>3, <1>1, <1>11, <1>16
  <2> QED
    BY <2>1
<1>27. \A i, j \in 1..Len(pages'.items) : pages'.items[i] = pages'.items[j] => i = j
  <2>1. m + k \in Nat
    BY <1>4, <1>6
  <2> QED
    BY <1>8, <1>10, <1>17, <2>1
<1>28. pages'.pc = "walk" =>
          /\ pages'.cursor \in Requested' \union {NoProof}
          /\ \A p \in Requested' : Listed(p)' => ~AfterCursor(p)'
          /\ \A p \in pages'.start : Listed(p)' \/ AfterCursor(p)'
  BY <1>10, <1>11, <1>13, <1>18, <1>20, <1>22, <1>23, <1>24
<1>29. pages'.pc = "done" => \A p \in pages'.start : Listed(p)'
  BY <1>10, <1>13, <1>21, <1>23
<1> QED
  BY <1>10, <1>25, <1>26, <1>27, <1>28, <1>29 DEF WalkSound

LEMMA ListingSound ==
    ASSUME CaseProofsAssumption, CaseProofsInv, Listing
    PROVE  CaseProofsInv'
<1> USE DEF CaseProofsInv
<1>1. UNCHANGED <<caseVars, rowVars, checkVars, summary>>
  BY DEF Listing, StartWalk, NextPage
<1>2. RowsGrow /\ Requested' = Requested /\ Provable' = Provable
  BY <1>1, SameRows DEF Provable, caseVars, rowVars
<1>3. ASSUME pages' \in Walks PROVE ProofsTyped'
  BY <1>1, <1>2, <1>3 DEF ProofsTyped, caseVars, rowVars, checkVars
<1>4. SagaSound' /\ CheckSound'
  BY <1>1, <1>2 DEF SagaSound, CheckSound, caseVars, rowVars, checkVars
<1>5. SummarySound'
  <2>1. decided' = decided /\ decided \in Nat
    BY <1>1 DEF caseVars, ProofsTyped
  <2> QED
    BY <1>1, <1>2, <2>1, SummaryKept
<1>6. CASE StartWalk
  <2>1. pages' = [NoPages EXCEPT !.pc = "walk", !.start = Requested]
    BY <1>6 DEF StartWalk
  <2>2. Requested \subseteq ProofIds
    BY DEF Requested
  <2>3. /\ pages' \in Walks /\ pages'.pc = "walk" /\ pages'.start = Requested
        /\ pages'.cursor = NoProof /\ pages'.items = <<>>
    <3>1. pages' = [pc |-> "walk", start |-> Requested, cursor |-> NoProof, items |-> <<>>]
      <4>1. NoPages = [pc |-> "idle", start |-> {}, cursor |-> NoProof, items |-> <<>>]
        BY DEF NoPages
      <4> QED
        BY <2>1, <4>1
    <3>2. <<>> \in Seq(ProofIds)
      OBVIOUS
    <3> HIDE DEF NoProof
    <3> QED
      BY <2>2, <3>1, <3>2 DEF Walks
  <2>4. WalkSound'
    BY <1>2, <2>3 DEF WalkSound, Listed, AfterCursor
  <2> QED
    BY <1>3, <1>4, <1>5, <2>3, <2>4
<1>7. CASE NextPage
  BY <1>3, <1>4, <1>5, <1>7, PageRead
<1> QED
  BY <1>6, <1>7 DEF Listing

\* The inductive invariant of CaseProofs: proofs are requested for what there is and
\* confirmed only with an entry on the ledger, a recorded match is the ledger's own
\* record, what a summary has read stays true, and a walk has listed the proofs up to
\* its cursor, each once.
THEOREM CaseProofsInvariant == CaseProofsSpec => []CaseProofsInv
<1>1. CaseProofsInit => CaseProofsInv
  BY CaseProofsAssumption, CaseProofsStart
<1>2. CaseProofsInv /\ [CaseProofsNext]_caseProofsVars => CaseProofsInv'
  <2> SUFFICES ASSUME CaseProofsInv, [CaseProofsNext]_caseProofsVars PROVE CaseProofsInv'
    OBVIOUS
  <2>1. CASE CaseProofsNext
    BY <2>1, CaseProofsAssumption, MovesSound, RequestingSound, SagaKeepsInv, VerifyingSound,
       SummingSound, ListingSound DEF CaseProofsNext
  <2>2. CASE UNCHANGED caseProofsVars
    <3>1. decided \in 0..MaxDecisions /\ decided <= decided /\ current \in EvidenceVersions \union {NoTarget}
          /\ available \subseteq EvidenceVersions /\ now_CP \in Nat
      BY DEF CaseProofsInv, ProofsTyped
    <3> QED
      BY <2>2, <3>1, CaseGoesOn DEF caseProofsVars, caseVars, rowVars
  <2> QED
    BY <2>1, <2>2
<1> QED
  BY <1>1, <1>2, PTL DEF CaseProofsSpec

----------------------------------------------------------------------------
(* What the portal shows. *)

\* How many of two values are in a set.
LEMMA PairCount ==
    ASSUME NEW x, NEW y, NEW S
    PROVE  LET k == Cardinality({x, y} \intersect S) IN
           /\ k \in Nat /\ k <= 2
           /\ k > 0 => x \in S \/ y \in S
           /\ k = 2 => x \in S /\ y \in S
<1> DEFINE B == {x, y} \intersect S
           k == Cardinality(B)
<1> SUFFICES /\ k \in Nat /\ k <= 2
             /\ k > 0 => x \in S \/ y \in S
             /\ k = 2 => x \in S /\ y \in S
  OBVIOUS
<1>1. IsFiniteSet({x}) /\ Cardinality({x}) = 1 /\ IsFiniteSet({y}) /\ Cardinality({y}) = 1
  BY FS_Singleton
<1>2. CASE x \in S /\ y \in S
  <2>1. B = {x} \union {y}
    BY <1>2
  <2>2. k \in {1, 2}
    BY <1>1, <2>1, FS_AddElement
  <2> HIDE DEF k
  <2> QED
    BY <1>2, <2>2
<1>3. CASE x \in S /\ y \notin S
  <2>1. B = {x}
    BY <1>3
  <2>2. k = 1
    BY <1>1, <2>1
  <2> HIDE DEF k
  <2> QED
    BY <1>3, <2>2
<1>4. CASE x \notin S /\ y \in S
  <2>1. B = {y}
    BY <1>4
  <2>2. k = 1
    BY <1>1, <2>1
  <2> HIDE DEF k
  <2> QED
    BY <1>4, <2>2
<1>5. CASE x \notin S /\ y \notin S
  <2>1. B = {}
    BY <1>5
  <2>2. k = 0
    BY <2>1, FS_EmptySet
  <2> HIDE DEF k
  <2> QED
    BY <1>5, <2>2
<1> QED
  BY <1>2, <1>3, <1>4, <1>5

\* When as many targets were found as are eligible, each eligible one was found, unless a
\* decision proof was there for a decision that was not: then one of the two was.
LEMMA FullCount ==
    ASSUME NEW s \in Summaries, NEW S, NoTarget \notin S,
           CountIn(s, S) = Eligible(s), Eligible(s) > 0
    PROVE  /\ s.decided > 0 =>
                 (s.current # NoTarget => s.current \in S) /\ s.rows.decision \in S
           /\ s.rows.decision = NoTarget => (s.current # NoTarget => s.current \in S) /\ s.decided = 0
           /\ s.current \in S \/ s.rows.decision \in S
<1> DEFINE x == s.current
           y == s.rows.decision
           n == Cardinality({x, y} \intersect S)
           d == s.decided
           a == IF x = NoTarget THEN 0 ELSE 1
           b == IF d > 0 THEN 1 ELSE 0
<1>1. n = a + b /\ n > 0
  BY DEF CountIn, Eligible
<1>2. d \in Nat
  BY DEF Summaries
<1>3. n \in Nat /\ n <= 2 /\ (n > 0 => x \in S \/ y \in S) /\ (n = 2 => x \in S /\ y \in S)
  BY PairCount
<1> HIDE DEF n, x, y, d
<1>4. x \in S \/ y \in S
  BY <1>1, <1>3
<1>5. ASSUME d > 0 PROVE (x # NoTarget => x \in S) /\ y \in S
  <2>1. CASE x = NoTarget
    BY <1>4, <2>1
  <2>2. CASE x # NoTarget
    <3>1. n = 2
      BY <1>1, <1>5, <2>2
    <3> QED
      BY <1>3, <3>1
  <2> QED
    BY <2>1, <2>2
<1>6. ASSUME y = NoTarget PROVE (x # NoTarget => x \in S) /\ d = 0
  <2>1. y \notin S
    BY <1>6
  <2>2. ~(d > 0)
    BY <1>5, <2>1
  <2> QED
    BY <1>2, <1>4, <2>1, <2>2
<1> QED
  BY <1>4, <1>5, <1>6 DEF x, y, d

\* A case is shown ANCHORED only when as many targets were found confirmed as are eligible.
LEMMA AnchoredIsFull ==
    ASSUME NEW s \in Summaries, SummaryState(s) = "ANCHORED"
    PROVE  CountIn(s, s.rows.confirmed) = Eligible(s) /\ Eligible(s) > 0
<1> DEFINE n == CountIn(s, s.rows.confirmed)
           e == Eligible(s)
           more == CountIn(s, s.rows.active) > 0
<1>1. n \in Nat /\ e \in Nat
  <2>1. n \in Nat
    BY PairCount DEF CountIn
  <2>2. e \in Nat
    BY DEF Eligible
  <2> QED
    BY <2>1, <2>2
<1>2. s.rows.issue \in BOOLEAN
  BY DEF Summaries, Rows_CP
<1> SUFFICES ASSUME ~(n = e /\ e > 0) PROVE FALSE
  OBVIOUS
<1>3. CASE s.rows.issue
  <2>1. SummaryState(s) = "VERIFICATION_ISSUE"
    BY <1>3 DEF SummaryState
  <2> QED
    BY <2>1
<1>4. CASE ~s.rows.issue /\ e = 0
  <2> HIDE DEF n, e
  <2>1. SummaryState(s) = "NOT_ELIGIBLE"
    BY <1>4 DEF SummaryState, n, e
  <2> QED
    BY <2>1
<1>5. CASE ~s.rows.issue /\ e # 0 /\ n # 0
  <2> HIDE DEF n, e
  <2>1. e > 0 /\ n # e /\ n \notin {0, e}
    BY <1>1, <1>5
  <2>2. SummaryState(s) = "PARTIALLY_ANCHORED"
    BY <1>5, <2>1 DEF SummaryState, n, e
  <2> QED
    BY <2>2
<1>6. CASE ~s.rows.issue /\ e # 0 /\ n = 0
  <2> HIDE DEF n, e
  <2>1. e > 0 /\ n # e /\ n \in {0, e}
    BY <1>1, <1>6
  <2>2. SummaryState(s) = IF more THEN "ANCHORING" ELSE "NOT_YET_ANCHORED"
    BY <1>6, <2>1 DEF SummaryState, n, e
  <2> QED
    BY <2>2
<1> QED
  BY <1>2, <1>3, <1>4, <1>5, <1>6

\* ShownIsHeld: a case with one decision that is shown ANCHORED has an entry on the ledger
\* for its evidence and its decision, or for one of the two if the decision was asked for
\* before it was made; and a proof shown verified is the ledger's own record; for any
\* number of versions, proofs and readers.
THEOREM ShownIsOnLedger == CaseProofsSpec => []ShownIsHeld
<1>1. CaseProofsInv => ShownIsHeld
  <2> SUFFICES ASSUME CaseProofsInv PROVE ShownIsHeld
    OBVIOUS
  <2> USE DEF CaseProofsInv
  <2>1. ASSUME Shown = "ANCHORED", decided <= 1 PROVE AnchoredIsHeld
    <3> DEFINE S == summary.rows.confirmed
    <3>1. SummaryState(summary) = "ANCHORED"
      BY <2>1 DEF Shown
    <3>2. summary \in Summaries /\ NoTarget \notin S
      <4>1. summary \in Summaries
        BY DEF ProofsTyped
      <4>2. S \subseteq Targets
        BY <4>1 DEF Summaries, Rows_CP
      <4> QED
        BY <4>1, <4>2, CaseProofsAssumption DEF CaseProofsAssumption, Targets, Decisions
    <3>3. CountIn(summary, S) = Eligible(summary) /\ Eligible(summary) > 0
      BY <3>1, <3>2, AnchoredIsFull
    <3>4. /\ summary.decided > 0 =>
                (summary.current # NoTarget => summary.current \in S) /\ summary.rows.decision \in S
          /\ summary.rows.decision = NoTarget =>
                (summary.current # NoTarget => summary.current \in S) /\ summary.decided = 0
          /\ summary.current \in S \/ summary.rows.decision \in S
      BY <3>2, <3>3, FullCount
    <3>5. ASSUME summary.decided > 0 PROVE summary.rows.decision = summary.decided
      <4>1. summary.rows.decision \in 1..decided /\ summary.decided \in 0..decided /\ decided \in Nat
        BY <3>4, <3>5 DEF SummarySound, ProofsTyped
      <4>2. decided = 1
        BY <2>1, <3>5, <4>1
      <4> QED
        BY <3>5, <4>1, <4>2
    <3>6. \A x \in S : HeldFor(x)
      BY DEF SummarySound
    <3>7. CASE summary.decided > 0
      BY <3>4, <3>5, <3>6, <3>7 DEF AnchoredIsHeld
    <3>8. CASE ~(summary.decided > 0) /\ summary.rows.decision = NoTarget
      BY <3>4, <3>6, <3>8 DEF AnchoredIsHeld
    <3>9. CASE ~(summary.decided > 0) /\ summary.rows.decision # NoTarget
      BY <3>4, <3>6, <3>9 DEF AnchoredIsHeld
    <3> QED
      BY <3>7, <3>8, <3>9
  <2>2. ASSUME NEW p \in Requested, OverallVerified(p) PROVE held[p] = "own"
    <3>1. p \in ProofIds
      BY DEF Requested
    <3> QED
      BY <2>2, <3>1 DEF OverallVerified, CheckSound
  <2>3. AnchoredIsHeld
    BY <2>1 DEF AnchoredIsHeld
  <2> QED
    BY <2>2, <2>3 DEF ShownIsHeld, VerifiedIsHeld
<1> QED
  BY <1>1, CaseProofsInvariant, PTL

\* PagedOnce: whatever is requested while a user pages through the list, each proof that
\* was there at the start is listed exactly once, for every size of page.
THEOREM WalkListsAll == CaseProofsSpec => []PagedOnce
<1>1. CaseProofsInv => PagedOnce
  <2> SUFFICES ASSUME CaseProofsInv, pages.pc = "done", NEW p \in pages.start
               PROVE  Cardinality({i \in DOMAIN pages.items : pages.items[i] = p}) = 1
    BY DEF PagedOnce
  <2>1. DOMAIN pages.items = 1..Len(pages.items)
    BY DEF CaseProofsInv, ProofsTyped, Walks
  <2>2. PICK i \in 1..Len(pages.items) : pages.items[i] = p
    BY DEF CaseProofsInv, WalkSound, Listed
  <2>3. {j \in DOMAIN pages.items : pages.items[j] = p} = {i}
    BY <2>1, <2>2 DEF CaseProofsInv, WalkSound
  <2> QED
    BY <2>3, FS_Singleton
<1> QED
  BY <1>1, CaseProofsInvariant, PTL

----------------------------------------------------------------------------
(* The types of these components.  What their invariants leave of them is   *)
(* bounds, and facts that no other property needs.                          *)

\* The tokens, the sessions and the refreshes of every tab keep their types through
\* every login, rotation and logout of AuthService.
THEOREM SessionTypeCorrect == SessionSpec => []SessionTypeOK
  BY SessionInvariant, PTL DEF SessionInv

\* The bounds on what was sent and on the reads of the partition that begin again.
ProjectionBounds == Len(partition) <= MaxSent /\ rereads \in 0..MaxRereads

\* Only a row that is sent and a reader that begins again come near them.
LEMMA ProjectionBounded ==
  ASSUME ProjectionInv, ProjectionBounds, [ProjectionNext]_projectionVars
  PROVE  ProjectionBounds'
  <1> USE DEF ProjectionBounds
  <1>1. CASE UNCHANGED <<partition, rereads>>
    BY <1>1
  <1>2. ASSUME NEW f \in Flushes, SendRow(f) PROVE ProjectionBounds'
    <2>1. partition \in Seq(1..appended) /\ Len(partition) \in Nat /\ MaxSent \in Nat
      BY ProjectionAssumption, LenProperties DEF ProjectionInv, RelayTyped, ProjectionAssumption
    <2>2. Len(partition') = Len(partition) + 1
      BY <1>2, <2>1 DEF SendRow
    <2> QED
      BY <1>2, <2>1, <2>2 DEF SendRow
  <1>3. CASE ReadAgain
    BY <1>3, ProjectionAssumption DEF ReadAgain, relay, ProjectionAssumption
  <1>4. ASSUME ProjectionNext, ~(\E f \in Flushes : SendRow(f)), ~ReadAgain
        PROVE  UNCHANGED <<partition, rereads>>
    BY <1>4 DEF ProjectionNext, AppendEvent, ConsumeEvent, CommitRead, StartFlush, MarkRow, RowFails,
                RowComesDue, relay
  <1> QED
    BY <1>1, <1>2, <1>3, <1>4 DEF projectionVars, relay

\* The outbox, its flushes, the partition and the timelines of the case keep their
\* types, whatever is flushed, sent again or read again.
THEOREM ProjectionTypeCorrect == ProjectionSpec => []ProjectionTypeOK
  <1>1. ProjectionInit => ProjectionBounds
    BY ProjectionAssumption, EmptySeq DEF ProjectionInit, ProjectionBounds, ProjectionAssumption
  <1>2. ProjectionInv /\ ProjectionBounds /\ [ProjectionNext]_projectionVars => ProjectionBounds'
    BY ProjectionBounded
  <1>3. ProjectionInv /\ ProjectionBounds => ProjectionTypeOK
    <2> SUFFICES ASSUME ProjectionInv, ProjectionBounds PROVE ProjectionTypeOK
      OBVIOUS
    <2>1. RelayTyped /\ appended \in 0..MaxAppended /\ MaxAppended \in Nat
      BY ProjectionAssumption DEF ProjectionInv, RelayTyped, ProjectionAssumption
    <2>2. SUBSET (1..appended) \subseteq SUBSET AssetEvents
      BY <2>1 DEF AssetEvents
    <2>3. flush \in [Flushes -> [pc : {"idle", "send", "mark"}, left : SUBSET AssetEvents]]
      BY <2>1, <2>2 DEF RelayTyped
    <2>4. timeline \in [AssetEvents -> Nat]
      BY DEF ProjectionInv, ViewSound
    <2> QED
      BY <2>1, <2>3, <2>4 DEF RelayTyped, ProjectionBounds, ProjectionTypeOK
  <1> QED
    BY <1>1, <1>2, <1>3, ProjectionInvariant, PTL DEF ProjectionSpec

\* Each content was written, once; a request that changes, publishes or retires a
\* version found its row, and rows are not deleted.
Drafted(v) == text[v].status # "NONE"
WorksOn(e) == editor[e].pc \in {"update", "publish", "retire"}
ContentSound ==
    /\ contents <= MaxContents
    /\ \A v \in VersionIds : text[v].content <= contents /\ (Drafted(v) => text[v].content >= 1)
    /\ \A e \in Editors : WorksOn(e) => Drafted(editor[e].version)
    /\ \A p \in pins : p.content \in 1..contents

\* No row changes.
LEMMA ContentSame ==
  ASSUME VersionsTyped, ContentSound, UNCHANGED <<text, contents>>,
         \A e \in Editors : editor'[e] = editor[e] \/ (WorksOn(e)' => Drafted(editor'[e].version)),
         \A p \in pins' : p \in pins \/ (\E v \in VersionIds : Drafted(v) /\ p.content = text[v].content)
  PROVE  ContentSound'
  <1>1. contents \in Nat /\ \A v \in VersionIds : text[v].content \in Nat
    BY DEF VersionsTyped, TextRecs
  <1>2. \A e \in Editors : WorksOn(e)' => Drafted(editor[e].version)'
    BY DEF ContentSound, WorksOn, Drafted
  <1>3. \A p \in pins' : p.content \in 1..contents
    BY <1>1 DEF ContentSound
  <1> QED
    BY <1>2, <1>3 DEF ContentSound, Drafted

\* One row changes, of which it is known that it exists or comes to exist.
LEMMA ContentWritten ==
  ASSUME VersionsInv, ContentSound, NEW v \in VersionIds, NEW s, NEW c, Rewrites(v, s, c),
         s # "NONE", c \in 1..contents',
         contents' \in Nat, contents <= contents', contents' <= MaxContents, pins' = pins,
         \A e \in Editors : editor'[e] \in {editor[e], EditorIdle}
  PROVE  ContentSound'
  <1>1. contents \in Nat /\ \A w \in VersionIds : text[w].content \in Nat
    BY DEF VersionsInv, VersionsTyped, TextRecs
  <1>2. ASSUME NEW w \in VersionIds
        PROVE  text'[w].content <= contents' /\ (Drafted(w)' => text'[w].content >= 1)
    BY <1>1 DEF ContentSound, Rewrites, Drafted
  <1>3. ASSUME NEW e \in Editors, WorksOn(e)' PROVE Drafted(editor[e].version)'
    <2>1. editor'[e] = editor[e]
      BY <1>3, IdleEditor DEF WorksOn
    <2>2. editor[e].version \in VersionIds /\ Drafted(editor[e].version)
      BY <1>3, <2>1 DEF VersionsInv, EditorSound, ContentSound, WorksOn
    <2> QED
      BY <2>1, <2>2 DEF Rewrites, Drafted
  <1>4. \A p \in pins' : p.content \in 1..contents'
    BY <1>1 DEF ContentSound
  <1> QED
    BY <1>2, <1>3, <1>4 DEF ContentSound

\* Every step of a governor or an editor keeps what is known of the contents.
LEMMA ContentKept ==
  ASSUME VersionsInv, ContentSound, [DefinitionsNext]_definitionVars
  PROVE  ContentSound'
  <1>1. VersionsTyped /\ contents \in Nat /\ contents <= MaxContents /\ MaxContents \in Nat
    BY DefinitionsAssumption DEF VersionsInv, VersionsTyped, ContentSound, DefinitionsAssumption
  <1>2. ASSUME NEW e \in Editors, NEW f, editor' = [editor EXCEPT ![e] = f],
               f.pc \in {"update", "publish", "retire"} => Drafted(f.version),
               UNCHANGED <<text, contents, pins>>
        PROVE  ContentSound'
    <2>1. \A g \in Editors : editor'[g] = IF g = e THEN f ELSE editor[g]
      BY <1>1, <1>2 DEF VersionsTyped
    <2> QED
      BY <1>1, <1>2, <2>1, ContentSame DEF WorksOn
  <1>3. ASSUME NEW e \in Editors, NEW v, NEW pc, NEW flag, EditorMoves(e, pc, v, flag),
               pc = "create" \/ Drafted(v), UNCHANGED <<text, contents, pins>>
        PROVE  ContentSound'
    <2> DEFINE f == [pc |-> pc, version |-> v, flag |-> flag]
    <2>1. f.pc = pc /\ f.version = v /\ editor' = [editor EXCEPT ![e] = f]
      BY <1>3 DEF EditorMoves
    <2> HIDE DEF f
    <2> QED
      BY <1>2, <1>3, <2>1
  <1>4. ASSUME NEW e \in Editors, EditorRests(e)
        PROVE  \A g \in Editors : editor'[g] \in {editor[g], EditorIdle}
    BY <1>1, <1>4, EditorGone DEF Turns
  <1>5. ASSUME NEW e \in Editors, EditorRests(e), UNCHANGED <<text, contents, pins>>
        PROVE  ContentSound'
    BY <1>1, <1>4, <1>5, IdleEditor, ContentSame DEF WorksOn
  <1>6. ASSUME NEW e \in Editors, \E t \in Templates : EnterCreate(e, t) PROVE ContentSound'
    BY <1>3, <1>6 DEF EnterCreate
  <1>7. ASSUME NEW e \in Editors, NEW v \in VersionIds, EnterUpdate(e, v) \/ EnterPublish(e, v) \/ EnterRetire(e, v)
        PROVE  ContentSound'
    <2>1. Drafted(v) /\ UNCHANGED <<text, contents, pins>>
      BY <1>7 DEF EnterUpdate, EnterPublish, EnterRetire, Drafted
    <2>2. PICK pc, flag : EditorMoves(e, pc, v, flag)
      BY <1>7 DEF EnterUpdate, EnterPublish, EnterRetire
    <2> QED
      BY <1>3, <2>1, <2>2
  <1>8. ASSUME NEW e \in Editors, CommitCreate(e) PROVE ContentSound'
    <2>1. PICK v \in VersionIds : v = editor[e].version
      BY <1>8 DEF VersionsInv, EditorSound, CommitCreate, EditorAt
    <2>2. EditorRests(e) /\ pins' = pins /\ contents < MaxContents
      BY <1>8 DEF CommitCreate
    <2>3. CASE /\ text' = [text EXCEPT ![v] = [status |-> "DRAFT", content |-> contents + 1]]
               /\ contents' = contents + 1
      <3>1. /\ contents' \in Nat /\ contents <= contents' /\ contents' <= MaxContents
            /\ contents + 1 \in 1..contents'
        BY <1>1, <2>2, <2>3
      <3>2. Rewrites(v, "DRAFT", contents + 1)
        BY <1>1, <2>3, <3>1 DEF Rewrites, TextRecs, VersionsTyped
      <3> QED
        BY <1>4, <2>2, <3>1, <3>2, ContentWritten
    <2> QED
      BY <1>5, <1>8, <2>1, <2>2, <2>3 DEF CommitCreate
  <1>9. ASSUME NEW e \in Editors, CommitUpdate(e) PROVE ContentSound'
    <2>1. PICK v \in VersionIds : v = editor[e].version /\ Drafted(v)
      BY <1>9 DEF VersionsInv, EditorSound, CommitUpdate, EditorAt, ContentSound, WorksOn
    <2>2. /\ EditorRests(e) /\ pins' = pins /\ contents < MaxContents
          /\ text' = [text EXCEPT ![v].content = contents + 1] /\ contents' = contents + 1
      BY <1>9, <2>1 DEF CommitUpdate
    <2>3. /\ contents' \in Nat /\ contents <= contents' /\ contents' <= MaxContents
          /\ contents + 1 \in 1..contents'
      BY <1>1, <2>2
    <2>4. Rewrites(v, text[v].status, contents + 1)
      BY <1>1, <2>2, <2>3 DEF Rewrites, TextRecs, VersionsTyped
    <2> QED
      BY <1>4, <2>1, <2>2, <2>3, <2>4, ContentWritten DEF Drafted
  <1>10. ASSUME NEW v \in VersionIds, NEW s \in {"PUBLISHED", "RETIRED"}, Drafted(v),
                text' = [text EXCEPT ![v].status = s], UNCHANGED <<contents, pins>>,
                \A g \in Editors : editor'[g] \in {editor[g], EditorIdle}
         PROVE  ContentSound'
    <2>1. Rewrites(v, s, text[v].content)
      BY <1>1, <1>10, TextSet
    <2>2. text[v].content \in 1..contents' /\ contents' \in Nat /\ contents <= contents'
      BY <1>1, <1>10 DEF ContentSound, VersionsTyped, TextRecs
    <2> QED
      BY <1>1, <1>10, <2>1, <2>2, ContentWritten
  <1>11. ASSUME NEW e \in Editors, CommitPublish(e) \/ CommitRetire(e) PROVE ContentSound'
    <2>1. PICK v \in VersionIds : v = editor[e].version /\ Drafted(v)
      BY <1>11 DEF VersionsInv, EditorSound, CommitPublish, CommitRetire, EditorAt, ContentSound, WorksOn
    <2>2. PICK s \in {"PUBLISHED", "RETIRED"} : text' = [text EXCEPT ![v].status = s]
      BY <1>11, <2>1 DEF CommitPublish, Publish, CommitRetire
    <2>3. EditorRests(e) /\ UNCHANGED <<contents, pins>>
      BY <1>11 DEF CommitPublish, CommitRetire
    <2> QED
      BY <1>4, <1>10, <2>1, <2>2, <2>3
  <1>12. ASSUME NEW v \in VersionIds, RetireDefinition(v) PROVE ContentSound'
    BY <1>10, <1>12 DEF RetireDefinition, Drafted
  <1>13. ASSUME NEW v \in VersionIds, Pin(v) PROVE ContentSound'
    <2>1. /\ Drafted(v) /\ pins' = pins \union {[version |-> v, content |-> text[v].content]}
          /\ UNCHANGED <<text, contents, editor>>
      BY <1>13 DEF Pin, Drafted
    <2> QED
      BY <1>1, <2>1, ContentSame
  <1>14. CASE \/ UNCHANGED definitionVars
              \/ \E d \in Definitions : Flag(d)
    BY <1>1, <1>14, ContentSame DEF definitionVars, Flag
  <1>15. ASSUME NEW e \in Editors, GiveUpEdit(e) PROVE ContentSound'
    BY <1>5, <1>15 DEF GiveUpEdit
  <1> QED
    BY <1>6, <1>7, <1>8, <1>9, <1>11, <1>12, <1>13, <1>14, <1>15 DEF DefinitionsNext, Editing

\* The definitions, their versions and the requests that edit, publish and retire
\* them keep their types: a content that is pinned or drafted was written before.
THEOREM DefinitionsTypeCorrect == DefinitionsSpec => []DefinitionsTypeOK
  <1>1. DefinitionsInit => ContentSound
    <2> SUFFICES ASSUME DefinitionsInit PROVE ContentSound
      OBVIOUS
    <2>1. \A v \in VersionIds : text[v].status = "NONE" /\ text[v].content = 0
      BY DEF DefinitionsInit, Missing
    <2>2. \A e \in Editors : editor[e].pc = "idle"
      BY DEF DefinitionsInit, EditorIdle
    <2>3. contents = 0 /\ pins = {} /\ contents <= MaxContents
      BY DefinitionsAssumption DEF DefinitionsInit, DefinitionsAssumption
    <2> QED
      BY <2>1, <2>2, <2>3 DEF ContentSound, Drafted, WorksOn
  <1>2. VersionsInv /\ ContentSound /\ [DefinitionsNext]_definitionVars => ContentSound'
    BY ContentKept
  <1>3. VersionsInv /\ ContentSound => DefinitionsTypeOK
    <2> SUFFICES ASSUME VersionsInv, ContentSound PROVE DefinitionsTypeOK
      OBVIOUS
    <2>1. VersionsTyped /\ contents \in 0..MaxContents
      BY DefinitionsAssumption DEF VersionsInv, VersionsTyped, ContentSound, DefinitionsAssumption
    <2>2. text \in [VersionIds -> [status : {"NONE", "DRAFT", "PUBLISHED", "RETIRED"}, content : 0..contents]]
      <3>1. \A v \in VersionIds :
                text[v] \in [status : {"NONE", "DRAFT", "PUBLISHED", "RETIRED"}, content : 0..contents]
        BY <2>1 DEF VersionsTyped, TextRecs, ContentSound
      <3> QED
        BY <2>1, <3>1 DEF VersionsTyped
    <2>3. pins \subseteq [version : VersionIds, content : 1..contents]
      BY <2>1 DEF VersionsTyped, PinRecs, ContentSound
    <2>4. isDefault \union public \subseteq Definitions /\ retiredOnce \union crossed \subseteq VersionIds
      BY <2>1 DEF VersionsTyped
    <2>5. {hadDefault, flagMoved} \subseteq BOOLEAN
      BY <2>1 DEF VersionsTyped
    <2> QED
      BY <2>1, <2>2, <2>3, <2>4, <2>5 DEF DefinitionsTypeOK, VersionsTyped, EditorRecs
  <1> QED
    BY <1>1, <1>2, <1>3, VersionsInvariant, PTL DEF DefinitionsSpec

\* What the invariant leaves of the types of CaseProofs: a target is requested once, as
\* its unique index says, and nothing was requested in the future.
CaseProofsBounds ==
    /\ current \in available \union {NoTarget}
    /\ summary.current \in available \union {NoTarget}
    /\ damaged \subseteq EvidenceVersions /\ checks \in Nat
    /\ now_CP \in 0..MaxRequestedAt /\ \A p \in ProofIds : proof[p].at \in 0..MaxRequestedAt
    /\ pages.cursor \in Requested \union {NoProof}
OncePerTarget == \A p, q \in Requested : proof[p].target = proof[q].target => p = q

\* The rows keep their targets and times.
LEMMA TargetsKept ==
  ASSUME OncePerTarget, CaseProofsBounds, Requested' = Requested,
         \A p \in ProofIds : proof'[p].target = proof[p].target /\ proof'[p].at = proof[p].at
  PROVE  OncePerTarget' /\ \A p \in ProofIds : proof'[p].at \in 0..MaxRequestedAt
  <1>1. Requested \subseteq ProofIds
    BY DEF Requested
  <1> QED
    BY <1>1 DEF OncePerTarget, CaseProofsBounds

LEMMA RowsBounded ==
  ASSUME CaseProofsInv, CaseProofsBounds, OncePerTarget,
         UNCHANGED <<caseVars, now_CP, checks, summary, pages>>, Requested' = Requested,
         \A p \in ProofIds : proof'[p].target = proof[p].target /\ proof'[p].at = proof[p].at
  PROVE  CaseProofsBounds' /\ OncePerTarget'
  BY TargetsKept DEF CaseProofsBounds, caseVars

\* A request takes a target that has none, in one transaction with the row it adds.
LEMMA BoundsKept ==
  ASSUME CaseProofsInv, CaseProofsBounds, OncePerTarget, [CaseProofsNext]_caseProofsVars
  PROVE  CaseProofsBounds' /\ OncePerTarget'
  <1>1. /\ CaseProofsAssumption /\ MaxRequestedAt \in Nat /\ ProofsTyped
        /\ proof \in [ProofIds -> Requests_CP] /\ Requested \subseteq ProofIds
    BY CaseProofsAssumption DEF CaseProofsAssumption, CaseProofsInv, ProofsTyped, Requested
  <1>2. ASSUME UNCHANGED <<proof, checks, summary, pages>>,
               current' \in available' \union {NoTarget}, available \subseteq available',
               damaged' \subseteq EvidenceVersions, now_CP' \in 0..MaxRequestedAt
        PROVE  CaseProofsBounds' /\ OncePerTarget'
    <2>1. Requested' = Requested
      BY <1>2 DEF Requested
    <2> QED
      BY <1>2, <2>1 DEF CaseProofsBounds, OncePerTarget
  <1>3. ASSUME CaseMoves PROVE CaseProofsBounds' /\ OncePerTarget'
    <2>1. CASE DecideAgain
      BY <1>2, <2>1 DEF DecideAgain, rowVars, checkVars, CaseProofsBounds
    <2>2. CASE ClockMoves
      <3>1. now_CP' \in 0..MaxRequestedAt
        BY <1>1, <2>2 DEF ClockMoves, CaseProofsBounds
      <3> QED
        BY <1>2, <2>2, <3>1 DEF ClockMoves, caseVars, checkVars, CaseProofsBounds
    <2>3. ASSUME NEW v \in EvidenceVersions, Promote(v) PROVE CaseProofsBounds' /\ OncePerTarget'
      BY <1>2, <2>3 DEF Promote, rowVars, checkVars, CaseProofsBounds
    <2> QED
      BY <1>3, <2>1, <2>2, <2>3 DEF CaseMoves
  <1>4. ASSUME UNCHANGED <<caseVars, now_CP, proof, summary, pages>>, checks' \in Nat
        PROVE  CaseProofsBounds' /\ OncePerTarget'
    <2>1. Requested' = Requested
      BY <1>4 DEF Requested
    <2> QED
      BY <1>4, <2>1 DEF CaseProofsBounds, OncePerTarget, caseVars
  <1>5. ASSUME NEW u \in Callers_CP, EnterRequest(u) PROVE CaseProofsBounds' /\ OncePerTarget'
    BY <1>4, <1>5 DEF EnterRequest, rowVars, CaseProofsBounds
  <1>6. ASSUME NEW u \in Callers_CP, CommitRequest(u) PROVE CaseProofsBounds' /\ OncePerTarget'
    <2>1. CASE proof' = proof
      BY <1>4, <1>6, <2>1 DEF CommitRequest, CaseProofsBounds
    <2>2. ASSUME proof' # proof PROVE CaseProofsBounds' /\ OncePerTarget'
      <3> DEFINE r == [target |-> caller_CP[u].target, at |-> now_CP, state |-> "PENDING", bound |-> FALSE]
      <3>1. /\ \A q \in Requested : proof[q].target # caller_CP[u].target
            /\ \E p \in ProofIds \ Requested : proof' = [proof EXCEPT ![p] = r]
        BY <1>6, <2>2 DEF CommitRequest
      <3>2. PICK p \in ProofIds \ Requested : proof' = [proof EXCEPT ![p] = r]
        BY <3>1
      <3>3. r.target = caller_CP[u].target /\ r.at = now_CP /\ r.state = "PENDING"
        OBVIOUS
      <3> HIDE DEF r
      <3>4. \A q \in ProofIds : proof'[q] = IF q = p THEN r ELSE proof[q]
        BY <1>1, <3>2
      <3>5. Requested' = Requested \union {p}
        BY <3>2, <3>3, <3>4 DEF Requested
      <3>6. OncePerTarget'
        <4>1. SUFFICES ASSUME NEW q1 \in Requested \union {p}, NEW q2 \in Requested \union {p},
                              proof'[q1].target = proof'[q2].target
                       PROVE  q1 = q2
          BY <3>5 DEF OncePerTarget
        <4>2. /\ q1 \in ProofIds /\ proof'[q1] = IF q1 = p THEN r ELSE proof[q1]
              /\ q2 \in ProofIds /\ proof'[q2] = IF q2 = p THEN r ELSE proof[q2]
          BY <1>1, <3>2, <3>4
        <4>3. CASE q1 = p
          BY <3>1, <3>3, <4>1, <4>2, <4>3
        <4>4. CASE q2 = p
          BY <3>1, <3>3, <4>1, <4>2, <4>4
        <4>5. CASE q1 # p /\ q2 # p
          BY <4>1, <4>2, <4>5 DEF OncePerTarget
        <4> QED
          BY <4>3, <4>4, <4>5
      <3>7. \A q \in ProofIds : proof'[q].at \in 0..MaxRequestedAt
        BY <3>3, <3>4 DEF CaseProofsBounds
      <3> QED
        BY <1>6, <3>5, <3>6, <3>7 DEF CommitRequest, caseVars, CaseProofsBounds
    <2> QED
      BY <2>1, <2>2
  <1>7. ASSUME NEW p \in Requested, NEW r, proof' = [proof EXCEPT ![p] = r],
               r.target = proof[p].target, r.at = proof[p].at, r.state # "ABSENT",
               UNCHANGED <<caseVars, now_CP, checks, summary, pages>>
        PROVE  CaseProofsBounds' /\ OncePerTarget'
    <2>1. \A q \in ProofIds : proof'[q] = IF q = p THEN r ELSE proof[q]
      BY <1>1, <1>7
    <2>2. Requested' = Requested
      BY <1>1, <1>7, <2>1 DEF Requested
    <2> QED
      BY <1>7, <2>1, <2>2, RowsBounded
  <1>8. ASSUME NEW p \in Requested, NEW s \in States_Saga, s # "ABSENT", SetState(p, s),
               UNCHANGED <<caseVars, now_CP, checkVars, summary, pages>>
        PROVE  CaseProofsBounds' /\ OncePerTarget'
    <2> DEFINE r == [proof[p] EXCEPT !.state = s]
    <2>1. r.target = proof[p].target /\ r.at = proof[p].at /\ r.state = s
      BY <1>1, RowWith
    <2>2. proof' = [proof EXCEPT ![p] = r] /\ checks' = checks
      BY <1>8 DEF SetState, checkVars
    <2> HIDE DEF r
    <2> QED
      BY <1>7, <1>8, <2>1, <2>2
  <1>9. {"PENDING", "SUBMITTED", "CONFIRMED", "FAILED_RETRYABLE"} \subseteq States_Saga
    BY DEF States_Saga
  <1>10. ASSUME NEW p \in ProofIds, Resume(p) \/ Confirm_CP(p) \/ Fail_CP(p)
         PROVE  CaseProofsBounds' /\ OncePerTarget'
    BY <1>8, <1>9, <1>10 DEF Resume, Confirm_CP, Fail_CP
  <1>11. ASSUME NEW p \in ProofIds, Succeed(p) PROVE CaseProofsBounds' /\ OncePerTarget'
    <2>1. PICK s \in {"CONFIRMED", "SUBMITTED"} :
                proof' = [proof EXCEPT ![p].state = s, ![p].bound = TRUE]
      BY <1>11 DEF Succeed
    <2> DEFINE r == [proof[p] EXCEPT !.state = s, !.bound = TRUE]
    <2>2. proof' = [proof EXCEPT ![p] = r]
      <3>1. /\ DOMAIN proof' = ProofIds
            /\ \A q \in ProofIds : proof'[q] = IF q = p THEN r ELSE proof[q]
        BY <1>1, <2>1, Zenon
      <3> QED
        BY <1>1, <2>1, <3>1
    <2>3. r.target = proof[p].target /\ r.at = proof[p].at /\ r.state = s
      BY <1>1 DEF Requests_CP
    <2>4. checks' = checks /\ UNCHANGED <<caseVars, now_CP, summary, pages>> /\ p \in Requested
      BY <1>11 DEF Succeed, checkVars
    <2> HIDE DEF r
    <2> QED
      BY <1>7, <2>1, <2>2, <2>3, <2>4
  <1>12. ASSUME NEW p \in ProofIds, NEW entry \in {"own", "other"}, Occupied(p, entry)
         PROVE  CaseProofsBounds' /\ OncePerTarget'
    BY <1>4, <1>12 DEF Occupied, checkVars, CaseProofsBounds
  <1>13. ASSUME Saga PROVE CaseProofsBounds' /\ OncePerTarget'
    BY <1>10, <1>11, <1>12, <1>13 DEF Saga
  <1>14. ASSUME Verifying PROVE CaseProofsBounds' /\ OncePerTarget'
    <2>1. ASSUME NEW u \in Callers_CP,
                 FindProof(u) \/ CompareLocal(u) \/ AskLedger(u) \/ RecordVerification(u) \/ GiveUp_CP(u)
          PROVE  CaseProofsBounds' /\ OncePerTarget'
      <3>1. checks' \in Nat /\ UNCHANGED <<caseVars, now_CP, proof, summary, pages>>
        <4>1. CASE FindProof(u)
          BY <4>1 DEF FindProof, rowVars, CaseProofsBounds
        <4>2. CASE CompareLocal(u)
          BY <4>2 DEF CompareLocal, rowVars, CaseProofsBounds
        <4>3. CASE AskLedger(u)
          BY <4>3 DEF AskLedger, rowVars, CaseProofsBounds
        <4>4. CASE RecordVerification(u)
          BY <4>4 DEF RecordVerification, rowVars, CaseProofsBounds
        <4>5. CASE GiveUp_CP(u)
          BY <4>5 DEF GiveUp_CP, rowVars, CaseProofsBounds
        <4> QED
          BY <2>1, <4>1, <4>2, <4>3, <4>4, <4>5
      <3> QED
        BY <1>4, <3>1
    <2>2. ASSUME NEW v \in EvidenceVersions, Damage(v) PROVE CaseProofsBounds' /\ OncePerTarget'
      BY <1>2, <2>2 DEF Damage, rowVars, checkVars, CaseProofsBounds
    <2> QED
      BY <1>14, <2>1, <2>2 DEF Verifying
  <1>15. ASSUME UNCHANGED <<caseVars, rowVars, checkVars, pages>>,
                summary'.current \in available \union {NoTarget}
         PROVE  CaseProofsBounds' /\ OncePerTarget'
    <2>1. Requested' = Requested
      BY <1>15 DEF Requested, rowVars
    <2> QED
      BY <1>15, <2>1 DEF CaseProofsBounds, OncePerTarget, caseVars, rowVars, checkVars
  <1>16. ASSUME Summing PROVE CaseProofsBounds' /\ OncePerTarget'
    <2>1. CASE Open_CP
      BY <1>15, <2>1 DEF Open_CP, Unread
    <2>2. ASSUME NEW part \in Parts, ReadPart(part) PROVE CaseProofsBounds' /\ OncePerTarget'
      <3>1. summary'.current = IF part = "evidence" THEN current ELSE summary.current
        BY <1>1, <2>2 DEF ReadPart, ProofsTyped, Summaries
      <3> QED
        BY <1>15, <2>2, <3>1 DEF ReadPart, CaseProofsBounds
    <2> QED
      BY <1>16, <2>1, <2>2 DEF Summing
  <1>17. ASSUME UNCHANGED <<caseVars, rowVars, checkVars, summary>>,
                pages'.cursor \in Requested \union {NoProof}
         PROVE  CaseProofsBounds' /\ OncePerTarget'
    <2>1. Requested' = Requested
      BY <1>17 DEF Requested, rowVars
    <2> QED
      BY <1>17, <2>1 DEF CaseProofsBounds, OncePerTarget, caseVars, rowVars, checkVars
  <1>18. ASSUME Listing PROVE CaseProofsBounds' /\ OncePerTarget'
    <2>1. CASE StartWalk
      BY <1>17, <2>1 DEF StartWalk, NoPages
    <2>2. CASE NextPage
      <3>1. pages'.pc = "walk" => pages'.cursor \in Requested' \union {NoProof}
        BY <1>1, <2>2, PageRead DEF WalkSound
      <3>2. pages'.pc = "walk" \/ pages'.cursor = pages.cursor
        BY <1>1, <2>2 DEF NextPage, ProofsTyped, Walks
      <3>3. Requested' = Requested
        BY <2>2 DEF NextPage, Requested, rowVars
      <3> QED
        BY <1>17, <2>2, <3>1, <3>2, <3>3 DEF NextPage, CaseProofsBounds
    <2> QED
      BY <1>18, <2>1, <2>2 DEF Listing
  <1>19. CASE UNCHANGED caseProofsVars
    BY <1>4, <1>19 DEF caseProofsVars, rowVars, checkVars, CaseProofsBounds
  <1> QED
    BY <1>3, <1>5, <1>6, <1>13, <1>14, <1>16, <1>18, <1>19 DEF CaseProofsNext, Requesting

\* The requests, the verifications, the summary and the list of a case's proofs keep
\* their types, and no two rows of proof_requests have one target, however many
\* callers of createEvidence and createDecision found none when they looked.
THEOREM CaseProofsTypeCorrect == CaseProofsSpec => []CaseProofsTypeOK
  <1>1. CaseProofsInit => CaseProofsBounds /\ OncePerTarget
    <2> SUFFICES ASSUME CaseProofsInit PROVE CaseProofsBounds /\ OncePerTarget
      OBVIOUS
    <2>1. /\ Requested = {} /\ \A p \in ProofIds : proof[p].at = 0
          /\ summary.current = NoTarget /\ pages.cursor = NoProof
      BY DEF CaseProofsInit, Requested, NoRequest, Unread, NoPages
    <2>2. 0 \in 0..MaxRequestedAt
      BY CaseProofsAssumption DEF CaseProofsAssumption
    <2> QED
      BY <2>1, <2>2 DEF CaseProofsInit, CaseProofsBounds, OncePerTarget
  <1>2. CaseProofsInv /\ CaseProofsBounds /\ OncePerTarget /\ [CaseProofsNext]_caseProofsVars
            => CaseProofsBounds' /\ OncePerTarget'
    BY BoundsKept
  <1>3. CaseProofsInv /\ CaseProofsBounds /\ OncePerTarget => CaseProofsTypeOK
    <2> SUFFICES ASSUME CaseProofsInv, CaseProofsBounds, OncePerTarget PROVE CaseProofsTypeOK
      OBVIOUS
    <2>1. ProofsTyped
      BY DEF CaseProofsInv
    <2>2. proof \in [ProofIds -> [target : Targets \union {NoTarget}, at : 0..MaxRequestedAt,
                                  state : States_CP, bound : BOOLEAN]]
      <3>1. \A p \in ProofIds : proof[p] \in [target : Targets \union {NoTarget}, at : 0..MaxRequestedAt,
                                              state : States_CP, bound : BOOLEAN]
        BY <2>1 DEF ProofsTyped, Requests_CP, States_Saga, States_CP, CaseProofsBounds
      <3> QED
        BY <2>1, <3>1 DEF ProofsTyped
    <2>3. /\ latest \in [ProofIds -> [local : BOOLEAN, answer : Answers]]
          /\ caller_CP \in [Callers_CP -> [pc : {"idle", "create", "compare", "query", "record"},
                proof : ProofIds \union {NoProof}, target : Targets \union {NoTarget},
                local : BOOLEAN, answer : Answers]]
      BY <2>1 DEF ProofsTyped, Checks, CallerStates
    <2>4. /\ summary.left \subseteq Parts /\ summary.decided \in 0..decided
          /\ summary.rows.confirmed \union summary.rows.active \subseteq Targets
      BY <2>1 DEF ProofsTyped, Summaries, Rows_CP, CaseProofsInv, SummarySound
    <2>5. /\ pages.pc \in {"idle", "walk", "done"} /\ pages.start \subseteq Requested
          /\ Range(pages.items) \subseteq Requested
      <3>1. pages.pc \in {"idle", "walk", "done"} /\ pages.items \in Seq(ProofIds)
        BY <2>1 DEF ProofsTyped, Walks
      <3>2. DOMAIN pages.items = 1..Len(pages.items)
        BY <3>1
      <3> QED
        BY <3>1, <3>2 DEF CaseProofsInv, WalkSound, Range
    <2> QED
      BY <2>1, <2>2, <2>3, <2>4, <2>5 DEF CaseProofsTypeOK, CaseProofsBounds, OncePerTarget, ProofsTyped
  <1> QED
    BY <1>1, <1>2, <1>3, CaseProofsInvariant, PTL DEF CaseProofsSpec

----------------------------------------------------------------------------
(* The components joined for TLC: each of them behaves as it does alone. *)

\* A behaviour of the joined components is one of each of them: in its own steps, and
\* in those of the others, which leave its variables alone.
LEMMA Joined ==
  ServicesSpec => /\ IntakeSpec /\ AuditSpec /\ SessionSpec
                  /\ ProjectionSpec /\ CaseProofsSpec /\ DefinitionsSpec
  <1>1. ServicesInit => /\ IntakeInit /\ AuditInit /\ SessionInit
                        /\ ProjectionInit /\ CaseProofsInit /\ DefinitionsInit
    BY DEF ServicesInit
  <1>2. ASSUME [ServicesNext]_servicesVars
        PROVE  /\ [IntakeNext]_intakeVars /\ [AuditNext]_auditVars
               /\ [SessionNext]_sessionVars /\ [ProjectionNext]_projectionVars
               /\ [CaseProofsNext]_caseProofsVars /\ [DefinitionsNext]_definitionVars
    BY <1>2 DEF ServicesNext, servicesVars, CaseProofsNext
  <1> QED
    BY <1>1, <1>2, PTL DEF ServicesSpec, IntakeSpec, AuditSpec, SessionSpec, ProjectionSpec,
                           CaseProofsSpec, DefinitionsSpec

\* Every variable of the components keeps its type, whichever of them moves: their
\* handlers write nothing but values of the types their tables and messages declare.
THEOREM ServicesTypeCorrect == ServicesSpec => []ServicesTypeOK
  BY Joined, IntakeTypeCorrect, AuditTypeCorrect, SessionTypeCorrect, ProjectionTypeCorrect,
     CaseProofsTypeCorrect, DefinitionsTypeCorrect, PTL DEF ServicesTypeOK
=============================================================================
