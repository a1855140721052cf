-------------------------- MODULE RefreshSession --------------------------
(***************************************************************************)
(* Refresh sessions: AuthService of identity-access-service and the tabs   *)
(* of one browser, AuthProvider of web-portal.  The tabs share the refresh *)
(* cookie; each has at most one refresh in flight, and a logout may be in  *)
(* flight beside it.  refresh() reads the session, then writes it by its   *)
(* id alone, so calls interleave between the two.                          *)
(***************************************************************************)
EXTENDS Naturals

CONSTANTS
    Logins,     \* refresh_token_sessions: each login starts one, a family of its own
    Tabs,       \* tabs of the browser
    NoLogin,
    MaxTokens,  \* bound on refresh tokens made
    MaxUnheard  \* bound on answers that never reach the browser

ASSUME SessionAssumption ==
    NoLogin \notin Logins /\ MaxTokens \in Nat /\ MaxUnheard \in Nat

NoToken == 0
Tokens == 1..MaxTokens

VARIABLES
    session,   \* [current, previous, revoked]; current is NoToken before the login
    barred,    \* sessions that have expired or whose account is no longer active
    minted,    \* tokens made so far
    cookie,    \* the browser's refresh cookie
    signedIn,  \* tabs that show an identity
    refreshing, \* the refresh a tab has in flight: [pc, token, login, answer, late]
    leaving,   \* the logout a tab has in flight: [pc, token]
    unheard,   \* answers lost
    ended,     \* sessions that have been revoked at some time
    left,      \* sessions a logout was answered for
    disturbed  \* two calls were in flight at once, or an answer was lost

browser == <<cookie, signedIn>>
history == <<unheard, ended, left, disturbed>>
sessionVars == <<session, barred, minted, browser, refreshing, leaving, history>>

NotRefreshing == [pc |-> "idle", token |-> NoToken, login |-> NoLogin, answer |-> NoToken, late |-> FALSE]
NotLeaving == [pc |-> "idle", token |-> NoToken]

SessionInit ==
    /\ session = [l \in Logins |-> [current |-> NoToken, previous |-> NoToken, revoked |-> FALSE]]
    /\ barred = {} /\ minted = 0
    /\ cookie = NoToken /\ signedIn = {}
    /\ refreshing = [t \in Tabs |-> NotRefreshing] /\ leaving = [t \in Tabs |-> NotLeaving]
    /\ unheard = 0 /\ ended = {} /\ left = {} /\ disturbed = FALSE

Quiet == \A t \in Tabs : refreshing[t].pc = "idle" /\ leaving[t].pc = "idle"

----------------------------------------------------------------------------
(* Login, and what ends a session from outside. *)

\* login, from the form of a tab that shows no identity.
Login(t, l) ==
    /\ t \notin signedIn /\ session[l].current = NoToken /\ minted < MaxTokens
    /\ minted' = minted + 1 /\ cookie' = minted + 1
    /\ session' = [session EXCEPT ![l].current = minted + 1]
    /\ signedIn' = signedIn \union {t}
    /\ disturbed' = (disturbed \/ ~Quiet)
    /\ UNCHANGED <<barred, refreshing, leaving, unheard, ended, left>>

Bar(l) ==
    /\ session[l].current # NoToken /\ l \notin barred /\ barred' = barred \union {l}
    /\ UNCHANGED <<session, minted, browser, refreshing, leaving, history>>

----------------------------------------------------------------------------
(* Refresh. *)

Holds(l, k) == k # NoToken /\ k \in {session[l].current, session[l].previous}

Refused(t) == refreshing' = [refreshing EXCEPT ![t] = NotRefreshing]

\* On mount, or after a request was answered 401: one flight per tab, with the
\* cookie the browser has now.
SendRefresh(t) ==
    /\ refreshing[t].pc = "idle" /\ cookie # NoToken
    /\ refreshing' = [refreshing EXCEPT ![t] =
          [NotRefreshing EXCEPT !.pc = "find", !.token = cookie,
              !.late = \E l \in ended : Holds(l, cookie)]]
    /\ disturbed' = (disturbed \/ ~Quiet)
    /\ UNCHANGED <<session, barred, minted, browser, leaving, unheard, ended, left>>

\* The session whose current or previous token this is: what was read decides.  A
\* refusal leaves the browser as it is, so its arrival is no step of its own.
FindSession(t) ==
    LET k == refreshing[t].token
        To(l, pc) == refreshing' = [refreshing EXCEPT ![t].login = l, ![t].pc = pc] IN
    /\ refreshing[t].pc = "find"
    /\ \/ (\A l \in Logins : ~Holds(l, k)) /\ Refused(t)
       \/ \E l \in Logins :
             /\ Holds(l, k)
             /\ \/ session[l].previous = k /\ To(l, "revoke")
                \/ session[l].previous # k /\ (session[l].revoked \/ l \in barred) /\ Refused(t)
                \/ session[l].previous # k /\ ~session[l].revoked /\ l \notin barred /\ To(l, "rotate")
    /\ UNCHANGED <<session, barred, minted, browser, leaving, history>>

\* A token that was rotated away: its family is revoked.
RevokeFamily(t) ==
    LET l == refreshing[t].login IN
    /\ refreshing[t].pc = "revoke" /\ Refused(t)
    /\ session' = [session EXCEPT ![l].revoked = TRUE]
    /\ ended' = ended \union {l}
    /\ UNCHANGED <<barred, minted, browser, leaving, unheard, left, disturbed>>

\* Seeded fault: a rotation makes the session valid again.
RotateAfresh(t) ==
    LET l == refreshing[t].login IN
    /\ refreshing[t].pc = "rotate" /\ minted < MaxTokens
    /\ minted' = minted + 1
    /\ session' = [session EXCEPT ![l] =
          [current |-> minted + 1, previous |-> refreshing[t].token, revoked |-> FALSE]]
    /\ refreshing' = [refreshing EXCEPT ![t].pc = "answered", ![t].answer = minted + 1]
    /\ UNCHANGED <<barred, browser, leaving, history>>
\* Seeded fault: the answer has the token that was sent.
RotateAnswersOld(t) ==
    LET l == refreshing[t].login IN
    /\ refreshing[t].pc = "rotate" /\ minted < MaxTokens
    /\ minted' = minted + 1
    /\ session' = [session EXCEPT ![l].previous = refreshing[t].token, ![l].current = minted + 1]
    /\ refreshing' = [refreshing EXCEPT ![t].pc = "answered", ![t].answer = refreshing[t].token]
    /\ UNCHANGED <<barred, browser, leaving, history>>
Rotate(t) ==
    LET l == refreshing[t].login IN
    /\ refreshing[t].pc = "rotate" /\ minted < MaxTokens
    /\ minted' = minted + 1
    /\ session' = [session EXCEPT ![l].previous = refreshing[t].token, ![l].current = minted + 1]
    /\ refreshing' = [refreshing EXCEPT ![t].pc = "answered", ![t].answer = minted + 1]
    /\ UNCHANGED <<barred, browser, leaving, history>>

\* The answer replaces the cookie and shows the identity, also in a tab that was
\* signed out meanwhile.
HearRefresh(t) ==
    /\ refreshing[t].pc = "answered"
    /\ refreshing' = [refreshing EXCEPT ![t] = NotRefreshing]
    /\ cookie' = refreshing[t].answer /\ signedIn' = signedIn \union {t}
    /\ UNCHANGED <<session, barred, minted, leaving, history>>

LoseRefresh(t) ==
    /\ refreshing[t].pc = "answered" /\ unheard < MaxUnheard
    /\ refreshing' = [refreshing EXCEPT ![t] = NotRefreshing]
    /\ unheard' = unheard + 1 /\ disturbed' = TRUE
    /\ UNCHANGED <<session, barred, minted, browser, leaving, ended, left>>

----------------------------------------------------------------------------
(* Logout. *)

SendLogout(t) ==
    /\ t \in signedIn /\ leaving[t].pc = "idle"
    /\ leaving' = [leaving EXCEPT ![t] = [pc |-> "revoke", token |-> cookie]]
    /\ disturbed' = (disturbed \/ ~Quiet)
    /\ UNCHANGED <<session, barred, minted, browser, refreshing, unheard, ended, left>>

\* Seeded fault: a logout is matched by the previous token.
RevokePrevious(t) ==
    LET S == {l \in Logins : session[l].previous = leaving[t].token /\ leaving[t].token # NoToken} IN
    /\ leaving[t].pc = "revoke"
    /\ leaving' = [leaving EXCEPT ![t].pc = "answered"]
    /\ session' = [l \in Logins |-> IF l \in S THEN [session[l] EXCEPT !.revoked = TRUE] ELSE session[l]]
    /\ ended' = ended \union S
    /\ UNCHANGED <<barred, minted, browser, refreshing, unheard, left, disturbed>>
\* updateMany by the current token; a token rotated away matches no row.
RevokeCurrent(t) ==
    LET S == {l \in Logins : session[l].current = leaving[t].token /\ leaving[t].token # NoToken} IN
    /\ leaving[t].pc = "revoke"
    /\ leaving' = [leaving EXCEPT ![t].pc = "answered"]
    /\ session' = [l \in Logins |-> IF l \in S THEN [session[l] EXCEPT !.revoked = TRUE] ELSE session[l]]
    /\ ended' = ended \union S
    /\ UNCHANGED <<barred, minted, browser, refreshing, unheard, left, disturbed>>

\* The answer clears the cookie, whichever token is in it by now.
HearLogout(t) ==
    /\ leaving[t].pc = "answered"
    /\ leaving' = [leaving EXCEPT ![t] = NotLeaving]
    /\ cookie' = NoToken /\ signedIn' = signedIn \ {t}
    /\ left' = left \union {l \in Logins : Holds(l, leaving[t].token)}
    /\ UNCHANGED <<session, barred, minted, refreshing, unheard, ended, disturbed>>

----------------------------------------------------------------------------

SessionNext ==
    \/ \E l \in Logins : Bar(l)
    \/ \E t \in Tabs :
          \/ \E l \in Logins : Login(t, l)
          \/ SendRefresh(t) \/ FindSession(t) \/ RevokeFamily(t) \/ Rotate(t)
          \/ HearRefresh(t) \/ LoseRefresh(t)
          \/ SendLogout(t) \/ RevokeCurrent(t) \/ HearLogout(t)

SessionSpec == SessionInit /\ [][SessionNext]_sessionVars

----------------------------------------------------------------------------

\* Every variable has its type.
SessionTypeOK ==
    /\ session \in [Logins -> [current : Tokens \union {NoToken}, previous : Tokens \union {NoToken},
                               revoked : BOOLEAN]]
    /\ barred \subseteq Logins /\ minted \in 0..MaxTokens
    /\ cookie \in Tokens \union {NoToken} /\ signedIn \subseteq Tabs
    /\ refreshing \in [Tabs -> [pc : {"idle", "find", "revoke", "rotate", "answered"},
                                token : Tokens \union {NoToken}, login : Logins \union {NoLogin},
                                answer : Tokens \union {NoToken}, late : BOOLEAN]]
    /\ leaving \in [Tabs -> [pc : {"idle", "revoke", "answered"}, token : Tokens \union {NoToken}]]
    /\ unheard \in 0..MaxUnheard /\ ended \subseteq Logins /\ left \subseteq Logins
    /\ disturbed \in BOOLEAN

\* A browser at rest can go on with the cookie it has: it is the current token of a
\* session that is not revoked, unless two calls overlapped or an answer was lost.
\* (Then the next refresh may be taken for the reuse of a token and end the session.)
CookieIsLive ==
    Quiet /\ ~disturbed /\ cookie # NoToken
        => \E l \in Logins : session[l].current = cookie /\ ~session[l].revoked

\* A logout that was answered has ended its session, unless calls overlapped: it is
\* matched by the current token alone, which a refresh in between replaces.
LogoutEnds == \A l \in left : session[l].revoked \/ disturbed

\* Undisturbed, the session and the browser agree on whether they go on, in both
\* directions.
SessionFollowsBrowser == CookieIsLive /\ LogoutEnds

\* A refresh sent with a token of a session that has been revoked at any time is
\* refused, whatever the refreshes in flight at the revocation have written since.
RevokedIsRefused == \A t \in Tabs : refreshing[t].late => refreshing[t].answer = NoToken
=============================================================================
