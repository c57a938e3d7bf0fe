---------------------------- MODULE CopilotToken ----------------------------
(***************************************************************************)
(* How the copilot script finds its token (copilot/plugin.js).  It keeps a *)
(* copy of the token of GitHub's command-line tool, in the keychain and in *)
(* a file; the keychain may refuse to write or to delete.  Probes overlap, *)
(* and the user signs in and out of the tool meanwhile.                    *)
(***************************************************************************)
EXTENDS Naturals

CONSTANTS
    CopilotProbe, \* probes that may overlap
    GhToken       \* tokens that the tool is given, each once

VARIABLES
    keychain,  \* the copy in the keychain
    stateFile, \* the copy in the file
    gh,        \* the token of the tool
    accepted,  \* the tokens that GitHub accepts
    given,     \* those it has issued
    asking     \* what each probe does

copilotVars == <<keychain, stateFile, gh, accepted, given, asking>>

NoToken == "none"

ASSUME CopilotAssumption == NoToken \notin GhToken

\* "good" tells that the tool has held an accepted token since the probe began.
Asking(pc, token, source, good) == [pc |-> pc, token |-> token, source |-> source, good |-> good]

AtRest == Asking("rest", NoToken, "none", FALSE)

CopilotInit ==
    /\ keychain = NoToken /\ stateFile = NoToken /\ gh = NoToken
    /\ accepted = {} /\ given = {}
    /\ asking = [p \in CopilotProbe |-> AtRest]

Ended(p, pc) == [asking EXCEPT ![p] = Asking(pc, NoToken, "none", asking[p].good)]

\* The best place that holds a token.
loadToken ==
    CASE keychain # NoToken -> [token |-> keychain, source |-> "keychain"]
      [] keychain = NoToken /\ gh # NoToken -> [token |-> gh, source |-> "gh-cli"]
      [] OTHER -> [token |-> stateFile, source |-> "state"]

StartCopilot(p) ==
    /\ asking[p].pc \notin {"asked", "again"}
    /\ LET found == loadToken
           good == gh \in accepted
       IN  asking' = [asking EXCEPT ![p] =
               IF found.token = NoToken THEN Asking("login", NoToken, "none", good)
               ELSE Asking("asked", found.token, found.source, good)]
    /\ UNCHANGED <<keychain, stateFile, gh, accepted, given>>

\* Either copy may fail to be written.
saveToken(token) == keychain' \in {keychain, token} /\ stateFile' \in {stateFile, token}

clearCachedToken == keychain' \in {keychain, NoToken} /\ stateFile' \in {stateFile, NoToken}

\* GitHub answers, and the copy is renewed if the token came from the tool.
CopilotAnswered(p) ==
    /\ asking[p].pc \in {"asked", "again"} /\ asking[p].token \in accepted
    /\ IF asking[p].pc = "again" \/ asking[p].source = "gh-cli" THEN saveToken(asking[p].token)
       ELSE UNCHANGED <<keychain, stateFile>>
    /\ asking' = Ended(p, "ok")
    /\ UNCHANGED <<gh, accepted, given>>

\* No answer, or a failure that says nothing of the token.
CopilotFails(p) ==
    /\ asking[p].pc \in {"asked", "again"}
    /\ asking' = Ended(p, "error")
    /\ UNCHANGED <<keychain, stateFile, gh, accepted, given>>

CopilotRefused_NoFallback(p) ==
    /\ asking[p].pc = "asked" /\ asking[p].token \notin accepted
    /\ IF asking[p].source = "keychain" THEN clearCachedToken ELSE UNCHANGED <<keychain, stateFile>>
    /\ asking' = Ended(p, "login")
    /\ UNCHANGED <<gh, accepted, given>>

\* A refused copy is forgotten, and the tool's own token is tried.
CopilotRefused(p) ==
    /\ asking[p].pc = "asked" /\ asking[p].token \notin accepted
    /\ IF asking[p].source = "keychain"
       THEN /\ clearCachedToken
            /\ asking' = IF gh = NoToken THEN Ended(p, "login")
                         ELSE [asking EXCEPT ![p] = Asking("again", gh, "gh-cli", @.good)]
       ELSE asking' = Ended(p, "login") /\ UNCHANGED <<keychain, stateFile>>
    /\ UNCHANGED <<gh, accepted, given>>

CopilotRefusedAgain(p) ==
    /\ asking[p].pc = "again" /\ asking[p].token \notin accepted
    /\ asking' = Ended(p, "login")
    /\ UNCHANGED <<keychain, stateFile, gh, accepted, given>>

(***************************************************************************)
(* Signing in and out of the tool, and GitHub revoking a token             *)
(***************************************************************************)
Unsettled == [p \in CopilotProbe |->
    IF asking[p].pc \in {"asked", "again"} THEN [asking[p] EXCEPT !.good = FALSE] ELSE asking[p]]

GhLogin(t) ==
    /\ t \notin given
    /\ given' = given \cup {t} /\ accepted' = accepted \cup {t} /\ gh' = t
    /\ asking' = Unsettled
    /\ UNCHANGED <<keychain, stateFile>>

GhLogout ==
    /\ gh # NoToken /\ gh' = NoToken
    /\ asking' = Unsettled
    /\ UNCHANGED <<keychain, stateFile, accepted, given>>

Revoke(t) ==
    /\ t \in accepted /\ accepted' = accepted \ {t}
    /\ asking' = IF t = gh THEN Unsettled ELSE asking
    /\ UNCHANGED <<keychain, stateFile, gh, given>>

CopilotNext ==
    \/ \E p \in CopilotProbe :
        \/ StartCopilot(p) \/ CopilotAnswered(p) \/ CopilotFails(p)
        \/ CopilotRefused(p) \/ CopilotRefusedAgain(p)
    \/ GhLogout
    \/ \E t \in GhToken : GhLogin(t) \/ Revoke(t)

CopilotSpec == CopilotInit /\ [][CopilotNext]_copilotVars

\* A copy that GitHub no longer accepts does not hide a good login: a probe
\* asks the user to sign in only if, since it began, there was a moment at
\* which the tool held no accepted token.
GoodLoginIsUsed == \A p \in CopilotProbe : asking[p].pc = "login" => ~asking[p].good
=============================================================================
