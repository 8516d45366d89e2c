------------------------------- MODULE SignIn -------------------------------
(***************************************************************************)
(* The account: XboxAuth and tokens.json (src/src/gnx/auth.cpp), the       *)
(* sign-in screen (src/src/app/ui.cpp), and who uses them: main() and the  *)
(* library screen, the engine's session, and the CatalogRefresh thread     *)
(* behind a cached library (src/src/app/main.cpp, src/src/app/library.cpp).*)
(*                                                                         *)
(* A credential chain starts by trading the refresh token for a new one,   *)
(* which is saved; the rest of it is requests that succeed or throw.  The  *)
(* file outlives quits and kills.                                          *)
(***************************************************************************)
EXTENDS Integers

CONSTANTS
    Interval,    \* ticks between two polls of the device code
    Expires      \* ticks a device code lives

ASSUME SignInAssumption == Interval \in Nat \ {0} /\ Expires \in Nat

Threads == {"main", "refresh"}

VARIABLES
    file,      \* tokens.json: "none", "token" or "torn"
    token,     \* refresh_token_ is not empty
    main,      \* where the main thread is
    chain,     \* what a thread is doing in XboxAuth: "idle", "ask" (the token
               \* request is in flight), "write", "rename", "rest"
    chains,    \* chains the CatalogRefresh thread still has to run
    left,      \* of the device code, in ticks
    sincePoll,
    saved,     \* history: a token was stored and nobody asked to forget it
    loggedOut  \* history: the user logged out and did not sign in again

threadVars == <<chain, chains>>
codeVars == <<left, sincePoll>>
vars == <<file, token, main, threadVars, codeVars, saved, loggedOut>>

Places == {"off", "code", "expired", "profile", "library", "confirm",
           "wiped", "joining", "stream", "leaving"}

TypeOK ==
    /\ file \in {"none", "token", "torn"} /\ token \in BOOLEAN
    /\ main \in Places
    /\ chain \in [Threads -> {"idle", "ask", "write", "rename", "rest"}]
    /\ chains \in 0 .. 2
    /\ left \in 0 .. Expires /\ sincePoll \in 0 .. Interval
    /\ saved \in BOOLEAN /\ loggedOut \in BOOLEAN

Init ==
    /\ file \in {"none", "token"} /\ token = FALSE
    /\ main = "off"
    /\ chain = [h \in Threads |-> "idle"] /\ chains = 0
    /\ left = 0 /\ sincePoll = 0
    /\ saved = (file = "token") /\ loggedOut = FALSE

-----------------------------------------------------------------------------
(* XboxAuth. *)
At(h, before, after) == chain[h] = before /\ chain' = [chain EXCEPT ![h] = after]

(* refresh_user_token(): without a token it throws at once. *)
Ask(h) ==
    /\ chain[h] = "idle" /\ token
    /\ chain' = [chain EXCEPT ![h] = "ask"]

(* The answer: a new token, a failure, or invalid_grant, which forgets the   *)
(* account.                                                                  *)
Answered(h) ==
    /\ token' = TRUE
    /\ At(h, "ask", "write")
    /\ UNCHANGED <<file, saved>>

Fails(h) == At(h, "ask", "idle") /\ UNCHANGED <<file, token, saved>>

Logout(h) ==
    /\ At(h, "ask", "idle")
    /\ token' = FALSE /\ file' = "none" /\ saved' = FALSE

(* Mutant: the store is truncated and written in place. *)
WriteInPlace(h) ==
    /\ chain[h] = "write"
    /\ \E ok \in BOOLEAN :
           /\ chain' = [chain EXCEPT ![h] = IF ok THEN "rename" ELSE "rest"]
           /\ file' = IF ok THEN file ELSE "torn"
    /\ UNCHANGED <<token, saved>>

(* save_refresh_token(): a failed write leaves the old file, ...             *)
Write(h) ==
    /\ chain[h] = "write"
    /\ \E ok \in BOOLEAN : chain' = [chain EXCEPT ![h] = IF ok THEN "rename" ELSE "rest"]
    /\ UNCHANGED <<file, token, saved>>

(* ... and so does a failed rename. *)
Renamed(h) ==
    /\ At(h, "rename", "rest")
    /\ \/ file' = "token" /\ saved' = TRUE
       \/ UNCHANGED <<file, saved>>
    /\ UNCHANGED token

(* The other requests of the chain, or one of them throws. *)
Rest(h) == At(h, "rest", "idle") /\ UNCHANGED <<file, token, saved>>

Chain(h) ==
    \/ Answered(h) \/ Fails(h) \/ Logout(h)
    \/ Write(h) \/ Renamed(h) \/ Rest(h)

-----------------------------------------------------------------------------
(* The process. *)
Gone ==
    /\ main' = "off" /\ token' = FALSE
    /\ chain' = [h \in Threads |-> "idle"] /\ chains' = 0
    /\ left' = 0 /\ sincePoll' = 0

(* main(): load_refresh_token(), and the sign-in screen without one.  The    *)
(* first poll is due at once.                                                *)
Launch ==
    /\ main = "off"
    /\ token' = (file = "token")
    /\ main' = IF file = "token" THEN "profile" ELSE "code"
    /\ left' = IF file = "token" THEN 0 ELSE Expires
    /\ sincePoll' = IF file = "token" THEN 0 ELSE Interval
    /\ UNCHANGED <<file, threadVars, saved, loggedOut>>

Killed ==
    /\ main # "off"
    /\ Gone
    /\ UNCHANGED <<file, saved, loggedOut>>

(* sign_in(): the code's life passes, a poll comes due, ... *)
CodeTick ==
    /\ main = "code" /\ chain["main"] = "idle" /\ sincePoll < Interval /\ left > 0
    /\ left' = left - 1 /\ sincePoll' = sincePoll + 1
    /\ UNCHANGED <<file, token, main, threadVars, saved, loggedOut>>

(* ... and is answered: still pending or refused, expired, or signed in.     *)
Pending ==
    /\ main = "code" /\ chain["main"] = "idle" /\ sincePoll = Interval
    /\ sincePoll' = 0
    /\ UNCHANGED <<file, token, main, threadVars, left, saved, loggedOut>>

CodeExpired ==
    /\ main = "code" /\ chain["main"] = "idle" /\ sincePoll = Interval
    /\ main' = "expired"
    /\ left' = 0 /\ sincePoll' = 0
    /\ UNCHANGED <<file, token, threadVars, saved, loggedOut>>

Authorized ==
    /\ main = "code" /\ chain["main"] = "idle" /\ sincePoll = Interval
    /\ token' = TRUE /\ loggedOut' = FALSE
    /\ chain' = [chain EXCEPT !["main"] = "write"]
    /\ UNCHANGED <<file, main, chains, codeVars, saved>>

SignedIn ==
    /\ main = "code" /\ chain["main"] = "rest"
    /\ main' = "profile"
    /\ chain' = [chain EXCEPT !["main"] = "idle"]
    /\ left' = 0 /\ sincePoll' = 0
    /\ UNCHANGED <<file, token, chains, saved, loggedOut>>

NewCode ==
    /\ main = "expired"
    /\ main' = "code" /\ left' = Expires /\ sincePoll' = Interval
    /\ UNCHANGED <<file, token, threadVars, saved, loggedOut>>

(* B, or the code's life is over.                                            *)
NotSignedIn ==
    /\ \/ main = "code" /\ chain["main"] = "idle"
       \/ main = "expired"
    /\ Gone
    /\ UNCHANGED <<file, saved, loggedOut>>

(* The profile, the catalogue when none is cached, then the library, whose   *)
(* thread runs one chain for the consoles and another for the catalogue.     *)
ProfileChain ==
    /\ main = "profile"
    /\ Ask("main")
    /\ UNCHANGED <<file, token, main, chains, codeVars, saved, loggedOut>>

OpenLibrary ==
    /\ main = "profile" /\ chain["main"] = "idle"
    /\ main' = "library"
    /\ chains' \in {1, 2}
    /\ UNCHANGED <<file, token, chain, codeVars, saved, loggedOut>>

RefreshChain ==
    /\ chains > 0 /\ chain["refresh"] = "idle"
    /\ chains' = chains - 1
    /\ IF token THEN Ask("refresh") ELSE UNCHANGED chain
    /\ UNCHANGED <<file, token, main, codeVars, saved, loggedOut>>

ThreadDone == chains = 0 /\ chain["refresh"] = "idle"

(* launch() of a game joins the refresh first; a console's row is only there *)
(* once the thread's last chain is over.                                     *)
LaunchGame ==
    /\ main = "library"
    /\ main' = "joining"
    /\ UNCHANGED <<file, token, threadVars, codeVars, saved, loggedOut>>

(* Mutant: the stream starts without the join. *)
StreamStartsAtOnce ==
    /\ main = "joining"
    /\ main' = "stream"
    /\ UNCHANGED <<file, token, threadVars, codeVars, saved, loggedOut>>

StreamStarts ==
    /\ main = "joining" /\ ThreadDone
    /\ main' = "stream"
    /\ UNCHANGED <<file, token, threadVars, codeVars, saved, loggedOut>>

LaunchConsole ==
    /\ main = "library" /\ ThreadDone
    /\ main' = "stream"
    /\ UNCHANGED <<file, token, threadVars, codeVars, saved, loggedOut>>

StreamChain ==
    /\ main = "stream"
    /\ Ask("main")
    /\ UNCHANGED <<file, token, main, chains, codeVars, saved, loggedOut>>

StreamEnds ==
    /\ main = "stream" /\ chain["main"] = "idle"
    /\ main' = "library"
    /\ UNCHANGED <<file, token, threadVars, codeVars, saved, loggedOut>>

(* "Log out": wipe() removes the file, says so, and the process leaves.      *)
Confirm ==
    /\ main \in {"library", "confirm"}
    /\ main' = IF main = "library" THEN "confirm" ELSE "library"
    /\ UNCHANGED <<file, token, threadVars, codeVars, saved, loggedOut>>

Wipe ==
    /\ main = "confirm"
    /\ main' = "wiped"
    /\ file' = "none"
    /\ saved' = FALSE /\ loggedOut' = TRUE
    /\ UNCHANGED <<token, threadVars, codeVars>>

(* The library's destructor joins the thread before the process is gone.     *)
Leave ==
    /\ main \in {"library", "wiped"}
    /\ main' = "leaving"
    /\ UNCHANGED <<file, token, threadVars, codeVars, saved, loggedOut>>

Left ==
    /\ main = "leaving" /\ ThreadDone
    /\ Gone
    /\ UNCHANGED <<file, saved, loggedOut>>

Auth ==
    /\ \E h \in Threads : Chain(h)
    /\ UNCHANGED <<main, chains, codeVars, loggedOut>>

Screens ==
    \/ Launch \/ Killed
    \/ CodeTick \/ Pending \/ CodeExpired \/ Authorized \/ SignedIn \/ NewCode \/ NotSignedIn
    \/ ProfileChain \/ OpenLibrary \/ RefreshChain
    \/ LaunchGame \/ StreamStarts \/ LaunchConsole \/ StreamChain \/ StreamEnds
    \/ Confirm \/ Wipe \/ Leave \/ Left

Next == Auth \/ Screens

Spec == Init /\ [][Next]_vars

-----------------------------------------------------------------------------
(* Properties. *)

(* Who signed in stays signed in over failed requests, full disks, kills and *)
(* relaunches, until they log out or Microsoft says the grant is invalid.    *)
KeptSignedIn == saved => file = "token"

(* One XboxAuth serves every thread and has no lock: no two of them are ever *)
(* in it together.                                                           *)
AuthNotShared == chain["main"] = "idle" \/ chain["refresh"] = "idle"

(* library.cpp:1465-1472: after a log out "a clean exit makes the next       *)
(* launch the reset one": it starts at the sign-in screen.                   *)
LoggedOutStays == loggedOut => main \notin {"profile", "library", "stream"}
=============================================================================
