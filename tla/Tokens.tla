------------------------------- MODULE Tokens -------------------------------
(***************************************************************************)
(* Sign in with ChatGPT (chatgpt_auth.rs and below): one account whose     *)
(* refresh token rotates at every use. Callers refresh it, an operator     *)
(* signs in, signs out or transfers it to another runtime; a file lock     *)
(* covers each operation, and a process may die inside one.                *)
(*                                                                         *)
(* A token is a number; the provider accepts the tokens in `good` and      *)
(* forgets one as it answers with the next.                                *)
(***************************************************************************)
EXTENDS Naturals, FiniteSets

CONSTANTS
  Callers,      \* threads that ask for an access token
  SignIns,      \* bound: browser sign-ins
  Holds,        \* bound: reservations of the account by attempts
  MaxToken,     \* bound: tokens ever issued
  MaxVersion    \* bound: credential_version

ASSUME TokensAssumption ==
  MaxToken \in Nat \ {0} /\ MaxVersion \in Nat \ {0} /\ "free" \notin Callers

VARIABLES
  \* accounts, auth_profiles and the private files of the account
  version, authenticated, material,   \* material: token in <version>.json, 0 if none
  journal,      \* transfer-pending.json: [version, token], version 0 if none
  hold,         \* hold[r]: [state, version] of account_reservations
  \* processes
  locked,       \* who holds refresh.lock, "free" if nobody
  work,         \* work[c]: [at, token, version] of a caller or of the operator
  signIn,       \* signIn[s]: [status, version, token]
  \* the world
  issued, good, \* tokens issued so far, and those the provider accepts
  fresh,        \* the access token has not expired
  bundle, dest, \* token in the exported file, and in the destination runtime
  spent,        \* spent[t]: times t was presented for an exchange, 2 for more
  lost,         \* tokens whose answer never became durable
  shut          \* sign-ins that were pending when the account was signed out or paused

tokenVars == <<version, authenticated, material, journal, hold, locked, work, signIn,
               issued, good, fresh, bundle, dest, spent, lost, shut>>
accountRowVars   == <<version, authenticated, material, hold>>
authWorldVars == <<issued, good, bundle, dest, spent, lost>>

AuthOperator  == "operator"
TokenActors    == Callers \cup {AuthOperator}
NoWork       == [at |-> "off", token |-> 0, version |-> 0]
NoJournal == [version |-> 0, token |-> 0]
NoSignIn  == [status |-> "none", version |-> 0, token |-> 0]
SetWork(c, w) == work' = [work EXCEPT ![c] = w]
UnlockAccount(c) == SetWork(c, NoWork) /\ locked' = "free"
LiveHolds      == {r \in Holds : hold[r].state \in {"active", "revoked"}}

WaitingSignIns == {s \in SignIns : signIn[s].status = "pending"}
Presented(t) == [spent EXCEPT ![t] = IF spent[t] < 2 THEN spent[t] + 1 ELSE 2]

TokensInit ==
  /\ version = 1 /\ authenticated = TRUE /\ material = 1 /\ journal = NoJournal
  /\ hold = [r \in Holds |-> [state |-> "none", version |-> 0]]
  /\ locked = "free" /\ work = [c \in TokenActors |-> NoWork]
  /\ signIn = [s \in SignIns |-> NoSignIn]
  /\ issued = 1 /\ good = {1} /\ fresh = TRUE /\ bundle = 0 /\ dest = 0
  /\ spent = [t \in 1..MaxToken |-> 0] /\ lost = {} /\ shut = {}
-----------------------------------------------------------------------------
(* Storage.                                                                *)

\* save and set_credential: only over the version the operation began with.
SaveCredential(t, v) ==
  /\ version = v /\ version < MaxVersion /\ version' = version + 1
  /\ material' = t /\ authenticated' = TRUE

\* clear_local: one transaction, then the files.
ClearLocalKeepsVersion ==
  /\ UNCHANGED version /\ material' = 0 /\ authenticated' = FALSE
  /\ hold' = [r \in Holds |-> IF r \in LiveHolds THEN [hold[r] EXCEPT !.state = "revoked"] ELSE hold[r]]
ClearLocal ==
  /\ version < MaxVersion /\ version' = version + 1
  /\ material' = 0 /\ authenticated' = FALSE
  /\ hold' = [r \in Holds |-> IF r \in LiveHolds THEN [hold[r] EXCEPT !.state = "revoked"] ELSE hold[r]]
-----------------------------------------------------------------------------
(* access_token.                                                           *)

\* Under the lock the credential is read again; an access token that is still valid is
\* returned as it is.
Refresh(c) ==
  /\ work[c] = NoWork /\ locked = "free" /\ authenticated /\ material # 0 /\ ~fresh
  /\ SetWork(c, [at |-> "exchange", token |-> material, version |-> version]) /\ locked' = c
  /\ UNCHANGED <<shut, accountRowVars, journal, signIn, authWorldVars, fresh>>

\* The rotating exchange: answered, answered in vain, refused, or never sent.
Exchange(c) ==
  /\ work[c].at = "exchange" /\ issued < MaxToken
  /\ LET t == work[c].token IN
     \/ /\ t \in good /\ spent' = Presented(t)
        /\ issued' = issued + 1 /\ good' = (good \ {t}) \cup {issued + 1}
        /\ \/ SetWork(c, [work[c] EXCEPT !.at = "save", !.token = issued + 1])
              /\ UNCHANGED <<locked, lost>>
           \/ UnlockAccount(c) /\ lost' = lost \cup {issued + 1}
     \/ /\ t \notin good /\ spent' = Presented(t)
        /\ SetWork(c, [work[c] EXCEPT !.at = "clear"])
        /\ UNCHANGED <<locked, issued, good, lost>>
     \/ UnlockAccount(c) /\ UNCHANGED <<spent, issued, good, lost>>
  /\ UNCHANGED <<shut, accountRowVars, journal, signIn, fresh, bundle, dest>>

\* The new token and the versions that running attempts are bound to, in one
\* transaction; an answer without plan permission signs the account out instead.
SaveRefresh(c) ==
  /\ work[c].at = "save"
  /\ \/ /\ SaveCredential(work[c].token, work[c].version) /\ fresh' = TRUE
        /\ hold' = [r \in Holds |->
             IF hold[r] = [state |-> "active", version |-> work[c].version]
             THEN [hold[r] EXCEPT !.version = version + 1] ELSE hold[r]]
        /\ UNCHANGED lost
     \/ ClearLocal /\ lost' = lost \cup {work[c].token} /\ UNCHANGED fresh
     \/ version # work[c].version /\ lost' = lost \cup {work[c].token}
        /\ UNCHANGED <<accountRowVars, fresh>>
  /\ UnlockAccount(c) /\ UNCHANGED <<shut, journal, signIn, issued, good, bundle, dest, spent>>

RefreshRevoked(c) ==
  /\ work[c].at = "clear" /\ ClearLocal /\ UnlockAccount(c)
  /\ UNCHANGED <<shut, journal, signIn, authWorldVars, fresh>>
-----------------------------------------------------------------------------
(* sign_out.                                                               *)

\* Later calls are refused before the provider is asked.
SignOut ==
  /\ work[AuthOperator] = NoWork /\ locked = "free" /\ locked' = AuthOperator
  /\ SetWork(AuthOperator, [at |-> "revoke", token |-> IF authenticated THEN material ELSE 0,
                    version |-> version])
  /\ authenticated' = FALSE
  /\ hold' = [r \in Holds |-> IF r \in LiveHolds THEN [hold[r] EXCEPT !.state = "revoked"] ELSE hold[r]]
  /\ UNCHANGED <<shut, version, material, journal, signIn, authWorldVars, fresh>>

\* Up to three tries; the account is cleared whether or not one was confirmed.
RevokeToken ==
  /\ work[AuthOperator].at = "revoke"
  /\ good' \in {good, good \ {work[AuthOperator].token}}
  /\ SetWork(AuthOperator, [work[AuthOperator] EXCEPT !.at = "signout"])
  /\ UNCHANGED <<shut, accountRowVars, journal, locked, signIn, issued, fresh, bundle, dest, spent, lost>>

SignedOut ==
  /\ work[AuthOperator].at = "signout" /\ ClearLocal /\ UnlockAccount(AuthOperator)
  /\ shut' = shut \cup WaitingSignIns
  /\ UNCHANGED <<journal, signIn, authWorldVars, fresh>>
-----------------------------------------------------------------------------
(* Browser sign-in (session.rs).                                           *)

SignInStart(s) ==
  /\ signIn[s] = NoSignIn /\ locked = "free"
  /\ \A o \in SignIns : signIn[o].status # "pending"
  /\ signIn' = [signIn EXCEPT ![s] = [status |-> "pending", version |-> version, token |-> 0]]
  /\ UNCHANGED <<shut, accountRowVars, journal, locked, work, authWorldVars, fresh>>

\* The callback's code is exchanged for a new session, before the account is locked.
SignInExchange(s) ==
  /\ signIn[s].status = "pending" /\ signIn[s].token = 0 /\ issued < MaxToken
  /\ issued' = issued + 1 /\ good' = good \cup {issued + 1}
  /\ signIn' = [signIn EXCEPT ![s].token = issued + 1]
  /\ UNCHANGED <<shut, accountRowVars, journal, locked, work, fresh, bundle, dest, spent, lost>>

\* complete: under the account lock and the session's own, neither cancelled nor
\* expired, over the version that was current at the start.
SignInCommit(s) ==
  /\ signIn[s].status = "pending" /\ signIn[s].token # 0
  /\ \/ locked = "free" /\ SaveCredential(signIn[s].token, signIn[s].version)
        /\ fresh' = TRUE /\ signIn' = [signIn EXCEPT ![s].status = "completed"]
        /\ UNCHANGED <<hold, lost>>
     \/ (locked # "free" \/ version # signIn[s].version)
        /\ signIn' = [signIn EXCEPT ![s].status = "failed"]
        /\ lost' = lost \cup {signIn[s].token} /\ UNCHANGED <<accountRowVars, fresh>>
  /\ UNCHANGED <<shut, journal, locked, work, issued, good, bundle, dest, spent>>

\* cancel, the deadline, and the callback that says no.
SignInEnd(s, status) ==
  /\ signIn[s].status = "pending" /\ status \in {"cancelled", "expired", "failed"}
  /\ signIn' = [signIn EXCEPT ![s].status = status]
  /\ UNCHANGED <<shut, accountRowVars, journal, locked, work, authWorldVars, fresh>>
-----------------------------------------------------------------------------
(* Transfer to another runtime (export_file, import).                      *)

\* prepare_transfer: an idle account is paused under a new version before anything
\* leaves it; a paused one continues only the transfer its journal names.
Export ==
  /\ work[AuthOperator] = NoWork /\ locked = "free" /\ material # 0 /\ LiveHolds = {}
  /\ locked' = AuthOperator
  /\ \/ /\ authenticated /\ version < MaxVersion
        /\ version' = version + 1 /\ authenticated' = FALSE
        /\ journal' = [version |-> version + 1, token |-> material]
        /\ shut' = shut \cup WaitingSignIns
     \/ /\ ~authenticated /\ journal = [version |-> version, token |-> material]
        /\ UNCHANGED <<version, authenticated, journal, shut>>
  /\ SetWork(AuthOperator, [at |-> "write", token |-> material, version |-> version'])
  /\ UNCHANGED <<material, hold, signIn, authWorldVars, fresh>>

ExportWrite ==
  /\ work[AuthOperator].at = "write"
  /\ \/ bundle' = work[AuthOperator].token
        /\ SetWork(AuthOperator, [work[AuthOperator] EXCEPT !.at = "hand"]) /\ UNCHANGED locked
     \/ UnlockAccount(AuthOperator) /\ UNCHANGED bundle
  /\ UNCHANGED <<shut, accountRowVars, journal, signIn, issued, good, fresh, dest, spent, lost>>

ExportClear ==
  /\ work[AuthOperator].at = "hand" /\ ClearLocal
  /\ SetWork(AuthOperator, [work[AuthOperator] EXCEPT !.at = "forget"])
  /\ UNCHANGED <<shut, journal, locked, signIn, authWorldVars, fresh>>

ExportDone ==
  /\ work[AuthOperator].at = "forget" /\ journal' = NoJournal /\ UnlockAccount(AuthOperator)
  /\ UNCHANGED <<shut, accountRowVars, signIn, authWorldVars, fresh>>

\* The destination imports the file and may use the token.
Import ==
  /\ bundle # 0 /\ dest' = bundle
  /\ UNCHANGED <<shut, accountRowVars, journal, locked, work, signIn, issued, good, fresh, bundle, spent, lost>>
-----------------------------------------------------------------------------
AccessTokenExpires ==
  /\ fresh /\ fresh' = FALSE
  /\ UNCHANGED <<shut, accountRowVars, journal, locked, work, signIn, authWorldVars>>

HoldAccount(r) ==
  /\ authenticated /\ hold[r].state = "none"
  /\ hold' = [hold EXCEPT ![r] = [state |-> "active", version |-> version]]
  /\ UNCHANGED <<shut, version, authenticated, material, journal, locked, work, signIn, authWorldVars, fresh>>

UnholdAccount(r) ==
  /\ hold[r].state \in {"active", "revoked"}
  /\ hold' = [hold EXCEPT ![r] = [state |-> "none", version |-> 0]]
  /\ UNCHANGED <<shut, version, authenticated, material, journal, locked, work, signIn, authWorldVars, fresh>>

TokenProcessDies(c) ==
  /\ work[c] # NoWork /\ work' = [work EXCEPT ![c] = NoWork]
  /\ locked' = IF locked = c THEN "free" ELSE locked
  /\ lost' = IF work[c].at = "save" THEN lost \cup {work[c].token} ELSE lost
  /\ UNCHANGED <<shut, accountRowVars, journal, signIn, issued, good, fresh, bundle, dest, spent>>

TokensNext ==
  \/ \E c \in Callers : Refresh(c) \/ Exchange(c) \/ SaveRefresh(c) \/ RefreshRevoked(c)
  \/ SignOut \/ RevokeToken \/ SignedOut
  \/ \E s \in SignIns : \/ SignInStart(s) \/ SignInExchange(s) \/ SignInCommit(s)
                        \/ \E e \in {"cancelled", "expired", "failed"} : SignInEnd(s, e)
  \/ Export \/ ExportWrite \/ ExportClear \/ ExportDone \/ Import
  \/ AccessTokenExpires \/ (\E r \in Holds : HoldAccount(r) \/ UnholdAccount(r)) \/ (\E c \in TokenActors : TokenProcessDies(c))

TokensSpec == TokensInit /\ [][TokensNext]_tokenVars
-----------------------------------------------------------------------------
TokensTypeOK ==
  /\ version \in 1..MaxVersion /\ authenticated \in BOOLEAN /\ material \in 0..MaxToken
  /\ journal \in [version : 0..MaxVersion, token : 0..MaxToken]
  /\ hold \in [Holds -> [state : {"none", "active", "revoked"}, version : 0..MaxVersion]]
  /\ locked \in TokenActors \cup {"free"}
  /\ work \in [TokenActors -> [at : {"off", "exchange", "save", "clear", "revoke", "signout",
                                "write", "hand", "forget"},
                          token : 0..MaxToken, version : 0..MaxVersion]]
  /\ signIn \in [SignIns -> [status : {"none", "pending", "completed", "cancelled",
                                       "expired", "failed"},
                             version : 0..MaxVersion, token : 0..MaxToken]]
  /\ issued \in 1..MaxToken /\ good \subseteq 1..issued /\ fresh \in BOOLEAN
  /\ bundle \in 0..MaxToken /\ dest \in 0..MaxToken
  /\ spent \in [1..MaxToken -> Nat] /\ lost \subseteq 1..MaxToken /\ shut \subseteq SignIns

\* A refresh token is presented twice only when the answer to its first use was lost:
\* concurrent callers never race with one token, which the provider would take for theft.
PresentedOnce ==
  \A t \in 1..MaxToken : spent[t] > 1 => (\E u \in lost : u > t)

\* Once transferred, a token has one refresh owner: the source never holds it as usable
\* while the destination does.
SoleRefreshOwner == dest # 0 /\ authenticated => material # dest

\* A sign-in that was cancelled or expired never puts its token into use, and neither
\* does one that was waiting when the account was signed out or handed over.
OldSignInStaysOut ==
  /\ \A s \in shut : signIn[s].status # "completed"
  /\ \A s \in SignIns : signIn[s].token # 0 /\ material = signIn[s].token
                          => signIn[s].status = "completed"

\* A refresh does not invalidate the attempts that run on the account: an active
\* reservation is for the version in force, unless a sign-in replaced the credential.
HoldsFollowRefresh ==
  [][\A r \in Holds : hold[r].state = "active" /\ hold'[r].state = "active"
                      /\ hold[r].version = version /\ signIn' = signIn
                        => hold'[r].version = version']_tokenVars

\* The invariants together: what every request, crash and retry above must preserve.
TokensInv ==
  /\ TokensTypeOK
  /\ PresentedOnce
  /\ SoleRefreshOwner
  /\ OldSignInStaysOut
=============================================================================
