----------------------------- MODULE TokensProofs -----------------------------
(***************************************************************************)
(* Proofs about Tokens. A refresh token is in one of few places: in force, *)
(* on its way into force under the lock, carried by a sign-in that has not *)
(* ended, or gone. The inductive invariant says where, and that a token in *)
(* force which the provider no longer takes has a successor that was lost. *)
(***************************************************************************)
EXTENDS Tokens, TLAPS

WorkPlaces == {"off", "exchange", "save", "clear", "revoke", "signout", "write", "hand", "forget"}
Work       == [at : WorkPlaces, token : 0..MaxToken, version : 0..MaxVersion]
SignInRow  == [status : {"none", "pending", "completed", "cancelled", "expired", "failed"},
               version : 0..MaxVersion, token : 0..MaxToken]
HoldRow    == [state : {"none", "active", "revoked"}, version : 0..MaxVersion]

\* One operation at a time: who is at work has the lock.
Locked ==
  \A c \in TokenActors : /\ work[c].at # "off" => locked = c
                         /\ work[c].at = "off" => work[c] = NoWork

\* No token is known before it is issued.
KnownTokens ==
  /\ material <= issued /\ bundle <= issued /\ dest <= issued
  /\ \A c \in TokenActors : work[c].token <= issued
  /\ \A s \in SignIns : signIn[s].token <= issued
  /\ \A t \in 1..MaxToken : t > issued => spent[t] = 0

\* What the one at work has in hand.
InUse(c) ==
  work[c].at \in {"exchange", "clear"} =>
    authenticated /\ material # 0 /\ work[c].token = material /\ work[c].version = version
Coming(c) ==
  work[c].at = "save" =>
    /\ authenticated /\ material # 0 /\ work[c].version = version
    /\ work[c].token \in good /\ spent[work[c].token] = 0 /\ work[c].token > material
    /\ work[c].token # bundle /\ work[c].token # dest
    /\ \A s \in SignIns : signIn[s].token # work[c].token
Leaving(c) ==
  /\ work[c].at = "revoke" => ~authenticated /\ work[c].token \in {0, material}
  /\ work[c].at = "write" => ~authenticated /\ work[c].token = material
Holding == \A c \in TokenActors : InUse(c) /\ Coming(c) /\ Leaving(c)

\* The token in force has not been presented, or what it was exchanged for is being
\* saved, or was lost.
Covered(t) == \E u \in lost : u > t
Current ==
  authenticated /\ material # 0 =>
    \/ material \in good /\ spent[material] = 0
    \/ Covered(material)
    \/ \E c \in TokenActors : work[c].at = "save"

\* What sign-ins carry is nobody else's until they end well.
CarriedApart(s) ==
  /\ signIn[s].status = "none" => signIn[s].token = 0
  /\ signIn[s].token # 0 /\ signIn[s].status # "completed" =>
       signIn[s].token # material /\ signIn[s].token # bundle /\ signIn[s].token # dest
  /\ signIn[s].token # 0 /\ signIn[s].status = "pending" =>
       signIn[s].token \in good /\ spent[signIn[s].token] = 0
Entering ==
  /\ \A s \in SignIns : CarriedApart(s)
  /\ \A s, o \in SignIns : s # o /\ signIn[s].token # 0 => signIn[s].token # signIn[o].token

\* What was handed over is not in force here.
Owning ==
  authenticated => (bundle # 0 => material # bundle) /\ (dest # 0 => material # dest)

\* A sign-in that was waiting when the account was closed began with an older version.
Shutting ==
  /\ \A s \in SignIns : signIn[s].status = "pending" => signIn[s].version <= version
  /\ \A s \in shut : /\ signIn[s].status \notin {"none", "completed"}
                     /\ signIn[s].status = "pending" => signIn[s].version < version

Places == Locked /\ KnownTokens /\ Holding /\ Current /\ Entering /\ Owning /\ Shutting
TokensSafeInv == TokensTypeOK /\ Places /\ PresentedOnce
-----------------------------------------------------------------------------
(* Helpers.                                                                *)

WorkTyped == work \in [TokenActors -> Work]
Alone(c)  == \A d \in TokenActors \ {c} : work[d] = NoWork

LEMMA NoWorkIs ==
  /\ NoWork.at = "off" /\ NoWork.token = 0 /\ NoWork.version = 0 /\ NoWork \in Work
BY TokensAssumption DEF NoWork, Work, WorkPlaces

LEMMA Types ==
  ASSUME TokensTypeOK
  PROVE  /\ WorkTyped /\ signIn \in [SignIns -> SignInRow] /\ hold \in [Holds -> HoldRow]
         /\ version \in Nat /\ material \in Nat /\ issued \in Nat /\ bundle \in Nat /\ dest \in Nat
         /\ lost \subseteq Nat /\ MaxToken \in Nat /\ MaxVersion \in Nat
         /\ \A c \in TokenActors : work[c].token \in Nat /\ work[c].version \in Nat
         /\ \A s \in SignIns : signIn[s].token \in Nat /\ signIn[s].version \in Nat
BY TokensAssumption DEF TokensTypeOK, WorkTyped, Work, WorkPlaces, SignInRow, HoldRow

\* Who holds the lock is alone; while nobody does, nobody is at work.
LEMMA AloneAtWork ==
  ASSUME Locked
  PROVE  /\ \A c \in TokenActors : work[c].at # "off" => Alone(c) /\ locked = c
         /\ locked = "free" => \A c \in TokenActors : work[c] = NoWork /\ Alone(c)
BY TokensAssumption DEF Locked, Alone, TokenActors, AuthOperator

LEMMA SetWorkIs ==
  ASSUME TokensTypeOK, NEW c \in TokenActors, NEW w \in Work, SetWork(c, w), Alone(c)
  PROVE  WorkTyped' /\ work'[c] = w /\ Alone(c)'
BY Types DEF SetWork, WorkTyped, Alone

LEMMA LockedIs ==
  ASSUME NEW c \in TokenActors, Alone(c)',
         \/ work'[c] = NoWork
         \/ work'[c].at # "off" /\ locked' = c
  PROVE  Locked'
BY NoWorkIs DEF Locked, Alone

\* Those who are not at work hold nothing.
LEMMA HoldingIs ==
  ASSUME NEW c \in TokenActors, Alone(c)', InUse(c)', Coming(c)', Leaving(c)'
  PROVE  Holding'
BY NoWorkIs DEF Holding, InUse, Coming, Leaving, Alone

LEMMA IdleHolds ==
  ASSUME \A c \in TokenActors : work'[c] = NoWork
  PROVE  Holding' /\ Locked'
BY NoWorkIs DEF Holding, InUse, Coming, Leaving, Locked

LEMMA TypesAre ==
  ASSUME TokensTypeOK
  PROVE  /\ version \in 1..MaxVersion /\ authenticated \in BOOLEAN /\ material \in 0..MaxToken
         /\ journal \in [version : 0..MaxVersion, token : 0..MaxToken]
         /\ hold \in [Holds -> HoldRow] /\ locked \in TokenActors \cup {"free"} /\ WorkTyped
         /\ signIn \in [SignIns -> SignInRow] /\ issued \in 1..MaxToken /\ good \subseteq 1..issued
         /\ fresh \in BOOLEAN /\ bundle \in 0..MaxToken /\ dest \in 0..MaxToken
         /\ spent \in [1..MaxToken -> Nat] /\ lost \subseteq 1..MaxToken /\ shut \subseteq SignIns
BY DEF TokensTypeOK, WorkTyped, Work, WorkPlaces, SignInRow, HoldRow

LEMMA TypesAgain ==
  ASSUME version' \in 1..MaxVersion, authenticated' \in BOOLEAN, material' \in 0..MaxToken,
         journal' \in [version : 0..MaxVersion, token : 0..MaxToken],
         hold' \in [Holds -> HoldRow], locked' \in TokenActors \cup {"free"}, WorkTyped',
         signIn' \in [SignIns -> SignInRow], issued' \in 1..MaxToken, good' \subseteq 1..issued',
         fresh' \in BOOLEAN, bundle' \in 0..MaxToken, dest' \in 0..MaxToken,
         spent' \in [1..MaxToken -> Nat], lost' \subseteq 1..MaxToken, shut' \subseteq SignIns
  PROVE  TokensTypeOK'
BY DEF TokensTypeOK, WorkTyped, Work, WorkPlaces, SignInRow, HoldRow
-----------------------------------------------------------------------------
(* Steps of the world, of sign-ins, and of who runs on the account: nobody's *)
(* work changes.                                                           *)

LEMMA ImportKeeps == ASSUME TokensSafeInv, Import PROVE TokensSafeInv'
<1>1. /\ bundle # 0 /\ dest' = bundle
      /\ UNCHANGED <<shut, version, authenticated, material, hold, journal, locked, work, signIn,
                     issued, good, fresh, bundle, spent, lost>>
  BY DEF Import, accountRowVars
<1>2. TokensTypeOK' /\ Locked' /\ Shutting' /\ PresentedOnce'
  BY <1>1 DEF TokensSafeInv, TokensTypeOK, Places, Locked, Shutting, PresentedOnce
<1>3. KnownTokens' /\ Entering' /\ Owning'
  BY <1>1 DEF TokensSafeInv, Places, KnownTokens, Entering, CarriedApart, Owning
<1>4. Holding'
  BY <1>1 DEF TokensSafeInv, Places, Holding, InUse, Coming, Leaving
<1>5. Current'
  BY <1>1 DEF TokensSafeInv, Places, Current, Covered
<1> QED BY <1>2, <1>3, <1>4, <1>5 DEF TokensSafeInv, Places

\* Time passes, and attempts take and return the account.
LEMMA HoldsKeep ==
  ASSUME TokensSafeInv, AccessTokenExpires \/ \E r \in Holds : HoldAccount(r) \/ UnholdAccount(r)
  PROVE  TokensSafeInv'
<1>1. /\ fresh' \in {fresh, FALSE}
      /\ UNCHANGED <<shut, version, authenticated, material, journal, locked, work, signIn,
                     issued, good, bundle, dest, spent, lost>>
  BY DEF AccessTokenExpires, HoldAccount, UnholdAccount, accountRowVars, authWorldVars
<1> DEFINE taken == [state |-> "active", version |-> version]
           none  == [state |-> "none", version |-> 0]
<1>2. hold' \in [Holds -> HoldRow]
  <2>1. taken \in HoldRow /\ none \in HoldRow
    BY TokensAssumption DEF TokensSafeInv, TokensTypeOK, HoldRow
  <2>2. \/ hold' = hold
        \/ \E r \in Holds : hold' = [hold EXCEPT ![r] = taken] \/ hold' = [hold EXCEPT ![r] = none]
    BY DEF AccessTokenExpires, HoldAccount, UnholdAccount, accountRowVars
  <2> HIDE DEF taken, none
  <2> QED BY <2>1, <2>2, Types DEF TokensSafeInv
<1>3. TokensTypeOK'
  BY <1>1, <1>2 DEF TokensSafeInv, TokensTypeOK, HoldRow
<1>4. Locked' /\ Shutting' /\ PresentedOnce' /\ KnownTokens' /\ Entering' /\ Owning'
  BY <1>1 DEF TokensSafeInv, Places, Locked, Shutting, PresentedOnce, KnownTokens,
              Entering, CarriedApart, Owning
<1>5. Holding'
  BY <1>1 DEF TokensSafeInv, Places, Holding, InUse, Coming, Leaving
<1>6. Current'
  BY <1>1 DEF TokensSafeInv, Places, Current, Covered
<1> QED BY <1>3, <1>4, <1>5, <1>6 DEF TokensSafeInv, Places

\* A sign-in begins or ends without a token of its own coming into force.
LEMMA SignInKeeps ==
  ASSUME TokensSafeInv, NEW s \in SignIns,
         SignInStart(s) \/ \E e \in {"cancelled", "expired", "failed"} : SignInEnd(s, e)
  PROVE  TokensSafeInv'
<1> DEFINE first == [status |-> "pending", version |-> version, token |-> 0]
<1>1. UNCHANGED <<shut, version, authenticated, material, hold, journal, locked, work,
                  issued, good, fresh, bundle, dest, spent, lost>>
  BY DEF SignInStart, SignInEnd, accountRowVars, authWorldVars
<1>2. PICK x \in SignInRow :
        /\ signIn' = [signIn EXCEPT ![s] = x]
        /\ \/ x.status = "pending" /\ x.version = version /\ x.token = 0 /\ signIn[s].status = "none"
           \/ /\ x.status \in {"cancelled", "expired", "failed"} /\ signIn[s].status = "pending"
              /\ x.token = signIn[s].token
  <2>1. CASE SignInStart(s)
    <3>1. first \in SignInRow /\ first.status = "pending" /\ first.version = version
          /\ first.token = 0
      BY TokensAssumption DEF TokensSafeInv, TokensTypeOK, SignInRow
    <3>2. signIn' = [signIn EXCEPT ![s] = first] /\ signIn[s].status = "none"
      BY <2>1 DEF SignInStart, NoSignIn
    <3> HIDE DEF first
    <3> QED BY <3>1, <3>2
  <2>2. ASSUME NEW e \in {"cancelled", "expired", "failed"}, SignInEnd(s, e)
        PROVE  \E x \in SignInRow : /\ signIn' = [signIn EXCEPT ![s] = x] /\ x.status = e
                                    /\ x.token = signIn[s].token /\ signIn[s].status = "pending"
    <3> DEFINE last == [signIn[s] EXCEPT !.status = e]
    <3>1. signIn[s] \in SignInRow
      BY Types DEF TokensSafeInv
    <3>2. last \in SignInRow /\ last.status = e /\ last.token = signIn[s].token
      BY <3>1 DEF SignInRow
    <3>3. signIn' = [signIn EXCEPT ![s] = last] /\ signIn[s].status = "pending"
      BY <2>2 DEF SignInEnd
    <3> HIDE DEF last
    <3> QED BY <3>2, <3>3
  <2> QED BY <2>1, <2>2
<1>3. /\ signIn' \in [SignIns -> SignInRow] /\ signIn'[s] = x
      /\ \A o \in SignIns \ {s} : signIn'[o] = signIn[o]
  BY <1>2, Types DEF TokensSafeInv
<1>4. TokensTypeOK'
  BY <1>1, <1>3, TypesAgain, TypesAre DEF TokensSafeInv, WorkTyped
<1>5. \A o \in SignIns : signIn'[o].token = signIn[o].token
  BY <1>2, <1>3 DEF TokensSafeInv, Places, Entering, CarriedApart
<1>6. Locked' /\ Owning' /\ PresentedOnce'
  BY <1>1 DEF TokensSafeInv, Places, Locked, PresentedOnce, Owning
<1>7. KnownTokens'
  BY <1>1, <1>5 DEF TokensSafeInv, Places, KnownTokens
<1>8. Entering'
  BY <1>1, <1>2, <1>3, <1>5 DEF TokensSafeInv, Places, Entering, CarriedApart
<1>9. Shutting'
  BY <1>1, <1>2, <1>3, Types DEF TokensSafeInv, Places, Shutting
<1>10. Holding'
  BY <1>1, <1>5 DEF TokensSafeInv, Places, Holding, InUse, Coming, Leaving
<1>11. Current'
  BY <1>1 DEF TokensSafeInv, Places, Current, Covered
<1> QED BY <1>4, <1>6, <1>7, <1>8, <1>9, <1>10, <1>11 DEF TokensSafeInv, Places

LEMMA SignInExchangeKeeps ==
  ASSUME TokensSafeInv, NEW s \in SignIns, SignInExchange(s)
  PROVE  TokensSafeInv'
<1> DEFINE new == [signIn[s] EXCEPT !.token = issued + 1]
<1>1. /\ issued < MaxToken /\ issued' = issued + 1 /\ good' = good \cup {issued + 1}
      /\ signIn[s].status = "pending" /\ signIn[s].token = 0
      /\ signIn' = [signIn EXCEPT ![s] = new]
      /\ UNCHANGED <<shut, version, authenticated, material, hold, journal, locked, work,
                     fresh, bundle, dest, spent, lost>>
  BY DEF SignInExchange, accountRowVars
<1>2. TokensTypeOK /\ issued \in Nat /\ MaxToken \in Nat /\ issued + 1 \in 1..MaxToken
  <2>1. TokensTypeOK /\ issued \in Nat /\ MaxToken \in Nat
    BY Types DEF TokensSafeInv
  <2> QED BY <1>1, <2>1
<1>3. new \in SignInRow /\ new.token = issued + 1 /\ new.status = "pending"
      /\ new.version = signIn[s].version
  BY <1>1, <1>2, Types DEF SignInRow
<1> HIDE DEF new
<1>4. /\ signIn' \in [SignIns -> SignInRow] /\ signIn'[s] = new
      /\ \A o \in SignIns \ {s} : signIn'[o] = signIn[o]
  BY <1>1, <1>2, <1>3, Types
<1>5. TokensTypeOK'
  <2>1. good' \subseteq 1..issued'
    BY <1>1, <1>2 DEF TokensTypeOK
  <2> QED BY <1>1, <1>2, <1>4, <2>1, TypesAgain, TypesAre DEF WorkTyped
<1>6. Locked' /\ Owning' /\ PresentedOnce'
  BY <1>1 DEF TokensSafeInv, Places, Locked, PresentedOnce, Owning
<1>7. KnownTokens'
  BY <1>1, <1>2, <1>3, <1>4, Types DEF TokensSafeInv, Places, KnownTokens
<1>8. /\ \A o \in SignIns : signIn[o].token # issued + 1
      /\ material # issued + 1 /\ bundle # issued + 1 /\ dest # issued + 1
      /\ \A c \in TokenActors : work[c].token # issued + 1
      /\ spent[issued + 1] = 0
  <2>1. KnownTokens
    BY DEF TokensSafeInv, Places
  <2>2. \A o \in SignIns : signIn[o].token <= issued /\ signIn[o].token \in Nat
    BY <1>2, <2>1, Types DEF KnownTokens
  <2>3. \A c \in TokenActors : work[c].token <= issued /\ work[c].token \in Nat
    BY <1>2, <2>1, Types DEF KnownTokens
  <2>4. material <= issued /\ bundle <= issued /\ dest <= issued
        /\ material \in Nat /\ bundle \in Nat /\ dest \in Nat
    BY <1>2, <2>1, Types DEF KnownTokens
  <2>5. spent[issued + 1] = 0
    BY <1>2, <2>1 DEF KnownTokens
  <2> QED BY <1>2, <2>2, <2>3, <2>4, <2>5
<1>9. Entering'
  BY <1>1, <1>3, <1>4, <1>8 DEF TokensSafeInv, Places, Entering, CarriedApart
<1>10. Shutting'
  BY <1>1, <1>3, <1>4 DEF TokensSafeInv, Places, Shutting
<1>11. Holding'
  BY <1>1, <1>3, <1>4, <1>8 DEF TokensSafeInv, Places, Holding, InUse, Coming, Leaving
<1>12. Current'
  BY <1>1 DEF TokensSafeInv, Places, Current, Covered
<1> QED BY <1>5, <1>6, <1>7, <1>9, <1>10, <1>11, <1>12 DEF TokensSafeInv, Places

LEMMA SignInCommitKeeps ==
  ASSUME TokensSafeInv, NEW s \in SignIns, SignInCommit(s)
  PROVE  TokensSafeInv'
<1> DEFINE t == signIn[s].token
           done == [signIn[s] EXCEPT !.status = "completed"]
           fail == [signIn[s] EXCEPT !.status = "failed"]
<1>1. /\ signIn[s].status = "pending" /\ t # 0
      /\ UNCHANGED <<shut, journal, locked, work, issued, good, bundle, dest, spent, hold>>
  BY DEF SignInCommit, accountRowVars
<1>2. \/ /\ locked = "free" /\ version = signIn[s].version /\ version < MaxVersion
         /\ version' = version + 1 /\ material' = t /\ authenticated' = TRUE /\ fresh' = TRUE
         /\ signIn' = [signIn EXCEPT ![s] = done] /\ lost' = lost
      \/ /\ signIn' = [signIn EXCEPT ![s] = fail] /\ lost' = lost \cup {t}
         /\ UNCHANGED <<version, material, authenticated, fresh>>
  BY DEF SignInCommit, SaveCredential, accountRowVars
<1>3. TokensTypeOK /\ signIn[s] \in SignInRow /\ t \in 1..MaxToken
  BY <1>1, Types, TokensAssumption DEF TokensSafeInv, SignInRow
<1>4. /\ done \in SignInRow /\ done.status = "completed" /\ done.token = t
      /\ fail \in SignInRow /\ fail.status = "failed" /\ fail.token = t
  BY <1>3 DEF SignInRow
<1>5. t \in good /\ spent[t] = 0 /\ t # bundle /\ t # dest /\ t <= issued
  BY <1>1 DEF TokensSafeInv, Places, Entering, CarriedApart, KnownTokens
<1> HIDE DEF t, done, fail
<1>6. /\ signIn' \in [SignIns -> SignInRow] /\ signIn'[s].status \in {"completed", "failed"}
      /\ \A o \in SignIns : signIn'[o].token = signIn[o].token
      /\ \A o \in SignIns \ {s} : signIn'[o] = signIn[o]
  BY <1>2, <1>3, <1>4, Types DEF t
<1>7. TokensTypeOK'
  <2>1. /\ version' \in 1..MaxVersion /\ authenticated' \in BOOLEAN /\ material' \in 0..MaxToken
        /\ fresh' \in BOOLEAN /\ lost' \subseteq 1..MaxToken
    <3>1. version \in Nat /\ MaxVersion \in Nat /\ MaxToken \in Nat
      BY <1>3, Types
    <3>2. version \in 1..MaxVersion /\ material \in 0..MaxToken /\ authenticated \in BOOLEAN
          /\ fresh \in BOOLEAN /\ lost \subseteq 1..MaxToken
      BY <1>3, TypesAre
    <3>3. version' \in 1..MaxVersion
      BY <1>2, <3>1, <3>2
    <3>4. material' \in 0..MaxToken
      BY <1>2, <1>3, <3>1, <3>2
    <3>5. authenticated' \in BOOLEAN /\ fresh' \in BOOLEAN /\ lost' \subseteq 1..MaxToken
      BY <1>2, <1>3, <3>2
    <3> QED BY <3>3, <3>4, <3>5
  <2>2. /\ journal' \in [version : 0..MaxVersion, token : 0..MaxToken]
        /\ hold' \in [Holds -> HoldRow] /\ locked' \in TokenActors \cup {"free"} /\ WorkTyped'
        /\ issued' \in 1..MaxToken /\ good' \subseteq 1..issued'
        /\ bundle' \in 0..MaxToken /\ dest' \in 0..MaxToken
        /\ spent' \in [1..MaxToken -> Nat] /\ shut' \subseteq SignIns
    BY <1>1, <1>3, TypesAre DEF WorkTyped
  <2> QED BY <1>6, <2>1, <2>2, TypesAgain
<1>8. KnownTokens'
  BY <1>1, <1>2, <1>5, <1>6 DEF TokensSafeInv, Places, KnownTokens
<1>9. CASE signIn' = [signIn EXCEPT ![s] = done]
  <2>1. /\ locked = "free" /\ version = signIn[s].version /\ version' = version + 1
        /\ material' = t /\ authenticated' = TRUE /\ lost' = lost /\ signIn'[s] = done
    BY <1>2, <1>3, <1>4, <1>9, Types
  <2>2. \A c \in TokenActors : work'[c] = NoWork
    BY <1>1, <2>1, AloneAtWork DEF TokensSafeInv, Places
  <2>3. Holding' /\ Locked'
    BY <2>2, IdleHolds
  <2>4. Current' /\ Owning' /\ PresentedOnce'
    BY <1>1, <1>5, <2>1 DEF Current, Owning, TokensSafeInv, PresentedOnce
  <2>5. Entering'
    BY <1>1, <1>4, <1>6, <2>1 DEF TokensSafeInv, Places, Entering, CarriedApart, t
  <2>6. Shutting'
    <3>1. s \notin shut
      BY <1>1, <2>1, Types DEF TokensSafeInv, Places, Shutting
    <3>2. version \in Nat /\ \A o \in SignIns : signIn[o].version \in Nat
      BY <1>3, Types
    <3>3. \A o \in SignIns : signIn'[o].status = "pending" =>
            o # s /\ signIn'[o] = signIn[o] /\ signIn[o].version <= version
      BY <1>4, <1>6, <2>1 DEF TokensSafeInv, Places, Shutting
    <3>4. shut \subseteq SignIns /\ \A o \in shut : o # s /\ signIn'[o] = signIn[o]
      BY <1>3, <1>6, <3>1, TypesAre
    <3>5. \A o \in SignIns : signIn'[o].status = "pending" => signIn'[o].version <= version'
      BY <2>1, <3>2, <3>3
    <3>6. \A o \in shut : /\ signIn[o].status \notin {"none", "completed"}
                          /\ signIn[o].status = "pending" => signIn[o].version < version
      BY DEF TokensSafeInv, Places, Shutting
    <3>7. \A o \in shut : /\ signIn'[o].status \notin {"none", "completed"}
                          /\ signIn'[o].status = "pending" => signIn'[o].version < version'
      BY <2>1, <3>2, <3>4, <3>6
    <3>8. shut' = shut
      BY <1>1
    <3>9. \A o \in shut' : /\ signIn'[o].status \notin {"none", "completed"}
                           /\ signIn'[o].status = "pending" => signIn'[o].version < version'
      BY <3>7, <3>8
    <3> QED BY <3>5, <3>9 DEF Shutting
  <2> QED BY <1>7, <1>8, <2>3, <2>4, <2>5, <2>6 DEF TokensSafeInv, Places
<1>10. CASE signIn' = [signIn EXCEPT ![s] = fail] /\ lost' = lost \cup {t}
             /\ UNCHANGED <<version, material, authenticated, fresh>>
  <2>1. signIn'[s] = fail
    BY <1>10, <1>3, Types
  <2>2. Locked' /\ Owning' /\ PresentedOnce'
    BY <1>1, <1>10 DEF TokensSafeInv, Places, Locked, Owning, PresentedOnce
  <2>3. Holding'
    BY <1>1, <1>10, <1>6 DEF TokensSafeInv, Places, Holding, InUse, Coming, Leaving
  <2>4. Current'
    BY <1>1, <1>10 DEF TokensSafeInv, Places, Current, Covered
  <2>5. Entering' /\ Shutting'
    BY <1>1, <1>10, <1>4, <1>6, <2>1 DEF TokensSafeInv, Places, Entering, CarriedApart, Shutting, t
  <2> QED BY <1>7, <1>8, <2>2, <2>3, <2>4, <2>5 DEF TokensSafeInv, Places
<1> QED BY <1>2, <1>9, <1>10
-----------------------------------------------------------------------------
(* Steps of whoever has the lock.                                          *)

\* The token a caller presents counts one use more, up to two.
LEMMA PresentedIs ==
  ASSUME TokensTypeOK, NEW t \in 1..MaxToken, spent' = Presented(t)
  PROVE  /\ spent' \in [1..MaxToken -> Nat]
         /\ \A u \in 1..MaxToken \ {t} : spent'[u] = spent[u]
         /\ spent[t] = 0 => spent'[t] = 1
<1> DEFINE n == IF spent[t] < 2 THEN spent[t] + 1 ELSE 2
<1>1. spent \in [1..MaxToken -> Nat]
  BY TypesAre
<1>2. n \in Nat /\ (spent[t] = 0 => n = 1)
  BY <1>1
<1>3. spent' = [spent EXCEPT ![t] = n]
  BY DEF Presented
<1> HIDE DEF n
<1> QED BY <1>1, <1>2, <1>3

\* Revoking what attempts hold leaves rows of the table.
LEMMA RevokedHolds ==
  ASSUME TokensTypeOK,
         hold' = [r \in Holds |-> IF r \in LiveHolds THEN [hold[r] EXCEPT !.state = "revoked"]
                                  ELSE hold[r]]
  PROVE  hold' \in [Holds -> HoldRow]
<1> DEFINE row(r) == IF r \in LiveHolds THEN [hold[r] EXCEPT !.state = "revoked"] ELSE hold[r]
<1>1. hold \in [Holds -> HoldRow]
  BY TypesAre
<1>2. ASSUME NEW r \in Holds PROVE row(r) \in HoldRow
  <2>1. hold[r] \in HoldRow
    BY <1>1
  <2>2. [hold[r] EXCEPT !.state = "revoked"] \in HoldRow
    BY <2>1 DEF HoldRow
  <2> QED BY <2>1, <2>2
<1>3. hold' = [r \in Holds |-> row(r)]
  OBVIOUS
<1> HIDE DEF row
<1> QED BY <1>2, <1>3

\* The account is cleared by who has the lock.
LEMMA ClearedKeeps ==
  ASSUME TokensSafeInv, NEW c \in TokenActors, work[c].at # "off",
         NEW w \in Work, w.token <= issued, SetWork(c, w),
         \/ w = NoWork /\ locked' = "free"
         \/ w.at = "forget" /\ locked' = locked,
         ClearLocal, journal' = journal, fresh' = fresh,
         lost \subseteq lost', lost' \subseteq 1..MaxToken,
         shut' \in {shut, shut \cup WaitingSignIns},
         UNCHANGED <<signIn, issued, good, bundle, dest, spent>>
  PROVE  TokensSafeInv'
<1>1. TokensTypeOK /\ Alone(c) /\ locked = c /\ w.at \in {"off", "forget"}
  BY AloneAtWork, NoWorkIs DEF TokensSafeInv, Places
<1>2. WorkTyped' /\ work'[c] = w /\ Alone(c)'
  BY <1>1, SetWorkIs
<1>3. /\ version' = version + 1 /\ version < MaxVersion /\ version \in Nat /\ MaxVersion \in Nat
      /\ material' = 0 /\ authenticated' = FALSE
      /\ hold' \in [Holds -> HoldRow]
  BY <1>1, Types, RevokedHolds DEF ClearLocal
<1>4. Locked'
  BY <1>1, <1>2, LockedIs
<1>5. Holding'
  BY <1>1, <1>2, HoldingIs DEF InUse, Coming, Leaving
<1>6. Current' /\ Owning'
  BY <1>3 DEF Current, Owning
<1>7. KnownTokens'
  <2>1. \A d \in TokenActors : work'[d].token <= issued
    BY <1>1, <1>2, NoWorkIs, Types DEF Alone
  <2>2. material' <= issued
    BY <1>1, <1>3, Types
  <2> QED BY <2>1, <2>2 DEF TokensSafeInv, Places, KnownTokens
<1>8. Entering'
  BY <1>3 DEF TokensSafeInv, Places, Entering, CarriedApart
<1>9. PresentedOnce'
  BY DEF TokensSafeInv, PresentedOnce
<1>10. Shutting'
  <2>1. \A s \in SignIns : signIn[s].status = "pending" => signIn[s].version < version'
    BY <1>1, <1>3, Types DEF TokensSafeInv, Places, Shutting
  <2>2. \A s \in shut' : signIn[s].status \notin {"none", "completed"} /\ s \in SignIns
    BY <1>1, TypesAre DEF TokensSafeInv, Places, Shutting, WaitingSignIns
  <2> QED BY <1>1, <1>3, <2>1, <2>2, Types DEF Shutting
<1>11. TokensTypeOK'
  <2>1. version' \in 1..MaxVersion /\ authenticated' \in BOOLEAN /\ material' \in 0..MaxToken
    <3>1. MaxToken \in Nat
      BY <1>1, Types
    <3>2. material' \in 0..MaxToken
      BY <1>3, <3>1
    <3>3. version' \in 1..MaxVersion
      BY <1>3
    <3> QED BY <1>3, <3>2, <3>3
  <2>2. locked' \in TokenActors \cup {"free"} /\ shut' \subseteq SignIns
    BY <1>1, TypesAre DEF WaitingSignIns
  <2>3. /\ journal' \in [version : 0..MaxVersion, token : 0..MaxToken]
        /\ signIn' \in [SignIns -> SignInRow] /\ issued' \in 1..MaxToken /\ good' \subseteq 1..issued'
        /\ fresh' \in BOOLEAN /\ bundle' \in 0..MaxToken /\ dest' \in 0..MaxToken
        /\ spent' \in [1..MaxToken -> Nat]
    BY <1>1, TypesAre
  <2> QED BY <1>2, <1>3, <2>1, <2>2, <2>3, TypesAgain
<1> QED BY <1>4, <1>5, <1>6, <1>7, <1>8, <1>9, <1>10, <1>11 DEF TokensSafeInv, Places

LEMMA RefreshRevokedKeeps ==
  ASSUME TokensSafeInv, NEW c \in Callers, RefreshRevoked(c) PROVE TokensSafeInv'
<1>1. /\ work[c].at # "off" /\ c \in TokenActors /\ SetWork(c, NoWork) /\ locked' = "free"
      /\ ClearLocal
      /\ UNCHANGED <<journal, fresh, lost, shut, signIn, issued, good, bundle, dest, spent>>
  BY DEF RefreshRevoked, UnlockAccount, TokenActors, authWorldVars
<1>2. NoWork \in Work /\ NoWork.token <= issued /\ lost \subseteq 1..MaxToken
  BY NoWorkIs, Types, TypesAre DEF TokensSafeInv
<1> QED BY <1>1, <1>2, ClearedKeeps

LEMMA SignedOutKeeps == ASSUME TokensSafeInv, SignedOut PROVE TokensSafeInv'
<1> DEFINE c == AuthOperator
<1>1. /\ work[c].at # "off" /\ c \in TokenActors /\ SetWork(c, NoWork) /\ locked' = "free"
      /\ ClearLocal /\ shut' = shut \cup WaitingSignIns
      /\ UNCHANGED <<journal, fresh, lost, signIn, issued, good, bundle, dest, spent>>
  BY DEF SignedOut, UnlockAccount, TokenActors, authWorldVars
<1>2. NoWork \in Work /\ NoWork.token <= issued /\ lost \subseteq 1..MaxToken
  BY NoWorkIs, Types, TypesAre DEF TokensSafeInv
<1> HIDE DEF c
<1> QED BY <1>1, <1>2, ClearedKeeps

LEMMA ExportClearKeeps == ASSUME TokensSafeInv, ExportClear PROVE TokensSafeInv'
<1> DEFINE c == AuthOperator
           w == [work[c] EXCEPT !.at = "forget"]
<1>1. /\ work[c].at # "off" /\ c \in TokenActors /\ SetWork(c, w)
      /\ ClearLocal
      /\ UNCHANGED <<locked, shut, journal, fresh, lost, signIn, issued, good, bundle, dest, spent>>
  BY DEF ExportClear, TokenActors, authWorldVars
<1>2. w \in Work /\ w.token = work[c].token /\ w.at = "forget"
  BY <1>1, Types DEF TokensSafeInv, WorkTyped, Work, WorkPlaces
<1>3. w.token <= issued /\ lost \subseteq 1..MaxToken
  BY <1>1, <1>2, TypesAre DEF TokensSafeInv, Places, KnownTokens
<1> HIDE DEF w, c
<1> QED BY <1>1, <1>2, <1>3, ClearedKeeps

LEMMA RefreshKeeps ==
  ASSUME TokensSafeInv, NEW c \in Callers, Refresh(c) PROVE TokensSafeInv'
<1> DEFINE w == [at |-> "exchange", token |-> material, version |-> version]
<1>1. /\ c \in TokenActors /\ locked = "free" /\ authenticated /\ material # 0
      /\ SetWork(c, w) /\ locked' = c
      /\ UNCHANGED <<shut, version, authenticated, material, hold, journal, signIn,
                     issued, good, bundle, dest, spent, lost, fresh>>
  BY DEF Refresh, TokenActors, accountRowVars, authWorldVars
<1>2. TokensTypeOK /\ \A d \in TokenActors : work[d] = NoWork /\ Alone(d)
  BY <1>1, AloneAtWork DEF TokensSafeInv, Places
<1>3. w \in Work /\ w.at = "exchange" /\ w.token = material /\ w.version = version
  BY <1>2, TypesAre, TokensAssumption DEF Work, WorkPlaces
<1> HIDE DEF w
<1>4. WorkTyped' /\ work'[c] = w /\ Alone(c)'
  BY <1>1, <1>2, <1>3, SetWorkIs
<1>5. Locked'
  BY <1>1, <1>3, <1>4, LockedIs
<1>6. Holding'
  BY <1>1, <1>3, <1>4, HoldingIs DEF InUse, Coming, Leaving
<1>7. KnownTokens'
  BY <1>1, <1>2, <1>3, <1>4, NoWorkIs, Types DEF TokensSafeInv, Places, KnownTokens, Alone
<1>8. Current'
  <2>1. \/ material \in good /\ spent[material] = 0
        \/ Covered(material)
    BY <1>1, <1>2, NoWorkIs DEF TokensSafeInv, Places, Current
  <2> QED BY <1>1, <2>1 DEF Current, Covered
<1>9. Entering' /\ Owning' /\ Shutting' /\ PresentedOnce'
  BY <1>1 DEF TokensSafeInv, Places, Entering, CarriedApart, Owning, Shutting, PresentedOnce
<1>10. TokensTypeOK'
  BY <1>1, <1>2, <1>4, TypesAgain, TypesAre
<1> QED BY <1>5, <1>6, <1>7, <1>8, <1>9, <1>10 DEF TokensSafeInv, Places

\* The provider takes the token and issues the next: it is being saved, or lost.
LEMMA AnsweredKeeps ==
  ASSUME TokensSafeInv, NEW c \in Callers, work[c].at = "exchange", issued < MaxToken,
         NEW t, t = work[c].token, t \in good, spent' = Presented(t),
         issued' = issued + 1, good' = (good \ {t}) \cup {issued + 1},
         NEW w, SetWork(c, w),
         \/ /\ w = [work[c] EXCEPT !.at = "save", !.token = issued + 1]
            /\ UNCHANGED <<locked, lost>>
         \/ w = NoWork /\ locked' = "free" /\ lost' = lost \cup {issued + 1},
         UNCHANGED <<shut, version, authenticated, material, hold, journal, signIn,
                     bundle, dest, fresh>>
  PROVE  TokensSafeInv'
<1> DEFINE next == issued + 1
<1>1. TokensTypeOK /\ c \in TokenActors /\ Alone(c) /\ locked = c
  BY AloneAtWork DEF TokensSafeInv, Places, TokenActors
<1>2. /\ authenticated /\ material # 0 /\ t = material /\ work[c].version = version
  BY <1>1 DEF TokensSafeInv, Places, Holding, InUse
<1>3. issued \in Nat /\ MaxToken \in Nat /\ next \in 1..MaxToken /\ t \in 1..MaxToken /\ t < next
  <2>1. issued \in Nat /\ MaxToken \in Nat /\ material \in Nat /\ material <= issued
    BY <1>1, Types DEF TokensSafeInv, Places, KnownTokens
  <2> QED BY <1>2, <2>1
<1>4. \/ w \in Work /\ w.at = "save" /\ w.token = next /\ w.version = version /\ lost' = lost
      \/ w = NoWork /\ w \in Work /\ lost' = lost \cup {next}
  <2>1. work[c] \in Work
    BY <1>1, Types DEF WorkTyped
  <2>2. next \in 0..MaxToken
    BY <1>3
  <2> QED BY <1>2, <2>1, <2>2, NoWorkIs DEF Work, WorkPlaces
<1>5. WorkTyped' /\ work'[c] = w /\ Alone(c)'
  BY <1>1, <1>4, SetWorkIs
<1>6. /\ \A s \in SignIns : signIn[s].token # next /\ signIn[s].token <= issued
      /\ material < next /\ bundle # next /\ dest # next /\ spent[next] = 0
  <2>1. /\ \A s \in SignIns : signIn[s].token <= issued /\ signIn[s].token \in Nat
        /\ material <= issued /\ bundle <= issued /\ dest <= issued
        /\ material \in Nat /\ bundle \in Nat /\ dest \in Nat
    BY <1>1, Types DEF TokensSafeInv, Places, KnownTokens
  <2>2. spent[next] = 0
    BY <1>3 DEF TokensSafeInv, Places, KnownTokens
  <2> QED BY <1>3, <2>1, <2>2
<1>7. /\ spent' \in [1..MaxToken -> Nat] /\ \A u \in 1..MaxToken \ {t} : spent'[u] = spent[u]
      /\ spent[t] = 0 => spent'[t] = 1
  BY <1>1, <1>3, PresentedIs
<1>8. /\ lost \subseteq lost' /\ lost' \subseteq 1..MaxToken
      /\ work'[c].at = "save" \/ next \in lost'
  <2>1. lost \subseteq 1..MaxToken
    BY <1>1, TypesAre
  <2> HIDE DEF next
  <2> QED BY <1>3, <1>4, <1>5, <2>1
<1>9. Locked'
  BY <1>1, <1>4, <1>5, LockedIs
<1>10. Holding'
  <2>1. next \in good' /\ spent'[next] = 0
    BY <1>3, <1>6, <1>7
  <2> QED BY <1>2, <1>4, <1>5, <1>6, <2>1, HoldingIs, NoWorkIs, <1>1 DEF InUse, Coming, Leaving
<1>11. KnownTokens'
  <2>1. \A d \in TokenActors : work'[d].token <= issued'
    BY <1>1, <1>3, <1>4, <1>5, NoWorkIs DEF Alone
  <2>2. \A s \in SignIns : signIn'[s].token <= issued'
    BY <1>1, <1>3, <1>6, Types
  <2>3. material' <= issued' /\ bundle' <= issued' /\ dest' <= issued'
    BY <1>1, <1>3, Types DEF TokensSafeInv, Places, KnownTokens
  <2>4. \A u \in 1..MaxToken : u > issued' => spent'[u] = 0
    BY <1>3, <1>7 DEF TokensSafeInv, Places, KnownTokens
  <2> QED BY <2>1, <2>2, <2>3, <2>4 DEF KnownTokens
<1>12. Current'
  <2>1. CASE work'[c].at = "save"
    BY <1>1, <2>1 DEF Current
  <2>2. CASE next \in lost'
    <3>1. Covered(material)'
      BY <1>3, <1>2, <2>2 DEF Covered
    <3> QED BY <3>1 DEF Current, Covered
  <2> QED BY <1>8, <2>1, <2>2
<1>13. Entering'
  <2>1. \A s \in SignIns : signIn[s].token # 0 /\ signIn[s].status = "pending" =>
          signIn[s].token \in good' /\ spent'[signIn[s].token] = 0
    <3> SUFFICES ASSUME NEW s \in SignIns, signIn[s].token # 0, signIn[s].status = "pending"
                 PROVE  signIn[s].token \in good' /\ spent'[signIn[s].token] = 0
      OBVIOUS
    <3>1. /\ signIn[s].token \in good /\ spent[signIn[s].token] = 0 /\ signIn[s].token # material
      BY DEF TokensSafeInv, Places, Entering, CarriedApart
    <3>2. signIn[s].token \in 1..MaxToken
      BY <1>1, <1>3, <3>1, TypesAre
    <3> QED BY <1>2, <1>7, <3>1, <3>2
  <2> QED BY <2>1 DEF TokensSafeInv, Places, Entering, CarriedApart
<1>14. Owning' /\ Shutting'
  BY DEF TokensSafeInv, Places, Owning, Shutting
<1>15. PresentedOnce'
  <2>1. spent'[t] > 1 => \E u \in lost : u > t
    <3>1. \/ spent[material] = 0
          \/ Covered(material)
      BY <1>1, <1>2, NoWorkIs DEF TokensSafeInv, Places, Current, Alone
    <3> QED BY <1>2, <1>7, <3>1 DEF Covered
  <2>2. \A u \in 1..MaxToken \ {t} : spent'[u] > 1 => \E x \in lost : x > u
    BY <1>7 DEF TokensSafeInv, PresentedOnce
  <2> QED BY <1>8, <2>1, <2>2 DEF PresentedOnce
<1>16. TokensTypeOK'
  <2>1. /\ version \in 1..MaxVersion /\ authenticated \in BOOLEAN /\ material \in 0..MaxToken
        /\ journal \in [version : 0..MaxVersion, token : 0..MaxToken]
        /\ hold \in [Holds -> HoldRow] /\ signIn \in [SignIns -> SignInRow] /\ fresh \in BOOLEAN
        /\ bundle \in 0..MaxToken /\ dest \in 0..MaxToken /\ shut \subseteq SignIns
        /\ good \subseteq 1..issued
    BY <1>1, TypesAre
  <2>2. locked' \in TokenActors \cup {"free"}
    BY <1>1
  <2>3. issued' \in 1..MaxToken /\ good' \subseteq 1..issued'
    BY <1>3, <2>1
  <2> QED BY <1>5, <1>7, <1>8, <2>1, <2>2, <2>3, TypesAgain
<1> QED BY <1>9, <1>10, <1>11, <1>12, <1>13, <1>14, <1>15, <1>16 DEF TokensSafeInv, Places

\* The provider refuses a token it has forgotten.
LEMMA RefusedKeeps ==
  ASSUME TokensSafeInv, NEW c \in Callers, work[c].at = "exchange",
         NEW t, t = work[c].token, t \notin good, spent' = Presented(t),
         NEW w, SetWork(c, w), w = [work[c] EXCEPT !.at = "clear"],
         UNCHANGED <<shut, version, authenticated, material, hold, journal, signIn,
                     locked, issued, good, lost, bundle, dest, fresh>>
  PROVE  TokensSafeInv'
<1>1. TokensTypeOK /\ c \in TokenActors /\ Alone(c) /\ locked = c
  BY AloneAtWork DEF TokensSafeInv, Places, TokenActors
<1>2. /\ authenticated /\ material # 0 /\ t = material /\ work[c].version = version
  BY <1>1 DEF TokensSafeInv, Places, Holding, InUse
<1>3. t \in 1..MaxToken /\ t <= issued /\ t \in Nat /\ issued \in Nat
  <2>1. material \in 0..MaxToken /\ material <= issued /\ issued \in Nat /\ MaxToken \in Nat
    BY <1>1, Types, TypesAre DEF TokensSafeInv, Places, KnownTokens
  <2> QED BY <1>2, <2>1
<1>4. w \in Work /\ w.at = "clear" /\ w.token = material /\ w.version = version
  BY <1>1, <1>2, Types DEF WorkTyped, Work, WorkPlaces
<1>5. WorkTyped' /\ work'[c] = w /\ Alone(c)'
  BY <1>1, <1>4, SetWorkIs
<1>6. Covered(material)
  BY <1>1, <1>2, NoWorkIs DEF TokensSafeInv, Places, Current, Alone
<1>7. /\ spent' \in [1..MaxToken -> Nat] /\ \A u \in 1..MaxToken \ {t} : spent'[u] = spent[u]
  BY <1>1, <1>3, PresentedIs
<1>8. Locked'
  BY <1>1, <1>4, <1>5, LockedIs
<1>9. Holding'
  BY <1>2, <1>4, <1>5, HoldingIs, <1>1 DEF InUse, Coming, Leaving
<1>10. KnownTokens'
  <2>1. \A d \in TokenActors : work'[d].token <= issued
    <3>1. work'[c].token <= issued
      BY <1>2, <1>3, <1>4, <1>5
    <3>2. \A d \in TokenActors \ {c} : work'[d].token = 0
      BY <1>5, NoWorkIs DEF Alone
    <3> QED BY <1>3, <3>1, <3>2
  <2>2. \A u \in 1..MaxToken : u > issued => spent'[u] = 0
    BY <1>3, <1>7 DEF TokensSafeInv, Places, KnownTokens
  <2> QED BY <2>1, <2>2 DEF TokensSafeInv, Places, KnownTokens
<1>11. Current' /\ Owning' /\ Shutting'
  BY <1>6 DEF TokensSafeInv, Places, Current, Covered, Owning, Shutting
<1>12. Entering'
  <2>1. \A s \in SignIns : signIn[s].token # 0 /\ signIn[s].status = "pending" =>
          spent'[signIn[s].token] = 0
    <3> SUFFICES ASSUME NEW s \in SignIns, signIn[s].token # 0, signIn[s].status = "pending"
                 PROVE  spent'[signIn[s].token] = 0
      OBVIOUS
    <3>1. /\ signIn[s].token \in good /\ spent[signIn[s].token] = 0
      BY DEF TokensSafeInv, Places, Entering, CarriedApart
    <3>2. good \subseteq 1..MaxToken
      <4>1. good \subseteq 1..issued /\ issued \in 1..MaxToken /\ MaxToken \in Nat
        BY <1>1, Types, TypesAre
      <4> QED BY <4>1
    <3>3. signIn[s].token \in 1..MaxToken \ {t}
      BY <3>1, <3>2
    <3> QED BY <1>7, <3>1, <3>3
  <2> QED BY <2>1 DEF TokensSafeInv, Places, Entering, CarriedApart
<1>13. PresentedOnce'
  <2>1. \E u \in lost : u > t
    BY <1>2, <1>6 DEF Covered
  <2>2. \A u \in 1..MaxToken \ {t} : spent'[u] > 1 => \E x \in lost : x > u
    BY <1>7 DEF TokensSafeInv, PresentedOnce
  <2> QED BY <2>1, <2>2 DEF PresentedOnce
<1>14. TokensTypeOK'
  <2>1. /\ version \in 1..MaxVersion /\ authenticated \in BOOLEAN /\ material \in 0..MaxToken
        /\ journal \in [version : 0..MaxVersion, token : 0..MaxToken]
        /\ hold \in [Holds -> HoldRow] /\ signIn \in [SignIns -> SignInRow] /\ fresh \in BOOLEAN
        /\ bundle \in 0..MaxToken /\ dest \in 0..MaxToken /\ shut \subseteq SignIns
        /\ good \subseteq 1..issued /\ issued \in 1..MaxToken /\ lost \subseteq 1..MaxToken
        /\ locked \in TokenActors \cup {"free"}
    BY <1>1, TypesAre
  <2> QED BY <1>5, <1>7, <2>1, TypesAgain
<1> QED BY <1>8, <1>9, <1>10, <1>11, <1>12, <1>13, <1>14 DEF TokensSafeInv, Places

\* An operation ends early, by itself or with its process: what it was saving is lost, a
\* token that went nowhere stays in force.
LEMMA GivenUpKeeps ==
  ASSUME TokensSafeInv, NEW c \in TokenActors, work[c].at # "off", SetWork(c, NoWork),
         locked' = "free",
         lost' = IF work[c].at = "save" THEN lost \cup {work[c].token} ELSE lost,
         bundle' = bundle,
         journal' \in [version : 0..MaxVersion, token : 0..MaxToken],
         UNCHANGED <<shut, version, authenticated, material, hold, signIn,
                     issued, good, dest, spent, fresh>>
  PROVE  TokensSafeInv'
<1>1. TokensTypeOK /\ Alone(c) /\ NoWork \in Work
  BY AloneAtWork, NoWorkIs DEF TokensSafeInv, Places
<1>2. WorkTyped' /\ work'[c] = NoWork /\ Alone(c)'
  BY <1>1, SetWorkIs
<1>3. \A d \in TokenActors : work'[d] = NoWork
  BY <1>2 DEF Alone
<1>4. Holding' /\ Locked'
  BY <1>3, IdleHolds
<1>5. KnownTokens'
  BY <1>1, <1>3, NoWorkIs, Types DEF TokensSafeInv, Places, KnownTokens
<1>6. /\ lost \subseteq lost' /\ lost' \subseteq 1..MaxToken
      /\ work[c].at = "save" => work[c].token \in lost' /\ work[c].token > material
  <2>1. work[c].at = "save" => work[c].token > material
    BY DEF TokensSafeInv, Places, Holding, Coming
  <2>2. work[c].token \in 0..MaxToken /\ material \in Nat /\ MaxToken \in Nat
    BY <1>1, Types, TypesAre DEF WorkTyped, Work
  <2>3. work[c].at = "save" => work[c].token \in 1..MaxToken
    BY <2>1, <2>2
  <2>4. lost \subseteq 1..MaxToken
    BY <1>1, TypesAre
  <2> QED BY <2>1, <2>3, <2>4
<1>7. Current'
  <2>1. ASSUME NEW d \in TokenActors, work[d].at = "save" PROVE d = c
    BY <1>1, <2>1, NoWorkIs DEF Alone
  <2> QED BY <1>6, <2>1 DEF TokensSafeInv, Places, Current, Covered
<1>8. Entering' /\ Owning' /\ Shutting' /\ PresentedOnce'
  BY <1>6 DEF TokensSafeInv, Places, Entering, CarriedApart, Owning, Shutting, PresentedOnce
<1>9. TokensTypeOK'
  BY <1>1, <1>2, <1>6, TypesAgain, TypesAre
<1> QED BY <1>4, <1>5, <1>7, <1>8, <1>9 DEF TokensSafeInv, Places

LEMMA ExchangeKeeps ==
  ASSUME TokensSafeInv, NEW c \in Callers, Exchange(c) PROVE TokensSafeInv'
<1> DEFINE t == work[c].token
           saving == [work[c] EXCEPT !.at = "save", !.token = issued + 1]
           clearing == [work[c] EXCEPT !.at = "clear"]
<1>1. /\ work[c].at = "exchange" /\ issued < MaxToken /\ c \in TokenActors
      /\ UNCHANGED <<shut, version, authenticated, material, hold, journal, signIn,
                     bundle, dest, fresh>>
  BY DEF Exchange, accountRowVars, TokenActors
<1>2. CASE /\ t \in good /\ spent' = Presented(t)
           /\ issued' = issued + 1 /\ good' = (good \ {t}) \cup {issued + 1}
           /\ \/ SetWork(c, saving) /\ UNCHANGED <<locked, lost>>
              \/ SetWork(c, NoWork) /\ locked' = "free" /\ lost' = lost \cup {issued + 1}
  BY <1>1, <1>2, AnsweredKeeps
<1>3. CASE /\ t \notin good /\ spent' = Presented(t) /\ SetWork(c, clearing)
           /\ UNCHANGED <<locked, issued, good, lost>>
  BY <1>1, <1>3, RefusedKeeps
<1>4. CASE SetWork(c, NoWork) /\ locked' = "free" /\ UNCHANGED <<spent, issued, good, lost>>
  <2>1. journal \in [version : 0..MaxVersion, token : 0..MaxToken]
    BY TypesAre DEF TokensSafeInv
  <2> QED BY <1>1, <1>4, <2>1, GivenUpKeeps
<1> QED BY <1>2, <1>3, <1>4 DEF Exchange, UnlockAccount

LEMMA SaveRefreshKeeps ==
  ASSUME TokensSafeInv, NEW c \in Callers, SaveRefresh(c) PROVE TokensSafeInv'
<1> DEFINE t == work[c].token
           row(r) == IF hold[r] = [state |-> "active", version |-> work[c].version]
                     THEN [hold[r] EXCEPT !.version = version + 1] ELSE hold[r]
<1>1. /\ work[c].at = "save" /\ c \in TokenActors /\ SetWork(c, NoWork) /\ locked' = "free"
      /\ UNCHANGED <<shut, journal, signIn, issued, good, bundle, dest, spent>>
  BY DEF SaveRefresh, UnlockAccount, TokenActors
<1>2. TokensTypeOK /\ Alone(c) /\ locked = c /\ NoWork \in Work /\ NoWork.token = 0
  BY <1>1, AloneAtWork, NoWorkIs DEF TokensSafeInv, Places
<1>3. /\ authenticated /\ material # 0 /\ work[c].version = version
      /\ t \in good /\ spent[t] = 0 /\ t > material /\ t # bundle /\ t # dest
      /\ \A s \in SignIns : signIn[s].token # t
  BY <1>1 DEF TokensSafeInv, Places, Holding, Coming
<1>4. t \in 1..MaxToken /\ t <= issued
  <2>1. good \subseteq 1..issued /\ issued \in 1..MaxToken /\ MaxToken \in Nat
    BY <1>2, Types, TypesAre
  <2>2. t \in good
    BY <1>3
  <2> HIDE DEF t
  <2> QED BY <2>1, <2>2
<1>5. CASE ClearLocal /\ lost' = lost \cup {t} /\ UNCHANGED fresh
  <2>1. lost \subseteq lost' /\ lost' \subseteq 1..MaxToken
    <3>1. lost \subseteq 1..MaxToken
      BY <1>2, TypesAre
    <3> HIDE DEF t
    <3> QED BY <1>4, <1>5, <3>1
  <2>2. NoWork.token <= issued
    BY <1>2, Types
  <2> QED BY <1>1, <1>2, <1>5, <2>1, <2>2, ClearedKeeps
<1>6. CASE /\ SaveCredential(t, work[c].version) /\ fresh' = TRUE /\ lost' = lost
           /\ hold' = [r \in Holds |-> row(r)]
  <2>1. /\ version' = version + 1 /\ version < MaxVersion /\ version \in Nat /\ MaxVersion \in Nat
        /\ material' = t /\ authenticated' = TRUE
    BY <1>2, <1>6, Types DEF SaveCredential
  <2>2. hold' \in [Holds -> HoldRow]
    <3>1. ASSUME NEW r \in Holds PROVE row(r) \in HoldRow
      <4>1. hold[r] \in HoldRow
        BY <1>2, TypesAre
      <4>2. version + 1 \in 0..MaxVersion
        BY <2>1
      <4>3. [hold[r] EXCEPT !.version = version + 1] \in HoldRow
        BY <4>1, <4>2 DEF HoldRow
      <4> QED BY <4>1, <4>3
    <3> HIDE DEF row
    <3> QED BY <1>6, <3>1
  <2> HIDE DEF t, row
  <2>3. WorkTyped' /\ work'[c] = NoWork /\ Alone(c)'
    BY <1>1, <1>2, SetWorkIs
  <2>4. Holding' /\ Locked'
    <3>1. \A d \in TokenActors : work'[d] = NoWork
      BY <2>3 DEF Alone
    <3> QED BY <3>1, IdleHolds
  <2>5. KnownTokens'
    <3>1. \A d \in TokenActors : work'[d].token <= issued
      BY <1>2, <2>3, NoWorkIs, Types DEF Alone
    <3> QED BY <1>1, <1>4, <2>1, <3>1 DEF TokensSafeInv, Places, KnownTokens
  <2>6. Current' /\ Owning' /\ PresentedOnce'
    BY <1>1, <1>3, <1>6, <2>1 DEF Current, Owning, TokensSafeInv, PresentedOnce
  <2>7. Entering'
    BY <1>1, <1>3, <2>1 DEF TokensSafeInv, Places, Entering, CarriedApart
  <2>8. Shutting'
    <3>1. \A s \in SignIns : signIn[s].version \in Nat
      BY <1>2, Types
    <3>2. shut \subseteq SignIns
      BY <1>2, TypesAre
    <3> QED BY <1>1, <2>1, <3>1, <3>2 DEF TokensSafeInv, Places, Shutting
  <2>9. TokensTypeOK'
    <3>1. version' \in 1..MaxVersion /\ material' \in 0..MaxToken
      BY <1>4, <2>1
    <3>2. authenticated' \in BOOLEAN /\ fresh' \in BOOLEAN /\ locked' \in TokenActors \cup {"free"}
      BY <1>1, <1>6, <2>1
    <3>3. /\ journal' \in [version : 0..MaxVersion, token : 0..MaxToken]
          /\ signIn' \in [SignIns -> SignInRow] /\ issued' \in 1..MaxToken /\ good' \subseteq 1..issued'
          /\ bundle' \in 0..MaxToken /\ dest' \in 0..MaxToken
          /\ spent' \in [1..MaxToken -> Nat] /\ lost' \subseteq 1..MaxToken /\ shut' \subseteq SignIns
      BY <1>1, <1>2, <1>6, TypesAre
    <3> QED BY <2>2, <2>3, <3>1, <3>2, <3>3, TypesAgain
  <2> QED BY <2>4, <2>5, <2>6, <2>7, <2>8, <2>9 DEF TokensSafeInv, Places
<1> QED BY <1>3, <1>5, <1>6 DEF SaveRefresh

LEMMA SignOutKeeps == ASSUME TokensSafeInv, SignOut PROVE TokensSafeInv'
<1> DEFINE c == AuthOperator
           had == IF authenticated THEN material ELSE 0
           w == [at |-> "revoke", token |-> had, version |-> version]
<1>1. /\ c \in TokenActors /\ locked = "free" /\ locked' = c /\ SetWork(c, w)
      /\ authenticated' = FALSE
      /\ UNCHANGED <<shut, version, material, journal, signIn,
                     issued, good, bundle, dest, spent, lost, fresh>>
  BY DEF SignOut, TokenActors, authWorldVars
<1>2. TokensTypeOK /\ Alone(c)
  BY <1>1, AloneAtWork DEF TokensSafeInv, Places
<1>3. hold' \in [Holds -> HoldRow]
  BY <1>2, RevokedHolds DEF SignOut
<1>4. w \in Work /\ w.at = "revoke" /\ w.token = had
  BY <1>2, TypesAre, TokensAssumption DEF Work, WorkPlaces
<1>5. had \in {0, material} /\ had <= issued
  BY <1>2, Types DEF TokensSafeInv, Places, KnownTokens
<1> HIDE DEF w, had, c
<1>6. WorkTyped' /\ work'[c] = w /\ Alone(c)'
  BY <1>1, <1>2, <1>4, SetWorkIs
<1>7. Locked'
  BY <1>1, <1>4, <1>6, LockedIs
<1>8. Holding'
  BY <1>1, <1>4, <1>5, <1>6, HoldingIs DEF InUse, Coming, Leaving
<1>9. KnownTokens'
  BY <1>1, <1>2, <1>4, <1>5, <1>6, NoWorkIs, Types DEF TokensSafeInv, Places, KnownTokens, Alone
<1>10. Current' /\ Entering' /\ Owning' /\ Shutting' /\ PresentedOnce'
  BY <1>1 DEF TokensSafeInv, Places, Current, Entering, CarriedApart, Owning, Shutting, PresentedOnce
<1>11. TokensTypeOK'
  BY <1>1, <1>2, <1>3, <1>6, TypesAgain, TypesAre
<1> QED BY <1>7, <1>8, <1>9, <1>10, <1>11 DEF TokensSafeInv, Places

LEMMA RevokeTokenKeeps == ASSUME TokensSafeInv, RevokeToken PROVE TokensSafeInv'
<1> DEFINE c == AuthOperator
           w == [work[c] EXCEPT !.at = "signout"]
<1>1. /\ c \in TokenActors /\ work[c].at = "revoke" /\ SetWork(c, w)
      /\ good' \in {good, good \ {work[c].token}}
      /\ UNCHANGED <<shut, version, authenticated, material, hold, journal, locked, signIn,
                     issued, fresh, bundle, dest, spent, lost>>
  BY DEF RevokeToken, TokenActors, accountRowVars
<1>2. TokensTypeOK /\ Alone(c) /\ locked = c
  BY <1>1, AloneAtWork DEF TokensSafeInv, Places
<1>3. ~authenticated /\ work[c].token \in {0, material} /\ work[c].token <= issued
  BY <1>1 DEF TokensSafeInv, Places, Holding, Leaving, KnownTokens
<1>4. w \in Work /\ w.at = "signout" /\ w.token = work[c].token
  BY <1>1, <1>2, Types DEF WorkTyped, Work, WorkPlaces
<1> HIDE DEF w, c
<1>5. WorkTyped' /\ work'[c] = w /\ Alone(c)'
  BY <1>1, <1>2, <1>4, SetWorkIs
<1>6. Locked'
  BY <1>1, <1>2, <1>4, <1>5, LockedIs
<1>7. Holding'
  BY <1>1, <1>4, <1>5, HoldingIs DEF InUse, Coming, Leaving
<1>8. KnownTokens'
  BY <1>1, <1>2, <1>3, <1>4, <1>5, NoWorkIs, Types DEF TokensSafeInv, Places, KnownTokens, Alone
<1>9. Entering'
  <2>1. \A s \in SignIns : signIn[s].token # 0 /\ signIn[s].status = "pending" =>
          signIn[s].token \in good'
    BY <1>1, <1>3 DEF TokensSafeInv, Places, Entering, CarriedApart
  <2> QED BY <1>1, <2>1 DEF TokensSafeInv, Places, Entering, CarriedApart
<1>10. Current' /\ Owning' /\ Shutting' /\ PresentedOnce'
  BY <1>1, <1>3 DEF TokensSafeInv, Places, Current, Owning, Shutting, PresentedOnce
<1>11. TokensTypeOK'
  <2>1. good' \subseteq 1..issued'
    BY <1>1, <1>2, TypesAre
  <2> QED BY <1>1, <1>2, <1>5, <2>1, TypesAgain, TypesAre
<1> QED BY <1>6, <1>7, <1>8, <1>9, <1>10, <1>11 DEF TokensSafeInv, Places

\* The account is paused before anything leaves it.
LEMMA ExportKeeps == ASSUME TokensSafeInv, Export PROVE TokensSafeInv'
<1> DEFINE c == AuthOperator
           w == [at |-> "write", token |-> material, version |-> version']
           to == [version |-> version + 1, token |-> material]
<1>1. /\ c \in TokenActors /\ locked = "free" /\ locked' = c /\ SetWork(c, w) /\ material # 0
      /\ UNCHANGED <<material, hold, signIn, issued, good, bundle, dest, spent, lost, fresh>>
  BY DEF Export, TokenActors, authWorldVars
<1>2. \/ /\ version < MaxVersion /\ version' = version + 1 /\ authenticated' = FALSE
         /\ journal' = to /\ shut' = shut \cup WaitingSignIns
      \/ ~authenticated /\ UNCHANGED <<version, authenticated, journal, shut>>
  BY DEF Export
<1>3. TokensTypeOK /\ Alone(c)
  BY <1>1, AloneAtWork DEF TokensSafeInv, Places
<1>4. version \in Nat /\ MaxVersion \in Nat /\ material <= issued
      /\ version \in 1..MaxVersion /\ material \in 0..MaxToken /\ ~authenticated'
  BY <1>2, <1>3, Types, TypesAre DEF TokensSafeInv, Places, KnownTokens
<1>5. /\ version' \in 1..MaxVersion
      /\ journal' \in [version : 0..MaxVersion, token : 0..MaxToken]
      /\ authenticated' \in BOOLEAN /\ shut' \subseteq SignIns
  <2>1. version' \in 1..MaxVersion
    BY <1>2, <1>4
  <2>2. journal' \in [version : 0..MaxVersion, token : 0..MaxToken]
    <3>1. journal \in [version : 0..MaxVersion, token : 0..MaxToken]
      BY <1>3, TypesAre
    <3>2. version < MaxVersion => to \in [version : 0..MaxVersion, token : 0..MaxToken]
      BY <1>4
    <3> HIDE DEF to
    <3> QED BY <1>2, <3>1, <3>2
  <2>3. authenticated' \in BOOLEAN /\ shut' \subseteq SignIns
    BY <1>2, <1>3, TypesAre DEF WaitingSignIns
  <2> QED BY <2>1, <2>2, <2>3
<1>6. w \in Work /\ w.at = "write" /\ w.token = material
  <2>1. version' \in 0..MaxVersion
    BY <1>4, <1>5
  <2> QED BY <1>4, <2>1 DEF Work, WorkPlaces
<1> HIDE DEF w, c
<1>7. WorkTyped' /\ work'[c] = w /\ Alone(c)'
  BY <1>1, <1>3, <1>6, SetWorkIs
<1>8. Locked'
  BY <1>1, <1>6, <1>7, LockedIs
<1>9. Holding'
  BY <1>1, <1>4, <1>6, <1>7, HoldingIs DEF InUse, Coming, Leaving
<1>10. KnownTokens'
  <2>1. \A d \in TokenActors : work'[d].token <= issued
    BY <1>3, <1>4, <1>6, <1>7, NoWorkIs, Types DEF Alone
  <2> QED BY <1>1, <2>1 DEF TokensSafeInv, Places, KnownTokens
<1>11. Current' /\ Entering' /\ Owning' /\ PresentedOnce'
  BY <1>1, <1>4 DEF TokensSafeInv, Places, Current, Entering, CarriedApart, Owning, PresentedOnce
<1>12. Shutting'
  <2>1. \A s \in SignIns : signIn[s].status = "pending" => signIn[s].version <= version
    BY DEF TokensSafeInv, Places, Shutting
  <2>2. \A s \in SignIns : signIn[s].version \in Nat
    BY <1>3, Types
  <2>3. \A s \in shut : /\ s \in SignIns /\ signIn[s].status \notin {"none", "completed"}
                        /\ signIn[s].status = "pending" => signIn[s].version < version
    BY <1>3, TypesAre DEF TokensSafeInv, Places, Shutting
  <2>4. CASE version' = version + 1 /\ shut' = shut \cup WaitingSignIns
    <3>1. \A s \in SignIns : signIn[s].status = "pending" => signIn[s].version < version'
      BY <1>4, <2>1, <2>2, <2>4
    <3>2. \A s \in shut' : s \in SignIns /\ signIn[s].status \notin {"none", "completed"}
      BY <2>3, <2>4 DEF WaitingSignIns
    <3>3. \A s \in SignIns : signIn[s].status = "pending" => signIn[s].version <= version'
      BY <1>4, <1>5, <2>2, <3>1
    <3> QED BY <1>1, <3>1, <3>2, <3>3 DEF Shutting
  <2>5. CASE UNCHANGED <<version, shut>>
    BY <1>1, <2>1, <2>3, <2>5 DEF Shutting
  <2> QED BY <1>2, <2>4, <2>5
<1>13. TokensTypeOK'
  <2>1. locked' \in TokenActors \cup {"free"}
    BY <1>1
  <2>2. /\ hold' \in [Holds -> HoldRow] /\ material' \in 0..MaxToken
        /\ signIn' \in [SignIns -> SignInRow] /\ issued' \in 1..MaxToken /\ good' \subseteq 1..issued'
        /\ fresh' \in BOOLEAN /\ bundle' \in 0..MaxToken /\ dest' \in 0..MaxToken
        /\ spent' \in [1..MaxToken -> Nat] /\ lost' \subseteq 1..MaxToken
    BY <1>1, <1>3, TypesAre
  <2> QED BY <1>5, <1>7, <2>1, <2>2, TypesAgain
<1> QED BY <1>8, <1>9, <1>10, <1>11, <1>12, <1>13 DEF TokensSafeInv, Places

LEMMA ExportWriteKeeps == ASSUME TokensSafeInv, ExportWrite PROVE TokensSafeInv'
<1> DEFINE c == AuthOperator
           w == [work[c] EXCEPT !.at = "hand"]
<1>1. /\ c \in TokenActors /\ work[c].at = "write"
      /\ UNCHANGED <<shut, version, authenticated, material, hold, journal, signIn,
                     issued, good, fresh, dest, spent, lost>>
  BY DEF ExportWrite, TokenActors, accountRowVars
<1>2. TokensTypeOK /\ Alone(c) /\ locked = c
  BY <1>1, AloneAtWork DEF TokensSafeInv, Places
<1>3. CASE SetWork(c, NoWork) /\ locked' = "free" /\ bundle' = bundle
  <2>1. journal' \in [version : 0..MaxVersion, token : 0..MaxToken]
    BY <1>1, <1>2, TypesAre
  <2>2. lost' = IF work[c].at = "save" THEN lost \cup {work[c].token} ELSE lost
    BY <1>1
  <2> HIDE DEF c
  <2> QED BY <1>1, <1>3, <2>1, <2>2, GivenUpKeeps
<1>4. CASE bundle' = work[c].token /\ SetWork(c, w) /\ locked' = locked
  <2>1. ~authenticated /\ work[c].token = material /\ material <= issued
    BY <1>1 DEF TokensSafeInv, Places, Holding, Leaving, KnownTokens
  <2>2. w \in Work /\ w.at = "hand" /\ w.token = work[c].token
    BY <1>1, <1>2, Types DEF WorkTyped, Work, WorkPlaces
  <2> HIDE DEF w, c
  <2>3. WorkTyped' /\ work'[c] = w /\ Alone(c)'
    BY <1>1, <1>2, <1>4, <2>2, SetWorkIs
  <2>4. Locked'
    BY <1>1, <1>2, <1>4, <2>2, <2>3, LockedIs
  <2>5. Holding'
    BY <1>1, <2>2, <2>3, HoldingIs DEF InUse, Coming, Leaving
  <2>6. KnownTokens'
    <3>1. \A d \in TokenActors : work'[d].token <= issued
      BY <1>2, <2>1, <2>2, <2>3, NoWorkIs, Types DEF Alone
    <3> QED BY <1>1, <1>4, <2>1, <3>1 DEF TokensSafeInv, Places, KnownTokens
  <2>7. Entering'
    BY <1>1, <1>4, <2>1 DEF TokensSafeInv, Places, Entering, CarriedApart
  <2>8. Current' /\ Owning' /\ Shutting' /\ PresentedOnce'
    BY <1>1, <2>1 DEF TokensSafeInv, Places, Current, Owning, Shutting, PresentedOnce
  <2>9. TokensTypeOK'
    <3>1. bundle' \in 0..MaxToken
      BY <1>2, <1>4, <2>1, TypesAre
    <3> QED BY <1>1, <1>2, <1>4, <2>3, <3>1, TypesAgain, TypesAre
  <2> QED BY <2>4, <2>5, <2>6, <2>7, <2>8, <2>9 DEF TokensSafeInv, Places
<1> QED BY <1>3, <1>4 DEF ExportWrite, UnlockAccount

LEMMA ExportDoneKeeps == ASSUME TokensSafeInv, ExportDone PROVE TokensSafeInv'
<1> DEFINE c == AuthOperator
<1>1. /\ c \in TokenActors /\ work[c].at = "forget" /\ SetWork(c, NoWork) /\ locked' = "free"
      /\ journal' = NoJournal
      /\ UNCHANGED <<shut, version, authenticated, material, hold, signIn,
                     issued, good, fresh, bundle, dest, spent, lost>>
  BY DEF ExportDone, UnlockAccount, TokenActors, accountRowVars, authWorldVars
<1>2. journal' \in [version : 0..MaxVersion, token : 0..MaxToken]
  BY <1>1, TokensAssumption DEF NoJournal
<1>3. lost' = IF work[c].at = "save" THEN lost \cup {work[c].token} ELSE lost
  BY <1>1
<1> HIDE DEF c
<1> QED BY <1>1, <1>2, <1>3, GivenUpKeeps

LEMMA TokenProcessDiesKeeps ==
  ASSUME TokensSafeInv, NEW c \in TokenActors, TokenProcessDies(c) PROVE TokensSafeInv'
<1>1. /\ work[c].at # "off" /\ SetWork(c, NoWork)
      /\ lost' = IF work[c].at = "save" THEN lost \cup {work[c].token} ELSE lost
      /\ locked' = IF locked = c THEN "free" ELSE locked
      /\ UNCHANGED <<shut, version, authenticated, material, hold, journal, signIn,
                     issued, good, fresh, bundle, dest, spent>>
  BY DEF TokenProcessDies, SetWork, accountRowVars, TokensSafeInv, Places, Locked
<1>2. locked = c
  BY <1>1, AloneAtWork DEF TokensSafeInv, Places
<1>3. journal' \in [version : 0..MaxVersion, token : 0..MaxToken]
  BY <1>1, TypesAre DEF TokensSafeInv
<1> QED BY <1>1, <1>2, <1>3, GivenUpKeeps

-----------------------------------------------------------------------------
(* The theorems.                                                           *)

LEMMA TokensBegin == ASSUME TokensInit PROVE TokensSafeInv
<1>1. MaxToken \in Nat /\ MaxVersion \in Nat /\ 1 \in 1..MaxToken /\ 1 \in 1..MaxVersion
  BY TokensAssumption
<1>2. /\ version = 1 /\ authenticated = TRUE /\ material = 1 /\ journal = NoJournal
      /\ hold = [r \in Holds |-> [state |-> "none", version |-> 0]]
      /\ locked = "free" /\ work = [c \in TokenActors |-> NoWork]
      /\ signIn = [s \in SignIns |-> NoSignIn]
      /\ issued = 1 /\ good = {1} /\ fresh = TRUE /\ bundle = 0 /\ dest = 0
      /\ spent = [t \in 1..MaxToken |-> 0] /\ lost = {} /\ shut = {}
  BY DEF TokensInit
<1>3. /\ \A c \in TokenActors : work[c] = NoWork
      /\ \A s \in SignIns : signIn[s].status = "none" /\ signIn[s].token = 0 /\ signIn[s].version = 0
      /\ \A t \in 1..MaxToken : spent[t] = 0
  BY <1>2 DEF NoSignIn
<1>4. TokensTypeOK
  <2>1. /\ NoWork \in Work /\ NoSignIn \in SignInRow
        /\ [state |-> "none", version |-> 0] \in HoldRow
        /\ NoJournal \in [version : 0..MaxVersion, token : 0..MaxToken]
    BY <1>1, NoWorkIs DEF NoSignIn, SignInRow, HoldRow, NoJournal
  <2>2. /\ work \in [TokenActors -> Work] /\ signIn \in [SignIns -> SignInRow]
        /\ hold \in [Holds -> HoldRow] /\ spent \in [1..MaxToken -> Nat]
    BY <1>2, <2>1
  <2>3. /\ version \in 1..MaxVersion /\ authenticated \in BOOLEAN /\ material \in 0..MaxToken
        /\ journal \in [version : 0..MaxVersion, token : 0..MaxToken]
        /\ locked \in TokenActors \cup {"free"} /\ issued \in 1..MaxToken /\ good \subseteq 1..issued
        /\ fresh \in BOOLEAN /\ bundle \in 0..MaxToken /\ dest \in 0..MaxToken
        /\ lost \subseteq 1..MaxToken /\ shut \subseteq SignIns
    BY <1>1, <1>2, <2>1
  <2> QED BY <2>2, <2>3 DEF TokensTypeOK, Work, WorkPlaces, SignInRow, HoldRow
<1>5. Locked /\ Holding
  BY <1>3, NoWorkIs DEF Locked, Holding, InUse, Coming, Leaving
<1>6. KnownTokens
  BY <1>2, <1>3, NoWorkIs DEF KnownTokens
<1>7. Current /\ Entering /\ Owning /\ Shutting
  <2>1. 1 \in good /\ spent[1] = 0
    BY <1>1, <1>2
  <2> QED BY <1>2, <1>3, <2>1 DEF Current, Entering, CarriedApart, Owning, Shutting
<1>8. PresentedOnce
  BY <1>3 DEF PresentedOnce
<1> QED BY <1>4, <1>5, <1>6, <1>7, <1>8 DEF TokensSafeInv, Places

LEMMA TokensStutter ==
  ASSUME TokensSafeInv, UNCHANGED tokenVars PROVE TokensSafeInv'
<1>1. UNCHANGED <<version, authenticated, material, journal, hold, locked, work, signIn,
                  issued, good, fresh, bundle, dest, spent, lost, shut>>
  BY DEF tokenVars
<1>2. TokensTypeOK' /\ PresentedOnce'
  BY <1>1 DEF TokensSafeInv, TokensTypeOK, PresentedOnce
<1>3. Locked' /\ KnownTokens' /\ Holding'
  BY <1>1 DEF TokensSafeInv, Places, Locked, KnownTokens, Holding, InUse, Coming, Leaving
<1>4. Current' /\ Entering' /\ Owning' /\ Shutting'
  BY <1>1 DEF TokensSafeInv, Places, Current, Covered, Entering, CarriedApart, Owning, Shutting
<1> QED BY <1>2, <1>3, <1>4 DEF TokensSafeInv, Places

\* The inductive invariant: one operation at a time has the account's lock; a token that is
\* on its way into force, that a sign-in carries, or that was handed over is nowhere else;
\* and a token in force that was already presented has a successor that was lost.
THEOREM TokensAlwaysSafe == TokensSpec => []TokensSafeInv
<1>1. TokensInit => TokensSafeInv
  BY TokensBegin
<1>2. TokensSafeInv /\ [TokensNext]_tokenVars => TokensSafeInv'
  <2> SUFFICES ASSUME TokensSafeInv, [TokensNext]_tokenVars PROVE TokensSafeInv'
    OBVIOUS
  <2>1. ASSUME NEW c \in Callers,
               Refresh(c) \/ Exchange(c) \/ SaveRefresh(c) \/ RefreshRevoked(c)
        PROVE  TokensSafeInv'
    BY <2>1, RefreshKeeps, ExchangeKeeps, SaveRefreshKeeps, RefreshRevokedKeeps
  <2>2. CASE SignOut \/ RevokeToken \/ SignedOut
    BY <2>2, SignOutKeeps, RevokeTokenKeeps, SignedOutKeeps
  <2>3. ASSUME NEW s \in SignIns,
               \/ SignInStart(s) \/ SignInExchange(s) \/ SignInCommit(s)
               \/ \E e \in {"cancelled", "expired", "failed"} : SignInEnd(s, e)
        PROVE  TokensSafeInv'
    BY <2>3, SignInKeeps, SignInExchangeKeeps, SignInCommitKeeps
  <2>4. CASE Export \/ ExportWrite \/ ExportClear \/ ExportDone \/ Import
    BY <2>4, ExportKeeps, ExportWriteKeeps, ExportClearKeeps, ExportDoneKeeps, ImportKeeps
  <2>5. CASE AccessTokenExpires \/ \E r \in Holds : HoldAccount(r) \/ UnholdAccount(r)
    BY <2>5, HoldsKeep
  <2>6. ASSUME NEW c \in TokenActors, TokenProcessDies(c) PROVE TokensSafeInv'
    BY <2>6, TokenProcessDiesKeeps
  <2>7. CASE UNCHANGED tokenVars
    BY <2>7, TokensStutter
  <2> QED BY <2>1, <2>2, <2>3, <2>4, <2>5, <2>6, <2>7 DEF TokensNext
<1> QED BY <1>1, <1>2, PTL DEF TokensSpec

\* What the run checks of a refresh token: presented once unless an answer was lost, one
\* owner after a transfer, and no sign-in that was cut off ever comes into force.
THEOREM TokensInvAlways == TokensSpec => []TokensInv
<1>1. TokensSafeInv => TokensInv
  <2> SUFFICES ASSUME TokensSafeInv PROVE TokensInv
    OBVIOUS
  <2>1. TokensTypeOK /\ PresentedOnce
    BY DEF TokensSafeInv
  <2>2. SoleRefreshOwner
    BY DEF TokensSafeInv, Places, Owning, SoleRefreshOwner
  <2>3. OldSignInStaysOut
    BY DEF TokensSafeInv, Places, Shutting, Entering, CarriedApart, OldSignInStaysOut
  <2> QED BY <2>1, <2>2, <2>3 DEF TokensInv
<1> QED BY <1>1, TokensAlwaysSafe, PTL

\* No active reservation is left when the account is cleared or signed out.
LEMMA RevokedIsNotActive ==
  ASSUME TokensTypeOK, NEW r \in Holds,
         hold' = [o \in Holds |-> IF o \in LiveHolds THEN [hold[o] EXCEPT !.state = "revoked"]
                                  ELSE hold[o]]
  PROVE  hold'[r].state # "active"
<1>1. hold[r] \in HoldRow
  BY TypesAre
<1>2. [hold[r] EXCEPT !.state = "revoked"].state = "revoked"
  BY <1>1 DEF HoldRow
<1>3. CASE r \in LiveHolds
  BY <1>2, <1>3
<1>4. CASE r \notin LiveHolds
  BY <1>4 DEF LiveHolds
<1> QED BY <1>3, <1>4

\* A refresh takes the attempts that run on the account along to the new version; only a
\* sign-in, which brings another session, leaves them behind.
THEOREM HoldsAlwaysFollow == TokensSpec => HoldsFollowRefresh
<1> DEFINE Follows(r) == hold[r].state = "active" /\ hold'[r].state = "active"
                         /\ hold[r].version = version /\ signIn' = signIn
                           => hold'[r].version = version'
<1>1. TokensSafeInv /\ [TokensNext]_tokenVars => [\A r \in Holds : Follows(r)]_tokenVars
  <2> SUFFICES ASSUME TokensSafeInv, TokensNext, NEW r \in Holds PROVE Follows(r)
    OBVIOUS
  <2>1. TokensTypeOK
    BY DEF TokensSafeInv
  <2>2. CASE UNCHANGED <<hold, version>>
    BY <2>2
  <2>3. CASE ClearLocal \/ SignOut
    BY <2>1, <2>3, RevokedIsNotActive DEF ClearLocal, SignOut
  <2>4. ASSUME NEW c \in Callers, SaveRefresh(c) PROVE Follows(r)
    <3>1. work[c].version = version /\ work[c].at = "save"
      BY <2>4 DEF SaveRefresh, TokensSafeInv, Places, Holding, Coming, TokenActors
    <3>2. CASE /\ version' = version + 1
               /\ hold' = [o \in Holds |-> IF hold[o] = [state |-> "active", version |-> work[c].version]
                                           THEN [hold[o] EXCEPT !.version = version + 1]
                                           ELSE hold[o]]
      <4>1. hold[r] \in HoldRow
        BY <2>1, TypesAre
      <4>2. [hold[r] EXCEPT !.version = version + 1].version = version + 1
        BY <4>1 DEF HoldRow
      <4>3. hold[r].state = "active" /\ hold[r].version = version =>
              hold[r] = [state |-> "active", version |-> work[c].version]
        BY <3>1, <4>1 DEF HoldRow
      <4> QED BY <3>2, <4>2, <4>3
    <3>3. SaveCredential(work[c].token, work[c].version) => version' = version + 1
      BY DEF SaveCredential
    <3> QED BY <2>2, <2>3, <2>4, <3>1, <3>2, <3>3 DEF SaveRefresh, accountRowVars
  <2>5. ASSUME NEW s \in SignIns, SignInCommit(s) PROVE Follows(r)
    <3>1. signIn[s].status = "pending" /\ signIn \in [SignIns -> SignInRow]
      BY <2>1, <2>5, TypesAre DEF SignInCommit
    <3>2. \E x \in {"completed", "failed"} : signIn' = [signIn EXCEPT ![s].status = x]
      BY <2>5 DEF SignInCommit
    <3>3. PICK x \in {"completed", "failed"} : signIn' = [signIn EXCEPT ![s].status = x]
      BY <3>2
    <3>4. signIn'[s].status = x
      BY <3>1, <3>3 DEF SignInRow
    <3>5. signIn' # signIn
      BY <3>1, <3>4
    <3> QED BY <3>5
  <2>6. CASE Export
    BY <2>6 DEF Export, LiveHolds
  <2>7. ASSUME NEW o \in Holds, HoldAccount(o) \/ UnholdAccount(o) PROVE Follows(r)
    <3> DEFINE taken == [state |-> "active", version |-> version]
               none  == [state |-> "none", version |-> 0]
    <3>1. /\ hold' = [hold EXCEPT ![o] = taken] \/ hold' = [hold EXCEPT ![o] = none]
          /\ version' = version
      BY <2>7 DEF HoldAccount, UnholdAccount
    <3>2. taken.version = version /\ none.state = "none" /\ hold \in [Holds -> HoldRow]
      BY <2>1, TypesAre
    <3> HIDE DEF taken, none
    <3>3. hold'[r] \in {taken, none, hold[r]}
      BY <3>1, <3>2
    <3> QED BY <3>1, <3>2, <3>3
  <2>8. ASSUME NEW c \in Callers, Refresh(c) \/ Exchange(c) \/ RefreshRevoked(c)
        PROVE  Follows(r)
    <3>1. UNCHANGED <<hold, version>> \/ ClearLocal
      BY <2>8 DEF Refresh, Exchange, RefreshRevoked, accountRowVars
    <3> QED BY <2>2, <2>3, <3>1
  <2>9. ASSUME NEW s \in SignIns,
               \/ SignInStart(s) \/ SignInExchange(s)
               \/ \E e \in {"cancelled", "expired", "failed"} : SignInEnd(s, e)
        PROVE  Follows(r)
    <3>1. UNCHANGED <<hold, version>>
      BY <2>9 DEF SignInStart, SignInExchange, SignInEnd, accountRowVars
    <3> QED BY <2>2, <3>1
  <2>10. CASE RevokeToken \/ SignedOut \/ ExportWrite \/ ExportClear \/ ExportDone \/ Import
              \/ AccessTokenExpires \/ \E c \in TokenActors : TokenProcessDies(c)
    <3>1. UNCHANGED <<hold, version>> \/ ClearLocal
      BY <2>10 DEF RevokeToken, SignedOut, ExportWrite, ExportClear, ExportDone, Import,
                   AccessTokenExpires, TokenProcessDies, accountRowVars
    <3> QED BY <2>2, <2>3, <3>1
  <2> QED
    BY <2>3, <2>4, <2>5, <2>6, <2>7, <2>8, <2>9, <2>10 DEF TokensNext
<1> QED BY <1>1, TokensAlwaysSafe, PTL DEF TokensSpec, HoldsFollowRefresh

=============================================================================
