------------------------------ MODULE ApiProofs ------------------------------
(***************************************************************************)
(* Proofs about accounts, price alerts and the call gate, for any number   *)
(* of addresses, requests, alerts, evaluations, prices and calls:          *)
(* credentials are sound, every account has a way in, alerts trigger once  *)
(* and at their targets, and the gate keeps the quota.                     *)
(***************************************************************************)
EXTENDS Accounts, PriceAlerts, GdfCallGate, SequenceTheorems, FiniteSetTheorems,
        WellFoundedInduction, TLAPS

-----------------------------------------------------------------------------
(* Price alerts: the inductive invariant *)

AlertRow == [status : {"none", "ACTIVE", "TRIGGERED", "DISABLED", "deleted"}, above : BOOLEAN,
             target : Int]
ReadRow == [a : Alert, above : BOOLEAN, target : Int]

AlertTypes ==
    /\ alert \in [Alert -> AlertRow]
    /\ evaluation \in [Evaluation -> [busy : BOOLEAN, price : Int, todo : SUBSET ReadRow]]
    /\ armed \in [Alert -> Nat] /\ notified \in [Alert -> Nat]
    /\ retargeted \in [Evaluation -> SUBSET Alert]

\* An active alert has a notice left.
NoticeLeft ==
    \A a \in Alert : /\ notified[a] <= armed[a]
                     /\ alert[a].status = "ACTIVE" => notified[a] < armed[a]

\* An alert that was read and not edited since has, while active, the target that was read.
ReadsStand ==
    \A e \in Evaluation : \A row \in evaluation[e].todo :
        /\ alert[row.a].status # "none"
        /\ row.a \notin retargeted[e] /\ alert[row.a].status = "ACTIVE" =>
              alert[row.a].above = row.above /\ alert[row.a].target = row.target

AlertInv == AlertTypes /\ NoticeLeft /\ ReadsStand

-----------------------------------------------------------------------------
(* Accounts: the inductive invariant *)

Place == {"idle", "registering", "inserting", "resending", "entering", "linking", "creating",
          "rotating", "resetting", "adding"}
CallState == [at : Place, who : Person \union {0}, id : Nat, row : Nat, portal : Portals,
              seen : SUBSET Nat]
TokenRow == [who : Person, id : Nat, portal : Portals, family : Nat,
             is : {"live", "expired", "revoked", "gone"}]
CodeRow == [who : Person, consumed : BOOLEAN, fresh : BOOLEAN, resendable : BOOLEAN, made : Nat]
LinkRow == [who : Person, id : Nat, open : BOOLEAN]

RowTypes ==
    /\ account \in [Person -> [id : Nat, role : Portals, password : BOOLEAN, google : BOOLEAN]]
    /\ accounts \in Nat
    /\ tokens \in Seq(TokenRow) /\ codes \in Seq(CodeRow) /\ links \in Seq(LinkRow)

\* A request under way is of somebody, and holds a row that is there.
Sound(r) ==
    /\ r \in CallState
    /\ r.at # "idle" => r.who \in Person
    /\ r.at = "rotating" => r.row \in DOMAIN tokens
    /\ r.at = "resetting" => r.row \in DOMAIN links
    /\ r.at = "resending" => r.row \in DOMAIN codes

CallTypes ==
    /\ call \in [Call -> CallState]
    /\ \A c \in Call : Sound(call[c])

\* Accounts are numbered as they are made, and no number is of the future.
Numbered ==
    /\ \A p \in Person : /\ account[p].id <= accounts
                         /\ ~Exists(p) => account[p].role = "user"
    /\ \A c \in Call : call[c].id <= accounts
    /\ \A i \in DOMAIN tokens : tokens[i].id <= accounts

\* A family is begun by its first token, and all its tokens are of one person.
Families ==
    /\ \A i \in DOMAIN tokens : tokens[i].family \in DOMAIN tokens
    /\ \A i, j \in DOMAIN tokens : tokens[i].family = tokens[j].family => tokens[i].who = tokens[j].who
    /\ ended \subseteq DOMAIN tokens

\* A rotation holds a live token, alone, and replaces it by one of the same account.
RotationsHold ==
    \A c \in Call : At(c, "rotating") =>
        LET t == tokens[call[c].row]
        IN  /\ t.is = "live"
            /\ call[c].who = t.who /\ call[c].id = t.id /\ call[c].portal = t.portal
            /\ \A d \in Call : At(d, "rotating") /\ call[d].row = call[c].row => c = d

\* A reset has seen tokens of its own person.
ResetsHold ==
    \A c \in Call : At(c, "resetting") =>
        call[c].seen \subseteq DOMAIN tokens /\ \A i \in call[c].seen : tokens[i].who = call[c].who

\* A login is of an account that was there, in a portal that fits its role.
LoginsHold ==
    \A c \in Call :
        /\ At(c, "creating") => call[c].portal = "user"
        /\ At(c, "linking") \/ At(c, "entering") => call[c].id # 0
        /\ At(c, "linking") /\ Present(c) =>
              call[c].id \in switched \/ account[call[c].who].role = call[c].portal
        /\ At(c, "entering") /\ Present(c) =>
              call[c].id \in switched \/ PortalAccess(account[call[c].who].role, call[c].portal)

LiveTokensExist == \A i \in DOMAIN tokens : tokens[i].is = "live" => tokens[i].id # 0

\* A code that has made an account is consumed.
CodesHold == \A k \in DOMAIN codes : codes[k].made = 0 \/ (codes[k].consumed /\ codes[k].made = 1)

\* A registration about to insert its code consumes all that are open, and is alone.
RegistrationsHold ==
    /\ \A p \in Person \ beside : \A k, l \in OpenCodes(p) : k = l
    /\ \A c \in Call : At(c, "inserting") /\ call[c].who \notin beside =>
          /\ OpenCodes(call[c].who) \subseteq call[c].seen
          /\ \A d \in Call : At(d, "inserting") /\ call[d].who = call[c].who => c = d

AccountInv ==
    /\ RowTypes /\ CallTypes /\ Numbered /\ Families /\ RotationsHold /\ ResetsHold /\ LoginsHold
    /\ LiveTokensExist /\ FamilyHasOneLiveToken /\ ResetEndsSessions /\ TokensFitTheirAccount
    /\ CodesHold /\ RegistrationsHold /\ EveryAccountHasAWayIn

-----------------------------------------------------------------------------
(* Tables: sequences of rows *)

\* A row is added behind those there are.
LEMMA RowAdded ==
    ASSUME NEW S, NEW s \in Seq(S), NEW e \in S
    PROVE  /\ Append(s, e) \in Seq(S)
           /\ DOMAIN Append(s, e) = DOMAIN s \union {Len(s) + 1} /\ Len(s) + 1 \notin DOMAIN s
           /\ \A i \in DOMAIN s : Append(s, e)[i] = s[i]
           /\ Append(s, e)[Len(s) + 1] = e
<1>1. Len(s) \in Nat /\ DOMAIN s = 1 .. Len(s)
    OBVIOUS
<1>q. QED
    BY <1>1, AppendProperties

\* Rows are rewritten in place.
LEMMA RowsRewritten ==
    ASSUME NEW S, NEW s \in Seq(S), NEW t \in [DOMAIN s -> S]
    PROVE  t \in Seq(S) /\ DOMAIN t = DOMAIN s
<1>1. Len(s) \in Nat /\ DOMAIN s = 1 .. Len(s)
    OBVIOUS
<1>q. QED
    BY <1>1, IsASeq

\* The rows of the three tables, one by one.
LEMMA Rows ==
    ASSUME RowTypes
    PROVE  /\ \A i \in DOMAIN tokens : i \in Nat /\ tokens[i] \in TokenRow
           /\ \A k \in DOMAIN codes : k \in Nat /\ codes[k] \in CodeRow
           /\ \A l \in DOMAIN links : l \in Nat /\ links[l] \in LinkRow
BY DEF RowTypes

\* What a step may do to the tokens: none is lost, changes its owner or comes to life again.
TokensGoOn ==
    /\ tokens' \in Seq(TokenRow) /\ DOMAIN tokens \subseteq DOMAIN tokens'
    /\ \A i \in DOMAIN tokens :
          /\ tokens'[i].who = tokens[i].who /\ tokens'[i].id = tokens[i].id
          /\ tokens'[i].portal = tokens[i].portal /\ tokens'[i].family = tokens[i].family
          /\ tokens'[i].is = "live" => tokens[i].is = "live"

\* A token added to those there are.
TokenAdded(before, e) ==
    /\ DOMAIN tokens' = DOMAIN tokens \union {Len(tokens) + 1}
    /\ Len(tokens) + 1 \notin DOMAIN tokens
    /\ \A i \in DOMAIN tokens : tokens'[i] = before[i]
    /\ tokens'[Len(tokens) + 1] = e

\* What a step may do to the codes: none is lost, changes its person or is opened again.
CodesGoOn ==
    /\ codes' \in Seq(CodeRow) /\ DOMAIN codes \subseteq DOMAIN codes'
    /\ \A k \in DOMAIN codes :
          codes'[k].who = codes[k].who /\ (~codes'[k].consumed => ~codes[k].consumed)

LinksGoOn == links' \in Seq(LinkRow) /\ DOMAIN links \subseteq DOMAIN links'

\* A new session, and a replaced token.
LEMMA SessionAdded ==
    ASSUME RowTypes, CallTypes, NEW c \in Call, CreateSession(c)
    PROVE  TokensGoOn /\ (Present(c) => TokenAdded(tokens, Token(c, Len(tokens) + 1)))
<1>1. call[c] \in CallState /\ call[c].who \in Person /\ Len(tokens) + 1 \in Nat
    BY DEF CallTypes, RowTypes, Sound, CreateSession, At
<1>2. Token(c, Len(tokens) + 1) \in TokenRow
    BY <1>1 DEF Token, TokenRow, CallState
<1>3. CASE Present(c)
    BY <1>2, <1>3, RowAdded DEF RowTypes, CreateSession, TokensGoOn, TokenAdded
<1>4. CASE ~Present(c)
    BY <1>4 DEF RowTypes, CreateSession, TokensGoOn
<1>q. QED
    BY <1>3, <1>4

\* A rotation marks its token and adds another of the same family, and changes no other row.
LEMMA TokenReplaced ==
    ASSUME RowTypes, CallTypes, NEW c \in Call, RotateCommits(c)
    PROVE  /\ TokensGoOn /\ call[c].row \in DOMAIN tokens
           /\ TokenAdded([tokens EXCEPT ![call[c].row].is = "revoked"],
                         Token(c, tokens[call[c].row].family))
<1> DEFINE before == [tokens EXCEPT ![call[c].row].is = "revoked"]
           e == Token(c, tokens[call[c].row].family)
<1>1. call[c] \in CallState /\ call[c].who \in Person /\ call[c].row \in DOMAIN tokens
    BY DEF CallTypes, Sound, RotateCommits, At
<1>2. e \in TokenRow
    BY <1>1, Rows DEF Token, TokenRow, CallState
<1>3. before \in [DOMAIN tokens -> TokenRow]
    BY Rows DEF TokenRow
<1>4. before \in Seq(TokenRow) /\ DOMAIN before = DOMAIN tokens
    BY <1>3, RowsRewritten DEF RowTypes
<1>5. Len(before) = Len(tokens)
    BY <1>4 DEF RowTypes
<1>6. tokens' = Append(before, e)
    BY DEF RotateCommits
<1> HIDE DEF e
<1>7. TokenAdded(before, e) /\ tokens' \in Seq(TokenRow)
    BY <1>2, <1>4, <1>5, <1>6, RowAdded DEF TokenAdded
<1>8. \A i \in DOMAIN tokens : /\ before[i].who = tokens[i].who /\ before[i].id = tokens[i].id
                               /\ before[i].portal = tokens[i].portal
                               /\ before[i].family = tokens[i].family
                               /\ before[i].is = "live" => tokens[i].is = "live"
    BY <1>1, Rows DEF TokenRow
<1>9. TokensGoOn
    BY <1>7, <1>8 DEF TokensGoOn, TokenAdded
<1>q. QED
    BY <1>1, <1>7, <1>9 DEF e

\* Tokens that change only their state.
LEMMA TokensMarked ==
    ASSUME RowTypes, NEW f \in [DOMAIN tokens -> {"live", "expired", "revoked", "gone"}],
           \A i \in DOMAIN tokens : f[i] = "live" => tokens[i].is = "live",
           tokens' = [i \in DOMAIN tokens |-> [tokens[i] EXCEPT !.is = f[i]]]
    PROVE  TokensGoOn /\ \A i \in DOMAIN tokens' : tokens'[i].is = f[i]
<1>1. \A i \in DOMAIN tokens : [tokens[i] EXCEPT !.is = f[i]] \in TokenRow
    BY Rows DEF TokenRow
<1>2. tokens' \in [DOMAIN tokens -> TokenRow]
    BY <1>1
<1>3. tokens' \in Seq(TokenRow) /\ DOMAIN tokens' = DOMAIN tokens
    BY <1>2, RowsRewritten DEF RowTypes
<1>q. QED
    BY <1>3, Rows DEF TokensGoOn, TokenRow

\* Which state a step leaves a token in, when it adds none.
LEMMA TokensChange ==
    ASSUME RowTypes, CallTypes
    PROVE  /\ \A i \in DOMAIN tokens : Logout(i) \/ TokenExpires(i) =>
                 TokensGoOn /\ DOMAIN tokens' = DOMAIN tokens
           /\ \A c \in Call : ResetCommits(c) =>
                 /\ TokensGoOn /\ DOMAIN tokens' = DOMAIN tokens
                 /\ \A i \in call[c].seen \intersect DOMAIN tokens : tokens'[i].is # "live"
                 /\ \A i \in DOMAIN tokens \ call[c].seen : tokens'[i] = tokens[i]
           /\ \A p \in Person : DeleteUser(p) =>
                 /\ TokensGoOn /\ DOMAIN tokens' = DOMAIN tokens
                 /\ \A i \in DOMAIN tokens : /\ tokens[i].who = p => tokens'[i].is = "gone"
                                             /\ tokens[i].who # p => tokens'[i] = tokens[i]
<1>1. ASSUME NEW i \in DOMAIN tokens, Logout(i) \/ TokenExpires(i)
      PROVE  TokensGoOn /\ DOMAIN tokens' = DOMAIN tokens
  <2> DEFINE f == [j \in DOMAIN tokens |-> IF j = i THEN tokens'[i].is ELSE tokens[j].is]
  <2>1. tokens'[i].is \in {"revoked", "expired"}
      BY <1>1, Rows DEF Logout, TokenExpires, TokenRow
  <2>2. f \in [DOMAIN tokens -> {"live", "expired", "revoked", "gone"}]
      BY <2>1, Rows DEF TokenRow
  <2>3. \A j \in DOMAIN tokens : f[j] = "live" => tokens[j].is = "live"
      BY <2>1
  <2>4. \A j \in DOMAIN tokens : tokens'[j] = [tokens[j] EXCEPT !.is = f[j]]
      BY <1>1, Rows DEF Logout, TokenExpires, TokenRow
  <2>5. tokens' = [j \in DOMAIN tokens |-> [tokens[j] EXCEPT !.is = f[j]]]
      BY <1>1, <2>4 DEF Logout, TokenExpires
  <2> HIDE DEF f
  <2>q. QED
      BY <2>2, <2>3, <2>5, TokensMarked
<1>2. ASSUME NEW c \in Call, ResetCommits(c)
      PROVE  /\ TokensGoOn /\ DOMAIN tokens' = DOMAIN tokens
             /\ \A i \in call[c].seen \intersect DOMAIN tokens : tokens'[i].is # "live"
             /\ \A i \in DOMAIN tokens \ call[c].seen : tokens'[i] = tokens[i]
  <2> DEFINE hit(i) == i \in call[c].seen /\ tokens[i].is \in {"live", "expired"}
             f == [i \in DOMAIN tokens |-> IF hit(i) THEN "revoked" ELSE tokens[i].is]
  <2>1. f \in [DOMAIN tokens -> {"live", "expired", "revoked", "gone"}]
      BY Rows DEF TokenRow
  <2>2. \A i \in DOMAIN tokens : f[i] = "live" => tokens[i].is = "live"
      OBVIOUS
  <2>3. tokens' = [i \in DOMAIN tokens |-> IF hit(i) THEN [tokens[i] EXCEPT !.is = "revoked"]
                                           ELSE tokens[i]]
      BY <1>2 DEF ResetCommits
  <2>4. \A i \in DOMAIN tokens : tokens'[i] = [tokens[i] EXCEPT !.is = f[i]]
      BY <2>3, Rows DEF TokenRow
  <2>5. tokens' = [i \in DOMAIN tokens |-> [tokens[i] EXCEPT !.is = f[i]]]
      BY <2>3, <2>4
  <2>6. \A i \in DOMAIN tokens : i \in call[c].seen => f[i] # "live"
      OBVIOUS
  <2>7. \A i \in DOMAIN tokens \ call[c].seen : tokens'[i] = tokens[i]
      BY <2>3
  <2>8. DOMAIN tokens' = DOMAIN tokens
      BY <2>3
  <2> HIDE DEF f, hit
  <2>9. TokensGoOn /\ \A i \in DOMAIN tokens' : tokens'[i].is = f[i]
      BY <2>1, <2>2, <2>5, TokensMarked
  <2>q. QED
      BY <2>6, <2>7, <2>8, <2>9
<1>3. ASSUME NEW p \in Person, DeleteUser(p)
      PROVE  /\ TokensGoOn /\ DOMAIN tokens' = DOMAIN tokens
             /\ \A i \in DOMAIN tokens : /\ tokens[i].who = p => tokens'[i].is = "gone"
                                         /\ tokens[i].who # p => tokens'[i] = tokens[i]
  <2> DEFINE f == [i \in DOMAIN tokens |-> IF tokens[i].who = p THEN "gone" ELSE tokens[i].is]
  <2>1. f \in [DOMAIN tokens -> {"live", "expired", "revoked", "gone"}]
      BY Rows DEF TokenRow
  <2>2. \A i \in DOMAIN tokens : f[i] = "live" => tokens[i].is = "live"
      OBVIOUS
  <2>3. tokens' = [i \in DOMAIN tokens |-> IF tokens[i].who = p THEN [tokens[i] EXCEPT !.is = "gone"]
                                           ELSE tokens[i]]
      BY <1>3 DEF DeleteUser
  <2>4. \A i \in DOMAIN tokens : tokens'[i] = [tokens[i] EXCEPT !.is = f[i]]
      BY <2>3, Rows DEF TokenRow
  <2>5. tokens' = [i \in DOMAIN tokens |-> [tokens[i] EXCEPT !.is = f[i]]]
      BY <2>3, <2>4
  <2>6. \A i \in DOMAIN tokens : tokens[i].who = p => f[i] = "gone"
      OBVIOUS
  <2>7. \A i \in DOMAIN tokens : tokens[i].who # p => tokens'[i] = tokens[i]
      BY <2>3
  <2>8. DOMAIN tokens' = DOMAIN tokens
      BY <2>3
  <2> HIDE DEF f
  <2>9. TokensGoOn /\ \A i \in DOMAIN tokens' : tokens'[i].is = f[i]
      BY <2>1, <2>2, <2>5, TokensMarked
  <2>q. QED
      BY <2>6, <2>7, <2>8, <2>9
<1>q. QED
    BY <1>1, <1>2, <1>3

\* The steps that write codes.
LEMMA CodesChange ==
    ASSUME RowTypes, CallTypes
    PROVE  /\ \A k \in DOMAIN codes : CodeAges(k) => CodesGoOn /\ DOMAIN codes' = DOMAIN codes
           /\ \A c \in Call : ResendWrites(c) => CodesGoOn /\ DOMAIN codes' = DOMAIN codes
           /\ \A c \in Call, k \in DOMAIN codes : VerifyCode(c, k) =>
                 CodesGoOn /\ DOMAIN codes' = DOMAIN codes
           /\ \A c \in Call : InsertCode(c) =>
                 /\ CodesGoOn /\ DOMAIN codes' = DOMAIN codes \union {Len(codes) + 1}
                 /\ Len(codes) + 1 \notin DOMAIN codes
                 /\ \A k \in DOMAIN codes : /\ codes'[k].made = codes[k].made
                                            /\ codes[k].consumed => codes'[k].consumed
                                            /\ k \in call[c].seen => codes'[k].consumed
                 /\ codes'[Len(codes) + 1] = [who |-> call[c].who, consumed |-> FALSE,
                                              fresh |-> TRUE, resendable |-> FALSE, made |-> 0]
<1>1. ASSUME NEW k \in DOMAIN codes, CodeAges(k) PROVE CodesGoOn /\ DOMAIN codes' = DOMAIN codes
  <2>1. codes' \in [DOMAIN codes -> CodeRow]
      BY <1>1, Rows DEF CodeAges, CodeRow
  <2>2. codes' \in Seq(CodeRow) /\ DOMAIN codes' = DOMAIN codes
      BY <2>1, RowsRewritten DEF RowTypes
  <2>q. QED
      BY <1>1, <2>2, Rows DEF CodesGoOn, CodeAges, CodeRow
<1>2. ASSUME NEW c \in Call, ResendWrites(c) PROVE CodesGoOn /\ DOMAIN codes' = DOMAIN codes
  <2>1. codes' \in [DOMAIN codes -> CodeRow]
      BY <1>2, Rows DEF ResendWrites, CodeRow
  <2>2. codes' \in Seq(CodeRow) /\ DOMAIN codes' = DOMAIN codes
      BY <2>1, RowsRewritten DEF RowTypes
  <2>q. QED
      BY <1>2, <2>2, Rows DEF CodesGoOn, ResendWrites, CodeRow
<1>3. ASSUME NEW c \in Call, NEW k \in DOMAIN codes, VerifyCode(c, k)
      PROVE  CodesGoOn /\ DOMAIN codes' = DOMAIN codes
  <2>0. codes[k].made + 1 \in Nat /\ codes[k] \in CodeRow
      BY Rows DEF CodeRow
  <2>1. codes' \in [DOMAIN codes -> CodeRow]
      BY <1>3, <2>0, Rows DEF VerifyCode, CodeRow
  <2>2. codes' \in Seq(CodeRow) /\ DOMAIN codes' = DOMAIN codes
      BY <2>1, RowsRewritten DEF RowTypes
  <2>q. QED
      BY <1>3, <2>2, Rows DEF CodesGoOn, VerifyCode, CodeRow
<1>4. ASSUME NEW c \in Call, InsertCode(c)
      PROVE  /\ CodesGoOn /\ DOMAIN codes' = DOMAIN codes \union {Len(codes) + 1}
             /\ Len(codes) + 1 \notin DOMAIN codes
             /\ \A k \in DOMAIN codes : /\ codes'[k].made = codes[k].made
                                        /\ codes[k].consumed => codes'[k].consumed
                                        /\ k \in call[c].seen => codes'[k].consumed
             /\ codes'[Len(codes) + 1] = [who |-> call[c].who, consumed |-> FALSE,
                                          fresh |-> TRUE, resendable |-> FALSE, made |-> 0]
  <2> DEFINE before == [k \in DOMAIN codes |->
                           IF k \in call[c].seen THEN [codes[k] EXCEPT !.consumed = TRUE]
                           ELSE codes[k]]
             e == [who |-> call[c].who, consumed |-> FALSE, fresh |-> TRUE,
                   resendable |-> FALSE, made |-> 0]
  <2>1. call[c].who \in Person
      BY <1>4 DEF CallTypes, Sound, InsertCode, At
  <2>2. e \in CodeRow
      BY <2>1 DEF CodeRow
  <2>3. before \in [DOMAIN codes -> CodeRow]
      BY Rows DEF CodeRow
  <2>4. \A k \in DOMAIN codes :
           /\ before[k].who = codes[k].who /\ before[k].made = codes[k].made
           /\ codes[k].consumed => before[k].consumed
           /\ k \in call[c].seen => before[k].consumed
      BY Rows DEF CodeRow
  <2>5. codes' = Append(before, e)
      BY <1>4 DEF InsertCode
  <2>6. before \in Seq(CodeRow) /\ DOMAIN before = DOMAIN codes
      BY <2>3, RowsRewritten DEF RowTypes
  <2>7. Len(before) = Len(codes)
      BY <2>6 DEF RowTypes
  <2> HIDE DEF before
  <2>8. /\ codes' \in Seq(CodeRow) /\ DOMAIN codes' = DOMAIN codes \union {Len(codes) + 1}
        /\ Len(codes) + 1 \notin DOMAIN codes
        /\ \A k \in DOMAIN codes : codes'[k] = before[k]
        /\ codes'[Len(codes) + 1] = e
      BY <2>2, <2>5, <2>6, <2>7, RowAdded
  <2>q. QED
      BY <2>4, <2>8 DEF CodesGoOn
<1>q. QED
    BY <1>1, <1>2, <1>3, <1>4

\* The steps that write links.
LEMMA LinksChange ==
    ASSUME RowTypes, CallTypes
    PROVE  /\ \A l \in DOMAIN links : LinkExpires(l) => LinksGoOn
           /\ \A p \in Person : RequestPasswordReset(p) => LinksGoOn
           /\ \A c \in Call : ResetCommits(c) => LinksGoOn
<1>1. ASSUME NEW l \in DOMAIN links, LinkExpires(l) PROVE LinksGoOn
  <2>1. links' \in [DOMAIN links -> LinkRow]
      BY <1>1, Rows DEF LinkExpires, LinkRow
  <2>q. QED
      BY <2>1, RowsRewritten DEF RowTypes, LinksGoOn
<1>2. ASSUME NEW p \in Person, RequestPasswordReset(p) PROVE LinksGoOn
  <2>1. [who |-> p, id |-> account[p].id, open |-> TRUE] \in LinkRow
      BY DEF LinkRow, RowTypes
  <2>q. QED
      BY <1>2, <2>1, RowAdded DEF RequestPasswordReset, RowTypes, LinksGoOn
<1>3. ASSUME NEW c \in Call, ResetCommits(c) PROVE LinksGoOn
  <2>1. links' \in [DOMAIN links -> LinkRow]
      BY <1>3, Rows DEF ResetCommits, LinkRow
  <2>q. QED
      BY <2>1, RowsRewritten DEF RowTypes, LinksGoOn
<1>q. QED
    BY <1>1, <1>2, <1>3

\* Who writes the accounts, and what is recorded of them.
LEMMA WhoWritesAccounts ==
    ASSUME [AccountsNext]_accountsVars
    PROVE  \/ UNCHANGED <<account, accounts, accountsHistory>>
           \/ \E c \in Call : \/ \E k \in DOMAIN codes : VerifyCode(c, k)
                             \/ ConsumeOpenCodes(c) \/ GoogleCreates(c) \/ GoogleLinks(c)
                             \/ ResetCommits(c) \/ AdminUserInserted(c) \/ CallDies(c)
           \/ \E p \in Person : UpdateUserRole(p) \/ DeleteUser(p)
<1> DEFINE quiet == UNCHANGED <<account, accounts, accountsHistory>>
           loud == \/ \E c \in Call : \/ \E k \in DOMAIN codes : VerifyCode(c, k)
                                    \/ ConsumeOpenCodes(c) \/ GoogleCreates(c) \/ GoogleLinks(c)
                                    \/ ResetCommits(c) \/ AdminUserInserted(c) \/ CallDies(c)
                   \/ \E p \in Person : UpdateUserRole(p) \/ DeleteUser(p)
<1>1. ASSUME NEW c \in Call, NEW p \in Person, RequestRegistration(c, p) PROVE quiet \/ loud
    BY <1>1 DEF RequestRegistration
<1>2. ASSUME NEW c \in Call, NEW p \in Person, GoogleLogin(c, p) PROVE quiet \/ loud
    BY <1>2 DEF GoogleLogin
<1>3. ASSUME NEW c \in Call, NEW p \in Person, CreateAdminUser(c, p) PROVE quiet \/ loud
    BY <1>3 DEF CreateAdminUser
<1>4. ASSUME NEW c \in Call, NEW p \in Person, NEW portal \in Portals, PasswordLogin(c, p, portal)
      PROVE  quiet \/ loud
    BY <1>4 DEF PasswordLogin
<1>5. ASSUME NEW c \in Call, NEW k \in DOMAIN codes, ResendReads(c, k) PROVE quiet \/ loud
    BY <1>5 DEF ResendReads
<1>6. ASSUME NEW c \in Call, NEW i \in DOMAIN tokens, RotateReads(c, i) PROVE quiet \/ loud
    BY <1>6 DEF RotateReads
<1>7. ASSUME NEW c \in Call, NEW l \in DOMAIN links, ResetRevokes(c, l) PROVE quiet \/ loud
    BY <1>7 DEF ResetRevokes
<1>8. ASSUME NEW c \in Call, InsertCode(c) PROVE quiet \/ loud
    BY <1>8 DEF InsertCode
<1>9. ASSUME NEW c \in Call, ResendWrites(c) PROVE quiet \/ loud
    BY <1>9 DEF ResendWrites
<1>10. ASSUME NEW c \in Call, CreateSession(c) PROVE quiet \/ loud
    BY <1>10 DEF CreateSession
<1>11. ASSUME NEW c \in Call, RotateCommits(c) PROVE quiet \/ loud
    BY <1>11 DEF RotateCommits
<1>12. ASSUME NEW k \in DOMAIN codes, CodeAges(k) PROVE quiet \/ loud
    BY <1>12 DEF CodeAges
<1>13. ASSUME NEW i \in DOMAIN tokens, Logout(i) \/ TokenExpires(i)
       PROVE  quiet \/ loud
    BY <1>13 DEF Logout, TokenExpires
<1>14. ASSUME NEW l \in DOMAIN links, LinkExpires(l) PROVE quiet \/ loud
    BY <1>14 DEF LinkExpires
<1>15. ASSUME NEW p \in Person, RequestPasswordReset(p) PROVE quiet \/ loud
    BY <1>15 DEF RequestPasswordReset
<1>16. ASSUME UNCHANGED accountsVars PROVE quiet \/ loud
    BY <1>16 DEF accountsVars
<1>17. ASSUME NEW c \in Call,
              \/ \E k \in DOMAIN codes : VerifyCode(c, k)
              \/ ConsumeOpenCodes(c) \/ GoogleCreates(c) \/ GoogleLinks(c)
              \/ ResetCommits(c) \/ AdminUserInserted(c) \/ CallDies(c)
       PROVE  loud
    BY <1>17
<1>18. ASSUME NEW p \in Person, UpdateUserRole(p) \/ DeleteUser(p) PROVE loud
    BY <1>18
<1> HIDE DEF quiet, loud
<1>19. quiet \/ loud
    BY <1>1, <1>2, <1>3, <1>4, <1>5, <1>6, <1>7, <1>8, <1>9, <1>10, <1>11, <1>12, <1>13, <1>14,
       <1>15, <1>16, <1>17, <1>18 DEF AccountsNext
<1>q. QED
    BY <1>19 DEF quiet, loud

\* Only a reset ends families ...
LEMMA WhoWritesEnded ==
    ASSUME [AccountsNext]_accountsVars
    PROVE  ended' = ended \/ \E c \in Call : ResetCommits(c)
<1>1. ASSUME NEW c \in Call, NEW k \in DOMAIN codes, VerifyCode(c, k) PROVE ended' = ended
    BY <1>1 DEF VerifyCode, accountsHistory
<1>2. ASSUME NEW c \in Call, ConsumeOpenCodes(c) \/ CallDies(c) PROVE ended' = ended
    BY <1>2 DEF ConsumeOpenCodes, CallDies
<1>3. ASSUME NEW c \in Call, GoogleCreates(c) \/ GoogleLinks(c) \/ AdminUserInserted(c)
      PROVE  ended' = ended
    BY <1>3 DEF GoogleCreates, GoogleLinks, AdminUserInserted, accountsHistory
<1>4. ASSUME NEW p \in Person, UpdateUserRole(p) \/ DeleteUser(p) PROVE ended' = ended
    BY <1>4 DEF UpdateUserRole, DeleteUser, accountsHistory
<1>q. QED
    BY <1>1, <1>2, <1>3, <1>4, WhoWritesAccounts DEF accountsHistory

\* ... and nothing recorded of registrations or of accounts cut off is forgotten.
LEMMA RecordsGrow ==
    ASSUME [AccountsNext]_accountsVars PROVE beside \subseteq beside' /\ cutOff \subseteq cutOff'
<1> DEFINE grow == beside \subseteq beside' /\ cutOff \subseteq cutOff'
<1>1. ASSUME NEW c \in Call, NEW k \in DOMAIN codes, VerifyCode(c, k) PROVE grow
    BY <1>1 DEF VerifyCode, accountsHistory
<1>2. ASSUME NEW c \in Call, ConsumeOpenCodes(c) PROVE grow
    BY <1>2 DEF ConsumeOpenCodes
<1>3. ASSUME NEW c \in Call, CallDies(c) PROVE grow
    BY <1>3 DEF CallDies
<1>4. ASSUME NEW c \in Call, ResetCommits(c) PROVE grow
    BY <1>4 DEF ResetCommits
<1>5. ASSUME NEW c \in Call, GoogleCreates(c) \/ GoogleLinks(c) \/ AdminUserInserted(c) PROVE grow
    BY <1>5 DEF GoogleCreates, GoogleLinks, AdminUserInserted, accountsHistory
<1>6. ASSUME NEW p \in Person, UpdateUserRole(p) \/ DeleteUser(p) PROVE grow
    BY <1>6 DEF UpdateUserRole, DeleteUser, accountsHistory
<1>7. ASSUME UNCHANGED <<account, accounts, accountsHistory>> PROVE grow
    BY <1>7 DEF accountsHistory
<1> HIDE DEF grow
<1>8. grow
    BY <1>1, <1>2, <1>3, <1>4, <1>5, <1>6, <1>7, WhoWritesAccounts DEF accountsHistory
<1>q. QED
    BY <1>8 DEF grow

\* Every step only adds to the tables, or rewrites rows in place.
LEMMA TablesGoOn ==
    ASSUME RowTypes, CallTypes, [AccountsNext]_accountsVars
    PROVE  TokensGoOn /\ CodesGoOn /\ LinksGoOn
<1> DEFINE Same == /\ tokens' = tokens => TokensGoOn
                   /\ codes' = codes => CodesGoOn
                   /\ links' = links => LinksGoOn
<1>s. Same
    BY DEF RowTypes, TokensGoOn, CodesGoOn, LinksGoOn
<1>1. ASSUME NEW c \in Call, NEW p \in Person, RequestRegistration(c, p)
      PROVE  TokensGoOn /\ CodesGoOn /\ LinksGoOn
    BY <1>1, <1>s DEF RequestRegistration
<1>2. ASSUME NEW c \in Call, NEW p \in Person, GoogleLogin(c, p)
      PROVE  TokensGoOn /\ CodesGoOn /\ LinksGoOn
    BY <1>2, <1>s DEF GoogleLogin
<1>3. ASSUME NEW c \in Call, NEW p \in Person, CreateAdminUser(c, p)
      PROVE  TokensGoOn /\ CodesGoOn /\ LinksGoOn
    BY <1>3, <1>s DEF CreateAdminUser
<1>4. ASSUME NEW c \in Call, NEW p \in Person, NEW portal \in Portals, PasswordLogin(c, p, portal)
      PROVE  TokensGoOn /\ CodesGoOn /\ LinksGoOn
    BY <1>4, <1>s DEF PasswordLogin
<1>5. ASSUME NEW c \in Call, NEW k \in DOMAIN codes, ResendReads(c, k)
      PROVE  TokensGoOn /\ CodesGoOn /\ LinksGoOn
    BY <1>5, <1>s DEF ResendReads
<1>6. ASSUME NEW c \in Call, NEW k \in DOMAIN codes, VerifyCode(c, k)
      PROVE  TokensGoOn /\ CodesGoOn /\ LinksGoOn
    BY <1>6, <1>s, CodesChange DEF VerifyCode
<1>7. ASSUME NEW c \in Call, NEW i \in DOMAIN tokens, RotateReads(c, i)
      PROVE  TokensGoOn /\ CodesGoOn /\ LinksGoOn
    BY <1>7, <1>s DEF RotateReads
<1>8. ASSUME NEW c \in Call, NEW l \in DOMAIN links, ResetRevokes(c, l)
      PROVE  TokensGoOn /\ CodesGoOn /\ LinksGoOn
    BY <1>8, <1>s DEF ResetRevokes
<1>9. ASSUME NEW c \in Call, ConsumeOpenCodes(c)
      PROVE  TokensGoOn /\ CodesGoOn /\ LinksGoOn
    BY <1>9, <1>s DEF ConsumeOpenCodes
<1>10. ASSUME NEW c \in Call, InsertCode(c)
      PROVE  TokensGoOn /\ CodesGoOn /\ LinksGoOn
    BY <1>10, <1>s, CodesChange DEF InsertCode
<1>11. ASSUME NEW c \in Call, ResendWrites(c)
      PROVE  TokensGoOn /\ CodesGoOn /\ LinksGoOn
    BY <1>11, <1>s, CodesChange DEF ResendWrites
<1>12. ASSUME NEW c \in Call, GoogleCreates(c)
      PROVE  TokensGoOn /\ CodesGoOn /\ LinksGoOn
    BY <1>12, <1>s DEF GoogleCreates
<1>13. ASSUME NEW c \in Call, GoogleLinks(c)
      PROVE  TokensGoOn /\ CodesGoOn /\ LinksGoOn
    BY <1>13, <1>s DEF GoogleLinks
<1>14. ASSUME NEW c \in Call, CreateSession(c)
      PROVE  TokensGoOn /\ CodesGoOn /\ LinksGoOn
    BY <1>14, <1>s, SessionAdded DEF CreateSession
<1>15. ASSUME NEW c \in Call, RotateCommits(c)
      PROVE  TokensGoOn /\ CodesGoOn /\ LinksGoOn
    BY <1>15, <1>s, TokenReplaced DEF RotateCommits
<1>16. ASSUME NEW c \in Call, ResetCommits(c)
      PROVE  TokensGoOn /\ CodesGoOn /\ LinksGoOn
    BY <1>16, <1>s, TokensChange, LinksChange DEF ResetCommits
<1>17. ASSUME NEW c \in Call, AdminUserInserted(c)
      PROVE  TokensGoOn /\ CodesGoOn /\ LinksGoOn
    BY <1>17, <1>s DEF AdminUserInserted
<1>18. ASSUME NEW c \in Call, CallDies(c)
      PROVE  TokensGoOn /\ CodesGoOn /\ LinksGoOn
    BY <1>18, <1>s DEF CallDies
<1>19. ASSUME NEW k \in DOMAIN codes, CodeAges(k)
      PROVE  TokensGoOn /\ CodesGoOn /\ LinksGoOn
    BY <1>19, <1>s, CodesChange DEF CodeAges
<1>20. ASSUME NEW i \in DOMAIN tokens, Logout(i)
      PROVE  TokensGoOn /\ CodesGoOn /\ LinksGoOn
    BY <1>20, <1>s, TokensChange DEF Logout
<1>21. ASSUME NEW i \in DOMAIN tokens, TokenExpires(i)
      PROVE  TokensGoOn /\ CodesGoOn /\ LinksGoOn
    BY <1>21, <1>s, TokensChange DEF TokenExpires
<1>22. ASSUME NEW l \in DOMAIN links, LinkExpires(l)
      PROVE  TokensGoOn /\ CodesGoOn /\ LinksGoOn
    BY <1>22, <1>s, LinksChange DEF LinkExpires
<1>23. ASSUME NEW p \in Person, RequestPasswordReset(p)
      PROVE  TokensGoOn /\ CodesGoOn /\ LinksGoOn
    BY <1>23, <1>s, LinksChange DEF RequestPasswordReset
<1>24. ASSUME NEW p \in Person, UpdateUserRole(p)
      PROVE  TokensGoOn /\ CodesGoOn /\ LinksGoOn
    BY <1>24, <1>s DEF UpdateUserRole
<1>25. ASSUME NEW p \in Person, DeleteUser(p)
      PROVE  TokensGoOn /\ CodesGoOn /\ LinksGoOn
    BY <1>25, <1>s, TokensChange DEF DeleteUser
<1>26. CASE UNCHANGED accountsVars
    BY <1>26, <1>s DEF accountsVars
<1> HIDE DEF Same
<1>q. QED
    BY <1>1, <1>2, <1>3, <1>4, <1>5, <1>6, <1>7, <1>8, <1>9, <1>10, <1>11, <1>12, <1>13, <1>14,
       <1>15, <1>16, <1>17, <1>18, <1>19, <1>20, <1>21, <1>22, <1>23, <1>24, <1>25, <1>26
       DEF AccountsNext

\* A new account.
LEMMA AccountMade ==
    ASSUME RowTypes, NEW p \in Person, NEW role \in Portals, NEW password \in BOOLEAN,
           MakeAccount(p, role, password)
    PROVE  /\ accounts' = accounts + 1 /\ accounts' \in Nat
           /\ account' \in [Person -> [id : Nat, role : Portals, password : BOOLEAN,
                                        google : BOOLEAN]]
           /\ account'[p] = [id |-> accounts + 1, role |-> role, password |-> password,
                              google |-> FALSE]
           /\ \A q \in Person \ {p} : account'[q] = account[q]
BY DEF RowTypes, MakeAccount

\* Every step keeps the types of the rows.
LEMMA NextRowTypes ==
    ASSUME RowTypes, CallTypes, [AccountsNext]_accountsVars PROVE RowTypes'
<1>0. tokens' \in Seq(TokenRow) /\ codes' \in Seq(CodeRow) /\ links' \in Seq(LinkRow)
    BY TablesGoOn DEF TokensGoOn, CodesGoOn, LinksGoOn
<1>a. /\ accounts + 1 \in Nat
      /\ \A c \in Call : call[c].at # "idle" => call[c].who \in Person
    BY DEF RowTypes, CallTypes, Sound
<1>1. ASSUME NEW c \in Call, NEW k \in DOMAIN codes, VerifyCode(c, k) PROVE RowTypes'
    BY <1>1, <1>0, <1>a, Rows
       DEF RowTypes, Portals, VerifyCode, Exists, At, Asked, MakeAccount, LockedCode, Nothing
<1>2. ASSUME NEW c \in Call, GoogleCreates(c) PROVE RowTypes'
    BY <1>2, <1>0, <1>a, AccountMade DEF RowTypes, GoogleCreates, At, Portals
<1>3. ASSUME NEW c \in Call, GoogleLinks(c) PROVE RowTypes'
  <2>1. /\ accounts' = accounts
        /\ \/ account' = account
           \/ account' = [account EXCEPT ![call[c].who].google = TRUE]
      BY <1>3 DEF GoogleLinks
  <2>2. call[c].who \in Person
      BY <1>3, <1>a DEF GoogleLinks, At
  <2>q. QED
      BY <1>0, <2>1, <2>2 DEF RowTypes
<1>4. ASSUME NEW c \in Call, AdminUserInserted(c) PROVE RowTypes'
    BY <1>4, <1>0, <1>a, AccountMade DEF RowTypes, AdminUserInserted, At, Portals
<1>5. ASSUME NEW p \in Person, UpdateUserRole(p) PROVE RowTypes'
  <2> DEFINE role == IF account[p].role = "user" THEN "admin" ELSE "user"
  <2>1. accounts' = accounts /\ account' = [account EXCEPT ![p].role = role]
      BY <1>5 DEF UpdateUserRole
  <2>2. role \in Portals
      BY DEF Portals
  <2> HIDE DEF role
  <2>q. QED
      BY <1>0, <2>1, <2>2 DEF RowTypes
<1>6. ASSUME NEW p \in Person, DeleteUser(p) PROVE RowTypes'
    BY <1>6, <1>0, <1>a, Rows
       DEF RowTypes, Portals, DeleteUser, Exists, Asked, Resetting, LockedToken, NoAccount
<1>7. CASE UNCHANGED <<account, accounts>>
    BY <1>0, <1>7 DEF RowTypes
<1>8. ASSUME NEW c \in Call, ConsumeOpenCodes(c) \/ ResetCommits(c) \/ CallDies(c)
      PROVE  UNCHANGED <<account, accounts>>
    BY <1>8 DEF ConsumeOpenCodes, ResetCommits, CallDies
<1>q. QED
    BY <1>1, <1>2, <1>3, <1>4, <1>5, <1>6, <1>7, <1>8, WhoWritesAccounts

\* Who a request is after a step that moves one of them.
LEMMA OneCallMoves ==
    ASSUME CallTypes, TokensGoOn, CodesGoOn, LinksGoOn, NEW c \in Call, NEW r, Sound(r),
           call' = [call EXCEPT ![c] = r]
    PROVE  CallTypes'
<1>1. r \in CallState
    BY DEF Sound
<1>2. call' \in [Call -> CallState]
    BY <1>1 DEF CallTypes
<1>3. \A d \in Call : call'[d] = IF d = c THEN r ELSE call[d]
    BY DEF CallTypes
<1>4. \A d \in Call : Sound(call[d])'
  <2> SUFFICES ASSUME NEW d \in Call PROVE Sound(call[d])'
      OBVIOUS
  <2>1. \E s : Sound(s) /\ call'[d] = s
      BY <1>3 DEF CallTypes
  <2>q. QED
      BY <2>1 DEF Sound, TokensGoOn, CodesGoOn, LinksGoOn
<1>q. QED
    BY <1>2, <1>4 DEF CallTypes

\* The requests that a step leaves behind.
LEMMA NothingIsSound == Sound(Nothing)
BY DEF Sound, Nothing, CallState, Place, Portals

\* Every step keeps the types of the requests.
LEMMA NextCallTypes ==
    ASSUME RowTypes, CallTypes, [AccountsNext]_accountsVars PROVE CallTypes'
<1>t. TokensGoOn /\ CodesGoOn /\ LinksGoOn
    BY TablesGoOn
<1>1. ASSUME NEW c \in Call, NEW p \in Person, RequestRegistration(c, p) PROVE CallTypes'
  <2> DEFINE r ==
          [at |-> "registering", who |-> p, id |-> account[p].id, row |-> 0,
           portal |-> "user", seen |-> {}]
  <2>1. call' = [call EXCEPT ![c] = r]
      BY <1>1 DEF RequestRegistration, Begins
  <2>a. Sound(call[c]) /\ accounts + 1 \in Nat
      BY DEF CallTypes, RowTypes
  <2>2. Sound(r)
      BY <1>1, <2>a, Rows
         DEF RowTypes, Sound, CallState, Place, Portals, TokenRow, CodeRow, LinkRow,
             RequestRegistration, Exists, Begins, At
  <2> HIDE DEF r
  <2>q. QED
      BY <2>1, <2>2, <1>t, OneCallMoves
<1>2. ASSUME NEW c \in Call, NEW p \in Person, GoogleLogin(c, p) PROVE CallTypes'
  <2> DEFINE r ==
          [at |-> (IF Exists(p) THEN "linking" ELSE "creating"), who |-> p, id |-> account[p].id, row |-> 0,
           portal |-> account[p].role, seen |-> {}]
  <2>1. call' = [call EXCEPT ![c] = r]
      BY <1>2 DEF GoogleLogin, Begins
  <2>a. Sound(call[c]) /\ accounts + 1 \in Nat
      BY DEF CallTypes, RowTypes
  <2>2. Sound(r)
      BY <1>2, <2>a, Rows
         DEF RowTypes, Sound, CallState, Place, Portals, TokenRow, CodeRow, LinkRow,
             GoogleLogin, Exists, Begins, At
  <2> HIDE DEF r
  <2>q. QED
      BY <2>1, <2>2, <1>t, OneCallMoves
<1>3. ASSUME NEW c \in Call, NEW p \in Person, CreateAdminUser(c, p) PROVE CallTypes'
  <2> DEFINE r ==
          [at |-> "adding", who |-> p, id |-> account[p].id, row |-> 0,
           portal |-> "admin", seen |-> {}]
  <2>1. call' = [call EXCEPT ![c] = r]
      BY <1>3 DEF CreateAdminUser, Begins
  <2>a. Sound(call[c]) /\ accounts + 1 \in Nat
      BY DEF CallTypes, RowTypes
  <2>2. Sound(r)
      BY <1>3, <2>a, Rows
         DEF RowTypes, Sound, CallState, Place, Portals, TokenRow, CodeRow, LinkRow,
             CreateAdminUser, Exists, Begins, At
  <2> HIDE DEF r
  <2>q. QED
      BY <2>1, <2>2, <1>t, OneCallMoves
<1>4. ASSUME NEW c \in Call, NEW p \in Person, NEW portal \in Portals, PasswordLogin(c, p, portal)
      PROVE  CallTypes'
  <2> DEFINE r ==
          [at |-> "entering", who |-> p, id |-> account[p].id, row |-> 0,
           portal |-> portal, seen |-> {}]
  <2>1. call' = [call EXCEPT ![c] = r]
      BY <1>4 DEF PasswordLogin, Begins
  <2>a. Sound(call[c]) /\ accounts + 1 \in Nat
      BY DEF CallTypes, RowTypes
  <2>2. Sound(r)
      BY <1>4, <2>a, Rows
         DEF RowTypes, Sound, CallState, Place, Portals, TokenRow, CodeRow, LinkRow,
             PasswordLogin, Exists, Begins, At
  <2> HIDE DEF r
  <2>q. QED
      BY <2>1, <2>2, <1>t, OneCallMoves
<1>5. ASSUME NEW c \in Call, NEW k \in DOMAIN codes, ResendReads(c, k) PROVE CallTypes'
  <2> DEFINE r ==
          [at |-> "resending", who |-> codes[k].who, id |-> account[codes[k].who].id, row |-> k,
           portal |-> "user", seen |-> {}]
  <2>1. call' = [call EXCEPT ![c] = r]
      BY <1>5 DEF ResendReads, Begins
  <2>a. Sound(call[c]) /\ accounts + 1 \in Nat
      BY DEF CallTypes, RowTypes
  <2>2. Sound(r)
      BY <1>5, <2>a, Rows
         DEF RowTypes, Sound, CallState, Place, Portals, TokenRow, CodeRow, LinkRow,
             ResendReads, Begins, At
  <2> HIDE DEF r
  <2>q. QED
      BY <2>1, <2>2, <1>t, OneCallMoves
<1>6. ASSUME NEW c \in Call, NEW k \in DOMAIN codes, VerifyCode(c, k) PROVE CallTypes'
  <2> DEFINE r ==
          [Nothing EXCEPT !.at = "entering", !.who = codes[k].who, !.id = accounts + 1]
  <2>1. call' = [call EXCEPT ![c] = r]
      BY <1>6 DEF VerifyCode
  <2>a. Sound(call[c]) /\ accounts + 1 \in Nat
      BY DEF CallTypes, RowTypes
  <2>2. Sound(r)
      BY <1>6, <2>a, Rows
         DEF RowTypes, Sound, CallState, Place, Portals, TokenRow, CodeRow, LinkRow, VerifyCode,
             Exists, At, Nothing
  <2> HIDE DEF r
  <2>q. QED
      BY <2>1, <2>2, <1>t, OneCallMoves
<1>7. ASSUME NEW c \in Call, NEW i \in DOMAIN tokens, RotateReads(c, i) PROVE CallTypes'
  <2> DEFINE r ==
          [at |-> "rotating", who |-> tokens[i].who, id |-> account[tokens[i].who].id, row |-> i,
           portal |-> tokens[i].portal, seen |-> {}]
  <2>1. call' = [call EXCEPT ![c] = r]
      BY <1>7 DEF RotateReads, Begins
  <2>a. Sound(call[c]) /\ accounts + 1 \in Nat
      BY DEF CallTypes, RowTypes
  <2>2. Sound(r)
      BY <1>7, <2>a, Rows
         DEF RowTypes, Sound, CallState, Place, Portals, TokenRow, CodeRow, LinkRow,
             RotateReads, Begins, At
  <2> HIDE DEF r
  <2>q. QED
      BY <2>1, <2>2, <1>t, OneCallMoves
<1>8. ASSUME NEW c \in Call, NEW l \in DOMAIN links, ResetRevokes(c, l) PROVE CallTypes'
  <2> DEFINE r ==
          [at |-> "resetting", who |-> links[l].who, id |-> account[links[l].who].id, row |-> l,
           portal |-> "user", seen |-> Unrevoked(links[l].who)]
  <2>1. call' = [call EXCEPT ![c] = r]
      BY <1>8 DEF ResetRevokes, Begins
  <2>a. Sound(call[c]) /\ accounts + 1 \in Nat
      BY DEF CallTypes, RowTypes
  <2>2. Sound(r)
      BY <1>8, <2>a, Rows
         DEF RowTypes, Sound, CallState, Place, Portals, TokenRow, CodeRow, LinkRow,
             ResetRevokes, Begins, Unrevoked, At
  <2> HIDE DEF r
  <2>q. QED
      BY <2>1, <2>2, <1>t, OneCallMoves
<1>9. ASSUME NEW c \in Call, ConsumeOpenCodes(c) PROVE CallTypes'
  <2> DEFINE r ==
          [call[c] EXCEPT !.at = "inserting", !.seen = OpenCodes(call[c].who)]
  <2>1. call' = [call EXCEPT ![c] = r]
      BY <1>9 DEF ConsumeOpenCodes, CallTypes
  <2>a. Sound(call[c]) /\ accounts + 1 \in Nat
      BY DEF CallTypes, RowTypes
  <2>2. Sound(r)
      BY <1>9, <2>a, Rows
         DEF RowTypes, Sound, CallState, Place, Portals, TokenRow, CodeRow, LinkRow,
             ConsumeOpenCodes, At, OpenCodes
  <2> HIDE DEF r
  <2>q. QED
      BY <2>1, <2>2, <1>t, OneCallMoves
<1>10. ASSUME NEW c \in Call, InsertCode(c) PROVE CallTypes'
  <2>1. call' = [call EXCEPT ![c] = Nothing]
      BY <1>10 DEF InsertCode, Ends
  <2>q. QED
      BY <2>1, <1>t, NothingIsSound, OneCallMoves
<1>11. ASSUME NEW c \in Call, ResendWrites(c) PROVE CallTypes'
  <2>1. call' = [call EXCEPT ![c] = Nothing]
      BY <1>11 DEF ResendWrites, Ends
  <2>q. QED
      BY <2>1, <1>t, NothingIsSound, OneCallMoves
<1>12. ASSUME NEW c \in Call, GoogleCreates(c) PROVE CallTypes'
  <2> DEFINE r ==
          (IF Exists(call[c].who) THEN Nothing
           ELSE [call[c] EXCEPT !.at = "linking", !.id = accounts + 1])
  <2>1. call' = [call EXCEPT ![c] = r]
      BY <1>12 DEF GoogleCreates, Ends, CallTypes
  <2>a. Sound(call[c]) /\ accounts + 1 \in Nat
      BY DEF CallTypes, RowTypes
  <2>2. Sound(r)
      BY <1>12, <2>a, Rows
         DEF RowTypes, Sound, CallState, Place, Portals, TokenRow, CodeRow, LinkRow,
             GoogleCreates, At, Exists, Nothing
  <2> HIDE DEF r
  <2>q. QED
      BY <2>1, <2>2, <1>t, OneCallMoves
<1>13. ASSUME NEW c \in Call, GoogleLinks(c) PROVE CallTypes'
  <2> DEFINE r ==
          (IF Present(c) /\ PortalAccess(call[c].portal, "user")
           THEN [call[c] EXCEPT !.at = "entering"] ELSE Nothing)
  <2>1. call' = [call EXCEPT ![c] = r]
      BY <1>13 DEF GoogleLinks, Moves, Ends, CallTypes
  <2>a. Sound(call[c]) /\ accounts + 1 \in Nat
      BY DEF CallTypes, RowTypes
  <2>2. Sound(r)
      BY <1>13, <2>a, Rows
         DEF RowTypes, Sound, CallState, Place, Portals, TokenRow, CodeRow, LinkRow,
             GoogleLinks, At, Present, Nothing
  <2> HIDE DEF r
  <2>q. QED
      BY <2>1, <2>2, <1>t, OneCallMoves
<1>14. ASSUME NEW c \in Call, CreateSession(c) PROVE CallTypes'
  <2>1. call' = [call EXCEPT ![c] = Nothing]
      BY <1>14 DEF CreateSession, Ends
  <2>q. QED
      BY <2>1, <1>t, NothingIsSound, OneCallMoves
<1>15. ASSUME NEW c \in Call, RotateCommits(c) PROVE CallTypes'
  <2>1. call' = [call EXCEPT ![c] = Nothing]
      BY <1>15 DEF RotateCommits, Ends
  <2>q. QED
      BY <2>1, <1>t, NothingIsSound, OneCallMoves
<1>16. ASSUME NEW c \in Call, ResetCommits(c) PROVE CallTypes'
  <2>1. call' = [call EXCEPT ![c] = Nothing]
      BY <1>16 DEF ResetCommits, Ends
  <2>q. QED
      BY <2>1, <1>t, NothingIsSound, OneCallMoves
<1>17. ASSUME NEW c \in Call, AdminUserInserted(c) PROVE CallTypes'
  <2>1. call' = [call EXCEPT ![c] = Nothing]
      BY <1>17 DEF AdminUserInserted, Ends
  <2>q. QED
      BY <2>1, <1>t, NothingIsSound, OneCallMoves
<1>18. ASSUME NEW c \in Call, CallDies(c) PROVE CallTypes'
  <2>1. call' = [call EXCEPT ![c] = Nothing]
      BY <1>18 DEF CallDies, Ends
  <2>q. QED
      BY <2>1, <1>t, NothingIsSound, OneCallMoves
<1>19. CASE call' = call
    BY <1>19, <1>t DEF CallTypes, Sound, TokensGoOn, CodesGoOn, LinksGoOn
<1>q. QED
    BY <1>1, <1>2, <1>3, <1>4, <1>5, <1>6, <1>7, <1>8, <1>9, <1>10, <1>11, <1>12, <1>13, <1>14,
       <1>15, <1>16, <1>17, <1>18, <1>19
       DEF AccountsNext, accountsVars, CodeAges, Logout, TokenExpires, LinkExpires,
           RequestPasswordReset, UpdateUserRole, DeleteUser

-----------------------------------------------------------------------------
(* Accounts: what a step does *)

\* An account stays, or is deleted with its tokens, or is made, with a new number; its role stays
\* or is recorded as switched.
AccountsGoOn ==
    /\ accounts <= accounts' /\ switched \subseteq switched'
    /\ \A p \in Person :
          \/ /\ account'[p].id = account[p].id
             /\ account'[p].role = account[p].role \/ (Exists(p) /\ account[p].id \in switched')
          \/ /\ account'[p] = NoAccount
             /\ \A i \in DOMAIN tokens : tokens[i].who = p => tokens'[i].is # "live"
          \/ ~Exists(p) /\ accounts' = accounts + 1 /\ account'[p].id = accounts + 1

\* Making an account takes the accounts on.
LEMMA MadeAdvances ==
    ASSUME RowTypes, NEW p \in Person, NEW role \in Portals, NEW password \in BOOLEAN, ~Exists(p),
           MakeAccount(p, role, password), switched' = switched
    PROVE  AccountsGoOn
<1> DEFINE made == [id |-> accounts + 1, role |-> role, password |-> password, google |-> FALSE]
<1>1. made.id = accounts + 1
    OBVIOUS
<1>2. DOMAIN account = Person
    BY DEF RowTypes
<1>3. accounts' = accounts + 1 /\ account' = [account EXCEPT ![p] = made]
    BY DEF MakeAccount
<1>4. account'[p] = made /\ \A q \in Person \ {p} : account'[q] = account[q]
    BY <1>2, <1>3
<1>5. account'[p].id = accounts + 1
    BY <1>1, <1>4
<1>q. QED
    BY <1>3, <1>4, <1>5 DEF AccountsGoOn, RowTypes

\* Every step leaves an account, deletes it, links or resets it, or makes a new one.
LEMMA AccountsAdvance ==
    ASSUME RowTypes, CallTypes, [AccountsNext]_accountsVars
    PROVE  AccountsGoOn
<1>0. accounts \in Nat /\ \A c \in Call : call[c].at # "idle" => call[c].who \in Person
    BY DEF RowTypes, CallTypes, Sound
<1>1. ASSUME NEW c \in Call, NEW k \in DOMAIN codes, VerifyCode(c, k) PROVE AccountsGoOn
  <2>1. codes[k].who \in Person
      BY Rows DEF CodeRow
  <2>2. "user" \in Portals /\ TRUE \in BOOLEAN
      BY DEF Portals
  <2>q. QED
      BY <1>1, <2>1, <2>2, MadeAdvances DEF VerifyCode, accountsHistory
<1>2. ASSUME NEW c \in Call, GoogleCreates(c) PROVE AccountsGoOn
  <2>1. call[c].who \in Person /\ "user" \in Portals /\ FALSE \in BOOLEAN
      BY <1>2, <1>0 DEF GoogleCreates, At, Portals
  <2>2. CASE Exists(call[c].who)
      BY <1>2, <1>0, <2>2 DEF AccountsGoOn, GoogleCreates, accountsHistory
  <2>3. CASE ~Exists(call[c].who)
      BY <1>2, <2>1, <2>3, MadeAdvances DEF GoogleCreates, accountsHistory
  <2>q. QED
      BY <2>2, <2>3
<1>3. ASSUME NEW c \in Call, GoogleLinks(c) PROVE AccountsGoOn
    BY <1>3, <1>0 DEF AccountsGoOn, GoogleLinks, accountsHistory, RowTypes
<1>4. ASSUME NEW c \in Call, AdminUserInserted(c) PROVE AccountsGoOn
  <2>1. call[c].who \in Person /\ "admin" \in Portals /\ TRUE \in BOOLEAN
      BY <1>4, <1>0 DEF AdminUserInserted, At, Portals
  <2>2. CASE Exists(call[c].who)
      BY <1>4, <1>0, <2>2 DEF AccountsGoOn, AdminUserInserted, accountsHistory
  <2>3. CASE ~Exists(call[c].who)
      BY <1>4, <2>1, <2>3, MadeAdvances DEF AdminUserInserted, accountsHistory
  <2>q. QED
      BY <2>2, <2>3
<1>5. ASSUME NEW p \in Person, UpdateUserRole(p) PROVE AccountsGoOn
    BY <1>5, <1>0 DEF AccountsGoOn, UpdateUserRole, RowTypes, Exists
<1>6. ASSUME NEW p \in Person, DeleteUser(p) PROVE AccountsGoOn
    BY <1>6, <1>0, TokensChange DEF AccountsGoOn, DeleteUser, accountsHistory, RowTypes
<1>7. CASE UNCHANGED <<account, accounts, switched>>
    BY <1>7, <1>0 DEF AccountsGoOn
<1>8. ASSUME NEW c \in Call, ConsumeOpenCodes(c) \/ ResetCommits(c) \/ CallDies(c)
      PROVE  UNCHANGED <<account, accounts, switched>>
    BY <1>8 DEF ConsumeOpenCodes, ResetCommits, CallDies
<1>q. QED
    BY <1>1, <1>2, <1>3, <1>4, <1>5, <1>6, <1>7, <1>8, WhoWritesAccounts DEF accountsHistory

\* What places a request where other requests must mind it.
Arrives(c) ==
    /\ \A d \in Call \ {c} : call'[d] = call[d]
    /\ call'[c].at = "rotating" => \E i \in DOMAIN tokens : RotateReads(c, i)
    /\ call'[c].at = "resetting" => \E l \in DOMAIN links : ResetRevokes(c, l)
    /\ call'[c].at = "inserting" => ConsumeOpenCodes(c)
    /\ call'[c].at = "creating" => \E p \in Person : GoogleLogin(c, p)
    /\ call'[c].at = "linking" => GoogleCreates(c) \/ \E p \in Person : GoogleLogin(c, p)
    /\ call'[c].at = "entering" =>
          \/ GoogleLinks(c) \/ \E k \in DOMAIN codes : VerifyCode(c, k)
          \/ \E p \in Person : \E portal \in Portals : PasswordLogin(c, p, portal)

\* At most one request moves.
LEMMA CallsAdvance ==
    ASSUME RowTypes, CallTypes, [AccountsNext]_accountsVars
    PROVE  \A d \in Call : call'[d] = call[d] \/ Arrives(d)
<1>1. ASSUME NEW c \in Call, NEW p \in Person, RequestRegistration(c, p)
      PROVE  \A d \in Call : call'[d] = call[d] \/ Arrives(d)
  <2>1. Arrives(c)
      BY <1>1 DEF Arrives, CallTypes, RequestRegistration, Exists, Begins, At
  <2>q. QED
      BY <2>1 DEF Arrives
<1>2. ASSUME NEW c \in Call, NEW p \in Person, GoogleLogin(c, p)
      PROVE  \A d \in Call : call'[d] = call[d] \/ Arrives(d)
  <2>1. Arrives(c)
      BY <1>2 DEF Arrives, CallTypes, GoogleLogin, Exists, Begins, At
  <2>q. QED
      BY <2>1 DEF Arrives
<1>3. ASSUME NEW c \in Call, NEW p \in Person, CreateAdminUser(c, p)
      PROVE  \A d \in Call : call'[d] = call[d] \/ Arrives(d)
  <2>1. Arrives(c)
      BY <1>3 DEF Arrives, CallTypes, CreateAdminUser, Exists, Begins, At
  <2>q. QED
      BY <2>1 DEF Arrives
<1>4. ASSUME NEW c \in Call, NEW p \in Person, NEW portal \in Portals, PasswordLogin(c, p, portal)
      PROVE  \A d \in Call : call'[d] = call[d] \/ Arrives(d)
  <2>1. Arrives(c)
      BY <1>4 DEF Arrives, CallTypes, PasswordLogin, Exists, Begins, At
  <2>q. QED
      BY <2>1 DEF Arrives
<1>5. ASSUME NEW c \in Call, NEW k \in DOMAIN codes, ResendReads(c, k)
      PROVE  \A d \in Call : call'[d] = call[d] \/ Arrives(d)
  <2>1. Arrives(c)
      BY <1>5 DEF Arrives, CallTypes, ResendReads, Begins, At
  <2>q. QED
      BY <2>1 DEF Arrives
<1>6. ASSUME NEW c \in Call, NEW k \in DOMAIN codes, VerifyCode(c, k)
      PROVE  \A d \in Call : call'[d] = call[d] \/ Arrives(d)
  <2>1. Arrives(c)
      BY <1>6 DEF Arrives, CallTypes, VerifyCode, Exists, At, Nothing
  <2>q. QED
      BY <2>1 DEF Arrives
<1>7. ASSUME NEW c \in Call, NEW i \in DOMAIN tokens, RotateReads(c, i)
      PROVE  \A d \in Call : call'[d] = call[d] \/ Arrives(d)
  <2>1. Arrives(c)
      BY <1>7 DEF Arrives, CallTypes, RotateReads, Begins, At
  <2>q. QED
      BY <2>1 DEF Arrives
<1>8. ASSUME NEW c \in Call, NEW l \in DOMAIN links, ResetRevokes(c, l)
      PROVE  \A d \in Call : call'[d] = call[d] \/ Arrives(d)
  <2>1. Arrives(c)
      BY <1>8 DEF Arrives, CallTypes, ResetRevokes, Begins, Unrevoked, At
  <2>q. QED
      BY <2>1 DEF Arrives
<1>9. ASSUME NEW c \in Call, ConsumeOpenCodes(c)
      PROVE  \A d \in Call : call'[d] = call[d] \/ Arrives(d)
  <2>1. Arrives(c)
      BY <1>9 DEF Arrives, CallTypes, ConsumeOpenCodes, At
  <2>q. QED
      BY <2>1 DEF Arrives
<1>10. ASSUME NEW c \in Call, InsertCode(c) PROVE \A d \in Call : call'[d] = call[d] \/ Arrives(d)
  <2>1. Arrives(c)
      BY <1>10 DEF Arrives, CallTypes, InsertCode, At, Ends, Nothing
  <2>q. QED
      BY <2>1 DEF Arrives
<1>11. ASSUME NEW c \in Call, ResendWrites(c) PROVE \A d \in Call : call'[d] = call[d] \/ Arrives(d)
  <2>1. Arrives(c)
      BY <1>11 DEF Arrives, CallTypes, ResendWrites, At, Ends, Nothing
  <2>q. QED
      BY <2>1 DEF Arrives
<1>12. ASSUME NEW c \in Call, GoogleCreates(c)
       PROVE  \A d \in Call : call'[d] = call[d] \/ Arrives(d)
  <2>1. call'[c].at \in {"idle", "linking"} /\ \A d \in Call \ {c} : call'[d] = call[d]
    <3>1. CASE Exists(call[c].who)
        BY <1>12, <3>1 DEF CallTypes, GoogleCreates, Ends, Nothing
    <3>2. CASE ~Exists(call[c].who)
        BY <1>12, <3>2 DEF CallTypes, CallState, GoogleCreates
    <3>q. QED
        BY <3>1, <3>2
  <2>q. QED
      BY <1>12, <2>1 DEF Arrives
<1>13. ASSUME NEW c \in Call, GoogleLinks(c) PROVE \A d \in Call : call'[d] = call[d] \/ Arrives(d)
  <2>1. call'[c].at \in {"idle", "entering"} /\ \A d \in Call \ {c} : call'[d] = call[d]
      BY <1>13 DEF CallTypes, CallState, GoogleLinks, Moves, Ends, Nothing
  <2>q. QED
      BY <1>13, <2>1 DEF Arrives
<1>14. ASSUME NEW c \in Call, CreateSession(c)
       PROVE  \A d \in Call : call'[d] = call[d] \/ Arrives(d)
  <2>1. Arrives(c)
      BY <1>14 DEF Arrives, CallTypes, CreateSession, At, Present, Ends, Nothing
  <2>q. QED
      BY <2>1 DEF Arrives
<1>15. ASSUME NEW c \in Call, RotateCommits(c)
       PROVE  \A d \in Call : call'[d] = call[d] \/ Arrives(d)
  <2>1. Arrives(c)
      BY <1>15 DEF Arrives, CallTypes, RotateCommits, At, Ends, Nothing
  <2>q. QED
      BY <2>1 DEF Arrives
<1>16. ASSUME NEW c \in Call, ResetCommits(c) PROVE \A d \in Call : call'[d] = call[d] \/ Arrives(d)
  <2>1. Arrives(c)
      BY <1>16 DEF Arrives, CallTypes, ResetCommits, At, Ends, Unrevoked, Nothing
  <2>q. QED
      BY <2>1 DEF Arrives
<1>17. ASSUME NEW c \in Call, AdminUserInserted(c)
       PROVE  \A d \in Call : call'[d] = call[d] \/ Arrives(d)
  <2>1. Arrives(c)
      BY <1>17 DEF Arrives, CallTypes, AdminUserInserted, At, Exists, Ends, Nothing
  <2>q. QED
      BY <2>1 DEF Arrives
<1>18. ASSUME NEW c \in Call, CallDies(c) PROVE \A d \in Call : call'[d] = call[d] \/ Arrives(d)
  <2>1. Arrives(c)
      BY <1>18 DEF Arrives, CallTypes, CallDies, At, Ends, Nothing
  <2>q. QED
      BY <2>1 DEF Arrives
<1>19. CASE UNCHANGED call
    BY <1>19
<1>q. QED
    BY <1>1, <1>2, <1>3, <1>4, <1>5, <1>6, <1>7, <1>8, <1>9, <1>10, <1>11, <1>12, <1>13, <1>14,
       <1>15, <1>16, <1>17, <1>18, <1>19
       DEF AccountsNext, accountsVars, accountsHistory, CodeAges, Logout, TokenExpires,
           LinkExpires, RequestPasswordReset, UpdateUserRole, DeleteUser, Begins, Ends, Moves

\* All that the steps of the proof below go by.
Advance ==
    /\ RowTypes /\ CallTypes /\ RowTypes' /\ CallTypes' /\ [AccountsNext]_accountsVars
    /\ TokensGoOn /\ CodesGoOn /\ LinksGoOn /\ AccountsGoOn
    /\ \A d \in Call : call'[d] = call[d] \/ Arrives(d)

\* Every step is an advance, which is what the steps below reason from.
LEMMA EveryStepAdvances ==
    ASSUME AccountInv, [AccountsNext]_accountsVars PROVE Advance
BY TablesGoOn, NextRowTypes, NextCallTypes, AccountsAdvance, CallsAdvance DEF AccountInv, Advance

\* Who writes the tokens.
LEMMA WhoWritesTokens ==
    ASSUME [AccountsNext]_accountsVars
    PROVE  \/ tokens' = tokens
           \/ \E c \in Call : CreateSession(c) \/ RotateCommits(c) \/ ResetCommits(c)
           \/ \E i \in DOMAIN tokens : Logout(i) \/ TokenExpires(i)
           \/ \E p \in Person : DeleteUser(p)
<1>1. ASSUME NEW c \in Call, NEW p \in Person,
             RequestRegistration(c, p) \/ GoogleLogin(c, p) \/ CreateAdminUser(c, p)
      PROVE  tokens' = tokens
    BY <1>1 DEF RequestRegistration, GoogleLogin, CreateAdminUser
<1>2. ASSUME NEW c \in Call, NEW p \in Person, NEW portal \in Portals, PasswordLogin(c, p, portal)
      PROVE  tokens' = tokens
    BY <1>2 DEF PasswordLogin
<1>3. ASSUME NEW c \in Call, NEW k \in DOMAIN codes, ResendReads(c, k) \/ VerifyCode(c, k)
      PROVE  tokens' = tokens
    BY <1>3 DEF ResendReads, VerifyCode
<1>4. ASSUME NEW c \in Call, NEW i \in DOMAIN tokens, RotateReads(c, i) PROVE tokens' = tokens
    BY <1>4 DEF RotateReads
<1>5. ASSUME NEW c \in Call, NEW l \in DOMAIN links, ResetRevokes(c, l) PROVE tokens' = tokens
    BY <1>5 DEF ResetRevokes
<1>6. ASSUME NEW c \in Call, ConsumeOpenCodes(c) \/ InsertCode(c) \/ ResendWrites(c)
      PROVE  tokens' = tokens
    BY <1>6 DEF ConsumeOpenCodes, InsertCode, ResendWrites
<1>7. ASSUME NEW c \in Call,
             GoogleCreates(c) \/ GoogleLinks(c) \/ AdminUserInserted(c) \/ CallDies(c)
      PROVE  tokens' = tokens
    BY <1>7 DEF GoogleCreates, GoogleLinks, AdminUserInserted, CallDies
<1>8. ASSUME NEW k \in DOMAIN codes, CodeAges(k) PROVE tokens' = tokens
    BY <1>8 DEF CodeAges
<1>9. ASSUME NEW l \in DOMAIN links, LinkExpires(l) PROVE tokens' = tokens
    BY <1>9 DEF LinkExpires
<1>10. ASSUME NEW p \in Person, RequestPasswordReset(p) \/ UpdateUserRole(p) PROVE tokens' = tokens
    BY <1>10 DEF RequestPasswordReset, UpdateUserRole
<1>q. QED
    BY <1>1, <1>2, <1>3, <1>4, <1>5, <1>6, <1>7, <1>8, <1>9, <1>10 DEF AccountsNext, accountsVars

\* A token is added by a login or a rotation, and else none.
LEMMA TokensCome ==
    ASSUME Advance, NEW i \in DOMAIN tokens', i \notin DOMAIN tokens
    PROVE  /\ i = Len(tokens) + 1
           /\ \/ \E c \in Call : /\ CreateSession(c) /\ Present(c)
                                 /\ TokenAdded(tokens, Token(c, Len(tokens) + 1))
              \/ \E c \in Call : /\ RotateCommits(c) /\ call[c].row \in DOMAIN tokens
                                 /\ TokenAdded([tokens EXCEPT ![call[c].row].is = "revoked"],
                                               Token(c, tokens[call[c].row].family))
<1>1. tokens' # tokens
    OBVIOUS
<1>2. \/ \E c \in Call : CreateSession(c) \/ RotateCommits(c) \/ ResetCommits(c)
      \/ \E j \in DOMAIN tokens : Logout(j) \/ TokenExpires(j)
      \/ \E p \in Person : DeleteUser(p)
    BY <1>1, WhoWritesTokens DEF Advance
<1>3. \E c \in Call : CreateSession(c) \/ RotateCommits(c)
    BY <1>2, TokensChange DEF Advance
<1>4. ASSUME NEW c \in Call, CreateSession(c)
      PROVE  Present(c) /\ TokenAdded(tokens, Token(c, Len(tokens) + 1))
    BY <1>1, <1>4, SessionAdded DEF Advance, CreateSession
<1>5. ASSUME NEW c \in Call, RotateCommits(c)
      PROVE  /\ call[c].row \in DOMAIN tokens
             /\ TokenAdded([tokens EXCEPT ![call[c].row].is = "revoked"],
                           Token(c, tokens[call[c].row].family))
    BY <1>5, TokenReplaced DEF Advance
<1>6. DOMAIN tokens' = DOMAIN tokens \union {Len(tokens) + 1}
  <2>1. PICK c \in Call : CreateSession(c) \/ RotateCommits(c)
      BY <1>3
  <2>2. CASE CreateSession(c)
      BY <1>4, <2>2 DEF TokenAdded
  <2>3. CASE RotateCommits(c)
      BY <1>5, <2>3 DEF TokenAdded
  <2>q. QED
      BY <2>1, <2>2, <2>3
<1>q. QED
    BY <1>3, <1>4, <1>5, <1>6

\* A token that a rotation holds, and goes on holding, is left alone.
LEMMA LockedStays ==
    ASSUME AccountInv, Advance, NEW c \in Call, At(c, "rotating"), call'[c] = call[c]
    PROVE  tokens'[call[c].row] = tokens[call[c].row]
<1>1. call[c].row \in DOMAIN tokens /\ LockedToken(call[c].row)
    BY DEF Advance, CallTypes, Sound, At, LockedToken
<1>2. ASSUME NEW i \in DOMAIN tokens, Logout(i) \/ TokenExpires(i)
      PROVE  tokens'[call[c].row] = tokens[call[c].row]
    BY <1>1, <1>2 DEF Logout, TokenExpires
<1>3. ASSUME NEW p \in Person, DeleteUser(p) PROVE tokens'[call[c].row] = tokens[call[c].row]
    BY <1>1, <1>3 DEF DeleteUser
<1>4. ASSUME NEW d \in Call, ResetCommits(d) PROVE tokens'[call[c].row] = tokens[call[c].row]
    BY <1>1, <1>4, TokensChange DEF ResetCommits, Advance
<1>5. ASSUME NEW d \in Call, CreateSession(d) PROVE tokens'[call[c].row] = tokens[call[c].row]
    BY <1>1, <1>5, SessionAdded DEF TokenAdded, Advance, CreateSession
<1>6. ASSUME NEW d \in Call, RotateCommits(d) PROVE tokens'[call[c].row] = tokens[call[c].row]
  <2>1. call'[d].at = "idle"
      BY <1>6 DEF RotateCommits, Ends, Nothing, Advance, CallTypes
  <2>2. d # c /\ call[d].row # call[c].row
      BY <1>6, <2>1 DEF RotateCommits, At, AccountInv, RotationsHold
  <2>3. TokenAdded([tokens EXCEPT ![call[d].row].is = "revoked"],
                   Token(d, tokens[call[d].row].family))
      BY <1>6, TokenReplaced DEF Advance
  <2>q. QED
      BY <1>1, <2>2, <2>3 DEF TokenAdded
<1>7. CASE tokens' = tokens
    BY <1>7
<1>q. QED
    BY <1>2, <1>3, <1>4, <1>5, <1>6, <1>7, WhoWritesTokens DEF Advance

\* What a request that is replaced by its session, or its new token, says of it.
LEMMA TokenFields ==
    ASSUME NEW c, NEW family
    PROVE  /\ Token(c, family).who = call[c].who /\ Token(c, family).id = call[c].id
           /\ Token(c, family).portal = call[c].portal /\ Token(c, family).family = family
           /\ Token(c, family).is = "live"
BY DEF Token

-----------------------------------------------------------------------------
(* Accounts: every step keeps the invariant *)

\* No request is of an account of the future.
LEMMA NewCallsNumbered ==
    ASSUME RowTypes, CallTypes, Numbered, [AccountsNext]_accountsVars
    PROVE  \A d \in Call : call'[d] = call[d] \/ call'[d].id <= accounts'
<1>0. /\ accounts \in Nat /\ accounts' \in Nat /\ accounts <= accounts'
      /\ \A c \in Call : call[c].id \in Nat /\ call[c].id <= accounts
      /\ \A p \in Person : account[p].id \in Nat /\ account[p].id <= accounts
    BY AccountsAdvance, NextRowTypes DEF RowTypes, CallTypes, CallState, Numbered, AccountsGoOn
<1>1. ASSUME NEW c \in Call, NEW p \in Person, RequestRegistration(c, p)
      PROVE  \A d \in Call : call'[d] = call[d] \/ call'[d].id <= accounts'
  <2>1. p \in Person /\ accounts' = accounts
      BY <1>1, Rows DEF RequestRegistration, CodeRow, TokenRow, LinkRow, accountsHistory
  <2>q. QED
      BY <1>1, <1>0, <2>1 DEF CallTypes, Begins, RequestRegistration
<1>2. ASSUME NEW c \in Call, NEW p \in Person, GoogleLogin(c, p)
      PROVE  \A d \in Call : call'[d] = call[d] \/ call'[d].id <= accounts'
  <2>1. p \in Person /\ accounts' = accounts
      BY <1>2, Rows DEF GoogleLogin, CodeRow, TokenRow, LinkRow, accountsHistory
  <2>q. QED
      BY <1>2, <1>0, <2>1 DEF CallTypes, Begins, GoogleLogin
<1>3. ASSUME NEW c \in Call, NEW p \in Person, CreateAdminUser(c, p)
      PROVE  \A d \in Call : call'[d] = call[d] \/ call'[d].id <= accounts'
  <2>1. p \in Person /\ accounts' = accounts
      BY <1>3, Rows DEF CreateAdminUser, CodeRow, TokenRow, LinkRow, accountsHistory
  <2>q. QED
      BY <1>3, <1>0, <2>1 DEF CallTypes, Begins, CreateAdminUser
<1>4. ASSUME NEW c \in Call, NEW p \in Person, NEW portal \in Portals, PasswordLogin(c, p, portal)
      PROVE  \A d \in Call : call'[d] = call[d] \/ call'[d].id <= accounts'
  <2>1. p \in Person /\ accounts' = accounts
      BY <1>4, Rows DEF PasswordLogin, CodeRow, TokenRow, LinkRow, accountsHistory
  <2>q. QED
      BY <1>4, <1>0, <2>1 DEF CallTypes, Begins, PasswordLogin
<1>5. ASSUME NEW c \in Call, NEW k \in DOMAIN codes, ResendReads(c, k)
      PROVE  \A d \in Call : call'[d] = call[d] \/ call'[d].id <= accounts'
  <2>1. codes[k].who \in Person /\ accounts' = accounts
      BY <1>5, Rows DEF ResendReads, CodeRow, TokenRow, LinkRow, accountsHistory
  <2>q. QED
      BY <1>5, <1>0, <2>1 DEF CallTypes, Begins, ResendReads
<1>6. ASSUME NEW c \in Call, NEW k \in DOMAIN codes, VerifyCode(c, k)
      PROVE  \A d \in Call : call'[d] = call[d] \/ call'[d].id <= accounts'
    BY <1>6, <1>0 DEF CallTypes, CallState, VerifyCode, Nothing, MakeAccount
<1>7. ASSUME NEW c \in Call, NEW i \in DOMAIN tokens, RotateReads(c, i)
      PROVE  \A d \in Call : call'[d] = call[d] \/ call'[d].id <= accounts'
  <2>1. tokens[i].who \in Person /\ accounts' = accounts
      BY <1>7, Rows DEF RotateReads, CodeRow, TokenRow, LinkRow, accountsHistory
  <2>q. QED
      BY <1>7, <1>0, <2>1 DEF CallTypes, Begins, RotateReads
<1>8. ASSUME NEW c \in Call, NEW l \in DOMAIN links, ResetRevokes(c, l)
      PROVE  \A d \in Call : call'[d] = call[d] \/ call'[d].id <= accounts'
  <2>1. links[l].who \in Person /\ accounts' = accounts
      BY <1>8, Rows DEF ResetRevokes, CodeRow, TokenRow, LinkRow, accountsHistory
  <2>q. QED
      BY <1>8, <1>0, <2>1 DEF CallTypes, Begins, ResetRevokes
<1>9. ASSUME NEW c \in Call, ConsumeOpenCodes(c)
      PROVE  \A d \in Call : call'[d] = call[d] \/ call'[d].id <= accounts'
    BY <1>9, <1>0 DEF CallTypes, CallState, ConsumeOpenCodes, MakeAccount
<1>10. ASSUME NEW c \in Call, InsertCode(c)
       PROVE  \A d \in Call : call'[d] = call[d] \/ call'[d].id <= accounts'
    BY <1>10, <1>0 DEF CallTypes, Ends, Nothing, InsertCode
<1>11. ASSUME NEW c \in Call, ResendWrites(c)
       PROVE  \A d \in Call : call'[d] = call[d] \/ call'[d].id <= accounts'
    BY <1>11, <1>0 DEF CallTypes, Ends, Nothing, ResendWrites
<1>12. ASSUME NEW c \in Call, GoogleCreates(c)
       PROVE  \A d \in Call : call'[d] = call[d] \/ call'[d].id <= accounts'
    BY <1>12, <1>0 DEF CallTypes, CallState, GoogleCreates, Ends, Nothing, MakeAccount
<1>13. ASSUME NEW c \in Call, GoogleLinks(c)
       PROVE  \A d \in Call : call'[d] = call[d] \/ call'[d].id <= accounts'
    BY <1>13, <1>0 DEF CallTypes, CallState, GoogleLinks, Moves, Ends, Nothing, MakeAccount
<1>14. ASSUME NEW c \in Call, CreateSession(c)
       PROVE  \A d \in Call : call'[d] = call[d] \/ call'[d].id <= accounts'
    BY <1>14, <1>0 DEF CallTypes, Ends, Nothing, CreateSession
<1>15. ASSUME NEW c \in Call, RotateCommits(c)
       PROVE  \A d \in Call : call'[d] = call[d] \/ call'[d].id <= accounts'
    BY <1>15, <1>0 DEF CallTypes, Ends, Nothing, RotateCommits
<1>16. ASSUME NEW c \in Call, ResetCommits(c)
       PROVE  \A d \in Call : call'[d] = call[d] \/ call'[d].id <= accounts'
    BY <1>16, <1>0 DEF CallTypes, Ends, Nothing, ResetCommits
<1>17. ASSUME NEW c \in Call, AdminUserInserted(c)
       PROVE  \A d \in Call : call'[d] = call[d] \/ call'[d].id <= accounts'
    BY <1>17, <1>0 DEF CallTypes, Ends, Nothing, AdminUserInserted
<1>18. ASSUME NEW c \in Call, CallDies(c)
       PROVE  \A d \in Call : call'[d] = call[d] \/ call'[d].id <= accounts'
    BY <1>18, <1>0 DEF CallTypes, Ends, Nothing, CallDies
<1>19. CASE UNCHANGED call
    BY <1>19
<1>q. QED
    BY <1>1, <1>2, <1>3, <1>4, <1>5, <1>6, <1>7, <1>8, <1>9, <1>10, <1>11, <1>12, <1>13, <1>14,
       <1>15, <1>16, <1>17, <1>18, <1>19
       DEF AccountsNext, accountsVars, accountsHistory, CodeAges, Logout, TokenExpires,
           LinkExpires, RequestPasswordReset, UpdateUserRole, DeleteUser, Begins, Ends, Moves

\* Numbers of accounts.
LEMMA NextNumbered == AccountInv /\ Advance => Numbered'
<1> SUFFICES ASSUME AccountInv, Advance PROVE Numbered'
    OBVIOUS
<1>0. /\ NoAccount.id = 0 /\ NoAccount.role = "user"
      /\ accounts \in Nat /\ accounts' \in Nat /\ accounts <= accounts'
      /\ \A p \in Person : account[p].id \in Nat /\ account[p].id <= accounts
    BY DEF NoAccount, Advance, RowTypes, AccountsGoOn, AccountInv, Numbered
<1>1. ASSUME NEW p \in Person
      PROVE  account'[p].id <= accounts' /\ (account'[p].id = 0 => account'[p].role = "user")
  <2>1. CASE account'[p] = NoAccount
      BY <1>0, <2>1
  <2>2. CASE accounts' = accounts + 1 /\ account'[p].id = accounts + 1
      BY <1>0, <2>2
  <2>3. CASE /\ account'[p].id = account[p].id
             /\ account'[p].role = account[p].role \/ (Exists(p) /\ account[p].id \in switched')
      BY <1>0, <2>3 DEF AccountInv, Numbered, Exists
  <2>q. QED
      BY <2>1, <2>2, <2>3 DEF Advance, AccountsGoOn
<1>2. ASSUME NEW c \in Call PROVE call'[c].id <= accounts'
  <2>1. CASE call'[c] = call[c]
      BY <1>0, <2>1 DEF AccountInv, Numbered, Advance, CallTypes, CallState
  <2>2. CASE call'[c] # call[c]
      BY <1>0, <2>2, NewCallsNumbered DEF AccountInv, Advance
  <2>q. QED
      BY <2>1, <2>2
<1>3. ASSUME NEW i \in DOMAIN tokens' PROVE tokens'[i].id <= accounts'
  <2>1. CASE i \in DOMAIN tokens
      BY <1>0, <2>1, Rows DEF AccountInv, Numbered, Advance, TokensGoOn, TokenRow
  <2>2. CASE i \notin DOMAIN tokens
    <3>1. \E c \in Call : tokens'[i].id = call[c].id
      <4>1. i = Len(tokens) + 1
          BY <2>2, TokensCome
      <4>2. ASSUME NEW c \in Call, NEW family, NEW before, TokenAdded(before, Token(c, family))
            PROVE  tokens'[i].id = call[c].id
          BY <4>1, <4>2, TokenFields DEF TokenAdded
      <4>q. QED
          BY <2>2, <4>2, TokensCome
    <3>q. QED
        BY <1>0, <3>1 DEF AccountInv, Numbered, Advance, CallTypes, CallState, RowTypes
  <2>q. QED
      BY <2>1, <2>2
<1>q. QED
    BY <1>1, <1>2, <1>3 DEF Numbered, Exists

\* Families of tokens.
LEMMA NextFamilies == AccountInv /\ Advance => Families'
<1> SUFFICES ASSUME AccountInv, Advance PROVE Families'
    OBVIOUS
<1>0. TokensGoOn /\ Families
    BY DEF Advance, AccountInv
<1>1. ended' \subseteq DOMAIN tokens
  <2>1. ASSUME NEW c \in Call, ResetCommits(c) PROVE ended' \subseteq DOMAIN tokens
    <3>1. call[c].seen \subseteq DOMAIN tokens
        BY <2>1 DEF AccountInv, ResetsHold, ResetCommits
    <3>q. QED
        BY <1>0, <2>1, <3>1 DEF ResetCommits, Families
  <2>2. CASE ended' = ended
      BY <1>0, <2>2 DEF Families
  <2>q. QED
      BY <2>1, <2>2, WhoWritesEnded DEF Advance
<1>2. CASE DOMAIN tokens' = DOMAIN tokens
    BY <1>0, <1>1, <1>2 DEF Families, TokensGoOn
<1>3. CASE DOMAIN tokens' # DOMAIN tokens
  <2>1. PICK i \in DOMAIN tokens' : i \notin DOMAIN tokens
      BY <1>0, <1>3 DEF TokensGoOn
  <2>2. i = Len(tokens) + 1 /\ DOMAIN tokens' = DOMAIN tokens \union {i}
      BY <2>1, TokensCome DEF TokenAdded
  <2>3. \/ tokens'[i].family = i
        \/ \E j \in DOMAIN tokens : /\ tokens'[i].family = tokens[j].family
                                   /\ tokens'[i].who = tokens[j].who
    <3>1. ASSUME NEW c \in Call, CreateSession(c), TokenAdded(tokens, Token(c, Len(tokens) + 1))
          PROVE  tokens'[i].family = i
        BY <2>2, <3>1, TokenFields DEF TokenAdded
    <3>2. ASSUME NEW c \in Call, RotateCommits(c), call[c].row \in DOMAIN tokens,
                 TokenAdded([tokens EXCEPT ![call[c].row].is = "revoked"],
                            Token(c, tokens[call[c].row].family))
          PROVE  \E j \in DOMAIN tokens : /\ tokens'[i].family = tokens[j].family
                                         /\ tokens'[i].who = tokens[j].who
      <4>1. call[c].who = tokens[call[c].row].who
          BY <3>2 DEF RotateCommits, AccountInv, RotationsHold
      <4>q. QED
          BY <2>2, <3>2, <4>1, TokenFields DEF TokenAdded
    <3>q. QED
        BY <2>1, <3>1, <3>2, TokensCome
  <2>4. \A j \in DOMAIN tokens : tokens'[j].family \in DOMAIN tokens
      BY <1>0 DEF Families, TokensGoOn
  <2>5. \A j, k \in DOMAIN tokens :
            tokens'[j].family = tokens'[k].family => tokens'[j].who = tokens'[k].who
      BY <1>0 DEF Families, TokensGoOn
  <2>6. tokens'[i].family \in DOMAIN tokens'
      BY <1>0, <2>2, <2>3 DEF Families
  <2>7. \A j \in DOMAIN tokens :
            tokens'[j].family = tokens'[i].family => tokens'[j].who = tokens'[i].who
      BY <1>0, <2>1, <2>3, <2>4 DEF Families, TokensGoOn
  <2>q. QED
      BY <1>1, <2>2, <2>4, <2>5, <2>6, <2>7 DEF Families
<1>q. QED
    BY <1>2, <1>3

\* Rotations under way.
LEMMA NextRotationsHold == AccountInv /\ Advance => RotationsHold'
<1> SUFFICES ASSUME AccountInv, Advance, NEW c \in Call, call'[c].at = "rotating"
             PROVE  /\ tokens'[call'[c].row].is = "live"
                    /\ call'[c].who = tokens'[call'[c].row].who
                    /\ call'[c].id = tokens'[call'[c].row].id
                    /\ call'[c].portal = tokens'[call'[c].row].portal
                    /\ \A d \in Call :
                          call'[d].at = "rotating" /\ call'[d].row = call'[c].row => c = d
    BY DEF RotationsHold, At
<1>1. ASSUME NEW d \in Call, call'[d].at = "rotating", call'[d] # call[d]
      PROVE  /\ tokens' = tokens /\ call'[d].row \in DOMAIN tokens
             /\ tokens[call'[d].row].is = "live" /\ ~LockedToken(call'[d].row)
             /\ call'[d].who = tokens[call'[d].row].who
             /\ call'[d].id = tokens[call'[d].row].id
             /\ call'[d].portal = tokens[call'[d].row].portal
  <2>1. PICK i \in DOMAIN tokens : RotateReads(d, i)
      BY <1>1 DEF Advance, Arrives
  <2>2. call'[d] = [at |-> "rotating", who |-> tokens[i].who, id |-> account[tokens[i].who].id,
                    row |-> i, portal |-> tokens[i].portal, seen |-> {}]
      BY <2>1 DEF RotateReads, Begins, Advance, CallTypes
  <2>3. account[tokens[i].who].id = tokens[i].id
      BY <2>1 DEF RotateReads, AccountInv, TokensFitTheirAccount
  <2>q. QED
      BY <2>1, <2>2, <2>3 DEF RotateReads
<1>2. ASSUME NEW d \in Call, call'[d].at = "rotating", call'[d] = call[d]
      PROVE  /\ tokens'[call[d].row] = tokens[call[d].row]
             /\ tokens[call[d].row].is = "live" /\ LockedToken(call[d].row)
             /\ call[d].who = tokens[call[d].row].who
             /\ call[d].id = tokens[call[d].row].id
             /\ call[d].portal = tokens[call[d].row].portal
    BY <1>2, LockedStays DEF AccountInv, RotationsHold, LockedToken, At
<1>3. ASSUME NEW d \in Call, call'[d].at = "rotating", call'[d].row = call'[c].row
      PROVE  c = d
  <2>1. CASE call'[c] = call[c] /\ call'[d] = call[d]
      BY <1>3, <2>1 DEF AccountInv, RotationsHold, At
  <2>2. CASE call'[c] # call[c] \/ call'[d] # call[d]
    <3>1. CASE call'[c] # call[c] /\ call'[d] # call[d]
        BY <3>1 DEF Advance, Arrives
    <3>q. QED
        BY <1>1, <1>2, <1>3, <2>2, <3>1
  <2>q. QED
      BY <2>1, <2>2
<1>4. \A d \in Call : call'[d].at = "rotating" /\ call'[d].row = call'[c].row => c = d
    BY <1>3
<1>5. CASE call'[c] = call[c]
  <2>1. tokens'[call'[c].row] = tokens[call[c].row]
      BY <1>2, <1>5
  <2>q. QED
      BY <1>2, <1>4, <1>5, <2>1
<1>6. CASE call'[c] # call[c]
  <2>1. tokens'[call'[c].row] = tokens[call'[c].row]
      BY <1>1, <1>6
  <2>q. QED
      BY <1>1, <1>4, <1>6, <2>1
<1>q. QED
    BY <1>5, <1>6

\* Resets under way.
LEMMA NextResetsHold == AccountInv /\ Advance => ResetsHold'
<1> SUFFICES ASSUME AccountInv, Advance, NEW c \in Call, call'[c].at = "resetting"
             PROVE  /\ call'[c].seen \subseteq DOMAIN tokens'
                    /\ \A i \in call'[c].seen : tokens'[i].who = call'[c].who
    BY DEF ResetsHold, At
<1>1. call'[c].seen \subseteq DOMAIN tokens /\ \A i \in call'[c].seen : tokens[i].who = call'[c].who
  <2>1. CASE call'[c] = call[c]
      BY <2>1 DEF AccountInv, ResetsHold, At
  <2>2. CASE call'[c] # call[c]
    <3>1. PICK l \in DOMAIN links : ResetRevokes(c, l)
        BY <2>2 DEF Advance, Arrives
    <3>2. call'[c].who = links[l].who /\ call'[c].seen = Unrevoked(links[l].who)
        BY <3>1 DEF ResetRevokes, Begins, Advance, CallTypes
    <3>q. QED
        BY <3>2 DEF Unrevoked
  <2>q. QED
      BY <2>1, <2>2
<1>q. QED
    BY <1>1 DEF Advance, TokensGoOn

\* An account somebody has seen is still there only if it is the one that was seen.
LEMMA SeenAccountStays ==
    ASSUME AccountInv, Advance, NEW p \in Person, NEW id \in Nat, id # 0, id <= accounts,
           account'[p].id = id
    PROVE  account[p].id = id /\ (account'[p].role = account[p].role \/ id \in switched')
<1>1. NoAccount.id = 0 /\ accounts \in Nat /\ id # accounts + 1
    BY DEF NoAccount, Advance, RowTypes
<1>q. QED
    BY <1>1 DEF Advance, AccountsGoOn

\* Logins under way.
LEMMA NextLoginsHold == AccountInv /\ Advance => LoginsHold'
<1> DEFINE Holds(r) ==
       /\ r.at = "creating" => r.portal = "user"
       /\ r.at = "linking" \/ r.at = "entering" => r.id # 0
       /\ r.at = "linking" /\ account[r.who].id = r.id =>
             r.id \in switched \/ account[r.who].role = r.portal
       /\ r.at = "entering" /\ account[r.who].id = r.id =>
             r.id \in switched \/ PortalAccess(account[r.who].role, r.portal)
<1>1. LoginsHold <=> \A c \in Call : Holds(call[c])
    BY DEF LoginsHold, At, Present
<1>2. SUFFICES ASSUME AccountInv, Advance, NEW c \in Call PROVE Holds(call[c])'
    BY DEF LoginsHold, At, Present
<1>3. Holds(call[c]) /\ switched \subseteq switched'
    BY <1>1, <1>2 DEF AccountInv, Advance, AccountsGoOn
<1>4. CASE call'[c] = call[c]
  <2>1. CASE call[c].at \notin {"linking", "entering"}
      BY <1>3, <1>4, <2>1
  <2>2. CASE call[c].at \in {"linking", "entering"} /\ account'[call[c].who].id = call[c].id
    <3>1. call[c].who \in Person /\ call[c].id \in Nat /\ call[c].id <= accounts /\ call[c].id # 0
        BY <1>2, <1>3, <2>2 DEF Advance, CallTypes, CallState, Sound, AccountInv, Numbered
    <3>2. /\ account[call[c].who].id = call[c].id
          /\ \/ account'[call[c].who].role = account[call[c].who].role
             \/ call[c].id \in switched'
        BY <1>2, <2>2, <3>1, SeenAccountStays
    <3>q. QED
        BY <1>3, <1>4, <2>2, <3>1, <3>2
  <2>3. CASE call[c].at \in {"linking", "entering"} /\ account'[call[c].who].id # call[c].id
      BY <1>3, <1>4, <2>3
  <2>q. QED
      BY <2>1, <2>2, <2>3
<1>5. CASE call'[c] # call[c]
  <2>0. Arrives(c)
      BY <1>2, <1>5 DEF Advance
  <2>1. ASSUME NEW p \in Person, GoogleLogin(c, p) PROVE Holds(call[c])'
    <3>1. /\ call'[c].at = IF Exists(p) THEN "linking" ELSE "creating"
          /\ call'[c].who = p /\ call'[c].id = account[p].id /\ call'[c].portal = account[p].role
          /\ account' = account
        BY <1>2, <2>1 DEF GoogleLogin, Begins, Advance, CallTypes
    <3>q. QED
        BY <1>2, <3>1 DEF Exists, AccountInv, Numbered
  <2>2. ASSUME NEW p \in Person, NEW portal \in Portals, PasswordLogin(c, p, portal)
        PROVE  Holds(call[c])'
    <3>1. /\ call'[c].at = "entering" /\ call'[c].who = p /\ call'[c].id = account[p].id
          /\ call'[c].portal = portal /\ account' = account
        BY <1>2, <2>2 DEF PasswordLogin, Begins, Advance, CallTypes
    <3>q. QED
        BY <2>2, <3>1 DEF Exists, PasswordLogin
  <2>3. ASSUME NEW k \in DOMAIN codes, VerifyCode(c, k) PROVE Holds(call[c])'
    <3>1. /\ call'[c].at = "entering" /\ call'[c].who = codes[k].who
          /\ call'[c].id = accounts + 1 /\ call'[c].portal = "user" /\ codes[k].who \in Person
        BY <1>2, <2>3, Rows DEF VerifyCode, Nothing, Advance, CallTypes, CodeRow
    <3>2. account'[codes[k].who].role = "user" /\ accounts + 1 # 0
        BY <1>2, <2>3, <3>1 DEF VerifyCode, MakeAccount, Advance, RowTypes
    <3>q. QED
        BY <3>1, <3>2 DEF PortalAccess
  <2>4. ASSUME GoogleCreates(c), call'[c].at = "linking" PROVE Holds(call[c])'
    <3>1. ~Exists(call[c].who)
      <4>1. CASE Exists(call[c].who)
        <5>1. call' = [call EXCEPT ![c] = Nothing]
            BY <2>4, <4>1 DEF GoogleCreates, Ends
        <5>q. QED
            BY <1>2, <2>4, <5>1 DEF Nothing, Advance, CallTypes
      <4>q. QED
          BY <4>1
    <3>2. /\ call'[c].who = call[c].who /\ call'[c].id = accounts + 1
          /\ call'[c].portal = call[c].portal /\ call[c].who \in Person
        BY <1>2, <2>4, <3>1 DEF GoogleCreates, At, Advance, CallTypes, CallState, Sound
    <3>3. account'[call[c].who].role = "user" /\ accounts + 1 # 0
        BY <1>2, <2>4, <3>1, <3>2 DEF GoogleCreates, MakeAccount, Advance, RowTypes
    <3>4. call[c].portal = "user"
        BY <1>3, <2>4 DEF GoogleCreates, At
    <3>q. QED
        BY <2>4, <3>2, <3>3, <3>4
  <2>5. ASSUME GoogleLinks(c), call'[c].at = "entering" PROVE Holds(call[c])'
    <3>1. Present(c) /\ PortalAccess(call[c].portal, "user")
        BY <1>2, <2>5 DEF GoogleLinks, Ends, Nothing, Advance, CallTypes
    <3>2. /\ call'[c].who = call[c].who /\ call'[c].id = call[c].id
          /\ call'[c].portal = call[c].portal /\ call[c].who \in Person
          /\ call[c].portal \in Portals
        BY <1>2, <2>5, <3>1 DEF GoogleLinks, At, Moves, Advance, CallTypes, CallState, Sound
    <3>3. account'[call[c].who].role = account[call[c].who].role
        BY <1>2, <2>5, <3>2 DEF GoogleLinks, Advance, RowTypes
    <3>4. /\ call[c].at = "linking" /\ call[c].id # 0
          /\ call[c].id \in switched \/ account[call[c].who].role = call[c].portal
        BY <1>3, <2>5, <3>1 DEF GoogleLinks, At, Present
    <3>q. QED
        BY <1>3, <2>5, <3>1, <3>2, <3>3, <3>4 DEF PortalAccess, Portals
  <2>6. CASE call'[c].at \notin {"creating", "linking", "entering"}
      BY <2>6
  <2>q. QED
      BY <2>0, <2>1, <2>2, <2>3, <2>4, <2>5, <2>6 DEF Arrives
<1>q. QED
    BY <1>4, <1>5

\* The tokens that can be exchanged: who has a new one.
LEMMA LiveTokensCome ==
    ASSUME AccountInv, Advance, NEW i \in DOMAIN tokens', tokens'[i].is = "live",
           i \notin DOMAIN tokens
    PROVE  /\ i = Len(tokens) + 1 /\ account' = account /\ switched' = switched /\ ended' = ended
           /\ \/ \E c \in Call : /\ At(c, "entering") /\ Present(c) /\ call[c].who \in Person
                                 /\ tokens'[i].who = call[c].who /\ tokens'[i].id = call[c].id
                                 /\ tokens'[i].portal = call[c].portal
                                 /\ tokens'[i].family = Len(tokens) + 1
                                 /\ \A j \in DOMAIN tokens : tokens'[j] = tokens[j]
              \/ \E r \in DOMAIN tokens :
                    /\ tokens[r].is = "live" /\ tokens'[r].is # "live"
                    /\ tokens'[i].who = tokens[r].who /\ tokens'[i].id = tokens[r].id
                    /\ tokens'[i].portal = tokens[r].portal
                    /\ tokens'[i].family = tokens[r].family
<1>1. ASSUME NEW c \in Call, CreateSession(c), Present(c),
             TokenAdded(tokens, Token(c, Len(tokens) + 1)), i = Len(tokens) + 1
      PROVE  /\ account' = account /\ switched' = switched /\ ended' = ended
             /\ At(c, "entering") /\ Present(c) /\ call[c].who \in Person
             /\ tokens'[i].who = call[c].who /\ tokens'[i].id = call[c].id
             /\ tokens'[i].portal = call[c].portal
             /\ tokens'[i].family = Len(tokens) + 1
             /\ \A j \in DOMAIN tokens : tokens'[j] = tokens[j]
  <2>1. /\ tokens'[i] = Token(c, Len(tokens) + 1)
        /\ \A j \in DOMAIN tokens : tokens'[j] = tokens[j]
      BY <1>1 DEF TokenAdded
  <2>2. At(c, "entering") /\ account' = account /\ switched' = switched /\ ended' = ended
      BY <1>1 DEF CreateSession, accountsHistory
  <2>3. call[c].who \in Person
      BY <2>2 DEF Advance, CallTypes, Sound, At
  <2>q. QED
      BY <1>1, <2>1, <2>2, <2>3, TokenFields
<1>2. ASSUME NEW c \in Call, RotateCommits(c), call[c].row \in DOMAIN tokens,
             TokenAdded([tokens EXCEPT ![call[c].row].is = "revoked"],
                        Token(c, tokens[call[c].row].family)), i = Len(tokens) + 1
      PROVE  /\ account' = account /\ switched' = switched /\ ended' = ended
             /\ \E r \in DOMAIN tokens :
                    /\ tokens[r].is = "live" /\ tokens'[r].is # "live"
                    /\ tokens'[i].who = tokens[r].who /\ tokens'[i].id = tokens[r].id
                    /\ tokens'[i].portal = tokens[r].portal
                    /\ tokens'[i].family = tokens[r].family
  <2> DEFINE r == call[c].row
  <2>1. /\ tokens'[i] = Token(c, tokens[r].family)
        /\ tokens'[r] = [tokens EXCEPT ![r].is = "revoked"][r]
      BY <1>2 DEF TokenAdded
  <2>2. At(c, "rotating") /\ account' = account /\ switched' = switched /\ ended' = ended
      BY <1>2 DEF RotateCommits, accountsHistory
  <2>3. /\ tokens[r].is = "live" /\ call[c].who = tokens[r].who
        /\ call[c].id = tokens[r].id /\ call[c].portal = tokens[r].portal
      BY <2>2 DEF AccountInv, RotationsHold
  <2>4. tokens'[r].is = "revoked"
    <3>1. tokens[r] \in TokenRow
        BY <1>2, Rows DEF Advance
    <3>q. QED
        BY <1>2, <2>1, <3>1 DEF TokenRow
  <2>q. QED
      BY <1>2, <2>1, <2>2, <2>3, <2>4, TokenFields
<1>q. QED
    BY <1>1, <1>2, TokensCome

\* A token that can be exchanged is of an account; no family has two; resets end families.
LEMMA NextLiveTokens ==
    AccountInv /\ Advance =>
        LiveTokensExist' /\ FamilyHasOneLiveToken' /\ ResetEndsSessions' /\ TokensFitTheirAccount'
<1> SUFFICES ASSUME AccountInv, Advance
             PROVE  /\ LiveTokensExist' /\ FamilyHasOneLiveToken'
                    /\ ResetEndsSessions' /\ TokensFitTheirAccount'
    OBVIOUS
<1>0. /\ TokensGoOn /\ Families /\ LiveTokensExist /\ FamilyHasOneLiveToken
      /\ ResetEndsSessions /\ TokensFitTheirAccount /\ LoginsHold
    BY DEF AccountInv, Advance
<1>l. Len(tokens) + 1 \notin DOMAIN tokens
    BY DEF Advance, RowTypes
<1>1. LiveTokensExist'
  <2> SUFFICES ASSUME NEW i \in DOMAIN tokens', tokens'[i].is = "live" PROVE tokens'[i].id # 0
      BY DEF LiveTokensExist
  <2>1. CASE i \in DOMAIN tokens
      BY <1>0, <2>1 DEF TokensGoOn, LiveTokensExist
  <2>2. CASE i \notin DOMAIN tokens
      BY <1>0, <2>2, LiveTokensCome DEF LiveTokensExist, LoginsHold
  <2>q. QED
      BY <2>1, <2>2
<1>2. FamilyHasOneLiveToken'
  <2>1. ASSUME NEW i \in DOMAIN tokens', NEW j \in DOMAIN tokens, tokens'[i].is = "live",
               tokens'[j].is = "live", tokens'[i].family = tokens'[j].family
        PROVE  i = j
    <3>1. CASE i \in DOMAIN tokens
        BY <1>0, <2>1, <3>1 DEF TokensGoOn, FamilyHasOneLiveToken
    <3>2. CASE i \notin DOMAIN tokens
      <4>1. tokens[j].is = "live" /\ tokens'[j].family = tokens[j].family
          BY <1>0, <2>1 DEF TokensGoOn
      <4>2. tokens[j].family # Len(tokens) + 1
          BY <1>0, <1>l DEF Families
      <4>3. PICK r \in DOMAIN tokens : /\ tokens[r].is = "live" /\ tokens'[r].is # "live"
                                       /\ tokens'[i].family = tokens[r].family
          BY <2>1, <3>2, <4>1, <4>2, LiveTokensCome
      <4>q. QED
          BY <1>0, <2>1, <4>1, <4>3 DEF FamilyHasOneLiveToken
    <3>q. QED
        BY <3>1, <3>2
  <2>2. ASSUME NEW i \in DOMAIN tokens', NEW j \in DOMAIN tokens', i \notin DOMAIN tokens,
               j \notin DOMAIN tokens
        PROVE  i = j
      BY <2>2, TokensCome
  <2>q. QED
      BY <2>1, <2>2 DEF FamilyHasOneLiveToken
<1>3. ResetEndsSessions'
  <2> SUFFICES ASSUME NEW i \in DOMAIN tokens', tokens'[i].is = "live"
               PROVE  tokens'[i].family \notin ended'
      BY DEF ResetEndsSessions
  <2>1. CASE i \notin DOMAIN tokens
    <3>1. ended' = ended /\ ended \subseteq DOMAIN tokens
        BY <1>0, <2>1, LiveTokensCome DEF Families
    <3>2. \/ tokens'[i].family = Len(tokens) + 1
          \/ \E r \in DOMAIN tokens : tokens[r].is = "live" /\ tokens'[i].family = tokens[r].family
        BY <2>1, LiveTokensCome
    <3>q. QED
        BY <1>0, <1>l, <3>1, <3>2 DEF ResetEndsSessions
  <2>2. CASE i \in DOMAIN tokens /\ ended' = ended
      BY <1>0, <2>2 DEF TokensGoOn, ResetEndsSessions
  <2>3. ASSUME NEW c \in Call, ResetCommits(c), i \in DOMAIN tokens
        PROVE  tokens'[i].family \notin ended'
    <3>1. /\ tokens[i].is = "live" /\ tokens'[i].family = tokens[i].family
          /\ tokens[i].family \notin ended
        BY <1>0, <2>3 DEF TokensGoOn, ResetEndsSessions
    <3>2. i \notin call[c].seen
        BY <2>3, TokensChange DEF Advance
    <3>3. /\ call[c].seen \subseteq DOMAIN tokens
          /\ \A j \in call[c].seen : tokens[j].who = call[c].who
        BY <2>3 DEF AccountInv, ResetsHold, ResetCommits
    <3>4. ASSUME NEW j \in call[c].seen, tokens[j].family = tokens[i].family
          PROVE  i \in Unrevoked(call[c].who) \ call[c].seen
        BY <1>0, <2>3, <3>1, <3>2, <3>3, <3>4 DEF Families, Unrevoked
    <3>q. QED
        BY <2>3, <3>1, <3>4 DEF ResetCommits
  <2>q. QED
      BY <2>1, <2>2, <2>3, WhoWritesEnded DEF Advance
<1>4. TokensFitTheirAccount'
  <2> SUFFICES ASSUME NEW i \in DOMAIN tokens', tokens'[i].is = "live"
               PROVE  /\ account'[tokens'[i].who].id = tokens'[i].id
                      /\ \/ tokens'[i].id \in switched'
                         \/ PortalAccess(account'[tokens'[i].who].role, tokens'[i].portal)
      BY DEF TokensFitTheirAccount
  <2>1. CASE i \notin DOMAIN tokens
    <3>0. account' = account /\ switched' = switched
        BY <2>1, LiveTokensCome
    <3>1. ASSUME NEW c \in Call, At(c, "entering"), Present(c),
                 tokens'[i].who = call[c].who, tokens'[i].id = call[c].id,
                 tokens'[i].portal = call[c].portal
          PROVE  /\ account[tokens'[i].who].id = tokens'[i].id
                 /\ \/ tokens'[i].id \in switched
                    \/ PortalAccess(account[tokens'[i].who].role, tokens'[i].portal)
        BY <1>0, <3>1 DEF LoginsHold, Present
    <3>2. ASSUME NEW r \in DOMAIN tokens, tokens[r].is = "live",
                 tokens'[i].who = tokens[r].who, tokens'[i].id = tokens[r].id,
                 tokens'[i].portal = tokens[r].portal
          PROVE  /\ account[tokens'[i].who].id = tokens'[i].id
                 /\ \/ tokens'[i].id \in switched
                    \/ PortalAccess(account[tokens'[i].who].role, tokens'[i].portal)
        BY <1>0, <3>2 DEF TokensFitTheirAccount
    <3>q. QED
        BY <2>1, <3>0, <3>1, <3>2, LiveTokensCome
  <2>2. CASE i \in DOMAIN tokens
    <3> DEFINE p == tokens[i].who
    <3>1. /\ tokens[i].is = "live" /\ tokens'[i].who = p /\ tokens'[i].id = tokens[i].id
          /\ tokens'[i].portal = tokens[i].portal /\ p \in Person /\ tokens[i].id # 0
        BY <1>0, <2>2, Rows DEF TokensGoOn, LiveTokensExist, Advance, TokenRow
    <3>2. /\ account[p].id = tokens[i].id
          /\ tokens[i].id \in switched \/ PortalAccess(account[p].role, tokens[i].portal)
        BY <1>0, <2>2, <3>1 DEF TokensFitTheirAccount
    <3>3. /\ account'[p].id = account[p].id
          /\ account'[p].role = account[p].role \/ account[p].id \in switched'
        BY <2>2, <3>1, <3>2 DEF Advance, AccountsGoOn, Exists
    <3>4. switched \subseteq switched'
        BY DEF Advance, AccountsGoOn
    <3>q. QED
        BY <3>1, <3>2, <3>3, <3>4
  <2>q. QED
      BY <2>1, <2>2
<1>q. QED
    BY <1>1, <1>2, <1>3, <1>4

\* Codes: an open one has made no account, and a consumed one at most one.
LEMMA NextCodesHold == AccountInv /\ Advance => CodesHold'
<1> SUFFICES ASSUME AccountInv, Advance, NEW k \in DOMAIN codes'
             PROVE  codes'[k].made = 0 \/ (codes'[k].consumed /\ codes'[k].made = 1)
    BY DEF CodesHold
<1>0. RowTypes /\ CallTypes /\ CodesHold
    BY DEF Advance, AccountInv
<1>1. ASSUME NEW j \in DOMAIN codes, CodeAges(j)
      PROVE  codes'[k].made = 0 \/ (codes'[k].consumed /\ codes'[k].made = 1)
  <2>1. /\ k \in DOMAIN codes
        /\ codes'[k].made = codes[k].made /\ codes'[k].consumed = codes[k].consumed
      BY <1>0, <1>1, Rows DEF CodeAges, CodeRow
  <2>q. QED
      BY <1>0, <2>1 DEF CodesHold
<1>2. ASSUME NEW c \in Call, ResendWrites(c)
      PROVE  codes'[k].made = 0 \/ (codes'[k].consumed /\ codes'[k].made = 1)
  <2>1. /\ k \in DOMAIN codes
        /\ codes'[k].made = codes[k].made /\ codes'[k].consumed = codes[k].consumed
      BY <1>0, <1>2, Rows DEF ResendWrites, CodeRow
  <2>q. QED
      BY <1>0, <2>1 DEF CodesHold
<1>3. ASSUME NEW c \in Call, NEW j \in DOMAIN codes, VerifyCode(c, j)
      PROVE  codes'[k].made = 0 \/ (codes'[k].consumed /\ codes'[k].made = 1)
  <2>1. CASE k = j
    <3>1. codes[k].made = 0 /\ k \in DOMAIN codes /\ codes[k] \in CodeRow
        BY <1>0, <1>3, <2>1, Rows DEF VerifyCode, CodesHold
    <3>2. codes'[k].made = codes[k].made + 1 /\ codes'[k].consumed
        BY <1>3, <2>1, <3>1 DEF VerifyCode, CodeRow
    <3>q. QED
        BY <3>1, <3>2
  <2>2. CASE k # j
    <3>1. k \in DOMAIN codes /\ codes'[k] = codes[k]
        BY <1>3, <2>2 DEF VerifyCode
    <3>q. QED
        BY <1>0, <3>1 DEF CodesHold
  <2>q. QED
      BY <2>1, <2>2
<1>4. ASSUME NEW c \in Call, InsertCode(c)
      PROVE  codes'[k].made = 0 \/ (codes'[k].consumed /\ codes'[k].made = 1)
  <2>1. CASE k \in DOMAIN codes
    <3>1. codes'[k].made = codes[k].made /\ (codes[k].consumed => codes'[k].consumed)
        BY <1>0, <1>4, <2>1, CodesChange
    <3>q. QED
        BY <1>0, <2>1, <3>1 DEF CodesHold
  <2>2. CASE k \notin DOMAIN codes
    <3>1. DOMAIN codes' = DOMAIN codes \union {Len(codes) + 1}
        BY <1>0, <1>4, CodesChange
    <3>2. codes'[k] = [who |-> call[c].who, consumed |-> FALSE, fresh |-> TRUE,
                       resendable |-> FALSE, made |-> 0]
        BY <1>0, <1>4, <2>2, <3>1, CodesChange
    <3>q. QED
        BY <3>2
  <2>q. QED
      BY <2>1, <2>2
<1>5. CASE codes' = codes
    BY <1>0, <1>5 DEF CodesHold
<1>q. QED
    BY <1>1, <1>2, <1>3, <1>4, <1>5 DEF Advance, AccountsNext, accountsVars,
       RequestRegistration, GoogleLogin, CreateAdminUser, PasswordLogin, ResendReads,
       RotateReads, ResetRevokes, ConsumeOpenCodes, GoogleCreates, GoogleLinks, CreateSession,
       RotateCommits, ResetCommits, AdminUserInserted, CallDies, Logout, TokenExpires, LinkExpires,
       RequestPasswordReset, UpdateUserRole, DeleteUser

\* A code is opened only by the registration that inserts it.
LEMMA CodesOpen ==
    ASSUME AccountInv, Advance, NEW k \in DOMAIN codes', ~codes'[k].consumed,
           ~(k \in DOMAIN codes /\ ~codes[k].consumed /\ codes'[k].who = codes[k].who)
    PROVE  \E c \in Call :
              /\ InsertCode(c) /\ codes'[k].who = call[c].who /\ k = Len(codes) + 1
              /\ \A j \in DOMAIN codes' : ~codes'[j].consumed =>
                    j = k \/ (j \in DOMAIN codes /\ ~codes[j].consumed /\ j \notin call[c].seen)
<1>0. CodesGoOn /\ RowTypes /\ CallTypes
    BY DEF Advance
<1>1. k \notin DOMAIN codes
    BY <1>0 DEF CodesGoOn
<1>2. PICK c \in Call : InsertCode(c)
  <2>1. codes' # codes
      BY <1>1
  <2>2. \/ \E c \in Call : InsertCode(c) \/ ResendWrites(c) \/ \E j \in DOMAIN codes : VerifyCode(c, j)
        \/ \E j \in DOMAIN codes : CodeAges(j)
      BY <2>1 DEF Advance, AccountsNext, accountsVars,
         RequestRegistration, GoogleLogin, CreateAdminUser, PasswordLogin, ResendReads,
         RotateReads, ResetRevokes, ConsumeOpenCodes, GoogleCreates, GoogleLinks, CreateSession,
         RotateCommits, ResetCommits, AdminUserInserted, CallDies, Logout, TokenExpires, LinkExpires,
         RequestPasswordReset, UpdateUserRole, DeleteUser
  <2>q. QED
      BY <1>0, <1>1, <2>2, CodesChange
<1>3. /\ DOMAIN codes' = DOMAIN codes \union {Len(codes) + 1}
      /\ \A j \in DOMAIN codes : j \in call[c].seen => codes'[j].consumed
    BY <1>0, <1>2, CodesChange
<1>4. codes'[Len(codes) + 1] = [who |-> call[c].who, consumed |-> FALSE, fresh |-> TRUE,
                                resendable |-> FALSE, made |-> 0]
    BY <1>0, <1>2, CodesChange
<1>5. codes'[Len(codes) + 1].who = call[c].who
    BY <1>4
<1>q. QED
    BY <1>0, <1>1, <1>2, <1>3, <1>5 DEF CodesGoOn

\* Registrations under way.
LEMMA NextRegistrationsHold == AccountInv /\ Advance => RegistrationsHold'
<1> SUFFICES ASSUME AccountInv, Advance PROVE RegistrationsHold'
    OBVIOUS
<1> DEFINE open(k) == k \in DOMAIN codes /\ ~codes[k].consumed
           Open(k) == k \in DOMAIN codes' /\ ~codes'[k].consumed
<1>0. RegistrationsHold /\ CodesGoOn /\ CallTypes /\ RowTypes
    BY DEF Advance, AccountInv
<1>1. beside \subseteq beside'
    BY RecordsGrow DEF Advance
<1>2. ASSUME NEW c \in Call, InsertCode(c)
      PROVE  /\ At(c, "inserting") /\ call'[c].at = "idle" /\ beside' = beside
             /\ \A d \in Call \ {c} : call'[d] = call[d]
    BY <1>0, <1>2 DEF InsertCode, Ends, Nothing, CallTypes, accountsHistory
<1>3. ASSUME NEW p \in Person, p \notin beside', NEW k, NEW l, Open(k), Open(l),
             codes'[k].who = p, codes'[l].who = p
      PROVE  k = l
  <2>1. CASE open(k) /\ open(l) /\ codes[k].who = p /\ codes[l].who = p
      BY <1>0, <1>1, <1>3, <2>1 DEF RegistrationsHold, OpenCodes
  <2>2. ASSUME NEW m \in DOMAIN codes', NEW n \in DOMAIN codes', Open(m), Open(n),
               codes'[m].who = p, codes'[n].who = p,
               ~(open(m) /\ codes'[m].who = codes[m].who)
        PROVE  m = n
    <3>1. PICK c \in Call :
              /\ InsertCode(c) /\ codes'[m].who = call[c].who
              /\ \A j \in DOMAIN codes' : ~codes'[j].consumed =>
                    j = m \/ (open(j) /\ j \notin call[c].seen)
        BY <2>2, CodesOpen
    <3>2. OpenCodes(p) \subseteq call[c].seen
        BY <1>0, <1>1, <1>2, <1>3, <2>2, <3>1 DEF RegistrationsHold, At
    <3>3. CASE m # n
      <4>1. open(n) /\ n \notin call[c].seen
          BY <2>2, <3>1, <3>3
      <4>2. codes[n].who = p
          BY <1>0, <2>2, <4>1 DEF CodesGoOn
      <4>q. QED
          BY <3>2, <4>1, <4>2 DEF OpenCodes
    <3>q. QED
        BY <3>3
  <2>q. QED
      BY <1>3, <2>1, <2>2
<1>4. ASSUME NEW c \in Call, call'[c].at = "inserting", call'[c].who \notin beside'
      PROVE  /\ \A k : Open(k) /\ codes'[k].who = call'[c].who => k \in call'[c].seen
             /\ \A d \in Call : call'[d].at = "inserting" /\ call'[d].who = call'[c].who => c = d
  <2>1. ASSUME NEW d \in Call, call'[d] # call[d], call'[d].at = "inserting"
        PROVE  /\ ConsumeOpenCodes(d) /\ call'[d].who = call[d].who /\ codes' = codes
               /\ call'[d].seen = OpenCodes(call[d].who)
               /\ \A e \in Call \ {d} : /\ call'[e] = call[e]
                                        /\ At(e, "inserting") /\ call[e].who = call[d].who =>
                                              call[d].who \in beside'
    <3>1. ConsumeOpenCodes(d) /\ \A e \in Call \ {d} : call'[e] = call[e]
        BY <2>1 DEF Advance, Arrives
    <3>q. QED
        BY <1>0, <2>1, <3>1 DEF ConsumeOpenCodes, CallTypes, CallState
  <2>2. CASE call'[c] # call[c]
      BY <1>4, <2>1, <2>2 DEF OpenCodes, At
  <2>3. CASE call'[c] = call[c]
    <3>1. /\ call[c].at = "inserting" /\ call[c].who \notin beside /\ call[c].who \in Person
          /\ OpenCodes(call[c].who) \subseteq call[c].seen
          /\ \A d \in Call : call[d].at = "inserting" /\ call[d].who = call[c].who => c = d
        BY <1>0, <1>1, <1>4, <2>3 DEF RegistrationsHold, At, CallTypes, Sound
    <3>2. ASSUME NEW k, Open(k), codes'[k].who = call[c].who PROVE k \in call[c].seen
      <4>1. CASE open(k) /\ codes'[k].who = codes[k].who
          BY <3>1, <3>2, <4>1 DEF OpenCodes
      <4>2. CASE ~(open(k) /\ codes'[k].who = codes[k].who)
        <5>1. PICK d \in Call : InsertCode(d) /\ codes'[k].who = call[d].who
            BY <3>2, <4>2, CodesOpen
        <5>2. d # c /\ call[d].at = "inserting" /\ call[d].who = call[c].who
            BY <1>2, <1>4, <3>2, <5>1 DEF At
        <5>q. QED
            BY <3>1, <5>2
      <4>q. QED
          BY <4>1, <4>2
    <3>3. ASSUME NEW d \in Call, call'[d].at = "inserting", call'[d].who = call'[c].who
          PROVE  c = d
      <4>1. CASE call'[d] = call[d]
          BY <2>3, <3>1, <3>3, <4>1
      <4>2. CASE call'[d] # call[d] /\ c # d
          BY <1>4, <2>1, <2>3, <3>1, <3>3, <4>2 DEF At
      <4>q. QED
          BY <4>1, <4>2
    <3>q. QED
        BY <2>3, <3>2, <3>3
  <2>q. QED
      BY <2>2, <2>3
<1>q. QED
    BY <1>3, <1>4 DEF RegistrationsHold, OpenCodes, At

\* Ways into an account.
LEMMA NextWayIn == AccountInv /\ Advance => EveryAccountHasAWayIn'
<1> SUFFICES ASSUME AccountInv, Advance, NEW p \in Person, account'[p].id # 0
             PROVE  \/ account'[p].password \/ account'[p].google \/ account'[p].id \in cutOff'
                    \/ \E c \in Call : /\ call'[c].at = "linking" /\ call'[c].who = p
                                       /\ account'[p].id = call'[c].id
    BY DEF EveryAccountHasAWayIn, Exists, At, Present
<1> DEFINE Way == \/ account'[p].password \/ account'[p].google \/ account'[p].id \in cutOff'
                  \/ \E c \in Call : /\ call'[c].at = "linking" /\ call'[c].who = p
                                     /\ account'[p].id = call'[c].id
<1>0. EveryAccountHasAWayIn /\ RowTypes /\ CallTypes
    BY DEF Advance, AccountInv
<1>1. cutOff \subseteq cutOff'
    BY RecordsGrow DEF Advance
\* An account that was there keeps its way in ...
<1>2. ASSUME account'[p].id = account[p].id, account[p].password => account'[p].password,
             account[p].google => account'[p].google,
             \A c \in Call : call[c].at = "linking" /\ call'[c] # call[c] =>
                (call[c].who = p /\ call[c].id = account[p].id =>
                    account'[p].google \/ call[c].id \in cutOff')
      PROVE  Way
  <2>1. \/ account[p].password \/ account[p].google \/ account[p].id \in cutOff
        \/ \E c \in Call : call[c].at = "linking" /\ call[c].who = p /\ account[p].id = call[c].id
      BY <1>0, <1>2 DEF EveryAccountHasAWayIn, Exists, At, Present
  <2>2. ASSUME NEW c \in Call, call[c].at = "linking", call[c].who = p, account[p].id = call[c].id
        PROVE  Way
    <3>1. CASE call'[c] = call[c]
        BY <1>2, <2>2, <3>1
    <3>2. CASE call'[c] # call[c]
        BY <1>2, <2>2, <3>2
    <3>q. QED
        BY <3>1, <3>2
  <2>q. QED
      BY <1>1, <1>2, <2>1, <2>2
\* ... and one that is made has a password, or is about to be linked.
<1>3. ASSUME NEW c \in Call, NEW k \in DOMAIN codes, VerifyCode(c, k) PROVE Way
  <2>1. codes[k].who \in Person
      BY <1>0, Rows DEF CodeRow
  <2>2. CASE p = codes[k].who
      BY <1>0, <1>3, <2>1, <2>2 DEF VerifyCode, MakeAccount, RowTypes
  <2>3. CASE p # codes[k].who
    <3>1. account'[p] = account[p] /\ \A d \in Call : call[d].at = "linking" => call'[d] = call[d]
        BY <1>0, <1>3, <2>1, <2>3 DEF VerifyCode, MakeAccount, RowTypes, CallTypes, At
    <3>q. QED
        BY <1>2, <3>1
  <2>q. QED
      BY <2>2, <2>3
<1>4. ASSUME NEW c \in Call, GoogleCreates(c) PROVE Way
  <2>0. call[c].who \in Person /\ call[c].at = "creating"
      BY <1>0, <1>4 DEF GoogleCreates, At, CallTypes, Sound
  <2>1. \A d \in Call : call[d].at = "linking" => call'[d] = call[d]
    <3>1. \A d \in Call \ {c} : call'[d] = call[d]
      <4>1. CASE Exists(call[c].who)
          BY <1>0, <1>4, <4>1 DEF GoogleCreates, Ends, CallTypes
      <4>2. CASE ~Exists(call[c].who)
          BY <1>0, <1>4, <4>2 DEF GoogleCreates, CallTypes
      <4>q. QED
          BY <4>1, <4>2
    <3>q. QED
        BY <2>0, <3>1
  <2>2. CASE Exists(call[c].who)
    <3>1. account' = account
        BY <1>4, <2>2 DEF GoogleCreates
    <3>q. QED
        BY <1>2, <2>1, <3>1
  <2>3. CASE ~Exists(call[c].who) /\ p = call[c].who
    <3>1. account'[p].id = accounts + 1
        BY <1>0, <1>4, <2>0, <2>3 DEF GoogleCreates, MakeAccount, RowTypes
    <3>2. call'[c].at = "linking" /\ call'[c].id = accounts + 1 /\ call'[c].who = p
        BY <1>0, <1>4, <2>3 DEF GoogleCreates, CallTypes, CallState
    <3>q. QED
        BY <3>1, <3>2
  <2>4. CASE ~Exists(call[c].who) /\ p # call[c].who
    <3>1. account'[p] = account[p]
        BY <1>0, <1>4, <2>0, <2>4 DEF GoogleCreates, MakeAccount, RowTypes
    <3>q. QED
        BY <1>2, <2>1, <3>1
  <2>q. QED
      BY <2>2, <2>3, <2>4
<1>5. ASSUME NEW c \in Call, AdminUserInserted(c) PROVE Way
  <2>0. call[c].who \in Person /\ call[c].at = "adding"
      BY <1>0, <1>5 DEF AdminUserInserted, At, CallTypes, Sound
  <2>1. \A d \in Call : call[d].at = "linking" => call'[d] = call[d]
      BY <1>0, <1>5, <2>0 DEF AdminUserInserted, Ends, CallTypes
  <2>2. CASE Exists(call[c].who) \/ p # call[c].who
    <3>1. account'[p] = account[p]
        BY <1>0, <1>5, <2>0, <2>2 DEF AdminUserInserted, MakeAccount, RowTypes
    <3>q. QED
        BY <1>2, <2>1, <3>1
  <2>3. CASE ~Exists(call[c].who) /\ p = call[c].who
      BY <1>0, <1>5, <2>0, <2>3 DEF AdminUserInserted, MakeAccount, RowTypes
  <2>q. QED
      BY <2>2, <2>3
<1>6. ASSUME NEW c \in Call, GoogleLinks(c) PROVE Way
  <2>0. /\ call[c].who \in Person /\ call[c].at = "linking"
        /\ \A d \in Call \ {c} : call'[d] = call[d]
      BY <1>0, <1>6 DEF GoogleLinks, At, Moves, Ends, CallTypes, Sound
  <2>1. /\ account'[p].id = account[p].id /\ account'[p].password = account[p].password
        /\ account[p].google => account'[p].google
      BY <1>0, <1>6, <2>0 DEF GoogleLinks, RowTypes
  <2>2. call[c].who = p /\ call[c].id = account[p].id => account'[p].google
      BY <1>0, <1>6, <2>0 DEF GoogleLinks, RowTypes, Present
  <2>q. QED
      BY <1>2, <2>0, <2>1, <2>2
<1>7. ASSUME NEW q \in Person, UpdateUserRole(q) PROVE Way
  <2>1. /\ account'[p].id = account[p].id /\ account'[p].password = account[p].password
        /\ account'[p].google = account[p].google /\ call' = call
      BY <1>0, <1>7 DEF UpdateUserRole, RowTypes
  <2>q. QED
      BY <1>2, <2>1
<1>8. ASSUME NEW q \in Person, DeleteUser(q) PROVE Way
  <2>1. p # q
      BY <1>0, <1>8 DEF DeleteUser, NoAccount, RowTypes
  <2>2. account'[p] = account[p] /\ call' = call
      BY <1>0, <1>8, <2>1 DEF DeleteUser, RowTypes
  <2>q. QED
      BY <1>2, <2>2
<1>9. ASSUME NEW c \in Call, CallDies(c) PROVE Way
  <2>1. account' = account /\ \A d \in Call \ {c} : call'[d] = call[d]
      BY <1>0, <1>9 DEF CallDies, Ends, CallTypes
  <2>2. call[c].at = "linking" => call[c].id \in cutOff'
      BY <1>9 DEF CallDies, At
  <2>q. QED
      BY <1>2, <2>1, <2>2
<1>10. ASSUME account' = account, \A c \in Call : call[c].at = "linking" => call'[c] = call[c]
       PROVE  Way
    BY <1>2, <1>10
<1>11. ASSUME NEW c \in Call, NEW q \in Person, RequestRegistration(c, q) PROVE Way
  <2>1. account' = account /\ \A r \in Call : call[r].at = "linking" => call'[r] = call[r]
      BY <1>0, <1>11 DEF RequestRegistration, Begins, At, CallTypes
  <2>q. QED
      BY <1>10, <2>1
<1>12. ASSUME NEW c \in Call, NEW q \in Person, GoogleLogin(c, q) PROVE Way
  <2>1. account' = account /\ \A r \in Call : call[r].at = "linking" => call'[r] = call[r]
      BY <1>0, <1>12 DEF GoogleLogin, Begins, At, CallTypes
  <2>q. QED
      BY <1>10, <2>1
<1>13. ASSUME NEW c \in Call, NEW q \in Person, CreateAdminUser(c, q) PROVE Way
  <2>1. account' = account /\ \A r \in Call : call[r].at = "linking" => call'[r] = call[r]
      BY <1>0, <1>13 DEF CreateAdminUser, Begins, At, CallTypes
  <2>q. QED
      BY <1>10, <2>1
<1>14. ASSUME NEW c \in Call, NEW q \in Person, NEW portal \in Portals, PasswordLogin(c, q, portal)
       PROVE  Way
  <2>1. account' = account /\ \A r \in Call : call[r].at = "linking" => call'[r] = call[r]
      BY <1>0, <1>14 DEF PasswordLogin, Begins, At, CallTypes
  <2>q. QED
      BY <1>10, <2>1
<1>15. ASSUME NEW c \in Call, NEW k \in DOMAIN codes, ResendReads(c, k) PROVE Way
  <2>1. account' = account /\ \A r \in Call : call[r].at = "linking" => call'[r] = call[r]
      BY <1>0, <1>15 DEF ResendReads, Begins, At, CallTypes
  <2>q. QED
      BY <1>10, <2>1
<1>16. ASSUME NEW c \in Call, NEW i \in DOMAIN tokens, RotateReads(c, i) PROVE Way
  <2>1. account' = account /\ \A r \in Call : call[r].at = "linking" => call'[r] = call[r]
      BY <1>0, <1>16 DEF RotateReads, Begins, At, CallTypes
  <2>q. QED
      BY <1>10, <2>1
<1>17. ASSUME NEW c \in Call, NEW l \in DOMAIN links, ResetRevokes(c, l) PROVE Way
  <2>1. account' = account /\ \A r \in Call : call[r].at = "linking" => call'[r] = call[r]
      BY <1>0, <1>17 DEF ResetRevokes, Begins, At, CallTypes
  <2>q. QED
      BY <1>10, <2>1
<1>18. ASSUME NEW c \in Call, ConsumeOpenCodes(c) PROVE Way
  <2>1. account' = account /\ \A r \in Call : call[r].at = "linking" => call'[r] = call[r]
      BY <1>0, <1>18 DEF ConsumeOpenCodes, At, CallTypes
  <2>q. QED
      BY <1>10, <2>1
<1>19. ASSUME NEW c \in Call, InsertCode(c) PROVE Way
  <2>1. account' = account /\ \A r \in Call : call[r].at = "linking" => call'[r] = call[r]
      BY <1>0, <1>19 DEF InsertCode, At, Ends, Nothing, CallTypes
  <2>q. QED
      BY <1>10, <2>1
<1>20. ASSUME NEW c \in Call, ResendWrites(c) PROVE Way
  <2>1. account' = account /\ \A r \in Call : call[r].at = "linking" => call'[r] = call[r]
      BY <1>0, <1>20 DEF ResendWrites, At, Ends, Nothing, CallTypes
  <2>q. QED
      BY <1>10, <2>1
<1>21. ASSUME NEW c \in Call, CreateSession(c) PROVE Way
  <2>1. account' = account /\ \A r \in Call : call[r].at = "linking" => call'[r] = call[r]
      BY <1>0, <1>21 DEF CreateSession, At, Ends, Nothing, CallTypes
  <2>q. QED
      BY <1>10, <2>1
<1>22. ASSUME NEW c \in Call, RotateCommits(c) PROVE Way
  <2>1. account' = account /\ \A r \in Call : call[r].at = "linking" => call'[r] = call[r]
      BY <1>0, <1>22 DEF RotateCommits, At, Ends, Nothing, CallTypes
  <2>q. QED
      BY <1>10, <2>1
<1>23. ASSUME NEW c \in Call, ResetCommits(c) PROVE Way
  <2>1. account' = account /\ \A r \in Call : call[r].at = "linking" => call'[r] = call[r]
      BY <1>0, <1>23 DEF ResetCommits, At, Ends, Nothing, CallTypes
  <2>q. QED
      BY <1>10, <2>1
<1>24. ASSUME NEW k \in DOMAIN codes, CodeAges(k) PROVE Way
  <2>1. account' = account /\ \A r \in Call : call[r].at = "linking" => call'[r] = call[r]
      BY <1>0, <1>24 DEF CodeAges, CallTypes
  <2>q. QED
      BY <1>10, <2>1
<1>25. ASSUME NEW i \in DOMAIN tokens, Logout(i) PROVE Way
  <2>1. account' = account /\ \A r \in Call : call[r].at = "linking" => call'[r] = call[r]
      BY <1>0, <1>25 DEF Logout, CallTypes
  <2>q. QED
      BY <1>10, <2>1
<1>26. ASSUME NEW i \in DOMAIN tokens, TokenExpires(i) PROVE Way
  <2>1. account' = account /\ \A r \in Call : call[r].at = "linking" => call'[r] = call[r]
      BY <1>0, <1>26 DEF TokenExpires, CallTypes
  <2>q. QED
      BY <1>10, <2>1
<1>27. ASSUME NEW l \in DOMAIN links, LinkExpires(l) PROVE Way
  <2>1. account' = account /\ \A r \in Call : call[r].at = "linking" => call'[r] = call[r]
      BY <1>0, <1>27 DEF LinkExpires, CallTypes
  <2>q. QED
      BY <1>10, <2>1
<1>28. ASSUME NEW q \in Person, RequestPasswordReset(q) PROVE Way
  <2>1. account' = account /\ \A r \in Call : call[r].at = "linking" => call'[r] = call[r]
      BY <1>0, <1>28 DEF RequestPasswordReset, CallTypes
  <2>q. QED
      BY <1>10, <2>1
<1>29. CASE UNCHANGED accountsVars
    BY <1>10, <1>29 DEF accountsVars
<1>a. Way
    BY <1>3, <1>4, <1>5, <1>6, <1>7, <1>8, <1>9, <1>11, <1>12, <1>13, <1>14, <1>15, <1>16,
       <1>17, <1>18, <1>19, <1>20, <1>21, <1>22, <1>23, <1>24, <1>25, <1>26, <1>27, <1>28, <1>29
       DEF Advance, AccountsNext
<1>q. QED
    BY <1>a DEF Way

-----------------------------------------------------------------------------
(* Accounts: the theorems *)

\* Initially there is nothing.
LEMMA InitAccountInv == AccountsInit => AccountInv
<1> SUFFICES ASSUME AccountsInit PROVE AccountInv
    OBVIOUS
<1>1. /\ NoAccount \in [id : Nat, role : Portals, password : BOOLEAN, google : BOOLEAN]
      /\ NoAccount.id = 0 /\ NoAccount.role = "user" /\ Nothing.id = 0 /\ Nothing.at = "idle"
    BY DEF NoAccount, Nothing, Portals
<1>2. Sound(Nothing)
    BY NothingIsSound
<1>3. DOMAIN tokens = {} /\ DOMAIN codes = {} /\ DOMAIN links = {}
    BY DEF AccountsInit
<1>4. RowTypes
    BY <1>1 DEF AccountsInit, RowTypes
<1>5. CallTypes
    BY <1>2 DEF AccountsInit, CallTypes, Sound
<1>6. Numbered /\ Families /\ RotationsHold /\ ResetsHold /\ LoginsHold /\ LiveTokensExist
    BY <1>1, <1>3 DEF AccountsInit, Numbered, Families, RotationsHold, ResetsHold, LoginsHold,
       LiveTokensExist, At, Exists
<1>7. FamilyHasOneLiveToken /\ ResetEndsSessions /\ TokensFitTheirAccount /\ CodesHold
    BY <1>3 DEF FamilyHasOneLiveToken, ResetEndsSessions, TokensFitTheirAccount, CodesHold
<1>8. RegistrationsHold /\ EveryAccountHasAWayIn
    BY <1>1, <1>3
       DEF AccountsInit, RegistrationsHold, EveryAccountHasAWayIn, OpenCodes, At, Exists
<1>q. QED
    BY <1>4, <1>5, <1>6, <1>7, <1>8 DEF AccountInv

\* Every step keeps the invariant.
LEMMA NextAccountInv == AccountInv /\ [AccountsNext]_accountsVars => AccountInv'
<1> SUFFICES ASSUME AccountInv, [AccountsNext]_accountsVars PROVE AccountInv'
    OBVIOUS
<1>1. Advance
    BY EveryStepAdvances
<1>2. RowTypes' /\ CallTypes'
    BY <1>1 DEF Advance
<1>q. QED
    BY <1>1, <1>2, NextNumbered, NextFamilies, NextRotationsHold, NextResetsHold, NextLoginsHold,
       NextLiveTokens, NextCodesHold, NextRegistrationsHold, NextWayIn
       DEF AccountInv

\* The invariant always holds.
LEMMA AlwaysAccountInv == AccountsSpec => []AccountInv
BY InitAccountInv, NextAccountInv, PTL DEF AccountsSpec

\* However logins, rotations, resets, registrations and deletions interleave: no family of refresh
\* tokens has two that can be exchanged, none that a reset ended has one, each belongs to the account
\* and role it was made for, a code makes one account, and an address has one open code.
THEOREM CredentialsSound == AccountsSpec => []CredentialsAreSound
<1>1. ASSUME AccountInv, NEW p \in Person \ beside PROVE Cardinality(OpenCodes(p)) <= 1
  <2>1. \A k, l \in OpenCodes(p) : k = l
      BY <1>1 DEF AccountInv, RegistrationsHold
  <2>2. CASE OpenCodes(p) = {}
      BY <2>2, FS_EmptySet
  <2>3. ASSUME NEW k \in OpenCodes(p) PROVE Cardinality(OpenCodes(p)) <= 1
    <3>1. OpenCodes(p) = {k}
        BY <2>1
    <3>q. QED
        BY <3>1, FS_Singleton
  <2>q. QED
      BY <2>2, <2>3
<1>2. AccountInv => OneOpenCode
    BY <1>1 DEF OneOpenCode
<1>3. AccountInv => CodeMakesOneAccount
    BY DEF AccountInv, CodesHold, CodeMakesOneAccount
<1>4. AccountInv => CredentialsAreSound
    BY <1>2, <1>3 DEF AccountInv, CredentialsAreSound
<1>q. QED
    BY <1>4, AlwaysAccountInv, PTL

\* Every account has a password, a Google link or one about to be made, except those whose Google
\* login was cut off between its two inserts.
THEOREM WaysIn == AccountsSpec => []EveryAccountHasAWayIn
<1>1. AccountInv => EveryAccountHasAWayIn
    BY DEF AccountInv
<1>q. QED
    BY <1>1, AlwaysAccountInv, PTL

-----------------------------------------------------------------------------
(* Price alerts *)

\* Initially no alert is there, and none is being evaluated.
LEMMA InitAlertInv == AlertsInit => AlertInv
<1> SUFFICES ASSUME AlertsInit PROVE AlertInv
    OBVIOUS
<1>1. AlertTypes
    BY DEF AlertsInit, AlertTypes, NoAlert, Resting, AlertRow, ReadRow
<1>2. NoticeLeft /\ ReadsStand
    BY DEF AlertsInit, NoticeLeft, ReadsStand, NoAlert, Resting
<1>q. QED
    BY <1>1, <1>2 DEF AlertInv

\* The owner's requests keep the invariant.
LEMMA EditsKeep ==
    ASSUME AlertInv, NEW a \in Alert, NEW target \in Price
    PROVE  /\ \A above \in BOOLEAN : CreateAlert(a, above, target) => AlertInv'
           /\ \A status \in {"ACTIVE", "TRIGGERED", "DISABLED"} :
                 UpdateAlert(a, status, target) => AlertInv'
<1>0. /\ AlertTypes /\ NoticeLeft /\ ReadsStand /\ target \in Int
      /\ armed[a] \in Nat /\ armed[a] + 1 \in Nat /\ notified[a] \in Nat
    BY AlertsAssumption DEF AlertInv, AlertTypes
<1>1. ASSUME NEW above \in BOOLEAN, CreateAlert(a, above, target) PROVE AlertInv'
  <2>1. AlertTypes'
      BY <1>0, <1>1 DEF CreateAlert, AlertTypes, AlertRow
  <2>2. NoticeLeft'
      BY <1>0, <1>1 DEF CreateAlert, AlertTypes, NoticeLeft
  <2>3. \A e \in Evaluation : \A row \in evaluation[e].todo : row.a \in Alert /\ row.a # a
      BY <1>0, <1>1 DEF CreateAlert, AlertTypes, ReadsStand, ReadRow
  <2>4. ReadsStand'
      BY <1>0, <1>1, <2>3 DEF CreateAlert, AlertTypes, ReadsStand
  <2>q. QED
      BY <2>1, <2>2, <2>4 DEF AlertInv
<1>2. ASSUME NEW status \in {"ACTIVE", "TRIGGERED", "DISABLED"}, UpdateAlert(a, status, target)
      PROVE  AlertInv'
  <2>1. /\ alert[a] \in AlertRow
        /\ alert' = [alert EXCEPT ![a] = [alert[a] EXCEPT !.status = status, !.target = target]]
      BY <1>0, <1>2 DEF UpdateAlert, AlertTypes
  <2>2. [alert[a] EXCEPT !.status = status, !.target = target] \in AlertRow
      BY <1>0, <2>1 DEF AlertRow
  <2>3. retargeted' \in [Evaluation -> SUBSET Alert]
      BY <1>0, <1>2 DEF UpdateAlert, Edited, AlertTypes
  <2>4. armed' \in [Alert -> Nat]
      BY <1>0, <1>2 DEF UpdateAlert, AlertTypes
  <2>5. AlertTypes'
      BY <1>0, <1>2, <2>1, <2>2, <2>3, <2>4 DEF UpdateAlert, AlertTypes
  <2>6. alert'[a].status = status /\ \A b \in Alert \ {a} : alert'[b] = alert[b]
      BY <1>0, <2>1 DEF AlertTypes, AlertRow
  <2>7. NoticeLeft'
      BY <1>0, <1>2, <2>6 DEF UpdateAlert, AlertTypes, NoticeLeft
  <2>8. ASSUME NEW e \in Evaluation, NEW row \in evaluation[e].todo
        PROVE  /\ row.a \in Alert /\ alert'[row.a].status # "none"
               /\ row.a \notin retargeted'[e] => row.a # a /\ row.a \notin retargeted[e]
    <3>1. row.a \in Alert
        BY <1>0 DEF AlertTypes, ReadRow
    <3>2. row.a = a => row.a \in retargeted'[e]
        BY <1>0, <1>2 DEF UpdateAlert, Edited, ReadBy
    <3>3. row.a \in retargeted[e] => row.a \in retargeted'[e]
        BY <1>0, <1>2 DEF UpdateAlert, Edited
    <3>q. QED
        BY <1>0, <2>6, <3>1, <3>2, <3>3 DEF ReadsStand
  <2>9. ReadsStand'
      BY <1>0, <1>2, <2>6, <2>8 DEF UpdateAlert, ReadsStand
  <2>q. QED
      BY <2>5, <2>7, <2>9 DEF AlertInv
<1>q. QED
    BY <1>1, <1>2

\* So do a deletion and the reads of an evaluation.
LEMMA OthersKeep ==
    ASSUME AlertInv
    PROVE  /\ \A a \in Alert : DeleteAlert(a) => AlertInv'
           /\ \A e \in Evaluation, price \in Price : Quoted(e, price) => AlertInv'
           /\ \A e \in Evaluation : Evaluated(e) => AlertInv'
<1>0. AlertTypes /\ NoticeLeft /\ ReadsStand /\ Price \subseteq Int
    BY AlertsAssumption DEF AlertInv
<1>1. ASSUME NEW a \in Alert, DeleteAlert(a) PROVE AlertInv'
  <2>1. AlertTypes'
      BY <1>0, <1>1 DEF DeleteAlert, AlertTypes, AlertRow, alertHistory
  <2>2. /\ alert'[a].status = "deleted" /\ \A b \in Alert \ {a} : alert'[b] = alert[b]
        /\ evaluation' = evaluation /\ armed' = armed /\ notified' = notified
        /\ retargeted' = retargeted
      BY <1>0, <1>1 DEF DeleteAlert, AlertTypes, AlertRow, alertHistory
  <2>3. NoticeLeft'
      BY <1>0, <2>2 DEF NoticeLeft
  <2>4. \A e \in Evaluation : \A row \in evaluation[e].todo : row.a \in Alert
      BY <1>0 DEF AlertTypes, ReadRow
  <2>5. ReadsStand'
      BY <1>0, <2>2, <2>4 DEF ReadsStand
  <2>q. QED
      BY <2>1, <2>3, <2>5 DEF AlertInv
<1>2. ASSUME NEW e \in Evaluation, NEW price \in Price, Quoted(e, price) PROVE AlertInv'
  <2> DEFINE read == {[a |-> a, above |-> alert[a].above, target |-> alert[a].target] :
                          a \in {b \in Alert : alert[b].status = "ACTIVE"}}
  <2>1. \A row \in read : /\ row \in ReadRow /\ alert[row.a].status = "ACTIVE"
                          /\ row.above = alert[row.a].above /\ row.target = alert[row.a].target
      BY <1>0 DEF AlertTypes, AlertRow, ReadRow
  <2>2. evaluation' = [evaluation EXCEPT ![e] = [busy |-> TRUE, price |-> price, todo |-> read]]
      BY <1>2 DEF Quoted
  <2> HIDE DEF read
  <2>3. AlertTypes'
      BY <1>0, <1>2, <2>1, <2>2 DEF Quoted, AlertTypes
  <2>4. /\ evaluation'[e].todo = read
        /\ \A f \in Evaluation \ {e} : /\ evaluation'[f] = evaluation[f]
                                       /\ retargeted'[f] = retargeted[f]
        /\ alert' = alert /\ armed' = armed /\ notified' = notified
      BY <1>0, <1>2, <2>2 DEF Quoted, AlertTypes
  <2>5. NoticeLeft'
      BY <1>0, <2>4 DEF NoticeLeft
  <2>6. ReadsStand'
      BY <1>0, <2>1, <2>4 DEF ReadsStand
  <2>q. QED
      BY <2>3, <2>5, <2>6 DEF AlertInv
<1>3. ASSUME NEW e \in Evaluation, Evaluated(e) PROVE AlertInv'
  <2>1. AlertTypes'
      BY <1>0, <1>3 DEF Evaluated, AlertTypes, alertHistory, Resting
  <2>2. NoticeLeft'
      BY <1>0, <1>3 DEF Evaluated, NoticeLeft, alertHistory
  <2>3. ReadsStand'
      BY <1>0, <1>3 DEF Evaluated, ReadsStand, alertHistory, Resting, AlertTypes
  <2>q. QED
      BY <2>1, <2>2, <2>3 DEF AlertInv
<1>q. QED
    BY <1>1, <1>2, <1>3

\* And the update of the next row, which triggers an alert that is active at the target it has.
LEMMA TakeKeeps ==
    ASSUME AlertInv, NEW e \in Evaluation, NEW row \in evaluation[e].todo, Take(e, row)
    PROVE  AlertInv' /\ TriggersAtItsTarget
<1>0. /\ AlertTypes /\ NoticeLeft /\ ReadsStand
      /\ row.a \in Alert /\ alert[row.a] \in AlertRow /\ alert[row.a].status # "none"
      /\ notified[row.a] \in Nat /\ notified[row.a] + 1 \in Nat /\ armed[row.a] \in Nat
    BY DEF AlertInv, AlertTypes, ReadsStand, ReadRow
<1>1. /\ \A f \in Evaluation : evaluation'[f].todo \subseteq evaluation[f].todo
      /\ \A f \in Evaluation \ {e} : evaluation'[f] = evaluation[f]
      /\ evaluation' \in [Evaluation -> [busy : BOOLEAN, price : Int, todo : SUBSET ReadRow]]
      /\ armed' = armed /\ retargeted' = retargeted
    BY <1>0 DEF Take, AlertTypes
<1>2. CASE Reaches(row, evaluation[e].price) /\ StillActive(row)
  <2>1. /\ alert' = [alert EXCEPT ![row.a].status = "TRIGGERED"]
        /\ notified' = [notified EXCEPT ![row.a] = @ + 1]
        /\ alert[row.a].status = "ACTIVE"
      BY <1>2 DEF Take, Notify, StillActive
  <2>2. AlertTypes'
      BY <1>0, <1>1, <2>1 DEF AlertTypes, AlertRow
  <2>3. alert'[row.a].status = "TRIGGERED" /\ \A b \in Alert \ {row.a} : alert'[b] = alert[b]
      BY <1>0, <2>1 DEF AlertTypes, AlertRow
  <2>4. NoticeLeft'
      BY <1>0, <1>1, <2>1, <2>3 DEF NoticeLeft, AlertTypes
  <2>5. \A f \in Evaluation : \A other \in evaluation[f].todo : other.a \in Alert
      BY <1>0 DEF AlertTypes, ReadRow
  <2>6. ReadsStand'
      BY <1>0, <1>1, <2>3, <2>5 DEF ReadsStand
  <2>7. TriggersAtItsTarget
    <3> SUFFICES ASSUME NEW a \in Alert, NEW f \in Evaluation, alert[a].status = "ACTIVE",
                        alert'[a].status = "TRIGGERED", evaluation'[f] # evaluation[f],
                        a \notin retargeted[f]
                 PROVE  IF alert[a].above THEN alert[a].target <= evaluation[f].price
                        ELSE evaluation[f].price <= alert[a].target
        BY DEF TriggersAtItsTarget
    <3>1. f = e /\ a = row.a
        BY <1>1, <2>3
    <3>2. alert[a].above = row.above /\ alert[a].target = row.target
        BY <1>0, <3>1 DEF ReadsStand
    <3>3. row.target \in Int /\ evaluation[e].price \in Int
        BY <1>0 DEF AlertTypes, ReadRow
    <3>q. QED
        BY <1>2, <3>1, <3>2, <3>3 DEF Reaches
  <2>q. QED
      BY <2>2, <2>4, <2>6, <2>7 DEF AlertInv
<1>3. CASE ~(Reaches(row, evaluation[e].price) /\ StillActive(row))
  <2>1. alert' = alert /\ notified' = notified
      BY <1>3 DEF Take
  <2>2. AlertTypes'
      BY <1>0, <1>1, <2>1 DEF AlertTypes
  <2>3. NoticeLeft' /\ ReadsStand'
      BY <1>0, <1>1, <2>1 DEF NoticeLeft, ReadsStand
  <2>4. TriggersAtItsTarget
      BY <2>1 DEF TriggersAtItsTarget
  <2>q. QED
      BY <2>2, <2>3, <2>4 DEF AlertInv
<1>q. QED
    BY <1>2, <1>3

\* Nothing else triggers an alert in an evaluation.
LEMMA OthersTriggerNothing ==
    ASSUME AlertInv,
           \/ evaluation' = evaluation \/ edits' # edits
           \/ alert' = alert
    PROVE  TriggersAtItsTarget
BY DEF TriggersAtItsTarget

\* Every step keeps the invariant and triggers rightly.
LEMMA NextAlertInv == AlertInv /\ [AlertsNext]_alertVars => AlertInv' /\ TriggersAtItsTarget
<1> SUFFICES ASSUME AlertInv, [AlertsNext]_alertVars PROVE AlertInv' /\ TriggersAtItsTarget
    OBVIOUS
<1>1. ASSUME NEW a \in Alert, NEW target \in Price, NEW above \in BOOLEAN,
             CreateAlert(a, above, target)
      PROVE  AlertInv' /\ TriggersAtItsTarget
    BY <1>1, EditsKeep, OthersTriggerNothing DEF CreateAlert
<1>2. ASSUME NEW a \in Alert, NEW target \in Price,
             NEW status \in {"ACTIVE", "TRIGGERED", "DISABLED"}, UpdateAlert(a, status, target)
      PROVE  AlertInv' /\ TriggersAtItsTarget
    BY <1>2, EditsKeep, OthersTriggerNothing DEF UpdateAlert
<1>3. ASSUME NEW a \in Alert, DeleteAlert(a) PROVE AlertInv' /\ TriggersAtItsTarget
    BY <1>3, OthersKeep, OthersTriggerNothing DEF DeleteAlert
<1>4. ASSUME NEW e \in Evaluation, NEW price \in Price, Quoted(e, price)
      PROVE  AlertInv' /\ TriggersAtItsTarget
    BY <1>4, OthersKeep, OthersTriggerNothing DEF Quoted
<1>5. ASSUME NEW e \in Evaluation, NEW row \in evaluation[e].todo, Take(e, row)
      PROVE  AlertInv' /\ TriggersAtItsTarget
    BY <1>5, TakeKeeps
<1>6. ASSUME NEW e \in Evaluation, Evaluated(e) PROVE AlertInv' /\ TriggersAtItsTarget
    BY <1>6, OthersKeep, OthersTriggerNothing DEF Evaluated
<1>7. ASSUME UNCHANGED <<alert, evaluation, armed, notified, retargeted>>
      PROVE  AlertInv' /\ TriggersAtItsTarget
    BY <1>7, OthersTriggerNothing DEF AlertInv, AlertTypes, NoticeLeft, ReadsStand
<1>8. ASSUME NEW d \in Device, Register(d) \/ Unregister(d) PROVE AlertInv' /\ TriggersAtItsTarget
    BY <1>7, <1>8 DEF Register, Unregister, alertHistory
<1>9. CASE UNCHANGED alertVars
    BY <1>7, <1>9 DEF alertVars, alertHistory
<1>q. QED
    BY <1>1, <1>2, <1>3, <1>4, <1>5, <1>6, <1>8, <1>9 DEF AlertsNext

\* However many evaluations overlap each other and the owner's edits, an alert is notified of at most
\* once for each time it was made active, and an evaluation triggers it only at the target it has,
\* unless it was edited since that evaluation read it.
THEOREM AlertsRight == AlertsSpec => AlertsTriggerRightly
<1>1. AlertInv /\ [AlertsNext]_alertVars => [OneNoticePerActivation' /\ TriggersAtItsTarget]_alertVars
  <2>1. AlertInv' => OneNoticePerActivation'
      BY DEF AlertInv, NoticeLeft, OneNoticePerActivation
  <2>q. QED
      BY <2>1, NextAlertInv
<1>2. AlertInv /\ [AlertsNext]_alertVars => AlertInv'
    BY NextAlertInv
<1>q. QED
    BY <1>1, <1>2, InitAlertInv, PTL DEF AlertsSpec, AlertsTriggerRightly

-----------------------------------------------------------------------------
(* Induction over the naturals, and what it says of the cooldowns *)

LesserPairs == {p \in Nat \X Nat : p[1] < p[2]}

\* A set of naturals with 0 and with the successor of each of its elements has all of them.
LEMMA InductionOnSets ==
    ASSUME NEW S \in SUBSET Nat, 0 \in S, \A n \in S : n + 1 \in S
    PROVE  \A n \in Nat : n \in S
<1> SUFFICES ASSUME NEW k \in Nat, k \notin S PROVE FALSE
    OBVIOUS
<1>1. IsWellFoundedOn(LesserPairs, Nat)
    BY NatLessThanWellFounded DEF OpToRel, LesserPairs
<1>2. PICK m \in Nat \ S : \A y \in Nat \ S : <<y, m>> \notin LesserPairs
  <2>1. Nat \ S \subseteq Nat /\ Nat \ S # {}
      OBVIOUS
  <2>q. QED
      BY <1>1, <2>1, WFMin
<1>3. m # 0 /\ m - 1 \in Nat /\ (m - 1) + 1 = m
    OBVIOUS
<1>4. m - 1 \notin S
    BY <1>3
<1>5. <<m - 1, m>> \in Nat \X Nat /\ m - 1 < m
    BY <1>3
<1>6. <<m - 1, m>> \in LesserPairs
    BY <1>5 DEF LesserPairs
<1>q. QED
    BY <1>2, <1>3, <1>4, <1>6

\* The first n doublings.
Doubles(n, a) ==
    /\ a \in [0..n -> Nat] /\ a[0] = BaseCooldown
    /\ \A i \in 1..n : a[i] = 2 * a[i - 1]

LEMMA DoublesExist == \A n \in Nat : \E a : Doubles(n, a)
<1> DEFINE S == {n \in Nat : \E a : Doubles(n, a)}
<1>0. BaseCooldown \in Nat
    BY GateAssumption
<1>1. 0 \in S
  <2>1. Doubles(0, [i \in 0..0 |-> BaseCooldown])
      BY <1>0 DEF Doubles
  <2>q. QED
      BY <2>1
<1>2. ASSUME NEW n \in S PROVE n + 1 \in S
  <2>1. PICK a : Doubles(n, a)
      OBVIOUS
  <2> DEFINE b == [i \in 0..(n + 1) |-> IF i = n + 1 THEN 2 * a[n] ELSE a[i]]
  <2>2. n \in Nat /\ n \in 0..n /\ 0 \in 0..n
      OBVIOUS
  <2>3. \A i \in 0..n : a[i] \in Nat
      BY <2>1 DEF Doubles
  <2>4. \A i \in 0..(n + 1) : i = n + 1 \/ i \in 0..n
      BY <2>2
  <2>5. b \in [0..(n + 1) -> Nat]
      BY <2>2, <2>3, <2>4
  <2>6. 0 \in 0..(n + 1) /\ 0 # n + 1 /\ b[0] = BaseCooldown
      BY <2>1, <2>2 DEF Doubles
  <2>7. ASSUME NEW i \in 1..(n + 1) PROVE b[i] = 2 * b[i - 1]
    <3>1. i - 1 \in 0..n /\ i - 1 # n + 1 /\ i - 1 \in 0..(n + 1) /\ i \in 0..(n + 1)
        BY <2>2
    <3>2. b[i - 1] = a[i - 1]
        BY <3>1
    <3>3. CASE i = n + 1
        BY <2>2, <3>1, <3>2, <3>3
    <3>4. CASE i \in 1..n
      <4>1. i # n + 1 /\ b[i] = a[i]
          BY <2>2, <3>1, <3>4
      <4>q. QED
          BY <2>1, <3>2, <3>4, <4>1 DEF Doubles
    <3>q. QED
        BY <2>2, <3>3, <3>4
  <2>8. Doubles(n + 1, b)
      BY <2>5, <2>6, <2>7 DEF Doubles
  <2>q. QED
      BY <2>2, <2>8
<1> HIDE DEF S
<1>3. S \in SUBSET Nat
    BY DEF S
<1>4. \A n \in Nat : n \in S
    BY <1>1, <1>2, <1>3, InductionOnSets
<1>q. QED
    BY <1>4 DEF S

LEMMA DoublesAgree ==
    ASSUME NEW m \in Nat, NEW n \in Nat, NEW a, NEW b, Doubles(m, a), Doubles(n, b),
           NEW j \in Nat, j <= m, j <= n
    PROVE  a[j] = b[j]
<1> DEFINE S == {i \in Nat : i <= m /\ i <= n => a[i] = b[i]}
<1>1. 0 \in S
    BY DEF Doubles
<1>2. ASSUME NEW i \in S PROVE i + 1 \in S
  <2> SUFFICES ASSUME i + 1 <= m, i + 1 <= n PROVE a[i + 1] = b[i + 1]
      OBVIOUS
  <2>1. i \in Nat /\ i + 1 \in 1..m /\ i + 1 \in 1..n /\ (i + 1) - 1 = i /\ i <= m /\ i <= n
      OBVIOUS
  <2>2. a[i + 1] = 2 * a[(i + 1) - 1] /\ b[i + 1] = 2 * b[(i + 1) - 1]
      BY <2>1 DEF Doubles
  <2>q. QED
      BY <2>1, <2>2
<1> HIDE DEF S
<1>3. \A i \in Nat : i \in S
  <2>1. S \in SUBSET Nat
      BY DEF S
  <2>q. QED
      BY <1>1, <1>2, <2>1, InductionOnSets
<1>q. QED
    BY <1>3 DEF S

\* The recursive definition has the value it says.
LEMMA DoubledIs ==
    Doubled = [n \in Nat |-> IF n = 0 THEN BaseCooldown ELSE 2 * Doubled[n - 1]]
<1> DEFINE A(n) == CHOOSE a : Doubles(n, a)
           F == [n \in Nat |-> A(n)[n]]
<1>1. \A n \in Nat : Doubles(n, A(n))
    BY DoublesExist
<1> HIDE DEF A
<1>2. ASSUME NEW n \in Nat PROVE F[n] = IF n = 0 THEN BaseCooldown ELSE 2 * F[n - 1]
  <2>1. CASE n = 0
      BY <1>1, <2>1 DEF Doubles
  <2>2. CASE n # 0
    <3>1. n - 1 \in Nat /\ n \in 1..n /\ n - 1 <= n
        BY <2>2
    <3>2. A(n)[n] = 2 * A(n)[n - 1]
        BY <1>1, <3>1 DEF Doubles
    <3>3. A(n)[n - 1] = A(n - 1)[n - 1]
        BY <1>1, <3>1, DoublesAgree
    <3>q. QED
        BY <2>2, <3>1, <3>2, <3>3
  <2>q. QED
      BY <2>1, <2>2
<1>3. F = [n \in Nat |-> IF n = 0 THEN BaseCooldown ELSE 2 * F[n - 1]]
    BY <1>2
<1> HIDE DEF F
<1>q. QED
    BY <1>3 DEF Doubled

\* No cooldown is below the base (rate-limit.ts:56).
LEMMA CooldownsAreLong == \A n \in Nat : Cooldown(n + 1) \in Nat /\ Cooldown(n + 1) >= BaseCooldown
<1> DEFINE S == {n \in Nat : Doubled[n] \in Nat /\ Doubled[n] >= BaseCooldown}
<1>0. BaseCooldown \in Nat /\ MaxCooldown \in Nat /\ MaxCooldown >= BaseCooldown
    BY GateAssumption
<1>1. Doubled[0] = BaseCooldown
    BY DoubledIs
<1>2. \A n \in Nat : Doubled[n + 1] = 2 * Doubled[n]
  <2> SUFFICES ASSUME NEW n \in Nat PROVE Doubled[n + 1] = 2 * Doubled[n]
      OBVIOUS
  <2>1. n + 1 \in Nat /\ n + 1 # 0 /\ (n + 1) - 1 = n
      OBVIOUS
  <2>2. Doubled[n + 1] = 2 * Doubled[(n + 1) - 1]
      BY <2>1, DoubledIs
  <2>q. QED
      BY <2>1, <2>2
<1>3. 0 \in S
    BY <1>0, <1>1
<1>4. \A n \in S : n + 1 \in S
    BY <1>0, <1>2
<1>5. \A n \in Nat : n \in S
  <2>1. S \in SUBSET Nat
      OBVIOUS
  <2> HIDE DEF S
  <2>q. QED
      BY <1>3, <1>4, <2>1, InductionOnSets
<1>6. ASSUME NEW n \in Nat PROVE Cooldown(n + 1) \in Nat /\ Cooldown(n + 1) >= BaseCooldown
  <2>1. (n + 1) - 1 = n /\ Doubled[n] \in Nat /\ Doubled[n] >= BaseCooldown
      BY <1>5
  <2>q. QED
      BY <1>0, <2>1 DEF Cooldown, Least
<1>q. QED
    BY <1>6

-----------------------------------------------------------------------------
(* The call gate: the inductive invariant *)

GateTypes ==
    /\ now \in Nat
    /\ blockedUntil \in Nat /\ hits \in Nat /\ nextCallAt \in Nat
    /\ sends \in Seq(Nat) /\ calls \subseteq DOMAIN sends
    /\ slot \in [Caller -> Nat \union {Idle, InFlight}]
    /\ sentAt \in [Caller -> Nat]
    /\ blockedAt \in Nat /\ burst \in BOOLEAN

\* The log has every call of the last hour, and no more calls than the quota.
LogIsComplete ==
    MaxCallsPerHour > 0 =>
        /\ Cardinality(calls) <= MaxCallsPerHour
        /\ \A i \in DOMAIN sends : sends[i] <= now /\ (now - sends[i] < Hour => i \in calls)

\* The next slot is an interval after every slot that somebody sleeps for.
NextSlotIsLast ==
    MaxCallsPerHour > 0 => \A c \in Caller : slot[c] >= 0 => slot[c] + Interval <= nextCallAt

\* A block lasts for the base cooldown at least, and a call in flight is not older than an answer.
BlocksAreLong == blockedUntil > 0 => blockedUntil >= blockedAt + BaseCooldown
FlightsAreShort == \A c \in Caller : slot[c] = InFlight => now <= sentAt[c] + ReplyBound

GateInv ==
    /\ GateTypes
    /\ LogIsComplete /\ HourlyCap
    /\ NextSlotIsLast /\ SlotsApart
    /\ BlocksAreLong /\ FlightsAreShort /\ OneBlockPerBurst

-----------------------------------------------------------------------------
(* Steps of the gate *)

LEMMA IntervalIsNat == MaxCallsPerHour > 0 => Interval \in Nat
BY GateAssumption DEF Interval

LEMMA LogIsFinite == GateTypes => IsFiniteSet(calls) /\ IsFiniteSet(DOMAIN sends)
<1> SUFFICES ASSUME GateTypes PROVE IsFiniteSet(calls) /\ IsFiniteSet(DOMAIN sends)
    OBVIOUS
<1>1. Len(sends) \in Nat /\ DOMAIN sends = 1..Len(sends)
    BY DEF GateTypes
<1>2. IsFiniteSet(1..Len(sends))
    BY <1>1, FS_Interval
<1>q. QED
    BY <1>1, <1>2, FS_Subset DEF GateTypes

\* Initially nothing has been sent, and nobody sleeps.
LEMMA GateBegins == Init => GateInv
<1> SUFFICES ASSUME Init PROVE GateInv
    OBVIOUS
<1>1. DOMAIN sends = {} /\ Cardinality(calls) = 0
    BY FS_EmptySet DEF Init
<1>2. GateTypes
  <2>1. sends \in Seq(Nat) /\ calls \subseteq DOMAIN sends
      BY DEF Init
  <2>2. slot \in [Caller -> Nat \union {Idle, InFlight}] /\ sentAt \in [Caller -> Nat]
      BY DEF Init
  <2>q. QED
      BY <2>1, <2>2 DEF Init, GateTypes
<1>q. QED
    BY <1>1, <1>2, GateAssumption
    DEF Init, GateInv, LogIsComplete, HourlyCap, NextSlotIsLast, SlotsApart, BlocksAreLong,
        FlightsAreShort, OneBlockPerBurst, Idle, InFlight

\* A call that is over, refused or answered leaves slots and log as they are.
LEMMA OverKeeps ==
    ASSUME GateTypes, NextSlotIsLast, SlotsApart, FlightsAreShort, HourlyCap, NEW c \in Caller,
           slot' = [slot EXCEPT ![c] = Idle], UNCHANGED <<now, sends, sentAt, nextCallAt>>
    PROVE  /\ slot' \in [Caller -> Nat \union {Idle, InFlight}]
           /\ NextSlotIsLast' /\ SlotsApart' /\ FlightsAreShort' /\ HourlyCap'
<1>1. slot' \in [Caller -> Nat \union {Idle, InFlight}]
    BY DEF GateTypes
<1>2. \A d \in Caller : slot'[d] >= 0 \/ slot'[d] = InFlight => slot'[d] = slot[d]
    BY DEF GateTypes, Idle, InFlight
<1>q. QED
    BY <1>1, <1>2 DEF GateTypes, NextSlotIsLast, SlotsApart, FlightsAreShort, HourlyCap, Interval

LEMMA TickKeeps == ASSUME GateInv, Tick PROVE GateInv'
<1>1. now' = now + 1 /\ UNCHANGED <<gate, slot, sentAt, history>>
    BY DEF Tick
<1>2. GateTypes'
    BY <1>1 DEF GateInv, GateTypes, gate, history
<1>3. LogIsComplete'
  <2> SUFFICES ASSUME MaxCallsPerHour > 0
               PROVE /\ Cardinality(calls) <= MaxCallsPerHour
                     /\ \A i \in DOMAIN sends :
                           sends[i] <= now' /\ (now' - sends[i] < Hour => i \in calls)
      BY <1>1 DEF LogIsComplete, gate, history
  <2>1. now \in Nat /\ Hour \in Nat /\ \A i \in DOMAIN sends : sends[i] \in Nat
      BY GateAssumption DEF GateInv, GateTypes
  <2>q. QED
      BY <1>1, <2>1 DEF GateInv, LogIsComplete
<1>4. HourlyCap' /\ NextSlotIsLast' /\ SlotsApart' /\ BlocksAreLong' /\ OneBlockPerBurst'
    BY <1>1 DEF GateInv, HourlyCap, NextSlotIsLast, SlotsApart, BlocksAreLong, OneBlockPerBurst, Interval,
               gate, history
<1>5. FlightsAreShort'
  <2>1. \A c \in Caller : slot[c] = InFlight => now < sentAt[c] + ReplyBound
      BY DEF Tick
  <2>q. QED
      BY <1>1, <2>1, GateAssumption DEF FlightsAreShort, GateInv, GateTypes
<1>q. QED
    BY <1>2, <1>3, <1>4, <1>5 DEF GateInv

LEMMA ReserveKeeps == ASSUME GateInv, NEW c \in Caller, Reserve(c) PROVE GateInv'
<1> DEFINE next == IF MaxCallsPerHour = 0 THEN now ELSE Later(now, nextCallAt)
<1>1. /\ slot' = [slot EXCEPT ![c] = next]
      /\ MaxCallsPerHour > 0 => nextCallAt' = next + Interval
      /\ MaxCallsPerHour = 0 => nextCallAt' = nextCallAt
      /\ UNCHANGED <<now, blockedUntil, hits, calls, sentAt, history>>
    BY GateAssumption DEF Reserve
<1>2. next \in Nat /\ (MaxCallsPerHour > 0 => next >= nextCallAt)
    BY GateAssumption DEF GateInv, GateTypes, Later
<1> HIDE DEF next
<1>3. GateTypes'
  <2>1. nextCallAt' \in Nat
      BY <1>1, <1>2, IntervalIsNat, GateAssumption DEF GateInv, GateTypes
  <2>2. slot' \in [Caller -> Nat \union {Idle, InFlight}]
      BY <1>1, <1>2 DEF GateInv, GateTypes
  <2>q. QED
      BY <1>1, <2>1, <2>2 DEF GateInv, GateTypes, history
<1>4. LogIsComplete' /\ HourlyCap' /\ BlocksAreLong' /\ OneBlockPerBurst'
    BY <1>1 DEF GateInv, LogIsComplete, HourlyCap, BlocksAreLong, OneBlockPerBurst, history
<1>5. slot'[c] = next /\ \A d \in Caller \ {c} : slot'[d] = slot[d]
    BY <1>1 DEF GateInv, GateTypes
<1>6. FlightsAreShort'
    BY <1>1, <1>2, <1>5 DEF GateInv, FlightsAreShort, InFlight
<1>7. ASSUME MaxCallsPerHour > 0
      PROVE  /\ \A d \in Caller : slot'[d] >= 0 => slot'[d] + Interval <= nextCallAt'
             /\ \A d \in Caller \ {c} : slot[d] >= 0 => next - slot[d] >= Interval
  <2>1. Interval \in Nat /\ nextCallAt \in Nat /\ next >= nextCallAt /\ nextCallAt' = next + Interval
      BY <1>1, <1>2, <1>7, IntervalIsNat DEF GateInv, GateTypes
  <2>2. ASSUME NEW d \in Caller \ {c}, slot[d] >= 0
        PROVE  slot[d] + Interval <= nextCallAt /\ next - slot[d] >= Interval
    <3>1. slot[d] + Interval <= nextCallAt /\ slot[d] \in Int
        BY <1>7, <2>2 DEF GateInv, GateTypes, NextSlotIsLast, Idle, InFlight
    <3>q. QED
        BY <1>2, <2>1, <3>1
  <2>3. next + Interval <= nextCallAt'
      BY <1>2, <2>1
  <2>4. ASSUME NEW d \in Caller, slot'[d] >= 0 PROVE slot'[d] + Interval <= nextCallAt'
    <3>1. CASE d = c
        BY <1>5, <2>3, <3>1
    <3>2. CASE d # c
      <4>1. d \in Caller \ {c} /\ slot[d] \in Int /\ slot[d] >= 0 /\ slot'[d] = slot[d]
          BY <1>5, <2>4, <3>2 DEF GateInv, GateTypes, Idle, InFlight
      <4>2. slot[d] + Interval <= nextCallAt
          BY <2>2, <4>1
      <4>q. QED
          BY <1>2, <2>1, <4>1, <4>2
    <3>q. QED
        BY <3>1, <3>2
  <2>q. QED
      BY <2>2, <2>4
<1>8. NextSlotIsLast'
    BY <1>7 DEF NextSlotIsLast, Interval
<1>9. SlotsApart'
  <2> SUFFICES ASSUME MaxCallsPerHour > 0, NEW d \in Caller, NEW e \in Caller, d # e,
                      slot'[d] >= 0, slot'[e] >= 0
               PROVE  slot'[d] - slot'[e] >= Interval \/ slot'[e] - slot'[d] >= Interval
      BY DEF SlotsApart, Interval
  <2>q. QED
      BY <1>5, <1>7 DEF GateInv, SlotsApart
<1>q. QED
    BY <1>3, <1>4, <1>6, <1>8, <1>9 DEF GateInv

LEMMA RefusedByBlockKeeps == ASSUME GateInv, NEW c \in Caller, RefusedByBlock(c) PROVE GateInv'
<1>1. slot' = [slot EXCEPT ![c] = Idle] /\ UNCHANGED <<now, gate, sentAt, history>>
    BY DEF RefusedByBlock
<1>2. /\ slot' \in [Caller -> Nat \union {Idle, InFlight}]
      /\ NextSlotIsLast' /\ SlotsApart' /\ FlightsAreShort' /\ HourlyCap'
    BY <1>1, OverKeeps DEF GateInv, gate, history
<1>q. QED
    BY <1>1, <1>2 DEF GateInv, GateTypes, LogIsComplete, BlocksAreLong, OneBlockPerBurst, gate, history

LEMMA RecentIsInLog ==
    ASSUME GateTypes
    PROVE  Recent \subseteq calls /\ IsFiniteSet(Recent) /\ Cardinality(Recent) <= Cardinality(calls)
<1>1. Recent \subseteq calls
    BY DEF Recent
<1>q. QED
    BY <1>1, LogIsFinite, FS_Subset

LEMMA RefusedByCapKeeps == ASSUME GateInv, NEW c \in Caller, RefusedByCap(c) PROVE GateInv'
<1>1. /\ slot' = [slot EXCEPT ![c] = Idle] /\ calls' = Recent
      /\ UNCHANGED <<now, blockedUntil, hits, nextCallAt, sentAt, history>>
    BY DEF RefusedByCap
<1>2. /\ slot' \in [Caller -> Nat \union {Idle, InFlight}]
      /\ NextSlotIsLast' /\ SlotsApart' /\ FlightsAreShort' /\ HourlyCap'
    BY <1>1, OverKeeps DEF GateInv, history
<1>3. LogIsComplete'
  <2>1. Recent \subseteq calls /\ Cardinality(Recent) \in Nat /\ Cardinality(calls) \in Nat
        /\ Cardinality(Recent) <= Cardinality(calls)
      BY RecentIsInLog, LogIsFinite, FS_CardinalityType DEF GateInv
  <2>2. MaxCallsPerHour > 0 => Cardinality(Recent) <= MaxCallsPerHour
      BY <2>1, GateAssumption DEF GateInv, LogIsComplete
  <2>q. QED
      BY <1>1, <2>2 DEF GateInv, LogIsComplete, Recent, history
<1>4. GateTypes'
    BY <1>1, <1>2, RecentIsInLog DEF GateInv, GateTypes, history
<1>q. QED
    BY <1>1, <1>2, <1>3, <1>4 DEF GateInv, BlocksAreLong, OneBlockPerBurst, history

LEMMA SendCallKeeps == ASSUME GateInv, NEW c \in Caller, SendCall(c) PROVE GateInv'
<1> DEFINE n == Len(sends) + 1
<1>1. /\ calls' = IF MaxCallsPerHour = 0 THEN calls ELSE Recent \union {n}
      /\ slot' = [slot EXCEPT ![c] = InFlight] /\ sentAt' = [sentAt EXCEPT ![c] = now]
      /\ sends' = IF MaxCallsPerHour = 0 THEN sends ELSE Append(sends, now)
      /\ UNCHANGED <<now, blockedUntil, hits, nextCallAt, blockedAt, burst>>
      /\ MaxCallsPerHour = 0 \/ Cardinality(Recent) < MaxCallsPerHour
    BY DEF SendCall, Sent
<1>2. /\ now \in Nat /\ sends \in Seq(Nat) /\ Len(sends) \in Nat /\ n \in Nat /\ DOMAIN sends = 1..Len(sends)
      /\ n \notin DOMAIN sends /\ \A i \in DOMAIN sends : sends[i] \in Nat
    BY DEF GateInv, GateTypes
<1>3. Hour \in Nat \ {0} /\ MaxCallsPerHour \in Nat /\ ReplyBound \in Nat
    BY GateAssumption
<1>4. MaxCallsPerHour > 0 => /\ sends' \in Seq(Nat) /\ DOMAIN sends' = DOMAIN sends \union {n}
                            /\ sends'[n] = now /\ \A i \in DOMAIN sends : sends'[i] = sends[i]
  <2> SUFFICES ASSUME MaxCallsPerHour > 0
               PROVE  /\ sends' \in Seq(Nat) /\ DOMAIN sends' = DOMAIN sends \union {n}
                      /\ sends'[n] = now /\ \A i \in DOMAIN sends : sends'[i] = sends[i]
      OBVIOUS
  <2>1. sends' = Append(sends, now)
      BY <1>1, <1>3
  <2>2. /\ sends' \in Seq(Nat) /\ Len(sends') = n /\ sends'[n] = now
        /\ \A i \in 1..Len(sends) : sends'[i] = sends[i]
      BY <1>2, <2>1
  <2>3. DOMAIN sends' = 1..n
      BY <2>2
  <2>q. QED
      BY <1>2, <2>2, <2>3
<1>5. /\ Recent \subseteq calls /\ calls \subseteq DOMAIN sends /\ IsFiniteSet(Recent)
      /\ Cardinality(Recent) \in Nat /\ IsFiniteSet(Recent \union {n})
      /\ Cardinality(Recent \union {n}) = Cardinality(Recent) + 1
  <2>1. Recent \subseteq calls /\ calls \subseteq DOMAIN sends /\ IsFiniteSet(Recent)
      BY RecentIsInLog DEF GateInv, GateTypes
  <2>2. n \notin Recent
      BY <1>2, <2>1
  <2>q. QED
      BY <2>1, <2>2, FS_CardinalityType, FS_AddElement
<1> HIDE DEF n
<1>6. GateTypes'
  <2>1. sends' \in Seq(Nat) /\ calls' \subseteq DOMAIN sends'
    <3>1. CASE MaxCallsPerHour = 0
        BY <1>1, <1>2, <1>5, <3>1
    <3>2. CASE MaxCallsPerHour > 0
        BY <1>1, <1>3, <1>4, <1>5, <3>2
    <3>q. QED
        BY <1>3, <3>1, <3>2
  <2>2. slot' \in [Caller -> Nat \union {Idle, InFlight}] /\ sentAt' \in [Caller -> Nat]
      BY <1>1, <1>2 DEF GateInv, GateTypes
  <2>q. QED
      BY <1>1, <2>1, <2>2 DEF GateInv, GateTypes
<1>7. ASSUME MaxCallsPerHour > 0
      PROVE  /\ calls' = Recent \union {n} /\ Cardinality(calls') <= MaxCallsPerHour
             /\ \A i \in DOMAIN sends : sends[i] <= now /\ (now - sends[i] < Hour => i \in Recent)
  <2>1. calls' = Recent \union {n} /\ Cardinality(Recent) < MaxCallsPerHour
      BY <1>1, <1>3, <1>7
  <2>2. Cardinality(calls') <= MaxCallsPerHour
      BY <1>3, <1>5, <2>1
  <2>3. \A i \in DOMAIN sends : sends[i] <= now /\ (now - sends[i] < Hour => i \in Recent)
      BY <1>7 DEF GateInv, LogIsComplete, Recent
  <2>q. QED
      BY <2>1, <2>2, <2>3
<1>8. LogIsComplete'
  <2> SUFFICES ASSUME MaxCallsPerHour > 0
               PROVE  /\ Cardinality(calls') <= MaxCallsPerHour
                      /\ \A i \in DOMAIN sends' : sends'[i] <= now /\ (now - sends'[i] < Hour => i \in calls')
      BY <1>1 DEF LogIsComplete
  <2>q. QED
      BY <1>2, <1>4, <1>7
<1>9. HourlyCap'
  <2> SUFFICES ASSUME MaxCallsPerHour > 0, NEW i \in DOMAIN sends'
               PROVE  Cardinality({j \in DOMAIN sends' :
                                     sends'[j] >= sends'[i] /\ sends'[j] - sends'[i] < Hour})
                          <= MaxCallsPerHour
      BY DEF HourlyCap
  <2> DEFINE W == {j \in DOMAIN sends' : sends'[j] >= sends'[i] /\ sends'[j] - sends'[i] < Hour}
  <2>1. CASE now - sends'[i] < Hour
    <3>1. W \subseteq calls'
      <4> SUFFICES ASSUME NEW j \in W PROVE j \in Recent \union {n}
          BY <1>7
      <4>1. CASE j = n
          BY <4>1
      <4>2. CASE j \in DOMAIN sends
        <5>1. sends'[j] = sends[j] /\ sends[j] \in Nat /\ sends[j] >= sends'[i] /\ sends'[i] \in Nat
            BY <1>2, <1>4, <4>2
        <5>2. now - sends[j] < Hour
            BY <1>2, <1>3, <2>1, <5>1
        <5>q. QED
            BY <1>7, <4>2, <5>2
      <4>q. QED
          BY <1>4, <4>1, <4>2
    <3>2. IsFiniteSet(calls')
        BY <1>5, <1>7
    <3>3. Cardinality(W) <= Cardinality(calls') /\ Cardinality(W) \in Nat /\ Cardinality(calls') \in Nat
        BY <3>1, <3>2, FS_Subset, FS_CardinalityType
    <3>q. QED
        BY <1>3, <1>7, <3>3
  <2>2. CASE ~(now - sends'[i] < Hour)
    <3>1. i \in DOMAIN sends
      <4>1. i # n
          BY <1>2, <1>3, <1>4, <2>2
      <4>q. QED
          BY <1>4, <4>1
    <3>2. W = {j \in DOMAIN sends : sends[j] >= sends[i] /\ sends[j] - sends[i] < Hour}
        BY <1>2, <1>3, <1>4, <2>2, <3>1
    <3>q. QED
        BY <3>1, <3>2 DEF GateInv, HourlyCap
  <2>q. QED
      BY <2>1, <2>2
<1>10. /\ slot'[c] = InFlight /\ sentAt'[c] = now
       /\ \A d \in Caller \ {c} : slot'[d] = slot[d] /\ sentAt'[d] = sentAt[d]
    BY <1>1 DEF GateInv, GateTypes
<1>11. NextSlotIsLast' /\ SlotsApart'
  <2>1. \A d \in Caller : slot'[d] >= 0 => slot'[d] = slot[d]
      BY <1>10 DEF InFlight
  <2>q. QED
      BY <1>1, <2>1 DEF GateInv, NextSlotIsLast, SlotsApart, Interval
<1>12. FlightsAreShort'
    BY <1>1, <1>2, <1>3, <1>10 DEF GateInv, FlightsAreShort
<1>13. BlocksAreLong' /\ OneBlockPerBurst'
    BY <1>1 DEF GateInv, BlocksAreLong, OneBlockPerBurst
<1>q. QED
    BY <1>6, <1>8, <1>9, <1>11, <1>12, <1>13 DEF GateInv

LEMMA AnswersKeep ==
    ASSUME GateInv, NEW c \in Caller, Succeeds(c) \/ GoesUnanswered(c) PROVE GateInv'
<1>1. /\ slot' = [slot EXCEPT ![c] = Idle] /\ hits' \in Nat
      /\ UNCHANGED <<now, blockedUntil, calls, nextCallAt, sentAt, history>>
    BY DEF Succeeds, GoesUnanswered, gate, GateInv, GateTypes
<1>2. /\ slot' \in [Caller -> Nat \union {Idle, InFlight}]
      /\ NextSlotIsLast' /\ SlotsApart' /\ FlightsAreShort' /\ HourlyCap'
    BY <1>1, OverKeeps DEF GateInv, history
<1>q. QED
    BY <1>1, <1>2 DEF GateInv, GateTypes, LogIsComplete, BlocksAreLong, OneBlockPerBurst, history

LEMMA RateLimitedKeeps == ASSUME GateInv, NEW c \in Caller, RateLimited(c) PROVE GateInv'
<1>1. /\ slot[c] = InFlight /\ slot' = [slot EXCEPT ![c] = Idle]
      /\ UNCHANGED <<now, calls, nextCallAt, sentAt, sends>>
    BY DEF RateLimited, Refused
<1>2. /\ slot' \in [Caller -> Nat \union {Idle, InFlight}]
      /\ NextSlotIsLast' /\ SlotsApart' /\ FlightsAreShort' /\ HourlyCap'
    BY <1>1, OverKeeps DEF GateInv
<1>3. LogIsComplete'
    BY <1>1 DEF GateInv, LogIsComplete
<1>4. CASE Blocked
  <2>1. UNCHANGED <<hits, blockedUntil, blockedAt, burst>>
      BY <1>4 DEF RateLimited
  <2>q. QED
      BY <1>1, <1>2, <1>3, <2>1 DEF GateInv, GateTypes, BlocksAreLong, OneBlockPerBurst
<1>5. CASE ~Blocked
  <2>1. /\ hits' = hits + 1 /\ blockedUntil' = now + Cooldown(hits + 1) /\ blockedAt' = now
        /\ burst' = (burst \/ (blockedUntil > 0 /\ sentAt[c] < blockedAt))
      BY <1>5 DEF RateLimited, Block
  <2>2. /\ now \in Nat /\ hits \in Nat /\ blockedUntil \in Nat /\ blockedAt \in Nat /\ sentAt[c] \in Nat
        /\ burst \in BOOLEAN
      BY DEF GateInv, GateTypes
  <2>3. Cooldown(hits + 1) \in Nat /\ Cooldown(hits + 1) >= BaseCooldown
      BY <2>2, CooldownsAreLong
  <2>4. BlocksAreLong'
      BY <2>1, <2>2, <2>3, GateAssumption DEF BlocksAreLong
  <2>5. GateTypes'
    <3>1. burst' \in BOOLEAN
        BY <2>1
    <3>q. QED
        BY <1>1, <1>2, <2>1, <2>2, <2>3, <3>1 DEF GateInv, GateTypes
  <2>6. OneBlockPerBurst'
    <3> SUFFICES ASSUME ReplyBound < BaseCooldown, blockedUntil > 0, sentAt[c] < blockedAt PROVE FALSE
        BY <2>1 DEF GateInv, OneBlockPerBurst
    <3>1. blockedUntil >= blockedAt + BaseCooldown /\ now <= sentAt[c] + ReplyBound
        BY <1>1 DEF GateInv, BlocksAreLong, FlightsAreShort
    <3>2. now >= blockedUntil
        BY <1>5, <2>2 DEF Blocked
    <3>q. QED
        BY <2>2, <3>1, <3>2, GateAssumption
  <2>q. QED
      BY <1>2, <1>3, <2>4, <2>5, <2>6 DEF GateInv
<1>q. QED
    BY <1>4, <1>5

LEMMA GateStep == GateInv /\ [Next]_vars => GateInv'
<1> SUFFICES ASSUME GateInv, [Next]_vars PROVE GateInv'
    OBVIOUS
<1>1. CASE UNCHANGED vars
    BY <1>1 DEF vars, gate, history, GateInv, GateTypes, LogIsComplete, HourlyCap, NextSlotIsLast, SlotsApart,
                BlocksAreLong, FlightsAreShort, OneBlockPerBurst, Interval
<1>2. CASE Tick
    BY <1>2, TickKeeps
<1>3. ASSUME NEW c \in Caller, \/ Reserve(c) \/ RefusedByBlock(c) \/ RefusedByCap(c) \/ SendCall(c)
                              \/ Succeeds(c) \/ GoesUnanswered(c) \/ RateLimited(c)
      PROVE  GateInv'
    BY <1>3, ReserveKeeps, RefusedByBlockKeeps, RefusedByCapKeeps, SendCallKeeps, AnswersKeep,
       RateLimitedKeeps
<1>q. QED
    BY <1>1, <1>2, <1>3 DEF Next

LEMMA AlwaysGateInv == Spec => []GateInv
BY GateBegins, GateStep, PTL DEF Spec

\* No rolling hour holds more calls than the quota, and no two callers sleep until slots closer than
\* the interval, whatever blocks, refusals and late timers do (rate-limit.ts:16-49).
THEOREM QuotaKept == Spec => []CallsKeepTheQuota
<1>1. GateInv => CallsKeepTheQuota
    BY DEF GateInv, CallsKeepTheQuota
<1>q. QED
    BY <1>1, AlwaysGateInv, PTL

\* If answers come sooner than the shortest cooldown, the replies to the calls that were in flight when a
\* block began neither lengthen it nor begin the next (rate-limit.ts:51-59).
THEOREM BurstsBlockOnce == Spec => []OneBlockPerBurst
<1>1. GateInv => OneBlockPerBurst
    BY DEF GateInv
<1>q. QED
    BY <1>1, AlwaysGateInv, PTL
=============================================================================
