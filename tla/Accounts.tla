------------------------------ MODULE Accounts ------------------------------
(***************************************************************************)
(* Accounts and sessions of the two portals (modules/auth): registration   *)
(* by a mailed code, Google login, password login, refresh tokens, the     *)
(* password reset and the administrator's changes.  What runs in one       *)
(* transaction is split where it waits for a lock or reads a snapshot.     *)
(***************************************************************************)
EXTENDS Integers, FiniteSets, Sequences

CONSTANTS
    Person,         \* e-mail addresses, each with its Google account
    Call,           \* bound: requests under way at a time
    MaxRequests     \* bound: requests ever made

ASSUME AccountsAssumption == MaxRequests \in Nat

VARIABLES
    account,        \* users and auth_accounts: the account of each address; id 0: none
    accounts,       \* accounts ever made
    tokens,         \* refresh_tokens
    codes,          \* registration_verifications
    links,          \* password_reset_tokens
    call,           \* where each request is suspended, and the rows it has seen or locked
    requests,
    ended,          \* history: families alive when a reset revoked them
    beside,         \* history: addresses for which two registrations overlapped
    cutOff,         \* history: accounts whose Google login stopped before the link
    switched        \* history: accounts whose role was changed

accountsHistory == <<ended, beside, cutOff, switched>>
accountsVars == <<account, accounts, tokens, codes, links, call, requests, accountsHistory>>

NoAccount == [id |-> 0, role |-> "user", password |-> FALSE, google |-> FALSE]
Nothing == [at |-> "idle", who |-> 0, id |-> 0, row |-> 0, portal |-> "user", seen |-> {}]

AccountsInit ==
    /\ account = [p \in Person |-> NoAccount] /\ accounts = 0
    /\ tokens = <<>> /\ codes = <<>> /\ links = <<>>
    /\ call = [c \in Call |-> Nothing] /\ requests = 0
    /\ ended = {} /\ beside = {} /\ cutOff = {} /\ switched = {}

Exists(p) == account[p].id # 0
Present(c) == account[call[c].who].id = call[c].id

At(c, place) == call[c].at = place
Asked == requests < MaxRequests /\ requests' = requests + 1
Begins(c, place, p, row, portal, seen) ==
    /\ At(c, "idle") /\ Asked
    /\ call' = [call EXCEPT ![c] = [at |-> place, who |-> p, id |-> account[p].id, row |-> row,
                                    portal |-> portal, seen |-> seen]]
Moves(c, place) == call' = [call EXCEPT ![c].at = place]
Ends(c) == call' = [call EXCEPT ![c] = Nothing]

MakeAccount(p, role, password) ==
    /\ accounts' = accounts + 1
    /\ account' = [account EXCEPT ![p] = [id |-> accounts + 1, role |-> role,
                                          password |-> password, google |-> FALSE]]

-------------------------------------------------------------------------------
(* Registration *)

OpenCodes(p) == {k \in DOMAIN codes : codes[k].who = p /\ ~codes[k].consumed}

\* Rows whose update waits for a registration to commit.
LockedCode(k) == \E c \in Call : At(c, "inserting") /\ k \in call[c].seen

RequestRegistration(c, p) ==
    /\ ~Exists(p)
    /\ Begins(c, "registering", p, 0, "user", {})
    /\ UNCHANGED <<account, accounts, tokens, codes, links, accountsHistory>>

\* The update that consumes the open codes sees what is committed when it starts.
ConsumeOpenCodes(c) ==
    /\ At(c, "registering")
    /\ call' = [call EXCEPT ![c].at = "inserting", ![c].seen = OpenCodes(call[c].who)]
    /\ beside' = beside \union {call[d].who : d \in {d \in Call \ {c} :
                                    At(d, "inserting") /\ call[d].who = call[c].who}}
    /\ UNCHANGED <<account, accounts, tokens, codes, links, requests, ended, cutOff, switched>>

InsertCode(c) ==
    /\ At(c, "inserting")
    /\ codes' = Append([k \in DOMAIN codes |->
                            IF k \in call[c].seen THEN [codes[k] EXCEPT !.consumed = TRUE] ELSE codes[k]],
                       [who |-> call[c].who, consumed |-> FALSE, fresh |-> TRUE, resendable |-> FALSE,
                        made |-> 0])
    /\ Ends(c)
    /\ UNCHANGED <<account, accounts, tokens, links, requests, accountsHistory>>

\* resendUserRegistrationOtp: a read, then an update that looks at nothing.
ResendReads(c, k) ==
    /\ ~codes[k].consumed /\ codes[k].fresh /\ codes[k].resendable
    /\ Begins(c, "resending", codes[k].who, k, "user", {})
    /\ UNCHANGED <<account, accounts, tokens, codes, links, accountsHistory>>

ResendWrites(c) ==
    /\ At(c, "resending") /\ ~LockedCode(call[c].row)
    /\ codes' = [codes EXCEPT ![call[c].row] = [@ EXCEPT !.fresh = TRUE, !.resendable = FALSE]]
    /\ Ends(c)
    /\ UNCHANGED <<account, accounts, tokens, links, requests, accountsHistory>>

\* RESEND_COOLDOWN passes, then OTP_EXPIRY.
CodeAges(k) ==
    /\ codes[k].fresh
    /\ codes' = [codes EXCEPT ![k] = IF @.resendable THEN [@ EXCEPT !.fresh = FALSE]
                                     ELSE [@ EXCEPT !.resendable = TRUE]]
    /\ UNCHANGED <<account, accounts, tokens, links, call, requests, accountsHistory>>

\* The right code: one transaction.  All that an error writes before it throws is rolled back,
\* the count of attempts and the consumption of an expired row included.
VerifyCode(c, k) ==
    /\ ~codes[k].consumed /\ codes[k].fresh /\ ~LockedCode(k)
    /\ ~Exists(codes[k].who)
    /\ At(c, "idle") /\ Asked
    /\ MakeAccount(codes[k].who, "user", TRUE)
    /\ codes' = [codes EXCEPT ![k].consumed = TRUE, ![k].made = @ + 1]
    /\ call' = [call EXCEPT ![c] = [Nothing EXCEPT !.at = "entering", !.who = codes[k].who,
                                                   !.id = accounts + 1]]
    /\ UNCHANGED <<tokens, links, accountsHistory>>

-------------------------------------------------------------------------------
(* Logins *)

\* evaluatePortalAccess
PortalAccess(role, portal) == (role = "admin") <=> (portal = "admin")

Portals == {"user", "admin"}

\* loginWithPassword up to the insert of the session.
PasswordLogin(c, p, portal) ==
    /\ Exists(p) /\ account[p].password
    /\ PortalAccess(account[p].role, portal)
    /\ Begins(c, "entering", p, 0, portal, {})
    /\ UNCHANGED <<account, accounts, tokens, codes, links, accountsHistory>>

\* findOrCreateUser: what happens is decided by this read.
GoogleLogin(c, p) ==
    /\ account[p].password => account[p].google
    /\ Begins(c, IF Exists(p) THEN "linking" ELSE "creating", p, 0, account[p].role, {})
    /\ UNCHANGED <<account, accounts, tokens, codes, links, accountsHistory>>

\* Mutant: the request ends with the account, before its link.
GoogleCreatesOnly(c) ==
    /\ At(c, "creating")
    /\ IF Exists(call[c].who) THEN UNCHANGED <<account, accounts>>
       ELSE MakeAccount(call[c].who, "user", FALSE)
    /\ Ends(c)
    /\ UNCHANGED <<tokens, codes, links, requests, accountsHistory>>

GoogleCreates(c) ==
    /\ At(c, "creating")
    /\ IF Exists(call[c].who) THEN Ends(c) /\ UNCHANGED <<account, accounts>>
       ELSE /\ MakeAccount(call[c].who, "user", FALSE)
            /\ call' = [call EXCEPT ![c].at = "linking", ![c].id = accounts + 1]
    /\ UNCHANGED <<tokens, codes, links, requests, accountsHistory>>

\* The link is inserted, or is there already; then the portal is checked.
GoogleLinks(c) ==
    /\ At(c, "linking")
    /\ account' = IF Present(c) THEN [account EXCEPT ![call[c].who].google = TRUE] ELSE account
    /\ IF Present(c) /\ PortalAccess(call[c].portal, "user") THEN Moves(c, "entering") ELSE Ends(c)
    /\ UNCHANGED <<accounts, tokens, codes, links, requests, accountsHistory>>

Token(c, family) ==
    [who |-> call[c].who, id |-> call[c].id, portal |-> call[c].portal, family |-> family,
     is |-> "live"]

\* createSession.  The foreign key refuses the row of a deleted account.
CreateSession(c) ==
    /\ At(c, "entering")
    /\ tokens' = IF Present(c) THEN Append(tokens, Token(c, Len(tokens) + 1)) ELSE tokens
    /\ Ends(c)
    /\ UNCHANGED <<account, accounts, codes, links, requests, accountsHistory>>

-------------------------------------------------------------------------------
(* Refresh tokens *)

LockedToken(i) == \E c \in Call : At(c, "rotating") /\ call[c].row = i

\* Mutant: the row is read without a lock.
RotateUnlocked(c, i) ==
    /\ tokens[i].is = "live"
    /\ Begins(c, "rotating", tokens[i].who, i, tokens[i].portal, {})
    /\ UNCHANGED <<account, accounts, tokens, codes, links, accountsHistory>>

\* rotateRefreshToken: the locked read.  A revoked or an expired token is refused, and the
\* revocation of its family is rolled back with the error.
RotateReads(c, i) ==
    /\ tokens[i].is = "live" /\ ~LockedToken(i)
    /\ Begins(c, "rotating", tokens[i].who, i, tokens[i].portal, {})
    /\ UNCHANGED <<account, accounts, tokens, codes, links, accountsHistory>>

RotateCommits(c) ==
    /\ At(c, "rotating")
    /\ tokens' = Append([tokens EXCEPT ![call[c].row].is = "revoked"],
                        Token(c, tokens[call[c].row].family))
    /\ Ends(c)
    /\ UNCHANGED <<account, accounts, codes, links, requests, accountsHistory>>

\* revokeRefreshToken
Logout(i) ==
    /\ tokens[i].is \in {"live", "expired"} /\ ~LockedToken(i) /\ Asked
    /\ tokens' = [tokens EXCEPT ![i].is = "revoked"]
    /\ UNCHANGED <<account, accounts, codes, links, call, accountsHistory>>

TokenExpires(i) ==
    /\ tokens[i].is = "live" /\ ~LockedToken(i)
    /\ tokens' = [tokens EXCEPT ![i].is = "expired"]
    /\ UNCHANGED <<account, accounts, codes, links, call, requests, accountsHistory>>

-------------------------------------------------------------------------------
(* Password reset *)

RequestPasswordReset(p) ==
    /\ Exists(p) /\ account[p].password /\ Asked
    /\ links' = Append(links, [who |-> p, id |-> account[p].id, open |-> TRUE])
    /\ UNCHANGED <<account, accounts, tokens, codes, call, accountsHistory>>

LinkExpires(l) ==
    /\ links[l].open
    /\ \A c \in Call : At(c, "resetting") => call[c].row # l
    /\ links' = [links EXCEPT ![l].open = FALSE]
    /\ UNCHANGED <<account, accounts, tokens, codes, call, requests, accountsHistory>>

\* The transaction holds the link and the user; its last update sees the tokens committed now.
Resetting(p) == \E c \in Call : At(c, "resetting") /\ call[c].who = p
Unrevoked(p) == {i \in DOMAIN tokens : tokens[i].who = p /\ tokens[i].is \in {"live", "expired"}}

ResetRevokes(c, l) ==
    LET p == links[l].who IN
    /\ links[l].open /\ links[l].id = account[p].id /\ ~Resetting(p)
    /\ Begins(c, "resetting", p, l, "user", Unrevoked(p))
    /\ UNCHANGED <<account, accounts, tokens, codes, links, accountsHistory>>

\* Families whose token is being, or has just been, replaced are not counted among those ended.
ResetCommits(c) ==
    /\ At(c, "resetting")
    /\ \A i \in call[c].seen : ~LockedToken(i)
    /\ links' = [links EXCEPT ![call[c].row].open = FALSE]
    /\ tokens' = [i \in DOMAIN tokens |->
                    IF i \in call[c].seen /\ tokens[i].is \in {"live", "expired"}
                    THEN [tokens[i] EXCEPT !.is = "revoked"] ELSE tokens[i]]
    /\ ended' = ended \union
                ({tokens[i].family : i \in call[c].seen}
                    \ {tokens[i].family : i \in Unrevoked(call[c].who) \ call[c].seen})
    /\ Ends(c)
    /\ UNCHANGED <<account, accounts, codes, requests, beside, cutOff, switched>>

-------------------------------------------------------------------------------
(* The administrator, and the process *)

CreateAdminUser(c, p) ==
    /\ ~Exists(p)
    /\ Begins(c, "adding", p, 0, "admin", {})
    /\ UNCHANGED <<account, accounts, tokens, codes, links, accountsHistory>>

AdminUserInserted(c) ==
    /\ At(c, "adding")
    /\ IF Exists(call[c].who) THEN UNCHANGED <<account, accounts>>
       ELSE MakeAccount(call[c].who, "admin", TRUE)
    /\ Ends(c)
    /\ UNCHANGED <<tokens, codes, links, requests, accountsHistory>>

UpdateUserRole(p) ==
    /\ Exists(p) /\ ~Resetting(p) /\ Asked
    /\ account' = [account EXCEPT ![p].role = IF @ = "user" THEN "admin" ELSE "user"]
    /\ switched' = switched \union {account[p].id}
    /\ UNCHANGED <<accounts, tokens, codes, links, call, ended, beside, cutOff>>

\* The rows of the account go with it.
DeleteUser(p) ==
    /\ Exists(p) /\ ~Resetting(p) /\ Asked
    /\ \A i \in DOMAIN tokens : tokens[i].who = p => ~LockedToken(i)
    /\ account' = [account EXCEPT ![p] = NoAccount]
    /\ tokens' = [i \in DOMAIN tokens |-> IF tokens[i].who = p THEN [tokens[i] EXCEPT !.is = "gone"]
                                          ELSE tokens[i]]
    /\ UNCHANGED <<accounts, codes, links, call, accountsHistory>>

\* The process exits, or a statement fails: what was not committed is rolled back.
CallDies(c) ==
    /\ ~At(c, "idle")
    /\ cutOff' = IF At(c, "linking") THEN cutOff \union {call[c].id} ELSE cutOff
    /\ Ends(c)
    /\ UNCHANGED <<account, accounts, tokens, codes, links, requests, ended, beside, switched>>

AccountsNext ==
    \/ \E c \in Call :
          \/ \E p \in Person :
                \/ RequestRegistration(c, p) \/ GoogleLogin(c, p) \/ CreateAdminUser(c, p)
                \/ \E portal \in Portals : PasswordLogin(c, p, portal)
          \/ \E k \in DOMAIN codes : ResendReads(c, k) \/ VerifyCode(c, k)
          \/ \E i \in DOMAIN tokens : RotateReads(c, i)
          \/ \E l \in DOMAIN links : ResetRevokes(c, l)
          \/ ConsumeOpenCodes(c) \/ InsertCode(c) \/ ResendWrites(c)
          \/ GoogleCreates(c) \/ GoogleLinks(c) \/ CreateSession(c) \/ RotateCommits(c)
          \/ ResetCommits(c) \/ AdminUserInserted(c) \/ CallDies(c)
    \/ \E k \in DOMAIN codes : CodeAges(k)
    \/ \E i \in DOMAIN tokens : Logout(i) \/ TokenExpires(i)
    \/ \E l \in DOMAIN links : LinkExpires(l)
    \/ \E p \in Person : RequestPasswordReset(p) \/ UpdateUserRole(p) \/ DeleteUser(p)

AccountsSpec == AccountsInit /\ [][AccountsNext]_accountsVars

-------------------------------------------------------------------------------
(* Properties *)

\* Types of the rows (db/schema/auth.ts) and of the requests under way.
AccountsTypeOK ==
    /\ account \in [Person -> [id : 0..MaxRequests, role : Portals, password : BOOLEAN,
                               google : BOOLEAN]]
    /\ accounts \in 0..MaxRequests /\ requests \in 0..MaxRequests
    /\ tokens \in Seq([who : Person, id : Nat, portal : Portals, family : Nat,
                       is : {"live", "expired", "revoked", "gone"}])
    /\ codes \in Seq([who : Person, consumed : BOOLEAN, fresh : BOOLEAN, resendable : BOOLEAN,
                      made : Nat])
    /\ links \in Seq([who : Person, id : Nat, open : BOOLEAN])
    /\ \A c \in Call : At(c, "idle") \/ (call[c].who \in Person /\ call[c].seen \subseteq Nat)

\* Rotations of one family take place one after another: it never has two tokens that can
\* still be exchanged (session.service.ts:70-136).
FamilyHasOneLiveToken ==
    \A i, j \in DOMAIN tokens :
        tokens[i].is = "live" /\ tokens[j].is = "live" /\ tokens[i].family = tokens[j].family => i = j

\* After a reset no family of before it has a token that can be exchanged, unless a rotation
\* of that family overlapped the reset (password-reset.service.ts:69-72).
ResetEndsSessions == \A i \in DOMAIN tokens : tokens[i].is = "live" => tokens[i].family \notin ended

\* A verification makes at most one account, however resends, repeated submissions and the
\* deletion of the account interleave (registration.service.ts:100, :186).
CodeMakesOneAccount == \A k \in DOMAIN codes : codes[k].made <= 1

\* An address has at most one open verification, unless two registrations overlapped
\* (registration.service.ts:44-52).
OneOpenCode == \A p \in Person \ beside : Cardinality(OpenCodes(p)) <= 1

\* Every account has a way in: a password, or its Google link, or the link is about to be made;
\* only a login that was cut off between its two inserts leaves neither (google-auth.service.ts:220).
EveryAccountHasAWayIn ==
    \A p \in Person :
        Exists(p) => \/ account[p].password \/ account[p].google \/ account[p].id \in cutOff
                     \/ \E c \in Call : At(c, "linking") /\ Present(c) /\ call[c].who = p

\* A token that can be exchanged belongs to the account that now has its address, and its
\* portal fits the account's role as long as the role was never changed.
TokensFitTheirAccount ==
    \A i \in DOMAIN tokens : tokens[i].is = "live" =>
        /\ account[tokens[i].who].id = tokens[i].id
        /\ \/ tokens[i].id \in switched
           \/ PortalAccess(account[tokens[i].who].role, tokens[i].portal)

\* Tokens: one per family, none of a family that a reset ended, each for its own account.
\* Codes: one account each, one open per address.
CredentialsAreSound ==
    /\ FamilyHasOneLiveToken /\ ResetEndsSessions /\ TokensFitTheirAccount
    /\ CodeMakesOneAccount /\ OneOpenCode

==============================================================================
