-------------------------------- MODULE OAuth --------------------------------
(***************************************************************************)
(* The authorization server of the MCP connector: client registration,     *)
(* consent, the token endpoint and revocation (internal/mcpserver and      *)
(* internal/store/oauth.go).                                               *)
(*                                                                         *)
(* A user's consent creates an authorization code; the client exchanges it *)
(* for an access and a refresh token, which share a connection; presenting *)
(* the refresh token replaces both; an administrator revokes a connection. *)
(* Each database statement (and the one transaction, ConsumeAuthCode) is a *)
(* step; requests interleave between them.                                 *)
(*                                                                         *)
(* A request the server refuses changes nothing and is not a step. Whether *)
(* an unexpired row, the redirect URI, the verifier or the client's secret *)
(* is right is the choice of the request.                                  *)
(***************************************************************************)
EXTENDS Naturals, FiniteSets

CONSTANTS
  Clients,      \* client ids that registration may hand out
  Grants,       \* an approving user, with the grants chosen
  Workers,      \* requests to the token endpoint
  Faults,       \* TRUE: a statement may fail, and the process may die
  MaxConsents,  \* bound: consents given
  MaxIds        \* bound: no request that mints begins beyond this identifier

ASSUME ModeAssumption  == Faults \in BOOLEAN
ASSUME BoundAssumption == MaxConsents \in Nat /\ MaxIds \in Nat

VARIABLES
  clients,   \* table oauth_clients
  codes,     \* table oauth_codes
  tokens,    \* table oauth_tokens
  next,      \* the next random identifier: of a code, connection or token
  job,       \* the requests in progress at the token endpoint
  approved,  \* history: every consent given, as its code
  revoked,   \* history: connections revoked; and those of them that were
             \* revoked while no request was minting for them
  doubled    \* history: connections whose rotation was disturbed: a refresh
             \* token presented again in mid-rotation, or not deleted by it

vars == <<clients, codes, tokens, next, job, approved, revoked, doubled>>
history == <<approved, revoked, doubled>>

Code  == [code : Nat, client : Clients, grant : Grants]
(* code is the consent a connection descends from; no column records it.   *)
Owner == [code : Nat, conn : Nat, client : Clients, grant : Grants]
Token == [id : Nat, kind : {"access", "refresh"}, owner : Owner]

NoJob == [pc |-> "idle"]
Job   == [pc : {"rotate", "access", "refresh"}, old : Nat, owner : Owner]
At(w, l) == job[w].pc = l
Done(w)  == job' = [job EXCEPT ![w] = NoJob]

(* Requests that will create tokens of a connection.                       *)
Minting(conn) == {w \in Workers : ~At(w, "idle") /\ job[w].owner.conn = conn}

Init ==
  /\ clients = {} /\ codes = {} /\ tokens = {} /\ next = 1
  /\ job = [w \in Workers |-> NoJob]
  /\ approved = {} /\ doubled = {}
  /\ revoked = [any |-> {}, quiet |-> {}]

-----------------------------------------------------------------------------
(* The statements of store/oauth.go that these requests use.               *)
CreateOAuthClient(c)  == clients' = clients \union {c}
GetOAuthClient(c)     == c \in clients
CreateAuthCode(k)     == codes' = codes \union {k}
ConsumeAuthCode(k)    == k \in codes /\ codes' = codes \ {k}
FindToken(kind, t)    == t \in tokens /\ t.kind = kind
DeleteToken(id)       == tokens' = {t \in tokens : t.id # id}
DeleteConnection(n)   == /\ \E t \in tokens : t.owner.conn = n
                         /\ tokens' = {t \in tokens : t.owner.conn # n}

CreateToken(kind, o) ==
  /\ tokens' = tokens \union {[id |-> next, kind |-> kind, owner |-> o]}
  /\ next' = next + 1

-----------------------------------------------------------------------------
(* handleRegister: a fresh client id.                                      *)
Register(c) ==
  /\ c \notin clients
  /\ CreateOAuthClient(c)
  /\ UNCHANGED <<codes, tokens, next, job, history>>

(* HandleConsentSubmit with action "approve", and issueCode.               *)
Approve(c, g) ==
  /\ GetOAuthClient(c)
  /\ Cardinality(approved) < MaxConsents
  /\ LET k == [code |-> next, client |-> c, grant |-> g]
     IN  CreateAuthCode(k) /\ approved' = approved \union {k}
  /\ next' = next + 1
  /\ UNCHANGED <<clients, tokens, job, revoked, doubled>>

-----------------------------------------------------------------------------
(* The token endpoint.                                                     *)

MayMint(w) == At(w, "idle") /\ next <= MaxIds

(* A client that is confidential has also sent its secret.                 *)
AuthenticateClient(c) == GetOAuthClient(c)

(* Mutant: the grants of the code are not carried over.                    *)
BeginWithoutGrants(w, k, c) ==
  /\ job' = [job EXCEPT ![w] =
       [pc |-> "access", old |-> 0,
        owner |-> [code |-> k.code, conn |-> next,
                   client |-> c, grant |-> {}]]]
  /\ next' = next + 1

(* The connection and its owner, from the consumed code.                   *)
Begin(w, k, c) ==
  /\ job' = [job EXCEPT ![w] =
       [pc |-> "access", old |-> 0,
        owner |-> [code |-> k.code, conn |-> next,
                   client |-> c, grant |-> k.grant]]]
  /\ next' = next + 1

(* Mutants: the code is read and not deleted; the client that presents it  *)
(* is not compared with the one it was issued to.                          *)
ExchangeKeepsCode(w, c, k, fits) ==
  /\ MayMint(w) /\ AuthenticateClient(c) /\ k \in codes
  /\ fits /\ k.client = c
  /\ Begin(w, k, c)
  /\ UNCHANGED <<clients, codes, tokens, history>>
ExchangeAnyClient(w, c, k, fits) ==
  /\ MayMint(w) /\ AuthenticateClient(c) /\ ConsumeAuthCode(k)
  /\ IF fits THEN Begin(w, k, c) ELSE UNCHANGED <<job, next>>
  /\ UNCHANGED <<clients, tokens, history>>

(* grantAuthorizationCode up to the new connection id: ConsumeAuthCode     *)
(* deletes the code first, so a request that does not fit it (expired,     *)
(* another client, redirect URI or verifier) spends it as well.            *)
Exchange(w, c, k, fits) ==
  /\ MayMint(w) /\ AuthenticateClient(c) /\ ConsumeAuthCode(k)
  /\ IF fits /\ k.client = c THEN Begin(w, k, c) ELSE UNCHANGED <<job, next>>
  /\ UNCHANGED <<clients, tokens, history>>

(* grantRefreshToken up to FindToken.                                      *)
Refresh(w, c, t) ==
  /\ MayMint(w) /\ AuthenticateClient(c)
  /\ FindToken("refresh", t) /\ t.owner.client = c
  /\ job' = [job EXCEPT ![w] = [pc |-> "rotate", old |-> t.id,
                                owner |-> t.owner]]
  /\ doubled' = IF \E v \in Workers : At(v, "rotate") /\ job[v].old = t.id
                THEN doubled \union {t.owner.conn} ELSE doubled
  /\ UNCHANGED <<clients, codes, tokens, next, approved, revoked>>

(* Mutant: the presented refresh token stays valid.                        *)
RotateKeepsOld(w) ==
  /\ At(w, "rotate")
  /\ job' = [job EXCEPT ![w].pc = "access"]
  /\ UNCHANGED <<clients, codes, tokens, next, history>>

(* DeleteToken: no error when the row is gone already.                     *)
Rotate(w) ==
  /\ At(w, "rotate")
  /\ DeleteToken(job[w].old)
  /\ job' = [job EXCEPT ![w].pc = "access"]
  /\ UNCHANGED <<clients, codes, next, history>>

(* The two CreateToken of issueTokens.                                     *)
MintAccess(w) ==
  /\ At(w, "access") /\ CreateToken("access", job[w].owner)
  /\ job' = [job EXCEPT ![w].pc = "refresh"]
  /\ UNCHANGED <<clients, codes, history>>

MintRefresh(w) ==
  /\ At(w, "refresh") /\ CreateToken("refresh", job[w].owner)
  /\ Done(w)
  /\ UNCHANGED <<clients, codes, history>>

(* A statement fails, or the client hangs up: the error of DeleteToken is  *)
(* ignored, any other ends the request.                                    *)
Fail(w) ==
  /\ Faults
  /\ \/ /\ At(w, "rotate")
        /\ job' = [job EXCEPT ![w].pc = "access"]
        /\ doubled' = doubled \union {job[w].owner.conn}
     \/ At(w, "access") /\ Done(w) /\ UNCHANGED doubled
     \/ At(w, "refresh") /\ Done(w) /\ UNCHANGED doubled
  /\ UNCHANGED <<clients, codes, tokens, next, approved, revoked>>

(* Everything but the requests in progress is in the database.             *)
Restart ==
  /\ Faults \/ \A w \in Workers : At(w, "idle")
  /\ job' = [w \in Workers |-> NoJob]
  /\ UNCHANGED <<clients, codes, tokens, next, history>>

-----------------------------------------------------------------------------
(* Mutant: revokes the access tokens only.                                 *)
RevokeAccessOnly(n) ==
  /\ \E t \in tokens : t.owner.conn = n
  /\ tokens' = {t \in tokens : t.owner.conn # n \/ t.kind = "refresh"}
  /\ revoked' = [any |-> revoked.any \union {n},
                 quiet |-> IF Minting(n) = {} THEN revoked.quiet \union {n}
                                              ELSE revoked.quiet]
  /\ UNCHANGED <<clients, codes, next, job, approved, doubled>>

(* DeleteConnection, by an administrator or by "gotifacts mcp revoke".     *)
Revoke(n) ==
  /\ DeleteConnection(n)
  /\ revoked' = [any |-> revoked.any \union {n},
                 quiet |-> IF Minting(n) = {} THEN revoked.quiet \union {n}
                                              ELSE revoked.quiet]
  /\ UNCHANGED <<clients, codes, next, job, approved, doubled>>

-----------------------------------------------------------------------------
Mint(w) == Rotate(w) \/ MintAccess(w) \/ MintRefresh(w)

TokenRequest(w) ==
  \E c \in Clients :
    \/ \E k \in codes, fits \in BOOLEAN : Exchange(w, c, k, fits)
    \/ \E t \in tokens : Refresh(w, c, t)

Next ==
  \/ \E c \in Clients : Register(c) \/ \E g \in Grants : Approve(c, g)
  \/ \E w \in Workers : TokenRequest(w) \/ Mint(w) \/ Fail(w)
  \/ \E t \in tokens : Revoke(t.owner.conn)
  \/ Restart

Spec == Init /\ [][Next]_vars

-----------------------------------------------------------------------------
(* Properties.                                                             *)

(* Every variable stays within its type.                                   *)
TypeOK ==
  /\ clients \subseteq Clients
  /\ codes \subseteq Code /\ approved \subseteq Code
  /\ tokens \subseteq Token
  /\ next \in Nat
  /\ job \in [Workers -> Job \union {NoJob}]
  /\ revoked \in [any : SUBSET Nat, quiet : SUBSET Nat]
  /\ doubled \subseteq Nat

(* "The connector can never act outside what you granted": whatever        *)
(* requests are combined, retried or cut short, a token belongs to the     *)
(* client, the user and the grants of a consent that was given.            *)
WithinConsent ==
  \A t \in tokens :
    [code |-> t.owner.code, client |-> t.owner.client,
     grant |-> t.owner.grant] \in approved

(* "Each consent creates a connection": a code opens one connection at     *)
(* most, however many requests present it at once, and it is spent by then.*)
OneConnectionPerConsent ==
  \A t \in tokens :
    /\ \A u \in tokens : u.owner.code = t.owner.code => u.owner = t.owner
    /\ \A k \in codes : k.code # t.owner.code

Refreshes(n) == {t \in tokens : t.owner.conn = n /\ t.kind = "refresh"}
Renewing(n)  == {w \in Minting(n) : ~At(w, "rotate")}

(* "Rotate: invalidate the presented refresh token before minting new      *)
(* ones": unless two requests present the same token at the same time, or  *)
(* its deletion fails, a connection never has two refresh tokens, nor one  *)
(* and a request that is about to create another.                          *)
OneRefreshToken ==
  \A n \in {t.owner.conn : t \in tokens} \ doubled :
    Cardinality(Refreshes(n)) + Cardinality(Renewing(n)) <= 1

(* A connection revoked while none of its requests is in progress never    *)
(* has a token again.                                                      *)
QuietRevocationHolds == \A t \in tokens : t.owner.conn \notin revoked.quiet

(* "The connector immediately loses access": a revoked connection has no   *)
(* token.                                                                  *)
RevocationHolds == \A t \in tokens : t.owner.conn \notin revoked.any
=============================================================================
