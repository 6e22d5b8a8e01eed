---------------------------- MODULE OAuthProofs ----------------------------
(***************************************************************************)
(* The safety of OAuth for any number of clients, consents and requests,   *)
(* with failing statements and restarts: tokens stay within the consent    *)
(* they descend from, a consent opens one connection, a connection revoked *)
(* at rest stays revoked, and an undisturbed one has one refresh token.    *)
(***************************************************************************)
EXTENDS OAuth, FiniteSetTheorems, TLAPS

(* The database statements are read as what they do throughout.            *)
USE DEF CreateOAuthClient, GetOAuthClient, CreateAuthCode, ConsumeAuthCode,
        FindToken, DeleteToken, DeleteConnection, AuthenticateClient

Busy   == {w \in Workers : ~At(w, "idle")}

(* Who owns the tokens that exist and those that are about to.             *)
Owners == {t.owner : t \in tokens} \union {job[w].owner : w \in Busy}

ConsentOf(o) == [code |-> o.code, client |-> o.client, grant |-> o.grant]

(* Identifiers in use have been drawn before.                              *)
Drawn ==
  /\ \A k \in approved : k.code < next
  /\ \A o \in Owners : o.conn < next
  /\ \A n \in revoked.quiet : n < next

(* A code is that of one consent.                                          *)
DistinctCodes ==
  /\ codes \subseteq approved
  /\ \A k, l \in approved : k.code = l.code => k = l

Consented    == \A o \in Owners : ConsentOf(o) \in approved
Spent        == \A o \in Owners, k \in codes : o.code # k.code
OneOwner     == \A o, q \in Owners : o.code = q.code => o = q
NoneRevoked  == \A o \in Owners : o.conn \notin revoked.quiet

IInv == /\ TypeOK /\ Drawn /\ DistinctCodes
        /\ Consented /\ Spent /\ OneOwner /\ NoneRevoked

-----------------------------------------------------------------------------
(* Types.                                                                  *)

LEMMA TypeInit == Init => TypeOK
BY DEF Init, TypeOK, Job, NoJob

LEMMA TypeStep == TypeOK /\ [Next]_vars => TypeOK'
<1> SUFFICES ASSUME TypeOK, [Next]_vars PROVE TypeOK'
  OBVIOUS
<1>1. ASSUME NEW c \in Clients, Register(c) PROVE TypeOK'
  BY <1>1 DEF TypeOK, Register, history
<1>2. ASSUME NEW c \in Clients, NEW g \in Grants, Approve(c, g) PROVE TypeOK'
  BY <1>2 DEF TypeOK, Approve, Code
<1>3. ASSUME NEW w \in Workers, NEW c \in Clients, NEW k \in codes,
             NEW fits \in BOOLEAN, Exchange(w, c, k, fits)
      PROVE  TypeOK'
  BY <1>3 DEF TypeOK, Exchange, Begin, Code, Job, Owner, history
<1>4. ASSUME NEW w \in Workers, NEW c \in Clients, NEW t \in tokens,
             Refresh(w, c, t)
      PROVE  TypeOK'
  BY <1>4 DEF TypeOK, Refresh, Token, Job, Owner
<1>5. ASSUME NEW w \in Workers, Mint(w) PROVE TypeOK'
  <2> job[w] \in Job
    BY <1>5 DEF TypeOK, Mint, Rotate, MintAccess, MintRefresh, At, NoJob
  <2>1. CASE Rotate(w)
    BY <2>1 DEF TypeOK, Rotate, Job, history
  <2>2. CASE MintAccess(w)
    BY <2>2 DEF TypeOK, MintAccess, CreateToken, Token, Job, history
  <2>3. CASE MintRefresh(w)
    BY <2>3 DEF TypeOK, MintRefresh, CreateToken, Done, Token, Job, history
  <2> QED BY <1>5, <2>1, <2>2, <2>3 DEF Mint
<1>6. ASSUME NEW w \in Workers, Fail(w) PROVE TypeOK'
  <2> job[w] \in Job
    BY <1>6 DEF TypeOK, Fail, At, NoJob
  <2> QED BY <1>6 DEF TypeOK, Fail, Done, Job, Owner
<1>7. ASSUME NEW t \in tokens, Revoke(t.owner.conn) PROVE TypeOK'
  BY <1>7 DEF TypeOK, Revoke, Token, Owner
<1>8. CASE Restart
  BY <1>8 DEF TypeOK, Restart, history
<1>9. CASE UNCHANGED vars
  BY <1>9 DEF TypeOK, vars
<1> QED BY <1>1, <1>2, <1>3, <1>4, <1>5, <1>6, <1>7, <1>8, <1>9
        DEF Next, TokenRequest

(* Every variable keeps its type.                                          *)
THEOREM OAuthTypeCorrect == Spec => []TypeOK
BY TypeInit, TypeStep, PTL DEF Spec

-----------------------------------------------------------------------------
LEMMA OwnersType == TypeOK => Owners \subseteq Owner
<1> SUFFICES ASSUME TypeOK PROVE Owners \subseteq Owner
  OBVIOUS
<1>1. \A t \in tokens : t.owner \in Owner
  BY DEF TypeOK, Token
<1>2. \A w \in Busy : job[w] \in Job
  BY DEF TypeOK, Busy, At, NoJob
<1> QED BY <1>1, <1>2 DEF Owners, Job

(* Nothing new is owned, and no consent is given: the invariant stays.     *)
LEMMA NoNewOwner ==
  ASSUME IInv, TypeOK', Owners' \subseteq Owners,
         codes' \subseteq codes, approved' = approved, next' >= next,
         revoked'.quiet \subseteq
           revoked.quiet \union {n \in Nat : \A o \in Owners' : o.conn # n},
         \A n \in revoked'.quiet : n < next'
  PROVE  IInv'
<1>0. next \in Nat /\ next' \in Nat /\ Owners \subseteq Owner
  BY OwnersType DEF IInv, TypeOK
<1>1. Drawn' /\ DistinctCodes'
  <2>1. \A k \in approved' : k.code < next'
    BY <1>0 DEF IInv, TypeOK, Drawn, Code
  <2>2. \A o \in Owners' : o.conn < next'
    BY <1>0 DEF IInv, Drawn, Owner
  <2> QED BY <2>1, <2>2 DEF IInv, Drawn, DistinctCodes
<1>2. Consented' /\ Spent' /\ OneOwner'
  BY DEF IInv, Consented, Spent, OneOwner
<1>3. NoneRevoked'
  BY DEF IInv, NoneRevoked
<1> QED BY <1>1, <1>2, <1>3 DEF IInv

(* A job that goes from busy to busy keeps its owner in all that follows.  *)
LEMMA IInvMint ==
  ASSUME IInv, TypeOK', NEW w \in Workers, Mint(w)
  PROVE  IInv'
<1>1. job[w] \in Job /\ w \in Busy /\ job[w].owner \in Owners
  BY DEF IInv, TypeOK, Mint, Rotate, MintAccess, MintRefresh, At, Busy,
         Owners, NoJob
<1>2. /\ \A v \in Busy' : v \in Busy /\ job'[v].owner = job[v].owner
      /\ \A t \in tokens' : t \in tokens \/ t.owner = job[w].owner
      /\ codes' = codes /\ approved' = approved /\ revoked' = revoked
      /\ next' >= next
  <2>1. CASE Rotate(w)
    BY <1>1, <2>1 DEF Rotate, At, Busy, IInv, TypeOK, Job, history
  <2>2. CASE MintAccess(w)
    BY <1>1, <2>2 DEF MintAccess, CreateToken, At, Busy, IInv, TypeOK, Job, history
  <2>3. CASE MintRefresh(w)
    BY <1>1, <2>3 DEF MintRefresh, CreateToken, Done, NoJob, At, Busy, IInv,
                      TypeOK, Job, history
  <2> QED BY <2>1, <2>2, <2>3 DEF Mint
<1>3. Owners' \subseteq Owners
  BY <1>1, <1>2 DEF Owners
<1>4. \A n \in revoked'.quiet : n < next'
  BY <1>2 DEF IInv, Drawn, TypeOK
<1> QED BY <1>2, <1>3, <1>4, NoNewOwner

LEMMA IInvFail ==
  ASSUME IInv, TypeOK', NEW w \in Workers, Fail(w)
  PROVE  IInv'
<1>1. job[w] \in Job
  BY DEF IInv, TypeOK, Fail, At, NoJob
<1>2. \A v \in Busy' : v \in Busy /\ job'[v].owner = job[v].owner
  BY <1>1 DEF Fail, Done, NoJob, At, Busy, IInv, TypeOK, Job
<1>3. Owners' \subseteq Owners
  BY <1>2 DEF Owners, Fail
<1>4. \A n \in revoked'.quiet : n < next'
  BY DEF IInv, Drawn, Fail
<1> QED BY <1>3, <1>4, NoNewOwner DEF Fail, IInv, TypeOK

(* A refresh request works for the owner of the token it presents.         *)
LEMMA IInvRefresh ==
  ASSUME IInv, TypeOK', NEW w \in Workers, NEW c \in Clients,
         NEW t \in tokens, Refresh(w, c, t)
  PROVE  IInv'
<1>1. \A v \in Busy' : IF v = w THEN job'[v].owner = t.owner
                       ELSE v \in Busy /\ job'[v].owner = job[v].owner
  BY DEF Refresh, Busy, At, IInv, TypeOK
<1>2. Owners' \subseteq Owners
  BY <1>1 DEF Owners, Refresh
<1>3. \A n \in revoked'.quiet : n < next'
  BY DEF IInv, Drawn, Refresh
<1> QED BY <1>2, <1>3, NoNewOwner DEF Refresh, IInv, TypeOK

(* The code an exchange consumes is gone, so its owner is the only one.    *)
LEMMA IInvExchange ==
  ASSUME IInv, TypeOK', NEW w \in Workers, NEW c \in Clients,
         NEW k \in codes, NEW fits \in BOOLEAN, Exchange(w, c, k, fits)
  PROVE  IInv'
<1>0. /\ next \in Nat /\ next' \in Nat /\ next' >= next
      /\ codes' = codes \ {k} /\ tokens' = tokens
      /\ approved' = approved /\ revoked' = revoked
      /\ k \in approved
      /\ Owners \subseteq Owner
  BY OwnersType DEF IInv, TypeOK, Exchange, Begin, history, DistinctCodes
<1>1. CASE ~(fits /\ k.client = c)
  <2>1. Owners' = Owners
    BY <1>0, <1>1 DEF Exchange, Owners, Busy, At
  <2>2. \A n \in revoked'.quiet : n < next'
    BY <1>0, <1>1 DEF Exchange, IInv, Drawn
  <2> QED BY <1>0, <2>1, <2>2, NoNewOwner
<1>2. CASE fits /\ k.client = c
  <2> DEFINE o == [code |-> k.code, conn |-> next,
                   client |-> c, grant |-> k.grant]
  <2>1. /\ next' = next + 1
        /\ job' = [job EXCEPT ![w] =
                     [pc |-> "access", old |-> 0, owner |-> o]]
    BY <1>2 DEF Exchange, Begin
  <2>2. \A v \in Busy' : IF v = w THEN job'[v].owner = o
                         ELSE v \in Busy /\ job'[v].owner = job[v].owner
    BY <2>1 DEF Busy, At, IInv, TypeOK
  <2>3. Owners' \subseteq Owners \union {o}
    BY <2>2, <1>0 DEF Owners
  <2>4. ConsentOf(o) = k
    BY <1>2 DEF ConsentOf, IInv, TypeOK, Code
  <2>5. \A q \in Owners : q.code # o.code
    BY DEF IInv, Spent
  <2>6. Drawn' /\ DistinctCodes'
    <3>1. \A l \in approved' : l.code < next'
      BY <1>0, <2>1 DEF IInv, TypeOK, Drawn, Code
    <3>2. \A q \in Owners' : q.conn < next'
      BY <1>0, <2>1, <2>3 DEF IInv, Drawn, Owner
    <3>3. \A n \in revoked'.quiet : n < next'
      BY <1>0, <2>1 DEF IInv, TypeOK, Drawn
    <3> QED BY <3>1, <3>2, <3>3, <1>0 DEF IInv, Drawn, DistinctCodes
  <2>7. Consented'
    BY <1>0, <2>3, <2>4 DEF IInv, Consented
  <2>8. Spent'
    BY <1>0, <2>3 DEF IInv, Spent, DistinctCodes
  <2>9. OneOwner'
    BY <2>3, <2>5 DEF IInv, OneOwner
  <2>10. NoneRevoked'
    <3>1. o.conn \notin revoked.quiet
      BY <1>0 DEF IInv, Drawn
    <3> QED BY <1>0, <2>3, <3>1 DEF IInv, NoneRevoked
  <2> QED BY <2>6, <2>7, <2>8, <2>9, <2>10 DEF IInv
<1> QED BY <1>1, <1>2

(* A new consent has a code nobody owns anything of.                       *)
LEMMA IInvApprove ==
  ASSUME IInv, TypeOK', NEW c \in Clients, NEW g \in Grants, Approve(c, g)
  PROVE  IInv'
<1> DEFINE k == [code |-> next, client |-> c, grant |-> g]
<1>0. /\ next \in Nat /\ next' = next + 1
      /\ codes' = codes \union {k} /\ approved' = approved \union {k}
      /\ revoked' = revoked
      /\ Owners' = Owners /\ Owners \subseteq Owner
  BY OwnersType DEF Approve, IInv, TypeOK, Owners, Busy, At
<1>1. \A l \in approved : l.code < next /\ l.code \in Nat
  BY DEF IInv, TypeOK, Drawn, Code
<1>2. \A o \in Owners : o.code # next
  <2>1. \A o \in Owners : ConsentOf(o) \in approved /\ ConsentOf(o).code = o.code
    BY DEF IInv, Consented, ConsentOf
  <2> QED BY <1>0, <1>1, <2>1
<1>3. Drawn'
  <2>1. \A l \in approved' : l.code < next'
    BY <1>0, <1>1
  <2>2. \A o \in Owners' : o.conn < next'
    BY <1>0 DEF IInv, Drawn, Owner
  <2>3. \A n \in revoked'.quiet : n < next'
    BY <1>0 DEF IInv, TypeOK, Drawn
  <2> QED BY <2>1, <2>2, <2>3 DEF Drawn
<1>4. DistinctCodes'
  BY <1>0, <1>1 DEF IInv, DistinctCodes
<1>5. Consented' /\ OneOwner' /\ NoneRevoked'
  BY <1>0 DEF IInv, Consented, OneOwner, NoneRevoked
<1>6. Spent'
  BY <1>0, <1>2 DEF IInv, Spent
<1> QED BY <1>3, <1>4, <1>5, <1>6 DEF IInv

(* Revoking removes tokens; a connection at rest has no other owner.       *)
LEMMA IInvRevoke ==
  ASSUME IInv, TypeOK', NEW t \in tokens, Revoke(t.owner.conn)
  PROVE  IInv'
<1> DEFINE n == t.owner.conn
<1>0. /\ tokens' = {u \in tokens : u.owner.conn # n}
      /\ job' = job /\ codes' = codes /\ approved' = approved /\ next' = next
      /\ revoked'.quiet = IF Minting(n) = {} THEN revoked.quiet \union {n}
                                             ELSE revoked.quiet
      /\ n \in Nat /\ n < next /\ next \in Nat
  BY OwnersType DEF Revoke, IInv, TypeOK, Drawn, Owners, Owner
<1>1. Owners' \subseteq Owners
  BY <1>0 DEF Owners, Busy, At
<1>2. Minting(n) = {} => \A o \in Owners' : o.conn # n
  BY <1>0 DEF Owners, Minting, Busy, At
<1>3. \A m \in revoked'.quiet : m < next'
  BY <1>0 DEF IInv, Drawn
<1> QED BY <1>0, <1>1, <1>2, <1>3, NoNewOwner

(* IInv is inductive.                                                      *)
LEMMA IInvStep == IInv /\ [Next]_vars => IInv'
<1> SUFFICES ASSUME IInv, [Next]_vars PROVE IInv'
  OBVIOUS
<1>0. TypeOK'
  BY TypeStep DEF IInv
<1>1. ASSUME NEW c \in Clients, Register(c) PROVE IInv'
  <2>1. Owners' = Owners
    BY <1>1 DEF Register, Owners, Busy, At
  <2>2. \A n \in revoked'.quiet : n < next'
    BY <1>1 DEF IInv, Drawn, Register, history
  <2> QED BY <1>0, <1>1, <2>1, <2>2, NoNewOwner
          DEF Register, history, IInv, TypeOK
<1>2. ASSUME NEW w \in Workers, TokenRequest(w) PROVE IInv'
  BY <1>0, <1>2, IInvExchange, IInvRefresh DEF TokenRequest
<1>3. CASE Restart
  <2>1. Owners' \subseteq Owners
    BY <1>3 DEF Restart, Owners, Busy, At, NoJob
  <2>2. \A n \in revoked'.quiet : n < next'
    BY <1>3 DEF IInv, Drawn, Restart, history
  <2> QED BY <1>0, <1>3, <2>1, <2>2, NoNewOwner
          DEF Restart, history, IInv, TypeOK
<1>4. CASE UNCHANGED vars
  <2>1. Owners' = Owners
    BY <1>4 DEF vars, Owners, Busy, At
  <2>2. \A n \in revoked'.quiet : n < next'
    BY <1>4 DEF IInv, Drawn, vars
  <2> QED BY <1>0, <1>4, <2>1, <2>2, NoNewOwner DEF vars, IInv, TypeOK
<1> QED BY <1>0, <1>1, <1>2, <1>3, <1>4, IInvApprove, IInvMint, IInvFail,
           IInvRevoke DEF Next

LEMMA IInvInit == Init => IInv
<1> SUFFICES ASSUME Init PROVE IInv
  OBVIOUS
<1>1. Owners = {}
  BY DEF Init, Owners, Busy, At, NoJob
<1> QED BY <1>1, TypeInit DEF Init, IInv, Drawn, DistinctCodes, Consented,
           Spent, OneOwner, NoneRevoked

LEMMA IInvAlways == Spec => []IInv
BY IInvInit, IInvStep, PTL DEF Spec

-----------------------------------------------------------------------------
(* No sequence of requests yields a token outside the consent it comes     *)
(* from.                                                                   *)
THEOREM TokensWithinConsent == Spec => []WithinConsent
<1>1. IInv => WithinConsent
  BY DEF IInv, Consented, ConsentOf, WithinConsent, Owners
<1> QED BY <1>1, IInvAlways, PTL

(* One consent, one connection: concurrent exchanges of a code included.   *)
THEOREM ConsentOpensOneConnection == Spec => []OneConnectionPerConsent
<1>1. IInv => OneConnectionPerConsent
  BY DEF IInv, OneOwner, Spent, OneConnectionPerConsent, Owners
<1> QED BY <1>1, IInvAlways, PTL

(* A connection revoked with no request in progress stays revoked.         *)
THEOREM QuietRevocationIsFinal == Spec => []QuietRevocationHolds
<1>1. IInv => QuietRevocationHolds
  BY DEF IInv, NoneRevoked, QuietRevocationHolds, Owners
<1> QED BY <1>1, IInvAlways, PTL

-----------------------------------------------------------------------------
(* Rotation. While the rotation of a connection is undisturbed, one        *)
(* request at most mints for it; that request has deleted the refresh      *)
(* token, or is about to delete the only one there is.                     *)
Orderly(n) ==
  /\ \A t, u \in Refreshes(n) : t = u
  /\ \A v, w \in Minting(n) : v = w
  /\ \A w \in Minting(n), t \in Refreshes(n) :
       At(w, "rotate") /\ t.id = job[w].old

RotationInv == \A n \in Nat \ doubled : Orderly(n)

(* Fewer tokens and requests leave a connection in order.                  *)
LEMMA OrderlyStays ==
  ASSUME NEW n, Orderly(n), Refreshes(n)' \subseteq Refreshes(n),
         Minting(n)' \subseteq Minting(n),
         \A w \in Minting(n)' : job'[w] = job[w] \/ Refreshes(n)' = {}
  PROVE  Orderly(n)'
BY DEF Orderly, At

LEMMA JobType ==
  ASSUME TypeOK, NEW w \in Workers, ~At(w, "idle")
  PROVE  job[w] \in Job /\ job[w].owner.conn \in Nat
BY DEF TypeOK, At, NoJob, Job, Owner

LEMMA OrderlyMint ==
  ASSUME IInv, NEW w \in Workers, Mint(w), NEW n \in Nat, Orderly(n)
  PROVE  Orderly(n)'
<1> DEFINE m == job[w].owner.conn
<1>1. job[w] \in Job /\ w \in Minting(m)
  BY JobType DEF IInv, Mint, Rotate, MintAccess, MintRefresh, At, Minting
<1>2. CASE Rotate(w)
  <2>1. Minting(n)' = Minting(n) /\ Refreshes(n)' \subseteq Refreshes(n)
    BY <1>1, <1>2 DEF Rotate, At, Minting, Refreshes, IInv, TypeOK, Job
  <2>2. n = m => Refreshes(n)' = {}
    BY <1>1, <1>2 DEF Rotate, Refreshes, Orderly
  <2>3. \A v \in Minting(n)' : job'[v] = job[v] \/ Refreshes(n)' = {}
    BY <1>2, <2>1, <2>2 DEF Rotate, Minting, IInv, TypeOK
  <2> QED BY <2>1, <2>3, OrderlyStays
<1>3. CASE MintAccess(w)
  <2>1. Minting(n)' = Minting(n) /\ Refreshes(n)' = Refreshes(n)
    BY <1>1, <1>3 DEF MintAccess, CreateToken, At, Minting, Refreshes, IInv,
                      TypeOK, Job
  <2>2. n = m => Refreshes(n) = {}
    BY <1>1, <1>3 DEF MintAccess, At, Orderly
  <2>3. \A v \in Minting(n)' : job'[v] = job[v] \/ Refreshes(n)' = {}
    BY <1>3, <2>1, <2>2 DEF MintAccess, Minting, IInv, TypeOK
  <2> QED BY <2>1, <2>3, OrderlyStays
<1>4. CASE MintRefresh(w)
  <2> DEFINE new == [id |-> next, kind |-> "refresh", owner |-> job[w].owner]
  <2>1. /\ tokens' = tokens \union {new}
        /\ job' = [job EXCEPT ![w] = NoJob]
    BY <1>4 DEF MintRefresh, CreateToken, Done
  <2>2. Minting(n)' = Minting(n) \ {w}
    BY <1>1, <2>1 DEF Minting, At, NoJob, IInv, TypeOK
  <2>3. CASE n = m
    <3>1. Minting(n)' = {}
      BY <1>1, <2>2, <2>3 DEF Orderly
    <3>2. Refreshes(n) = {}
      BY <1>1, <1>4, <2>3 DEF MintRefresh, At, Orderly
    <3>3. Refreshes(n)' \subseteq {new}
      BY <2>1, <3>2 DEF Refreshes
    <3> QED BY <3>1, <3>3 DEF Orderly
  <2>4. CASE n # m
    <3>1. Refreshes(n)' = Refreshes(n)
      BY <2>1, <2>4 DEF Refreshes
    <3>2. \A v \in Minting(n)' : job'[v] = job[v]
      BY <2>1, <2>2 DEF Minting, IInv, TypeOK
    <3> QED BY <2>2, <3>1, <3>2, OrderlyStays
  <2> QED BY <2>3, <2>4
<1> QED BY <1>2, <1>3, <1>4 DEF Mint

(* A failed deletion disturbs the rotation; other failures end the request.*)
LEMMA OrderlyFail ==
  ASSUME IInv, NEW w \in Workers, Fail(w),
         NEW n \in Nat \ doubled', Orderly(n)
  PROVE  Orderly(n)'
<1>1. job[w] \in Job
  BY JobType DEF IInv, Fail, At
<1>2. Refreshes(n)' = Refreshes(n)
  BY DEF Fail, Refreshes
<1>3. /\ Minting(n)' \subseteq Minting(n)
      /\ \A v \in Minting(n)' : job'[v] = job[v]
  <2>1. CASE At(w, "rotate")
    <3>1. n # job[w].owner.conn
      BY <2>1 DEF Fail, At
    <3> QED BY <1>1, <2>1, <3>1 DEF Fail, At, Minting, IInv, TypeOK, Job
  <2>2. CASE ~At(w, "rotate")
    BY <1>1, <2>2 DEF Fail, Done, NoJob, At, Minting, IInv, TypeOK
  <2> QED BY <2>1, <2>2
<1> QED BY <1>2, <1>3, OrderlyStays

(* A request may present a token only when no other is minting, unless     *)
(* that other one has been given the same token.                           *)
LEMMA OrderlyRefresh ==
  ASSUME IInv, NEW w \in Workers, NEW c \in Clients, NEW t \in tokens,
         Refresh(w, c, t), NEW n \in Nat \ doubled', Orderly(n)
  PROVE  Orderly(n)'
<1>1. /\ Refreshes(n)' = Refreshes(n)
      /\ job' = [job EXCEPT ![w] = [pc |-> "rotate", old |-> t.id,
                                    owner |-> t.owner]]
      /\ At(w, "idle")
  BY DEF Refresh, Refreshes, MayMint
<1>2. CASE n = t.owner.conn
  <2>1. t \in Refreshes(n)
    BY <1>2 DEF Refresh, Refreshes
  <2>2. Minting(n) = {}
    BY <1>2, <2>1 DEF Refresh, Orderly, Minting
  <2>3. Minting(n)' \subseteq {w}
    BY <1>1, <2>2 DEF Minting, At, IInv, TypeOK
  <2> QED BY <1>1, <2>1, <2>3 DEF Orderly, At, IInv, TypeOK
<1>3. CASE n # t.owner.conn
  <2>1. /\ Minting(n)' \subseteq Minting(n)
        /\ \A v \in Minting(n)' : job'[v] = job[v]
    BY <1>1, <1>3 DEF Minting, At, IInv, TypeOK
  <2> QED BY <1>1, <2>1, OrderlyStays
<1> QED BY <1>2, <1>3

(* The connection of an exchange is new: nothing else belongs to it.       *)
LEMMA OrderlyExchange ==
  ASSUME IInv, NEW w \in Workers, NEW c \in Clients, NEW k \in codes,
         NEW fits \in BOOLEAN, Exchange(w, c, k, fits),
         NEW n \in Nat, Orderly(n)
  PROVE  Orderly(n)'
<1>1. Refreshes(n)' = Refreshes(n)
  BY DEF Exchange, Refreshes
<1>2. CASE ~(fits /\ k.client = c)
  BY <1>1, <1>2, OrderlyStays DEF Exchange, Minting, At
<1>3. CASE fits /\ k.client = c
  <2> DEFINE o == [code |-> k.code, conn |-> next,
                   client |-> c, grant |-> k.grant]
  <2>1. /\ job' = [job EXCEPT ![w] =
                     [pc |-> "access", old |-> 0, owner |-> o]]
        /\ At(w, "idle")
    BY <1>3 DEF Exchange, Begin, MayMint
  <2>2. CASE n = next
    <3>1. \A q \in Owners : q.conn # n
      BY <2>2, OwnersType DEF IInv, Drawn, Owner
    <3>2. Refreshes(n) = {} /\ Minting(n) = {}
      BY <3>1 DEF Owners, Refreshes, Minting, Busy
    <3>3. Minting(n)' \subseteq {w}
      BY <2>1, <3>2 DEF Minting, At, IInv, TypeOK
    <3> QED BY <1>1, <3>2, <3>3 DEF Orderly
  <2>3. CASE n # next
    <3>1. /\ Minting(n)' \subseteq Minting(n)
          /\ \A v \in Minting(n)' : job'[v] = job[v]
      BY <2>1, <2>3 DEF Minting, At, IInv, TypeOK
    <3> QED BY <1>1, <3>1, OrderlyStays
  <2> QED BY <2>2, <2>3
<1> QED BY <1>2, <1>3

LEMMA RotationStep == IInv /\ RotationInv /\ [Next]_vars => RotationInv'
<1> SUFFICES ASSUME IInv, RotationInv, [Next]_vars,
                    NEW n \in Nat, n \notin doubled'
             PROVE  Orderly(n)'
  BY DEF RotationInv
<1>0. Orderly(n)
  <2>1. doubled \subseteq doubled'
    BY DEF Next, Register, Approve, TokenRequest, Exchange, Refresh, Mint,
           Rotate, MintAccess, MintRefresh, Fail, Restart, Revoke, history, vars
  <2> QED BY <2>1 DEF RotationInv
<1>1. ASSUME NEW c \in Clients,
             Register(c) \/ \E g \in Grants : Approve(c, g)
      PROVE  Orderly(n)'
  BY <1>0, <1>1, OrderlyStays DEF Register, Approve, Refreshes, Minting, At
<1>2. ASSUME NEW w \in Workers, TokenRequest(w) PROVE Orderly(n)'
  BY <1>0, <1>2, OrderlyExchange, OrderlyRefresh DEF TokenRequest
<1>3. ASSUME NEW t \in tokens, Revoke(t.owner.conn) PROVE Orderly(n)'
  <2>1. /\ Refreshes(n)' \subseteq Refreshes(n)
        /\ Minting(n)' = Minting(n) /\ job' = job
    BY <1>3 DEF Revoke, Refreshes, Minting, At
  <2> QED BY <1>0, <2>1, OrderlyStays
<1>4. CASE Restart
  <2>1. Refreshes(n)' = Refreshes(n) /\ Minting(n)' = {}
    BY <1>4 DEF Restart, Refreshes, Minting, At, NoJob
  <2> QED BY <1>0, <2>1, OrderlyStays
<1>5. CASE UNCHANGED vars
  BY <1>0, <1>5, OrderlyStays DEF vars, Refreshes, Minting, At
<1> QED BY <1>0, <1>1, <1>2, <1>3, <1>4, <1>5, OrderlyMint, OrderlyFail DEF Next

LEMMA AtMostOne ==
  ASSUME NEW S, \A x, y \in S : x = y
  PROVE  \/ S = {} /\ Cardinality(S) = 0
         \/ S # {} /\ Cardinality(S) = 1
<1>1. CASE S = {}
  BY <1>1, FS_EmptySet
<1>2. CASE S # {}
  <2>1. PICK x : S = {x}
    BY <1>2
  <2> QED BY <2>1, FS_Singleton
<1> QED BY <1>1, <1>2

LEMMA OrderlyCounts ==
  ASSUME NEW n, Orderly(n)
  PROVE  Cardinality(Refreshes(n)) + Cardinality(Renewing(n)) <= 1
<1>1. /\ \A v, w \in Renewing(n) : v = w
      /\ \A t, u \in Refreshes(n) : t = u
      /\ Renewing(n) # {} => Refreshes(n) = {}
  BY DEF Orderly, Renewing
<1>2. /\ \/ Refreshes(n) = {} /\ Cardinality(Refreshes(n)) = 0
         \/ Refreshes(n) # {} /\ Cardinality(Refreshes(n)) = 1
      /\ \/ Renewing(n) = {} /\ Cardinality(Renewing(n)) = 0
         \/ Renewing(n) # {} /\ Cardinality(Renewing(n)) = 1
  BY <1>1, AtMostOne
<1> QED BY <1>1, <1>2

(* Rotation leaves one refresh token, however many clients and requests.   *)
THEOREM RotationKeepsOneToken == Spec => []OneRefreshToken
<1>1. Init => RotationInv
  BY DEF Init, RotationInv, Orderly, Refreshes, Minting, At, NoJob
<1>2. Spec => []RotationInv
  BY <1>1, IInvAlways, RotationStep, PTL DEF Spec
<1>3. IInv /\ RotationInv => OneRefreshToken
  <2> SUFFICES ASSUME IInv, RotationInv,
                      NEW n \in {t.owner.conn : t \in tokens} \ doubled
               PROVE  Cardinality(Refreshes(n)) + Cardinality(Renewing(n)) <= 1
    BY DEF OneRefreshToken
  <2>1. n \in Nat
    BY DEF IInv, TypeOK, Token, Owner
  <2> QED BY <2>1, OrderlyCounts DEF RotationInv
<1> QED BY <1>2, <1>3, IInvAlways, PTL
=============================================================================
