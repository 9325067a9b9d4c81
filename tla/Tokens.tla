-------------------------------- MODULE Tokens --------------------------------
(***************************************************************************)
(* Access tokens over time: an app's SDK (client/src/session.ts) exchanges  *)
(* a session or a px_ key for a short-lived token (mintToken and            *)
(* mintFromKey of worker/src/tokens.ts) and reuses it until it is close to  *)
(* its expiry, while the credential may be revoked or expire, and its       *)
(* principal disabled or stripped of the permission in question.            *)
(*                                                                         *)
(* One app and one permission: a token stands for "may do it". What a       *)
(* resolution computes is the subject of module Credentials; here it is     *)
(* allowed, a step that reads the current state. A holder is what keeps a   *)
(* token between requests: an SDK isolate (keyTokenCache) for keys, a       *)
(* browser (the px_token cookie) for sessions.                              *)
(***************************************************************************)
EXTENDS Integers

CONSTANTS
    Keys, Sessions,   \* px_ keys and SSO sessions
    Holders,          \* SDK isolates and browsers
    Requests,         \* requests to the app; each runs once
    TTL,              \* DEFAULT_TOKEN_TTL_SECONDS
    Skew,             \* TOKEN_REFRESH_SKEW_SECONDS
    Expiries,         \* the expiries a credential may be created with
    Never,            \* no expiry; later than any time
    MaxTime           \* bound on the clock

Creds == Keys \cup Sessions
Time  == 0 .. MaxTime

ASSUME TokenConstants ==
    /\ Keys \cap Sessions = {}
    /\ MaxTime \in Nat /\ TTL \in Nat \ {0} /\ Skew \in 0 .. TTL - 1
    /\ Never \in Nat /\ Never > MaxTime + TTL
    /\ Expiries \subseteq Nat

VARIABLES
    now,       \* Date.now() and unixepoch(), in seconds
    row,       \* row[c]: "none", "live" or "revoked"
    expires,   \* expires[c]: expires_at
    allowed,   \* credentials whose principal is enabled and has the permission
    held,      \* held[h][c]: expiry of the token h keeps for c, 0 when none
    req,       \* req[r]: progress of a request
    standing   \* history: last time c could be used or was being minted from

vars == <<now, row, expires, allowed, held, req, standing>>

Fresh == [pc |-> "idle"]
Request == [pc : {"credential", "principal", "sign", "answer", "accepted", "refused"},
            holder : Holders, cred : Creds, start : Time, exp : Nat]

TypeOK ==
    /\ now \in Time
    /\ row \in [Creds -> {"none", "live", "revoked"}]
    /\ expires \in [Creds -> Nat]
    /\ allowed \subseteq Creds
    /\ held \in [Holders -> [Creds -> Nat]]
    /\ req \in [Requests -> {Fresh} \cup Request]
    /\ standing \in [Creds -> Time]

Init ==
    /\ now = 0
    /\ row = [c \in Creds |-> "none"]
    /\ expires = [c \in Creds |-> Never]
    /\ allowed = Creds
    /\ held = [h \in Holders |-> [c \in Creds |-> 0]]
    /\ req = [r \in Requests |-> Fresh]
    /\ standing = [c \in Creds |-> 0]

(* WHERE revoked_at IS NULL AND expires_at > unixepoch()                    *)
Active(c)  == row[c] = "live" /\ expires[c] > now
InForce(c) == Active(c) /\ c \in allowed

(* A mint that will sign unless something more is withdrawn: it does not    *)
(* read the credential's row again.                                         *)
Minting(c) == \E r \in Requests :
    /\ req[r] # Fresh
    /\ req[r].cred = c
    /\ req[r].pc = "sign" \/ (req[r].pc = "principal" /\ c \in allowed)

Usable(c) == InForce(c) \/ Minting(c)

-----------------------------------------------------------------------------
(* The clock and the administrators                                         *)

Observe == standing' = [c \in Creds |-> IF Usable(c)' THEN now' ELSE standing[c]]

Tick ==
    /\ now < MaxTime
    /\ now' = now + 1
    /\ UNCHANGED <<row, expires, allowed, held, req>>
    /\ Observe

Create(c, e) ==
    /\ row[c] = "none"
    /\ c \in Sessions => e # Never
    /\ row' = [row EXCEPT ![c] = "live"]
    /\ expires' = [expires EXCEPT ![c] = e]
    /\ UNCHANGED <<now, allowed, held, req>>
    /\ Observe

Revoke(c) ==
    /\ row[c] = "live"
    /\ row' = [row EXCEPT ![c] = "revoked"]
    /\ UNCHANGED <<now, expires, allowed, held, req, standing>>

(* Disabling the principal or removing a grant or role, and the opposite.   *)
Withdraw(c) ==
    /\ c \in allowed
    /\ allowed' = allowed \ {c}
    /\ UNCHANGED <<now, row, expires, held, req, standing>>

Restore(c) ==
    /\ c \notin allowed
    /\ allowed' = allowed \cup {c}
    /\ UNCHANGED <<now, row, expires, held, req>>
    /\ Observe

-----------------------------------------------------------------------------
(* A request                                                                *)

(* jwtVerify: the token has not expired.                                    *)
Verifies(exp) == now < exp

(* The SDK reads the clock once, before any await. The token kept is used   *)
(* while it is more than Skew from its expiry.                              *)
Authenticate(r, h, c) ==
    /\ req[r] = Fresh
    /\ row[c] # "none"
    /\ req' = [req EXCEPT ![r] =
          [pc |-> IF held[h][c] - now > Skew /\ Verifies(held[h][c])
                  THEN "accepted" ELSE "credential",
           holder |-> h, cred |-> c, start |-> now, exp |-> held[h][c]]]
    /\ UNCHANGED <<now, row, expires, allowed, held, standing>>

Step(r, from, next) ==
    /\ req[r] # Fresh
    /\ req[r].pc = from
    /\ req' = [req EXCEPT ![r].pc = next]
    /\ UNCHANGED <<now, row, expires, allowed, held, standing>>

ReadCredentialUnexpired(r) ==
    Step(r, "credential", IF expires[req[r].cred] > now THEN "principal" ELSE "refused")
ReadCredential(r) ==
    Step(r, "credential", IF Active(req[r].cred) THEN "principal" ELSE "refused")

Resolve(r) ==
    Step(r, "principal", IF req[r].cred \in allowed THEN "sign" ELSE "refused")

(* A key's token ends with the key; a session's may outlive the session.    *)
TokenExpiryUncapped(c) == now + TTL
TokenExpiry(c) ==
    IF c \in Keys /\ expires[c] < now + TTL THEN expires[c] ELSE now + TTL

Sign(r) ==
    /\ req[r] # Fresh
    /\ req[r].pc = "sign"
    /\ req' = [req EXCEPT ![r].pc = "answer", ![r].exp = TokenExpiry(req[r].cred)]
    /\ UNCHANGED <<now, row, expires, allowed, held, standing>>

(* The SDK verifies the token it received and keeps it, whatever it kept    *)
(* for this credential before.                                              *)
Receive(r) ==
    /\ req[r] # Fresh
    /\ req[r].pc = "answer"
    /\ \/ /\ Verifies(req[r].exp)
          /\ req' = [req EXCEPT ![r].pc = "accepted"]
          /\ held' = [held EXCEPT ![req[r].holder][req[r].cred] = req[r].exp]
       \/ /\ ~ Verifies(req[r].exp)
          /\ req' = [req EXCEPT ![r].pc = "refused"]
          /\ UNCHANGED held
    /\ UNCHANGED <<now, row, expires, allowed, standing>>

Next ==
    \/ Tick
    \/ \E c \in Creds : Revoke(c) \/ Withdraw(c) \/ Restore(c) \/ \E e \in Expiries : Create(c, e)
    \/ \E r \in Requests, h \in Holders, c \in Creds : Authenticate(r, h, c)
    \/ \E r \in Requests : ReadCredential(r) \/ Resolve(r) \/ Sign(r) \/ Receive(r)

Spec == Init /\ [][Next]_vars

-----------------------------------------------------------------------------
(* Properties                                                               *)

Accepts(r) == req[r].pc # "accepted" /\ req'[r].pc = "accepted"

(* Revoking a credential, its expiry, disabling its principal and removing  *)
(* the permission all take effect within the token's lifetime, counted from *)
(* the last moment the credential could be used or a mint that had already  *)
(* read it was still running.                                               *)
LapsesWithinTTL ==
    [][\A r \in Requests : Accepts(r) => now < standing[req'[r].cred] + TTL]_vars

(* A request with a px_ key is never accepted after the key expired,        *)
(* whichever isolate kept a token for it and however long the mint took.    *)
KeyExpiryIsFinal ==
    [][\A r \in Requests :
          Accepts(r) /\ req'[r].cred \in Keys => now < expires[req'[r].cred]]_vars

(* Why they hold: no token, kept or on its way, ends later.                 *)
Bounded(c, exp) ==
    /\ exp <= standing[c] + TTL
    /\ c \in Keys => exp <= expires[c]

StandingIsCurrent ==
    \A c \in Creds : standing[c] <= now /\ (Usable(c) => standing[c] = now)

TokensIInv ==
    /\ TypeOK
    /\ StandingIsCurrent
    /\ \A h \in Holders, c \in Creds :
          Bounded(c, held[h][c]) /\ (row[c] = "none" => held[h][c] = 0)
    /\ \A r \in Requests :
          req[r] # Fresh =>
              /\ row[req[r].cred] # "none"
              /\ req[r].pc = "answer" => Bounded(req[r].cred, req[r].exp)

(* Tokens implements Leases: whatever a holder keeps is the copy of an      *)
(* authority that was in force within the last TTL seconds.                 *)
Lease == INSTANCE Leases WITH
    Things <- Creds, Keepers <- Holders, Span <- TTL,
    clock <- now, inForce <- {c \in Creds : Usable(c)}, last <- standing, until <- held

ImplementsLeases == Lease!LSpec
=============================================================================
