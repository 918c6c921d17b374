----------------------------- MODULE Capability -----------------------------
(***************************************************************************)
(* Capability tokens, crates/nexacore-capability: minting and attenuation  *)
(* (token.rs, attenuation.rs), the subset relation on scopes (scope.rs),   *)
(* revocation lists kept locally and published with a lifetime             *)
(* (revocation.rs, crl.rs), and the two verifications, verify_full and     *)
(* check_capability (token.rs, ttl.rs, enforcement.rs).                    *)
(*                                                                         *)
(* Signatures are taken to work: a token is one that mint or attenuate     *)
(* produced, a CRL one that the key named in it signed.  Any key may sign  *)
(* either, and what check_capability never compares is kept apart: the     *)
(* issuer of a token and the issuer of the list it is checked against.     *)
(* An identifier is fresh (it is drawn from a CSPRNG).  Verification keeps *)
(* no state, so it is an operator on the state and the properties ask it   *)
(* about every token.                                                      *)
(***************************************************************************)
EXTENDS Integers, Sequences, FiniteSets

CONSTANTS Scopes,      \* scopes the issuers mint
          Caveats,     \* caveats the holders apply
          Nodes,       \* subjects, and the nodes that verify
          Issuers,     \* signing keys
          NoParent,    \* TokenPayload::parent of a root token
          NoCrl,       \* the node has imported no CRL
          Indices,     \* MicroBloom::indices: the bits of each identifier
          Patterns,    \* resource patterns the subset relation is asked about
          Objects,     \* resources a request may be about
          CrlLife,     \* how long a list should be used: the policy, not the code's
          NextUpdates, \* next_update of the published CRLs
          TimeMax,     \* bound: the clock, and the largest time
          MaxTokens,   \* bound: tokens produced
          MaxCrls,     \* bound: CRLs published
          MaxListed,   \* bound: identifiers in a CRL
          MaxEvents    \* bound: tokens, CRLs and revocations, local ones included

Ids == 1 .. MaxTokens
Times == 0 .. TimeMax

(* Resource of scope.rs.  A path pattern is its components and whether it  *)
(* ends in "/**"; an endpoint a host and a port, "*" and 0 for any, or a   *)
(* string without a colon; a range a base and a length, of one of three    *)
(* kinds; a kind that is compared for equality is represented by the       *)
(* interrupt line.                                                         *)
RangeKinds == {"MmioRegion", "DmaWindow", "Framebuffer"}
NoColon == -1

Resources ==
  [kind : {"Any"}]
    \union [kind : {"Path"}, path : Seq(STRING), wild : BOOLEAN]
    \union [kind : {"Endpoint"}, host : STRING, port : Nat \union {NoColon}]
    \union [kind : RangeKinds, base : Nat, len : Nat]
    \union [kind : {"IrqLine"}, line : Nat]

(* What a request names: no patterns, and one address of a range.          *)
Requestable ==
  [kind : {"Path"}, path : Seq(STRING)]
    \union [kind : {"Endpoint"}, host : STRING, port : Nat]
    \union [kind : RangeKinds, base : Nat]
    \union [kind : {"IrqLine"}, line : Nat]

ScopeShape ==
  [action : STRING, resource : Resources, from : Times, to : Times,
   caveats : SUBSET Caveats]

ASSUME ScopeAssumption ==
  Scopes \subseteq ScopeShape /\ Patterns \subseteq Resources /\ Objects \subseteq Requestable

ASSUME CapabilityAssumption ==
  /\ NoParent \notin Ids
  /\ CrlLife \in Nat /\ TimeMax \in Nat /\ MaxTokens \in Nat /\ MaxCrls \in Nat
  /\ MaxEvents \in Nat /\ MaxListed \in Nat /\ NextUpdates \subseteq Nat
  /\ \A s \in Scopes : s.from <= s.to
  /\ \A c \in Caveats : c.kind \in {"ExpiresAt", "NotBefore"} => c.at \in Times

VARIABLES
  tokens,    \* the tokens produced
  revoked,   \* the identifiers of which the issuer has decided the revocation
  revokedAt, \* when
  crls,      \* the CRLs published
  held,      \* the CRL each node has imported
  local,     \* RevocationList of each node: the Bloom bits and the full set
  now        \* the attested clock

vars == <<tokens, revoked, revokedAt, crls, held, local, now>>

-----------------------------------------------------------------------------
(* Resource::is_subset_of, kind by kind.                                   *)
IsPrefix(p, q) == Len(p) <= Len(q) /\ \A i \in 1 .. Len(p) : p[i] = q[i]

\* Mutant: a wildcard is taken for the path it is attached to.
PathIsSubset_Bare(a, b) ==
  IF b.wild THEN IsPrefix(b.path, a.path) ELSE a.path = b.path

PathIsSubset(a, b) ==
  IF b.wild THEN IsPrefix(b.path, a.path)
  ELSE ~ a.wild /\ a.path = b.path

EndpointIsSubset(a, b) ==
  /\ a.port # NoColon /\ b.port # NoColon
  /\ b.host = "*" \/ a.host = b.host
  /\ b.port = 0 \/ a.port = b.port

\* Mutant: the ends of the ranges are computed in the width of an address.
RangeIsSubset_Wraps(a, b) ==
  a.base >= b.base /\ (a.base + a.len) % 4 <= (b.base + b.len) % 4

(* The ends are widened to u128 and do not wrap.                           *)
RangeIsSubset(a, b) == a.base >= b.base /\ a.base + a.len <= b.base + b.len

ResourceIsSubset(a, b) ==
  \/ b.kind = "Any"
  \/ /\ a.kind = b.kind
     /\ CASE a.kind = "Path" -> PathIsSubset(a, b)
          [] a.kind = "Endpoint" -> EndpointIsSubset(a, b)
          [] a.kind \in RangeKinds -> RangeIsSubset(a, b)
          [] OTHER -> a = b

(* Scope::is_subset_of.                                                    *)
IsSubset(a, b) ==
  /\ a.action = b.action
  /\ ResourceIsSubset(a.resource, b.resource)
  /\ a.from >= b.from /\ a.to <= b.to
  /\ b.caveats \subseteq a.caveats

(* apply_caveat: the window is narrowed, the caveat is recorded, and a     *)
(* scope whose window is inverted, or that is not a subset, is refused.    *)
(* An empty window (from = to) passes.                                     *)
Narrowed(s, c) ==
  [s EXCEPT !.from = IF c.kind = "NotBefore" /\ c.at > @ THEN c.at ELSE @,
            !.to = IF c.kind = "ExpiresAt" /\ c.at < @ THEN c.at ELSE @,
            !.caveats = @ \union {c}]

CanApply(s, c) ==
  /\ Narrowed(s, c).from <= Narrowed(s, c).to
  /\ IsSubset(Narrowed(s, c), s)

(* verify_chain_link.                                                      *)
VerifyChainLink(parent, child) ==
  child.parent = parent.id /\ IsSubset(child.scope, parent.scope)

-----------------------------------------------------------------------------
Init ==
  /\ tokens = {}
  /\ revoked = {}
  /\ revokedAt = [i \in Ids |-> 0]
  /\ crls = {}
  /\ held = [n \in Nodes |-> NoCrl]
  /\ local = [n \in Nodes |-> [bits |-> {}, full |-> {}]]
  /\ now = 0

(* The bound on what has happened.                                         *)
Room ==
  Cardinality(tokens) + Cardinality(crls) + Cardinality(revoked)
    + Cardinality(UNION {local[n].full : n \in Nodes}) < MaxEvents

NextId == Cardinality(tokens) + 1

Produce(issuer, parent, subject, scope) ==
  /\ Room /\ NextId <= MaxTokens
  /\ tokens' = tokens \union
       {[id |-> NextId, issuer |-> issuer, parent |-> parent, subject |-> subject,
         scope |-> scope]}
  /\ UNCHANGED <<revoked, revokedAt, crls, held, local, now>>

(* mint takes any scope and any parent; the link is checked by the user.   *)
Mint(issuer, subject, scope, parent) ==
  /\ parent = NoParent \/ \E t \in tokens : t.id = parent
  /\ Produce(issuer, parent, subject, scope)

(* attenuate with one caveat, signed by any key; a list of caveats is      *)
(* applied one after the other.                                            *)
Attenuate(issuer, t, c) ==
  /\ CanApply(t.scope, c)
  /\ Produce(issuer, t.id, t.subject, Narrowed(t.scope, c))

(* The issuer of t decides to revoke it; nothing carries this to a node    *)
(* but the lists that are published later.                                 *)
Revoke(t) ==
  /\ Room
  /\ t.id \notin revoked
  /\ revoked' = revoked \union {t.id}
  /\ revokedAt' = [revokedAt EXCEPT ![t.id] = now]
  /\ UNCHANGED <<tokens, crls, held, local, now>>

(* SignedCrl::sign: any key, any next_update and any list of identifiers,  *)
(* complete or not.  No check reads issued_at; signed is when the list was *)
(* really signed and known what had been revoked by then (history).        *)
Publish(issuer, next, list) ==
  /\ Room /\ Cardinality(crls) < MaxCrls /\ Cardinality(list) <= MaxListed
  /\ crls' = crls \union
       {[issuer |-> issuer, next |-> next, revoked |-> list,
         signed |-> now, known |-> revoked]}
  /\ UNCHANGED <<tokens, revoked, revokedAt, held, local, now>>

(* A node imports a published CRL: late, or an older one after a newer.    *)
Import(n, crl) ==
  /\ held' = [held EXCEPT ![n] = crl]
  /\ UNCHANGED <<tokens, revoked, revokedAt, crls, local, now>>

\* Mutant: one hash function is left out of the insertion.
Inserted_OneHashLess(bits, id) ==
  bits \union {b \in Indices[id] : \E a \in Indices[id] : a < b}

(* MicroBloom::insert.                                                     *)
Inserted(bits, id) == bits \union Indices[id]

(* RevocationList::revoke on a node.                                       *)
RevokeLocally(n, t) ==
  /\ Room
  /\ local' = [local EXCEPT ![n].bits = Inserted(@, t.id),
                            ![n].full = @ \union {t.id}]
  /\ UNCHANGED <<tokens, revoked, revokedAt, crls, held, now>>

Advance ==
  /\ now < TimeMax
  /\ now' = now + 1
  /\ UNCHANGED <<tokens, revoked, revokedAt, crls, held, local>>

Next ==
  \/ \E i \in Issuers :
       \/ \E n \in Nodes, s \in Scopes, p \in Ids \union {NoParent} : Mint(i, n, s, p)
       \/ \E t \in tokens, c \in Caveats : Attenuate(i, t, c)
       \/ \E next \in NextUpdates, list \in SUBSET {t.id : t \in tokens} :
            Publish(i, next, list)
  \/ \E t \in tokens :
       \/ Revoke(t)
       \/ \E n \in Nodes : RevokeLocally(n, t)
  \/ Advance
  \/ \E n \in Nodes, crl \in crls : Import(n, crl)

Spec == Init /\ [][Next]_vars

-----------------------------------------------------------------------------
(* Verification.                                                           *)

\* Mutant: a token is accepted in the second in which it expires.
InWindow_Inclusive(t) == t.scope.from <= now /\ now <= t.scope.to

(* ValidityWindow::check_at of the token's window.                         *)
InWindow(t) == t.scope.from <= now /\ now < t.scope.to

\* Mutant: a CRL is still used in the second of its next_update.
Fresh_Inclusive(crl) == now <= crl.next

Fresh(crl) == now < crl.next

(* check_capability on node n, with the list the node holds: the list's    *)
(* signature verifies under the key in it, whichever key that is.          *)
Honours(n, t) ==
  /\ InWindow(t)
  /\ held[n] # NoCrl
  /\ Fresh(held[n])
  /\ t.id \notin held[n].revoked

(* RevocationList::contains: the filter first, then the full set.          *)
Contains(n, id) == Indices[id] \subseteq local[n].bits /\ id \in local[n].full

(* verify_full on node n.                                                  *)
VerifyFull(n, t) ==
  /\ ~ Contains(n, t.id)
  /\ InWindow(t)
  /\ t.subject = n

-----------------------------------------------------------------------------
Bits == UNION {Indices[i] : i \in Ids}

TypeOK ==
  /\ tokens \subseteq [id : Ids, issuer : Issuers, parent : Ids \union {NoParent},
                       subject : Nodes, scope : ScopeShape]
  /\ \A t, u \in tokens : t.id = u.id => t = u
  /\ \A t \in tokens : t.scope.from <= t.scope.to
  /\ revoked \subseteq Ids
  /\ revokedAt \in [Ids -> Times]
  /\ crls \subseteq [issuer : Issuers, next : Nat, revoked : SUBSET Ids,
                     signed : Times, known : SUBSET Ids]
  /\ held \in [Nodes -> crls \union {NoCrl}]
  /\ local \in [Nodes -> [bits : SUBSET Bits, full : SUBSET Ids]]
  /\ now \in Times

(* What a request that matches a resource is about: the meaning of the     *)
(* patterns, which the code never computes.                                *)
Matches(r, x) ==
  CASE r.kind = "Any" -> TRUE
    [] r.kind = "Path" -> x.kind = "Path" /\
         (IF r.wild THEN IsPrefix(r.path, x.path) ELSE r.path = x.path)
    [] r.kind = "Endpoint" -> x.kind = "Endpoint" /\
         (r.host = "*" \/ r.host = x.host) /\ (r.port = 0 \/ r.port = x.port)
    [] r.kind \in RangeKinds -> x.kind = r.kind /\
         r.base <= x.base /\ x.base < r.base + r.len
    [] OTHER -> r = x

(* Resource::is_subset_of answers true only when every resource that       *)
(* matches the first pattern matches the second, over every pair of        *)
(* patterns of every kind: ranges that end at the top of the address       *)
(* space, ranges of different kinds and endpoints without a port included. *)
SubsetIsSound ==
  tokens = {} =>
    \A a, b \in Patterns : ResourceIsSubset(a, b) =>
      \A x \in Objects : Matches(a, x) => Matches(b, x)

Allows(t, x, time) ==
  Matches(t.scope.resource, x) /\ t.scope.from <= time /\ time < t.scope.to

(* Along a chain whose links verify (verify_chain_link), a token allows    *)
(* nothing that an ancestor does not allow, at no time at which the        *)
(* ancestor is not valid, and with every caveat of the ancestor.           *)
Linked(t, u) == \E v \in tokens : v = t /\ VerifyChainLink(v, u)

Descends(t, u) ==
  Linked(t, u) \/ \E v \in tokens : Linked(t, v) /\ Linked(v, u)

ChainNeverWidens ==
  \A t, u \in tokens : Descends(t, u) =>
    /\ t.scope.action = u.scope.action
    /\ t.scope.caveats \subseteq u.scope.caveats
    /\ \A x \in Objects, time \in Times : Allows(u, x, time) => Allows(t, x, time)

(* A list that does what the policy asks of an issuer: it names every      *)
(* token of its issuer that was revoked when it was signed, and is to be   *)
(* used for CrlLife at most.                                               *)
Proper(crl) ==
  /\ \A t \in tokens : t.issuer = crl.issuer /\ t.id \in crl.known => t.id \in crl.revoked
  /\ crl.next <= crl.signed + CrlLife

(* However late and in whatever order the lists reach a node, a token is   *)
(* honoured CrlLife after its revocation only on the word of a list that   *)
(* another key signed (check_capability does not compare the issuers) or   *)
(* that its own issuer left incomplete or gave too long a life: an out of  *)
(* date list of the token's issuer is not used.                            *)
RevocationTakesEffect ==
  \A n \in Nodes, t \in tokens :
    Honours(n, t) /\ t.id \in revoked /\ now >= revokedAt[t.id] + CrlLife =>
      held[n].issuer # t.issuer \/ ~ Proper(held[n])

(* A node never accepts a token that it revoked itself: the Bloom filter   *)
(* in front of the full set has no false negatives.                        *)
LocalRevocationHolds ==
  \A n \in Nodes, t \in tokens : t.id \in local[n].full => ~ VerifyFull(n, t)

(* Neither verification (verify_full, check_capability) looks at a token's *)
(* ancestors, and yet neither accepts it at a time at which an ancestor of *)
(* a verified chain is not valid: not before the ancestor's window opens,  *)
(* nor in the second in which it closes.                                   *)
NotAfterAncestors ==
  \A n \in Nodes : \A t, u \in tokens :
    Descends(t, u) /\ (Honours(n, u) \/ VerifyFull(n, u)) =>
      t.scope.from <= now /\ now < t.scope.to
=============================================================================
