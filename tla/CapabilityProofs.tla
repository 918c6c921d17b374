-------------------------- MODULE CapabilityProofs --------------------------
(* What the subset relation, attenuation and the revocation lists promise, *)
(* for every set of scopes, caveats, nodes and hash functions.             *)
EXTENDS Capability, FiniteSetTheorems, TLAPS

-----------------------------------------------------------------------------
(* The subset relation on resources is sound for the meaning of patterns.  *)

LEMMA PrefixTransitive ==
  ASSUME NEW S, NEW p \in Seq(S), NEW q \in Seq(S), NEW r \in Seq(S),
         IsPrefix(p, q), IsPrefix(q, r)
  PROVE  IsPrefix(p, r)
BY DEF IsPrefix

LEMMA PrefixSelf == ASSUME NEW S, NEW p \in Seq(S) PROVE IsPrefix(p, p)
BY DEF IsPrefix

LEMMA Kinds ==
  ASSUME NEW r \in Resources
  PROVE  /\ r.kind \in {"Any", "Path", "Endpoint", "IrqLine"} \union RangeKinds
         /\ r.kind = "Path" => r.path \in Seq(STRING) /\ r.wild \in BOOLEAN
         /\ r.kind \in RangeKinds => r.base \in Nat /\ r.len \in Nat
BY DEF Resources, RangeKinds

LEMMA RequestKinds ==
  ASSUME NEW x \in Requestable
  PROVE  /\ x.kind = "Path" => x.path \in Seq(STRING)
         /\ x.kind \in RangeKinds => x.base \in Nat
         /\ x.kind = "Endpoint" => x.port \in Nat
BY DEF Requestable, RangeKinds

LEMMA ResourceSound ==
  ASSUME NEW a \in Resources, NEW b \in Resources, NEW x \in Requestable,
         ResourceIsSubset(a, b), Matches(a, x)
  PROVE  Matches(b, x)
<1>1. CASE b.kind = "Any"
  BY <1>1 DEF Matches, RangeKinds
<1>2. CASE a.kind = "Path" /\ b.kind = "Path"
  <2>1. PathIsSubset(a, b)
    BY <1>2 DEF ResourceIsSubset, RangeKinds
  <2>2. /\ x.kind = "Path"
        /\ a.wild => IsPrefix(a.path, x.path)
        /\ ~ a.wild => a.path = x.path
    BY <1>2 DEF Matches, RangeKinds
  <2>3. CASE b.wild
    <3>1. IsPrefix(b.path, a.path)
      BY <2>1, <2>3 DEF PathIsSubset
    <3>2. a.path \in Seq(STRING) /\ b.path \in Seq(STRING) /\ x.path \in Seq(STRING)
      BY <1>2, <2>2, Kinds, RequestKinds
    <3>3. IsPrefix(b.path, x.path)
      BY <2>2, <3>1, <3>2, PrefixTransitive
    <3> QED BY <1>2, <2>2, <2>3, <3>3 DEF Matches, RangeKinds
  <2>4. CASE ~ b.wild
    BY <1>2, <2>1, <2>2, <2>4 DEF PathIsSubset, Matches, RangeKinds
  <2> QED BY <2>3, <2>4
<1>3. CASE a.kind = "Endpoint" /\ b.kind = "Endpoint"
  BY <1>3 DEF ResourceIsSubset, EndpointIsSubset, Matches, RangeKinds
<1>4. CASE a.kind \in RangeKinds /\ b.kind = a.kind
  <2>1. /\ a.base >= b.base /\ a.base + a.len <= b.base + b.len
        /\ x.kind = a.kind /\ a.base <= x.base /\ x.base < a.base + a.len
    BY <1>4 DEF ResourceIsSubset, RangeIsSubset, Matches, RangeKinds
  <2>2. a.base \in Nat /\ b.base \in Nat /\ a.len \in Nat /\ b.len \in Nat /\ x.base \in Nat
    BY <1>4, <2>1, Kinds, RequestKinds
  <2> QED BY <1>4, <2>1, <2>2 DEF Matches, RangeKinds
<1>5. CASE a.kind = "IrqLine" /\ b.kind = "IrqLine"
  BY <1>5 DEF ResourceIsSubset, Matches, RangeKinds
<1>6. CASE a.kind = "Any" /\ b.kind # "Any"
  BY <1>6 DEF ResourceIsSubset, RangeKinds
<1> QED BY <1>1, <1>2, <1>3, <1>4, <1>5, <1>6, Kinds DEF ResourceIsSubset, RangeKinds

(* Resource::is_subset_of answers true only when every request that        *)
(* matches the first pattern matches the second, for any paths, hosts,     *)
(* ports and ranges.                                                       *)
THEOREM SubsetSound == Spec => []SubsetIsSound
<1>1. SubsetIsSound
  BY ResourceSound, ScopeAssumption DEF SubsetIsSound
<1> QED BY <1>1, PTL

-----------------------------------------------------------------------------
(* Type correctness.  Identifiers are fresh because those in use are among *)
(* the first Cardinality(tokens).                                          *)
Numbered ==
  /\ IsFiniteSet(tokens)
  /\ \A t \in tokens : t.id <= Cardinality(tokens)

Tokens ==
  [id : Ids, issuer : Issuers, parent : Ids \union {NoParent}, subject : Nodes,
   scope : ScopeShape]

TInv == TypeOK /\ Numbered

LEMMA InitType == Init => TInv
<1> SUFFICES ASSUME Init PROVE TInv
  OBVIOUS
<1>1. 0 \in Times
  BY CapabilityAssumption DEF Times
<1>2. IsFiniteSet(tokens)
  BY FS_EmptySet DEF Init
<1>3. revokedAt \in [Ids -> Times] /\ held \in [Nodes -> crls \union {NoCrl}]
  BY <1>1 DEF Init
<1>4. local \in [Nodes -> [bits : SUBSET Bits, full : SUBSET Ids]]
  BY DEF Init
<1> QED BY <1>1, <1>2, <1>3, <1>4 DEF Init, TInv, TypeOK, Numbered

LEMMA NarrowedType ==
  ASSUME NEW s \in ScopeShape, NEW c \in Caveats
  PROVE  /\ Narrowed(s, c) \in ScopeShape
         /\ Narrowed(s, c).resource = s.resource
<1>1. c.kind \in {"ExpiresAt", "NotBefore"} => c.at \in Times
  BY CapabilityAssumption
<1> QED BY <1>1 DEF Narrowed, ScopeShape

LEMMA ProduceType ==
  ASSUME TInv, NEW i \in Issuers, NEW p \in Ids \union {NoParent}, NEW n \in Nodes,
         NEW s \in ScopeShape, s.from <= s.to, Produce(i, p, n, s)
  PROVE  TInv'
<1> DEFINE new == [id |-> NextId, issuer |-> i, parent |-> p, subject |-> n, scope |-> s]
<1>1. IsFiniteSet(tokens) /\ Cardinality(tokens) \in Nat
  BY FS_CardinalityType DEF TInv, Numbered
<1>2. NextId \in Ids /\ NextId = Cardinality(tokens) + 1
  BY <1>1, CapabilityAssumption DEF NextId, Ids, Produce
<1>3. tokens' = tokens \union {new}
  BY DEF Produce
<1>4. tokens \subseteq Tokens /\ new \in Tokens
  BY <1>2 DEF TInv, TypeOK, Tokens
<1>5. \A t \in tokens : t.id \in Nat /\ t.id < NextId
  BY <1>1, <1>2, <1>4 DEF TInv, Numbered, Tokens, Ids
<1>6. new \notin tokens /\ new.id = NextId /\ new.scope = s
  BY <1>2, <1>5 DEF Ids
<1>7. IsFiniteSet(tokens') /\ Cardinality(tokens') = Cardinality(tokens) + 1
  BY <1>1, <1>3, <1>6, FS_AddElement
<1> HIDE DEF new
<1>8. Numbered'
  <2>1. \A t \in tokens : t.id <= NextId
    BY <1>2, <1>5 DEF Ids
  <2>2. new.id <= NextId
    BY <1>2, <1>6 DEF Ids
  <2>3. Cardinality(tokens') = NextId
    BY <1>2, <1>7
  <2> QED BY <1>3, <1>7, <2>1, <2>2, <2>3 DEF Numbered
<1>9. tokens' \subseteq Tokens
  BY <1>3, <1>4
<1>10. \A t, u \in tokens' : t.id = u.id => t = u
  <2>1. \A t, u \in tokens : t.id = u.id => t = u
    BY DEF TInv, TypeOK
  <2>2. \A t \in tokens : t.id # new.id
    BY <1>5, <1>6
  <2> QED BY <1>3, <2>1, <2>2
<1>11. \A t \in tokens' : t.scope.from <= t.scope.to
  BY <1>3, <1>6 DEF TInv, TypeOK
<1>12. UNCHANGED <<revoked, revokedAt, crls, held, local, now>>
  BY DEF Produce
<1> QED BY <1>8, <1>9, <1>10, <1>11, <1>12 DEF TInv, TypeOK, Tokens

LEMMA MintType ==
  ASSUME TInv, NEW i \in Issuers, NEW n \in Nodes, NEW s \in Scopes,
         NEW p \in Ids \union {NoParent}, Mint(i, n, s, p)
  PROVE  TInv'
<1>1. s \in ScopeShape /\ s.from <= s.to
  BY ScopeAssumption, CapabilityAssumption
<1> QED BY <1>1, ProduceType DEF Mint

LEMMA AttenuateType ==
  ASSUME TInv, NEW i \in Issuers, NEW t \in tokens, NEW c \in Caveats, Attenuate(i, t, c)
  PROVE  TInv'
<1>1. t.id \in Ids /\ t.subject \in Nodes /\ t.scope \in ScopeShape
  BY DEF TInv, TypeOK
<1>2. Narrowed(t.scope, c) \in ScopeShape
  BY <1>1, NarrowedType
<1>3. Narrowed(t.scope, c).from <= Narrowed(t.scope, c).to
  BY DEF Attenuate, CanApply
<1> QED BY <1>1, <1>2, <1>3, ProduceType DEF Attenuate

LEMMA RevokeType ==
  ASSUME TInv, NEW t \in tokens, Revoke(t)
  PROVE  TInv'
<1>1. t.id \in Ids
  BY DEF TInv, TypeOK
<1> QED BY <1>1 DEF Revoke, TInv, TypeOK, Numbered

LEMMA LocalType ==
  ASSUME TInv, NEW n \in Nodes, NEW t \in tokens, RevokeLocally(n, t)
  PROVE  /\ TInv'
         /\ local'[n].bits = local[n].bits \union Indices[t.id]
         /\ local'[n].full = local[n].full \union {t.id}
         /\ \A m \in Nodes \ {n} : local'[m] = local[m]
<1>1. t.id \in Ids
  BY DEF TInv, TypeOK
<1>2. Indices[t.id] \subseteq Bits
  BY <1>1 DEF Bits
<1>3. local[n] \in [bits : SUBSET Bits, full : SUBSET Ids]
  BY DEF TInv, TypeOK
<1>4. /\ local' \in [Nodes -> [bits : SUBSET Bits, full : SUBSET Ids]]
      /\ local'[n].bits = local[n].bits \union Indices[t.id]
      /\ local'[n].full = local[n].full \union {t.id}
      /\ \A m \in Nodes \ {n} : local'[m] = local[m]
  BY <1>1, <1>2, <1>3 DEF RevokeLocally, Inserted, TInv, TypeOK
<1> QED BY <1>4 DEF RevokeLocally, TInv, TypeOK, Numbered

LEMMA PublishType ==
  ASSUME TInv, NEW i \in Issuers, NEW next \in NextUpdates,
         NEW list \in SUBSET {t.id : t \in tokens}, Publish(i, next, list)
  PROVE  TInv'
<1> DEFINE new == [issuer |-> i, next |-> next, revoked |-> list,
                   signed |-> now, known |-> revoked]
           Lists == [issuer : Issuers, next : Nat, revoked : SUBSET Ids,
                     signed : Times, known : SUBSET Ids]
<1>1. next \in Nat
  BY CapabilityAssumption
<1>2. list \subseteq Ids
  BY DEF TInv, TypeOK
<1>3. new \in Lists
  BY <1>1, <1>2 DEF TInv, TypeOK
<1>4. crls' = crls \union {new}
  BY DEF Publish
<1> HIDE DEF new
<1>5. crls' \subseteq Lists /\ crls \subseteq crls'
  BY <1>3, <1>4 DEF TInv, TypeOK
<1>6. held' \in [Nodes -> crls' \union {NoCrl}]
  <2>1. held' = held /\ held \in [Nodes -> crls \union {NoCrl}]
    BY DEF Publish, TInv, TypeOK
  <2> QED BY <1>5, <2>1
<1>7. UNCHANGED <<tokens, revoked, revokedAt, local, now>>
  BY DEF Publish
<1> QED BY <1>5, <1>6, <1>7 DEF TInv, TypeOK, Numbered

LEMMA AdvanceType == ASSUME TInv, Advance PROVE TInv'
<1>1. now' \in Times
  BY CapabilityAssumption DEF Advance, TInv, TypeOK, Times
<1> QED BY <1>1 DEF Advance, TInv, TypeOK, Numbered

LEMMA ImportType ==
  ASSUME TInv, NEW n \in Nodes, NEW crl \in crls, Import(n, crl)
  PROVE  TInv'
BY DEF Import, TInv, TypeOK, Numbered

LEMMA NextType == TInv /\ [Next]_vars => TInv'
<1> SUFFICES ASSUME TInv, [Next]_vars PROVE TInv'
  OBVIOUS
<1>1. CASE UNCHANGED vars
  BY <1>1 DEF vars, TInv, TypeOK, Numbered
<1> QED
  BY <1>1, MintType, AttenuateType, RevokeType, LocalType, PublishType, AdvanceType,
     ImportType DEF Next

(* Every token has an identifier of its own and a well-formed scope whose  *)
(* window is not inverted, whatever is minted and attenuated by whichever  *)
(* key.  A window may be empty: apply_caveat lets from = to pass.          *)
THEOREM TypeCorrect == Spec => []TypeOK
<1>1. Spec => []TInv
  BY InitType, NextType, PTL DEF Spec
<1>2. TInv => TypeOK
  BY DEF TInv
<1> QED BY <1>1, <1>2, PTL

-----------------------------------------------------------------------------
(* A link that verifies narrows the scope, so a chain of two does too.     *)

LEMMA LinkNarrows ==
  ASSUME TypeOK, NEW t \in tokens, NEW u \in tokens, Linked(t, u)
  PROVE  /\ t.scope.action = u.scope.action
         /\ t.scope.caveats \subseteq u.scope.caveats
         /\ t.scope.from <= u.scope.from /\ u.scope.to <= t.scope.to
         /\ \A x \in Objects : Matches(u.scope.resource, x) => Matches(t.scope.resource, x)
<1>1. IsSubset(u.scope, t.scope)
  BY DEF Linked, VerifyChainLink
<1>2. /\ t.scope.resource \in Resources /\ u.scope.resource \in Resources
      /\ t.scope.from \in Times /\ u.scope.from \in Times
      /\ t.scope.to \in Times /\ u.scope.to \in Times
  BY DEF TypeOK, ScopeShape
<1>3. \A x \in Objects : Matches(u.scope.resource, x) => Matches(t.scope.resource, x)
  BY <1>1, <1>2, ResourceSound, ScopeAssumption DEF IsSubset
<1> QED BY <1>1, <1>2, <1>3 DEF IsSubset, Times

LEMMA ChainNarrows ==
  ASSUME TypeOK, NEW t \in tokens, NEW u \in tokens, Descends(t, u)
  PROVE  /\ t.scope.action = u.scope.action
         /\ t.scope.caveats \subseteq u.scope.caveats
         /\ t.scope.from <= u.scope.from /\ u.scope.to <= t.scope.to
         /\ \A x \in Objects : Matches(u.scope.resource, x) => Matches(t.scope.resource, x)
<1>1. CASE Linked(t, u)
  BY <1>1, LinkNarrows
<1>2. CASE \E v \in tokens : Linked(t, v) /\ Linked(v, u)
  <2>1. PICK v \in tokens : Linked(t, v) /\ Linked(v, u)
    BY <1>2
  <2>2. /\ t.scope.action = v.scope.action
        /\ t.scope.caveats \subseteq v.scope.caveats
        /\ t.scope.from <= v.scope.from /\ v.scope.to <= t.scope.to
        /\ \A x \in Objects : Matches(v.scope.resource, x) => Matches(t.scope.resource, x)
    BY <2>1, LinkNarrows
  <2>3. /\ v.scope.action = u.scope.action
        /\ v.scope.caveats \subseteq u.scope.caveats
        /\ v.scope.from <= u.scope.from /\ u.scope.to <= v.scope.to
        /\ \A x \in Objects : Matches(u.scope.resource, x) => Matches(v.scope.resource, x)
    BY <2>1, LinkNarrows
  <2>4. \A w \in tokens : w.scope.from \in Times /\ w.scope.to \in Times
    BY DEF TypeOK, ScopeShape
  <2> QED BY <2>2, <2>3, <2>4 DEF Times
<1> QED BY <1>1, <1>2 DEF Descends

LEMMA ChainSafe == TypeOK => ChainNeverWidens
<1> SUFFICES ASSUME TypeOK, NEW t \in tokens, NEW u \in tokens, Descends(t, u)
             PROVE  /\ t.scope.action = u.scope.action
                    /\ t.scope.caveats \subseteq u.scope.caveats
                    /\ \A x \in Objects, time \in Times :
                         Allows(u, x, time) => Allows(t, x, time)
  BY DEF ChainNeverWidens
<1>1. \A w \in tokens : w.scope.from \in Times /\ w.scope.to \in Times
  BY DEF TypeOK, ScopeShape
<1> QED BY <1>1, ChainNarrows DEF Allows, Times

LEMMA WindowSafe == TypeOK => NotAfterAncestors
<1> SUFFICES ASSUME TypeOK, NEW n \in Nodes, NEW t \in tokens, NEW u \in tokens,
                    Descends(t, u), Honours(n, u) \/ VerifyFull(n, u)
             PROVE  t.scope.from <= now /\ now < t.scope.to
  BY DEF NotAfterAncestors
<1>1. u.scope.from <= now /\ now < u.scope.to
  BY DEF Honours, VerifyFull, InWindow
<1>2. now \in Times /\ \A w \in tokens : w.scope.from \in Times /\ w.scope.to \in Times
  BY DEF TypeOK, ScopeShape
<1> QED BY <1>1, <1>2, ChainNarrows DEF Times

(* Along a chain whose links verify a token allows nothing that its        *)
(* ancestors do not allow (verify_chain_link, Scope::is_subset_of), and    *)
(* neither verification accepts it outside the window of an ancestor.      *)
THEOREM ChainSafety == Spec => [](ChainNeverWidens /\ NotAfterAncestors)
BY TypeCorrect, ChainSafe, WindowSafe, PTL

-----------------------------------------------------------------------------
(* Revocation.  A list signed without knowledge of a revocation was signed *)
(* before it, so a list that is in use CrlLife later either knew of it or  *)
(* was given too long a life; the bits of every identifier in a node's     *)
(* full set are in its filter.                                             *)
CrlsDated ==
  \A c \in crls :
    /\ c.signed <= now
    /\ \A i \in revoked \ c.known : c.signed <= revokedAt[i]

Filtered == \A n \in Nodes : \A i \in local[n].full : Indices[i] \subseteq local[n].bits

LEMMA CrlsDatedStep == TInv /\ CrlsDated /\ [Next]_vars => CrlsDated'
<1> SUFFICES ASSUME TInv, CrlsDated, [Next]_vars PROVE CrlsDated'
  OBVIOUS
<1>1. \A c \in crls : c.signed \in Times
  BY DEF TInv, TypeOK
<1>2. CASE \E t \in tokens : Revoke(t)
  <2>1. PICK t \in tokens : Revoke(t)
    BY <1>2
  <2>2. t.id \in Ids /\ revokedAt \in [Ids -> Times] /\ revoked \subseteq Ids
    BY DEF TInv, TypeOK
  <2>3. revokedAt'[t.id] = now /\ \A i \in revoked : revokedAt'[i] = revokedAt[i]
    BY <2>1, <2>2 DEF Revoke
  <2> QED BY <2>1, <2>3 DEF Revoke, CrlsDated
<1>3. CASE \E i \in Issuers, next \in NextUpdates, list \in SUBSET {t.id : t \in tokens} :
             Publish(i, next, list)
  <2>1. PICK i \in Issuers, next \in NextUpdates, list \in SUBSET {t.id : t \in tokens} :
               Publish(i, next, list)
    BY <1>3
  <2> DEFINE new == [issuer |-> i, next |-> next, revoked |-> list,
                     signed |-> now, known |-> revoked]
  <2>2. now \in Times
    BY DEF TInv, TypeOK
  <2>3. crls' = crls \union {new} /\ UNCHANGED <<revoked, revokedAt, now>>
    BY <2>1 DEF Publish
  <2>4. new.signed <= now /\ new.known = revoked
    BY <2>2 DEF Times
  <2> HIDE DEF new
  <2> QED BY <2>3, <2>4 DEF CrlsDated
<1>4. CASE Advance
  <2>1. now \in Times /\ now' = now + 1 /\ UNCHANGED <<crls, revoked, revokedAt>>
    BY <1>4 DEF TInv, TypeOK, Advance
  <2> QED BY <1>1, <2>1 DEF CrlsDated, Times
<1>5. CASE UNCHANGED <<crls, revoked, revokedAt, now>>
  BY <1>5 DEF CrlsDated
<1> QED
  BY <1>2, <1>3, <1>4, <1>5
     DEF Next, Mint, Attenuate, Produce, RevokeLocally, Import, vars

LEMMA CrlsEffective == TInv /\ CrlsDated => RevocationTakesEffect
<1> SUFFICES ASSUME TInv, CrlsDated, NEW n \in Nodes, NEW t \in tokens,
                    Honours(n, t), t.id \in revoked, held[n].issuer = t.issuer,
                    Proper(held[n]), now >= revokedAt[t.id] + CrlLife
             PROVE  FALSE
  BY DEF RevocationTakesEffect
<1>1. held[n] \in crls
  BY DEF Honours, TInv, TypeOK
<1>2. now < held[n].next /\ t.id \notin held[n].revoked
  BY DEF Honours, Fresh
<1>3. t.id \notin held[n].known /\ held[n].next <= held[n].signed + CrlLife
  BY <1>2 DEF Proper
<1>4. held[n].signed <= revokedAt[t.id]
  BY <1>1, <1>3 DEF CrlsDated
<1>5. /\ held[n].signed \in Times /\ held[n].next \in Nat
      /\ now \in Times /\ revokedAt[t.id] \in Times
  BY <1>1 DEF TInv, TypeOK
<1> QED BY <1>2, <1>3, <1>4, <1>5, CapabilityAssumption DEF Times

(* Whatever lists are signed and reach a node, however late and in         *)
(* whatever order (crl.rs), a token is honoured CrlLife after its          *)
(* revocation only on a list that another key signed or that its issuer    *)
(* left incomplete or gave too long a life.                                *)
THEOREM RevocationEffective == Spec => []RevocationTakesEffect
<1>1. Init => CrlsDated
  BY DEF Init, CrlsDated
<1>2. Spec => [](TInv /\ CrlsDated)
  BY <1>1, InitType, NextType, CrlsDatedStep, PTL DEF Spec
<1> QED BY <1>2, CrlsEffective, PTL

LEMMA FilteredStep == TInv /\ Filtered /\ [Next]_vars => Filtered'
<1> SUFFICES ASSUME TInv, Filtered, [Next]_vars PROVE Filtered'
  OBVIOUS
<1>1. CASE \E t \in tokens, n \in Nodes : RevokeLocally(n, t)
  <2>1. PICK t \in tokens, n \in Nodes : RevokeLocally(n, t)
    BY <1>1
  <2>2. /\ local'[n].bits = local[n].bits \union Indices[t.id]
        /\ local'[n].full = local[n].full \union {t.id}
        /\ \A m \in Nodes \ {n} : local'[m] = local[m]
    BY <2>1, LocalType
  <2> QED BY <2>2 DEF Filtered
<1>2. CASE UNCHANGED local
  BY <1>2 DEF Filtered
<1> QED
  BY <1>1, <1>2
     DEF Next, Mint, Attenuate, Produce, Revoke, Publish, Advance, Import, vars

(* RevocationList::contains: the Bloom filter in front of the full set has *)
(* no false negatives for any hash functions, so a node never accepts a    *)
(* token that it revoked itself.                                           *)
THEOREM LocalRevocation == Spec => []LocalRevocationHolds
<1>1. Init => Filtered
  BY DEF Init, Filtered
<1>2. Filtered => LocalRevocationHolds
  BY DEF Filtered, LocalRevocationHolds, VerifyFull, Contains
<1>3. Spec => [](TInv /\ Filtered)
  BY <1>1, InitType, NextType, FilteredStep, PTL DEF Spec
<1> QED BY <1>2, <1>3, PTL
=============================================================================
