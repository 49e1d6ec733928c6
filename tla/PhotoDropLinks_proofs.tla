----------------------- MODULE PhotoDropLinks_proofs -----------------------
(***************************************************************************)
(* PhotoDropLinks, for every set of drops, links and requests, every bound  *)
(* on the links and every gap and lifetime.                                 *)
(***************************************************************************)
EXTENDS PhotoDropLinks, FiniteSetTheorems, TLAPS

InTx == {"stamp", "prune", "commit"}

\* A transaction owns its link: nobody else has it, its drop exists.
OwnLink ==
  \A r \in Requests : req[r].pc \in InTx =>
    /\ req[r].link \in used
    /\ linkOf[req[r].link] = req[r].drop
    /\ req[r].drop \in Drops
    /\ \A q \in Requests : (q # r /\ req[q].pc \in InTx) => req[q].link # req[r].link

MintHasDrop == \A r \in Requests : req[r].pc = "mint" => req[r].drop \in Drops

\* Outside a transaction a request has no link.
NoLinkOutside == \A r \in Requests : req[r].pc \notin InTx => req[r].link = NoLink

UnusedIsUnlinked == \A l \in Links : l \notin used => linkOf[l] = NoDrop

LinkedDropExists == \A l \in Links : linkOf[l] # NoDrop => dropRow[linkOf[l]] = "row"

\* The row lock: one open at a time is between its update and its commit.
LockIsExclusive ==
  \A r, q \in Requests :
    (r # q /\ req[r].pc \in {"prune", "commit"} /\ req[q].pc \in {"prune", "commit"})
      => req[r].drop # req[q].drop

\* A prune takes links that are live, not its own, and leaves the bound.
PruneIsSound ==
  \A r \in Requests, d \in Drops : (req[r].pc = "commit" /\ req[r].drop = d) =>
    /\ req[r].gone \subseteq LiveLinks(d)
    /\ Cardinality((LiveLinks(d) \ req[r].gone) \union {req[r].link}) <= MaxLinks + 1

LinkInv ==
  /\ TypeOK
  /\ OwnLink
  /\ MintHasDrop
  /\ NoLinkOutside
  /\ UnusedIsUnlinked
  /\ LinkedDropExists
  /\ LockIsExclusive
  /\ PruneIsSound
  /\ LinksBounded
  /\ EveryDropHasALink

\* Every step keeps the types of the tables and of the opens in flight.
LEMMA TypeStep == TypeOK /\ MintHasDrop /\ OwnLink /\ [Next]_vars => TypeOK'
<1> SUFFICES ASSUME TypeOK, MintHasDrop, OwnLink, [Next]_vars
             PROVE  TypeOK'
  OBVIOUS
<1> USE TimeAssumption
    DEF TypeOK, MintHasDrop, OwnLink, InTx, Stages, Idle, Done, At, Decide, dropVars, linkVars
<1>1. ASSUME NEW r \in Requests, Open(r) \/ ReadSession(r) \/ UpdateDrop(r)
                                  \/ Prune(r) \/ Commit(r) \/ Rollback(r)
      PROVE  TypeOK'
  <2>1. CASE Open(r)  BY <2>1 DEF Open
  <2>2. CASE ReadSession(r)  BY <2>2 DEF ReadSession, SessionDrops
  <2>3. CASE UpdateDrop(r)
    <3>1. req' = [req EXCEPT ![r] = [@ EXCEPT !.pc = "prune"]]
      BY <2>3 DEF UpdateDrop
    <3>2. [req[r] EXCEPT !.pc = "prune"]
            \in [pc : Stages, drop : Drops \union {NoDrop}, link : Links \union {NoLink},
                gone : SUBSET Links, now : Nat]
      <4>1. req[r] \in [pc : Stages, drop : Drops \union {NoDrop},
                        link : Links \union {NoLink}, gone : SUBSET Links, now : Nat]
        OBVIOUS
      <4>2. QED  BY <4>1
    <3>3. QED  BY <2>3, <3>1, <3>2, SMTT(30) DEF UpdateDrop
  <2>4. CASE Prune(r)
    <3>1. PICK keep \in Kept(r) :
            req' = [req EXCEPT ![r] = [@ EXCEPT !.pc = "commit", !.gone = Seen(r) \ keep]]
      BY <2>4 DEF Prune
    <3>2. Seen(r) \ keep \in SUBSET Links
      BY <2>4 DEF Prune, Seen, LiveLinks
    <3>3. [req[r] EXCEPT !.pc = "commit", !.gone = Seen(r) \ keep]
            \in [pc : Stages, drop : Drops \union {NoDrop}, link : Links \union {NoLink},
                gone : SUBSET Links, now : Nat]
      <4>1. req[r] \in [pc : Stages, drop : Drops \union {NoDrop},
                        link : Links \union {NoLink}, gone : SUBSET Links, now : Nat]
        OBVIOUS
      <4>2. QED  BY <3>2, <4>1
    <3>4. QED  BY <2>4, <3>1, <3>3 DEF Prune
  <2>5. CASE Commit(r)  BY <2>5 DEF Commit
  <2>6. CASE Rollback(r)  BY <2>6 DEF Rollback
  <2>7. QED  BY <1>1, <2>1, <2>2, <2>3, <2>4, <2>5, <2>6
<1>2. ASSUME NEW r \in Requests, NEW l \in Links, InsertLink(r, l)  PROVE TypeOK'
  <2>1. req'[r] = [pc |-> "stamp", drop |-> req[r].drop, link |-> l,
                   gone |-> req[r].gone, now |-> req[r].now]
    BY <1>2 DEF InsertLink
  <2>2. QED  BY <1>2, <2>1 DEF InsertLink
<1>3. ASSUME NEW r \in Requests, NEW d \in Drops, NEW l \in Links, FreshDrop(r, d, l)
      PROVE  TypeOK'
  BY <1>3 DEF FreshDrop
<1>4. ASSUME NEW r \in Requests, NEW d \in Drops, ReadNamed(r, d)  PROVE TypeOK'
  BY <1>4 DEF ReadNamed
<1>5. ASSUME NEW d \in Drops, Claim(d) \/ Sweep(d)  PROVE TypeOK'
  <2>1. CASE Claim(d)  BY <2>1 DEF Claim
  <2>2. CASE Sweep(d)  BY <2>2 DEF Sweep
  <2>3. QED  BY <1>5, <2>1, <2>2
<1>6. CASE Tick  BY <1>6 DEF Tick
<1>7. CASE UNCHANGED vars  BY <1>7 DEF vars
<1>8. QED  BY <1>1, <1>2, <1>3, <1>4, <1>5, <1>6, <1>7 DEF Next, Step, Refused, Abort

\* What a continue leaves: at most MaxLinks newest, and its own.
LEMMA KeptIsBounded ==
  ASSUME NEW seen \in SUBSET Links, NEW keep \in Newest(seen), NEW own \in Links
  PROVE  /\ keep \subseteq seen
         /\ Cardinality(keep \union {own}) <= MaxLinks + 1
<1>1. IsFiniteSet(seen)
  BY LinksAreFinite, FS_Subset
<1>2. keep \subseteq seen /\ IsFiniteSet(keep)
  BY <1>1, FS_Subset DEF Newest
<1>3. Cardinality(keep) <= MaxLinks /\ Cardinality(keep) \in Nat
  BY <1>1, <1>2, FS_CardinalityType, MaxLinksAssumption DEF Newest, KeepMax
<1>4. Cardinality(keep \union {own}) <= Cardinality(keep) + 1
  <2>1. Cardinality(keep \union {own}) =
          IF own \in keep THEN Cardinality(keep) ELSE Cardinality(keep) + 1
    BY <1>2, FS_AddElement
  <2>2. QED  BY <1>3, <2>1
<1>5. IsFiniteSet(keep \union {own})
  BY <1>2, FS_AddElement
<1>6. Cardinality(keep \union {own}) \in Nat
  BY <1>5, FS_CardinalityType
<1>7. QED  BY <1>2, <1>3, <1>4, <1>6, MaxLinksAssumption

\* The invariant holds before the first open.
LEMMA LinkInvInit == Init => LinkInv
<1> SUFFICES ASSUME Init PROVE LinkInv
  OBVIOUS
<1>1. \A d \in Drops : LiveLinks(d) = {}
  BY SentinelAssumption DEF Init, LiveLinks
<1>2. LinksBounded
  BY <1>1, FS_EmptySet, MaxLinksAssumption DEF LinksBounded
<1>3. QED
  BY <1>1, <1>2, SentinelAssumption
  DEF Init, LinkInv, TypeOK, OwnLink, MintHasDrop, NoLinkOutside, UnusedIsUnlinked,
      LinkedDropExists, LockIsExclusive, PruneIsSound, EveryDropHasALink, Idle, Stages, InTx

-----------------------------------------------------------------------------
\* A step that leaves every drop's live links alone keeps the counting parts.
LEMMA QuietStep ==
  ASSUME LinkInv, TypeOK',
         \A d \in Drops : LiveLinks(d)' = LiveLinks(d),
         \A d \in Drops : dropRow'[d] = "row" => dropRow[d] = "row",
         \A r \in Requests : req'[r].pc = "commit" => req'[r] = req[r]
  PROVE  PruneIsSound' /\ LinksBounded' /\ EveryDropHasALink'
<1>1. LinksBounded' /\ EveryDropHasALink'
  BY DEF LinkInv, LinksBounded, EveryDropHasALink
<1>2. PruneIsSound'
  BY DEF LinkInv, PruneIsSound
<1>3. QED  BY <1>1, <1>2

\* A step of an open that is in no transaction, before it and after it.
LEMMA PlainStep ==
  ASSUME LinkInv, TypeOK', NEW r \in Requests,
         req[r].pc \notin InTx, req'[r].pc \notin InTx, req'[r].link = NoLink,
         req'[r].pc = "mint" => req'[r].drop \in Drops,
         \A q \in Requests : q # r => req'[q] = req[q],
         UNCHANGED <<clock, dropVars, linkVars>>
  PROVE  LinkInv'
<1> USE DEF LinkInv, InTx, dropVars, linkVars
<1>1. OwnLink' /\ MintHasDrop' /\ NoLinkOutside' /\ UnusedIsUnlinked'
      /\ LinkedDropExists' /\ LockIsExclusive'
  BY DEF OwnLink, MintHasDrop, NoLinkOutside, UnusedIsUnlinked, LinkedDropExists,
         LockIsExclusive
<1>2. Pending' = Pending
  BY DEF Pending
<1>3. \A d \in Drops : LiveLinks(d)' = LiveLinks(d)
  BY <1>2 DEF LiveLinks
<1>4. \A q \in Requests : req'[q].pc = "commit" => req'[q] = req[q]
  OBVIOUS
<1>5. QED  BY <1>1, <1>3, <1>4, QuietStep

\* Each step keeps the invariant: the steps that change a drop's live links are a
\* commit, a fresh drop and a sweep.
LEMMA LinkInvStep == LinkInv /\ [Next]_vars => LinkInv'
<1> SUFFICES ASSUME LinkInv, [Next]_vars
             PROVE  LinkInv'
  OBVIOUS
<1>0. TypeOK'
  BY TypeStep DEF LinkInv
<1> DEFINE Shape == OwnLink /\ MintHasDrop /\ NoLinkOutside /\ UnusedIsUnlinked
                    /\ LinkedDropExists /\ LockIsExclusive
<1>t. /\ req \in [Requests -> [pc : Stages, drop : Drops \union {NoDrop},
                               link : Links \union {NoLink}, gone : SUBSET Links, now : Nat]]
      /\ linkOf \in [Links -> Drops \union {NoDrop}] /\ used \subseteq Links
      /\ dropRow \in [Drops -> {"unborn", "row", "swept"}]
      /\ NoDrop \notin Drops /\ NoLink \notin Links
  BY SentinelAssumption DEF LinkInv, TypeOK
<1>s. Shape
  BY DEF LinkInv
<1>c. PruneIsSound /\ LinksBounded /\ EveryDropHasALink
  BY DEF LinkInv
<1>o. \A r \in Requests : req[r].pc \in InTx =>
        /\ req[r].link \in used /\ req[r].link \in Links
        /\ req[r].drop \in Drops /\ linkOf[req[r].link] = req[r].drop
        /\ dropRow[req[r].drop] = "row"
        /\ \A q \in Requests : (q # r /\ req[q].pc \in InTx) => req[q].link # req[r].link
  BY <1>t, <1>s DEF OwnLink, LinkedDropExists
<1>n. \A r \in Requests : req[r].pc \notin InTx => req[r].link = NoLink
  BY <1>s DEF NoLinkOutside
<1>u. \A l \in Links : /\ l \notin used => linkOf[l] = NoDrop
                       /\ linkOf[l] # NoDrop => dropRow[linkOf[l]] = "row"
  BY <1>s DEF UnusedIsUnlinked, LinkedDropExists
<1>q. Shape' /\ PruneIsSound' /\ LinksBounded' /\ EveryDropHasALink' => LinkInv'
  BY <1>0 DEF LinkInv
<1> USE DEF InTx, Idle, Done, At, Decide, dropVars, linkVars
<1>1. ASSUME NEW r \in Requests, Open(r)  PROVE LinkInv'
  BY <1>0, <1>t, <1>s, <1>1, PlainStep DEF Open, NoLinkOutside
<1>2. ASSUME NEW r \in Requests, ReadSession(r)  PROVE LinkInv'
  BY <1>0, <1>t, <1>2, PlainStep DEF ReadSession, SessionDrops
<1>3. ASSUME NEW r \in Requests, NEW d \in Drops, ReadNamed(r, d)  PROVE LinkInv'
  BY <1>0, <1>t, <1>3, PlainStep DEF ReadNamed
<1>4. ASSUME NEW r \in Requests, NEW l \in Links, InsertLink(r, l)  PROVE LinkInv'
  <2>1. Shape'
    BY <1>4, <1>t, <1>s DEF InsertLink, OwnLink, MintHasDrop, NoLinkOutside, UnusedIsUnlinked,
             LinkedDropExists, LockIsExclusive
  <2>2. Pending' = Pending \union {l}
    BY <1>t, <1>o, <1>n, <1>u, <1>4 DEF InsertLink, Pending
  <2>3. \A d \in Drops : LiveLinks(d)' = LiveLinks(d)
    BY <1>t, <1>o, <1>n, <1>u, <1>4, <2>2 DEF InsertLink, LiveLinks
  <2>4. QED  BY <1>0, <1>q, <1>t, <1>4, <2>1, <2>3, QuietStep DEF InsertLink
<1>5. ASSUME NEW r \in Requests, UpdateDrop(r)  PROVE LinkInv'
  <2>1. Shape'
    BY <1>5, <1>t, <1>s DEF UpdateDrop, Locked, OwnLink, MintHasDrop, NoLinkOutside, UnusedIsUnlinked,
             LinkedDropExists, LockIsExclusive
  <2>2. Pending' = Pending
    BY <1>t, <1>o, <1>n, <1>u, <1>5 DEF UpdateDrop, Pending
  <2>3. \A d \in Drops : LiveLinks(d)' = LiveLinks(d)
    BY <1>t, <1>o, <1>n, <1>u, <1>5, <2>2 DEF UpdateDrop, LiveLinks
  <2>4. QED  BY <1>0, <1>q, <1>t, <1>5, <2>1, <2>3, QuietStep DEF UpdateDrop
<1>6. ASSUME NEW r \in Requests, Prune(r)  PROVE LinkInv'
  <2>k. PICK kept \in Kept(r) :
          req' = [req EXCEPT ![r] = [@ EXCEPT !.pc = "commit", !.gone = Seen(r) \ kept]]
    BY <1>6 DEF Prune
  <2>1. PICK keep \in Newest(Seen(r)) : kept = keep \union {req[r].link}
    BY <2>k DEF Kept
  <2>d. PICK d \in Drops : d = req[r].drop
    BY <1>6, <1>o DEF Prune
  <2> DEFINE gone == Seen(r) \ (keep \union {req[r].link})
  <2>2. /\ At(r, "prune") /\ req[r].drop = d /\ req[r].link \in Links
        /\ req'[r].pc = "commit" /\ req'[r].link = req[r].link
        /\ req'[r].drop = d /\ req'[r].gone = gone
        /\ \A q \in Requests : q # r => req'[q] = req[q]
        /\ UNCHANGED <<clock, dropVars, linkVars>>
    <3>1. At(r, "prune") /\ UNCHANGED <<clock, dropVars, linkVars>>
      BY <1>6 DEF Prune
    <3>2. req' = [req EXCEPT ![r] = [req[r] EXCEPT !.pc = "commit", !.gone = gone]]
      BY <2>k, <2>1
    <3>3. req[r] \in [pc : Stages, drop : Drops \union {NoDrop},
                      link : Links \union {NoLink}, gone : SUBSET Links, now : Nat]
      BY <1>t
    <3> HIDE DEF gone
    <3>4. /\ req'[r].pc = "commit" /\ req'[r].link = req[r].link
          /\ req'[r].drop = req[r].drop /\ req'[r].gone = gone
          /\ \A q \in Requests : q # r => req'[q] = req[q]
      BY <1>t, <3>2, <3>3
    <3>5. QED  BY <1>o, <2>d, <3>1, <3>4
  <2> HIDE DEF gone
  <2>3. Shape'
    BY <2>2, <1>t, <1>s DEF OwnLink, MintHasDrop, NoLinkOutside, UnusedIsUnlinked,
             LinkedDropExists, LockIsExclusive
  <2>4. Pending' = Pending
    BY <1>t, <1>o, <1>n, <1>u, <2>2 DEF Pending
  <2>5. \A e \in Drops : LiveLinks(e)' = LiveLinks(e)
    BY <1>t, <1>o, <1>n, <1>u, <2>2, <2>4 DEF LiveLinks
  <2>6. Seen(r) = LiveLinks(d) \union {req[r].link} /\ Seen(r) \in SUBSET Links
    BY <1>t, <1>o, <1>n, <1>u, <2>2 DEF Seen, LiveLinks
  <2>7. /\ keep \subseteq Seen(r)
        /\ Cardinality(keep \union {req[r].link}) <= MaxLinks + 1
    BY <1>t, <1>o, <1>n, <1>u, <2>2, <2>6, KeptIsBounded
  <2>8. gone \subseteq LiveLinks(d)
    BY <1>t, <1>o, <1>n, <1>u, <2>6 DEF gone
  <2>9. (LiveLinks(d) \ gone) \union {req[r].link} = keep \union {req[r].link}
    BY <1>t, <1>o, <1>n, <1>u, <2>6, <2>7 DEF gone
  <2>10. PruneIsSound'
    <3> SUFFICES ASSUME NEW q \in Requests, NEW e \in Drops,
                        req'[q].pc = "commit", req'[q].drop = e
                 PROVE  /\ req'[q].gone \subseteq LiveLinks(e)'
                        /\ Cardinality((LiveLinks(e)' \ req'[q].gone) \union {req'[q].link})
                             <= MaxLinks + 1
      BY DEF PruneIsSound
    <3>1. CASE q = r
      <4>1. e = d
        BY <1>t, <1>o, <1>n, <1>u, <2>2, <3>1
      <4>2. LiveLinks(e)' = LiveLinks(d)
        BY <1>t, <1>o, <1>n, <1>u, <2>5, <4>1
      <4>3. QED  BY <2>2, <2>7, <2>8, <2>9, <3>1, <4>2
    <3>2. CASE q # r
      BY <1>t, <1>c, <2>2, <2>5, <3>2 DEF PruneIsSound
    <3>3. QED  BY <3>1, <3>2
  <2>11. LinksBounded' /\ EveryDropHasALink'
    BY <1>t, <1>c, <2>2, <2>5 DEF LinksBounded, EveryDropHasALink
  <2>12. QED  BY <1>q, <2>3, <2>10, <2>11
<1>7. ASSUME NEW r \in Requests, Commit(r)  PROVE LinkInv'
  <2>d. PICK d \in Drops : d = req[r].drop
    BY <1>7, <1>o DEF Commit
  <2>1. /\ At(r, "commit") /\ req[r].drop = d /\ req[r].link \in Links
        /\ req'[r] = Idle
        /\ \A q \in Requests : q # r => req'[q] = req[q]
        /\ linkOf' = [l \in Links |-> IF l \in req[r].gone THEN NoDrop ELSE linkOf[l]]
        /\ UNCHANGED <<clock, dropRow, used>>
    BY <1>t, <1>o, <1>n, <1>u, <1>7, <2>d DEF Commit
  <2>2. /\ req[r].gone \subseteq LiveLinks(d)
        /\ Cardinality((LiveLinks(d) \ req[r].gone) \union {req[r].link}) <= MaxLinks + 1
    BY <1>t, <1>c, <2>1 DEF PruneIsSound
  <2>3. req[r].link \in Pending /\ linkOf[req[r].link] = d
    BY <1>t, <1>o, <1>n, <1>u, <2>1 DEF Pending
  <2>4. req[r].link \notin req[r].gone
    BY <1>t, <1>o, <1>n, <1>u, <2>2, <2>3 DEF LiveLinks
  <2>5. Pending' = Pending \ {req[r].link}
    BY <1>t, <1>o, <1>n, <1>u, <2>1, <2>3 DEF Pending
  <2>6. \A q \in Requests : (q # r /\ req[q].pc \in InTx) =>
          (linkOf'[req[q].link] = linkOf[req[q].link] /\ req[q].link \in Links)
    <3> SUFFICES ASSUME NEW q \in Requests, q # r, req[q].pc \in InTx
                 PROVE  linkOf'[req[q].link] = linkOf[req[q].link] /\ req[q].link \in Links
      OBVIOUS
    <3>1. req[q].link \in Pending /\ req[q].link \in Links
      BY <1>t, <1>o, <1>n DEF Pending
    <3>2. req[q].link \notin req[r].gone
      BY <1>t, <1>o, <1>n, <1>u, <2>2, <3>1 DEF LiveLinks
    <3>3. QED  BY <2>1, <3>1, <3>2
  <2>7. Shape'
    <3>1. OwnLink'  BY <2>1, <2>6, <1>t, <1>s DEF OwnLink
    <3>2. MintHasDrop' /\ NoLinkOutside' /\ LockIsExclusive'
      BY <2>1, <1>t, <1>s DEF MintHasDrop, NoLinkOutside, LockIsExclusive
    <3>3. UnusedIsUnlinked' /\ LinkedDropExists'
      BY <2>1, <1>t, <1>s DEF UnusedIsUnlinked, LinkedDropExists
    <3>4. QED  BY <3>1, <3>2, <3>3
  <2>8. LiveLinks(d)' = (LiveLinks(d) \ req[r].gone) \union {req[r].link}
    BY <1>t, <1>o, <1>n, <1>u, <2>1, <2>2, <2>3, <2>4, <2>5 DEF LiveLinks
  <2>9. \A e \in Drops : e # d => LiveLinks(e)' = LiveLinks(e)
    BY <1>t, <1>o, <1>n, <1>u, <2>1, <2>2, <2>3, <2>5 DEF LiveLinks
  <2>10. PruneIsSound'
    <3> SUFFICES ASSUME NEW q \in Requests, NEW e \in Drops,
                        req'[q].pc = "commit", req'[q].drop = e
                 PROVE  /\ req'[q].gone \subseteq LiveLinks(e)'
                        /\ Cardinality((LiveLinks(e)' \ req'[q].gone) \union {req'[q].link})
                             <= MaxLinks + 1
      BY DEF PruneIsSound
    <3>1. q # r /\ req'[q] = req[q] /\ req[q].pc = "commit" /\ req[q].drop = e
      BY <1>t, <1>o, <1>n, <1>u, <2>1
    <3>2. e # d
      BY <1>s, <2>1, <3>1 DEF LockIsExclusive
    <3>3. LiveLinks(e)' = LiveLinks(e)
      BY <1>t, <1>o, <1>n, <1>u, <2>9, <3>2
    <3>4. QED  BY <1>t, <1>c, <1>o, <3>1, <3>3 DEF PruneIsSound
  <2>11. LinksBounded' /\ EveryDropHasALink'
    <3>1. \A e \in Drops : Cardinality(LiveLinks(e)') <= MaxLinks + 1
      BY <1>c, <2>2, <2>8, <2>9 DEF LinksBounded
    <3>2. \A e \in Drops : dropRow'[e] = "row" => LiveLinks(e)' # {}
      BY <1>c, <2>1, <2>8, <2>9 DEF EveryDropHasALink
    <3>3. QED  BY <3>1, <3>2 DEF LinksBounded, EveryDropHasALink
  <2>12. QED  BY <1>q, <2>7, <2>10, <2>11
<1>8. ASSUME NEW r \in Requests, NEW d \in Drops, NEW l \in Links, FreshDrop(r, d, l)
      PROVE  LinkInv'
  <2>1. /\ At(r, "fresh") /\ dropRow[d] = "unborn" /\ l \notin used
        /\ req'[r] = Idle
        /\ \A q \in Requests : q # r => req'[q] = req[q]
        /\ linkOf' = [linkOf EXCEPT ![l] = d]
        /\ dropRow' = [dropRow EXCEPT ![d] = "row"]
        /\ used' = used \union {l}
    BY <1>t, <1>o, <1>n, <1>u, <1>8 DEF FreshDrop
  <2>2. Shape'
    <3>1. OwnLink'  BY <2>1, <1>t, <1>s DEF OwnLink
    <3>2. MintHasDrop' /\ NoLinkOutside' /\ LockIsExclusive'
      BY <2>1, <1>t, <1>s DEF MintHasDrop, NoLinkOutside, LockIsExclusive
    <3>3. UnusedIsUnlinked' /\ LinkedDropExists'
      BY <2>1, <1>t, <1>s DEF UnusedIsUnlinked, LinkedDropExists
    <3>4. QED  BY <3>1, <3>2, <3>3
  <2>3. Pending' = Pending /\ l \notin Pending
    BY <1>t, <1>o, <1>n, <1>u, <2>1 DEF Pending
  <2>4. LiveLinks(d) = {}
    BY <1>t, <1>o, <1>n, <1>u, <2>1 DEF LiveLinks
  <2>5. LiveLinks(d)' = {l}
    BY <1>t, <1>o, <1>n, <1>u, <2>1, <2>3, <2>4 DEF LiveLinks
  <2>6. \A e \in Drops : e # d => LiveLinks(e)' = LiveLinks(e)
    BY <1>t, <1>o, <1>n, <1>u, <2>1, <2>3 DEF LiveLinks
  <2>7. LinksBounded' /\ EveryDropHasALink'
    <3>1. \A e \in Drops : Cardinality(LiveLinks(e)') <= MaxLinks + 1
      <4>1. Cardinality({l}) = 1
        BY FS_Singleton
      <4>2. Cardinality(LiveLinks(d)') <= MaxLinks + 1
        BY <2>5, <4>1, MaxLinksAssumption
      <4>3. QED  BY <1>c, <2>6, <4>2 DEF LinksBounded
    <3>2. \A e \in Drops : dropRow'[e] = "row" => LiveLinks(e)' # {}
      BY <1>c, <1>t, <2>1, <2>5, <2>6 DEF EveryDropHasALink
    <3>3. QED  BY <3>1, <3>2 DEF LinksBounded, EveryDropHasALink
  <2>8. PruneIsSound'
    <3>1. \A q \in Requests : req'[q].pc = "commit" =>
            (req'[q] = req[q] /\ req[q].drop \in Drops /\ dropRow[req[q].drop] = "row")
      BY <1>o, <2>1
    <3>2. \A q \in Requests : req'[q].pc = "commit" => req[q].drop # d
      BY <2>1, <3>1
    <3>3. QED  BY <1>c, <2>6, <3>1, <3>2 DEF PruneIsSound
  <2>9. QED  BY <1>q, <2>2, <2>7, <2>8
<1>9. ASSUME NEW r \in Requests, Rollback(r)  PROVE LinkInv'
  <2>1. /\ req'[r] = Idle
        /\ \A q \in Requests : q # r => req'[q] = req[q]
        /\ linkOf' = [l \in Links |-> IF l = req[r].link THEN NoDrop ELSE linkOf[l]]
        /\ UNCHANGED <<clock, dropVars, used>>
    BY <1>t, <1>o, <1>n, <1>u, <1>9 DEF Rollback
  <2>2. \A q \in Requests : (q # r /\ req[q].pc \in InTx) =>
          linkOf'[req[q].link] = linkOf[req[q].link]
    BY <1>t, <1>o, <1>n, <1>u, <2>1
  <2>3. Shape'
    <3>1. OwnLink'  BY <2>1, <2>2, <1>t, <1>s DEF OwnLink
    <3>2. MintHasDrop' /\ NoLinkOutside' /\ LockIsExclusive'
      BY <2>1, <1>t, <1>s DEF MintHasDrop, NoLinkOutside, LockIsExclusive
    <3>3. UnusedIsUnlinked' /\ LinkedDropExists'
      BY <2>1, <1>t, <1>s DEF UnusedIsUnlinked, LinkedDropExists
    <3>4. QED  BY <3>1, <3>2, <3>3
  <2>4. Pending' = Pending \ {req[r].link}
    BY <1>t, <1>o, <1>n, <1>u, <2>1 DEF Pending
  <2>5. req[r].link \in Pending \/ req[r].link \notin Links
    BY <1>t, <1>o, <1>n DEF Pending
  <2>6. \A e \in Drops : LiveLinks(e)' = LiveLinks(e)
    BY <1>t, <1>o, <1>n, <1>u, <2>1, <2>4, <2>5 DEF LiveLinks
  <2>7. QED  BY <1>0, <1>q, <1>t, <2>1, <2>3, <2>6, QuietStep
<1>10. ASSUME NEW d \in Drops, Claim(d)  PROVE LinkInv'
  <2>1. Shape'
    BY <1>10, <1>t, <1>s DEF Claim, OwnLink, MintHasDrop, NoLinkOutside, UnusedIsUnlinked,
             LinkedDropExists, LockIsExclusive
  <2>2. \A e \in Drops : LiveLinks(e)' = LiveLinks(e)
    BY <1>t, <1>o, <1>n, <1>u, <1>10 DEF Claim, LiveLinks, Pending
  <2>3. QED  BY <1>0, <1>q, <1>t, <1>10, <2>1, <2>2, QuietStep DEF Claim
<1>11. ASSUME NEW d \in Drops, Sweep(d)  PROVE LinkInv'
  <2>1. /\ \A q \in Requests : req[q].pc \in InTx => req[q].drop # d
        /\ req' = req /\ used' = used
        /\ linkOf' = [l \in Links |-> IF linkOf[l] = d THEN NoDrop ELSE linkOf[l]]
        /\ dropRow' = [dropRow EXCEPT ![d] = "swept"]
    BY <1>t, <1>o, <1>n, <1>u, <1>11 DEF Sweep
  <2>2. Shape'
    BY <2>1, <1>t, <1>s DEF OwnLink, MintHasDrop, NoLinkOutside, UnusedIsUnlinked,
             LinkedDropExists, LockIsExclusive
  <2>3. Pending' = Pending
    BY <1>t, <1>o, <1>n, <1>u, <2>1 DEF Pending
  <2>4. LiveLinks(d)' = {} /\ \A e \in Drops : e # d => LiveLinks(e)' = LiveLinks(e)
    <3>1. \A l \in Links : linkOf'[l] = IF linkOf[l] = d THEN NoDrop ELSE linkOf[l]
      BY <2>1
    <3>2. LiveLinks(d)' = {}
      BY <1>t, <2>3, <3>1 DEF LiveLinks
    <3>3. ASSUME NEW e \in Drops, e # d  PROVE LiveLinks(e)' = LiveLinks(e)
      BY <1>t, <2>3, <3>1, <3>3 DEF LiveLinks
    <3>4. QED  BY <3>2, <3>3
  <2>5. LinksBounded' /\ EveryDropHasALink'
    <3>1. ASSUME NEW e \in Drops  PROVE Cardinality(LiveLinks(e)') <= MaxLinks + 1
      <4>1. CASE e = d
        <5>1. Cardinality(LiveLinks(e)') = 0
          BY <2>4, <4>1, FS_EmptySet
        <5>2. QED  BY <5>1, MaxLinksAssumption
      <4>2. CASE e # d
        <5>1. LiveLinks(e)' = LiveLinks(e)
          BY <2>4, <4>2
        <5>2. Cardinality(LiveLinks(e)) <= MaxLinks + 1
          BY <1>c DEF LinksBounded
        <5>3. QED  BY <5>1, <5>2
      <4>3. QED  BY <4>1, <4>2
    <3>2. \A e \in Drops : dropRow'[e] = "row" => LiveLinks(e)' # {}
      BY <1>c, <1>t, <2>1, <2>4 DEF EveryDropHasALink
    <3>3. QED  BY <3>1, <3>2 DEF LinksBounded, EveryDropHasALink
  <2>6. PruneIsSound'
    <3>1. \A q \in Requests : req[q].pc = "commit" => req[q].drop # d
      BY <2>1
    <3>2. QED  BY <1>c, <2>1, <2>4, <3>1 DEF PruneIsSound
  <2>7. QED  BY <1>q, <2>2, <2>5, <2>6
<1>12. CASE Tick \/ UNCHANGED vars
  <2>0. UNCHANGED <<dropVars, linkVars, req>>
    BY <1>12 DEF Tick, vars, dropVars, linkVars
  <2>1. Shape'
    BY <2>0, <1>s DEF dropVars, linkVars, OwnLink, MintHasDrop, NoLinkOutside,
             UnusedIsUnlinked, LinkedDropExists, LockIsExclusive
  <2>2. \A e \in Drops : LiveLinks(e)' = LiveLinks(e)
    BY <2>0 DEF linkVars, LiveLinks, Pending
  <2>3. QED  BY <1>0, <1>q, <1>t, <2>0, <2>1, <2>2, QuietStep DEF dropVars, linkVars
<1>13. QED
  BY <1>1, <1>2, <1>3, <1>4, <1>5, <1>6, <1>7, <1>8, <1>9, <1>10, <1>11, <1>12
  DEF Next, Step, Refused, Abort

\* The whole invariant, in every reachable state.
THEOREM LinkInvariant == Spec => []LinkInv
<1>1. LinkInv /\ [Next]_vars => LinkInv'
  BY LinkInvStep
<1>2. QED  BY LinkInvInit, <1>1, PTL DEF Spec

\* Drops, links and the opens in flight keep their types.
THEOREM TypeCorrect == Spec => []TypeOK
<1>1. LinkInv => TypeOK
  BY DEF LinkInv
<1>2. QED  BY LinkInvariant, <1>1, PTL

\* However many opens of a drop overlap, at most MaxLinks + 1 of its links work.
THEOREM LinksStayBounded == Spec => []LinksBounded
<1>1. LinkInv => LinksBounded
  BY DEF LinkInv
<1>2. QED  BY LinkInvariant, <1>1, PTL

\* No prune, abort or sweep leaves a drop without a link.
THEOREM DropsStayReachable == Spec => []EveryDropHasALink
<1>1. LinkInv => EveryDropHasALink
  BY DEF LinkInv
<1>2. QED  BY LinkInvariant, <1>1, PTL

-----------------------------------------------------------------------------
(* Which links die.                                                        *)

\* An open that ends with a link ends with one that works: its own is not yet live, and
\* prunes take live links only.
THEOREM HandedOutAlive == Spec => HandedLinkWorks
<1>1. LinkInv /\ [Next]_vars =>
        [\A r \in Requests : Commit(r) => linkOf'[req[r].link] = req[r].drop]_vars
  <2> SUFFICES ASSUME LinkInv, NEW r \in Requests, Commit(r)
               PROVE  linkOf'[req[r].link] = req[r].drop
    OBVIOUS
  <2>1. /\ req[r].pc = "commit" /\ req[r].link \in Links /\ req[r].drop \in Drops
        /\ linkOf[req[r].link] = req[r].drop /\ req[r].link \in Pending
    BY DEF Commit, At, LinkInv, OwnLink, TypeOK, InTx, Pending
  <2>2. req[r].gone \subseteq LiveLinks(req[r].drop)
    BY <2>1 DEF LinkInv, PruneIsSound
  <2>3. req[r].link \notin req[r].gone
    BY <2>1, <2>2 DEF LiveLinks
  <2>4. QED  BY <2>1, <2>3 DEF Commit
<1>2. QED  BY <1>1, LinkInvariant, PTL DEF Spec, HandedLinkWorks

\* The live links of a drop change by the commit of an open that continues it, with the
\* drop itself, and in no other way.
LEMMA LiveStep ==
  ASSUME LinkInv, [Next]_vars, NEW d \in Drops
  PROVE  \/ LiveLinks(d)' = LiveLinks(d)
         \/ \E r \in Requests :
              /\ Commit(r) /\ req[r].drop = d
              /\ LiveLinks(d)' = (LiveLinks(d) \ req[r].gone) \union {req[r].link}
         \/ dropRow[d] = "unborn"
         \/ dropRow'[d] = "swept" /\ \A r \in Requests : req[r].pc \in InTx => req[r].drop # d
<1> DEFINE Goal ==
             \/ LiveLinks(d)' = LiveLinks(d)
             \/ \E r \in Requests :
                  /\ Commit(r) /\ req[r].drop = d
                  /\ LiveLinks(d)' = (LiveLinks(d) \ req[r].gone) \union {req[r].link}
             \/ dropRow[d] = "unborn"
             \/ dropRow'[d] = "swept" /\ \A r \in Requests : req[r].pc \in InTx => req[r].drop # d
<1>t. /\ req \in [Requests -> [pc : Stages, drop : Drops \union {NoDrop},
                               link : Links \union {NoLink}, gone : SUBSET Links, now : Nat]]
      /\ linkOf \in [Links -> Drops \union {NoDrop}] /\ used \subseteq Links
      /\ dropRow \in [Drops -> {"unborn", "row", "swept"}]
      /\ NoDrop \notin Drops /\ NoLink \notin Links
  BY SentinelAssumption DEF LinkInv, TypeOK
<1>o. \A r \in Requests : req[r].pc \in InTx =>
        /\ req[r].link \in used /\ req[r].link \in Links
        /\ req[r].drop \in Drops /\ linkOf[req[r].link] = req[r].drop
        /\ \A q \in Requests : (q # r /\ req[q].pc \in InTx) => req[q].link # req[r].link
  BY <1>t DEF LinkInv, OwnLink
<1>n. \A r \in Requests : req[r].pc \notin InTx => req[r].link = NoLink
  BY DEF LinkInv, NoLinkOutside
<1>p. Pending = {req[r].link : r \in {q \in Requests : req[q].pc \in InTx}}
  BY DEF Pending, InTx
\* A request that keeps its link, in its transaction or outside one, changes no link.
<1>1. ASSUME NEW r \in Requests, \A q \in Requests \ {r} : req'[q] = req[q],
             req'[r].pc \in InTx <=> req[r].pc \in InTx,
             req[r].pc \in InTx => req'[r].link = req[r].link, linkOf' = linkOf
      PROVE  LiveLinks(d)' = LiveLinks(d)
  <2>1. \A q \in Requests : /\ req'[q].pc \in InTx <=> req[q].pc \in InTx
                            /\ req[q].pc \in InTx => req'[q].link = req[q].link
    BY <1>1
  <2>2. Pending' = Pending  BY <2>1 DEF Pending, InTx
  <2>3. QED  BY <1>1, <2>2 DEF LiveLinks
<1>2. ASSUME NEW r \in Requests, Open(r) \/ ReadSession(r) PROVE Goal
  BY <1>t, <1>1, <1>2 DEF Open, ReadSession, Decide, At, InTx, linkVars
<1>3. ASSUME NEW r \in Requests, NEW e \in Drops, ReadNamed(r, e) PROVE Goal
  BY <1>t, <1>1, <1>3 DEF ReadNamed, Decide, Done, Idle, At, InTx, linkVars
<1>4. ASSUME NEW r \in Requests, NEW l \in Links, InsertLink(r, l) PROVE Goal
  <2>1. /\ l \notin used /\ linkOf' = [linkOf EXCEPT ![l] = req[r].drop]
        /\ req'[r].pc = "stamp" /\ req'[r].link = l /\ req[r].pc = "mint"
        /\ \A q \in Requests \ {r} : req'[q] = req[q]
    BY <1>t, <1>4 DEF InsertLink, At
  <2>2. Pending' = Pending \union {l}
    BY <1>t, <1>o, <1>n, <2>1 DEF Pending, InTx
  <2>3. linkOf[l] = NoDrop
    BY <2>1 DEF LinkInv, UnusedIsUnlinked
  <2>4. QED  BY <1>t, <2>1, <2>2, <2>3 DEF LiveLinks
<1>5. ASSUME NEW r \in Requests, UpdateDrop(r) PROVE Goal
  BY <1>t, <1>1, <1>5 DEF UpdateDrop, At, InTx, linkVars
<1>6. ASSUME NEW r \in Requests, Prune(r) PROVE Goal
  <2>1. PICK keep : req' = [req EXCEPT ![r] = [@ EXCEPT !.pc = "commit", !.gone = Seen(r) \ keep]]
    BY <1>6 DEF Prune
  <2> DEFINE gone == Seen(r) \ keep
  <2>2. req' = [req EXCEPT ![r] = [req[r] EXCEPT !.pc = "commit", !.gone = gone]]
    BY <2>1
  <2> HIDE DEF gone
  <2>3. /\ req'[r].pc = "commit" /\ req'[r].link = req[r].link
        /\ \A q \in Requests \ {r} : req'[q] = req[q]
    <3>1. req[r] \in [pc : Stages, drop : Drops \union {NoDrop},
                      link : Links \union {NoLink}, gone : SUBSET Links, now : Nat]
      BY <1>t
    <3>2. QED  BY <1>t, <2>2, <3>1
  <2>4. QED  BY <1>1, <1>6, <2>3 DEF Prune, At, InTx, linkVars
<1>7. ASSUME NEW r \in Requests, Commit(r) PROVE Goal
  <2>1. /\ req[r].pc = "commit" /\ req[r].pc \in InTx /\ req[r].drop \in Drops /\ req'[r] = Idle
        /\ \A q \in Requests \ {r} : req'[q] = req[q]
        /\ linkOf' = [l \in Links |-> IF l \in req[r].gone THEN NoDrop ELSE linkOf[l]]
    BY <1>t, <1>o, <1>7 DEF Commit, At, Done, InTx
  <2>2. req[r].gone \subseteq LiveLinks(req[r].drop)
    BY <2>1 DEF LinkInv, PruneIsSound
  <2>3. Pending' = Pending \ {req[r].link} /\ req[r].link \in Pending
    BY <1>o, <2>1 DEF Pending, InTx, Idle
  <2>4. CASE req[r].drop = d
    <3>1. LiveLinks(d)' = (LiveLinks(d) \ req[r].gone) \union {req[r].link}
      BY <1>t, <1>o, <2>1, <2>2, <2>3, <2>4 DEF LiveLinks
    <3>2. QED  BY <1>7, <2>4, <3>1
  <2>5. CASE req[r].drop # d
    BY <1>t, <1>o, <2>1, <2>2, <2>3, <2>5 DEF LiveLinks
  <2>6. QED  BY <2>4, <2>5
<1>8. ASSUME NEW r \in Requests, NEW e \in Drops, NEW l \in Links, FreshDrop(r, e, l) PROVE Goal
  <2>1. /\ dropRow[e] = "unborn" /\ l \notin used /\ linkOf' = [linkOf EXCEPT ![l] = e]
        /\ req[r].pc = "fresh" /\ req'[r] = Idle /\ \A q \in Requests \ {r} : req'[q] = req[q]
    BY <1>t, <1>8 DEF FreshDrop, At, Done
  <2>2. linkOf[l] = NoDrop
    BY <2>1 DEF LinkInv, UnusedIsUnlinked
  <2>3. Pending' = Pending
    BY <2>1 DEF Pending, Idle
  <2>4. CASE e = d  BY <2>1, <2>4
  <2>5. CASE e # d
    BY <1>t, <2>1, <2>2, <2>3, <2>5 DEF LiveLinks
  <2>6. QED  BY <2>4, <2>5
<1>9. ASSUME NEW r \in Requests, Rollback(r) PROVE Goal
  <2>1. /\ req'[r] = Idle /\ \A q \in Requests \ {r} : req'[q] = req[q]
        /\ linkOf' = [l \in Links |-> IF l = req[r].link THEN NoDrop ELSE linkOf[l]]
    BY <1>t, <1>9 DEF Rollback, Done
  <2>2. Pending' = Pending \ {req[r].link}
    BY <1>t, <1>o, <1>n, <2>1 DEF Pending, InTx, Idle
  <2>3. req[r].link \in Pending \/ req[r].link \notin Links
    BY <1>t, <1>n, <1>p
  <2>4. QED  BY <1>t, <2>1, <2>2, <2>3 DEF LiveLinks
<1>10. ASSUME NEW e \in Drops, Claim(e) PROVE Goal
  BY <1>10 DEF Claim, linkVars, LiveLinks, Pending
<1>11. ASSUME NEW e \in Drops, Sweep(e) PROVE Goal
  <2>1. /\ \A r \in Requests : req[r].pc \in InTx => req[r].drop # e
        /\ req' = req /\ dropRow' = [dropRow EXCEPT ![e] = "swept"]
        /\ \A l \in Links : linkOf'[l] = IF linkOf[l] = e THEN NoDrop ELSE linkOf[l]
    BY <1>11 DEF Sweep, InTx
  <2>2. CASE e = d  BY <1>t, <2>1, <2>2
  <2>3. CASE e # d
    <3>1. Pending' = Pending  BY <2>1 DEF Pending
    <3>2. QED  BY <1>t, <2>1, <2>3, <3>1 DEF LiveLinks
  <2>4. QED  BY <2>2, <2>3
<1>12. CASE Tick \/ UNCHANGED vars
  BY <1>12 DEF Tick, vars, linkVars, LiveLinks, Pending
<1>13. QED
  BY <1>2, <1>3, <1>4, <1>5, <1>6, <1>7, <1>8, <1>9, <1>10, <1>11, <1>12
  DEF Next, Step, Refused, Abort

\* A link keeps its age, and a prune its verdict, until the commit.
LEMMA IssuedStep ==
  ASSUME LinkInv, [Next]_vars
  PROVE  /\ \A l \in used : issued'[l] = issued[l]
         /\ \A r \in Requests : req'[r].pc = "commit" => req'[r] = req[r] \/ Prune(r)
<1>t. /\ req \in [Requests -> [pc : Stages, drop : Drops \union {NoDrop},
                               link : Links \union {NoLink}, gone : SUBSET Links, now : Nat]]
      /\ issued \in [Links -> Nat] /\ used \subseteq Links
  BY DEF LinkInv, TypeOK
<1>1. \A l \in used : issued'[l] = issued[l]
  BY <1>t
  DEF Next, Step, Open, ReadSession, InsertLink, Prune, Commit, Refused, Abort, Rollback,
      FreshDrop, UpdateDrop, ReadNamed, Claim, Sweep, Tick, linkVars, vars
<1>2. ASSUME NEW r \in Requests, req'[r].pc = "commit" PROVE req'[r] = req[r] \/ Prune(r)
  <2>1. ASSUME NEW q \in Requests, Open(q) \/ UpdateDrop(q) \/ ReadSession(q) \/ Commit(q)
                                   \/ Rollback(q)
        PROVE  req'[r] = req[r]
    BY <1>t, <1>2, <2>1
    DEF Open, UpdateDrop, ReadSession, Commit, Rollback, Decide, Done, Idle
  <2>2. ASSUME NEW q \in Requests, NEW l \in Links, InsertLink(q, l) PROVE req'[r] = req[r]
    BY <1>t, <1>2, <2>2 DEF InsertLink
  <2>3. ASSUME NEW q \in Requests, NEW d \in Drops, NEW l \in Links, FreshDrop(q, d, l)
        PROVE  req'[r] = req[r]
    BY <1>t, <1>2, <2>3 DEF FreshDrop, Done, Idle
  <2>4. ASSUME NEW q \in Requests, NEW d \in Drops, ReadNamed(q, d) PROVE req'[r] = req[r]
    BY <1>t, <1>2, <2>4 DEF ReadNamed, Decide, Done, Idle
  <2>5. ASSUME NEW q \in Requests, Prune(q) PROVE req'[r] = req[r] \/ Prune(r)
    BY <1>t, <2>5 DEF Prune
  <2>6. ASSUME NEW d \in Drops, Claim(d) \/ Sweep(d) PROVE req'[r] = req[r]
    BY <2>6 DEF Claim, Sweep
  <2>7. CASE Tick \/ UNCHANGED vars  BY <2>7 DEF Tick, vars
  <2>8. QED
    BY <2>1, <2>2, <2>3, <2>4, <2>5, <2>6, <2>7 DEF Next, Step, Refused, Abort
<1>3. QED  BY <1>1, <1>2

NoOlder(links, l) == {o \in links : issued[o] >= issued[l]}

\* What is newest has as many as are kept, none of them older than what is not.
LEMMA NewestAreYounger ==
  ASSUME TypeOK, NEW seen \in SUBSET Links, NEW keep \in Newest(seen), NEW l \in seen \ keep
  PROVE  /\ Cardinality(keep) = MaxLinks
         /\ keep \subseteq NoOlder(keep, l)
<1>1. IsFiniteSet(seen) /\ Cardinality(seen) \in Nat
  BY LinksAreFinite, FS_Subset, FS_CardinalityType
<1>2. keep \subseteq seen /\ Cardinality(keep) = KeepMax(seen)
      /\ \A o \in keep : issued[l] <= issued[o]
  BY DEF Newest
<1>3. Cardinality(keep) # Cardinality(seen)
  BY <1>1, <1>2, FS_Subset
<1>4. Cardinality(keep) = MaxLinks
  BY <1>2, <1>3 DEF KeepMax
<1>5. \A o \in keep : issued[o] >= issued[l]
  BY <1>2 DEF TypeOK
<1>6. QED  BY <1>4, <1>5 DEF NoOlder

\* What a prune takes is outnumbered by what is newer and stays.
PruneSparesNew ==
  \A r \in Requests, d \in Drops : (req[r].pc = "commit" /\ req[r].drop = d) =>
    \A l \in req[r].gone :
      Cardinality(NoOlder((LiveLinks(d) \ req[r].gone) \union {req[r].link}, l)) >= MaxLinks

\* A prune takes no link but the oldest, and what it decided stays so: until the commit the
\* row lock keeps the drop's other links as they were.
LEMMA SparesStep ==
  ASSUME LinkInv, PruneSparesNew, [Next]_vars
  PROVE  PruneSparesNew'
<1> SUFFICES ASSUME NEW r \in Requests, NEW d \in Drops, req'[r].pc = "commit", req'[r].drop = d,
                    NEW l \in req'[r].gone
             PROVE  Cardinality({o \in (LiveLinks(d)' \ req'[r].gone) \union {req'[r].link} :
                                   issued'[o] >= issued'[l]}) >= MaxLinks
  BY DEF PruneSparesNew, NoOlder
<1>t. /\ req \in [Requests -> [pc : Stages, drop : Drops \union {NoDrop},
                               link : Links \union {NoLink}, gone : SUBSET Links, now : Nat]]
      /\ linkOf \in [Links -> Drops \union {NoDrop}] /\ issued \in [Links -> Nat]
      /\ NoDrop \notin Drops /\ TypeOK
  BY SentinelAssumption DEF LinkInv, TypeOK
<1>1. CASE req'[r] = req[r]
  <2>1. /\ req[r].pc = "commit" /\ req[r].drop = d /\ l \in req[r].gone
        /\ req[r].gone \subseteq LiveLinks(d) /\ dropRow[d] = "row" /\ req[r].link \in used
    <3>1. req[r].pc = "commit" /\ req[r].drop = d /\ l \in req[r].gone  BY <1>1
    <3>2. req[r].link \in used /\ linkOf[req[r].link] = d /\ req[r].link \in Links
      BY <1>t, <3>1 DEF LinkInv, OwnLink, InTx, TypeOK
    <3>3. dropRow[d] = "row"  BY <1>t, <3>2 DEF LinkInv, LinkedDropExists
    <3>4. QED  BY <3>1, <3>2, <3>3 DEF LinkInv, PruneIsSound
  <2>2. LiveLinks(d)' = LiveLinks(d)
    <3>1. ~\E q \in Requests : Commit(q) /\ req[q].drop = d
      <4> SUFFICES ASSUME NEW q \in Requests, Commit(q), req[q].drop = d PROVE FALSE
        OBVIOUS
      <4>1. req[q].pc = "commit" /\ req'[q].pc = "idle"
        BY <1>t DEF Commit, At, Done, Idle
      <4>2. q # r  BY <1>1, <2>1, <4>1
      <4>3. QED  BY <2>1, <4>1, <4>2 DEF LinkInv, LockIsExclusive
    <3>2. QED  BY <2>1, <3>1, LiveStep DEF InTx
  <2>3. \A o \in LiveLinks(d) \union {req[r].link} : issued'[o] = issued[o]
    <3>1. LiveLinks(d) \subseteq used
      BY <1>t DEF LiveLinks, LinkInv, UnusedIsUnlinked
    <3>2. QED  BY <2>1, <3>1, IssuedStep
  <2>4. {o \in (LiveLinks(d)' \ req'[r].gone) \union {req'[r].link} : issued'[o] >= issued'[l]}
          = NoOlder((LiveLinks(d) \ req[r].gone) \union {req[r].link}, l)
    BY <1>1, <2>1, <2>2, <2>3 DEF NoOlder
  <2>5. QED  BY <2>1, <2>4 DEF PruneSparesNew
<1>2. CASE Prune(r)
  <2>1. PICK keep \in Newest(Seen(r)) :
          req' = [req EXCEPT ![r] = [@ EXCEPT !.pc = "commit",
                                     !.gone = Seen(r) \ (keep \union {req[r].link})]]
    BY <1>2 DEF Prune, Kept
  <2> DEFINE gone == Seen(r) \ (keep \union {req[r].link})
  <2>2. req' = [req EXCEPT ![r] = [req[r] EXCEPT !.pc = "commit", !.gone = gone]]
    BY <2>1
  <2>3. req[r].pc = "prune" /\ issued' = issued
    BY <1>2 DEF Prune, At, linkVars
  <2> HIDE DEF gone
  <2>4. /\ req'[r].gone = gone /\ req'[r].link = req[r].link /\ req[r].drop = d
    <3>1. req[r] \in [pc : Stages, drop : Drops \union {NoDrop},
                      link : Links \union {NoLink}, gone : SUBSET Links, now : Nat]
      BY <1>t
    <3>2. QED  BY <1>t, <2>2, <3>1
  <2>5. req[r].link \in Links /\ linkOf[req[r].link] = d /\ dropRow[d] = "row"
    BY <1>t, <2>3, <2>4 DEF LinkInv, OwnLink, LinkedDropExists, TypeOK, InTx
  <2>6. LiveLinks(d)' = LiveLinks(d)
    <3>1. ~\E q \in Requests : Commit(q) /\ req[q].drop = d
      <4> SUFFICES ASSUME NEW q \in Requests, Commit(q), req[q].drop = d PROVE FALSE
        OBVIOUS
      <4>1. req[q].pc = "commit"  BY DEF Commit, At
      <4>2. q # r  BY <2>3, <4>1
      <4>3. QED  BY <2>3, <2>4, <4>1, <4>2 DEF LinkInv, LockIsExclusive
    <3>2. QED  BY <2>3, <2>4, <2>5, <3>1, LiveStep DEF InTx
  <2>7. Seen(r) = LiveLinks(d) \union {req[r].link} /\ Seen(r) \in SUBSET Links
    BY <2>4, <2>5 DEF Seen, LiveLinks
  <2>8. l \in Seen(r) \ keep  BY <2>4 DEF gone
  <2>9. Cardinality(keep) = MaxLinks /\ keep \subseteq NoOlder(keep, l)
    BY <1>t, <2>7, <2>8, NewestAreYounger
  <2> DEFINE young == NoOlder((LiveLinks(d) \ gone) \union {req[r].link}, l)
  <2>10. keep \subseteq young
    <3>1. keep \subseteq Seen(r)  BY DEF Newest
    <3>2. QED  BY <2>7, <2>9, <3>1 DEF gone, NoOlder
  <2>11. IsFiniteSet(young)
    <3>1. young \subseteq Links  BY <2>5 DEF NoOlder, LiveLinks
    <3>2. QED  BY <3>1, LinksAreFinite, FS_Subset
  <2>12. Cardinality(young) >= MaxLinks
    <3> HIDE DEF young
    <3>1. Cardinality(keep) <= Cardinality(young) /\ Cardinality(young) \in Nat
      BY <2>10, <2>11, FS_Subset, FS_CardinalityType
    <3>2. QED  BY <2>9, <3>1, MaxLinksAssumption
  <2>13. {o \in (LiveLinks(d)' \ req'[r].gone) \union {req'[r].link} : issued'[o] >= issued'[l]}
           = young
    BY <2>3, <2>4, <2>6 DEF NoOlder
  <2>14. QED  BY <2>12, <2>13
<1>3. QED  BY <1>1, <1>2, IssuedStep

\* While its drop exists, a link only dies when MaxLinks others, none of them older, work
\* in its place.
THEOREM TheOldestDie == Spec => OnlyTheOldestDies
<1>1. Init => PruneSparesNew
  BY DEF Init, Idle, PruneSparesNew
<1>2. LinkInv /\ PruneSparesNew /\ [Next]_vars => PruneSparesNew'
  BY SparesStep
<1>3. LinkInv /\ PruneSparesNew /\ [Next]_vars =>
        [\A d \in Drops, l \in Links :
           (l \in LiveLinks(d) /\ l \notin LiveLinks(d)' /\ dropRow'[d] = "row") =>
             Cardinality({o \in LiveLinks(d)' : issued'[o] >= issued[l]}) >= MaxLinks]_vars
  <2> SUFFICES ASSUME LinkInv, PruneSparesNew, [Next]_vars, NEW d \in Drops, NEW l \in Links,
                      l \in LiveLinks(d), l \notin LiveLinks(d)', dropRow'[d] = "row"
               PROVE  Cardinality({o \in LiveLinks(d)' : issued'[o] >= issued[l]}) >= MaxLinks
    OBVIOUS
  <2>1. dropRow[d] = "row"
    BY SentinelAssumption DEF LinkInv, LinkedDropExists, LiveLinks
  <2>2. PICK r \in Requests :
          /\ Commit(r) /\ req[r].drop = d
          /\ LiveLinks(d)' = (LiveLinks(d) \ req[r].gone) \union {req[r].link}
    BY <2>1, LiveStep
  <2>3. req[r].pc = "commit" /\ issued' = issued /\ l \in req[r].gone
    BY <2>2 DEF Commit, At
  <2>4. Cardinality(NoOlder((LiveLinks(d) \ req[r].gone) \union {req[r].link}, l)) >= MaxLinks
    BY <2>2, <2>3 DEF PruneSparesNew
  <2>5. QED  BY <2>2, <2>3, <2>4 DEF NoOlder
<1>4. QED  BY <1>1, <1>2, <1>3, LinkInvariant, PTL DEF Spec, OnlyTheOldestDies
=============================================================================
