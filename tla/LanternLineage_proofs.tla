----------------------- MODULE LanternLineage_proofs ------------------------
(***************************************************************************)
(* Proofs about the CAs of LanternState, for any set of CAs and of         *)
(* transactions.                                                           *)
(*                                                                         *)
(* Succession: pending preauthorizations, successor keys and chains of     *)
(* rollovers.  The argument is about a view: a CA state and a pending      *)
(* preauthorization for each CA.                                           *)
(*                                                                         *)
(* Lineage: which manifests a CA published, cancelled and republished.     *)
(* The argument is about a log and a view: one record more and one CA      *)
(* state changed with it.                                                  *)
(*                                                                         *)
(* Both hold of what is committed and of what is staged, a commit makes    *)
(* the staged the committed, and dropping the block the other way round.   *)
(***************************************************************************)
EXTENDS LanternState_proofs, FiniteSetTheorems


-----------------------------------------------------------------------------
(* Succession: the invariant of a view V of the CA states and P of the     *)
(* preauthorizations                                                       *)

Points(V, c, s) == V[c] # None /\ V[c].link = s

AuthorizedKey(V, c) == Tx[V[c].latest_record].action.key

\* A CA that names a successor has ended.
LinksEnd(V) == \A c \in CAs : V[c] # None /\ V[c].link # None => V[c].status = "Terminal"

\* A preauthorization is for an absent CA, from the CA that names it, with the key
\* of the rollover.
Pending(V, P) ==
    \A s \in CAs : P[s] # None =>
        /\ V[s] = None
        /\ Points(V, P[s].predecessor, s)
        /\ P[s].admin_key = AuthorizedKey(V, P[s].predecessor)

\* An absent successor has its preauthorization.
Awaited(V, P) == \A c, s \in CAs : Points(V, c, s) /\ V[s] = None => P[s] # None

OnePredecessor(V) == \A c, d, s \in CAs : Points(V, c, s) /\ Points(V, d, s) => c = d

KeysHonoured(V) ==
    \A c, s \in CAs : Points(V, c, s) /\ V[s] # None => V[s].admin_key = AuthorizedKey(V, c)

\* Every set of CAs has one that names no successor within the set.
Acyclic(V) == \A S \in (SUBSET CAs) \ {{}} : \E c \in S : \A s \in S : ~Points(V, c, s)

Succession(V, P) ==
    /\ LinksEnd(V) /\ Pending(V, P) /\ Awaited(V, P)
    /\ OnePredecessor(V) /\ KeysHonoured(V) /\ Acyclic(V)

CaMaps == [CAs -> CaStates \cup {None}]
PreauthMaps == [CAs -> Preauthorizations \cup {None}]

-----------------------------------------------------------------------------
(* The three ways a view changes *)

\* A live CA that names no successor gets a new state that names none either.
LEMMA UpdateKeeps ==
    ASSUME NEW V \in CaMaps, NEW P \in PreauthMaps, Succession(V, P),
           NEW c \in CAs, V[c] # None, V[c].status # "Terminal",
           NEW n \in CaStates, n.link = None, n.admin_key = V[c].admin_key
    PROVE  Succession([V EXCEPT ![c] = n], P) /\ P[c] = None
<1> DEFINE W == [V EXCEPT ![c] = n]
<1>1. V[c].link = None /\ P[c] = None
  BY DEF Succession, LinksEnd, Pending
<1>2. W[c] = n /\ n # None /\ \A d \in CAs \ {c} : W[d] = V[d]
  BY NoStateAssumption DEF CaMaps
<1>3. \A d, s \in CAs : Points(W, d, s) <=> Points(V, d, s)
  BY <1>1, <1>2, NoneAssumption DEF Points
<1>4. \A d \in CAs : W[d] = None <=> V[d] = None
  BY <1>2
<1>5. \A d, s \in CAs : Points(V, d, s) => d # c /\ AuthorizedKey(W, d) = AuthorizedKey(V, d)
  BY <1>1, <1>2, NoneAssumption DEF Points, AuthorizedKey
<1> HIDE DEF W
<1>6. LinksEnd(W)
  BY <1>2 DEF Succession, LinksEnd
<1>7. Pending(W, P)
  <2> SUFFICES ASSUME NEW s \in CAs, P[s] # None
               PROVE  /\ W[s] = None
                      /\ Points(W, P[s].predecessor, s)
                      /\ P[s].admin_key = AuthorizedKey(W, P[s].predecessor)
    BY DEF Pending
  <2>1. P[s].predecessor \in CAs
    BY DEF PreauthMaps, Preauthorizations
  <2>2. /\ V[s] = None /\ Points(V, P[s].predecessor, s)
        /\ P[s].admin_key = AuthorizedKey(V, P[s].predecessor)
    BY DEF Succession, Pending
  <2> QED
    BY <1>3, <1>4, <1>5, <2>1, <2>2
<1>8. Awaited(W, P) /\ OnePredecessor(W)
  BY <1>3, <1>4 DEF Succession, Awaited, OnePredecessor
<1>9. KeysHonoured(W)
  <2> SUFFICES ASSUME NEW d \in CAs, NEW s \in CAs, Points(W, d, s), W[s] # None
               PROVE  W[s].admin_key = AuthorizedKey(W, d)
    BY DEF KeysHonoured
  <2>1. V[s].admin_key = AuthorizedKey(V, d) /\ AuthorizedKey(W, d) = AuthorizedKey(V, d)
    BY <1>3, <1>4, <1>5 DEF Succession, KeysHonoured
  <2> QED
    BY <1>2, <2>1
<1>10. Acyclic(W)
  BY <1>3 DEF Succession, Acyclic
<1> QED
  BY <1>1, <1>6, <1>7, <1>8, <1>9, <1>10 DEF Succession, W

\* An absent CA comes up, under the authorized key if there is one, and consumes
\* its preauthorization.
LEMMA RegisterKeeps ==
    ASSUME NEW V \in CaMaps, NEW P \in PreauthMaps, Succession(V, P),
           NEW c \in CAs, V[c] = None,
           NEW n \in CaStates, n.link = None,
           P[c] # None => P[c].admin_key = n.admin_key
    PROVE  Succession([V EXCEPT ![c] = n], [P EXCEPT ![c] = None])
<1> DEFINE W == [V EXCEPT ![c] = n]  Q == [P EXCEPT ![c] = None]
<1>1. W[c] = n /\ n # None /\ \A d \in CAs \ {c} : W[d] = V[d]
  BY NoStateAssumption DEF CaMaps
<1>2. Q[c] = None /\ \A d \in CAs \ {c} : Q[d] = P[d]
  BY DEF PreauthMaps
<1>3. \A d, s \in CAs : Points(W, d, s) <=> Points(V, d, s)
  BY <1>1, NoneAssumption DEF Points
<1>4. \A d, s \in CAs : Points(V, d, s) => d # c /\ AuthorizedKey(W, d) = AuthorizedKey(V, d)
  BY <1>1 DEF Points, AuthorizedKey
<1> HIDE DEF W, Q
<1>5. LinksEnd(W)
  BY <1>1 DEF Succession, LinksEnd
<1>6. Pending(W, Q)
  <2> SUFFICES ASSUME NEW s \in CAs, Q[s] # None
               PROVE  /\ W[s] = None
                      /\ Points(W, Q[s].predecessor, s)
                      /\ Q[s].admin_key = AuthorizedKey(W, Q[s].predecessor)
    BY DEF Pending
  <2>0. s # c /\ Q[s] = P[s] /\ W[s] = V[s]
    BY <1>1, <1>2
  <2>1. P[s].predecessor \in CAs
    BY <2>0 DEF PreauthMaps, Preauthorizations
  <2>2. /\ V[s] = None /\ Points(V, P[s].predecessor, s)
        /\ P[s].admin_key = AuthorizedKey(V, P[s].predecessor)
    BY <2>0 DEF Succession, Pending
  <2> QED
    BY <1>3, <1>4, <2>0, <2>1, <2>2
<1>7. Awaited(W, Q) /\ OnePredecessor(W)
  BY <1>1, <1>2, <1>3 DEF Succession, Awaited, OnePredecessor
<1>8. KeysHonoured(W)
  <2> SUFFICES ASSUME NEW d \in CAs, NEW s \in CAs, Points(W, d, s), W[s] # None
               PROVE  W[s].admin_key = AuthorizedKey(W, d)
    BY DEF KeysHonoured
  <2>1. Points(V, d, s) /\ AuthorizedKey(W, d) = AuthorizedKey(V, d)
    BY <1>3, <1>4
  <2>2. CASE s = c
    <3>1. P[c] # None
      BY <2>1, <2>2 DEF Succession, Awaited
    <3>2. P[c].predecessor \in CAs
      BY <3>1 DEF PreauthMaps, Preauthorizations
    <3>3. Points(V, P[c].predecessor, c) /\ P[c].admin_key = AuthorizedKey(V, P[c].predecessor)
      BY <3>1 DEF Succession, Pending
    <3>4. d = P[c].predecessor
      BY <2>1, <2>2, <3>2, <3>3 DEF Succession, OnePredecessor
    <3> QED
      BY <1>1, <2>1, <2>2, <3>1, <3>3, <3>4
  <2>3. CASE s # c
    BY <1>1, <2>1, <2>3 DEF Succession, KeysHonoured
  <2> QED
    BY <2>2, <2>3
<1>9. Acyclic(W)
  BY <1>3 DEF Succession, Acyclic
<1> QED
  BY <1>5, <1>6, <1>7, <1>8, <1>9 DEF Succession, W, Q

\* A live CA ends and names an absent CA that nobody named before, with the key
\* its rollover authorizes.
LEMMA RolloverKeeps ==
    ASSUME NEW V \in CaMaps, NEW P \in PreauthMaps, Succession(V, P),
           NEW c \in CAs, V[c] # None, V[c].status # "Terminal",
           NEW s \in CAs, V[s] = None, P[s] = None,
           NEW n \in CaStates, n.link = s, n.status = "Terminal",
           n.admin_key = V[c].admin_key,
           NEW p \in Preauthorizations, p.predecessor = c,
           p.admin_key = Tx[n.latest_record].action.key
    PROVE  Succession([V EXCEPT ![c] = n], [P EXCEPT ![s] = p])
<1> DEFINE W == [V EXCEPT ![c] = n]  Q == [P EXCEPT ![s] = p]
<1>0. V[c].link = None /\ c # s /\ ~\E d \in CAs : Points(V, d, s)
  BY DEF Succession, LinksEnd, Awaited
<1>1. W[c] = n /\ n # None /\ (\A d \in CAs \ {c} : W[d] = V[d]) /\ W[s] = None
  BY <1>0, NoStateAssumption DEF CaMaps
<1>2. Q[s] = p /\ \A d \in CAs \ {s} : Q[d] = P[d]
  BY DEF PreauthMaps
<1>3. \A d, e \in CAs : Points(W, d, e) <=> Points(V, d, e) \/ (d = c /\ e = s)
  BY <1>0, <1>1, NoneAssumption DEF Points
<1>4. \A d, e \in CAs : Points(V, d, e) =>
          d # c /\ e # s /\ AuthorizedKey(W, d) = AuthorizedKey(V, d)
  BY <1>0, <1>1, NoneAssumption DEF Points, AuthorizedKey
<1>5. AuthorizedKey(W, c) = p.admin_key
  BY <1>1 DEF AuthorizedKey
<1> HIDE DEF W, Q
<1>6. LinksEnd(W)
  BY <1>1 DEF Succession, LinksEnd
<1>7. Pending(W, Q)
  <2> SUFFICES ASSUME NEW e \in CAs, Q[e] # None
               PROVE  /\ W[e] = None
                      /\ Points(W, Q[e].predecessor, e)
                      /\ Q[e].admin_key = AuthorizedKey(W, Q[e].predecessor)
    BY DEF Pending
  <2>1. CASE e = s
    BY <1>1, <1>2, <1>3, <1>5, <2>1
  <2>2. CASE e # s
    <3>0. Q[e] = P[e] /\ P[e] # None
      BY <1>2, <2>2
    <3>1. P[e].predecessor \in CAs
      BY <3>0 DEF PreauthMaps, Preauthorizations
    <3>2. /\ V[e] = None /\ Points(V, P[e].predecessor, e)
          /\ P[e].admin_key = AuthorizedKey(V, P[e].predecessor)
      BY <3>0 DEF Succession, Pending
    <3>3. W[e] = None
      BY <1>1, <3>2
    <3> QED
      BY <1>3, <1>4, <3>0, <3>1, <3>2, <3>3
  <2> QED
    BY <2>1, <2>2
<1>8. Awaited(W, Q)
  <2> SUFFICES ASSUME NEW d \in CAs, NEW e \in CAs, Points(W, d, e), W[e] = None
               PROVE  Q[e] # None
    BY DEF Awaited
  <2>1. CASE e = s
    <3>1. Q[e].predecessor = c /\ Q[e] = p
      BY <1>2, <2>1
    <3>2. p # None
      BY PreauthAssumption
    <3> QED
      BY <3>1, <3>2
  <2>2. CASE e # s
    BY <1>1, <1>2, <1>3, <2>2 DEF Succession, Awaited
  <2> QED
    BY <2>1, <2>2
<1>9. OnePredecessor(W)
  BY <1>3, <1>4 DEF Succession, OnePredecessor
<1>10. KeysHonoured(W)
  <2> SUFFICES ASSUME NEW d \in CAs, NEW e \in CAs, Points(W, d, e), W[e] # None
               PROVE  W[e].admin_key = AuthorizedKey(W, d)
    BY DEF KeysHonoured
  <2>1. Points(V, d, e) /\ AuthorizedKey(W, d) = AuthorizedKey(V, d)
    BY <1>1, <1>3, <1>4
  <2>2. V[e] # None /\ W[e].admin_key = V[e].admin_key
    BY <1>1
  <2> QED
    BY <2>1, <2>2 DEF Succession, KeysHonoured
<1>11. Acyclic(W)
  <2> SUFFICES ASSUME NEW S \in (SUBSET CAs) \ {{}}
               PROVE  \E d \in S : \A e \in S : ~Points(W, d, e)
    BY DEF Acyclic
  <2>1. CASE s \in S
    BY <1>1, <2>1 DEF Points
  <2>2. CASE s \notin S
    BY <1>3, <2>2 DEF Succession, Acyclic
  <2> QED
    BY <2>1, <2>2
<1> QED
  BY <1>6, <1>7, <1>8, <1>9, <1>10, <1>11 DEF Succession, W, Q

-----------------------------------------------------------------------------
(* The steps of succession *)

CaMap == [c \in CAs |-> CaView(c)]
PreMap == [c \in CAs |-> PreauthView(c)]

\* It holds of the staged view and of the committed one, which is what remains
\* when the block is dropped.
RolloverInv == Succession(caState, preauth) /\ Succession(CaMap, PreMap)

\* The maps are typed, and they are read through the views.
LEMMA MapsType ==
    ASSUME TypeOK
    PROVE  /\ CaMap \in CaMaps /\ PreMap \in PreauthMaps
           /\ \A c \in CAs : CaMap[c] = CaView(c) /\ PreMap[c] = PreauthView(c)
BY ViewType DEF CaMap, PreMap, CaMaps, PreauthMaps

\* Staging a CA state changes the map at that CA.
LEMMA StagedCa ==
    ASSUME TypeOK, NEW c \in CAs, NEW n, caUpdates' = Put(caUpdates, c, n), caState' = caState
    PROVE  CaMap' = [CaMap EXCEPT ![c] = n]
<1> DEFINE M == CaMap'
<1>1. M = [d \in CAs |-> IF d \in DOMAIN caUpdates' THEN caUpdates'[d] ELSE caState'[d]]
  BY DEF CaMap, CaView
<1>2. \A d \in CAs :
          M[d] = IF d = c THEN n ELSE IF d \in DOMAIN caUpdates THEN caUpdates[d] ELSE caState[d]
  BY <1>1 DEF Put
<1> HIDE DEF M
<1>3. M = [d \in CAs |-> IF d = c THEN n ELSE CaView(d)]
  BY <1>1, <1>2 DEF CaView
<1> QED
  BY <1>3 DEF CaMap, M

\* Staging a preauthorization changes the map at that CA.
LEMMA StagedPreauth ==
    ASSUME TypeOK, NEW c \in CAs, NEW p,
           preauthUpdates' = Put(preauthUpdates, c, p), preauth' = preauth
    PROVE  PreMap' = [PreMap EXCEPT ![c] = p]
<1> DEFINE M == PreMap'
<1>1. M = [d \in CAs |-> IF d \in DOMAIN preauthUpdates' THEN preauthUpdates'[d]
                                                         ELSE preauth'[d]]
  BY DEF PreMap, PreauthView
<1>2. \A d \in CAs :
          M[d] = IF d = c THEN p
                 ELSE IF d \in DOMAIN preauthUpdates THEN preauthUpdates[d] ELSE preauth[d]
  BY <1>1 DEF Put
<1> HIDE DEF M
<1>3. M = [d \in CAs |-> IF d = c THEN p ELSE PreauthView(d)]
  BY <1>1, <1>2 DEF PreauthView
<1> QED
  BY <1>3 DEF PreMap, M

\* What an acceptance stages for its CA.
LEMMA AcceptedState ==
    ASSUME TypeOK, NEW id \in TxIds, Accepts(id),
           NEW m, NEW r, NEW b, Accept(id, m, r, b)
    PROVE  /\ m \in CaStates
           /\ caUpdates' = Put(caUpdates, Tx[id].ca, m)
           /\ caState' = caState /\ preauth' = preauth
           /\ CaView(Tx[id].ca) # None =>
                 /\ CaView(Tx[id].ca).status # "Terminal"
                 /\ m.admin_key = CaView(Tx[id].ca).admin_key
<1> DEFINE c == Tx[id].ca
<1>1. PICK s \in CaStates, q \in HistoryRecords, created \in BOOLEAN :
          /\ Accept(id, s, q, created)
          /\ CaView(c) # None =>
                CaView(c).status # "Terminal" /\ s.admin_key = CaView(c).admin_key
  BY DEF Accepts
<1>2. caUpdates' = Put(caUpdates, c, s) /\ caUpdates' = Put(caUpdates, c, m)
  BY <1>1 DEF Accept
<1> HIDE DEF c
<1>3. s = m
  <2>1. Put(caUpdates, c, s)[c] = s /\ Put(caUpdates, c, m)[c] = m
    BY DEF Put
  <2> QED
    BY <1>2, <2>1
<1> QED
  BY <1>1, <1>2, <1>3 DEF Accept, Answer, committed, c

\* The link and the latest record of the state a control event starts from.
LEMMA AdministeredFields ==
    ASSUME TypeOK, NEW id \in TxIds, NEW op \in Events, AdmitsControl(id, op),
           CaView(Tx[id].ca) # None
    PROVE  /\ Administered(id, op).link = CaView(Tx[id].ca).link
           /\ Administered(id, op).latest_record = id
<1> DEFINE t == Tx[id]  s == CaView(Tx[id].ca)
<1>1. s \in CaStates
  BY TxType, ViewType
<1>2. Administered(id, op) =
          [s EXCEPT !.admin_sequence = t.sequence, !.last_version = @ + 1,
                    !.latest_record = id, !.latest_event = op,
                    !.latest_epoch = next.open]
  BY DEF Administered
<1> HIDE DEF s, t
<1>3. Administered(id, op).link = s.link /\ Administered(id, op).latest_record = id
  BY <1>1, <1>2 DEF CaStates
<1> QED
  BY <1>3 DEF s

\* An acceptance that leaves a live CA without a successor.
LEMMA UpdateStep ==
    ASSUME TypeOK, Succession(CaMap, PreMap), NEW id \in TxIds, Accepts(id),
           NEW m, NEW r, NEW b, Accept(id, m, r, b),
           CaView(Tx[id].ca) # None,
           m.link \in {None, CaView(Tx[id].ca).link},
           \/ preauthUpdates' = preauthUpdates
           \/ preauthUpdates' = Put(preauthUpdates, Tx[id].ca, None)
    PROVE  Succession(CaMap, PreMap)'
<1> DEFINE c == Tx[id].ca
<1>1. c \in CAs
  BY TxType
<1>2. /\ m \in CaStates /\ CaMap[c] = CaView(c) /\ CaView(c).status # "Terminal"
      /\ m.admin_key = CaView(c).admin_key /\ preauth' = preauth
  BY <1>1, MapsType, AcceptedState
<1>3. CaMap' = [CaMap EXCEPT ![c] = m]
  BY <1>1, AcceptedState, StagedCa
<1>4. m.link = None
  BY <1>1, <1>2 DEF Succession, LinksEnd
<1>5. Succession([CaMap EXCEPT ![c] = m], PreMap) /\ PreMap[c] = None
  BY <1>1, <1>2, <1>4, MapsType, UpdateKeeps
<1>6. PreMap' = PreMap
  <2>1. CASE preauthUpdates' = preauthUpdates
    BY <1>2, <2>1 DEF PreMap, PreauthView
  <2>2. CASE preauthUpdates' = Put(preauthUpdates, c, None)
    <3>1. PreMap' = [PreMap EXCEPT ![c] = None]
      BY <1>1, <1>2, <2>2, StagedPreauth
    <3> QED
      BY <1>5, <3>1, MapsType DEF PreauthMaps
  <2> QED
    BY <2>1, <2>2
<1> HIDE DEF c
<1>7. Succession(CaMap', PreMap')
  BY <1>3, <1>5, <1>6
<1> QED
  BY <1>7 DEF Succession, LinksEnd, Pending, Awaited, OnePredecessor, KeysHonoured, Acyclic,
              Points, AuthorizedKey

\* A publication, a disabling, a cancellation and a termination change a live CA
\* and leave it without a successor.
LEMMA LiveSteps ==
    ASSUME TypeOK, Succession(CaMap, PreMap), NEW id \in TxIds,
           Publish(id) \/ Disable(id) \/ Cancel(id) \/ Terminate(id)
    PROVE  Succession(CaMap, PreMap)'
<1> DEFINE c == Tx[id].ca
<1>1. CASE Publish(id)
  <2> DEFINE s == CaView(c)  v == s.last_version + 1
             m == [s EXCEPT !.predecessor = s.effective,
                            !.effective = [manifest |-> Tx[id].manifest, intent |-> id],
                            !.expected = None,
                            !.last_version = v, !.latest_record = id,
                            !.latest_event = "Publish", !.latest_epoch = next.open]
             r == Record(id, v, "Publish", Tx[id].manifest, Tx[id].previous)
  <2>1. Accept(id, m, r, FALSE) /\ preauthUpdates' = preauthUpdates
    BY <1>1 DEF Publish
  <2>2. CaView(c) # None
    BY <1>1, AdmittedPublication DEF Publish, PublicationFits
  <2>3. s \in CaStates
    BY <2>2, TxType, ViewType
  <2>4. m.link = CaView(c).link
    <3> HIDE DEF s, c, v
    <3>1. m.link = s.link
      BY <2>3 DEF CaStates
    <3> QED
      BY <3>1 DEF s
  <2> HIDE DEF m, r
  <2> QED
    BY <1>1, <2>1, <2>2, <2>4, PublishAccepts, UpdateStep
<1>2. CASE Disable(id)
  <2> DEFINE s == Administered(id, "Disable")
             m == [s EXCEPT !.status = "Disabled", !.expected = None]
             r == Record(id, s.last_version, "Disable", None, None)
  <2>1. Accept(id, m, r, FALSE) /\ preauthUpdates' = preauthUpdates
    BY <1>2 DEF Disable
  <2>2. CaView(c) # None /\ AdmitsControl(id, "Disable")
    BY <1>2, AdmittedControl DEF Disable
  <2>3. s \in CaStates /\ s.link = CaView(c).link
    BY <2>2, AdministeredType, AdministeredFields DEF Events
  <2>4. m.link = CaView(c).link
    <3> HIDE DEF s, c
    <3> QED
      BY <2>3 DEF CaStates
  <2> HIDE DEF m, r
  <2> QED
    BY <1>2, <2>1, <2>2, <2>4, DisableAccepts, UpdateStep
<1>3. CASE Cancel(id)
  <2> DEFINE s == Administered(id, "Cancel")
             m == [s EXCEPT !.effective = s.predecessor, !.predecessor = None]
             r == Record(id, s.last_version, "Cancel", Tx[id].action.target,
                         Tx[id].action.restore)
  <2>1. Accept(id, m, r, FALSE) /\ preauthUpdates' = preauthUpdates
    BY <1>3 DEF Cancel
  <2>2. CaView(c) # None /\ AdmitsControl(id, "Cancel")
    BY <1>3, AdmittedControl DEF Cancel
  <2>3. s \in CaStates /\ s.link = CaView(c).link
    BY <2>2, AdministeredType, AdministeredFields DEF Events
  <2>4. m.link = CaView(c).link
    <3> HIDE DEF s, c
    <3> QED
      BY <2>3 DEF CaStates
  <2> HIDE DEF m, r
  <2> QED
    BY <1>3, <2>1, <2>2, <2>4, CancelAccepts, UpdateStep
<1>4. CASE Terminate(id)
  <2> DEFINE s == Administered(id, "Terminal")
             m == [s EXCEPT !.status = "Terminal", !.expected = None, !.link = None]
             r == Record(id, s.last_version, "Terminal", None, None)
  <2>1. Accept(id, m, r, FALSE) /\ preauthUpdates' = preauthUpdates
    BY <1>4 DEF Terminate
  <2>2. CaView(c) # None /\ AdmitsControl(id, "Terminal")
    BY <1>4, AdmittedControl DEF Terminate
  <2>3. s \in CaStates
    BY <2>2, AdministeredType DEF Events
  <2>4. m.link = None
    <3> HIDE DEF s, c
    <3> QED
      BY <2>3 DEF CaStates
  <2> HIDE DEF m, r
  <2> QED
    BY <1>4, <2>1, <2>2, <2>4, TerminateAccepts, UpdateStep
<1> QED
  BY <1>1, <1>2, <1>3, <1>4

\* A registration consumes the preauthorization of its CA; a re-enabling has none
\* to consume.
LEMMA EnableStep ==
    ASSUME TypeOK, Succession(CaMap, PreMap), NEW id \in TxIds, Enable(id)
    PROVE  Succession(CaMap, PreMap)'
<1> DEFINE c == Tx[id].ca  s == Administered(id, "Enable")
           m == [s EXCEPT !.status = "Enabled", !.admin_key = Tx[id].action.key,
                          !.expected = Tx[id].action.manifest, !.link = None]
           r == Record(id, s.last_version, "Enable", None, None)
           b == CaView(c) = None
<1>1. Accept(id, m, r, b) /\ preauthUpdates' = Put(preauthUpdates, c, None)
  BY DEF Enable
<1>2. AdmitsControl(id, "Enable") /\ Accepts(id) /\ c \in CAs
  BY EnableAccepts, TxType DEF Enable
<1>3. s \in CaStates
  BY <1>2, AdministeredType DEF Events
<1>4. m.link = None /\ m.admin_key = Tx[id].action.key
  <2> HIDE DEF s, c
  <2> QED
    BY <1>3 DEF CaStates
<1>5. CASE CaView(c) # None
  <2> HIDE DEF m, r, b
  <2> QED
    BY <1>1, <1>2, <1>4, <1>5, UpdateStep
<1>6. CASE CaView(c) = None
  <2>1. PreauthView(c) # None => PreauthView(c).admin_key = m.admin_key
    BY <1>2, <1>4, <1>6, AdmittedControl DEF ControlApplies
  <2> HIDE DEF m, r, b
  <2>2. m \in CaStates /\ preauth' = preauth /\ CaMap' = [CaMap EXCEPT ![c] = m]
    BY <1>1, <1>2, AcceptedState, StagedCa
  <2>3. PreMap' = [PreMap EXCEPT ![c] = None]
    BY <1>1, <1>2, <2>2, StagedPreauth
  <2>4. CaMap[c] = None /\ PreMap[c] = PreauthView(c)
    BY <1>2, <1>6, MapsType
  <2>5. Succession([CaMap EXCEPT ![c] = m], [PreMap EXCEPT ![c] = None])
    BY <1>2, <1>4, <2>1, <2>2, <2>4, MapsType, RegisterKeeps
  <2> HIDE DEF c
  <2>6. Succession(CaMap', PreMap')
    BY <2>2, <2>3, <2>5
  <2> QED
    BY <2>6 DEF Succession, LinksEnd, Pending, Awaited, OnePredecessor, KeysHonoured, Acyclic,
                Points, AuthorizedKey
<1> QED
  BY <1>5, <1>6

\* A rollover ends its CA and authorizes an absent successor nobody awaited.
LEMMA RolloverStep ==
    ASSUME TypeOK, Succession(CaMap, PreMap), NEW id \in TxIds, Rollover(id)
    PROVE  Succession(CaMap, PreMap)'
<1> DEFINE c == Tx[id].ca  e == Tx[id].action.successor  s == Administered(id, "Rollover")
           m == [s EXCEPT !.status = "Terminal", !.expected = None, !.link = e]
           r == Record(id, s.last_version, "Rollover", None, None)
           p == [admin_key |-> Tx[id].action.key, predecessor |-> c]
<1>1. Accept(id, m, r, FALSE) /\ preauthUpdates' = Put(preauthUpdates, e, p)
  BY DEF Rollover
<1>2. AdmitsControl(id, "Rollover") /\ Accepts(id) /\ c \in CAs
  BY RolloverAccepts, TxType DEF Rollover
<1>3. e \in CAs /\ Tx[id].action.key \in Keys /\ RolloverFits(Tx[id])
  BY <1>2, AdmittedControl, ActionType DEF ActionFits
<1>4. CaView(c) # None /\ CaView(c).status # "Terminal"
  BY <1>2, AdmittedControl
<1>5. s \in CaStates /\ s.latest_record = id
  BY <1>2, <1>4, AdministeredType, AdministeredFields DEF Events
<1>6. m.link = e /\ m.status = "Terminal" /\ m.latest_record = id
  <2> HIDE DEF s, c, e
  <2> QED
    BY <1>5 DEF CaStates
<1>7. p \in Preauthorizations /\ p.predecessor = c /\ p.admin_key = Tx[m.latest_record].action.key
  BY <1>2, <1>3, <1>6 DEF Preauthorizations
<1> HIDE DEF m, r, p
<1>8. /\ m \in CaStates /\ preauth' = preauth /\ CaMap' = [CaMap EXCEPT ![c] = m]
      /\ m.admin_key = CaView(c).admin_key
  BY <1>1, <1>2, <1>4, AcceptedState, StagedCa
<1>9. PreMap' = [PreMap EXCEPT ![e] = p]
  BY <1>1, <1>3, <1>8, StagedPreauth
<1>10. CaMap[c] = CaView(c) /\ CaMap[e] = None /\ PreMap[e] = None
  BY <1>2, <1>3, MapsType DEF RolloverFits
<1>11. CaMap \in CaMaps /\ PreMap \in PreauthMaps
  BY MapsType
<1> HIDE DEF c, e
<1>12. Succession([CaMap EXCEPT ![c] = m], [PreMap EXCEPT ![e] = p])
  BY <1>2, <1>3, <1>4, <1>6, <1>7, <1>8, <1>10, <1>11, RolloverKeeps
<1>13. Succession(CaMap', PreMap')
  BY <1>8, <1>9, <1>12
<1> QED
  BY <1>13 DEF Succession, LinksEnd, Pending, Awaited, OnePredecessor, KeysHonoured, Acyclic,
               Points, AuthorizedKey

\* With nothing staged the staged view is the committed one.
LEMMA NothingStaged ==
    ASSUME TypeOK, caUpdates = EmptyMap, preauthUpdates = EmptyMap
    PROVE  CaMap = caState /\ PreMap = preauth
BY DEF EmptyMap, CaMap, PreMap, CaView, PreauthView, TypeOK

\* A commit makes the staged view the committed one.
LEMMA CommittedView ==
    ASSUME TypeOK, Commit
    PROVE  caState' = CaMap /\ preauth' = PreMap
<1>1. DOMAIN caState = CAs /\ DOMAIN preauth = CAs
  BY DEF TypeOK
<1>2. DOMAIN caUpdates \subseteq CAs /\ DOMAIN preauthUpdates \subseteq CAs
  BY DEF TypeOK, IsMap
<1> QED
  BY <1>1, <1>2 DEF Commit, Over, CaMap, PreMap, CaView, PreauthView

\* Every step preserves the succession of CAs.
LEMMA RolloverInvStep ==
    ASSUME TypeOK, RolloverInv, [Next]_vars
    PROVE  RolloverInv'
<1> USE DEF RolloverInv
<1>0. TypeOK'
  BY StepType
<1>1. ASSUME Discard, Succession(caState, preauth)' PROVE RolloverInv'
  <2>1. (CaMap = caState /\ PreMap = preauth)'
    BY <1>0, <1>1 DEF Discard, EmptyMap, CaMap, PreMap, CaView, PreauthView, TypeOK
  <2> QED
    BY <1>1, <2>1
<1>2. ASSUME UNCHANGED <<caState, preauth>> PROVE Succession(caState, preauth)'
  BY <1>2 DEF Succession, LinksEnd, Pending, Awaited, OnePredecessor, KeysHonoured, Acyclic,
              Points, AuthorizedKey
<1>3. ASSUME UNCHANGED <<caState, preauth, caUpdates, preauthUpdates>> PROVE RolloverInv'
  <2>1. UNCHANGED <<CaMap, PreMap>>
    BY <1>3 DEF CaMap, PreMap, CaView, PreauthView
  <2>2. Succession(CaMap, PreMap)'
    BY <2>1 DEF Succession, LinksEnd, Pending, Awaited, OnePredecessor, KeysHonoured, Acyclic,
                Points, AuthorizedKey
  <2> QED
    BY <1>2, <1>3, <2>2
<1>4. ASSUME NEW t \in 0..MaxTime, NEW n \in 0..MaxBlockTxs, BeginBlock(t, n)
      PROVE  RolloverInv'
  BY <1>3, <1>4 DEF BeginBlock, committed, overlay
<1>5. ASSUME NEW id \in TxIds, ExecuteTransaction(id) PROVE RolloverInv'
  <2>1. CASE Replay(id) \/ Conflict(id)
    BY <1>3, <2>1 DEF Replay, Conflict, Answer, committed, overlay
  <2>2. CASE Reject(id)
    BY <1>3, <2>2 DEF Reject, Answer, committed
  <2>3. CASE RefuseMalformed(id)
    BY <1>1, <1>2, <2>3 DEF RefuseMalformed, committed
  <2>4. CASE Publish(id) \/ Disable(id) \/ Cancel(id) \/ Terminate(id)
    <3>1. UNCHANGED <<caState, preauth>>
      BY <2>4 DEF Publish, Disable, Cancel, Terminate, Accept, Answer, committed
    <3> QED
      BY <1>2, <2>4, <3>1, LiveSteps
  <2>5. CASE Enable(id)
    <3>1. UNCHANGED <<caState, preauth>>
      BY <2>5 DEF Enable, Accept, Answer, committed
    <3> QED
      BY <1>2, <2>5, <3>1, EnableStep
  <2>6. CASE Rollover(id)
    <3>1. UNCHANGED <<caState, preauth>>
      BY <2>6 DEF Rollover, Accept, Answer, committed
    <3> QED
      BY <1>2, <2>6, <3>1, RolloverStep
  <2> QED
    BY <1>5, <2>1, <2>2, <2>3, <2>4, <2>5, <2>6 DEF ExecuteTransaction
<1>6. CASE Prepare
  BY <1>3, <1>6 DEF Prepare, committed, staged, overlay
<1>7. CASE RefuseBatch \/ Abandon
  BY <1>1, <1>2, <1>7 DEF RefuseBatch, Abandon, committed
<1>8. CASE Commit
  <2>1. caState' = CaMap /\ preauth' = PreMap
    BY <1>8, CommittedView
  <2>2. Succession(caState', preauth')
    BY <2>1
  <2>3. Succession(caState, preauth)'
    BY <2>2 DEF Succession, LinksEnd, Pending, Awaited, OnePredecessor, KeysHonoured, Acyclic,
                Points, AuthorizedKey
  <2> QED
    BY <1>1, <1>8, <2>3 DEF Commit
<1>9. CASE AtBound \/ UNCHANGED vars
  BY <1>3, <1>9 DEF AtBound, vars, committed, staged, overlay
<1> QED
  BY <1>4, <1>5, <1>6, <1>7, <1>8, <1>9 DEF Next

\* Nobody has rolled over in the empty store.
LEMMA RolloverInvInit == ASSUME Init PROVE RolloverInv
<1>1. CaMap = caState /\ PreMap = preauth
  BY InitType, NothingStaged DEF Init
<1>2. /\ \A c, s \in CAs : ~Points(caState, c, s)
      /\ \A c \in CAs : caState[c] = None /\ preauth[c] = None
  BY DEF Init, Points
<1>3. Succession(caState, preauth)
  <2>1. LinksEnd(caState) /\ Pending(caState, preauth) /\ Awaited(caState, preauth)
    BY <1>2 DEF LinksEnd, Pending, Awaited
  <2>2. OnePredecessor(caState) /\ KeysHonoured(caState)
    BY <1>2 DEF OnePredecessor, KeysHonoured
  <2>3. Acyclic(caState)
    <3> SUFFICES ASSUME NEW S \in (SUBSET CAs) \ {{}}
                 PROVE  \E c \in S : \A s \in S : ~Points(caState, c, s)
      BY DEF Acyclic
    <3>1. PICK c \in S : c \in CAs
      OBVIOUS
    <3> QED
      BY <1>2, <3>1
  <2> QED
    BY <2>1, <2>2, <2>3 DEF Succession
<1> QED
  BY <1>1, <1>3 DEF RolloverInv

\* The CAs always succeed each other as their rollovers say, staged and committed.
THEOREM SuccessionHolds == Spec => [](TypeOK /\ RolloverInv)
<1>1. Init => TypeOK /\ RolloverInv
  BY InitType, RolloverInvInit
<1>2. TypeOK /\ RolloverInv /\ [Next]_vars => (TypeOK /\ RolloverInv)'
  BY StepType, RolloverInvStep
<1> QED
  BY <1>1, <1>2, PTL DEF Spec

-----------------------------------------------------------------------------
(* The properties of succession *)

\* What links and lives in the staged view.
LEMMA ViewPoints ==
    ASSUME TypeOK
    PROVE  /\ \A c, s \in CAs : LinksTo(c, s) <=> Points(CaMap, c, s)
           /\ \A c \in CAs : Live(c) <=> CaMap[c] # None
BY MapsType DEF Points, LinksTo, Live

\* A preauthorization is always pending for exactly the absent successors of a
\* rollover, and it names the CA that rolled over.
THEOREM PreauthorizationsExact == Spec => []PreauthExact
<1>1. TypeOK /\ RolloverInv => PreauthExact
  <2> SUFFICES ASSUME TypeOK, RolloverInv, NEW s \in CAs
               PROVE  /\ PreauthView(s) # None <=> ~Live(s) /\ \E c \in CAs : LinksTo(c, s)
                      /\ PreauthView(s) # None => LinksTo(PreauthView(s).predecessor, s)
    BY DEF PreauthExact
  <2>1. PreMap[s] = PreauthView(s) /\ PreMap \in PreauthMaps
    BY MapsType
  <2>2. PreMap[s] # None => PreMap[s].predecessor \in CAs
    BY <2>1 DEF PreauthMaps, Preauthorizations
  <2>3. PreMap[s] # None => CaMap[s] = None /\ Points(CaMap, PreMap[s].predecessor, s)
    BY DEF RolloverInv, Succession, Pending
  <2>4. \A c \in CAs : Points(CaMap, c, s) /\ CaMap[s] = None => PreMap[s] # None
    BY DEF RolloverInv, Succession, Awaited
  <2> QED
    BY <2>1, <2>2, <2>3, <2>4, ViewPoints
<1> QED
  BY <1>1, SuccessionHolds, PTL

\* A successor that has come up always runs under the key its predecessor
\* authorized.
THEOREM SuccessorsUnderAuthorizedKey == Spec => []SuccessorKeyHonoured
<1>1. TypeOK /\ RolloverInv => SuccessorKeyHonoured
  <2> SUFFICES ASSUME TypeOK, RolloverInv, NEW c \in CAs, NEW s \in CAs,
                      LinksTo(c, s), Live(s)
               PROVE  CaView(s).admin_key = Tx[CaView(c).latest_record].action.key
    BY DEF SuccessorKeyHonoured
  <2>1. CaMap[s].admin_key = AuthorizedKey(CaMap, c)
    BY ViewPoints DEF RolloverInv, Succession, KeysHonoured
  <2> QED
    BY <2>1, MapsType DEF AuthorizedKey
<1> QED
  BY <1>1, SuccessionHolds, PTL

\* Rollover links always form chains: no CA succeeds two others, none succeeds
\* itself through any number of rollovers.
THEOREM RolloversFormChains == Spec => []RolloverChains
<1>1. TypeOK /\ RolloverInv => RolloverChains
  <2> SUFFICES ASSUME TypeOK, RolloverInv PROVE RolloverChains
    OBVIOUS
  <2>1. \A c, d, s \in CAs : LinksTo(c, s) /\ LinksTo(d, s) => c = d
    BY ViewPoints DEF RolloverInv, Succession, OnePredecessor
  <2>2. \A S \in (SUBSET CAs) \ {{}} : \E c \in S : \A s \in S : ~LinksTo(c, s)
    BY ViewPoints DEF RolloverInv, Succession, Acyclic
  <2> QED
    BY <2>1, <2>2 DEF RolloverChains
<1> QED
  BY <1>1, SuccessionHolds, PTL

-----------------------------------------------------------------------------
(* Lineage of manifests: the invariant of a log L and a view V of the CA    *)
(* states                                                                  *)

Of(L, c) == {i \in 1..Len(L) : L[i].ca = c}

\* The records of a CA are numbered in the order of the log.
Versioned(L) ==
    /\ \A i \in 1..Len(L) : L[i].version = Cardinality({j \in Of(L, L[i].ca) : j <= i})
    /\ \A i, j \in 1..Len(L) : i < j /\ L[i].ca = L[j].ca => L[i].version < L[j].version

\* A cancellation follows the publication it undoes.
Undone(L) ==
    \A i \in 1..Len(L) : L[i].event = "Cancel" =>
        \E j \in Of(L, L[i].ca) :
            /\ L[j].version = L[i].version - 1
            /\ L[j].event = "Publish"
            /\ L[j].manifest = L[i].manifest
            /\ L[j].previous = L[i].previous

Cancels(L, l, i) == L[l].event = "Cancel" /\ ManifestKey(L[l]) = ManifestKey(L[i])

\* A publication is repeated only after it was cancelled.
Republished(L) ==
    \A i, j \in 1..Len(L) :
        /\ L[i].event = "Publish" /\ L[j].event = "Publish"
        /\ i < j /\ ManifestKey(L[i]) = ManifestKey(L[j])
        => \E l \in 1..Len(L) : i < l /\ l < j /\ Cancels(L, l, i)

PublicationsNamed(L) == \A i \in 1..Len(L) : L[i].event = "Publish" => L[i].manifest \in Manifests

\* The CA state s carries the number of its last record.
Counted(L, c, s) ==
    /\ s.last_version = Cardinality(Of(L, c))
    /\ \A i \in Of(L, c) : L[i].version <= s.last_version

Moves(L, c) == {i \in Of(L, c) : L[i].event \in {"Publish", "Cancel"}}
Leaves(r) == IF r.event = "Publish" THEN r.manifest ELSE r.previous

\* The effective manifest is the one the last publication or cancellation left.
EffectiveTold(L, c, s) ==
    \/ Moves(L, c) = {} /\ s.effective = None
    \/ \E i \in Moves(L, c) : /\ \A j \in Moves(L, c) : j <= i
                              /\ ManifestOf(s.effective) = Leaves(L[i])

PublishedBy(L, c, m) ==
    \E i \in Of(L, c) :
        L[i].event = "Publish" /\ L[i].manifest = m.manifest /\ L[i].authorization = m.intent

Backed(L, c, s) ==
    /\ s.effective # None => PublishedBy(L, c, s.effective)
    /\ s.predecessor # None => PublishedBy(L, c, s.predecessor)

Ascending(s) ==
    s.predecessor # None =>
        /\ s.effective # None
        /\ NumberOf[s.predecessor.manifest] < NumberOf[s.effective.manifest]

\* While the latest event is a publication, its record says what it replaced.
LastPublication(L, c, s) ==
    s.latest_event = "Publish" =>
        \E i \in Of(L, c) : /\ L[i].version = s.last_version
                            /\ L[i].event = "Publish"
                            /\ L[i].manifest = ManifestOf(s.effective)
                            /\ L[i].previous = ManifestOf(s.predecessor)

\* A publication that was not cancelled stays at or below the effective manifest,
\* and also if the next event restores the predecessor.
StandsUnder(s, m) ==
    /\ s.effective # None
    /\ NumberOf[m] <= NumberOf[s.effective.manifest]
    /\ \/ s.effective.manifest = m
       \/ s.latest_event # "Publish"
       \/ s.predecessor # None /\ NumberOf[m] <= NumberOf[s.predecessor.manifest]

Standing(L, c, s) ==
    \A i \in Of(L, c) : L[i].event = "Publish" =>
        \/ \E l \in 1..Len(L) : i < l /\ Cancels(L, l, i)
        \/ StandsUnder(s, L[i].manifest)

\* What CaStateV1 validation accepts.
Sane(s) ==
    /\ s.admin_sequence > 0 /\ s.last_version > 0
    /\ s.expected # None => s.status = "Enabled"
    /\ s.link # None => s.status = "Terminal" /\ s.latest_event = "Rollover"

Story(L, c, s) ==
    IF s = None THEN Of(L, c) = {}
    ELSE /\ Counted(L, c, s) /\ EffectiveTold(L, c, s) /\ Backed(L, c, s) /\ Ascending(s)
         /\ LastPublication(L, c, s) /\ Standing(L, c, s) /\ Sane(s)

Lineage(L, V) ==
    /\ Versioned(L) /\ Undone(L) /\ Republished(L) /\ PublicationsNamed(L)
    /\ \A c \in CAs : Story(L, c, V[c])

\* The committed indexes point into the committed log.
VersionsIndexed ==
    \A i \in 1..Len(records) :
        LET k == VersionKey(records[i]) IN k \in DOMAIN versionIndex /\ versionIndex[k] = i - 1

PublicationsOf(L, k) == {i \in 1..Len(L) : L[i].event = "Publish" /\ ManifestKey(L[i]) = k}

ManifestsIndexed ==
    /\ \A i \in 1..Len(records) : records[i].event = "Publish" =>
          ManifestKey(records[i]) \in DOMAIN manifestIndex
    /\ \A k \in DOMAIN manifestIndex :
          /\ manifestIndex[k] + 1 \in PublicationsOf(records, k)
          /\ \A i \in PublicationsOf(records, k) : i <= manifestIndex[k] + 1

LineageInv ==
    /\ Lineage(records, caState)
    /\ Lineage(Log, CaMap)
    /\ VersionsIndexed /\ ManifestsIndexed
    /\ phase = "idle" => accepted = <<>> /\ caUpdates = EmptyMap
    /\ phase = "prepared" => ~DuplicateKey

-----------------------------------------------------------------------------
(* One record more *)

\* How one event moves a CA from state s to state m with record r.
Moved(s, m, r) ==
    /\ Sane(m)
    /\ r.version = m.last_version
    /\ m.last_version = IF s = None THEN 1 ELSE s.last_version + 1
    /\ m.latest_event = r.event
    /\ \/ /\ r.event \notin {"Publish", "Cancel"}
          /\ m.effective = IF s = None THEN None ELSE s.effective
          /\ m.predecessor = IF s = None THEN None ELSE s.predecessor
       \/ /\ r.event = "Publish" /\ s # None /\ r.manifest \in Manifests
          /\ m.effective = [manifest |-> r.manifest, intent |-> r.authorization]
          /\ m.predecessor = s.effective
          /\ r.previous = ManifestOf(s.effective)
          /\ s.effective # None => NumberOf[s.effective.manifest] < NumberOf[r.manifest]
       \/ /\ r.event = "Cancel" /\ s # None /\ s.latest_event = "Publish"
          /\ s.effective # None
          /\ r.manifest = ManifestOf(s.effective) /\ r.previous = ManifestOf(s.predecessor)
          /\ m.effective = s.predecessor /\ m.predecessor = None

\* The fields of a record and of a state.
LEMMA LogFields ==
    ASSUME NEW L \in Seq(HistoryRecords)
    PROVE  /\ Len(L) \in Nat
           /\ \A i \in 1..Len(L) :
                 /\ L[i] \in HistoryRecords /\ L[i].version \in Nat /\ L[i].ca \in CAs
                 /\ L[i].authorization \in TxIds
<1>1. Len(L) \in Nat /\ \A i \in 1..Len(L) : L[i] \in HistoryRecords
  OBVIOUS
<1>2. \A h \in HistoryRecords : h.version \in Nat /\ h.ca \in CAs /\ h.authorization \in TxIds
  BY DEF HistoryRecords
<1> QED
  BY <1>1, <1>2

\* An installed manifest has a number; an absent one has none.
LEMMA InstalledFields ==
    ASSUME NEW m \in Installed \cup {None}
    PROVE  /\ m # None => /\ m.manifest \in Manifests /\ NumberOf[m.manifest] \in Nat
                          /\ ManifestOf(m) = m.manifest
           /\ m = None => ManifestOf(m) = None
BY NumberAssumption DEF Installed, ManifestOf

\* A longer log and what it says of each CA.
LEMMA Longer ==
    ASSUME NEW L \in Seq(HistoryRecords), NEW r \in HistoryRecords
    PROVE  /\ Append(L, r) \in Seq(HistoryRecords)
           /\ Len(Append(L, r)) = Len(L) + 1 /\ Len(L) \in Nat
           /\ 1..Len(Append(L, r)) = 1..Len(L) \cup {Len(L) + 1}
           /\ Append(L, r)[Len(L) + 1] = r
           /\ \A i \in 1..Len(L) : Append(L, r)[i] = L[i] /\ i < Len(L) + 1
           /\ \A c : r.ca # c => Of(Append(L, r), c) = Of(L, c)
           /\ Of(Append(L, r), r.ca) = Of(L, r.ca) \cup {Len(L) + 1}
<1> DEFINE M == Append(L, r)  n == Len(L) + 1
<1>1. /\ M \in Seq(HistoryRecords) /\ Len(M) = n /\ Len(L) \in Nat /\ M[n] = r
      /\ \A i \in 1..Len(L) : M[i] = L[i]
  OBVIOUS
<1> HIDE DEF M
<1>2. 1..Len(M) = 1..Len(L) \cup {n} /\ \A i \in 1..Len(L) : i < n
  BY <1>1
<1>3. \A c : r.ca # c => Of(M, c) = Of(L, c)
  BY <1>1, <1>2 DEF Of
<1>4. Of(M, r.ca) = Of(L, r.ca) \cup {n}
  <2> HIDE DEF n
  <2>1. \A i : i \in Of(M, r.ca) <=> i \in Of(L, r.ca) \cup {n}
    BY <1>1, <1>2 DEF Of
  <2> QED
    BY <2>1
<1> QED
  BY <1>1, <1>2, <1>3, <1>4 DEF M

\* The records of a CA can be counted, and one more is one more.
LEMMA OfFinite ==
    ASSUME NEW L \in Seq(HistoryRecords), NEW c
    PROVE  /\ IsFiniteSet(Of(L, c)) /\ Cardinality(Of(L, c)) \in Nat
           /\ Cardinality(Of(L, c) \cup {Len(L) + 1}) = Cardinality(Of(L, c)) + 1
<1>1. Len(L) \in Nat
  BY LogFields
<1>2. IsFiniteSet(1..Len(L))
  BY <1>1, FS_Interval
<1>3. Of(L, c) \subseteq 1..Len(L)
  BY DEF Of
<1>4. IsFiniteSet(Of(L, c)) /\ Cardinality(Of(L, c)) \in Nat
  BY <1>2, <1>3, FS_Subset, FS_CardinalityType
<1>5. Len(L) + 1 \notin Of(L, c)
  BY <1>1, <1>3
<1> QED
  BY <1>4, <1>5, FS_AddElement

\* What the log says of the other CAs stays as it was.
LEMMA StoryOther ==
    ASSUME NEW L \in Seq(HistoryRecords), NEW r \in HistoryRecords,
           NEW c, r.ca # c, NEW s, Story(L, c, s)
    PROVE  Story(Append(L, r), c, s)
<1> DEFINE M == Append(L, r)
<1> SUFFICES Story(M, c, s)
  OBVIOUS
<1>1. /\ Of(M, c) = Of(L, c) /\ \A i \in 1..Len(L) : M[i] = L[i]
      /\ 1..Len(M) = 1..Len(L) \cup {Len(L) + 1}
  BY Longer
<1>2. Of(L, c) \subseteq 1..Len(L)
  BY DEF Of
<1> HIDE DEF M
<1>3. CASE s = None
  BY <1>1, <1>3 DEF Story
<1>4. CASE s # None
  <2>1. Moves(M, c) = Moves(L, c)
    BY <1>1, <1>2 DEF Moves
  <2>2. \A i \in Moves(L, c) : i \in 1..Len(L)
    BY <1>2 DEF Moves
  <2>3. Counted(M, c, s)
    BY <1>1, <1>2, <1>4 DEF Story, Counted
  <2>4. EffectiveTold(M, c, s)
    BY <1>1, <1>4, <2>1, <2>2 DEF Story, EffectiveTold
  <2>5. Backed(M, c, s)
    BY <1>1, <1>2, <1>4 DEF Story, Backed, PublishedBy
  <2>6. LastPublication(M, c, s)
    BY <1>1, <1>2, <1>4 DEF Story, LastPublication
  <2>7. Standing(M, c, s)
    <3> SUFFICES ASSUME NEW i \in Of(M, c), M[i].event = "Publish"
                 PROVE  \/ \E l \in 1..Len(M) : i < l /\ Cancels(M, l, i)
                        \/ StandsUnder(s, M[i].manifest)
      BY DEF Standing
    <3>1. i \in Of(L, c) /\ i \in 1..Len(L) /\ M[i] = L[i]
      BY <1>1, <1>2
    <3>2. CASE \E l \in 1..Len(L) : i < l /\ Cancels(L, l, i)
      BY <1>1, <3>1, <3>2 DEF Cancels
    <3>3. CASE StandsUnder(s, L[i].manifest)
      BY <3>1, <3>3
    <3> QED
      BY <1>4, <3>1, <3>2, <3>3 DEF Story, Standing
  <2> QED
    BY <1>4, <2>3, <2>4, <2>5, <2>6, <2>7 DEF Story
<1> QED
  BY <1>3, <1>4

\* What was published once stays published.
LEMMA PublishedLonger ==
    ASSUME NEW L \in Seq(HistoryRecords), NEW r \in HistoryRecords, NEW x,
           PublishedBy(L, r.ca, x)
    PROVE  PublishedBy(Append(L, r), r.ca, x)
<1>1. /\ Of(Append(L, r), r.ca) = Of(L, r.ca) \cup {Len(L) + 1}
      /\ \A i \in 1..Len(L) : Append(L, r)[i] = L[i]
  BY Longer
<1>2. Of(L, r.ca) \subseteq 1..Len(L)
  BY DEF Of
<1> QED
  BY <1>1, <1>2 DEF PublishedBy

\* A publication that stands keeps standing, or is cancelled by the new record.
LEMMA StandsOn ==
    ASSUME NEW s \in CaStates, NEW m \in CaStates, NEW r \in HistoryRecords,
           Moved(s, m, r), Ascending(s), NEW x \in Manifests, StandsUnder(s, x)
    PROVE  StandsUnder(m, x) \/ (r.event = "Cancel" /\ r.manifest = x)
<1>1. /\ s # None /\ NumberOf[x] \in Nat
      /\ s.effective \in Installed \cup {None} /\ s.predecessor \in Installed \cup {None}
      /\ m.effective \in Installed \cup {None} /\ m.predecessor \in Installed \cup {None}
  BY NoStateAssumption, NumberAssumption DEF CaStates
<1>2. CASE r.event \notin {"Publish", "Cancel"}
  BY <1>1, <1>2 DEF Moved, StandsUnder
<1>3. CASE r.event = "Publish"
  <2>1. /\ r.manifest \in Manifests
        /\ m.effective = [manifest |-> r.manifest, intent |-> r.authorization]
        /\ m.predecessor = s.effective /\ s.effective # None
        /\ NumberOf[s.effective.manifest] < NumberOf[r.manifest]
    BY <1>1, <1>3 DEF Moved, StandsUnder
  <2>2. m.effective # None /\ m.effective.manifest = r.manifest
    BY <2>1, NotInstalledAssumption DEF Installed, HistoryRecords
  <2>3. NumberOf[r.manifest] \in Nat /\ NumberOf[s.effective.manifest] \in Nat
    BY <1>1, <2>1, InstalledFields, NumberAssumption
  <2>4. NumberOf[x] <= NumberOf[s.effective.manifest]
    BY DEF StandsUnder
  <2> QED
    BY <1>1, <2>1, <2>2, <2>3, <2>4 DEF StandsUnder
<1>4. CASE r.event = "Cancel"
  <2>1. /\ s.latest_event = "Publish" /\ m.latest_event = "Cancel"
        /\ r.manifest = ManifestOf(s.effective) /\ m.effective = s.predecessor
    BY <1>1, <1>4 DEF Moved
  <2>2. CASE s.effective.manifest = x
    BY <1>1, <1>4, <2>1, <2>2, InstalledFields DEF StandsUnder
  <2>3. CASE s.predecessor # None /\ NumberOf[x] <= NumberOf[s.predecessor.manifest]
    BY <2>1, <2>3 DEF StandsUnder
  <2> QED
    BY <2>1, <2>2, <2>3 DEF StandsUnder
<1> QED
  BY <1>2, <1>3, <1>4

\* What the log says of the CA of the new record.
LEMMA StoryMoved ==
    ASSUME NEW L \in Seq(HistoryRecords), NEW r \in HistoryRecords,
           NEW s \in CaStates \cup {None}, Story(L, r.ca, s), PublicationsNamed(L),
           NEW m \in CaStates, Moved(s, m, r)
    PROVE  Story(Append(L, r), r.ca, m)
<1> DEFINE M == Append(L, r)  c == r.ca  n == Len(L) + 1
<1> SUFFICES Story(M, c, m)
  OBVIOUS
<1>1. /\ Len(L) \in Nat /\ 1..Len(M) = 1..Len(L) \cup {n} /\ M[n] = r
      /\ \A i \in 1..Len(L) : M[i] = L[i] /\ i < n
      /\ Of(M, c) = Of(L, c) \cup {n}
  BY Longer
<1>2. Of(L, c) \subseteq 1..Len(L) /\ n \in Of(M, c) /\ n \in 1..Len(M)
  BY <1>1 DEF Of
<1>3. /\ m # None /\ m.last_version \in Nat
      /\ m.effective \in Installed \cup {None} /\ m.predecessor \in Installed \cup {None}
  BY NoStateAssumption DEF CaStates
<1>4. s # None => /\ s \in CaStates /\ s.last_version \in Nat
                  /\ s.effective \in Installed \cup {None}
                  /\ s.predecessor \in Installed \cup {None}
  BY DEF CaStates
<1>5. /\ s = None => Of(L, c) = {}
      /\ s # None => /\ Counted(L, c, s) /\ EffectiveTold(L, c, s) /\ Backed(L, c, s)
                     /\ Ascending(s) /\ LastPublication(L, c, s) /\ Standing(L, c, s)
  BY DEF Story
<1>6. Cardinality(Of(M, c)) = Cardinality(Of(L, c)) + 1
  BY <1>1, OfFinite
<1>7. ASSUME r.event = "Publish"
      PROVE  /\ s # None /\ r.manifest \in Manifests
             /\ m.effective # None /\ m.effective.manifest = r.manifest
             /\ m.effective.intent = r.authorization
             /\ ManifestOf(m.effective) = r.manifest
             /\ m.predecessor = s.effective /\ r.previous = ManifestOf(s.effective)
             /\ s.effective # None => NumberOf[s.effective.manifest] < NumberOf[r.manifest]
  <2>1. /\ s # None /\ r.manifest \in Manifests
        /\ m.effective = [manifest |-> r.manifest, intent |-> r.authorization]
        /\ m.predecessor = s.effective /\ r.previous = ManifestOf(s.effective)
        /\ s.effective # None => NumberOf[s.effective.manifest] < NumberOf[r.manifest]
    BY <1>7 DEF Moved
  <2>2. m.effective \in Installed
    BY <2>1 DEF Installed, HistoryRecords
  <2> QED
    BY <2>1, <2>2, InstalledFields, NotInstalledAssumption
<1>8. ASSUME r.event = "Cancel"
      PROVE  /\ s # None /\ s.effective # None
             /\ r.manifest = ManifestOf(s.effective) /\ r.previous = ManifestOf(s.predecessor)
             /\ m.effective = s.predecessor /\ m.predecessor = None
  BY <1>8 DEF Moved
<1>9. ASSUME r.event \notin {"Publish", "Cancel"}
      PROVE  /\ m.effective = IF s = None THEN None ELSE s.effective
             /\ m.predecessor = IF s = None THEN None ELSE s.predecessor
  BY <1>9 DEF Moved
<1>10. /\ Sane(m) /\ r.version = m.last_version /\ m.latest_event = r.event
       /\ m.last_version = IF s = None THEN 1 ELSE s.last_version + 1
  BY DEF Moved
<1>11. \A x : PublishedBy(L, c, x) => PublishedBy(M, c, x)
  BY PublishedLonger
<1>12. \A i \in 1..Len(L) : L[i].version \in Nat
  BY LogFields
<1>13. ASSUME NEW x \in Manifests, s # None, StandsUnder(s, x)
       PROVE  StandsUnder(m, x) \/ (r.event = "Cancel" /\ r.manifest = x)
  BY <1>4, <1>5, <1>13, StandsOn
<1> HIDE DEF M, c, n
<1>20. Counted(M, c, m)
  <2>1. m.last_version = Cardinality(Of(M, c))
    <3>1. CASE s = None
      <4>1. Of(L, c) = {}
        BY <1>5, <3>1
      <4>2. Cardinality(Of(L, c)) = 0
        BY <4>1, FS_EmptySet, Zenon
      <4> QED
        BY <1>6, <1>10, <3>1, <4>2
    <3>2. CASE s # None
      BY <1>5, <1>6, <1>10, <3>2 DEF Counted
    <3> QED
      BY <3>1, <3>2
  <2>2. ASSUME NEW i \in Of(M, c) PROVE M[i].version <= m.last_version
    <3>1. CASE i = n
      BY <1>1, <1>3, <1>10, <3>1
    <3>2. CASE i \in Of(L, c)
      <4>1. s # None /\ M[i] = L[i] /\ L[i].version <= s.last_version /\ L[i].version \in Nat
        BY <1>1, <1>2, <1>5, <1>12, <3>2 DEF Counted
      <4> QED
        BY <1>4, <1>10, <4>1
    <3> QED
      BY <1>1, <3>1, <3>2
  <2> QED
    BY <2>1, <2>2 DEF Counted
<1>21. EffectiveTold(M, c, m)
  <2>1. CASE r.event \notin {"Publish", "Cancel"}
    <3>1. Moves(M, c) = Moves(L, c) /\ Moves(L, c) \subseteq 1..Len(L)
      BY <1>1, <1>2, <2>1 DEF Moves
    <3>2. CASE s = None
      BY <1>5, <1>9, <2>1, <3>1, <3>2 DEF Moves, EffectiveTold
    <3>3. CASE s # None
      <4>1. m.effective = s.effective /\ EffectiveTold(L, c, s)
        BY <1>5, <1>9, <2>1, <3>3
      <4> QED
        BY <1>1, <3>1, <4>1 DEF EffectiveTold
    <3> QED
      BY <3>2, <3>3
  <2>2. CASE r.event \in {"Publish", "Cancel"}
    <3>1. n \in Moves(M, c)
      BY <1>1, <1>2, <2>2 DEF Moves
    <3>2. \A j \in Moves(M, c) : j <= n
      <4>1. \A j \in Moves(M, c) : j \in 1..Len(L) \/ j = n
        BY <1>1, <1>2 DEF Moves
      <4> QED
        BY <1>1, <4>1 DEF n
    <3>3. ManifestOf(m.effective) = Leaves(M[n])
      BY <1>1, <1>7, <1>8, <2>2 DEF Leaves
    <3> QED
      BY <3>1, <3>2, <3>3 DEF EffectiveTold
  <2> QED
    BY <2>1, <2>2
<1>22. Backed(M, c, m)
  <2>1. CASE r.event = "Publish"
    <3>1. PublishedBy(M, c, m.effective)
      BY <1>1, <1>2, <1>7, <2>1 DEF PublishedBy
    <3> QED
      BY <1>5, <1>7, <1>11, <2>1, <3>1 DEF Backed
  <2>2. CASE r.event # "Publish"
    BY <1>5, <1>8, <1>9, <1>11, <2>2 DEF Backed
  <2> QED
    BY <2>1, <2>2
<1>23. Ascending(m)
  <2>1. CASE r.event = "Publish"
    BY <1>7, <2>1 DEF Ascending
  <2>2. CASE r.event # "Publish"
    BY <1>5, <1>8, <1>9, <2>2 DEF Ascending
  <2> QED
    BY <2>1, <2>2
<1>24. LastPublication(M, c, m)
  BY <1>1, <1>2, <1>7, <1>10 DEF LastPublication
<1>25. Standing(M, c, m)
  <2> SUFFICES ASSUME NEW i \in Of(M, c), M[i].event = "Publish"
               PROVE  \/ \E l \in 1..Len(M) : i < l /\ Cancels(M, l, i)
                      \/ StandsUnder(m, M[i].manifest)
    BY DEF Standing
  <2>1. CASE i = n
    <3>1. r.event = "Publish"
      BY <1>1, <2>1
    <3>2. m.effective # None /\ m.effective.manifest = r.manifest /\ NumberOf[r.manifest] \in Nat
      BY <1>7, <3>1, NumberAssumption
    <3> QED
      BY <1>1, <2>1, <3>2 DEF StandsUnder
  <2>2. CASE i \in Of(L, c)
    <3>1. i \in 1..Len(L) /\ M[i] = L[i] /\ L[i].event = "Publish" /\ s # None
      BY <1>1, <1>2, <1>5, <2>2
    <3>2. L[i].manifest \in Manifests /\ L[i].ca = c
      BY <2>2, <3>1 DEF PublicationsNamed, Of
    <3>3. CASE \E l \in 1..Len(L) : i < l /\ Cancels(L, l, i)
      BY <1>1, <3>1, <3>3 DEF Cancels
    <3>4. CASE StandsUnder(s, L[i].manifest)
      <4>1. CASE r.event = "Cancel" /\ r.manifest = L[i].manifest
        <5>1. Cancels(M, n, i) /\ i < n
          BY <1>1, <3>1, <3>2, <4>1 DEF Cancels, ManifestKey, c
        <5> QED
          BY <1>2, <5>1
      <4> QED
        BY <1>13, <3>1, <3>2, <3>4, <4>1
    <3> QED
      BY <1>5, <2>2, <3>1, <3>3, <3>4 DEF Standing
  <2> QED
    BY <1>1, <2>1, <2>2
<1> QED
  BY <1>3, <1>10, <1>20, <1>21, <1>22, <1>23, <1>24, <1>25 DEF Story

\* A log and a view of the CAs grow by one event together.
LEMMA LineageGrows ==
    ASSUME NEW L \in Seq(HistoryRecords), NEW V \in CaMaps, Lineage(L, V),
           NEW r \in HistoryRecords, NEW m \in CaStates, Moved(V[r.ca], m, r)
    PROVE  Lineage(Append(L, r), [V EXCEPT ![r.ca] = m])
<1> DEFINE M == Append(L, r)  c == r.ca  n == Len(L) + 1  s == V[c]
           W == [V EXCEPT ![c] = m]
<1> SUFFICES Lineage(M, W)
  OBVIOUS
<1>1. /\ Len(L) \in Nat /\ 1..Len(M) = 1..Len(L) \cup {n} /\ M[n] = r
      /\ \A i \in 1..Len(L) : M[i] = L[i] /\ i < n
      /\ Of(M, c) = Of(L, c) \cup {n}
      /\ \A d : c # d => Of(M, d) = Of(L, d)
  BY Longer
<1>2. /\ c \in CAs /\ s \in CaStates \cup {None}
      /\ W[c] = m /\ \A d \in CAs \ {c} : W[d] = V[d]
  BY DEF HistoryRecords, CaMaps
<1>3. /\ Versioned(L) /\ Undone(L) /\ Republished(L) /\ PublicationsNamed(L)
      /\ \A d \in CAs : Story(L, d, V[d])
  BY DEF Lineage
<1>4. /\ s = None => Of(L, c) = {}
      /\ s # None => Counted(L, c, s) /\ LastPublication(L, c, s) /\ Standing(L, c, s)
  BY <1>2, <1>3 DEF Story
<1>5. Story(M, c, m)
  BY <1>2, <1>3, StoryMoved
<1>6. ASSUME NEW d \in CAs, d # c PROVE Story(M, d, W[d])
  BY <1>2, <1>3, <1>6, StoryOther
<1>7. /\ \A i \in 1..Len(L) : L[i].version \in Nat /\ L[i].ca \in CAs
      /\ r.version \in Nat
  BY LogFields DEF HistoryRecords
<1>8. /\ Moved(s, m, r) /\ r.version = m.last_version
      /\ m.last_version = IF s = None THEN 1 ELSE s.last_version + 1
  BY DEF Moved
<1>9. \A d : Of(L, d) \subseteq 1..Len(L)
  BY DEF Of
<1>10. s # None => s.last_version \in Nat /\ s.effective \in Installed \cup {None}
  BY <1>2 DEF CaStates
<1>11. Counted(M, c, m)
  BY <1>5, NoStateAssumption DEF Story
<1> HIDE DEF M, c, n, W, s
<1>12. Versioned(M)
  <2>1. ASSUME NEW i \in 1..Len(M)
        PROVE  M[i].version = Cardinality({j \in Of(M, M[i].ca) : j <= i})
    <3>1. CASE i = n
      <4>1. M[i].ca = c /\ M[i].version = m.last_version
        BY <1>1, <1>8, <3>1 DEF c
      <4>2. \A j \in Of(M, c) : j <= n
        BY <1>1, <1>9 DEF n
      <4>3. {j \in Of(M, c) : j <= n} = Of(M, c)
        BY <4>2
      <4> QED
        BY <1>11, <3>1, <4>1, <4>3 DEF Counted
    <3>2. CASE i \in 1..Len(L)
      <4>1. M[i] = L[i] /\ i < n /\ i \in Nat
        BY <1>1, <3>2
      <4>2. Of(M, L[i].ca) = Of(L, L[i].ca) \/ Of(M, L[i].ca) = Of(L, L[i].ca) \cup {n}
        BY <1>1
      <4>3. ~(n <= i)
        BY <1>1, <4>1 DEF n
      <4>4. {j \in Of(M, L[i].ca) : j <= i} = {j \in Of(L, L[i].ca) : j <= i}
        BY <4>2, <4>3
      <4> QED
        BY <1>3, <3>2, <4>1, <4>4 DEF Versioned
    <3> QED
      BY <1>1, <3>1, <3>2
  <2>2. ASSUME NEW i \in 1..Len(M), NEW j \in 1..Len(M), i < j, M[i].ca = M[j].ca
        PROVE  M[i].version < M[j].version
    <3>1. i \in 1..Len(L) /\ M[i] = L[i]
      BY <1>1, <2>2 DEF n
    <3>2. CASE j = n
      <4>1. M[j] = r /\ L[i].ca = c
        BY <1>1, <2>2, <3>1, <3>2 DEF c
      <4>2. i \in Of(L, c)
        BY <3>1, <4>1 DEF Of
      <4>3. s # None /\ L[i].version <= s.last_version
        BY <1>4, <4>2 DEF Counted
      <4> QED
        BY <1>7, <1>8, <1>10, <3>1, <4>1, <4>3
    <3>3. CASE j \in 1..Len(L)
      BY <1>1, <1>3, <2>2, <3>1, <3>3 DEF Versioned
    <3> QED
      BY <1>1, <3>2, <3>3
  <2> QED
    BY <2>1, <2>2 DEF Versioned
<1>13. Undone(M)
  <2> SUFFICES ASSUME NEW i \in 1..Len(M), M[i].event = "Cancel"
               PROVE  \E j \in Of(M, M[i].ca) :
                          /\ M[j].version = M[i].version - 1
                          /\ M[j].event = "Publish"
                          /\ M[j].manifest = M[i].manifest
                          /\ M[j].previous = M[i].previous
    BY DEF Undone
  <2>1. CASE i = n
    <3>1. /\ s # None /\ s.latest_event = "Publish"
          /\ r.manifest = ManifestOf(s.effective) /\ r.previous = ManifestOf(s.predecessor)
      BY <1>1, <1>8, <2>1 DEF Moved
    <3>2. PICK j \in Of(L, c) : /\ L[j].version = s.last_version
                                /\ L[j].event = "Publish"
                                /\ L[j].manifest = ManifestOf(s.effective)
                                /\ L[j].previous = ManifestOf(s.predecessor)
      BY <1>4, <3>1 DEF LastPublication
    <3>3. M[j] = L[j] /\ j \in Of(M, c) /\ M[i] = r /\ r.ca = c
      BY <1>1, <1>9, <2>1, <3>2 DEF c
    <3>4. r.version - 1 = s.last_version
      BY <1>8, <1>10, <3>1
    <3> QED
      BY <3>1, <3>2, <3>3, <3>4
  <2>2. CASE i \in 1..Len(L)
    <3>1. M[i] = L[i] /\ Of(L, L[i].ca) \subseteq Of(M, L[i].ca)
      BY <1>1, <2>2
    <3>2. PICK j \in Of(L, L[i].ca) : /\ L[j].version = L[i].version - 1
                                      /\ L[j].event = "Publish"
                                      /\ L[j].manifest = L[i].manifest
                                      /\ L[j].previous = L[i].previous
      BY <1>3, <2>2, <3>1 DEF Undone
    <3>3. M[j] = L[j]
      BY <1>1, <1>9
    <3> QED
      BY <3>1, <3>2, <3>3
  <2> QED
    BY <1>1, <2>1, <2>2
<1>14. PublicationsNamed(M)
  <2>1. r.event = "Publish" => r.manifest \in Manifests
    BY <1>8 DEF Moved
  <2> QED
    BY <1>1, <1>3, <2>1 DEF PublicationsNamed
<1>15. Republished(M)
  <2> SUFFICES ASSUME NEW i \in 1..Len(M), NEW j \in 1..Len(M),
                      M[i].event = "Publish", M[j].event = "Publish",
                      i < j, ManifestKey(M[i]) = ManifestKey(M[j])
               PROVE  \E l \in 1..Len(M) : i < l /\ l < j /\ Cancels(M, l, i)
    BY DEF Republished
  <2>1. i \in 1..Len(L) /\ M[i] = L[i]
    BY <1>1 DEF n
  <2>2. CASE j = n
    <3>1. /\ M[j] = r /\ L[i].ca = c /\ L[i].manifest = r.manifest
      BY <1>1, <2>1, <2>2 DEF ManifestKey, c
    <3>2. i \in Of(L, c) /\ s # None
      BY <1>4, <2>1, <3>1 DEF Of
    <3>3. r.event = "Publish" /\ r.manifest \in Manifests
          /\ (s.effective # None => NumberOf[s.effective.manifest] < NumberOf[r.manifest])
      BY <1>8, <3>1 DEF Moved
    <3>4. ~StandsUnder(s, L[i].manifest)
      <4> SUFFICES ASSUME StandsUnder(s, L[i].manifest) PROVE FALSE
        OBVIOUS
      <4>1. s.effective # None /\ NumberOf[r.manifest] <= NumberOf[s.effective.manifest]
        BY <3>1 DEF StandsUnder
      <4>2. NumberOf[r.manifest] \in Nat /\ NumberOf[s.effective.manifest] \in Nat
        BY <1>10, <3>2, <3>3, <4>1, InstalledFields, NumberAssumption
      <4> QED
        BY <3>3, <4>1, <4>2
    <3>5. PICK l \in 1..Len(L) : i < l /\ Cancels(L, l, i)
      BY <1>4, <2>1, <3>2, <3>4 DEF Standing
    <3>6. l \in 1..Len(M) /\ l < j /\ M[l] = L[l]
      BY <1>1, <2>2
    <3> QED
      BY <2>1, <3>5, <3>6 DEF Cancels
  <2>3. CASE j \in 1..Len(L)
    <3>1. M[j] = L[j]
      BY <1>1, <2>3
    <3>2. PICK l \in 1..Len(L) : i < l /\ l < j /\ Cancels(L, l, i)
      BY <1>3, <2>1, <2>3, <3>1 DEF Republished
    <3>3. l \in 1..Len(M) /\ M[l] = L[l]
      BY <1>1
    <3> QED
      BY <2>1, <3>2, <3>3 DEF Cancels
  <2> QED
    BY <1>1, <2>2, <2>3
<1>16. \A d \in CAs : Story(M, d, W[d])
  BY <1>2, <1>5, <1>6
<1> QED
  BY <1>12, <1>13, <1>14, <1>15, <1>16 DEF Lineage

-----------------------------------------------------------------------------
(* The steps of lineage *)

\* What an admission adds to the story of its CA.
Tells(id) ==
    \E m \in CaStates, r \in HistoryRecords, created \in BOOLEAN :
        /\ Accept(id, m, r, created)
        /\ r.ca = Tx[id].ca
        /\ Moved(CaView(Tx[id].ca), m, r)

\* The state a control event starts from, field by field.
LEMMA ControlFields ==
    ASSUME TypeOK, NEW id \in TxIds, NEW op \in Events, AdmitsControl(id, op),
           NEW s, s = CaView(Tx[id].ca), NEW a, a = Administered(id, op)
    PROVE  /\ a \in CaStates /\ a.admin_sequence > 0
           /\ a.last_version = (IF s = None THEN 1 ELSE s.last_version + 1)
           /\ a.last_version \in Nat /\ a.last_version > 0
           /\ a.latest_event = op
           /\ a.effective = (IF s = None THEN None ELSE s.effective)
           /\ a.predecessor = (IF s = None THEN None ELSE s.predecessor)
           /\ s # None => /\ s \in CaStates
                          /\ a.status = s.status /\ a.expected = s.expected /\ a.link = s.link
<1> DEFINE t == Tx[id]
<1>1. /\ t \in ControlTx /\ t.ca \in CAs /\ t.sequence \in Nat
  BY AdmittedControl DEF ControlTx
<1>2. t.sequence > 0
  <2>1. WireValid(t) /\ t.kind = "Control"
    BY DEF AdmitsControl, Admits, Executes
  <2> QED
    BY <2>1 DEF WireValid
<1>3. a \in CaStates /\ s \in CaStates \cup {None}
  BY <1>1, AdministeredType, ViewType
<1>4. CASE s = None
  BY <1>1, <1>2, <1>3, <1>4 DEF Administered
<1>5. CASE s # None
  <2>1. s \in CaStates /\ s.last_version \in Nat
    BY <1>3, <1>5 DEF CaStates
  <2>2. a = [s EXCEPT !.admin_sequence = t.sequence, !.last_version = @ + 1,
                      !.latest_record = id, !.latest_event = op, !.latest_epoch = next.open]
    BY <1>5 DEF Administered
  <2> HIDE DEF t
  <2>3. /\ a.admin_sequence = t.sequence /\ a.last_version = s.last_version + 1
        /\ a.latest_event = op
        /\ a.effective = s.effective /\ a.predecessor = s.predecessor
        /\ a.status = s.status /\ a.expected = s.expected /\ a.link = s.link
    BY <2>1, <2>2 DEF CaStates
  <2> QED
    BY <1>2, <1>3, <1>5, <2>1, <2>3
<1> QED
  BY <1>4, <1>5

\* The record of an event.
LEMMA EventRecord ==
    ASSUME TypeOK, NEW id \in TxIds, NEW v \in Nat, NEW e \in Events,
           NEW x \in Manifests \cup {None}, NEW p \in Manifests \cup {None},
           NEW r, r = Record(id, v, e, x, p)
    PROVE  /\ r \in HistoryRecords
           /\ r.ca = Tx[id].ca /\ r.version = v /\ r.event = e
           /\ r.manifest = x /\ r.previous = p /\ r.authorization = id
BY ResultType DEF Record

\* The record of an event that concerns no manifest.
LEMMA PlainRecord ==
    ASSUME TypeOK, NEW id \in TxIds, NEW v \in Nat, NEW e \in Events,
           NEW r, r = Record(id, v, e, None, None)
    PROVE  /\ r \in HistoryRecords
           /\ r.ca = Tx[id].ca /\ r.version = v /\ r.event = e
<1>1. None \in Manifests \cup {None}
  OBVIOUS
<1> QED
  BY <1>1, EventRecord

\* A publication follows the effective manifest and has a greater number.
LEMMA PublishTells ==
    ASSUME TypeOK, NEW id \in TxIds, Publish(id),
           CaView(Tx[id].ca) # None => Sane(CaView(Tx[id].ca))
    PROVE  Tells(id)
<1> DEFINE t == Tx[id]  s == CaView(t.ca)  v == s.last_version + 1
           m == [s EXCEPT !.predecessor = s.effective,
                          !.effective = [manifest |-> t.manifest, intent |-> id],
                          !.expected = None,
                          !.last_version = v, !.latest_record = id,
                          !.latest_event = "Publish", !.latest_epoch = next.open]
           r == Record(id, v, "Publish", t.manifest, t.previous)
<1>1. Accept(id, m, r, FALSE) /\ t.kind = "Publication" /\ Admits(id)
  BY DEF Publish
<1>2. t.ca \in CAs /\ t.manifest \in Manifests /\ t.previous \in Manifests \cup {None}
  BY <1>1, TxType DEF PublicationTx
<1>3. /\ s # None /\ s.status = "Enabled" /\ t.previous = ManifestOf(s.effective)
      /\ s.effective # None => NumberOf[t.manifest] > NumberOf[s.effective.manifest]
  BY <1>1, AdmittedPublication DEF PublicationFits
<1>4. s \in CaStates /\ Sane(s)
  BY <1>2, <1>3, ViewType
<1>5. v \in Nat /\ v > 0 /\ s.effective \in Installed \cup {None}
  BY <1>4 DEF CaStates
<1>6. m \in CaStates
  <2>1. Accepts(id)
    BY PublishAccepts
  <2> HIDE DEF m, r
  <2> QED
    BY <1>1, <2>1, AcceptedState
<1>7. /\ m.status = s.status /\ m.admin_sequence = s.admin_sequence /\ m.last_version = v
      /\ m.latest_event = "Publish" /\ m.predecessor = s.effective
      /\ m.effective = [manifest |-> t.manifest, intent |-> id]
      /\ m.expected = None /\ m.link = s.link
  <2> HIDE DEF s, t, v
  <2> QED
    BY <1>4 DEF CaStates
<1>8. /\ r \in HistoryRecords /\ r.ca = t.ca /\ r.version = v /\ r.event = "Publish"
      /\ r.manifest = t.manifest /\ r.previous = t.previous /\ r.authorization = id
  BY <1>2, <1>5, EventRecord DEF Events
<1> HIDE DEF m, r
<1>9. Sane(m)
  BY <1>3, <1>4, <1>5, <1>7 DEF Sane
<1>10. s.effective # None => NumberOf[s.effective.manifest] < NumberOf[r.manifest]
  <2>1. s.effective # None => /\ NumberOf[s.effective.manifest] \in Nat
                              /\ NumberOf[t.manifest] \in Nat
    BY <1>2, <1>5, InstalledFields, NumberAssumption
  <2> QED
    BY <1>3, <1>8, <2>1
<1> HIDE DEF s, v
<1>11. Moved(s, m, r)
  BY <1>2, <1>3, <1>7, <1>8, <1>9, <1>10 DEF Moved, v
<1> QED
  BY <1>1, <1>6, <1>8, <1>11 DEF Tells, s

\* A registration starts the story of a CA; a re-enabling moves no manifest.
LEMMA EnableTells ==
    ASSUME TypeOK, NEW id \in TxIds, Enable(id)
    PROVE  Tells(id)
<1> DEFINE t == Tx[id]  s == CaView(t.ca)  a == Administered(id, "Enable")
           m == [a EXCEPT !.status = "Enabled", !.admin_key = t.action.key,
                          !.expected = t.action.manifest, !.link = None]
           r == Record(id, a.last_version, "Enable", None, None)
           b == CaView(t.ca) = None
<1>1. Accept(id, m, r, b) /\ AdmitsControl(id, "Enable")
  BY DEF Enable
<1>2. /\ a \in CaStates /\ a.admin_sequence > 0
      /\ a.last_version = (IF s = None THEN 1 ELSE s.last_version + 1)
      /\ a.last_version \in Nat /\ a.last_version > 0
      /\ a.latest_event = "Enable"
      /\ a.effective = (IF s = None THEN None ELSE s.effective)
      /\ a.predecessor = (IF s = None THEN None ELSE s.predecessor)
  BY <1>1, ControlFields DEF Events
<1>3. m \in CaStates
  <2>1. Accepts(id)
    BY EnableAccepts
  <2> HIDE DEF m, r, b
  <2> QED
    BY <1>1, <2>1, AcceptedState
<1>4. /\ m.status = "Enabled" /\ m.admin_sequence = a.admin_sequence
      /\ m.last_version = a.last_version /\ m.latest_event = "Enable"
      /\ m.effective = a.effective /\ m.predecessor = a.predecessor /\ m.link = None
  <2> HIDE DEF a, t
  <2> QED
    BY <1>2 DEF CaStates
<1>5. /\ r \in HistoryRecords /\ r.ca = t.ca /\ r.version = a.last_version
      /\ r.event = "Enable"
  BY <1>2, PlainRecord DEF Events
<1> HIDE DEF m, r, a, s
<1>6. Moved(s, m, r)
  BY <1>2, <1>4, <1>5 DEF Moved, Sane
<1> QED
  BY <1>1, <1>3, <1>5, <1>6 DEF Tells, s

\* A disabling moves no manifest.
LEMMA DisableTells ==
    ASSUME TypeOK, NEW id \in TxIds, Disable(id),
           CaView(Tx[id].ca) # None => Sane(CaView(Tx[id].ca))
    PROVE  Tells(id)
<1> DEFINE t == Tx[id]  s == CaView(t.ca)  a == Administered(id, "Disable")
           m == [a EXCEPT !.status = "Disabled", !.expected = None]
           r == Record(id, a.last_version, "Disable", None, None)
<1>1. Accept(id, m, r, FALSE) /\ AdmitsControl(id, "Disable")
  BY DEF Disable
<1>2. /\ a \in CaStates /\ a.admin_sequence > 0
      /\ a.last_version = (IF s = None THEN 1 ELSE s.last_version + 1)
      /\ a.last_version \in Nat /\ a.last_version > 0
      /\ a.latest_event = "Disable"
      /\ a.effective = (IF s = None THEN None ELSE s.effective)
      /\ a.predecessor = (IF s = None THEN None ELSE s.predecessor)
      /\ s # None => a.link = s.link
  BY <1>1, ControlFields DEF Events
<1>3. s # None /\ s.status # "Terminal"
  BY <1>1, AdmittedControl
<1>4. m \in CaStates
  <2>1. Accepts(id)
    BY DisableAccepts
  <2> HIDE DEF m, r
  <2> QED
    BY <1>1, <2>1, AcceptedState
<1>5. /\ m.admin_sequence = a.admin_sequence
      /\ m.last_version = a.last_version /\ m.latest_event = "Disable"
      /\ m.effective = a.effective /\ m.predecessor = a.predecessor
      /\ m.expected = None /\ m.link = a.link
  <2> HIDE DEF a
  <2> QED
    BY <1>2 DEF CaStates
<1>6. /\ r \in HistoryRecords /\ r.ca = t.ca /\ r.version = a.last_version
      /\ r.event = "Disable"
  BY <1>2, PlainRecord DEF Events
<1>7. Sane(s)
  BY <1>3
<1> HIDE DEF m, r, a, s
<1>8. Moved(s, m, r)
  BY <1>2, <1>3, <1>5, <1>6, <1>7 DEF Moved, Sane
<1> QED
  BY <1>1, <1>4, <1>6, <1>8 DEF Tells, s

\* A cancellation takes back the publication that is the latest event.
LEMMA CancelTells ==
    ASSUME TypeOK, NEW id \in TxIds, Cancel(id),
           CaView(Tx[id].ca) # None => Sane(CaView(Tx[id].ca))
    PROVE  Tells(id)
<1> DEFINE t == Tx[id]  s == CaView(t.ca)  a == Administered(id, "Cancel")
           m == [a EXCEPT !.effective = a.predecessor, !.predecessor = None]
           r == Record(id, a.last_version, "Cancel", t.action.target, t.action.restore)
<1>1. Accept(id, m, r, FALSE) /\ AdmitsControl(id, "Cancel")
  BY DEF Cancel
<1>2. /\ a \in CaStates /\ a.admin_sequence > 0
      /\ a.last_version = (IF s = None THEN 1 ELSE s.last_version + 1)
      /\ a.last_version \in Nat /\ a.last_version > 0
      /\ a.latest_event = "Cancel"
      /\ a.effective = (IF s = None THEN None ELSE s.effective)
      /\ a.predecessor = (IF s = None THEN None ELSE s.predecessor)
      /\ s # None => a.status = s.status /\ a.expected = s.expected /\ a.link = s.link
      /\ s # None => s \in CaStates
  BY <1>1, ControlFields DEF Events
<1>3. /\ s # None /\ s.status = "Enabled" /\ s.latest_event = "Publish"
      /\ t.action.target = ManifestOf(s.effective)
      /\ t.action.restore = ManifestOf(s.predecessor)
      /\ t.action.target \in Manifests /\ t.action.restore \in Manifests
  BY <1>1, AdmittedControl, ActionType DEF ActionFits, CancelFits
<1>4. m \in CaStates
  <2>1. Accepts(id)
    BY CancelAccepts
  <2> HIDE DEF m, r
  <2> QED
    BY <1>1, <2>1, AcceptedState
<1>5. /\ m.admin_sequence = a.admin_sequence /\ m.status = a.status
      /\ m.last_version = a.last_version /\ m.latest_event = "Cancel"
      /\ m.effective = a.predecessor /\ m.predecessor = None
      /\ m.expected = a.expected /\ m.link = a.link
  <2> HIDE DEF a
  <2> QED
    BY <1>2 DEF CaStates
<1>6. /\ r \in HistoryRecords /\ r.ca = t.ca /\ r.version = a.last_version
      /\ r.event = "Cancel" /\ r.manifest = t.action.target /\ r.previous = t.action.restore
  BY <1>2, <1>3, EventRecord DEF Events
<1>7. Sane(s) /\ s.effective # None
  BY <1>3, NoneAssumption DEF ManifestOf
<1> HIDE DEF m, r, a, s
<1>8. Moved(s, m, r)
  BY <1>2, <1>3, <1>5, <1>6, <1>7 DEF Moved, Sane
<1> QED
  BY <1>1, <1>4, <1>6, <1>8 DEF Tells, s

\* A rollover moves no manifest and ends its CA.
LEMMA RolloverTells ==
    ASSUME TypeOK, NEW id \in TxIds, Rollover(id)
    PROVE  Tells(id)
<1> DEFINE t == Tx[id]  s == CaView(t.ca)  a == Administered(id, "Rollover")
           m == [a EXCEPT !.status = "Terminal", !.expected = None, !.link = t.action.successor]
           r == Record(id, a.last_version, "Rollover", None, None)
<1>1. Accept(id, m, r, FALSE) /\ AdmitsControl(id, "Rollover")
  BY DEF Rollover
<1>2. /\ a \in CaStates /\ a.admin_sequence > 0
      /\ a.last_version = (IF s = None THEN 1 ELSE s.last_version + 1)
      /\ a.last_version \in Nat /\ a.last_version > 0
      /\ a.latest_event = "Rollover"
      /\ a.effective = (IF s = None THEN None ELSE s.effective)
      /\ a.predecessor = (IF s = None THEN None ELSE s.predecessor)
  BY <1>1, ControlFields DEF Events
<1>3. m \in CaStates
  <2>1. Accepts(id)
    BY RolloverAccepts
  <2> HIDE DEF m, r
  <2> QED
    BY <1>1, <2>1, AcceptedState
<1>4. /\ m.admin_sequence = a.admin_sequence /\ m.status = "Terminal"
      /\ m.last_version = a.last_version /\ m.latest_event = "Rollover"
      /\ m.effective = a.effective /\ m.predecessor = a.predecessor
      /\ m.expected = None
  <2> HIDE DEF a, t
  <2> QED
    BY <1>2 DEF CaStates
<1>5. /\ r \in HistoryRecords /\ r.ca = t.ca /\ r.version = a.last_version
      /\ r.event = "Rollover"
  BY <1>2, PlainRecord DEF Events
<1> HIDE DEF m, r, a, s
<1>6. Moved(s, m, r)
  BY <1>2, <1>4, <1>5 DEF Moved, Sane
<1> QED
  BY <1>1, <1>3, <1>5, <1>6 DEF Tells, s

\* A termination moves no manifest and ends its CA.
LEMMA TerminateTells ==
    ASSUME TypeOK, NEW id \in TxIds, Terminate(id)
    PROVE  Tells(id)
<1> DEFINE t == Tx[id]  s == CaView(t.ca)  a == Administered(id, "Terminal")
           m == [a EXCEPT !.status = "Terminal", !.expected = None, !.link = None]
           r == Record(id, a.last_version, "Terminal", None, None)
<1>1. Accept(id, m, r, FALSE) /\ AdmitsControl(id, "Terminal")
  BY DEF Terminate
<1>2. /\ a \in CaStates /\ a.admin_sequence > 0
      /\ a.last_version = (IF s = None THEN 1 ELSE s.last_version + 1)
      /\ a.last_version \in Nat /\ a.last_version > 0
      /\ a.latest_event = "Terminal"
      /\ a.effective = (IF s = None THEN None ELSE s.effective)
      /\ a.predecessor = (IF s = None THEN None ELSE s.predecessor)
  BY <1>1, ControlFields DEF Events
<1>3. m \in CaStates
  <2>1. Accepts(id)
    BY TerminateAccepts
  <2> HIDE DEF m, r
  <2> QED
    BY <1>1, <2>1, AcceptedState
<1>4. /\ m.admin_sequence = a.admin_sequence
      /\ m.last_version = a.last_version /\ m.latest_event = "Terminal"
      /\ m.effective = a.effective /\ m.predecessor = a.predecessor
      /\ m.expected = None /\ m.link = None
  <2> HIDE DEF a
  <2> QED
    BY <1>2 DEF CaStates
<1>5. /\ r \in HistoryRecords /\ r.ca = t.ca /\ r.version = a.last_version
      /\ r.event = "Terminal"
  BY <1>2, PlainRecord DEF Events
<1> HIDE DEF m, r, a, s
<1>6. Moved(s, m, r)
  BY <1>2, <1>4, <1>5 DEF Moved, Sane
<1> QED
  BY <1>1, <1>3, <1>5, <1>6 DEF Tells, s

\* Every admission tells the story of its CA.
LEMMA AcceptTells ==
    ASSUME TypeOK, LineageInv, NEW id \in TxIds,
           \/ Publish(id) \/ Enable(id) \/ Disable(id)
           \/ Cancel(id) \/ Rollover(id) \/ Terminate(id)
    PROVE  Tells(id)
<1>1. CaView(Tx[id].ca) # None => Sane(CaView(Tx[id].ca))
  <2>1. Tx[id].ca \in CAs
    BY TxType
  <2>2. Story(Log, Tx[id].ca, CaMap[Tx[id].ca]) /\ CaMap[Tx[id].ca] = CaView(Tx[id].ca)
    BY <2>1, MapsType DEF LineageInv, Lineage
  <2> QED
    BY <2>2 DEF Story
<1> QED
  BY <1>1, PublishTells, EnableTells, DisableTells, CancelTells, RolloverTells, TerminateTells

\* The lineage of the next state is that of its log and of its view.
LEMMA StagedNext ==
    ASSUME NEW L, NEW V, Log' = L, CaMap' = V, Lineage(L, V)
    PROVE  Lineage(Log, CaMap)'
<1>1. Versioned(Log)'
  BY DEF Lineage, Versioned, Of
<1>2. Undone(Log)'
  BY DEF Lineage, Undone, Of
<1>3. Republished(Log)'
  BY DEF Lineage, Republished, Cancels, ManifestKey
<1>4. PublicationsNamed(Log)'
  BY DEF Lineage, PublicationsNamed
<1>5. (\A c \in CAs : Story(Log, c, CaMap[c]))'
  <2> SUFFICES ASSUME NEW c \in CAs PROVE Story(Log, c, CaMap[c])'
    OBVIOUS
  <2>1. Story(L, c, V[c])
    BY DEF Lineage
  <2> QED
    BY <2>1 DEF Story, Counted, EffectiveTold, Backed, Ascending, LastPublication, Standing,
       Sane, Of, Moves, Leaves, PublishedBy, StandsUnder, Cancels, ManifestKey, ManifestOf
<1> QED
  BY <1>1, <1>2, <1>3, <1>4, <1>5 DEF Lineage

\* The same of the committed log and states.
LEMMA CommittedNext ==
    ASSUME NEW L, NEW V, records' = L, caState' = V, Lineage(L, V)
    PROVE  Lineage(records, caState)'
<1>1. Versioned(records)'
  BY DEF Lineage, Versioned, Of
<1>2. Undone(records)'
  BY DEF Lineage, Undone, Of
<1>3. Republished(records)'
  BY DEF Lineage, Republished, Cancels, ManifestKey
<1>4. PublicationsNamed(records)'
  BY DEF Lineage, PublicationsNamed
<1>5. (\A c \in CAs : Story(records, c, caState[c]))'
  <2> SUFFICES ASSUME NEW c \in CAs PROVE Story(records, c, caState[c])'
    OBVIOUS
  <2>1. Story(L, c, V[c])
    BY DEF Lineage
  <2> QED
    BY <2>1 DEF Story, Counted, EffectiveTold, Backed, Ascending, LastPublication, Standing,
       Sane, Of, Moves, Leaves, PublishedBy, StandsUnder, Cancels, ManifestKey, ManifestOf
<1> QED
  BY <1>1, <1>2, <1>3, <1>4, <1>5 DEF Lineage

\* Indexes and log that stay keep agreeing.
LEMMA IndexesNext ==
    ASSUME VersionsIndexed, ManifestsIndexed, UNCHANGED <<records, versionIndex, manifestIndex>>
    PROVE  VersionsIndexed' /\ ManifestsIndexed'
BY DEF VersionsIndexed, ManifestsIndexed, PublicationsOf, VersionKey, ManifestKey

\* A dropped block leaves the committed lineage.
LEMMA LineageDiscard ==
    ASSUME TypeOK, LineageInv, Discard, UNCHANGED committed
    PROVE  LineageInv'
<1>1. UNCHANGED <<records, caState, versionIndex, manifestIndex>>
  BY DEF committed
<1>2. Log' = records /\ CaMap' = caState
  <2>1. Log' = records
    BY <1>1 DEF Discard, Log, TypeOK
  <2>2. CaMap' = caState
    BY <1>1 DEF Discard, EmptyMap, CaMap, CaView, TypeOK
  <2> QED
    BY <2>1, <2>2
<1>3. Lineage(records, caState)' /\ Lineage(Log, CaMap)'
  BY <1>1, <1>2, StagedNext, CommittedNext DEF LineageInv
<1>4. phase' = "idle" /\ accepted' = <<>> /\ caUpdates' = EmptyMap
  BY DEF Discard
<1>5. VersionsIndexed' /\ ManifestsIndexed'
  BY <1>1, IndexesNext DEF LineageInv
<1> QED
  BY <1>3, <1>4, <1>5 DEF LineageInv, EmptyMap

\* A step that adds no record and changes no CA keeps the lineage.
LEMMA LineageSame ==
    ASSUME LineageInv, UNCHANGED committed, UNCHANGED <<accepted, caUpdates>>,
           phase' # "idle", phase' = "prepared" => ~DuplicateKey
    PROVE  LineageInv'
<1>1. UNCHANGED <<records, caState, versionIndex, manifestIndex>>
  BY DEF committed
<1>2. UNCHANGED <<Log, CaMap>>
  BY <1>1 DEF Log, CaMap, CaView
<1>3. Lineage(records, caState)' /\ Lineage(Log, CaMap)'
  BY <1>1, <1>2, StagedNext, CommittedNext DEF LineageInv
<1>4. VersionsIndexed' /\ ManifestsIndexed'
  BY <1>1, IndexesNext DEF LineageInv
<1>5. phase' = "prepared" => ~DuplicateKey'
  BY DEF DuplicateKey, Publications, VersionKey, ManifestKey
<1> QED
  BY <1>3, <1>4, <1>5 DEF LineageInv

\* An admission adds its record and its CA state.
LEMMA LineageAccept ==
    ASSUME TypeOK, LineageInv, NEW id \in TxIds, Tells(id), Accepts(id)
    PROVE  LineageInv'
<1> DEFINE c == Tx[id].ca
<1>1. PICK m \in CaStates, r \in HistoryRecords, created \in BOOLEAN :
          /\ Accept(id, m, r, created) /\ r.ca = c /\ Moved(CaView(c), m, r)
  BY DEF Tells
<1>2. /\ phase' = "executing" /\ UNCHANGED committed
      /\ accepted' = Append(accepted, r) /\ caUpdates' = Put(caUpdates, c, m)
  BY <1>1 DEF Accepts, Admits, Executes, Accept, Answer
<1>3. UNCHANGED <<records, caState, versionIndex, manifestIndex>>
  BY <1>2 DEF committed
<1>4. c \in CAs
  BY TxType
<1>5. CaMap' = [CaMap EXCEPT ![c] = m] /\ CaMap \in CaMaps /\ CaMap[c] = CaView(c)
  BY <1>2, <1>3, <1>4, StagedCa, MapsType
<1>6. Log' = Append(Log, r) /\ Log \in Seq(HistoryRecords)
  <2>1. records \in Seq(HistoryRecords) /\ accepted \in Seq(HistoryRecords)
    BY DEF TypeOK
  <2> QED
    BY <1>2, <1>3, <2>1, LogType DEF Log
<1> HIDE DEF c
<1>7. Lineage(Append(Log, r), [CaMap EXCEPT ![c] = m])
  BY <1>1, <1>5, <1>6, LineageGrows DEF LineageInv
<1>8. Lineage(Log, CaMap)'
  BY <1>5, <1>6, <1>7, StagedNext
<1>9. Lineage(records, caState)'
  BY <1>3, CommittedNext DEF LineageInv
<1>10. VersionsIndexed' /\ ManifestsIndexed'
  BY <1>3, IndexesNext DEF LineageInv
<1> QED
  BY <1>2, <1>8, <1>9, <1>10 DEF LineageInv

\* Where the records of the log come from.
LEMMA LogParts ==
    ASSUME TypeOK
    PROVE  /\ Len(records) \in Nat /\ Len(accepted) \in Nat
           /\ DOMAIN accepted = 1..Len(accepted)
           /\ \A i \in 1..Len(records) : i \in 1..Len(Log) /\ Log[i] = records[i]
           /\ \A p \in 1..Len(accepted) :
                 /\ Len(records) + p \in 1..Len(Log)
                 /\ Log[Len(records) + p] = accepted[p]
           /\ \A i \in 1..Len(Log) :
                 i \in 1..Len(records) \/ \E p \in 1..Len(accepted) : i = Len(records) + p
<1>1. records \in Seq(HistoryRecords) /\ accepted \in Seq(HistoryRecords)
  BY DEF TypeOK
<1>2. /\ Len(records) \in Nat /\ Len(accepted) \in Nat
      /\ DOMAIN accepted = 1..Len(accepted)
      /\ Len(Log) = Len(records) + Len(accepted)
  BY <1>1, LogType
<1>3. \A i \in 1..Len(records) : Log[i] = records[i]
  BY <1>1 DEF Log
<1>4. \A p \in 1..Len(accepted) : Log[Len(records) + p] = accepted[p]
  BY <1>1 DEF Log
<1>5. \A i \in 1..Len(Log) :
          i \in 1..Len(records) \/ \E p \in 1..Len(accepted) : i = Len(records) + p
  <2> SUFFICES ASSUME NEW i \in 1..Len(Log), i \notin 1..Len(records)
               PROVE  \E p \in 1..Len(accepted) : i = Len(records) + p
    OBVIOUS
  <2>1. i - Len(records) \in 1..Len(accepted) /\ i = Len(records) + (i - Len(records))
    BY <1>2
  <2> QED
    BY <2>1
<1> QED
  BY <1>2, <1>3, <1>4, <1>5

\* No two records of a log share a version key.
LEMMA DistinctVersions ==
    ASSUME NEW L \in Seq(HistoryRecords), Versioned(L),
           NEW i \in 1..Len(L), NEW j \in 1..Len(L), VersionKey(L[i]) = VersionKey(L[j])
    PROVE  i = j
<1>1. L[i].ca = L[j].ca /\ L[i].version = L[j].version
  BY DEF VersionKey
<1>2. L[i].version \in Nat /\ Len(L) \in Nat
  BY LogFields
<1>3. ~(i < j) /\ ~(j < i)
  BY <1>1, <1>2 DEF Versioned
<1> QED
  BY <1>2, <1>3

\* A commit enters the versions of its records.
LEMMA VersionsCommit ==
    ASSUME TypeOK, LineageInv, global.length = Len(records), Commit
    PROVE  VersionsIndexed'
<1>1. records' = Log /\ versionIndex' = Over(versionIndex, VersionWrites)
  BY DEF Commit, Log
<1>2. Log \in Seq(HistoryRecords) /\ Versioned(Log) /\ VersionsIndexed
  BY LogType DEF LineageInv, Lineage
<1>3. \A i, j \in 1..Len(Log) : VersionKey(Log[i]) = VersionKey(Log[j]) => i = j
  BY <1>2, DistinctVersions
<1> DEFINE W == VersionWrites  X == Over(versionIndex, W)
<1>4. /\ DOMAIN W = {VersionKey(accepted[i]) : i \in DOMAIN accepted}
      /\ \A k \in DOMAIN W :
            W[k] = global.length + (CHOOSE i \in DOMAIN accepted : VersionKey(accepted[i]) = k) - 1
  BY DEF VersionWrites, IndexOf
<1> HIDE DEF W
<1>5. /\ DOMAIN X = DOMAIN versionIndex \cup DOMAIN W
      /\ \A k \in DOMAIN X : X[k] = IF k \in DOMAIN W THEN W[k] ELSE versionIndex[k]
  BY DEF Over
<1> HIDE DEF X
<1>6. ASSUME NEW i \in 1..Len(Log)
      PROVE  VersionKey(Log[i]) \in DOMAIN X /\ X[VersionKey(Log[i])] = i - 1
  <2> DEFINE k == VersionKey(Log[i])
  <2>1. CASE i \in 1..Len(records)
    <3>1. Log[i] = records[i] /\ k \in DOMAIN versionIndex /\ versionIndex[k] = i - 1
      BY <1>2, <2>1, LogParts DEF VersionsIndexed
    <3>2. k \notin DOMAIN W
      <4> SUFFICES ASSUME NEW p \in DOMAIN accepted, VersionKey(accepted[p]) = k PROVE FALSE
        BY <1>4
      <4>1. /\ Len(records) + p \in 1..Len(Log) /\ Log[Len(records) + p] = accepted[p]
            /\ p \in 1..Len(accepted) /\ Len(records) \in Nat /\ Len(accepted) \in Nat
        BY LogParts
      <4>2. Len(records) + p = i
        BY <1>3, <4>1
      <4> QED
        BY <2>1, <4>1, <4>2
    <3> QED
      BY <1>5, <3>1, <3>2
  <2>2. ASSUME NEW p \in 1..Len(accepted), i = Len(records) + p
        PROVE  k \in DOMAIN X /\ X[k] = i - 1
    <3>1. Log[i] = accepted[p] /\ p \in DOMAIN accepted
      BY <2>2, LogParts
    <3>2. k \in DOMAIN W
      BY <1>4, <3>1
    <3>3. \A q \in DOMAIN accepted : VersionKey(accepted[q]) = k => q = p
      <4> SUFFICES ASSUME NEW q \in DOMAIN accepted, VersionKey(accepted[q]) = k PROVE q = p
        OBVIOUS
      <4>1. /\ Len(records) + q \in 1..Len(Log) /\ Log[Len(records) + q] = accepted[q]
            /\ q \in 1..Len(accepted) /\ Len(records) \in Nat /\ Len(accepted) \in Nat
        BY LogParts
      <4>2. Len(records) + q = i
        BY <1>3, <4>1
      <4> QED
        BY <2>2, <4>1, <4>2
    <3> DEFINE w == CHOOSE q \in DOMAIN accepted : VersionKey(accepted[q]) = k
    <3>4. w = p
      BY <3>1, <3>3
    <3>5. W[k] = global.length + w - 1
      BY <1>4, <3>2
    <3>6. X[k] = W[k] /\ k \in DOMAIN X
      BY <1>5, <3>2
    <3> HIDE DEF k, w
    <3> QED
      BY <2>2, <3>4, <3>5, <3>6, LogParts
  <2> QED
    BY <2>1, <2>2, LogParts
<1>7. records' = Log /\ versionIndex' = X
  BY <1>1 DEF X, W
<1> QED
  BY <1>6, <1>7 DEF VersionsIndexed, VersionKey

\* A commit points each manifest it publishes to its one publication in the block.
LEMMA ManifestsCommit ==
    ASSUME TypeOK, LineageInv, global.length = Len(records), Commit
    PROVE  ManifestsIndexed'
<1>1. records' = Log /\ manifestIndex' = Over(manifestIndex, ManifestWrites)
  BY DEF Commit, Log
<1>2. ManifestsIndexed /\ ~DuplicateKey
  BY DEF LineageInv, Commit
<1> DEFINE W == ManifestWrites  X == Over(manifestIndex, W)  n == Len(records)
<1>3. /\ DOMAIN W = {ManifestKey(accepted[i]) : i \in Publications(accepted)}
      /\ \A k \in DOMAIN W :
            W[k] = global.length
                   + (CHOOSE i \in Publications(accepted) : ManifestKey(accepted[i]) = k) - 1
  BY DEF ManifestWrites, IndexOf
<1> HIDE DEF W
<1>4. /\ DOMAIN X = DOMAIN manifestIndex \cup DOMAIN W
      /\ \A k \in DOMAIN X : X[k] = IF k \in DOMAIN W THEN W[k] ELSE manifestIndex[k]
  BY DEF Over
<1> HIDE DEF X
<1>5. /\ n \in Nat /\ Len(accepted) \in Nat /\ DOMAIN accepted = 1..Len(accepted)
      /\ \A i \in 1..n : i \in 1..Len(Log) /\ Log[i] = records[i]
      /\ \A p \in 1..Len(accepted) : n + p \in 1..Len(Log) /\ Log[n + p] = accepted[p]
      /\ \A i \in 1..Len(Log) : i \in 1..n \/ \E p \in 1..Len(accepted) : i = n + p
  BY LogParts
<1> HIDE DEF n
<1>6. \A p \in 1..Len(accepted) :
          accepted[p].event = "Publish" <=> p \in Publications(accepted)
  BY <1>5 DEF Publications
<1>7. ASSUME NEW i \in 1..Len(Log), Log[i].event = "Publish"
      PROVE  ManifestKey(Log[i]) \in DOMAIN X
  <2>1. CASE i \in 1..n
    BY <1>2, <1>4, <1>5, <1>7, <2>1 DEF ManifestsIndexed, n
  <2>2. ASSUME NEW p \in 1..Len(accepted), i = n + p PROVE ManifestKey(Log[i]) \in DOMAIN X
    BY <1>3, <1>4, <1>5, <1>6, <1>7, <2>2
  <2> QED
    BY <1>5, <2>1, <2>2
<1>8. ASSUME NEW k \in DOMAIN X
      PROVE  /\ X[k] + 1 \in PublicationsOf(Log, k)
             /\ \A i \in PublicationsOf(Log, k) : i <= X[k] + 1
  <2>1. CASE k \in DOMAIN W
    <3>1. PICK p \in Publications(accepted) : ManifestKey(accepted[p]) = k
      BY <1>3, <2>1
    <3>2. p \in 1..Len(accepted) /\ accepted[p].event = "Publish"
      BY <1>5, <3>1 DEF Publications
    <3>3. \A q \in Publications(accepted) : ManifestKey(accepted[q]) = k => q = p
      BY <1>2, <3>1 DEF DuplicateKey
    <3> DEFINE w == CHOOSE q \in Publications(accepted) : ManifestKey(accepted[q]) = k
    <3>4. w = p
      BY <3>1, <3>3
    <3>5. W[k] = global.length + w - 1
      BY <1>3, <2>1
    <3>6. X[k] + 1 = n + p
      <4>1. X[k] = W[k] /\ global.length = n
        BY <1>4, <2>1 DEF n
      <4> HIDE DEF w
      <4> QED
        BY <1>5, <3>2, <3>4, <3>5, <4>1
    <3>7. n + p \in PublicationsOf(Log, k)
      BY <1>5, <3>1, <3>2 DEF PublicationsOf
    <3>8. ASSUME NEW i \in PublicationsOf(Log, k) PROVE i <= n + p
      <4>1. i \in 1..Len(Log) /\ Log[i].event = "Publish" /\ ManifestKey(Log[i]) = k
        BY DEF PublicationsOf
      <4>2. CASE i \in 1..n
        BY <1>5, <3>2, <4>2
      <4>3. ASSUME NEW q \in 1..Len(accepted), i = n + q PROVE i <= n + p
        <5>1. q = p
          BY <1>5, <1>6, <3>3, <4>1, <4>3
        <5> QED
          BY <1>5, <4>3, <5>1
      <4> QED
        BY <1>5, <4>1, <4>2, <4>3
    <3> QED
      BY <3>6, <3>7, <3>8
  <2>2. CASE k \notin DOMAIN W
    <3>1. k \in DOMAIN manifestIndex /\ X[k] = manifestIndex[k]
      BY <1>4, <2>2
    <3>2. PublicationsOf(Log, k) = PublicationsOf(records, k)
      <4>1. ASSUME NEW i \in PublicationsOf(records, k) PROVE i \in PublicationsOf(Log, k)
        BY <1>5 DEF PublicationsOf, n
      <4>2. ASSUME NEW i \in PublicationsOf(Log, k) PROVE i \in PublicationsOf(records, k)
        <5>1. i \in 1..Len(Log) /\ Log[i].event = "Publish" /\ ManifestKey(Log[i]) = k
          BY DEF PublicationsOf
        <5>2. ~\E p \in 1..Len(accepted) : i = n + p
          BY <1>3, <1>5, <1>6, <2>2, <5>1
        <5> QED
          BY <1>5, <5>1, <5>2 DEF PublicationsOf, n
      <4> QED
        BY <4>1, <4>2
    <3> QED
      BY <1>2, <3>1, <3>2 DEF ManifestsIndexed
  <2> QED
    BY <2>1, <2>2
<1>9. records' = Log /\ manifestIndex' = X
  BY <1>1 DEF X, W
<1> QED
  BY <1>7, <1>8, <1>9 DEF ManifestsIndexed, PublicationsOf, ManifestKey

\* A commit makes the staged lineage the committed one.
LEMMA LineageCommit ==
    ASSUME TypeOK, ExactlyOnce, LineageInv, Commit
    PROVE  LineageInv'
<1>1. records' = Log /\ caState' = CaMap
  BY CommittedView DEF Commit, Log
<1>2. phase' = "idle" /\ accepted' = <<>> /\ caUpdates' = EmptyMap /\ preauthUpdates' = EmptyMap
  BY DEF Commit, Discard
<1>3. Log' = Log /\ CaMap' = CaMap
  <2>1. TypeOK'
    BY CommitType
  <2>2. Log' = records'
    BY <1>2, <2>1 DEF Log, TypeOK
  <2>3. CaMap' = caState'
    BY <1>2, <2>1 DEF EmptyMap, CaMap, CaView, TypeOK
  <2> QED
    BY <1>1, <2>2, <2>3
<1>4. Lineage(records, caState)' /\ Lineage(Log, CaMap)'
  BY <1>1, <1>3, StagedNext, CommittedNext DEF LineageInv
<1>5. VersionsIndexed' /\ ManifestsIndexed'
  BY VersionsCommit, ManifestsCommit DEF ExactlyOnce
<1> QED
  BY <1>2, <1>4, <1>5 DEF LineageInv, EmptyMap

\* Every step preserves the lineage.
LEMMA LineageStep ==
    ASSUME TypeOK, ExactlyOnce, LineageInv, [Next]_vars
    PROVE  LineageInv'
<1>1. ASSUME NEW t \in 0..MaxTime, NEW n \in 0..MaxBlockTxs, BeginBlock(t, n)
      PROVE  LineageInv'
  BY <1>1, LineageSame DEF BeginBlock, overlay
<1>2. ASSUME NEW id \in TxIds, ExecuteTransaction(id) PROVE LineageInv'
  <2>1. CASE Replay(id) \/ Conflict(id)
    BY <2>1, LineageSame DEF Replay, Conflict, Executes, Answer, overlay
  <2>2. CASE Reject(id)
    BY <2>2, LineageSame DEF Reject, Executes, Answer
  <2>3. CASE RefuseMalformed(id)
    BY <2>3, DroppedForm, LineageDiscard
  <2>4. CASE \/ Publish(id) \/ Enable(id) \/ Disable(id)
             \/ Cancel(id) \/ Rollover(id) \/ Terminate(id)
    <3>1. Tells(id) /\ Accepts(id)
      BY <2>4, AcceptTells, PublishAccepts, EnableAccepts, DisableAccepts,
         CancelAccepts, RolloverAccepts, TerminateAccepts
    <3> QED
      BY <3>1, LineageAccept
  <2> QED
    BY <1>2, <2>1, <2>2, <2>3, <2>4 DEF ExecuteTransaction
<1>3. CASE Prepare
  BY <1>3, LineageSame DEF Prepare, staged, overlay
<1>4. CASE RefuseBatch \/ Abandon
  BY <1>4, LineageDiscard DEF RefuseBatch, Abandon
<1>5. CASE Commit
  BY <1>5, LineageCommit
<1>6. CASE AtBound \/ UNCHANGED vars
  <2>1. UNCHANGED vars
    BY <1>6 DEF AtBound
  <2>2. UNCHANGED <<Log, CaMap, records, caState, versionIndex, manifestIndex>>
    BY <2>1 DEF vars, committed, staged, overlay, Log, CaMap, CaView
  <2>3. Lineage(records, caState)' /\ Lineage(Log, CaMap)'
    BY <2>2, StagedNext, CommittedNext DEF LineageInv
  <2>4. VersionsIndexed' /\ ManifestsIndexed'
    BY <2>2, IndexesNext DEF LineageInv
  <2> QED
    BY <2>1, <2>3, <2>4 DEF LineageInv, DuplicateKey, Publications, VersionKey, ManifestKey,
       EmptyMap, vars, committed, staged, overlay
<1> QED
  BY <1>1, <1>2, <1>3, <1>4, <1>5, <1>6 DEF Next

\* The empty store tells an empty story.
LEMMA LineageInit == ASSUME Init PROVE LineageInv
<1>1. CaMap = caState /\ Log = records /\ records = <<>>
  BY InitType, NothingStaged, LogType DEF Init
<1>2. 1..Len(records) = {}
  BY <1>1
<1>3. \A c : Of(records, c) = {}
  BY <1>2 DEF Of
<1>4. Lineage(records, caState)
  <2>1. \A c \in CAs : Story(records, c, caState[c])
    BY <1>3 DEF Init, Story
  <2> QED
    BY <1>2, <2>1 DEF Lineage, Versioned, Undone, Republished, PublicationsNamed
<1>5. VersionsIndexed /\ ManifestsIndexed
  BY <1>2 DEF Init, EmptyMap, VersionsIndexed, ManifestsIndexed
<1> QED
  BY <1>1, <1>4, <1>5 DEF LineageInv, Init

\* The history, the CA states and the indexes always tell the same lineage.
THEOREM LineageHolds == Spec => [](TypeOK /\ LineageInv)
<1>1. Init => TypeOK /\ ExactlyOnce /\ LineageInv
  BY InitType, ExactlyOnceInit, LineageInit
<1>2. TypeOK /\ ExactlyOnce /\ LineageInv /\ [Next]_vars => (TypeOK /\ ExactlyOnce /\ LineageInv)'
  BY StepType, ExactlyOnceStep, LineageStep
<1> QED
  BY <1>1, <1>2, PTL DEF Spec

-----------------------------------------------------------------------------
(* The properties of lineage *)

\* The terms of the properties.
LEMMA Terms ==
    ASSUME TypeOK
    PROVE  /\ DOMAIN Log = 1..Len(Log) /\ DOMAIN records = 1..Len(records)
           /\ DOMAIN accepted = 1..Len(accepted)
           /\ Len(Log) \in Nat /\ Len(records) \in Nat /\ Len(accepted) \in Nat
           /\ \A c : RecordsOf(c) = Of(Log, c)
           /\ \A c \in CAs : CaMap[c] = CaView(c) /\ CaView(c) \in CaStates \cup {None}
<1>1. Log \in Seq(HistoryRecords) /\ records \in Seq(HistoryRecords)
      /\ accepted \in Seq(HistoryRecords)
  BY LogType DEF TypeOK
<1>2. DOMAIN Log = 1..Len(Log) /\ Len(Log) \in Nat
  BY <1>1
<1>3. \A c : RecordsOf(c) = Of(Log, c)
  BY <1>2 DEF RecordsOf, Of
<1> QED
  BY <1>1, <1>2, <1>3, MapsType, ViewType

\* The greatest element of a set of integers that has one.
LEMMA Greatest ==
    ASSUME NEW S, S \subseteq Int, NEW i \in S, \A j \in S : j <= i
    PROVE  Latest(S) = i
<1>1. \A k \in S : (\A j \in S : j <= k) => k = i
  OBVIOUS
<1> QED
  BY <1>1 DEF Latest

\* The records of a CA always carry the versions 1, 2, ... in history order, the
\* CA state has the last of them, and the version index finds each of them.
THEOREM HistoryAlwaysIndexed == Spec => []HistoryIndexed
<1>1. TypeOK /\ LineageInv => HistoryIndexed
  <2> SUFFICES ASSUME TypeOK, LineageInv PROVE HistoryIndexed
    OBVIOUS
  <2>1. ASSUME NEW i \in DOMAIN Log
        PROVE  Log[i].version = Cardinality({j \in RecordsOf(Log[i].ca) : j <= i})
    <3>1. Log[i].version = Cardinality({j \in Of(Log, Log[i].ca) : j <= i})
      BY Terms DEF LineageInv, Lineage, Versioned
    <3>2. RecordsOf(Log[i].ca) = Of(Log, Log[i].ca)
      BY Terms
    <3> QED
      BY <3>1, <3>2
  <2>2. ASSUME NEW c \in CAs
        PROVE  IF Live(c) THEN CaView(c).last_version = Cardinality(RecordsOf(c))
                          ELSE RecordsOf(c) = {}
    BY Terms DEF LineageInv, Lineage, Story, Counted, Live
  <2>3. ASSUME NEW i \in DOMAIN records
        PROVE  LET k == VersionKey(records[i]) IN
               k \in DOMAIN versionIndex /\ versionIndex[k] = i - 1
    BY Terms DEF LineageInv, VersionsIndexed
  <2> QED
    BY <2>1, <2>2, <2>3 DEF HistoryIndexed
<1> QED
  BY <1>1, LineageHolds, PTL

\* The effective manifest of a CA is always the one its history says, and the
\* effective and the predecessor manifest were published by this CA in the
\* transactions its state names, in the order of their numbers.
THEOREM LineageAlwaysAuthentic == Spec => []LineageAuthentic
<1>1. TypeOK /\ LineageInv => LineageAuthentic
  <2> SUFFICES ASSUME TypeOK, LineageInv, NEW c \in CAs, Live(c)
               PROVE  LET s == CaView(c)
                          moves == {i \in RecordsOf(c) : Log[i].event \in {"Publish", "Cancel"}}
                          last == Log[Latest(moves)]
                      IN
                      /\ ManifestOf(s.effective) =
                             IF moves = {} THEN None
                             ELSE IF last.event = "Publish" THEN last.manifest ELSE last.previous
                      /\ \A m \in {s.effective, s.predecessor} \ {None} :
                             \E i \in RecordsOf(c) :
                                 /\ Log[i].event = "Publish" /\ Log[i].manifest = m.manifest
                                 /\ Log[i].authorization = m.intent
                      /\ s.predecessor # None =>
                             /\ s.effective # None
                             /\ NumberOf[s.predecessor.manifest] < NumberOf[s.effective.manifest]
    BY DEF LineageAuthentic
  <2> DEFINE s == CaView(c)
             moves == {i \in RecordsOf(c) : Log[i].event \in {"Publish", "Cancel"}}
             last == Log[Latest(moves)]
  <2>1. /\ s \in CaStates /\ RecordsOf(c) = Of(Log, c)
        /\ EffectiveTold(Log, c, s) /\ Backed(Log, c, s) /\ Ascending(s)
    BY Terms DEF LineageInv, Lineage, Story, Live
  <2>2. moves = Moves(Log, c) /\ moves \subseteq Int
    BY <2>1 DEF Moves, Of
  <2> HIDE DEF s, moves
  <2>3. ManifestOf(s.effective) =
            IF moves = {} THEN None
            ELSE IF last.event = "Publish" THEN last.manifest ELSE last.previous
    <3>1. CASE moves = {}
      BY <2>1, <2>2, <3>1 DEF EffectiveTold, ManifestOf
    <3>2. CASE moves # {}
      <4>1. PICK i \in moves : /\ \A j \in moves : j <= i
                               /\ ManifestOf(s.effective) = Leaves(Log[i])
        BY <2>1, <2>2, <3>2 DEF EffectiveTold
      <4>2. Latest(moves) = i
        BY <2>2, <4>1, Greatest
      <4> QED
        BY <3>2, <4>1, <4>2 DEF Leaves
    <3> QED
      BY <3>1, <3>2
  <2>4. \A m \in {s.effective, s.predecessor} \ {None} :
            \E i \in RecordsOf(c) :
                /\ Log[i].event = "Publish" /\ Log[i].manifest = m.manifest
                /\ Log[i].authorization = m.intent
    BY <2>1 DEF Backed, PublishedBy
  <2>5. s.predecessor # None =>
            /\ s.effective # None
            /\ NumberOf[s.predecessor.manifest] < NumberOf[s.effective.manifest]
    BY <2>1 DEF Ascending
  <2> QED
    BY <2>3, <2>4, <2>5 DEF s, moves
<1> QED
  BY <1>1, LineageHolds, PTL

\* A cancellation always undoes exactly the publication recorded just before it.
THEOREM CancellationsUndo == Spec => []CancelUndoesPublish
<1>1. TypeOK /\ LineageInv => CancelUndoesPublish
  <2> SUFFICES ASSUME TypeOK, LineageInv, NEW i \in DOMAIN Log, Log[i].event = "Cancel"
               PROVE  \E j \in RecordsOf(Log[i].ca) :
                          /\ Log[j].version = Log[i].version - 1
                          /\ Log[j].event = "Publish"
                          /\ Log[j].manifest = Log[i].manifest
                          /\ Log[j].previous = Log[i].previous
    BY DEF CancelUndoesPublish
  <2>1. RecordsOf(Log[i].ca) = Of(Log, Log[i].ca) /\ i \in 1..Len(Log)
    BY Terms
  <2> QED
    BY <2>1 DEF LineageInv, Lineage, Undone
<1> QED
  BY <1>1, LineageHolds, PTL

\* A block of canonical transactions fails in one case only: a CA publishes a
\* manifest, cancels it and publishes it again within the block.
THEOREM FailsOnlyByRepublication == Spec => []OnlyRepublicationFails
<1>1. TypeOK /\ LineageInv => OnlyRepublicationFails
  <2> SUFFICES ASSUME TypeOK, LineageInv PROVE OnlyRepublicationFails
    OBVIOUS
  <2>1. ASSUME NEW c \in DOMAIN caUpdates PROVE Sane(caUpdates[c])
    <3>1. c \in CAs /\ caUpdates[c] # None
      BY NoStateAssumption DEF TypeOK, IsMap
    <3>2. CaMap[c] = caUpdates[c]
      BY <3>1, MapsType DEF CaView
    <3> QED
      BY <3>1, <3>2 DEF LineageInv, Lineage, Story
  <2>2. ASSUME NEW i \in DOMAIN accepted, NEW j \in DOMAIN accepted,
               VersionKey(accepted[i]) = VersionKey(accepted[j])
        PROVE  i = j
    <3>1. Log \in Seq(HistoryRecords) /\ Versioned(Log)
      BY LogType DEF LineageInv, Lineage
    <3>2. /\ Len(records) + i \in 1..Len(Log) /\ Log[Len(records) + i] = accepted[i]
          /\ Len(records) + j \in 1..Len(Log) /\ Log[Len(records) + j] = accepted[j]
          /\ Len(records) \in Nat /\ i \in Int /\ j \in Int
      BY LogParts
    <3>3. Len(records) + i = Len(records) + j
      BY <2>2, <3>1, <3>2, DistinctVersions
    <3> QED
      BY <3>2, <3>3
  <2>3. ASSUME NEW i \in Publications(accepted), NEW j \in Publications(accepted),
               i < j, ManifestKey(accepted[i]) = ManifestKey(accepted[j])
        PROVE  \E l \in DOMAIN accepted :
                   /\ i < l /\ l < j
                   /\ accepted[l].event = "Cancel"
                   /\ ManifestKey(accepted[l]) = ManifestKey(accepted[i])
    <3> DEFINE n == Len(records)
    <3>1. /\ i \in 1..Len(accepted) /\ accepted[i].event = "Publish"
          /\ j \in 1..Len(accepted) /\ accepted[j].event = "Publish"
      BY Terms DEF Publications
    <3>2. /\ n + i \in 1..Len(Log) /\ Log[n + i] = accepted[i]
          /\ n + j \in 1..Len(Log) /\ Log[n + j] = accepted[j]
          /\ n \in Nat /\ Len(accepted) \in Nat /\ n + i < n + j
      BY <2>3, <3>1, LogParts
    <3>3. PICK k \in 1..Len(Log) : n + i < k /\ k < n + j /\ Cancels(Log, k, n + i)
      BY <2>3, <3>1, <3>2 DEF LineageInv, Lineage, Republished
    <3>4. k \notin 1..n
      BY <3>1, <3>2, <3>3
    <3>5. PICK l \in 1..Len(accepted) : k = n + l
      BY <3>3, <3>4, LogParts
    <3>6. Log[k] = accepted[l] /\ l \in DOMAIN accepted
      BY <3>5, LogParts
    <3>7. i < l /\ l < j
      BY <3>1, <3>2, <3>3, <3>5
    <3> QED
      BY <3>2, <3>3, <3>6, <3>7 DEF Cancels
  <2>4. DuplicateKey =>
            \E i, j \in Publications(accepted), l \in DOMAIN accepted :
                /\ i < l /\ l < j
                /\ ManifestKey(accepted[i]) = ManifestKey(accepted[j])
                /\ accepted[l].event = "Cancel"
                /\ ManifestKey(accepted[l]) = ManifestKey(accepted[i])
    <3> SUFFICES ASSUME DuplicateKey
                 PROVE  \E i, j \in Publications(accepted), l \in DOMAIN accepted :
                            /\ i < l /\ l < j
                            /\ ManifestKey(accepted[i]) = ManifestKey(accepted[j])
                            /\ accepted[l].event = "Cancel"
                            /\ ManifestKey(accepted[l]) = ManifestKey(accepted[i])
      OBVIOUS
    <3>1. PICK i, j \in Publications(accepted) :
              i # j /\ ManifestKey(accepted[i]) = ManifestKey(accepted[j])
      BY <2>2 DEF DuplicateKey
    <3>2. i \in Int /\ j \in Int
      BY Terms DEF Publications
    <3>3. CASE i < j
      BY <2>3, <3>1, <3>3
    <3>4. CASE j < i
      BY <2>3, <3>1, <3>4
    <3> QED
      BY <3>1, <3>2, <3>3, <3>4
  <2> QED
    BY <2>1, <2>4 DEF OnlyRepublicationFails, Sane
<1> QED
  BY <1>1, LineageHolds, PTL

\* The manifest index always resolves each published manifest of a CA to its last
\* publication in the committed history.
THEOREM ManifestIndexAlwaysCurrent == Spec => []ManifestIndexCurrent
<1>1. TypeOK /\ LineageInv => ManifestIndexCurrent
  <2> SUFFICES ASSUME TypeOK, LineageInv PROVE ManifestIndexCurrent
    OBVIOUS
  <2>1. /\ ManifestsIndexed
        /\ Publications(records) = {i \in 1..Len(records) : records[i].event = "Publish"}
    BY Terms DEF LineageInv, Publications
  <2>2. \A i \in Publications(records) : ManifestKey(records[i]) \in DOMAIN manifestIndex
    BY <2>1 DEF ManifestsIndexed
  <2>3. ASSUME NEW k \in DOMAIN manifestIndex
        PROVE  LET hits == {i \in Publications(records) : ManifestKey(records[i]) = k} IN
               hits # {} /\ manifestIndex[k] = Latest(hits) - 1
    <3> DEFINE hits == {i \in Publications(records) : ManifestKey(records[i]) = k}
    <3>1. hits = PublicationsOf(records, k) /\ hits \subseteq Int
      BY <2>1 DEF PublicationsOf
    <3> HIDE DEF hits
    <3>2. manifestIndex[k] + 1 \in hits /\ \A i \in hits : i <= manifestIndex[k] + 1
      BY <2>1, <3>1 DEF ManifestsIndexed
    <3>3. Latest(hits) = manifestIndex[k] + 1
      BY <3>1, <3>2, Greatest
    <3>4. manifestIndex[k] \in Nat
      BY DEF TypeOK, IsMap
    <3>5. hits # {} /\ manifestIndex[k] = Latest(hits) - 1
      BY <3>2, <3>3, <3>4
    <3> QED
      BY <3>5 DEF hits
  <2> QED
    BY <2>2, <2>3 DEF ManifestIndexCurrent
<1> QED
  BY <1>1, LineageHolds, PTL
=============================================================================
