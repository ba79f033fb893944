------------------------ MODULE LanternState_proofs ------------------------
(***************************************************************************)
(* Proofs about LanternState, for every value of its constants.            *)
(***************************************************************************)
EXTENDS LanternState, TLAPS

-----------------------------------------------------------------------------
(* Partial functions *)

\* Writing a well-typed value at a legal key keeps a partial function well typed.
LEMMA PutType ==
    ASSUME NEW D, NEW R, NEW f, IsMap(f, D, R), NEW k \in D, NEW v \in R
    PROVE  IsMap(Put(f, k, v), D, R)
BY DEF IsMap, Put

\* Writing one partial function over another keeps both the keys and the values legal.
LEMMA OverType ==
    ASSUME NEW D, NEW R, NEW f, NEW g, IsMap(f, D, R), IsMap(g, D, R)
    PROVE  IsMap(Over(f, g), D, R)
BY DEF IsMap, Over

\* Writing a partial function over a total one leaves it total.
LEMMA OverTotalType ==
    ASSUME NEW D, NEW R, NEW f \in [D -> R], NEW g, IsMap(g, D, R)
    PROVE  Over(f, g) \in [D -> R]
BY DEF IsMap, Over

\* The empty partial function is a partial function of every type.
LEMMA EmptyType == ASSUME NEW D, NEW R PROVE IsMap(EmptyMap, D, R)
BY DEF IsMap, EmptyMap

-----------------------------------------------------------------------------
(* Types of the operators *)

\* Epoch arithmetic stays in the naturals.
LEMMA EpochType ==
    ASSUME TypeOK, NEW t \in Nat
    PROVE  /\ EpochAt(t) \in Nat /\ Due(t) \in Nat /\ CloseCount(t) \in Nat
           /\ CloseCount(t) <= Due(t)
           /\ CloseCount(t) > 0 => global.open + CloseCount(t) <= EpochAt(t)
<1>1. EpochAt(t) \in Nat
  BY EpochAssumption DEF EpochAt
<1>2. global.open \in Nat
  BY DEF TypeOK, Persistents
<1>3. Due(t) \in Nat
  BY <1>1, <1>2 DEF Due
<1>4. MaxEpochCatchup \in Nat
  BY EpochAssumption
<1> QED
  BY <1>1, <1>2, <1>3, <1>4 DEF CloseCount, Due

\* A head the closing loop builds is a head.
LEMMA ClosingHeadType ==
    ASSUME TypeOK, NEW t \in Nat, NEW i \in 1..CloseCount(t)
    PROVE  ClosingHead(t, i) \in Heads
<1>1. CloseCount(t) \in Nat
  BY EpochType
<1>2. global \in Persistents
  BY DEF TypeOK
<1>3. /\ global.open + i - 1 \in Nat
      /\ i # 1 => global.open + i - 1 - 1 \in Nat
  BY <1>1, <1>2 DEF Persistents
<1>4. <<>> \in Seq(TxIds)
  OBVIOUS
<1> QED
  BY SMTT(30), <1>2, <1>3, <1>4 DEF ClosingHead, Heads, Persistents

\* The state a block opens with is a persistent state.
LEMMA OpenedType ==
    ASSUME TypeOK, NEW t \in Nat
    PROVE  Opened(t) \in Persistents
<1>1. CloseCount(t) \in Nat
  BY EpochType
<1>2. global \in Persistents
  BY DEF TypeOK
<1>3. <<>> \in Seq(TxIds)
  OBVIOUS
<1>4. CloseCount(t) # 0 => global.open + CloseCount(t) - 1 \in Nat
  BY <1>1, <1>2 DEF Persistents
<1>5. CASE CloseCount(t) = 0
  <2>1. Opened(t) = [global EXCEPT !.height = @ + 1, !.time = t]
    BY <1>5 DEF Opened
  <2>2. global.height + 1 \in Nat
    BY <1>2 DEF Persistents
  <2> QED
    BY <2>1, <2>2, <1>2 DEF Persistents
<1>6. CASE CloseCount(t) # 0
  <2> DEFINE n == CloseCount(t)
  <2>1. Opened(t) = [global EXCEPT !.height = @ + 1, !.time = t, !.open = @ + n,
                                   !.last_closed = global.open + n - 1,
                                   !.bundle = <<>>, !.admitted = 0]
    BY <1>6 DEF Opened
  <2>2. global.height + 1 \in Nat /\ global.open + n \in Nat /\ 0 \in Nat
    BY <1>1, <1>2 DEF Persistents
  <2> HIDE DEF n
  <2> QED
    BY <2>1, <2>2, <1>2, <1>3, <1>4, <1>6 DEF Persistents, n
<1> QED
  BY <1>5, <1>6

\* The view of a CA is a CA state or nothing, that of its preauthorization likewise.
LEMMA ViewType ==
    ASSUME TypeOK, NEW c \in CAs
    PROVE  /\ CaView(c) \in CaStates \cup {None}
           /\ PreauthView(c) \in Preauthorizations \cup {None}
BY DEF TypeOK, CaView, PreauthView, IsMap

\* A transaction is of one of the two kinds, with the fields of its kind.
LEMMA TxType ==
    ASSUME NEW id \in TxIds
    PROVE  /\ Tx[id].ca \in CAs /\ Tx[id].nonce \in Nonces
           /\ Tx[id].kind = "Publication" => Tx[id] \in PublicationTx
           /\ Tx[id].kind = "Control" => Tx[id] \in ControlTx
           /\ Tx[id].kind \in {"Publication", "Control"}
BY TxAssumption DEF PublicationTx, ControlTx

\* The key of a transaction is a key of the idempotency map.
LEMMA NonceKeyType == ASSUME NEW id \in TxIds PROVE NonceKey(id) \in CAs \X Nonces
BY TxType DEF NonceKey

\* A control action has the fields of its operation.
LEMMA ActionType ==
    ASSUME NEW a \in ControlAction
    PROVE  /\ a.op \in {"Enable", "Disable", "Cancel", "Rollover", "Terminal"}
           /\ a.op = "Enable" => a.manifest \in Manifests /\ a.key \in Keys
           /\ a.op = "Cancel" => a.target \in Manifests /\ a.restore \in Manifests
           /\ a.op = "Rollover" => a.successor \in CAs /\ a.key \in Keys
BY DEF ControlAction

\* What the admission of a publication implies.
LEMMA AdmittedPublication ==
    ASSUME NEW id \in TxIds, Tx[id].kind = "Publication", Admits(id)
    PROVE  PublicationFits(Tx[id])
BY DEF Admits, Verdict

\* What the admission of a control event implies.
LEMMA AdmittedControl ==
    ASSUME NEW id \in TxIds, NEW op, AdmitsControl(id, op)
    PROVE  /\ Tx[id] \in ControlTx
           /\ Tx[id].action.op = op
           /\ Tx[id].action \in ControlAction
           /\ ControlApplies(Tx[id]) /\ InSequence(Tx[id]) /\ ActionFits(Tx[id])
           /\ CaView(Tx[id].ca) = None => op = "Enable"
           /\ CaView(Tx[id].ca) # None => CaView(Tx[id].ca).status # "Terminal"
<1>1. Tx[id] \in ControlTx /\ Tx[id].action.op = op
  BY TxType DEF AdmitsControl
<1>2. Tx[id].action \in ControlAction
  BY <1>1 DEF ControlTx
<1>3. ControlApplies(Tx[id]) /\ InSequence(Tx[id]) /\ ActionFits(Tx[id])
  BY DEF AdmitsControl, Admits, Verdict
<1> QED
  BY <1>1, <1>2, <1>3 DEF ControlApplies

\* The state an administrative event starts from is a CA state, under the same
\* key as before.
LEMMA AdministeredType ==
    ASSUME TypeOK, NEW id \in TxIds, NEW op \in Events, AdmitsControl(id, op)
    PROVE  /\ Administered(id, op) \in CaStates
           /\ CaView(Tx[id].ca) # None =>
                 Administered(id, op).admin_key = CaView(Tx[id].ca).admin_key
<1> DEFINE t == Tx[id]  s == CaView(Tx[id].ca)
<1>1. t \in ControlTx /\ t.action \in ControlAction /\ t.action.op = op
  BY AdmittedControl
<1>2. t.ca \in CAs /\ t.sequence \in Nat
  BY <1>1 DEF ControlTx
<1>3. s \in CaStates \cup {None}
  BY <1>2, ViewType
<1>4. next.open \in Nat
  BY DEF TypeOK, Persistents
<1>5. CASE s = None
  <2>1. op = "Enable"
    BY <1>5, AdmittedControl
  <2>2. VerificationKey(t) \in Keys
    BY <1>1, <1>5, <2>1, ActionType DEF VerificationKey
  <2> QED
    BY <1>2, <1>4, <1>5, <2>2 DEF Administered, CaStates
<1>6. CASE s # None
  <2>1. s \in CaStates
    BY <1>3, <1>6
  <2>2. s.last_version + 1 \in Nat
    BY <2>1 DEF CaStates
  <2>3. Administered(id, op) =
            [s EXCEPT !.admin_sequence = t.sequence, !.last_version = @ + 1,
                      !.latest_record = id, !.latest_event = op,
                      !.latest_epoch = next.open]
    BY <1>6 DEF Administered
  <2> HIDE DEF s, t
  <2>4. Administered(id, op) \in CaStates
    BY <1>2, <1>4, <2>1, <2>2, <2>3 DEF CaStates, t
  <2>5. Administered(id, op).admin_key = s.admin_key
    BY <2>1, <2>3 DEF CaStates
  <2> QED
    BY <2>4, <2>5 DEF s
<1> QED
  BY <1>5, <1>6

\* The results and the records an execution produces.
LEMMA ResultType ==
    ASSUME TypeOK, NEW id \in TxIds
    PROVE  /\ \A code \in Codes : Rejection(id, code) \in Results
           /\ \A v \in Nat : Admission(id, v) \in Results
           /\ \A v \in Nat, e \in Events, m, p \in Manifests \cup {None} :
                 Record(id, v, e, m, p) \in HistoryRecords
BY TxType DEF TypeOK, Persistents, Rejection, Admission, Record, Results, Codes, HistoryRecords

\* A verdict is one of the result codes.
LEMMA VerdictType == ASSUME NEW t PROVE Verdict(t) \in Codes
BY DEF Verdict, Codes

-----------------------------------------------------------------------------
(* Types are preserved by every action *)

\* Remembering a result keeps the staged idempotency map well typed.
LEMMA RememberType ==
    ASSUME TypeOK, NEW id \in TxIds, NEW r \in Results, Remember(id, r)
    PROVE  IsMap(idempotencyUpdates', CAs \X Nonces, Outcomes)
<1>1. [tx |-> id, result |-> r] \in Outcomes
  BY DEF Outcomes
<1> QED
  BY <1>1, NonceKeyType, PutType DEF Remember, TypeOK

\* Discarding the staged block leaves well-typed staging variables.
LEMMA DiscardType ==
    ASSUME Discard
    PROVE  /\ phase' \in {"idle", "executing", "prepared"} /\ todo' \in Nat
           /\ next' \in Persistents /\ closed' \in Seq(Heads)
           /\ IsMap(caUpdates', CAs, CaStates)
           /\ IsMap(preauthUpdates', CAs, Preauthorizations \cup {None})
           /\ IsMap(idempotencyUpdates', CAs \X Nonces, Outcomes)
           /\ accepted' \in Seq(HistoryRecords) /\ results' \in Seq(Results)
<1>1. NoBlock \in Persistents
  BY DEF NoBlock, Persistents
<1> QED
  BY <1>1, EmptyType DEF Discard

\* What every admitting action does: it accepts its transaction with a legal
\* record and a legal new state, of a CA that was not terminal and keeps its key.
Accepts(id) ==
    /\ Admits(id)
    /\ IsMap(preauthUpdates', CAs, Preauthorizations \cup {None})
    /\ \E s \in CaStates, r \in HistoryRecords, created \in BOOLEAN :
          /\ Accept(id, s, r, created)
          /\ r.authorization = id /\ r.epoch = next.open /\ r.ca = Tx[id].ca
          /\ created <=> (CaView(Tx[id].ca) = None)
          /\ CaView(Tx[id].ca) # None =>
                /\ CaView(Tx[id].ca).status # "Terminal"
                /\ s.admin_key = CaView(Tx[id].ca).admin_key

\* A publication is an acceptance.
LEMMA PublishAccepts == ASSUME TypeOK, NEW id \in TxIds, Publish(id) PROVE Accepts(id)
<1> DEFINE t == Tx[id]  s == CaView(Tx[id].ca)  v == s.last_version + 1
           p == [s EXCEPT !.predecessor = s.effective,
                          !.effective = [manifest |-> t.manifest, intent |-> id],
                          !.expected = None,
                          !.last_version = v, !.latest_record = id,
                          !.latest_event = "Publish", !.latest_epoch = next.open]
<1>1. t.kind = "Publication" /\ Admits(id)
  BY DEF Publish
<1>2. t \in PublicationTx
  BY <1>1, TxType
<1>3. t.ca \in CAs /\ t.manifest \in Manifests /\ t.previous \in Manifests \cup {None}
  BY <1>2 DEF PublicationTx
<1>4. s # None
  BY <1>1, AdmittedPublication DEF PublicationFits
<1>5. s \in CaStates
  BY <1>3, <1>4, ViewType
<1>6. v \in Nat /\ s.effective \in Installed \cup {None}
  BY <1>5 DEF CaStates
<1>7. [manifest |-> t.manifest, intent |-> id] \in Installed /\ next.open \in Nat
  BY <1>3 DEF Installed, TypeOK, Persistents
<1>8. p \in CaStates
  <2> HIDE DEF s, t, v
  <2> QED BY <1>5, <1>6, <1>7 DEF CaStates, Events
<1>9. Record(id, v, "Publish", t.manifest, t.previous) \in HistoryRecords
  BY <1>3, <1>6, ResultType DEF Events
<1>10. Accept(id, p, Record(id, v, "Publish", t.manifest, t.previous), FALSE)
  BY DEF Publish
<1>11. IsMap(preauthUpdates', CAs, Preauthorizations \cup {None})
  BY DEF Publish, TypeOK
<1>12. /\ Record(id, v, "Publish", t.manifest, t.previous).authorization = id
       /\ Record(id, v, "Publish", t.manifest, t.previous).epoch = next.open
       /\ Record(id, v, "Publish", t.manifest, t.previous).ca = t.ca
  BY DEF Record
<1>13. s.status # "Terminal" /\ p.admin_key = s.admin_key
  <2> HIDE DEF s, t, v
  <2> QED BY <1>1, <1>5, AdmittedPublication DEF PublicationFits, CaStates, s, t
<1> HIDE DEF p, v
<1> QED
  BY <1>1, <1>4, <1>8, <1>9, <1>10, <1>11, <1>12, <1>13 DEF Accepts

\* A registration or a re-enabling is an acceptance.
LEMMA EnableAccepts == ASSUME TypeOK, NEW id \in TxIds, Enable(id) PROVE Accepts(id)
<1> DEFINE t == Tx[id]  s == Administered(id, "Enable")
           p == [s EXCEPT !.status = "Enabled", !.admin_key = t.action.key,
                          !.expected = t.action.manifest, !.link = None]
           r == Record(id, s.last_version, "Enable", None, None)
<1>1. AdmitsControl(id, "Enable")
  BY DEF Enable
<1>2. t.action.manifest \in Manifests /\ t.action.key \in Keys
  BY <1>1, AdmittedControl, ActionType
<1>3. s \in CaStates
  BY <1>1, AdministeredType DEF Events
<1>4. p \in CaStates
  <2> HIDE DEF s, t
  <2> QED BY <1>2, <1>3 DEF CaStates, t
<1>5. r \in HistoryRecords
  <2>1. s.last_version \in Nat
    BY <1>3 DEF CaStates
  <2> QED BY <2>1, ResultType DEF Events
<1>6. IsMap(preauthUpdates', CAs, Preauthorizations \cup {None})
  BY PutType, TxType DEF Enable, TypeOK
<1>7. Accept(id, p, r, CaView(t.ca) = None)
  BY DEF Enable
<1>8. (CaView(t.ca) = None) \in BOOLEAN
  OBVIOUS
<1>9. r.authorization = id /\ r.epoch = next.open /\ r.ca = t.ca
  BY DEF Record
<1>10. CaView(t.ca) # None =>
          CaView(t.ca).status # "Terminal" /\ p.admin_key = CaView(t.ca).admin_key
  <2> HIDE DEF s, t
  <2>1. CaView(t.ca) # None => CaView(t.ca).admin_key = t.action.key
    BY <1>1, AdmittedControl DEF ControlApplies, t
  <2> QED
    BY <1>1, <1>3, <2>1, AdmittedControl DEF CaStates, t
<1> HIDE DEF p, r
<1> QED
  BY <1>1, <1>4, <1>5, <1>6, <1>7, <1>8, <1>9, <1>10 DEF AdmitsControl, Accepts

\* Disabling a CA is an acceptance.
LEMMA DisableAccepts == ASSUME TypeOK, NEW id \in TxIds, Disable(id) PROVE Accepts(id)
<1> DEFINE t == Tx[id]  s == Administered(id, "Disable")
           p == [s EXCEPT !.status = "Disabled", !.expected = None]
           r == Record(id, s.last_version, "Disable", None, None)
<1>1. AdmitsControl(id, "Disable")
  BY DEF Disable
<1>2. t \in ControlTx
  BY <1>1, AdmittedControl
<1>3. s \in CaStates
  BY <1>1, AdministeredType DEF Events
<1>4. p \in CaStates
  <2> HIDE DEF s, t
  <2> QED BY <1>2, <1>3 DEF CaStates, t
<1>5. r \in HistoryRecords
  <2>1. s.last_version \in Nat
    BY <1>3 DEF CaStates
  <2> QED BY <1>2, <2>1, ResultType DEF Events
<1>6. IsMap(preauthUpdates', CAs, Preauthorizations \cup {None})
  BY DEF Disable, TypeOK
<1>7. Accept(id, p, r, FALSE)
  BY DEF Disable
<1>8. r.authorization = id /\ r.epoch = next.open /\ r.ca = t.ca
  BY DEF Record
<1>9. CaView(t.ca) # None =>
          CaView(t.ca).status # "Terminal" /\ p.admin_key = CaView(t.ca).admin_key
  <2> HIDE DEF s, t
  <2>1. CaView(t.ca) # None => s.admin_key = CaView(t.ca).admin_key
    BY <1>1, AdministeredType DEF s, t, Events
  <2> QED
    BY <1>1, <1>3, <2>1, AdmittedControl DEF CaStates, t
<1>10. CaView(t.ca) # None
  BY <1>1, AdmittedControl
<1> HIDE DEF p, r
<1> QED
  BY <1>1, <1>4, <1>5, <1>6, <1>7, <1>8, <1>9, <1>10 DEF AdmitsControl, Accepts

\* A cancellation is an acceptance.
LEMMA CancelAccepts == ASSUME TypeOK, NEW id \in TxIds, Cancel(id) PROVE Accepts(id)
<1> DEFINE t == Tx[id]  s == Administered(id, "Cancel")
           p == [s EXCEPT !.effective = s.predecessor, !.predecessor = None]
           r == Record(id, s.last_version, "Cancel", t.action.target, t.action.restore)
<1>1. AdmitsControl(id, "Cancel")
  BY DEF Cancel
<1>2. t.action.target \in Manifests /\ t.action.restore \in Manifests
  BY <1>1, AdmittedControl, ActionType
<1>3. s \in CaStates
  BY <1>1, AdministeredType DEF Events
<1>4. p \in CaStates
  <2> HIDE DEF s, t
  <2> QED BY <1>2, <1>3 DEF CaStates, t
<1>5. r \in HistoryRecords
  <2>1. s.last_version \in Nat
    BY <1>3 DEF CaStates
  <2> QED BY <1>2, <2>1, ResultType DEF Events
<1>6. IsMap(preauthUpdates', CAs, Preauthorizations \cup {None})
  BY DEF Cancel, TypeOK
<1>7. Accept(id, p, r, FALSE)
  BY DEF Cancel
<1>8. r.authorization = id /\ r.epoch = next.open /\ r.ca = t.ca
  BY DEF Record
<1>9. CaView(t.ca) # None =>
          CaView(t.ca).status # "Terminal" /\ p.admin_key = CaView(t.ca).admin_key
  <2> HIDE DEF s, t
  <2>1. CaView(t.ca) # None => s.admin_key = CaView(t.ca).admin_key
    BY <1>1, AdministeredType DEF s, t, Events
  <2> QED
    BY <1>1, <1>3, <2>1, AdmittedControl DEF CaStates, t
<1>10. CaView(t.ca) # None
  BY <1>1, AdmittedControl
<1> HIDE DEF p, r
<1> QED
  BY <1>1, <1>4, <1>5, <1>6, <1>7, <1>8, <1>9, <1>10 DEF AdmitsControl, Accepts

\* A rollover is an acceptance.
LEMMA RolloverAccepts == ASSUME TypeOK, NEW id \in TxIds, Rollover(id) PROVE Accepts(id)
<1> DEFINE t == Tx[id]  s == Administered(id, "Rollover")
           p == [s EXCEPT !.status = "Terminal", !.expected = None, !.link = t.action.successor]
           r == Record(id, s.last_version, "Rollover", None, None)
<1>1. AdmitsControl(id, "Rollover")
  BY DEF Rollover
<1>2. t.action.successor \in CAs /\ t.action.key \in Keys /\ t.ca \in CAs
  BY <1>1, AdmittedControl, ActionType, TxType
<1>3. s \in CaStates
  BY <1>1, AdministeredType DEF Events
<1>4. p \in CaStates
  <2> HIDE DEF s, t
  <2> QED BY <1>2, <1>3 DEF CaStates, t
<1>5. r \in HistoryRecords
  <2>1. s.last_version \in Nat
    BY <1>3 DEF CaStates
  <2> QED BY <1>2, <2>1, ResultType DEF Events
<1>6. IsMap(preauthUpdates', CAs, Preauthorizations \cup {None})
  <2>1. [admin_key |-> t.action.key, predecessor |-> t.ca] \in Preauthorizations
    BY <1>2 DEF Preauthorizations
  <2> QED
    BY <1>2, <2>1, PutType DEF Rollover, TypeOK
<1>7. Accept(id, p, r, FALSE)
  BY DEF Rollover
<1>8. r.authorization = id /\ r.epoch = next.open /\ r.ca = t.ca
  BY DEF Record
<1>9. CaView(t.ca) # None =>
          CaView(t.ca).status # "Terminal" /\ p.admin_key = CaView(t.ca).admin_key
  <2> HIDE DEF s, t
  <2>1. CaView(t.ca) # None => s.admin_key = CaView(t.ca).admin_key
    BY <1>1, AdministeredType DEF s, t, Events
  <2> QED
    BY <1>1, <1>3, <2>1, AdmittedControl DEF CaStates, t
<1>10. CaView(t.ca) # None
  BY <1>1, AdmittedControl
<1> HIDE DEF p, r
<1> QED
  BY <1>1, <1>4, <1>5, <1>6, <1>7, <1>8, <1>9, <1>10 DEF AdmitsControl, Accepts

\* Terminating a CA is an acceptance.
LEMMA TerminateAccepts == ASSUME TypeOK, NEW id \in TxIds, Terminate(id) PROVE Accepts(id)
<1> DEFINE t == Tx[id]  s == Administered(id, "Terminal")
           p == [s EXCEPT !.status = "Terminal", !.expected = None, !.link = None]
           r == Record(id, s.last_version, "Terminal", None, None)
<1>1. AdmitsControl(id, "Terminal")
  BY DEF Terminate
<1>2. t \in ControlTx
  BY <1>1, AdmittedControl
<1>3. s \in CaStates
  BY <1>1, AdministeredType DEF Events
<1>4. p \in CaStates
  <2> HIDE DEF s, t
  <2> QED BY <1>2, <1>3 DEF CaStates, t
<1>5. r \in HistoryRecords
  <2>1. s.last_version \in Nat
    BY <1>3 DEF CaStates
  <2> QED BY <1>2, <2>1, ResultType DEF Events
<1>6. IsMap(preauthUpdates', CAs, Preauthorizations \cup {None})
  BY DEF Terminate, TypeOK
<1>7. Accept(id, p, r, FALSE)
  BY DEF Terminate
<1>8. r.authorization = id /\ r.epoch = next.open /\ r.ca = t.ca
  BY DEF Record
<1>9. CaView(t.ca) # None =>
          CaView(t.ca).status # "Terminal" /\ p.admin_key = CaView(t.ca).admin_key
  <2> HIDE DEF s, t
  <2>1. CaView(t.ca) # None => s.admin_key = CaView(t.ca).admin_key
    BY <1>1, AdministeredType DEF s, t, Events
  <2> QED
    BY <1>1, <1>3, <2>1, AdmittedControl DEF CaStates, t
<1>10. CaView(t.ca) # None
  BY <1>1, AdmittedControl
<1> HIDE DEF p, r
<1> QED
  BY <1>1, <1>4, <1>5, <1>6, <1>7, <1>8, <1>9, <1>10 DEF AdmitsControl, Accepts

\* Accepting a transaction preserves the types.
LEMMA AcceptsType == ASSUME TypeOK, NEW id \in TxIds, Accepts(id) PROVE TypeOK'
<1> PICK s \in CaStates, r \in HistoryRecords, created \in BOOLEAN :
             Accept(id, s, r, created)
  BY DEF Accepts
<1>0. Executes(id) /\ IsMap(preauthUpdates', CAs, Preauthorizations \cup {None})
  BY DEF Accepts, Admits
<1>1. r.version \in Nat
  BY DEF HistoryRecords
<1>2. Admission(id, r.version) \in Results
  BY <1>1, ResultType
<1>3. IsMap(caUpdates', CAs, CaStates)
  BY PutType, TxType DEF Accept, TypeOK
<1>4. IsMap(idempotencyUpdates', CAs \X Nonces, Outcomes)
  BY <1>2, RememberType DEF Accept
<1>5. next' \in Persistents
  <2>1. next \in Persistents
    BY DEF TypeOK
  <2>2. /\ next.admitted + 1 \in Nat /\ next.length + 1 \in Nat
        /\ next.entries + (IF created THEN 1 ELSE 0) \in Nat
        /\ Append(next.bundle, id) \in Seq(TxIds)
    BY <2>1 DEF Persistents
  <2> QED
    BY <2>1, <2>2 DEF Accept, Persistents
<1>6. accepted' \in Seq(HistoryRecords)
  BY DEF Accept, TypeOK
<1>7. results' \in Seq(Results) /\ todo' \in Nat
  BY <1>0, <1>2 DEF Accept, Answer, TypeOK, Executes
<1> QED
  BY <1>0, <1>3, <1>4, <1>5, <1>6, <1>7 DEF Accept, Answer, TypeOK, committed

\* Opening a block preserves the types.
LEMMA BeginBlockType ==
    ASSUME TypeOK, NEW t \in 0..MaxTime, NEW n \in 0..MaxBlockTxs, BeginBlock(t, n)
    PROVE  TypeOK'
<1>1. t \in Nat /\ n \in Nat
  BY BoundAssumption
<1>2. next' \in Persistents
  BY <1>1, OpenedType DEF BeginBlock
<1>3. closed' \in Seq(Heads)
  <2>1. CloseCount(t) \in Nat
    BY <1>1, EpochType
  <2>2. \A i \in 1..CloseCount(t) : ClosingHead(t, i) \in Heads
    BY <1>1, ClosingHeadType
  <2> QED
    BY <2>1, <2>2 DEF BeginBlock, ClosedHeads
<1> QED
  BY <1>1, <1>2, <1>3 DEF BeginBlock, TypeOK, committed, overlay

\* An execution that admits nothing preserves the types.
LEMMA AnswerType ==
    ASSUME TypeOK, NEW id \in TxIds, Replay(id) \/ Conflict(id) \/ Reject(id)
    PROVE  TypeOK'
<1>1. todo > 0 /\ todo - 1 \in Nat
  BY DEF Replay, Conflict, Reject, Executes, TypeOK
<1>2. CASE Replay(id)
  <2>1. Outcome(NonceKey(id)) \in Outcomes
    BY <1>2, NonceKeyType DEF Replay, Recorded, Outcome, TypeOK, IsMap
  <2>2. Outcome(NonceKey(id)).result \in Results
    BY <2>1 DEF Outcomes
  <2> QED
    BY <1>1, <1>2, <2>2 DEF Replay, Answer, TypeOK, committed, overlay
<1>3. CASE Conflict(id)
  <2>1. Rejection(id, "RejectedIdempotencyConflict") \in Results
    BY ResultType DEF Codes
  <2> QED
    BY <1>1, <1>3, <2>1 DEF Conflict, Answer, TypeOK, committed, overlay
<1>4. CASE Reject(id)
  <2>1. Rejection(id, Verdict(Tx[id])) \in Results
    BY ResultType, VerdictType
  <2>2. IsMap(idempotencyUpdates', CAs \X Nonces, Outcomes)
    BY <1>4, <2>1, RememberType DEF Reject
  <2> QED
    BY <1>1, <1>4, <2>1, <2>2 DEF Reject, Answer, TypeOK, committed
<1> QED
  BY <1>2, <1>3, <1>4

\* The keys and the values a commit adds to the indexes and the heads are legal.
LEMMA WritesType ==
    ASSUME TypeOK
    PROVE  /\ IsMap(VersionWrites, CAs \X Nat, Nat)
           /\ IsMap(ManifestWrites, CAs \X (Manifests \cup {None}), Nat)
           /\ IsMap(HeadWrites, Nat, Heads)
<1>1. /\ accepted \in Seq(HistoryRecords)
      /\ \A i \in DOMAIN accepted : accepted[i] \in HistoryRecords /\ IndexOf(i) \in Nat
  <2>1. accepted \in Seq(HistoryRecords)
    BY DEF TypeOK
  <2>2. global.length \in Nat
    BY DEF TypeOK, Persistents
  <2> QED
    BY <2>1, <2>2 DEF IndexOf
<1>2. /\ \A i \in DOMAIN accepted : VersionKey(accepted[i]) \in CAs \X Nat
      /\ \A i \in DOMAIN accepted :
            ManifestKey(accepted[i]) \in CAs \X (Manifests \cup {None})
  BY <1>1 DEF VersionKey, ManifestKey, HistoryRecords
<1>3. \A i \in DOMAIN closed : closed[i] \in Heads /\ closed[i].epoch \in Nat
  <2>1. closed \in Seq(Heads)
    BY DEF TypeOK
  <2>2. \A h \in Heads : h.epoch \in Nat
    BY DEF Heads
  <2> QED
    BY <2>1, <2>2
<1>4. IsMap(VersionWrites, CAs \X Nat, Nat)
  BY <1>1, <1>2 DEF IsMap, VersionWrites
<1>5. Publications(accepted) \subseteq DOMAIN accepted
  BY DEF Publications
<1>6. IsMap(ManifestWrites, CAs \X (Manifests \cup {None}), Nat)
  BY <1>1, <1>2, <1>5 DEF IsMap, ManifestWrites
<1>7. IsMap(HeadWrites, Nat, Heads)
  BY <1>3 DEF IsMap, HeadWrites
<1> QED
  BY <1>4, <1>6, <1>7

\* A commit preserves the types.
LEMMA CommitType == ASSUME TypeOK, Commit PROVE TypeOK'
<1>1. caState' \in [CAs -> CaStates \cup {None}]
  <2>1. IsMap(caUpdates, CAs, CaStates \cup {None})
    BY DEF TypeOK, IsMap
  <2> QED
    BY <2>1, OverTotalType DEF Commit, TypeOK
<1>2. preauth' \in [CAs -> Preauthorizations \cup {None}]
  BY OverTotalType DEF Commit, TypeOK
<1>3. IsMap(idempotency', CAs \X Nonces, Outcomes)
  BY OverType DEF Commit, TypeOK
<1>4. records' \in Seq(HistoryRecords)
  BY DEF Commit, TypeOK
<1>5. /\ IsMap(versionIndex', CAs \X Nat, Nat)
      /\ IsMap(manifestIndex', CAs \X (Manifests \cup {None}), Nat)
      /\ IsMap(heads', Nat, Heads)
  BY WritesType, OverType DEF Commit, TypeOK
<1>6. global' \in Persistents
  BY DEF Commit, TypeOK
<1> QED
  BY <1>1, <1>2, <1>3, <1>4, <1>5, <1>6, DiscardType DEF Commit, TypeOK

\* Only a commit changes the committed store.
LEMMA CommitForm == ASSUME [Next]_vars, ~UNCHANGED committed PROVE Commit
<1>1. \A id \in TxIds : ~ExecuteTransaction(id)
  BY DEF ExecuteTransaction, Replay, Conflict, Reject, RefuseMalformed, Publish,
         Enable, Disable, Cancel, Rollover, Terminate, Accept, Answer
<1> QED
  BY <1>1 DEF Next, BeginBlock, Prepare, RefuseBatch, Abandon, AtBound, vars

\* Every step preserves the types.
LEMMA StepType == ASSUME TypeOK, [Next]_vars PROVE TypeOK'
<1>1. ASSUME NEW t \in 0..MaxTime, NEW n \in 0..MaxBlockTxs, BeginBlock(t, n) PROVE TypeOK'
  BY <1>1, BeginBlockType
<1>2. ASSUME NEW id \in TxIds, ExecuteTransaction(id) PROVE TypeOK'
  <2>1. CASE Replay(id) \/ Conflict(id) \/ Reject(id)
    BY <2>1, AnswerType
  <2>2. CASE RefuseMalformed(id)
    BY <2>2, DiscardType DEF RefuseMalformed, TypeOK, committed
  <2>3. CASE Publish(id) \/ Enable(id) \/ Disable(id)
    BY <2>3, AcceptsType, PublishAccepts, EnableAccepts, DisableAccepts
  <2>4. CASE Cancel(id) \/ Rollover(id) \/ Terminate(id)
    BY <2>4, AcceptsType, CancelAccepts, RolloverAccepts, TerminateAccepts
  <2> QED
    BY <1>2, <2>1, <2>2, <2>3, <2>4 DEF ExecuteTransaction
<1>3. CASE Prepare
  BY <1>3 DEF Prepare, TypeOK, committed, staged, overlay
<1>4. CASE RefuseBatch \/ Abandon
  BY <1>4, DiscardType DEF RefuseBatch, Abandon, TypeOK, committed
<1>5. CASE Commit
  BY <1>5, CommitType
<1>6. CASE AtBound \/ UNCHANGED vars
  BY <1>6 DEF AtBound, TypeOK, vars, committed, staged, overlay
<1> QED
  BY <1>1, <1>2, <1>3, <1>4, <1>5, <1>6 DEF Next

\* The empty store and the empty block are well typed.
LEMMA InitType == ASSUME Init PROVE TypeOK
<1>1. NoBlock \in Persistents
  BY DEF NoBlock, Persistents
<1> QED
  BY <1>1, EmptyType DEF Init, TypeOK

\* Type correctness: every column family and every staged value always holds a
\* value its codec can encode and decode again.
THEOREM TypeCorrect == Spec => []TypeOK
<1>1. Init => TypeOK
  BY InitType
<1>2. TypeOK /\ [Next]_vars => TypeOK'
  BY StepType
<1> QED
  BY <1>1, <1>2, PTL DEF Spec

-----------------------------------------------------------------------------
(* Exactly one outcome, at most one record                                  *)
(*                                                                          *)
(* OutcomesMatchHistory and AdmittedOnce speak of the staged view.  They    *)
(* are not inductive: a block may be dropped, so the same must hold of the  *)
(* committed store alone, and a new record takes the index next.length, so  *)
(* the running length must agree with the log.                              *)

\* A log and an outcome map tell one story.
Agree(log, outcomes) ==
    /\ \A k \in DOMAIN outcomes : NonceKey(outcomes[k].tx) = k
    /\ \A k \in DOMAIN outcomes : outcomes[k].result.code = "Admitted" =>
          /\ outcomes[k].result.history_index + 1 \in DOMAIN log
          /\ LET entry == log[outcomes[k].result.history_index + 1] IN
             /\ entry.authorization = outcomes[k].tx
             /\ entry.version = outcomes[k].result.version
             /\ entry.epoch = outcomes[k].result.epoch
    /\ \A k \in DOMAIN outcomes : outcomes[k].result.code # "Admitted" =>
          \A i \in DOMAIN log : log[i].authorization # outcomes[k].tx
    /\ \A i \in DOMAIN log :
          /\ NonceKey(log[i].authorization) \in DOMAIN outcomes
          /\ outcomes[NonceKey(log[i].authorization)].tx = log[i].authorization
    /\ \A i, j \in DOMAIN log : log[i].authorization = log[j].authorization => i = j

StagedOutcomes == Over(idempotency, idempotencyUpdates)

ExactlyOnce ==
    /\ Agree(records, idempotency)
    /\ Agree(Log, StagedOutcomes)
    /\ global.length = Len(records)
    /\ phase # "idle" => next.length = Len(Log)
    /\ DOMAIN idempotency \cap DOMAIN idempotencyUpdates = {}
    /\ phase = "idle" => accepted = <<>> /\ idempotencyUpdates = EmptyMap

\* The staged outcomes are what the executor looks up.
LEMMA StagedLookup ==
    /\ \A k : Recorded(k) <=> k \in DOMAIN StagedOutcomes
    /\ \A k \in DOMAIN StagedOutcomes : StagedOutcomes[k] = Outcome(k)
BY DEF Recorded, Outcome, StagedOutcomes, Over

\* The staged log continues the committed one.
LEMMA LogType ==
    ASSUME TypeOK
    PROVE  /\ Log \in Seq(HistoryRecords)
           /\ Len(Log) = Len(records) + Len(accepted)
           /\ accepted = <<>> => Log = records
BY DEF TypeOK, Log

\* Storing a rejection of a transaction with an unused nonce keeps the story
\* one: no record can name that transaction, as its nonce would be used.
LEMMA AgreeRejected ==
    ASSUME NEW log \in Seq(HistoryRecords), NEW outcomes, Agree(log, outcomes),
           NEW id \in TxIds, NonceKey(id) \notin DOMAIN outcomes,
           NEW r \in Results, r.code # "Admitted"
    PROVE  Agree(log, Put(outcomes, NonceKey(id), [tx |-> id, result |-> r]))
<1> DEFINE new == Put(outcomes, NonceKey(id), [tx |-> id, result |-> r])
<1>1. /\ DOMAIN new = DOMAIN outcomes \cup {NonceKey(id)}
      /\ new[NonceKey(id)] = [tx |-> id, result |-> r]
      /\ \A k \in DOMAIN outcomes : new[k] = outcomes[k]
  BY DEF Put
<1>2. \A i \in DOMAIN log : log[i].authorization # id
  BY DEF Agree
<1> HIDE DEF new
<1>3. \A k \in DOMAIN new : NonceKey(new[k].tx) = k
  BY <1>1 DEF Agree
<1>4. ASSUME NEW k \in DOMAIN new, new[k].result.code = "Admitted"
      PROVE  k \in DOMAIN outcomes
  BY <1>1, <1>4
<1>5. ASSUME NEW k \in DOMAIN new, new[k].result.code # "Admitted"
      PROVE  \A i \in DOMAIN log : log[i].authorization # new[k].tx
  BY <1>1, <1>2, <1>5 DEF Agree
<1>6. \A i \in DOMAIN log :
          /\ NonceKey(log[i].authorization) \in DOMAIN new
          /\ new[NonceKey(log[i].authorization)].tx = log[i].authorization
  BY <1>1 DEF Agree
<1>7. Agree(log, new)
  BY <1>1, <1>3, <1>4, <1>5, <1>6 DEF Agree
<1> QED
  BY <1>7 DEF new

\* Storing an admission together with its record keeps the story one.
LEMMA AgreeAdmitted ==
    ASSUME NEW log \in Seq(HistoryRecords), NEW outcomes, Agree(log, outcomes),
           NEW id \in TxIds, NonceKey(id) \notin DOMAIN outcomes,
           NEW r \in Results, NEW entry \in HistoryRecords,
           r.code = "Admitted", r.history_index = Len(log),
           entry.authorization = id, entry.version = r.version, entry.epoch = r.epoch
    PROVE  Agree(Append(log, entry),
                 Put(outcomes, NonceKey(id), [tx |-> id, result |-> r]))
<1> DEFINE new == Put(outcomes, NonceKey(id), [tx |-> id, result |-> r])
           longer == Append(log, entry)
<1>1. /\ DOMAIN new = DOMAIN outcomes \cup {NonceKey(id)}
      /\ new[NonceKey(id)] = [tx |-> id, result |-> r]
      /\ \A k \in DOMAIN outcomes : new[k] = outcomes[k]
  BY DEF Put
<1>2. /\ DOMAIN longer = DOMAIN log \cup {Len(log) + 1} /\ Len(log) \in Nat
      /\ longer[Len(log) + 1] = entry
      /\ \A i \in DOMAIN log : longer[i] = log[i] /\ i # Len(log) + 1
  OBVIOUS
<1>3. \A i \in DOMAIN log : log[i].authorization # id
  BY DEF Agree
<1>4. \A k \in DOMAIN outcomes : outcomes[k].tx # id
  BY DEF Agree
<1> HIDE DEF new, longer
<1>5. \A k \in DOMAIN new : NonceKey(new[k].tx) = k
  BY <1>1 DEF Agree
<1>6. ASSUME NEW k \in DOMAIN new, new[k].result.code = "Admitted"
      PROVE  /\ new[k].result.history_index + 1 \in DOMAIN longer
             /\ longer[new[k].result.history_index + 1].authorization = new[k].tx
             /\ longer[new[k].result.history_index + 1].version = new[k].result.version
             /\ longer[new[k].result.history_index + 1].epoch = new[k].result.epoch
  <2>1. CASE k = NonceKey(id)
    BY <1>1, <1>2, <2>1
  <2>2. CASE k \in DOMAIN outcomes
    BY <1>1, <1>2, <1>6, <2>2 DEF Agree
  <2> QED
    BY <1>1, <2>1, <2>2
<1>7. ASSUME NEW k \in DOMAIN new, new[k].result.code # "Admitted"
      PROVE  \A i \in DOMAIN longer : longer[i].authorization # new[k].tx
  <2>1. k \in DOMAIN outcomes
    BY <1>1, <1>7
  <2> QED
    BY <1>1, <1>2, <1>4, <1>7, <2>1 DEF Agree
<1>8. \A i \in DOMAIN longer :
          /\ NonceKey(longer[i].authorization) \in DOMAIN new
          /\ new[NonceKey(longer[i].authorization)].tx = longer[i].authorization
  BY <1>1, <1>2 DEF Agree
<1>9. \A i, j \in DOMAIN longer : longer[i].authorization = longer[j].authorization => i = j
  BY <1>2, <1>3 DEF Agree
<1>10. Agree(longer, new)
  BY <1>5, <1>6, <1>7, <1>8, <1>9 DEF Agree
<1> QED
  BY <1>10 DEF longer, new

\* Discarding the block leaves the committed half of the story.
LEMMA ExactlyOnceDiscard ==
    ASSUME TypeOK, ExactlyOnce, Discard, UNCHANGED committed
    PROVE  ExactlyOnce'
<1>1. Log' = records
  BY DEF Discard, Log, TypeOK, committed
<1>2. StagedOutcomes' = idempotency
  BY DEF StagedOutcomes, Over, Discard, EmptyMap, committed, TypeOK, IsMap
<1> QED
  BY <1>1, <1>2 DEF ExactlyOnce, Discard, committed, Agree, EmptyMap

\* An accepted transaction extends the story by its outcome and its record.
LEMMA ExactlyOnceAccept ==
    ASSUME TypeOK, ExactlyOnce, NEW id \in TxIds, Accepts(id)
    PROVE  ExactlyOnce'
<1>0. PICK s \in CaStates, r \in HistoryRecords, created \in BOOLEAN :
          /\ Accept(id, s, r, created)
          /\ r.authorization = id /\ r.epoch = next.open
  BY DEF Accepts
<1> DEFINE k == NonceKey(id)  result == Admission(id, r.version)
           entry == [tx |-> id, result |-> result]
<1>1. /\ phase = "executing" /\ phase' = phase /\ UNCHANGED committed
      /\ accepted' = Append(accepted, r)
      /\ idempotencyUpdates' = Put(idempotencyUpdates, k, entry)
      /\ next' = [next EXCEPT !.bundle = Append(@, id), !.admitted = @ + 1,
                              !.length = @ + 1,
                              !.entries = @ + (IF created THEN 1 ELSE 0)]
  BY <1>0 DEF Accepts, Admits, Executes, Accept, Answer, Remember
<1>2. k \notin DOMAIN StagedOutcomes
  BY StagedLookup DEF Accepts, Admits
<1>3. Log' = Append(Log, r) /\ Log \in Seq(HistoryRecords)
  <2>1. records \in Seq(HistoryRecords) /\ accepted \in Seq(HistoryRecords)
    BY DEF TypeOK
  <2>2. records' = records
    BY <1>1 DEF committed
  <2> QED
    BY <1>1, <2>1, <2>2 DEF Log
<1>4. StagedOutcomes' = Put(StagedOutcomes, k, entry)
  <2>1. idempotency' = idempotency
    BY <1>1 DEF committed
  <2> HIDE DEF k, entry
  <2> QED
    BY <1>1, <2>1 DEF StagedOutcomes, Over, Put
<1>5. next.length = Len(Log) /\ next \in Persistents
  BY <1>1 DEF ExactlyOnce, TypeOK
<1>6. /\ result \in Results /\ result.code = "Admitted"
      /\ result.history_index = Len(Log)
      /\ result.version = r.version /\ result.epoch = next.open
  <2>1. r.version \in Nat
    BY DEF HistoryRecords
  <2> QED
    BY <1>5, <2>1, ResultType DEF Admission
<1>7. Agree(Log, StagedOutcomes)'
  <2>1. Agree(Log, StagedOutcomes)
    BY DEF ExactlyOnce
  <2> HIDE DEF result
  <2>2. Agree(Append(Log, r), Put(StagedOutcomes, NonceKey(id), [tx |-> id, result |-> result]))
    BY <1>0, <1>2, <1>3, <1>6, <2>1, AgreeAdmitted
  <2>3. Agree(Log', StagedOutcomes')
    BY <1>3, <1>4, <2>2
  <2> QED
    BY <2>3 DEF Agree
<1>8. next'.length = Len(Log')
  <2>1. next'.length = next.length + 1
    BY <1>1, <1>5 DEF Persistents
  <2> QED
    BY <1>3, <1>5, <2>1
<1>9. (DOMAIN idempotency \cap DOMAIN idempotencyUpdates = {})'
  BY <1>1, <1>2 DEF ExactlyOnce, StagedOutcomes, Over, Put, committed
<1>10. Agree(records, idempotency)' /\ (global.length = Len(records))'
  BY <1>1 DEF ExactlyOnce, committed, Agree
<1> QED
  BY <1>1, <1>7, <1>8, <1>9, <1>10 DEF ExactlyOnce

\* The story stays one when what it is told of does not change.
LEMMA ExactlyOnceSame ==
    ASSUME ExactlyOnce,
           UNCHANGED <<records, idempotency, accepted, idempotencyUpdates>>,
           global' = global, phase' # "idle", next'.length = Len(Log)
    PROVE  ExactlyOnce'
<1>1. Log' = Log /\ StagedOutcomes' = StagedOutcomes
  BY DEF Log, StagedOutcomes
<1> QED
  BY <1>1 DEF ExactlyOnce, Agree

\* Dropping the block, or refusing it, leaves the committed store and nothing else.
LEMMA DroppedForm ==
    ASSUME NEW id \in TxIds, RefuseMalformed(id) \/ RefuseBatch \/ Abandon
    PROVE  Discard /\ UNCHANGED committed
BY DEF RefuseMalformed, RefuseBatch, Abandon

\* Opening a block adds nothing to the story.
LEMMA ExactlyOnceBegin ==
    ASSUME TypeOK, ExactlyOnce, NEW t \in 0..MaxTime, NEW n \in 0..MaxBlockTxs,
           BeginBlock(t, n)
    PROVE  ExactlyOnce'
<1>1. Log = records
  BY LogType DEF BeginBlock, ExactlyOnce
<1>2. Opened(t).length = global.length
  BY DEF Opened, TypeOK, Persistents
<1> QED
  BY <1>1, <1>2, ExactlyOnceSame DEF BeginBlock, ExactlyOnce, committed, overlay

\* Rejecting a transaction adds its outcome to the story.
LEMMA ExactlyOnceReject ==
    ASSUME TypeOK, ExactlyOnce, NEW id \in TxIds, Reject(id)
    PROVE  ExactlyOnce'
<1> DEFINE k == NonceKey(id)  result == Rejection(id, Verdict(Tx[id]))
           entry == [tx |-> id, result |-> result]
<1>1. /\ phase = "executing" /\ UNCHANGED <<committed, phase, next, accepted>>
      /\ idempotencyUpdates' = Put(idempotencyUpdates, k, entry)
  BY DEF Reject, Executes, Answer, Remember
<1>2. k \notin DOMAIN StagedOutcomes
  BY StagedLookup DEF Reject
<1>3. Log' = Log /\ Log \in Seq(HistoryRecords)
  BY <1>1, LogType DEF Log, committed
<1>4. StagedOutcomes' = Put(StagedOutcomes, k, entry)
  <2>1. idempotency' = idempotency
    BY <1>1 DEF committed
  <2> HIDE DEF k, entry
  <2> QED
    BY <1>1, <2>1 DEF StagedOutcomes, Over, Put
<1>5. result \in Results /\ result.code # "Admitted"
  BY ResultType, VerdictType DEF Reject, Rejection
<1>6. Agree(Log, StagedOutcomes)'
  <2>1. Agree(Log, StagedOutcomes)
    BY DEF ExactlyOnce
  <2> HIDE DEF result
  <2>2. Agree(Log, Put(StagedOutcomes, NonceKey(id), [tx |-> id, result |-> result]))
    BY <1>2, <1>3, <1>5, <2>1, AgreeRejected
  <2>3. Agree(Log', StagedOutcomes')
    BY <1>3, <1>4, <2>2
  <2> QED
    BY <2>3 DEF Agree
<1>7. (DOMAIN idempotency \cap DOMAIN idempotencyUpdates = {})'
  BY <1>1, <1>2 DEF ExactlyOnce, StagedOutcomes, Over, Put, committed
<1>8. Agree(records, idempotency)' /\ (global.length = Len(records))'
  BY <1>1 DEF ExactlyOnce, committed, Agree
<1> QED
  BY <1>1, <1>3, <1>6, <1>7, <1>8 DEF ExactlyOnce

\* A commit turns the staged story into the committed one.
LEMMA ExactlyOnceCommit == ASSUME TypeOK, ExactlyOnce, Commit PROVE ExactlyOnce'
<1>1. records' = Log /\ idempotency' = StagedOutcomes /\ global' = next
  BY DEF Commit, Log, StagedOutcomes
<1>2. /\ accepted' = <<>> /\ idempotencyUpdates' = EmptyMap /\ phase' = "idle"
  BY DEF Commit, Discard
<1>3. Log' = records'
  <2>1. records' \in Seq(HistoryRecords)
    BY <1>1, LogType
  <2> QED
    BY <1>2, <2>1 DEF Log
<1>4. StagedOutcomes' = idempotency'
  <2>1. IsMap(idempotency', CAs \X Nonces, Outcomes)
    BY CommitType DEF TypeOK
  <2> QED
    BY <1>2, <2>1 DEF StagedOutcomes, Over, EmptyMap, IsMap
<1>5. next.length = Len(Log) /\ Agree(Log, StagedOutcomes)
  BY DEF ExactlyOnce, Commit
<1>6. Agree(records', idempotency') /\ Agree(Log', StagedOutcomes')
  BY <1>1, <1>3, <1>4, <1>5
<1>7. global'.length = Len(records')
  BY <1>1, <1>5
<1> QED
  BY <1>2, <1>6, <1>7 DEF ExactlyOnce, Agree, EmptyMap

\* Every step keeps the story one.
LEMMA ExactlyOnceStep == ASSUME TypeOK, ExactlyOnce, [Next]_vars PROVE ExactlyOnce'
<1>1. ASSUME NEW t \in 0..MaxTime, NEW n \in 0..MaxBlockTxs, BeginBlock(t, n)
      PROVE  ExactlyOnce'
  BY <1>1, ExactlyOnceBegin
<1>2. ASSUME NEW id \in TxIds, ExecuteTransaction(id) PROVE ExactlyOnce'
  <2>1. CASE Replay(id) \/ Conflict(id)
    BY <2>1, ExactlyOnceSame
    DEF Replay, Conflict, Executes, Answer, committed, overlay, ExactlyOnce
  <2>2. CASE Reject(id)
    BY <2>2, ExactlyOnceReject
  <2>3. CASE RefuseMalformed(id)
    BY <2>3, DroppedForm, ExactlyOnceDiscard
  <2>4. CASE Accepts(id)
    BY <2>4, ExactlyOnceAccept
  <2> QED
    BY <1>2, <2>1, <2>2, <2>3, <2>4, PublishAccepts, EnableAccepts, DisableAccepts,
       CancelAccepts, RolloverAccepts, TerminateAccepts
    DEF ExecuteTransaction
<1>3. CASE Prepare
  BY <1>3, ExactlyOnceSame DEF Prepare, committed, staged, overlay, ExactlyOnce
<1>4. CASE RefuseBatch \/ Abandon
  BY <1>4, ExactlyOnceDiscard DEF RefuseBatch, Abandon
<1>5. CASE Commit
  BY <1>5, ExactlyOnceCommit
<1>6. CASE AtBound \/ UNCHANGED vars
  <2>1. UNCHANGED vars
    BY <1>6 DEF AtBound
  <2>2. Log' = Log /\ StagedOutcomes' = StagedOutcomes
    BY <2>1 DEF Log, StagedOutcomes, vars, committed, staged, overlay
  <2> QED
    BY <2>1, <2>2 DEF ExactlyOnce, Agree, vars, committed, staged, overlay
<1> QED
  BY <1>1, <1>2, <1>3, <1>4, <1>5, <1>6 DEF Next

\* The empty store tells the empty story.
LEMMA ExactlyOnceInit == ASSUME Init PROVE ExactlyOnce
<1>1. Log = <<>> /\ StagedOutcomes = EmptyMap
  BY DEF Init, Log, StagedOutcomes, Over, EmptyMap
<1> QED
  BY <1>1 DEF Init, ExactlyOnce, Agree, EmptyMap, NoBlock

\* The strengthened invariant: in the store, and in the block staged over it,
\* outcomes and records agree and no transaction has two records.
THEOREM ExactlyOnceHolds == Spec => []ExactlyOnce
<1>1. Init => ExactlyOnce
  BY ExactlyOnceInit
<1>2. TypeOK /\ ExactlyOnce /\ [Next]_vars => ExactlyOnce'
  BY ExactlyOnceStep
<1> QED
  BY <1>1, <1>2, TypeCorrect, PTL DEF Spec

\* Whatever is replayed, resubmitted or dropped, a transaction enters the
\* history at most once.
THEOREM AtMostOnce == Spec => []AdmittedOnce
<1>1. ExactlyOnce => AdmittedOnce
  BY DEF ExactlyOnce, Agree, AdmittedOnce
<1> QED
  BY <1>1, ExactlyOnceHolds, PTL

\* The idempotency map never contradicts the history: an admission it reports
\* is the record it names, a rejection it reports left no record.
THEOREM OutcomesTellHistory == Spec => []OutcomesMatchHistory
<1>1. ExactlyOnce => OutcomesMatchHistory
  <2> SUFFICES ASSUME ExactlyOnce PROVE OutcomesMatchHistory
    OBVIOUS
  <2>1. Agree(Log, StagedOutcomes)
    BY DEF ExactlyOnce
  <2>2. /\ DOMAIN StagedOutcomes = DOMAIN idempotency \cup DOMAIN idempotencyUpdates
        /\ \A k \in DOMAIN StagedOutcomes : Outcome(k) = StagedOutcomes[k] /\ Recorded(k)
    BY StagedLookup DEF StagedOutcomes, Over
  <2> QED
    BY <2>1, <2>2 DEF Agree, OutcomesMatchHistory
<1> QED
  BY <1>1, ExactlyOnceHolds, PTL

\* A commit adds outcomes and replaces none: what a client was told stays true.
THEOREM OutcomesPermanent == Spec => OutcomeIsPermanent
<1>1. ExactlyOnce /\ [Next]_vars =>
          [\A k \in DOMAIN idempotency :
              k \in DOMAIN idempotency' /\ idempotency'[k] = idempotency[k]]_idempotency
  <2> SUFFICES ASSUME ExactlyOnce, [Next]_vars, idempotency' # idempotency
               PROVE  \A k \in DOMAIN idempotency :
                         k \in DOMAIN idempotency' /\ idempotency'[k] = idempotency[k]
    OBVIOUS
  <2>1. Commit
    BY CommitForm DEF committed
  <2> QED
    BY <2>1 DEF Commit, Over, ExactlyOnce
<1> QED
  BY <1>1, ExactlyOnceHolds, PTL DEF Spec, OutcomeIsPermanent

-----------------------------------------------------------------------------
(* Terminal CAs and administrative keys.  TerminalIsFinal speaks of a commit, *)
(* which writes what earlier steps staged; the invariant it needs is about    *)
(* the staged states: none of a committed terminal CA, none under a new key.  *)

StagedRespectsTerminal ==
    \A c \in DOMAIN caUpdates : caState[c] # None =>
        /\ caState[c].status # "Terminal"
        /\ caUpdates[c].admin_key = caState[c].admin_key

\* Accepting a transaction stages no state of a terminal CA and no new key.
LEMMA TerminalAccept ==
    ASSUME TypeOK, StagedRespectsTerminal, NEW id \in TxIds, Accepts(id)
    PROVE  StagedRespectsTerminal'
<1> DEFINE c == Tx[id].ca
<1>1. PICK s \in CaStates, r \in HistoryRecords, created \in BOOLEAN :
          /\ Accept(id, s, r, created)
          /\ CaView(c) # None =>
                CaView(c).status # "Terminal" /\ s.admin_key = CaView(c).admin_key
  BY DEF Accepts
<1>2. caUpdates' = Put(caUpdates, c, s) /\ caState' = caState
  BY <1>1 DEF Accept, Answer, committed
<1>3. CASE c \in DOMAIN caUpdates
  <2>1. CaView(c) = caUpdates[c] /\ caUpdates[c] \in CaStates
    BY <1>3 DEF CaView, TypeOK, IsMap
  <2>2. CaView(c) # None
    BY <2>1, NoStateAssumption
  <2> HIDE DEF c
  <2> QED
    BY <1>1, <1>2, <1>3, <2>1, <2>2 DEF StagedRespectsTerminal, Put
<1>4. CASE c \notin DOMAIN caUpdates
  <2>1. CaView(c) = caState[c]
    BY <1>4 DEF CaView
  <2> HIDE DEF c
  <2> QED
    BY <1>1, <1>2, <1>4, <2>1 DEF StagedRespectsTerminal, Put
<1> QED
  BY <1>3, <1>4

\* Every step keeps the staged states off the terminal CAs.
LEMMA TerminalStep ==
    ASSUME TypeOK, StagedRespectsTerminal, [Next]_vars
    PROVE  StagedRespectsTerminal'
<1>1. ASSUME Discard PROVE StagedRespectsTerminal'
  BY <1>1 DEF Discard, EmptyMap, StagedRespectsTerminal
<1>2. ASSUME UNCHANGED <<caState, caUpdates>> PROVE StagedRespectsTerminal'
  BY <1>2 DEF StagedRespectsTerminal
<1>3. ASSUME NEW t \in 0..MaxTime, NEW n \in 0..MaxBlockTxs, BeginBlock(t, n)
      PROVE  StagedRespectsTerminal'
  BY <1>2, <1>3 DEF BeginBlock, committed, overlay
<1>4. ASSUME NEW id \in TxIds, ExecuteTransaction(id) PROVE StagedRespectsTerminal'
  <2>1. CASE Replay(id) \/ Conflict(id) \/ Reject(id)
    BY <1>2, <2>1 DEF Replay, Conflict, Reject, Answer, committed, overlay
  <2>2. CASE RefuseMalformed(id)
    BY <1>1, <2>2, DroppedForm
  <2>3. CASE Accepts(id)
    BY <2>3, TerminalAccept
  <2> QED
    BY <1>4, <2>1, <2>2, <2>3, PublishAccepts, EnableAccepts, DisableAccepts,
       CancelAccepts, RolloverAccepts, TerminateAccepts
    DEF ExecuteTransaction
<1>5. CASE Prepare
  BY <1>2, <1>5 DEF Prepare, committed, staged, overlay
<1>6. CASE RefuseBatch \/ Abandon \/ Commit
  BY <1>1, <1>6 DEF RefuseBatch, Abandon, Commit
<1>7. CASE AtBound \/ UNCHANGED vars
  BY <1>2, <1>7 DEF AtBound, vars, committed, staged, overlay
<1> QED
  BY <1>3, <1>4, <1>5, <1>6, <1>7 DEF Next

\* A CA that rolled over or was terminated is never written again, and no CA
\* ever changes its administrative key.
THEOREM TerminalStaysFinal == Spec => TerminalIsFinal
<1>1. Init => StagedRespectsTerminal
  BY DEF Init, EmptyMap, StagedRespectsTerminal
<1>2. TypeOK /\ StagedRespectsTerminal /\ [Next]_vars => StagedRespectsTerminal'
  BY TerminalStep
<1>3. TypeOK /\ StagedRespectsTerminal /\ [Next]_vars =>
          [\A c \in CAs : caState[c] # None =>
              /\ caState'[c] # None
              /\ caState'[c].admin_key = caState[c].admin_key
              /\ caState[c].status = "Terminal" => caState'[c] = caState[c]]_caState
  <2> SUFFICES ASSUME TypeOK, StagedRespectsTerminal, [Next]_vars, caState' # caState,
                      NEW c \in CAs, caState[c] # None
               PROVE  /\ caState'[c] # None
                      /\ caState'[c].admin_key = caState[c].admin_key
                      /\ caState[c].status = "Terminal" => caState'[c] = caState[c]
    OBVIOUS
  <2>1. Commit
    BY CommitForm DEF committed
  <2>2. caState' = Over(caState, caUpdates) /\ DOMAIN caState = CAs
    BY <2>1 DEF Commit, TypeOK
  <2>3. CASE c \in DOMAIN caUpdates
    <3>1. caState'[c] = caUpdates[c] /\ caUpdates[c] \in CaStates
      BY <2>2, <2>3 DEF Over, TypeOK, IsMap
    <3> QED
      BY <2>3, <3>1, NoStateAssumption DEF StagedRespectsTerminal
  <2>4. CASE c \notin DOMAIN caUpdates
    BY <2>2, <2>4 DEF Over
  <2> QED
    BY <2>3, <2>4
<1> QED
  BY <1>1, <1>2, <1>3, TypeCorrect, PTL DEF Spec, TerminalIsFinal
=============================================================================
