------------------------ MODULE SourceRegistry_proofs ------------------------
(***************************************************************************)
(* Proofs about SourceRegistry, for any number of HID slots and addresses. *)
(* Routing is inductive together with TypeOK: the three ways a step can    *)
(* change the wiring (Destroy, Replace, Promote) have a lemma each, and    *)
(* every action is one of them.                                            *)
(***************************************************************************)
EXTENDS SourceRegistry, FiniteSetTheorems, TLAPS

\* Routing of a wiring that is not (yet) the state.
Wired(tg, sr) ==
    \A s \in Switcher, k \in Kind, h \in Holder :
        sr[s][k] = h <=> (handler[h] = k /\ tg[h] = s)

WiringType(w) ==
    /\ w.target \in [Holder -> Switcher \cup {NoTarget}]
    /\ w.source \in [Switcher -> [Kind -> Holder \cup {NoSource}]]

\* Owners are holders.
LEMMA OwnedByHolder ==
    ASSUME NEW a \in Addr
    PROVE  /\ OwnedBy(a) \in SUBSET Holder
           /\ a \in OwnedBy(a)
           /\ \A n \in {0, 1} : <<a, n>> \in Holder
  BY DEF OwnedBy, Holder, Proxy

\* Each kind has its primary and its secondary switcher.
LEMMA KindPlaces ==
    ASSUME NEW k \in Kind
    PROVE  /\ Primary(k) \in Switcher /\ Secondary(k) \in Switcher
           /\ Primary(k) # Secondary(k)
           /\ Switcher = {Primary(k), Secondary(k)}
  BY DEF Kind, Switcher, Primary, Secondary

\* Destroying sources keeps types and routing.
LEMMA DestroyKeeps ==
    ASSUME TypeOK, Routing, NEW H \in SUBSET Holder, Destroy(H),
           receiver' \in SUBSET Addr
    PROVE  TypeOK' /\ Routing'
<1>1. TypeOK'
  BY DEF TypeOK, Destroy, Expired
<1>2. ASSUME NEW s \in Switcher, NEW k \in Kind, NEW h \in Holder
      PROVE  source'[s][k] = h <=> (handler'[h] = k /\ target'[h] = s)
  <2>1. source'[s][k] = IF source[s][k] \in H THEN NoSource ELSE source[s][k]
    BY DEF Destroy, Expired
  <2>2. source[s][k] = h <=> (handler[h] = k /\ target[h] = s)
    BY DEF Routing
  <2>3. CASE h \in H
    BY <2>1, <2>2, <2>3, NamesAssumption DEF Destroy
  <2>4. CASE h \notin H
    BY <2>1, <2>2, <2>4, NamesAssumption DEF Destroy
  <2> QED BY <2>3, <2>4
<1> QED BY <1>1, <1>2 DEF Routing

\* So does replacing them by a new source that is integrated.
LEMMA ReplaceKeeps ==
    ASSUME TypeOK, Routing, NEW H \in SUBSET Holder, NEW g \in H,
           NEW j \in Kind, Replace(H, g, j), receiver' \in SUBSET Addr
    PROVE  TypeOK' /\ Routing'
<1> DEFINE rest == Expired(H)
           p == Placement(rest, j)
<1>0. g \in Holder
  OBVIOUS
<1>1. rest \in [Switcher -> [Kind -> Holder \cup {NoSource}]]
  BY DEF TypeOK, Expired
<1>2. p \in Switcher \cup {NoTarget}
  BY KindPlaces DEF Placement
<1>3. p \in Switcher => rest[p][j] = NoSource
  BY KindPlaces, NamesAssumption DEF Placement
<1>4. /\ handler' = [x \in Holder |-> IF x = g THEN j
                                      ELSE IF x \in H THEN NoHandler ELSE handler[x]]
      /\ target' = [x \in Holder |-> IF x = g THEN p
                                     ELSE IF x \in H THEN NoTarget ELSE target[x]]
      /\ source' = Registered(rest, p, j, g)
  BY DEF Replace
<1>5. ASSUME NEW s \in Switcher, NEW k \in Kind
      PROVE  source'[s][k] = IF s = p /\ k = j THEN g ELSE rest[s][k]
  <2> HIDE DEF rest, p
  <2>1. CASE p = NoTarget
    BY <1>4, <2>1, NamesAssumption DEF Registered
  <2>2. CASE p # NoTarget
    BY <1>1, <1>2, <1>4, <2>2 DEF Registered
  <2> QED BY <2>1, <2>2
<1>6. source' \in [Switcher -> [Kind -> Holder \cup {NoSource}]]
  <2> HIDE DEF rest, p
  <2> QED BY <1>0, <1>1, <1>2, <1>4 DEF Registered
<1>7. TypeOK'
  <2> HIDE DEF rest, p
  <2> QED BY <1>2, <1>4, <1>6 DEF TypeOK
<1>8. ASSUME NEW s \in Switcher, NEW k \in Kind, NEW h \in Holder
      PROVE  source'[s][k] = h <=> (handler'[h] = k /\ target'[h] = s)
  <2>1. rest[s][k] = IF source[s][k] \in H THEN NoSource ELSE source[s][k]
    BY DEF Expired
  <2>2. source[s][k] = h <=> (handler[h] = k /\ target[h] = s)
    BY DEF Routing
  <2> HIDE DEF rest, p
  <2>3. source'[s][k] = IF s = p /\ k = j THEN g ELSE rest[s][k]
    BY <1>5
  <2>4. CASE h = g
    BY <1>2, <1>4, <2>1, <2>3, <2>4, NamesAssumption
  <2>5. CASE h # g /\ h \in H
    BY <1>4, <2>1, <2>3, <2>5, NamesAssumption
  <2>6. CASE h # g /\ h \notin H
    <3>1. handler'[h] = handler[h] /\ target'[h] = target[h]
      BY <1>4, <2>6
    <3>2. CASE s = p /\ k = j
      BY <1>3, <2>1, <2>2, <2>3, <2>6, <3>1, <3>2, NamesAssumption
    <3>3. CASE ~(s = p /\ k = j)
      BY <2>1, <2>2, <2>3, <2>6, <3>1, <3>3, NamesAssumption
    <3> QED BY <3>2, <3>3
  <2> QED BY <2>4, <2>5, <2>6
<1> QED BY <1>7, <1>8 DEF Routing

\* And so does each of run's two promotions.
LEMMA PromoteKeeps ==
    ASSUME handler \in [Holder -> Kind \cup {NoHandler}],
           NEW w, WiringType(w), Wired(w.target, w.source), NEW j \in Kind
    PROVE  LET v == Promote(j, w) IN WiringType(v) /\ Wired(v.target, v.source)
<1>1. CASE ~Alone(j, w.source)
  BY <1>1 DEF Promote
<1>2. CASE Alone(j, w.source)
  <2> DEFINE g == w.source[Secondary(j)][j]
             tg == [w.target EXCEPT ![g] = Primary(j)]
             sr == [w.source EXCEPT ![Secondary(j)][j] = NoSource,
                                    ![Primary(j)][j] = g]
  <2>1. Promote(j, w) = [target |-> tg, source |-> sr]
    BY <1>2 DEF Promote
  <2>2. g \in Holder /\ w.source[Primary(j)][j] = NoSource
    BY <1>2, KindPlaces DEF Alone, WiringType
  <2>3. handler[g] = j /\ w.target[g] = Secondary(j)
    BY <2>2, KindPlaces DEF Wired
  <2>4. tg \in [Holder -> Switcher \cup {NoTarget}]
    BY KindPlaces DEF WiringType
  <2>5. sr \in [Switcher -> [Kind -> Holder \cup {NoSource}]]
    BY <2>2, KindPlaces DEF WiringType
  <2>6. ASSUME NEW s \in Switcher, NEW k \in Kind, k # j
        PROVE  sr[s][k] = w.source[s][k]
    BY <2>6, KindPlaces DEF WiringType
  <2>7. sr[Primary(j)][j] = g /\ sr[Secondary(j)][j] = NoSource
    BY KindPlaces DEF WiringType
  <2>8. ASSUME NEW h \in Holder
        PROVE  tg[h] = IF h = g THEN Primary(j) ELSE w.target[h]
    BY DEF WiringType
  <2> HIDE DEF tg, sr, g
  <2>9. ASSUME NEW s \in Switcher, NEW k \in Kind, NEW h \in Holder
        PROVE  sr[s][k] = h <=> (handler[h] = k /\ tg[h] = s)
    <3>1. w.source[s][k] = h <=> (handler[h] = k /\ w.target[h] = s)
      BY DEF Wired
    <3>2. CASE k # j
      BY <2>3, <2>6, <2>8, <3>1, <3>2
    <3>3. CASE k = j /\ s = Primary(j)
      BY <2>2, <2>3, <2>7, <2>8, <3>1, <3>3, NamesAssumption
    <3>4. CASE k = j /\ s = Secondary(j)
      <4>1. w.source[s][k] = g
        BY <2>2, <2>3, <3>4 DEF Wired
      <4> QED BY <2>3, <2>7, <2>8, <3>1, <3>4, <4>1, KindPlaces, NamesAssumption
    <3> QED BY <3>2, <3>3, <3>4, KindPlaces
  <2> QED BY <2>1, <2>4, <2>5, <2>9 DEF WiringType, Wired
<1> QED BY <1>1, <1>2

\* At most two promotions make a run, and each keeps types and routing.
LEMMA PipelineRunKeeps == TypeOK /\ Routing /\ PipelineRun => TypeOK' /\ Routing'
<1> SUFFICES ASSUME TypeOK, Routing, PipelineRun PROVE TypeOK' /\ Routing'
  OBVIOUS
<1> DEFINE u == [target |-> target, source |-> source]
           v == Promote("kGamePad", u)
           w == Promote("kMouse", v)
<1>1. WiringType(u) /\ Wired(u.target, u.source)
  BY DEF WiringType, Wired, TypeOK, Routing
<1>2. handler \in [Holder -> Kind \cup {NoHandler}]
  BY DEF TypeOK
<1>3. "kMouse" \in Kind /\ "kGamePad" \in Kind
  BY DEF Kind
<1>4. target' = w.target /\ source' = w.source /\ UNCHANGED <<handler, receiver>>
  BY DEF PipelineRun
<1> HIDE DEF u
<1>5. WiringType(v) /\ Wired(v.target, v.source)
  BY <1>1, <1>2, <1>3, PromoteKeeps
<1> HIDE DEF v
<1>6. WiringType(w) /\ Wired(w.target, w.source)
  BY <1>5, <1>2, <1>3, PromoteKeeps
<1> HIDE DEF w
<1> QED BY <1>4, <1>6 DEF WiringType, Wired, TypeOK, Routing
-----------------------------------------------------------------------------
IInv == TypeOK /\ Routing

\* Nothing is wired initially.
LEMMA InitIInv == Init => IInv
  BY NamesAssumption DEF Init, IInv, TypeOK, Routing, Kind, Switcher

\* Every action keeps the invariant.
LEMMA NextIInv == IInv /\ [Next]_vars => IInv'
<1> SUFFICES ASSUME TypeOK, Routing, [Next]_vars PROVE TypeOK' /\ Routing'
  BY DEF IInv
<1>1. receiver \in SUBSET Addr /\ "kGamePad" \in Kind
  BY DEF TypeOK, Kind
<1>2. HidInstance \subseteq Holder
  BY DEF Holder
<1>3. ASSUME NEW i \in HidInstance, NEW k \in Kind, HidMount(i, k)
      PROVE  TypeOK' /\ Routing'
  BY <1>1, <1>2, <1>3, ReplaceKeeps DEF HidMount
<1>4. ASSUME NEW i \in HidInstance, HidMountUnsupported(i) \/ HidUmount(i)
      PROVE  TypeOK' /\ Routing'
  BY <1>1, <1>2, <1>4, DestroyKeeps DEF HidMountUnsupported, HidUmount
<1>5. ASSUME NEW a \in Addr, MountXboxOne(a)
      PROVE  TypeOK' /\ Routing'
  BY <1>1, <1>5, OwnedByHolder, ReplaceKeeps DEF MountXboxOne
<1>6. ASSUME NEW a \in Addr, MountReceiver(a)
      PROVE  TypeOK' /\ Routing'
  <2>1. receiver' \in SUBSET Addr
    BY <1>1, <1>6 DEF MountReceiver
  <2> QED BY <1>6, <2>1, OwnedByHolder, DestroyKeeps DEF MountReceiver
<1>7. ASSUME NEW a \in Addr, NEW n \in {0, 1}, PadConnected(a, n)
      PROVE  TypeOK' /\ Routing'
  BY <1>1, <1>7, OwnedByHolder, ReplaceKeeps DEF PadConnected
<1>8. ASSUME NEW a \in Addr, NEW n \in {0, 1}, PadDisconnected(a, n)
      PROVE  TypeOK' /\ Routing'
  BY <1>1, <1>8, OwnedByHolder, DestroyKeeps DEF PadDisconnected
<1>9. ASSUME NEW a \in Addr, BareUmount(a)
      PROVE  TypeOK' /\ Routing'
  BY <1>1, <1>9, OwnedByHolder, DestroyKeeps DEF BareUmount
<1>10. CASE PipelineRun
  BY <1>10, PipelineRunKeeps
<1>11. CASE UNCHANGED vars
  BY <1>11 DEF vars, TypeOK, Routing
<1> QED
  BY <1>3, <1>4, <1>5, <1>6, <1>7, <1>8, <1>9, <1>10, <1>11 DEF Next

\* The variables keep their types for any number of slots and addresses.
THEOREM TypeCorrect == Spec => []TypeOK
<1>1. IInv => TypeOK
  BY DEF IInv
<1> QED BY InitIInv, NextIInv, <1>1, PTL DEF Spec

\* Routing holds for any number of slots and addresses: what the switchers have
\* registered is exactly what feeds them (integrate_handler, run, and every
\* destruction of a source).
THEOREM RoutingCorrect == Spec => []Routing
<1>1. IInv => Routing
  BY DEF IInv
<1> QED BY InitIInv, NextIInv, <1>1, PTL DEF Spec
-----------------------------------------------------------------------------
Served(k) == {h \in Holder : handler[h] = k /\ target[h] # NoTarget}

\* What a step does to a source that is served, for one holder.
Keeps(h) == (target[h] # NoTarget /\ handler'[h] = handler[h])
                => target'[h] \in {target[h], Primary(handler[h])}

\* A new source finds a place exactly when less than two of its kind are left.
LEMMA PlaceFound ==
    ASSUME TypeOK, Routing, NEW H \in SUBSET Holder, NEW k \in Kind
    PROVE  Placement(Expired(H), k) # NoTarget <=> Cardinality(Served(k) \ H) < 2
<1> DEFINE a == Expired(H)[Primary(k)][k]
           b == Expired(H)[Secondary(k)][k]
           R == Served(k) \ H
<1>1. \A s \in Switcher : Expired(H)[s][k] = IF source[s][k] \in H THEN NoSource ELSE source[s][k]
  BY DEF Expired
<1>2. \A s \in Switcher : source[s][k] \in Holder \cup {NoSource}
  BY DEF TypeOK
<1>3. \A s \in Switcher, x \in Holder : source[s][k] = x <=> (handler[x] = k /\ target[x] = s)
  BY DEF Routing
<1>4. \A x \in Holder : target[x] # NoTarget <=> target[x] \in Switcher
  BY NamesAssumption DEF TypeOK
<1>5. \A x : x \in R <=> (x # NoSource /\ (x = a \/ x = b))
  <2>1. ASSUME NEW x, x \in R PROVE x # NoSource /\ (x = a \/ x = b)
    <3>1. x \in Holder /\ x \notin H /\ handler[x] = k /\ target[x] \in Switcher
      BY <1>4, <2>1 DEF Served
    <3>2. source[target[x]][k] = x
      BY <1>3, <3>1
    <3> QED BY <1>1, <3>1, <3>2, KindPlaces, NamesAssumption
  <2>2. ASSUME NEW s \in Switcher, NEW x, x # NoSource, x = Expired(H)[s][k] PROVE x \in R
    <3>1. x = source[s][k] /\ x \notin H /\ x \in Holder
      BY <1>1, <1>2, <2>2
    <3>2. handler[x] = k /\ target[x] = s
      BY <1>3, <3>1
    <3> QED BY <3>1, <3>2, NamesAssumption DEF Served
  <2> QED BY <2>1, <2>2, KindPlaces
<1>6. a # NoSource /\ b # NoSource => a # b
  BY <1>1, <1>2, <1>3, KindPlaces
<1>7. Placement(Expired(H), k) # NoTarget <=> (a = NoSource \/ b = NoSource)
  BY KindPlaces, NamesAssumption DEF Placement
<1> HIDE DEF a, b, R
<1>8. CASE a = NoSource /\ b = NoSource
  <2>1. R = {}
    BY <1>5, <1>8
  <2> QED BY <1>7, <1>8, <2>1, FS_EmptySet DEF R
<1>9. CASE (a = NoSource) # (b = NoSource)
  <2>1. R = {IF a = NoSource THEN b ELSE a}
    BY <1>5, <1>9
  <2>2. Cardinality(R) = 1
    BY <2>1, FS_Singleton
  <2> QED BY <1>7, <1>9, <2>2 DEF R
<1>10. CASE a # NoSource /\ b # NoSource
  <2>1. R = {a} \cup {b}
    BY <1>5, <1>10
  <2>2. IsFiniteSet({a}) /\ Cardinality({a}) = 1
    BY FS_Singleton
  <2>3. Cardinality(R) = 2
    BY <1>6, <1>10, <2>1, <2>2, FS_AddElement
  <2> QED BY <1>7, <1>10, <2>3 DEF R
<1> QED BY <1>8, <1>9, <1>10

\* A holder without a source sends nothing anywhere.
Detached == \A h \in Holder : target[h] # NoTarget => handler[h] \in Kind

\* Destroying sources is an Unplug of the pool.
LEMMA DestroyUnplugs ==
    ASSUME TypeOK, Detached, NEW H \in SUBSET Holder, Destroy(H)
    PROVE  Pool!Unplug(H) /\ Detached' /\ \A h \in Holder : Keeps(h)
<1>1. ASSUME NEW h \in Holder
      PROVE  /\ handler'[h] = IF h \in H THEN NoHandler ELSE handler[h]
             /\ target'[h] = IF h \in H THEN NoTarget ELSE target[h]
  BY DEF Destroy
<1>2. Pool!Unplug(H)
  BY <1>1, NamesAssumption DEF Pool!Unplug
<1>3. Detached'
  BY <1>1 DEF Detached
<1>4. \A h \in Holder : Keeps(h)
  BY <1>1, NamesAssumption DEF Keeps, Detached
<1> QED BY <1>2, <1>3, <1>4

\* Integrating a source is a Replace of the pool.
LEMMA ReplaceReplaces ==
    ASSUME TypeOK, Routing, Detached, NEW H \in SUBSET Holder, NEW g \in H,
           NEW j \in Kind, Replace(H, g, j)
    PROVE  Pool!Replace(H, g, j) /\ Detached' /\ \A h \in Holder : Keeps(h)
<1> DEFINE p == Placement(Expired(H), j)
<1>0. j # NoHandler /\ g \in Holder
  BY NamesAssumption
<1>1. ASSUME NEW h \in Holder
      PROVE  /\ handler'[h] = IF h = g THEN j ELSE IF h \in H THEN NoHandler ELSE handler[h]
             /\ target'[h] = IF h = g THEN p ELSE IF h \in H THEN NoTarget ELSE target[h]
  BY DEF Replace
<1>2. p # NoTarget <=> Cardinality(Served(j) \ H) < 2
  BY PlaceFound
<1>3. ASSUME target[g] # NoTarget, handler[g] = j PROVE p \in {target[g], Primary(j)}
  <2>1. target[g] \in Switcher /\ source[target[g]][j] = g
    BY <1>0, <1>3 DEF TypeOK, Routing
  <2>2. Expired(H)[target[g]][j] = NoSource
    BY <2>1 DEF Expired
  <2> QED BY <2>1, <2>2, KindPlaces DEF Placement
<1> HIDE DEF p
<1>4. Pool!Replace(H, g, j)
  <2>1. ASSUME NEW k \in Kind
        PROVE  {h \in Holder : handler'[h] = k}
                 = IF k = j THEN ({h \in Holder : handler[h] = k} \ H) \cup {g}
                   ELSE {h \in Holder : handler[h] = k} \ H
    BY <1>0, <1>1, NamesAssumption
  <2>2. ASSUME NEW k \in Kind
        PROVE  {h \in Holder : handler'[h] = k /\ target'[h] # NoTarget}
                 = IF k = j /\ Cardinality(Served(k) \ H) < 2
                   THEN (Served(k) \ H) \cup {g} ELSE Served(k) \ H
    <3>1. ASSUME NEW h \in Holder
          PROVE  (handler'[h] = k /\ target'[h] # NoTarget)
                   <=> \/ h \in Served(k) \ H
                       \/ h = g /\ k = j /\ p # NoTarget
      BY <1>0, <1>1, NamesAssumption DEF Served
    <3> QED BY <1>0, <1>2, <3>1 DEF Served
  <2>3. \A k \in Kind : {h \in Holder : handler[h] = k /\ target[h] # NoTarget} = Served(k)
    BY DEF Served
  <2>4. [k \in Kind |-> {h \in Holder : handler'[h] = k}]
          = [k \in Kind |-> IF k = j THEN ({h \in Holder : handler[h] = k} \ H) \cup {g}
                            ELSE {h \in Holder : handler[h] = k} \ H]
    BY <2>1
  <2>5. [k \in Kind |-> {h \in Holder : handler'[h] = k /\ target'[h] # NoTarget}]
          = [k \in Kind |-> IF k = j /\ Cardinality(Served(k) \ H) < 2
                            THEN (Served(k) \ H) \cup {g} ELSE Served(k) \ H]
    BY <2>2
  <2>6. \A S : Pool!Cardinality(S) = Cardinality(S)
    BY DEF Pool!Cardinality, Cardinality, Pool!IsFiniteSet, IsFiniteSet
  <2> QED BY <2>3, <2>4, <2>5, <2>6 DEF Pool!Replace
<1>5. Detached'
  BY <1>1 DEF Detached
<1>6. ASSUME NEW h \in Holder PROVE Keeps(h)
  BY <1>1, <1>3, NamesAssumption DEF Keeps, Detached
<1> QED BY <1>4, <1>5, <1>6

\* A promotion moves a served source to its primary switcher and no other.
LEMMA PromoteServes ==
    ASSUME handler \in [Holder -> Kind \cup {NoHandler}],
           NEW w, WiringType(w), Wired(w.target, w.source), NEW j \in Kind,
           NEW h \in Holder
    PROVE  LET v == Promote(j, w)
           IN  \/ v.target[h] = w.target[h]
               \/ /\ handler[h] = j /\ v.target[h] = Primary(j)
                  /\ w.target[h] # NoTarget /\ v.target[h] # NoTarget
<1>1. CASE ~Alone(j, w.source)
  BY <1>1 DEF Promote
<1>2. CASE Alone(j, w.source)
  <2> DEFINE g == w.source[Secondary(j)][j]
  <2>1. Promote(j, w).target = [w.target EXCEPT ![g] = Primary(j)]
    BY <1>2 DEF Promote
  <2>2. g \in Holder /\ handler[g] = j /\ w.target[g] = Secondary(j)
    BY <1>2, KindPlaces DEF Alone, WiringType, Wired
  <2> QED BY <2>1, <2>2, KindPlaces, NamesAssumption DEF WiringType
<1> QED BY <1>1, <1>2

\* A run is a stutter of the pool: promotions serve whom they served before.
LEMMA PipelineRunServes ==
    ASSUME TypeOK, Routing, Detached, PipelineRun
    PROVE  (UNCHANGED Pool!vars) /\ Detached' /\ \A h \in Holder : Keeps(h)
<1> DEFINE u == [target |-> target, source |-> source]
           v == Promote("kGamePad", u)
           w == Promote("kMouse", v)
<1>1. WiringType(u) /\ Wired(u.target, u.source) /\ u.target = target
  BY DEF WiringType, Wired, TypeOK, Routing
<1>2. handler \in [Holder -> Kind \cup {NoHandler}]
  BY DEF TypeOK
<1>3. "kMouse" \in Kind /\ "kGamePad" \in Kind
  BY DEF Kind
<1>4. target' = w.target /\ handler' = handler
  BY DEF PipelineRun
<1> HIDE DEF u
<1>5. WiringType(v) /\ Wired(v.target, v.source)
  BY <1>1, <1>2, <1>3, PromoteKeeps
<1>6. ASSUME NEW h \in Holder
      PROVE  \/ v.target[h] = target[h]
             \/ /\ v.target[h] = Primary(handler[h])
                /\ target[h] # NoTarget /\ v.target[h] # NoTarget
  BY <1>1, <1>2, <1>3, PromoteServes
<1> HIDE DEF v
<1>7. ASSUME NEW h \in Holder
      PROVE  \/ w.target[h] = v.target[h]
             \/ /\ w.target[h] = Primary(handler[h])
                /\ v.target[h] # NoTarget /\ w.target[h] # NoTarget
  BY <1>5, <1>2, <1>3, PromoteServes
<1> HIDE DEF w
<1>8. ASSUME NEW h \in Holder
      PROVE  /\ target'[h] # NoTarget <=> target[h] # NoTarget
             /\ target'[h] \in {target[h], Primary(handler[h])}
  BY <1>4, <1>6, <1>7
<1>9. \A k \in Kind : {h \in Holder : handler'[h] = k /\ target'[h] # NoTarget}
                        = {h \in Holder : handler[h] = k /\ target[h] # NoTarget}
  BY <1>4, <1>8
<1>10. UNCHANGED Pool!vars
  BY <1>4, <1>9 DEF Pool!vars
<1> QED BY <1>4, <1>8, <1>10 DEF Keeps, Detached

Serves == [Pool!Next]_(Pool!vars) /\ Detached' /\ \A h \in Holder : Keeps(h)

\* One step: it is a step of the pool, or leaves it alone, and every source that
\* is served and stays keeps its place.
LEMMA StepServes ==
    ASSUME TypeOK, Routing, Detached, [Next]_vars
    PROVE  Serves
<1>1. "kGamePad" \in Kind /\ HidInstance \subseteq Holder
  BY DEF Kind, Holder
<1>2. ASSUME NEW H \in SUBSET Holder, Destroy(H) PROVE Serves
  BY <1>2, DestroyUnplugs DEF Serves, Pool!Next
<1>3. ASSUME NEW H \in SUBSET Holder, NEW g \in H, NEW j \in Kind, Replace(H, g, j)
      PROVE  Serves
  BY <1>3, ReplaceReplaces DEF Serves, Pool!Next
<1>4. CASE PipelineRun
  BY <1>4, PipelineRunServes DEF Serves
<1>5. CASE UNCHANGED vars
  BY <1>5 DEF vars, Pool!vars, Detached, Keeps, Serves
<1>6. ASSUME NEW i \in HidInstance, NEW k \in Kind, HidMount(i, k) PROVE Serves
  BY <1>1, <1>3, <1>6 DEF HidMount
<1>7. ASSUME NEW i \in HidInstance, HidMountUnsupported(i) \/ HidUmount(i) PROVE Serves
  BY <1>1, <1>2, <1>7 DEF HidMountUnsupported, HidUmount
<1>8. ASSUME NEW a \in Addr, MountXboxOne(a) PROVE Serves
  BY <1>1, <1>3, <1>8, OwnedByHolder DEF MountXboxOne
<1>9. ASSUME NEW a \in Addr, MountReceiver(a) \/ BareUmount(a) PROVE Serves
  BY <1>2, <1>9, OwnedByHolder DEF MountReceiver, BareUmount
<1>10. ASSUME NEW a \in Addr, NEW n \in {0, 1}, PadConnected(a, n) PROVE Serves
  BY <1>1, <1>3, <1>10, OwnedByHolder DEF PadConnected
<1>11. ASSUME NEW a \in Addr, NEW n \in {0, 1}, PadDisconnected(a, n) PROVE Serves
  BY <1>2, <1>11, OwnedByHolder DEF PadDisconnected
<1> QED
  BY <1>4, <1>5, <1>6, <1>7, <1>8, <1>9, <1>10, <1>11 DEF Next

\* The initial wiring is the empty pool.
LEMMA InitServes == Init => Detached /\ Pool!Init
  BY NamesAssumption DEF Init, Detached, Pool!Init

\* A device that a port listens to keeps a port for as long as it stays
\* attached, however many slots and addresses there are.
THEOREM ServiceKeptAlways == Spec => ServiceKept
<1>1. IInv /\ Detached /\ [Next]_vars
        => IInv' /\ Detached'
  BY NextIInv, StepServes DEF IInv, Serves
<1>2. IInv /\ Detached /\ [Next]_vars
        => [\A h \in Holder :
              (target[h] # NoTarget /\ handler'[h] = handler[h])
                  => target'[h] \in {target[h], Primary(handler[h])}]_vars
  BY StepServes DEF IInv, Serves, Keeps
<1>3. Init => IInv /\ Detached
  BY InitIInv, InitServes
<1> QED BY <1>1, <1>2, <1>3, PTL DEF Spec, ServiceKept

\* The wiring of the pipeline implements the pool that serves two sources of
\* each kind in the order of their arrival.
THEOREM RegistryImplementsPool == Spec => ImplementsPool
<1>1. IInv /\ Detached /\ [Next]_vars => IInv' /\ Detached'
  BY NextIInv, StepServes DEF IInv, Serves
<1>2. IInv /\ Detached /\ [Next]_vars => [Pool!Next]_(Pool!vars)
  BY StepServes DEF IInv, Serves
<1>3. Init => IInv /\ Detached /\ Pool!Init
  BY InitIInv, InitServes
<1> QED BY <1>1, <1>2, <1>3, PTL DEF Spec, ImplementsPool, Pool!Spec
=============================================================================
