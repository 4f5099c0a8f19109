--------------------------- MODULE HAProxyProofs ---------------------------
(***************************************************************************)
(* Proofs about HAProxy, for requests of any length over any pieces.       *)
(***************************************************************************)
EXTENDS HAProxy, SequenceTheorems, TLAPS

-----------------------------------------------------------------------------
(* Paths and rules.                                                        *)

LEMMA PathType ==
  ASSUME NEW p \in Path
  PROVE  p \in Seq(Piece) /\ Len(p) \in Nat /\ Len(p) >= 1
<1>1. PICK n \in 1 .. MaxPieces : p \in [1 .. n -> Piece]
  BY DEF Path
<1>2. n \in Nat /\ n >= 1
  BY <1>1, HAProxyAssumption
<1>3. p \in Seq(Piece) /\ Len(p) = n
  BY <1>1, <1>2
<1> QED
  BY <1>2, <1>3

\* path_beg with a prefix of one piece or of two.
LEMMA PathBegOne ==
  ASSUME NEW p \in Seq(Piece), NEW x
  PROVE  PathBeg(p, <<x>>) <=> Len(p) >= 1 /\ p[1] = x
<1>1. ASSUME Len(p) >= 1 PROVE SubSeq(p, 1, 1) = <<p[1]>>
  <2>1. \A n \in 1 .. 1 : p[n] \in Piece
    BY <1>1
  <2>2. /\ SubSeq(p, 1, 1) \in Seq(Piece) /\ Len(SubSeq(p, 1, 1)) = 1
        /\ SubSeq(p, 1, 1)[1] = p[1]
    BY <2>1, SubSeqProperties
  <2>3. <<p[1]>> \in Seq(Piece) /\ Len(<<p[1]>>) = 1 /\ <<p[1]>>[1] = p[1]
    BY <2>1
  <2>4. \A n \in 1 .. Len(SubSeq(p, 1, 1)) : SubSeq(p, 1, 1)[n] = <<p[1]>>[n]
    BY <2>2, <2>3
  <2> QED
    BY <2>2, <2>3, <2>4, SeqEqual
<1>2. Len(<<x>>) = 1 /\ \A y : <<y>> = <<x>> <=> y = x
  OBVIOUS
<1> QED
  BY <1>1, <1>2 DEF PathBeg

LEMMA PathBegTwo ==
  ASSUME NEW p \in Seq(Piece), NEW x, NEW y
  PROVE  PathBeg(p, <<x, y>>) <=> Len(p) >= 2 /\ p[1] = x /\ p[2] = y
<1>1. ASSUME Len(p) >= 2 PROVE SubSeq(p, 1, 2) = <<p[1], p[2]>>
  <2> DEFINE t == <<p[1], p[2]>>
  <2>1. \A n \in 1 .. 2 : p[n] \in Piece
    BY <1>1
  <2>2. /\ SubSeq(p, 1, 2) \in Seq(Piece) /\ Len(SubSeq(p, 1, 2)) = 2
        /\ \A n \in 1 .. 2 : SubSeq(p, 1, 2)[n] = p[n]
    BY <2>1, SubSeqProperties
  <2>3. t \in Seq(Piece) /\ Len(t) = 2 /\ t[1] = p[1] /\ t[2] = p[2]
    BY <2>1
  <2>4. \A n \in 1 .. Len(SubSeq(p, 1, 2)) : SubSeq(p, 1, 2)[n] = t[n]
    BY <2>2, <2>3
  <2> QED
    BY <2>2, <2>3, <2>4, SeqEqual
<1>2. Len(<<x, y>>) = 2 /\ \A w, z : <<w, z>> = <<x, y>> <=> w = x /\ z = y
  OBVIOUS
<1> QED
  BY <1>1, <1>2 DEF PathBeg

\* The rules are at most eight, and each names a declared backend.
LEMMA SwitchRulesType ==
  /\ Len(SwitchRules) \in 0 .. 8
  /\ \A n \in 1 .. Len(SwitchRules) : SwitchRules[n].to \in MainBackend \cup MonBackend
<1>1. CASE req.front = "http_in"
  BY <1>1 DEF SwitchRules, MainSwitch, MainBackend
<1>2. CASE req.front = "monitoring_in"
  BY <1>2 DEF SwitchRules, MonSwitch, MonBackend
<1>3. CASE req.front \notin {"http_in", "monitoring_in"}
  BY <1>3 DEF SwitchRules
<1> QED
  BY <1>1, <1>2, <1>3

-----------------------------------------------------------------------------
(* Type correctness.                                                       *)

LEMMA TypeStep ==
  ASSUME TypeOK, [Next]_vars
  PROVE  TypeOK'
<1> USE DEF TypeOK
<1>1. CASE MainRequestRule
  BY <1>1 DEF MainRequestRule, Finish, ToSwitch
<1>2. CASE StatsRequestRule
  BY <1>2 DEF StatsRequestRule, Finish
<1>3. CASE DenyRule
  BY <1>3 DEF DenyRule, DenyAt, Finish, Skip
<1>4. CASE HealthRule
  BY <1>4 DEF HealthRule, DenyAt, Finish, Skip
<1>5. CASE SetPathRule
  <2>1. Len(MonSwitch) = 6
    BY DEF MonSwitch
  <2>2. rule \in 3 .. 8
    BY <1>5, <2>1 DEF SetPathRule
  <2>3. path' \in Seq(Piece)
    <3>1. Len(MonSwitch[rule - 2].acl) = 1
      BY <2>2 DEF MonSwitch
    <3>2. SubSeq(path, 2, Len(path)) \in Seq(Piece)
      OBVIOUS
    <3> QED
      BY <1>5, <3>1, <3>2 DEF SetPathRule
  <2> QED
    BY <1>5, <2>1, <2>2, <2>3 DEF SetPathRule
<1>6. CASE SwitchRule
  <2>1. rule \in 1 .. Len(SwitchRules) /\ rule + 1 \in 1 .. 9
    BY <1>6, SwitchRulesType DEF SwitchRule
  <2>2. Finish(SwitchRules[rule].to) \/ Skip
    BY <1>6, Zenon DEF SwitchRule
  <2>3. SwitchRules[rule].to \in MainBackend \cup MonBackend
    BY <2>1, SwitchRulesType
  <2> QED
    BY <2>1, <2>2, <2>3 DEF Finish, Skip
<1>7. CASE DefaultRule
  BY <1>7 DEF DefaultRule, DefaultBackend, Finish, MainBackend, MonBackend
<1>8. CASE UNCHANGED vars
  BY <1>8 DEF vars
<1> QED
  BY <1>1, <1>2, <1>3, <1>4, <1>5, <1>6, <1>7, <1>8 DEF Next

\* Every request keeps its type on its way: no rule is looked up past the end
\* of its list, whatever a set-path rule has left of the path, and it goes to
\* no backend that is not declared.
THEOREM TypeCorrect == Spec => []TypeOK
<1>1. Init => TypeOK
  BY PathType DEF Init, TypeOK, Request
<1>2. TypeOK /\ [Next]_vars => TypeOK'
  BY TypeStep
<1> QED
  BY <1>1, <1>2, PTL DEF Spec

-----------------------------------------------------------------------------
(* Who gets through.                                                       *)

\* A stranger is still before the rule that sends it away, or has its answer.
StrangerInv ==
  AllowList /\ req.front = "monitoring_in" /\ ~req.known =>
    \/ step = "request" /\ rule \in 1 .. DenyAt /\ path = req.path /\ verdict = "none"
    \/ step = "done" /\ verdict = "403"
    \/ /\ step = "done" /\ verdict = "200"
       /\ req.conf = "manifest" /\ req.path = <<"/healthz">>

LEMMA StrangerStep ==
  ASSUME TypeOK, StrangerInv, [Next]_vars
  PROVE  StrangerInv'
<1> SUFFICES ASSUME AllowList, req'.front = "monitoring_in", ~req'.known
             PROVE  StrangerInv'
  BY DEF StrangerInv
<1>1. req' = req
  BY DEF Next, vars, MainRequestRule, StatsRequestRule, DenyRule, HealthRule, SetPathRule,
     SwitchRule, DefaultRule, Finish, Skip, ToSwitch
<1>2. CASE step = "done"
  <2>1. UNCHANGED vars
    BY <1>2 DEF Next, MainRequestRule, StatsRequestRule, DenyRule, HealthRule, SetPathRule,
       SwitchRule, DefaultRule
  <2> QED
    BY <2>1 DEF StrangerInv, DenyAt, vars
<1>3. CASE step # "done"
  <2>1. step = "request" /\ rule \in 1 .. DenyAt /\ path = req.path /\ verdict = "none"
    BY <1>1, <1>3 DEF StrangerInv
  <2>2. CASE DenyRule
    BY <1>1, <2>2 DEF DenyRule, Finish, StrangerInv
  <2>3. CASE HealthRule
    <3>1. rule = 1 /\ DenyAt = 2 /\ req.conf = "manifest"
      BY <2>1, <2>3 DEF HealthRule, DenyAt, TypeOK, Request
    <3>2. DenyAt' = DenyAt
      BY <1>1 DEF DenyAt
    <3> QED
      BY <1>1, <2>1, <2>3, <3>1, <3>2 DEF HealthRule, Finish, Skip, StrangerInv
  <2>4. CASE UNCHANGED vars
    BY <2>4 DEF StrangerInv, DenyAt, vars
  <2>5. ~SetPathRule
    <3>1. rule \notin 3 .. 2 + Len(MonSwitch)
      BY <2>1 DEF DenyAt, MonSwitch
    <3> QED
      BY <3>1, Zenon DEF SetPathRule
  <2>6. ~MainRequestRule /\ ~StatsRequestRule /\ ~SwitchRule /\ ~DefaultRule
    BY <1>1, <2>1 DEF MainRequestRule, StatsRequestRule, SwitchRule, DefaultRule
  <2> QED
    BY <2>2, <2>3, <2>4, <2>5, <2>6 DEF Next
<1> QED
  BY <1>2, <1>3

\* With an allow list, a client outside it gets 403 from the monitoring port,
\* whatever its path: from the chart's nothing else, from the manifest's
\* nothing else but /healthz.
THEOREM StrangersDeniedHolds == Spec => []StrangersDenied
<1>1. Init => StrangerInv
  BY DEF Init, StrangerInv, DenyAt
<1>2. TypeOK /\ StrangerInv /\ [Next]_vars => StrangerInv'
  BY StrangerStep
<1>3. StrangerInv => StrangersDenied
  BY DEF StrangerInv, StrangersDenied
<1> QED
  BY <1>1, <1>2, <1>3, TypeCorrect, PTL DEF Spec

-----------------------------------------------------------------------------
(* Routing.                                                                *)

\* Use_backend rule n of http_in applies to the request as received.
Applies(n) ==
  /\ PathBeg(req.path, MainSwitch[n].acl)
  /\ MainSwitch[n].ws => req.ws

Decides(n) ==
  /\ Applies(n)
  /\ \A m \in 1 .. n - 1 : ~Applies(m)

\* No rule that was passed applies, and the verdict is that of the first that
\* does.
RoutingInv ==
  req.front = "http_in" =>
    /\ path = req.path
    /\ step = "switch" => \A n \in 1 .. rule - 1 : ~Applies(n)
    /\ step = "done" =>
         \/ verdict = "301"
         \/ \E n \in 1 .. 8 : Decides(n) /\ verdict = MainSwitch[n].to
         \/ (\A n \in 1 .. 8 : ~Applies(n)) /\ verdict = "be_orchestration"

LEMMA RoutingStep ==
  ASSUME TypeOK, RoutingInv, [Next]_vars
  PROVE  RoutingInv'
<1> SUFFICES ASSUME req'.front = "http_in"
             PROVE  /\ path' = req'.path
                    /\ step' = "switch" => \A n \in 1 .. rule' - 1 : ~Applies(n)'
                    /\ step' = "done" =>
                         \/ verdict' = "301"
                         \/ \E n \in 1 .. 8 : Decides(n)' /\ verdict' = MainSwitch[n].to
                         \/ (\A n \in 1 .. 8 : ~Applies(n)') /\ verdict' = "be_orchestration"
  BY DEF RoutingInv
<1>1. req' = req
  BY DEF Next, vars, MainRequestRule, StatsRequestRule, DenyRule, HealthRule, SetPathRule,
     SwitchRule, DefaultRule, Finish, Skip, ToSwitch
<1>2. /\ req.front = "http_in" /\ path = req.path
      /\ \A n : Applies(n)' <=> Applies(n)
      /\ \A n : Decides(n)' <=> Decides(n)
  BY <1>1 DEF RoutingInv, Applies, Decides
<1>3. SwitchRules = MainSwitch /\ Len(MainSwitch) = 8 /\ DefaultBackend = "be_orchestration"
  BY <1>2 DEF SwitchRules, MainSwitch, DefaultBackend
<1>4. CASE MainRequestRule
  <2>1. path' = path /\ (Finish("301") \/ ToSwitch)
    BY <1>4 DEF MainRequestRule, Finish, ToSwitch
  <2> QED
    BY <1>1, <1>2, <2>1 DEF Finish, ToSwitch
<1>5. CASE SwitchRule
  <2>1. /\ step = "switch" /\ rule \in 1 .. 8
        /\ \A n \in 1 .. rule - 1 : ~Applies(n)
    BY <1>2, <1>3, <1>5 DEF SwitchRule, RoutingInv, TypeOK
  <2>2. CASE Applies(rule)
    <3>1. Finish(MainSwitch[rule].to)
      BY <1>2, <1>3, <1>5, <2>2, Zenon DEF SwitchRule, Applies
    <3>2. Decides(rule)
      BY <2>1, <2>2 DEF Decides
    <3> QED
      BY <1>1, <1>2, <2>1, <3>1, <3>2 DEF Finish
  <2>3. CASE ~Applies(rule)
    <3>1. Skip
      BY <1>2, <1>3, <1>5, <2>3, Zenon DEF SwitchRule, Applies
    <3>2. \A n \in 1 .. rule : ~Applies(n)
      BY <2>1, <2>3
    <3> QED
      BY <1>1, <1>2, <2>1, <3>1, <3>2 DEF Skip
  <2> QED
    BY <2>2, <2>3
<1>6. CASE DefaultRule
  <2>1. /\ Finish("be_orchestration") /\ step = "switch" /\ rule > 8
        /\ \A n \in 1 .. rule - 1 : ~Applies(n)
    BY <1>2, <1>3, <1>6 DEF DefaultRule, RoutingInv
  <2>2. \A n \in 1 .. 8 : ~Applies(n)
    BY <2>1 DEF TypeOK
  <2> QED
    BY <1>1, <1>2, <2>1, <2>2 DEF Finish
<1>7. CASE UNCHANGED vars
  BY <1>1, <1>2, <1>7 DEF vars, RoutingInv
<1>8. ~StatsRequestRule /\ ~DenyRule /\ ~HealthRule /\ ~SetPathRule
  BY <1>2 DEF StatsRequestRule, DenyRule, HealthRule, SetPathRule
<1> QED
  BY <1>4, <1>5, <1>6, <1>7, <1>8 DEF Next

\* The rules spelled out.
LEMMA AppliesTo ==
  ASSUME req \in Request
  PROVE  LET p == req.path IN
         /\ Applies(1) <=> p[1] = "/auth"
         /\ Applies(2) <=> p[1] = "/identity"
         /\ Applies(3) <=> p[1] = "/optimize"
         /\ Applies(4) <=> Len(p) >= 2 /\ p[1] = "/modeler" /\ p[2] = "-ws"
         /\ Applies(5) <=> p[1] = "/modeler" /\ req.ws
         /\ Applies(6) <=> p[1] = "/modeler"
         /\ Applies(7) <=> p[1] = "/console"
         /\ Applies(8) <=> p[1] = "/connectors"
<1>1. req.path \in Seq(Piece) /\ Len(req.path) \in Nat /\ Len(req.path) >= 1
  BY PathType DEF Request
<1>2. \A x : PathBeg(req.path, <<x>>) <=> req.path[1] = x
  BY <1>1, PathBegOne
<1>3. \A x, y : PathBeg(req.path, <<x, y>>) <=>
                  Len(req.path) >= 2 /\ req.path[1] = x /\ req.path[2] = y
  BY <1>1, PathBegTwo
<1> QED
  BY <1>2, <1>3 DEF Applies, MainSwitch

\* The first segment of the path of a request, in terms of its pieces.
LEMMA FirstSegmentIs ==
  ASSUME req \in Request
  PROVE  /\ \A x : FirstSegment(req.path, <<x>>) <=>
              req.path[1] = x /\ (Len(req.path) > 1 => req.path[2] \in Segment)
         /\ \A x, y : FirstSegment(req.path, <<x, y>>) =>
              Len(req.path) >= 2 /\ req.path[1] = x /\ req.path[2] = y
         /\ \A x : PathBeg(req.path, <<x>>) <=> req.path[1] = x
<1>1. req.path \in Seq(Piece) /\ Len(req.path) \in Nat /\ Len(req.path) >= 1
  BY PathType DEF Request
<1>2. \A x : PathBeg(req.path, <<x>>) <=> req.path[1] = x
  BY <1>1, PathBegOne
<1>3. \A x, y : PathBeg(req.path, <<x, y>>) <=>
                  Len(req.path) >= 2 /\ req.path[1] = x /\ req.path[2] = y
  BY <1>1, PathBegTwo
<1>4. \A x : Len(<<x>>) = 1
  OBVIOUS
<1> QED
  BY <1>2, <1>3, <1>4 DEF FirstSegment

\* The rules of http_in, taken in their order, route as the documented table
\* says, which has no order: for paths of any length and any pieces.
THEOREM MainRoutingHolds == Spec => []MainRouting
<1>1. Init => RoutingInv
  BY DEF Init, RoutingInv
<1>2. TypeOK /\ RoutingInv /\ [Next]_vars => RoutingInv'
  BY RoutingStep
<1>3. ASSUME TypeOK, RoutingInv PROVE MainRouting
  <2> SUFFICES ASSUME step = "done", req.front = "http_in", verdict # "301"
               PROVE  /\ \A b \in DOMAIN ContextPath : FirstSegment(req.path, ContextPath[b]) =>
                           verdict = IF b = "be_modeler" /\ req.ws THEN "be_modeler_ws" ELSE b
                      /\ (\A b \in DOMAIN ContextPath : ~PathBeg(req.path, ContextPath[b])) =>
                           verdict = "be_orchestration"
                      /\ path = req.path
    BY DEF MainRouting
  <2> DEFINE p == req.path
  <2>1. req \in Request /\ path = req.path
    BY <1>3 DEF TypeOK, RoutingInv
  <2>2. \/ Decides(1) /\ verdict = "be_keycloak"
        \/ Decides(2) /\ verdict = "be_identity"
        \/ Decides(3) /\ verdict = "be_optimize"
        \/ Decides(4) /\ verdict = "be_modeler_ws"
        \/ Decides(5) /\ verdict = "be_modeler_ws"
        \/ Decides(6) /\ verdict = "be_modeler"
        \/ Decides(7) /\ verdict = "be_console"
        \/ Decides(8) /\ verdict = "be_connectors"
        \/ (\A n \in 1 .. 8 : ~Applies(n)) /\ verdict = "be_orchestration"
    BY <1>3 DEF RoutingInv, MainSwitch
  <2>3. \/ p[1] = "/auth" /\ verdict = "be_keycloak"
        \/ p[1] = "/identity" /\ verdict = "be_identity"
        \/ p[1] = "/optimize" /\ verdict = "be_optimize"
        \/ Len(p) >= 2 /\ p[1] = "/modeler" /\ p[2] = "-ws" /\ verdict = "be_modeler_ws"
        \/ p[1] = "/modeler" /\ req.ws /\ verdict = "be_modeler_ws"
        \/ /\ p[1] = "/modeler" /\ ~req.ws /\ ~(Len(p) >= 2 /\ p[2] = "-ws")
           /\ verdict = "be_modeler"
        \/ p[1] = "/console" /\ verdict = "be_console"
        \/ p[1] = "/connectors" /\ verdict = "be_connectors"
        \/ /\ p[1] \notin {"/auth", "/identity", "/optimize", "/modeler", "/console", "/connectors"}
           /\ verdict = "be_orchestration"
    BY <2>1, <2>2, AppliesTo DEF Decides
  <2>4. "-ws" \notin Segment
    BY PieceAssumption
  <2>5. Len(p) \in Nat
    BY <2>1, PathType DEF Request
  <2>6. ASSUME NEW b \in DOMAIN ContextPath, FirstSegment(p, ContextPath[b])
        PROVE  verdict = IF b = "be_modeler" /\ req.ws THEN "be_modeler_ws" ELSE b
    <3>1. b \in {"be_keycloak", "be_identity", "be_optimize", "be_modeler", "be_modeler_ws",
                 "be_console", "be_connectors"}
      BY DEF ContextPath
    <3>2. CASE b = "be_modeler_ws"
      BY <2>1, <2>3, <2>6, <3>2, FirstSegmentIs DEF ContextPath
    <3>3. CASE b = "be_modeler"
      BY <2>1, <2>3, <2>4, <2>5, <2>6, <3>3, FirstSegmentIs DEF ContextPath
    <3>4. CASE b \notin {"be_modeler_ws", "be_modeler"}
      BY <2>1, <2>3, <2>6, <3>1, <3>4, FirstSegmentIs DEF ContextPath
    <3> QED
      BY <3>2, <3>3, <3>4
  <2>7. ASSUME \A b \in DOMAIN ContextPath : ~PathBeg(p, ContextPath[b])
        PROVE  verdict = "be_orchestration"
    <3>1. p[1] \notin {"/auth", "/identity", "/optimize", "/modeler", "/console", "/connectors"}
      BY <2>1, <2>7, FirstSegmentIs DEF ContextPath
    <3> QED
      BY <2>3, <3>1
  <2> QED
    BY <2>1, <2>6, <2>7
<1> QED
  BY <1>1, <1>2, <1>3, TypeCorrect, PTL DEF Spec
=============================================================================
