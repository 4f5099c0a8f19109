------------------------------ MODULE HAProxy ------------------------------
(***************************************************************************)
(* The HTTP frontends of the platform's single entry point: http_in (8080  *)
(* and 8443), monitoring_in (9090) and stats (8404), as haproxy.cfg sets   *)
(* them up in the chart and in the standalone manifest.  The two differ in *)
(* the order of the first two rules of monitoring_in.                      *)
(*                                                                         *)
(* HAProxy takes one request through the http-request rules of a frontend, *)
(* in order, and then through its use_backend rules; the first that        *)
(* applies decides.  An ACL is a test evaluated where it is used, on the   *)
(* path as it is by then.                                                  *)
(*                                                                         *)
(* A path is a sequence of pieces.  A Segment piece begins a segment of    *)
(* the path, a Suffix piece continues one: /modeler-ws/a is the sequence   *)
(* <<"/modeler", "-ws", "/a">>, and /modeler is a prefix of it.            *)
(***************************************************************************)
EXTENDS Naturals, Sequences

CONSTANTS
  Segment,       \* pieces that begin with a slash
  Suffix,        \* pieces that continue a segment
  MaxPieces,     \* bound on the length of a path
  RedirectHttp,  \* haproxy.tls.enabled and haproxy.tls.redirectHttp
  AllowList      \* haproxy.monitoring.allowedCidrs is not empty

ASSUME HAProxyAssumption ==
  /\ MaxPieces \in Nat \ {0}
  /\ RedirectHttp \in BOOLEAN
  /\ AllowList \in BOOLEAN

\* A piece begins with a slash or does not.
ASSUME PieceAssumption == "-ws" \in Suffix /\ Segment \cap Suffix = {}

Piece == Segment \cup Suffix

Path == {p \in UNION {[1 .. n -> Piece] : n \in 1 .. MaxPieces} : p[1] \in Segment}

Request == [conf  : {"chart", "manifest"},
            front : {"http_in", "monitoring_in", "stats"},
            path  : Path,
            ssl   : BOOLEAN,   \* ssl_fc: came in on the TLS port
            ws    : BOOLEAN,   \* is_ws: asks for an upgrade to websocket
            known : BOOLEAN]   \* mon_allowed: comes from an allowed network

VARIABLES
  req,     \* the request as received
  path,    \* its path as it is now
  step,    \* "request" rules, "switch" (use_backend) rules or "done"
  rule,    \* number of the next rule of that kind
  verdict  \* what became of the request

vars == <<req, path, step, rule, verdict>>

\* path_beg: a comparison of strings, blind to segments.
PathBeg(p, prefix) ==
  /\ Len(prefix) <= Len(p)
  /\ SubSeq(p, 1, Len(prefix)) = prefix

\* Variation: the rules for /modeler stand before the one for /modeler-ws.
MainSwitchShortFirst == <<
  [acl |-> <<"/auth">>,            ws |-> FALSE, to |-> "be_keycloak"],
  [acl |-> <<"/identity">>,        ws |-> FALSE, to |-> "be_identity"],
  [acl |-> <<"/optimize">>,        ws |-> FALSE, to |-> "be_optimize"],
  [acl |-> <<"/modeler">>,         ws |-> TRUE,  to |-> "be_modeler_ws"],
  [acl |-> <<"/modeler">>,         ws |-> FALSE, to |-> "be_modeler"],
  [acl |-> <<"/modeler", "-ws">>,  ws |-> FALSE, to |-> "be_modeler_ws"],
  [acl |-> <<"/console">>,         ws |-> FALSE, to |-> "be_console"],
  [acl |-> <<"/connectors">>,      ws |-> FALSE, to |-> "be_connectors"] >>

\* The use_backend rules of http_in: prefix, websocket only, backend.
MainSwitch == <<
  [acl |-> <<"/auth">>,            ws |-> FALSE, to |-> "be_keycloak"],
  [acl |-> <<"/identity">>,        ws |-> FALSE, to |-> "be_identity"],
  [acl |-> <<"/optimize">>,        ws |-> FALSE, to |-> "be_optimize"],
  [acl |-> <<"/modeler", "-ws">>,  ws |-> FALSE, to |-> "be_modeler_ws"],
  [acl |-> <<"/modeler">>,         ws |-> TRUE,  to |-> "be_modeler_ws"],
  [acl |-> <<"/modeler">>,         ws |-> FALSE, to |-> "be_modeler"],
  [acl |-> <<"/console">>,         ws |-> FALSE, to |-> "be_console"],
  [acl |-> <<"/connectors">>,      ws |-> FALSE, to |-> "be_connectors"] >>

\* The prefixes of monitoring_in, each with a set-path and a use_backend rule.
MonSwitch == <<
  [acl |-> <<"/orchestration">>,   ws |-> FALSE, to |-> "bem_orchestration"],
  [acl |-> <<"/optimize">>,        ws |-> FALSE, to |-> "bem_optimize"],
  [acl |-> <<"/identity">>,        ws |-> FALSE, to |-> "bem_identity"],
  [acl |-> <<"/console">>,         ws |-> FALSE, to |-> "bem_console"],
  [acl |-> <<"/web-modeler">>,     ws |-> FALSE, to |-> "bem_modeler"],
  [acl |-> <<"/connectors">>,      ws |-> FALSE, to |-> "bem_connectors"] >>

(***************************************************************************)
(* Paths are cut where the rules' prefixes end: no other piece begins with *)
(* one of these, or begins one, so that path_beg on the text is PathBeg on *)
(* the pieces.                                                             *)
(***************************************************************************)
ASSUME CutAssumption ==
  /\ \A x \in Segment :
       \A y \in {MainSwitch[n].acl[1] : n \in DOMAIN MainSwitch} \cup
               {MonSwitch[n].acl[1] : n \in DOMAIN MonSwitch} \cup
               {"/healthz", "/stats", "/actuator"} :
         x # y => ~PathBeg(x, y) /\ ~PathBeg(y, x)
  /\ \A x \in Suffix \ {"-ws"} : ~PathBeg(x, "-ws") /\ ~PathBeg("-ws", x)

SwitchRules == CASE req.front = "http_in"       -> MainSwitch
                 [] req.front = "monitoring_in" -> MonSwitch
                 [] OTHER                       -> <<>>

\* Variation: a default that no backend section declares.
DefaultBackendUndeclared == CASE req.front = "http_in"       -> "be_zeebe_gateway"
                              [] req.front = "monitoring_in" -> "bem_noop"
                              [] OTHER                       -> "none"

DefaultBackend == CASE req.front = "http_in"       -> "be_orchestration"
                    [] req.front = "monitoring_in" -> "bem_noop"
                    [] OTHER                       -> "none"

Finish(v) ==
  /\ step' = "done"
  /\ verdict' = v
  /\ UNCHANGED <<req, path, rule>>

Skip == rule' = rule + 1 /\ UNCHANGED <<req, path, step, verdict>>

\* On to the use_backend rules.
ToSwitch ==
  /\ step' = "switch"
  /\ rule' = 1
  /\ UNCHANGED <<req, path, verdict>>

\* http_in: `redirect scheme https code 301 unless { ssl_fc }`.
MainRequestRule ==
  /\ step = "request"
  /\ req.front = "http_in"
  /\ IF RedirectHttp /\ ~req.ssl THEN Finish("301") ELSE ToSwitch

\* stats: /healthz, then the statistics page; there is no backend.
StatsRequestRule ==
  /\ step = "request"
  /\ req.front = "stats"
  /\ Finish(CASE path = <<"/healthz">> -> "200"
              [] PathBeg(path, <<"/stats">>) -> "stats"
              [] OTHER -> "503")

\* The first two rules of monitoring_in: the chart has the allow list first, the
\* manifest, where it is to be uncommented, /healthz.
DenyAt == IF req.conf = "chart" THEN 1 ELSE 2

\* Variation: /healthz is exempt from the allow list.
DenyRuleExempt ==
  /\ step = "request"
  /\ req.front = "monitoring_in"
  /\ rule = DenyAt
  /\ IF AllowList /\ ~req.known /\ path # <<"/healthz">> THEN Finish("403") ELSE Skip

\* monitoring_in: `deny unless mon_allowed`, if there is an allow list.
DenyRule ==
  /\ step = "request"
  /\ req.front = "monitoring_in"
  /\ rule = DenyAt
  /\ IF AllowList /\ ~req.known THEN Finish("403") ELSE Skip

\* The other of the two: `return status 200 ... if { path /healthz }`.
HealthRule ==
  /\ step = "request"
  /\ req.front = "monitoring_in"
  /\ rule = 3 - DenyAt
  /\ IF path = <<"/healthz">> THEN Finish("200") ELSE Skip

\* Rules 3 to 8: `set-path %[path,regsub(^/<app>,)] if m_<app>`.
SetPathRule ==
  /\ step = "request"
  /\ req.front = "monitoring_in"
  /\ rule \in 3 .. 2 + Len(MonSwitch)
  /\ path' = IF PathBeg(path, MonSwitch[rule - 2].acl)
             THEN SubSeq(path, 1 + Len(MonSwitch[rule - 2].acl), Len(path))
             ELSE path
  /\ IF rule = 2 + Len(MonSwitch)
     THEN step' = "switch" /\ rule' = 1
     ELSE step' = step /\ rule' = rule + 1
  /\ UNCHANGED <<req, verdict>>

\* One use_backend rule.
SwitchRule ==
  /\ step = "switch"
  /\ rule <= Len(SwitchRules)
  /\ IF /\ PathBeg(path, SwitchRules[rule].acl)
        /\ SwitchRules[rule].ws => req.ws
     THEN Finish(SwitchRules[rule].to)
     ELSE Skip

\* default_backend; bem_noop answers by itself.
DefaultRule ==
  /\ step = "switch"
  /\ rule > Len(SwitchRules)
  /\ Finish(DefaultBackend)

Init ==
  /\ req \in Request
  /\ path = req.path
  /\ step = "request"
  /\ rule = 1
  /\ verdict = "none"

Next ==
  \/ MainRequestRule
  \/ StatsRequestRule
  \/ DenyRule
  \/ HealthRule
  \/ SetPathRule
  \/ SwitchRule
  \/ DefaultRule

Spec == Init /\ [][Next]_vars

\* The declared backend sections of http_in and of monitoring_in.
MainBackend == {"be_keycloak", "be_identity", "be_optimize", "be_modeler",
                "be_modeler_ws", "be_console", "be_connectors", "be_orchestration"}

MonBackend == {"bem_orchestration", "bem_optimize", "bem_identity", "bem_console",
               "bem_modeler", "bem_connectors", "bem_noop"}

-----------------------------------------------------------------------------
\* Types; in particular every use_backend and default_backend names a backend
\* section that is declared.
TypeOK ==
  /\ req \in Request
  /\ path \in Seq(Piece)
  /\ step \in {"request", "switch", "done"}
  /\ rule \in 1 .. 9
  /\ verdict \in MainBackend \cup MonBackend \cup
                   {"none", "200", "301", "403", "503", "stats"}

(***************************************************************************)
(* The routing tables of docs/HAPROXY.md, by first segment and without     *)
(* order: the reference the rules are compared with.                       *)
(***************************************************************************)
ContextPath == [be_keycloak   |-> <<"/auth">>,
                be_identity   |-> <<"/identity">>,
                be_optimize   |-> <<"/optimize">>,
                be_modeler    |-> <<"/modeler">>,
                be_modeler_ws |-> <<"/modeler", "-ws">>,
                be_console    |-> <<"/console">>,
                be_connectors |-> <<"/connectors">>]

ManagementPath == [bem_orchestration |-> <<"/orchestration">>,
                   bem_optimize      |-> <<"/optimize">>,
                   bem_identity      |-> <<"/identity">>,
                   bem_console       |-> <<"/console">>,
                   bem_modeler       |-> <<"/web-modeler">>,
                   bem_connectors    |-> <<"/connectors">>]

\* The first segment of path p is exactly seg.
FirstSegment(p, seg) ==
  /\ PathBeg(p, seg)
  /\ Len(p) > Len(seg) => p[Len(seg) + 1] \in Segment

\* A request for /<app>/... that gets to the use_backend rules of http_in goes
\* to that app alone, websocket upgrades under /modeler to the websocket
\* server, and what begins with no app's prefix to orchestration: the order of
\* the rules never lets a shorter prefix take what a longer one should have.
MainRouting ==
  step = "done" /\ req.front = "http_in" /\ verdict # "301" =>
    /\ \A b \in DOMAIN ContextPath : FirstSegment(req.path, ContextPath[b]) =>
         verdict = IF b = "be_modeler" /\ req.ws THEN "be_modeler_ws" ELSE b
    /\ (\A b \in DOMAIN ContextPath : ~PathBeg(req.path, ContextPath[b])) =>
         verdict = "be_orchestration"
    /\ path = req.path

\* With an allow list, a client outside it gets nothing but 403 from the
\* monitoring port, whatever path it asks for: from the chart's not even
\* /healthz, from the manifest's /healthz at most.
StrangersDenied ==
  AllowList /\ req.front = "monitoring_in" /\ ~req.known =>
    \/ verdict \in {"none", "403"}
    \/ req.conf = "manifest" /\ req.path = <<"/healthz">> /\ verdict = "200"

\* GET /<app>/actuator/... on the monitoring port reaches the app's management
\* backend, with the prefix taken off the path.
MonitoringRouting ==
  step = "done" /\ req.front = "monitoring_in" /\ verdict # "403" =>
    \A b \in DOMAIN ManagementPath :
      PathBeg(req.path, ManagementPath[b] \o <<"/actuator">>) =>
        /\ verdict = b
        /\ path = SubSeq(req.path, 1 + Len(ManagementPath[b]), Len(req.path))
=============================================================================
