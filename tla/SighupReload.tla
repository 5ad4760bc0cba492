---------------------------- MODULE SighupReload ----------------------------
(***************************************************************************)
(* The process around the MCP server (pkg/kubernetes-mcp-server/cmd): how   *)
(* the start-up configuration is put together, how SIGHUP replaces it, and  *)
(* what a request passing the HTTP authorization middleware sees meanwhile. *)
(*                                                                         *)
(* One configuration lives in four places that are written one after the    *)
(* other by one goroutine and read without a lock by the requests: the MCP  *)
(* server's configuration, the log sink, cfgState (StaticConfigState) and   *)
(* oauthState (oauth.State).  ApplyConfiguration is one step here; module   *)
(* ToolsetReload is about what happens inside it.                           *)
(***************************************************************************)
EXTENDS Naturals

CONSTANTS File,        \* configurations config.Read can return
          Rejected,    \* those whose tools the convert phase refuses
          Unreadable,  \* config.Read fails
          Flags,       \* settings given on the command line
          Token,       \* bearer tokens of requests
          Request,     \* concurrent requests
          Nil          \* the nil pointer

\* Every setting that is not about OAuth or logging behaves as readOnly;
\* certificateAuthority stands for the TLS settings of the outbound client
\* (certificate_authority, tls_min_version, tls_cipher_suites).
Field == {"readOnly", "logFile", "requireOAuth", "skipJWTVerification",
          "authorizationURL", "certificateAuthority", "requireTLS",
          "oauthAudience", "oauthScopes"}

Unset == ""
Stderr == "stderr"

ASSUME FileAssumption == \A f \in File : DOMAIN f = Field
ASSUME UnreadableAssumption == Unreadable \notin File
ASSUME NilAssumption == Nil \notin {"served", "unauthorized", "misconfigured"}

\* Complete: the command line overrides the file (loadFlags), and OAuth is
\* not required on stdio.
Complete(flags, file, http) ==
    LET loaded == [f \in Field |-> IF f \in DOMAIN flags THEN flags[f]
                                                        ELSE file[f]]
    IN  [loaded EXCEPT !["requireOAuth"] = @ /\ http]

Config == File \cup {Complete(g, f, h) : g \in Flags, f \in File, h \in BOOLEAN}

\* A mistake the properties below must notice: no validation on reload.
ValidatesNothing(c) == TRUE

\* The parts of StaticConfig.Validate that tie these settings together.  The
\* authorization URLs here are https ones, which require_tls accepts.
Valid(c) ==
    /\ ~c["requireOAuth"] => /\ c["oauthAudience"] = Unset
                             /\ c["authorizationURL"] = Unset
                             /\ c["certificateAuthority"] = Unset
    /\ c["requireOAuth"] /\ c["authorizationURL"] = Unset
           => c["skipJWTVerification"]

\* A provider for the issuer of c, and its HTTP client, whose transport
\* enforces require_tls or not.
Provider(c, requireTLS) ==
    IF c["authorizationURL"] = Unset THEN Nil
    ELSE [issuer |-> c["authorizationURL"],
          roots |-> c["certificateAuthority"],
          requireTLS |-> requireTLS]

\* The transport asks the IsRequireTLS of the configuration it was built from,
\* which never changes.
NewProvider(c) == Provider(c, c["requireTLS"])

SnapshotFromConfig(c, provider) ==
    [provider |-> provider,
     authorizationURL |-> c["authorizationURL"],
     certificateAuthority |-> c["certificateAuthority"],
     scopes |-> c["oauthScopes"]]

HasProviderConfigChanged(s, t) ==
    \/ s.authorizationURL # t.authorizationURL
    \/ s.certificateAuthority # t.certificateAuthority

HasWellKnownConfigChanged(s, t) ==
    HasProviderConfigChanged(s, t) \/ s.scopes # t.scopes

Issuer == {c["authorizationURL"] : c \in Config} \ {Unset}

VARIABLES
    disk,           \* what config.Read would return now
    up,             \* issuers whose discovery document can be fetched
    silent,         \* issuers that accept a request and do not answer it
    asked,          \* a SIGHUP came after the last change of these three,
                    \* and the process still has to obey it
    pending,        \* sigHupCh holds a signal (its capacity is 1)
    main,           \* the goroutine of Run and of its deferred calls
    http,           \* a port is configured
    pc,             \* the SIGHUP goroutine
    newConfig,      \* its local newConfig
    configuration,  \* mcp.Server's configuration
    sink,           \* where the log sink writes: a log_file value
    sinkClosed,     \* the deferred Close of the sink has run
    cfgState, oauthState,
    request         \* per request: its progress, what it read, and whether
                    \* the provider it read is the one of its configuration

processVars == <<disk, up, silent, asked, http>>
liveVars == <<configuration, sink, sinkClosed, cfgState, oauthState>>
vars == <<disk, up, silent, asked, pending, main, http, pc, newConfig, configuration,
          sink, sinkClosed, cfgState, oauthState, request>>

NoRequest == [at |-> "idle", token |-> Nil, config |-> Nil, answer |-> Nil,
              agrees |-> TRUE]

Init == \E g \in Flags, f \in File, h \in BOOLEAN :
        LET c == Complete(g, f, h) IN
        /\ Valid(c) /\ c \notin Rejected
        /\ disk = f
        /\ up = Issuer
        /\ silent = {}
        /\ asked = FALSE
        /\ pending = FALSE
        /\ main = "serving"
        /\ http = h
        /\ pc = "wait"
        /\ newConfig = Nil
        /\ configuration = c
        /\ sink = c["logFile"]
        /\ sinkClosed = FALSE
        /\ cfgState = c
        /\ oauthState = SnapshotFromConfig(c, NewProvider(c))
        /\ request = [q \in Request |-> NoRequest]

\* The loop goes round: newConfig is out of scope.
Continue == pc' = "wait" /\ newConfig' = Nil

-----------------------------------------------------------------------------
(* Plausible mistakes in this code, used to show that the properties below  *)
(* notice them.                                                             *)

\* signal.Notify on an unbuffered channel: a signal is dropped unless the
\* goroutine is waiting for one.
UnbufferedSignal ==
    /\ main = "serving"
    /\ pending' = (pending \/ pc = "wait")
    /\ asked' = TRUE
    /\ UNCHANGED <<disk, up, silent, main, http, pc, newConfig, liveVars,
                   request>>

\* cfgState is stored before the MCP server had its say.
PublishesFirst ==
    /\ pc = "read"
    /\ IF disk = Unreadable
       THEN Continue /\ UNCHANGED cfgState
       ELSE pc' = "apply" /\ newConfig' = disk /\ cfgState' = disk
    /\ UNCHANGED <<processVars, pending, main, configuration, sink, sinkClosed,
                   oauthState, request>>

\* A failed discovery stores the new snapshot with the old provider.
FailureIsStored ==
    /\ pc = "oidc"
    /\ LET ok == newConfig["authorizationURL"] \in up \cup {Unset}
       IN  oauthState' = SnapshotFromConfig(newConfig,
               IF ok THEN NewProvider(newConfig) ELSE oauthState.provider)
    /\ Continue
    /\ UNCHANGED <<processVars, pending, main, configuration, sink,
                   sinkClosed, cfgState, request>>

\* stop does not wait for the goroutine.
StopDoesNotWait ==
    /\ main = "stopping"
    /\ main' = "drained"
    /\ UNCHANGED <<processVars, pending, pc, newConfig, liveVars, request>>

\* stop forgets to close the channel: the goroutine only wakes for a signal.
ExitsOnSignal ==
    /\ pc = "wait"
    /\ main = "stopping"
    /\ pending
    /\ pc' = "done"
    /\ UNCHANGED <<processVars, pending, main, newConfig, liveVars, request>>

-----------------------------------------------------------------------------
(* The world.                                                              *)

\* An operator edits the configuration files.  What happens to them once
\* the process no longer reads them is left out, here and below.
EditFile ==
    /\ main \in {"serving", "stopping"}
    /\ disk' \in (File \cup {Unreadable}) \ {disk}
    /\ asked' = FALSE
    /\ UNCHANGED <<up, silent, pending, main, http, pc, newConfig, liveVars,
                   request>>

\* Issuers become reachable, unreachable or silent.
IssuersChange ==
    /\ main \in {"serving", "stopping"}
    /\ up' \in SUBSET Issuer
    /\ silent' \in SUBSET (Issuer \ up')
    /\ <<up', silent'>> # <<up, silent>>
    /\ asked' = FALSE
    /\ UNCHANGED <<disk, pending, main, http, pc, newConfig, liveVars, request>>

\* SIGHUP is delivered: the runtime's send does not block, so a signal that
\* finds the channel full is dropped.
Signal ==
    /\ main = "serving"
    /\ pending' = TRUE
    /\ asked' = TRUE
    /\ UNCHANGED <<disk, up, silent, main, http, pc, newConfig, liveVars,
                   request>>

-----------------------------------------------------------------------------
(* The SIGHUP goroutine: one action per store another goroutine can see.    *)

Receive ==
    /\ pc = "wait"
    /\ pending
    /\ pending' = FALSE
    /\ pc' = "read"
    /\ UNCHANGED <<processVars, main, newConfig, liveVars, request>>

\* config.Read.
ReadConfig ==
    /\ pc = "read"
    /\ IF disk = Unreadable
       THEN Continue
       ELSE pc' = "apply" /\ newConfig' = disk
    /\ UNCHANGED <<processVars, pending, main, liveVars, request>>

\* mcpServer.ReloadConfiguration; on an error nothing else is updated.
ApplyConfiguration ==
    /\ pc = "apply"
    /\ IF Valid(newConfig) /\ newConfig \notin Rejected
       THEN configuration' = newConfig /\ pc' = "log" /\ UNCHANGED newConfig
       ELSE Continue /\ UNCHANGED configuration
    /\ UNCHANGED <<processVars, pending, main, sink, sinkClosed,
                   cfgState, oauthState, request>>

\* logSink.Reload: opening a log file may fail, which keeps the previous
\* destination and is not fatal.
ReloadLog ==
    /\ pc = "log"
    /\ \/ sink' = newConfig["logFile"]
       \/ newConfig["logFile"] \notin {Unset, Stderr} /\ UNCHANGED sink
    /\ pc' = "publish"
    /\ UNCHANGED <<processVars, pending, main, newConfig, configuration,
                   sinkClosed, cfgState, oauthState, request>>

\* cfgState.Store.
PublishConfig ==
    /\ pc = "publish"
    /\ cfgState' = newConfig
    /\ pc' = "compare"
    /\ UNCHANGED <<processVars, pending, main, newConfig, configuration, sink,
                   sinkClosed, oauthState, request>>

\* The new snapshot keeps provider and client when only served metadata
\* changed; when the provider's settings changed it must be built first.
CompareSnapshots ==
    /\ pc = "compare"
    /\ LET new == SnapshotFromConfig(newConfig, oauthState.provider) IN
       \/ /\ HasProviderConfigChanged(oauthState, new)
          /\ pc' = "oidc"
          /\ UNCHANGED <<newConfig, oauthState>>
       \/ /\ ~HasProviderConfigChanged(oauthState, new)
          /\ oauthState' = IF HasWellKnownConfigChanged(oauthState, new)
                           THEN new ELSE oauthState
          /\ Continue
    /\ UNCHANGED <<processVars, pending, main, configuration, sink,
                   sinkClosed, cfgState, request>>

Discovered == SnapshotFromConfig(newConfig, NewProvider(newConfig))

\* CreateOIDCProviderAndClient, which fetches the issuer's discovery document
\* unless no issuer is configured, and oauthState.Store.  The request has
\* neither a context that ends nor a timeout.
CreateOIDCProviderAndClient ==
    /\ pc = "oidc"
    /\ LET url == newConfig["authorizationURL"] IN
       \/ /\ url \in up \cup {Unset}
          /\ oauthState' = Discovered
          /\ Continue
       \/ /\ url \notin up \cup silent \cup {Unset}
          /\ UNCHANGED oauthState
          /\ Continue
       \/ /\ url \in silent
          /\ pc' = "hung"
          /\ UNCHANGED <<newConfig, oauthState>>
    /\ UNCHANGED <<processVars, pending, main, configuration, sink,
                   sinkClosed, cfgState, request>>

\* A silent issuer answers after all, or closes the connection.
DiscoveryEnds ==
    /\ pc = "hung"
    /\ oauthState' \in {oauthState, Discovered}
    /\ Continue
    /\ UNCHANGED <<processVars, pending, main, configuration, sink,
                   sinkClosed, cfgState, request>>

\* The channel is closed and drained: the range loop ends.
HandlerExits ==
    /\ pc = "wait"
    /\ main = "stopping"
    /\ ~pending
    /\ pc' = "done"
    /\ UNCHANGED <<processVars, pending, main, newConfig, liveVars, request>>

-----------------------------------------------------------------------------
(* Shutdown: the deferred calls of Run and RunE, innermost first.           *)

\* Serve or ServeStdio returned; signal.Stop and close(sigHupCh).  Serve
\* waits for its requests only so long, so some may still be under way.
StopBegins ==
    /\ main = "serving"
    /\ main' = "stopping"
    /\ asked' = FALSE
    /\ UNCHANGED <<disk, up, silent, http, pending, pc, newConfig, liveVars,
                   request>>

\* <-done.
StopEnds ==
    /\ main = "stopping"
    /\ pc = "done"
    /\ main' = "drained"
    /\ UNCHANGED <<processVars, pending, pc, newConfig, liveVars, request>>

\* logSink.Close: the writer is errOut again and no file is open.
CloseSink ==
    /\ main = "drained"
    /\ main' = "exited"
    /\ sink' = Stderr
    /\ sinkClosed' = TRUE
    /\ UNCHANGED <<processVars, pending, pc, newConfig, configuration, cfgState,
                   oauthState, request>>

-----------------------------------------------------------------------------
(* AuthorizationMiddleware.                                                *)

\* What is decided from the configuration and the token alone; Nil when the
\* provider has to be asked.
Offline(c, token) ==
    CASE ~c["requireOAuth"] -> "served"
      [] c["requireOAuth"] /\ token.kind = "none" -> "unauthorized"
      [] c["requireOAuth"] /\ token.kind # "none"
            /\ c["skipJWTVerification"] /\ c["authorizationURL"] = Unset
            -> "served"
      [] OTHER -> IF /\ token.kind = "jwt"
                     /\ c["oauthAudience"] \in {Unset, token.audience}
                  THEN Nil ELSE "unauthorized"

\* What the provider of a snapshot says of a token that passed Offline.
Online(c, provider, token) ==
    CASE provider = Nil /\ c["authorizationURL"] # Unset -> "unavailable"
      [] provider = Nil /\ c["authorizationURL"] = Unset -> "misconfigured"
      [] OTHER -> IF token.issuer = provider.issuer THEN "served"
                                                    ELSE "unauthorized"

\* cfgState.Load and the checks that need nothing else.
Authorize(q) ==
    /\ main = "serving"
    /\ http
    /\ request[q].at = "idle"
    /\ \E t \in Token :
        LET a == Offline(cfgState, t) IN
        request' = [request EXCEPT ![q] =
            IF a = Nil
            THEN [NoRequest EXCEPT !.at = "verify", !.token = t,
                                   !.config = cfgState]
            ELSE [NoRequest EXCEPT !.at = "answered", !.answer = a]]
    /\ UNCHANGED <<processVars, pending, main, pc, newConfig, liveVars>>

\* oauthState.Load and the provider's verdict.
Verify(q) ==
    /\ request[q].at = "verify"
    /\ LET c == request[q].config
           p == oauthState.provider
       IN  request' = [request EXCEPT ![q] =
               [NoRequest EXCEPT !.at = "answered",
                                 !.answer = Online(c, p, request[q].token),
                                 !.agrees = p = NewProvider(c)]]
    /\ UNCHANGED <<processVars, pending, main, pc, newConfig, liveVars>>

Answer(q) ==
    /\ request[q].at = "answered"
    /\ request' = [request EXCEPT ![q] = NoRequest]
    /\ UNCHANGED <<processVars, pending, main, pc, newConfig, liveVars>>

-----------------------------------------------------------------------------
Handler == \/ Receive \/ ReadConfig \/ ApplyConfiguration \/ ReloadLog
           \/ PublishConfig \/ CompareSnapshots \/ CreateOIDCProviderAndClient
           \/ HandlerExits

Shutdown == StopEnds \/ CloseSink

\* The process has ended.
Terminated == main = "exited" /\ UNCHANGED vars

Next == \/ EditFile \/ IssuersChange \/ Signal
        \/ Handler \/ DiscoveryEnds
        \/ StopBegins \/ Shutdown
        \/ \E q \in Request : Authorize(q) \/ Verify(q) \/ Answer(q)
        \/ Terminated

\* A goroutine that can take a step takes it.  Nothing obliges a silent issuer
\* to end the wait.
Spec == Init /\ [][Next]_vars /\ WF_vars(Handler) /\ WF_vars(Shutdown)

-----------------------------------------------------------------------------
(* Properties.                                                             *)

RequireTLS == {c["requireTLS"] : c \in Config}

Providers == {Provider(c, r) : c \in Config, r \in RequireTLS}

\* Snapshot s holds the settings of c and the provider and client built from
\* them, but for require_tls, which may be an older configuration's.
BuiltFor(s, c) == \E r \in RequireTLS : s = SnapshotFromConfig(c, Provider(c, r))

\* Every variable keeps its type; newConfig is set exactly while a
\* reload uses it.
TypeOK ==
    /\ disk \in File \cup {Unreadable}
    /\ up \in SUBSET Issuer /\ silent \in SUBSET (Issuer \ up)
    /\ asked \in BOOLEAN /\ pending \in BOOLEAN /\ http \in BOOLEAN
    /\ main \in {"serving", "stopping", "drained", "exited"}
    /\ pc \in {"wait", "read", "apply", "log", "publish", "compare", "oidc",
               "hung", "done"}
    /\ newConfig \in IF pc \in {"wait", "read", "done"} THEN {Nil} ELSE File
    /\ configuration \in Config /\ cfgState \in Config
    /\ sink \in {c["logFile"] : c \in Config} \cup {Stderr}
    /\ sinkClosed = (main = "exited")
    /\ oauthState.provider \in Providers
    /\ request \in [Request -> [at : {"idle", "verify", "answered"},
                                token : Token \cup {Nil},
                                config : Config \cup {Nil},
                                agrees : BOOLEAN,
                                answer : {"served", "unauthorized", "unavailable",
                                          "misconfigured", Nil}]]

\* "Snapshot is an immutable point-in-time capture": the provider and client
\* of a stored snapshot were built from the very settings it holds, whatever
\* order of reloads, failed discoveries and metadata-only changes led to it.
\* (require_tls is not among the settings a snapshot holds.)
SnapshotIsWhole == \E c \in Config : BuiltFor(oauthState, c)

\* "we skip the OAuth state and config state updates to avoid inconsistent
\* state": between reloads the middleware's configuration is the MCP server's,
\* and the OAuth snapshot either belongs to it or differs from it in a way the
\* next SIGHUP detects, so that a failed discovery is retried and never
\* taken for done.  require_tls is the one setting of the client whose
\* staleness no reload detects.
ReloadedTogether ==
    pc \in {"wait", "read", "apply", "done"} =>
        /\ cfgState = configuration
        /\ \/ BuiltFor(oauthState, cfgState)
           \/ HasProviderConfigChanged(oauthState,
                  SnapshotFromConfig(cfgState, oauthState.provider))

\* "The RequireTLS function is called per-request, allowing dynamic config
\* changes (e.g., SIGHUP)": between reloads a client that belongs to the
\* configuration enforces its require_tls.  The code does not keep this: a
\* reload that changes only require_tls keeps the client.
RequireTLSIsLive ==
    pc = "wait" /\ BuiltFor(oauthState, cfgState) =>
        oauthState.provider = NewProvider(cfgState)

\* The middleware's last resort, the 500 for "JWT verification not
\* configured", is unreachable: only validated configurations are published,
\* and a request keeps the one it loaded while the OAuth state moves on.
NeverMisconfigured == \A q \in Request : request[q].answer # "misconfigured"

\* stop "waits for the goroutine to drain" because the goroutine uses the log
\* sink: no reload is running when the sink is closed, not even one for a
\* signal that was queued at shutdown, so no log file is reopened after it.
SinkOutlivesHandler ==
    sinkClosed => pc = "done" /\ sink = Stderr

\* A SIGHUP sent after the last edit is enough, however many reloads are
\* under way and however many signals are coalesced: a loadable file whose
\* issuer can be reached ends up in all three places, require_tls of the
\* client excepted, unless a discovery waits for ever for a silent issuer.
Loadable == /\ asked /\ main = "serving"
            /\ disk # Unreadable
            /\ disk \notin Rejected /\ Valid(disk)
            /\ disk["authorizationURL"] \in up \cup {Unset}

Applied == /\ configuration = disk /\ cfgState = disk
           /\ BuiltFor(oauthState, disk)

DiscoveriesEnd == []<>(pc # "hung")

LastSignalWins == DiscoveriesEnd => (Loadable ~> (Applied \/ ~Loadable))

\* stop returns whatever reloads are queued or under way, unless one of them
\* waits for ever for a silent issuer: <-done has no timeout either.
StopReturns == DiscoveriesEnd => (main = "stopping" ~> main = "exited")

\* Shutdown never hangs in stop, whatever the goroutine is doing.  The code
\* does not keep this.
StopAlwaysReturns == main = "stopping" ~> main = "exited"

\* "CLI arguments override TOML configuration values": a setting given on the
\* command line has the value given there.
FlagsWin == \E g \in Flags : \A f \in DOMAIN g : configuration[f] = g[f]

\* "SIGHUP-reloaded auth settings take effect immediately": the provider that
\* admits a request is the one of the configuration the request loaded.
\* It does not hold while, and after, the new issuer's discovery fails.
ReloadedSettingsApply ==
    \A q \in Request : request[q].answer = "served" => request[q].agrees
=============================================================================
